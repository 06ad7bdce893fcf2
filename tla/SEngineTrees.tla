---------------------------- MODULE SEngineTrees ----------------------------
(***************************************************************************)
(* Trees the engine runs: register_dongle_v2, the program of the bus       *)
(* controller dongle, and small ones in the manner of the engine's tests.  *)
(***************************************************************************)
EXTENDS SEngine

Main1(fn, kids, arg) == [type |-> "main", fn |-> fn, kids |-> kids, arg |-> arg]
Chain(kids) == Main1("chain_flow", kids, 0)
Return(res) == Main1("return", <<>>, res)
Leaf(fn, arg) == Main1(fn, <<>>, arg)
Once(fn, arg) == [type |-> "oneshot", fn |-> fn, kids |-> <<>>, arg |-> arg]
Pred(fn, kids, arg) == [type |-> "pred", fn |-> fn, kids |-> kids, arg |-> arg]

\* The dongle is commissioned; handle_register_ack then writes L1_DONE.
Dongle ==
  [field |-> "boot", events |-> {"ACK", "GET", "BEGIN", "PING", "SHELL", "REATTACH"}, nodes |-> <<
    Main1("function_interface", <<2, 3, 4, 5>>, 0),
    [type |-> "io", fn |-> "set_field", kids |-> <<>>, arg |-> "boot"],
    Leaf("handle_internal_events", 0),
    Main1("state_machine", <<6, 18, 28, 44>>, <<"boot", "l1", "op", "default">>),
    Return("HALT"),
    Main1("fork", <<7, 11>>, 0),                                  \* 6: BOOT
      Chain(<<8, 9, 10>>), Once("send_register", 0), Leaf("tick_delay", 0),
        Return("PIPELINE_RESET"),
      Main1("event_dispatch", <<12, 15>>, <<"ACK", "default">>),
        Chain(<<13, 14>>), Once("set_field", "l1"), Return("PIPELINE_RESET"),
        Chain(<<16, 17>>), Once("send_nak", 0), Return("PIPELINE_RESET"),
    Main1("event_dispatch", <<19, 22, 25>>, <<"GET", "BEGIN", "default">>),  \* 18: L1_DONE
      Chain(<<20, 21>>), Once("send_manifest_reply", 0), Return("PIPELINE_RESET"),
      Chain(<<23, 24>>), Once("set_field", "op"), Return("PIPELINE_RESET"),
      Chain(<<26, 27>>), Once("send_nak", 0), Return("PIPELINE_RESET"),
    Main1("fork", <<29, 33, 34>>, 0),                             \* 28: OPERATIONAL
      Chain(<<30, 31, 32>>), Once("send_heartbeat", 0), Leaf("tick_delay", 3),
        Return("PIPELINE_RESET"),
      Return("PIPELINE_CONTINUE"),                                \* 33: toggle_led
      Main1("event_dispatch", <<35, 38, 47, 41>>, <<"PING", "GET", "SHELL", "default">>),
        Chain(<<36, 37>>), Once("send_pong", 0), Return("PIPELINE_RESET"),
        Chain(<<39, 40>>), Once("send_manifest_reply", 0), Return("PIPELINE_RESET"),
        Chain(<<42, 43>>), Once("send_nak", 0), Return("PIPELINE_RESET"),
    Chain(<<45, 46>>), Once("log", 0), Return("TERMINATE"),       \* 44: unknown state
        Chain(<<48, 49>>), Once("handle_shell_exec", 0), Return("PIPELINE_RESET") >>]

\* loop_test: a loop whose body joins a sequence and a second function.
Loop ==
  [field |-> "none", events |-> {}, nodes |-> <<
    Main1("function_interface", <<2, 12>>, 0),
    Main1("while", <<3, 4>>, 0),
      Pred("user_pred", <<>>, 0),
      Main1("fork_join", <<5, 6, 10, 11>>, 0),
        Once("log", 0),
        Main1("sequence", <<7, 8, 9>>, 0),
          Once("log", 0), Leaf("user", 0), Once("log", 0),
        Leaf("user", 0),
        Pred("true", <<>>, 0),
    Main1("sequence_once", <<13, 14>>, 0), Once("log", 0), Leaf("user", 0) >>]

\* state_machine_test: two states that hand over to each other, one after a
\* delay, the other when an event it queues itself comes round.
Hand ==
  [field |-> "a", events |-> {"GO"}, nodes |-> <<
    Main1("function_interface", <<2, 14>>, 0),
    Main1("state_machine", <<3, 7>>, <<"a", "default">>),
      Main1("sequence", <<4, 5, 6>>, 0),
        Once("log", 0), Leaf("tick_delay", 1), Once("set_field", "b"),
      Main1("sequence", <<8, 9, 10, 11>>, 0),
        Once("log", 0), Once("queue_event", "GO"),
        Leaf("wait_event", [event |-> "GO", count |-> 1]),
        Main1("if_then_else", <<12, 13>>, 0),
          Pred("field_eq", <<>>, "b"), Once("set_field", "a"),
    Main1("field_dispatch", <<15, 16>>, <<"b", "default">>),
      Leaf("user", 0), Return("PIPELINE_CONTINUE") >>]

\* basic_primitive_test and the composites' tests: an edge and a condition.
Watch ==
  [field |-> "none", events |-> {}, nodes |-> <<
    Main1("function_interface", <<2, 11>>, 0),
    Main1("trigger_on_change", <<3, 5, 8>>, 0),
      Pred("pred_not", <<4>>, 0), Pred("user_pred", <<>>, 0),
      Chain(<<6, 7>>), Once("log", 0), Return("PIPELINE_DISABLE"),
      Chain(<<9, 10>>), Once("log", 0), Return("PIPELINE_CONTINUE"),
    Main1("cond", <<12, 15, 16, 17>>, 0),
      Pred("pred_and", <<13, 14>>, 0), Pred("user_pred", <<>>, 0), Pred("true", <<>>, 0),
      Leaf("user", 0), Pred("true", <<>>, 0),
      Chain(<<18>>), Leaf("user", 0) >>]

\* advanced_primitive_test: waits and verifications with their error functions.
Limits ==
  [field |-> "none", events |-> {"BAD"}, nodes |-> <<
    Main1("function_interface", <<2, 7>>, 0),
    Main1("fork", <<3, 6>>, 0),
      Main1("wait_timeout", <<4, 5>>, TRUE), Pred("user_pred", <<>>, 0), Once("log", 0),
      Leaf("time_delay", 0),
    Main1("fork", <<8, 10, 13, 15>>, 0),
      Main1("verify_events", <<9>>, [event |-> "BAD", count |-> 1, reset |-> TRUE]),
        Once("log", 0),
      Main1("verify", <<11, 12>>, FALSE), Pred("user_pred", <<>>, 0), Once("log", 0),
      Main1("verify_time", <<14>>, TRUE), Once("log", 0),
      Main1("wait", <<16>>, 0), Pred("pred_or", <<17>>, 0), Pred("check_event", <<>>, "BAD") >>]

\* A condition for which no case need match.
Bare ==
  [field |-> "none", events |-> {}, nodes |-> <<
    Main1("function_interface", <<2>>, 0),
    Main1("cond", <<3, 4>>, 0), Pred("user_pred", <<>>, 0), Leaf("user", 0) >>]

AllTrees == <<Dongle, Loop, Hand, Watch, Limits, Bare>>
ASSUME TreesTidy == \A k \in DOMAIN AllTrees : Tidy(AllTrees[k])
-----------------------------------------------------------------------------
FiredNext(n) == \E k \in DOMAIN inst'.log : inst'.log[k][1] = n
GaveNext(n, results) ==
  \E k \in DOMAIN inst'.log : inst'.log[k][1] = n /\ inst'.log[k][2] \in results

\* The host's commands that send_nak refuses; it is silent about the rest.
Answers ==
  LET Speaks(e) == \/ Fn(e[1]) \in {"send_manifest_reply", "send_pong", "handle_shell_exec"}
                   \/ Fn(e[1]) = "send_nak" /\ e[2] \notin {"TICK", "REATTACH"}
      spoken == SelectSeq(inst.log, Speaks)
  IN [k \in DOMAIN spoken |-> Fn(spoken[k][1])]

OnDongle(value, otherwise) == IF tree = Dongle THEN value ELSE otherwise
Ladder == INSTANCE DongleLadder WITH
  Depth <- QueueSize,
  rung <- OnDongle(IF inst.dead THEN "down" ELSE inst.field, "boot"),
  queue <- OnDongle(IF inst.dead THEN <<>> ELSE inst.queue, <<>>),
  answers <- OnDongle(Answers, <<>>)

\* The engine running register_dongle_v2 keeps the dongle's promise: every
\* command that was queued is served, in order, by the handler its state has
\* for it and by no other, and nothing else moves dongle_state.
KeepsLadder == Ladder!LadderSpec

\* tick_and_drain empties the queue: no accepted command waits for ever.
ServesAll == Ladder!Served

\* se_fork_join holds the loop's body until every function of it is through:
\* no iteration ends while one still runs, which would cut it off, and none
\* leaves a function behind initialised.  A reset ends a step of a sequence.
JoinWaits ==
  [][tree = Loop /\ inst.node[2].state = 1 /\ inst'.node[2].state = 0 =>
       /\ ~inst.node[8].active \/ GaveNext(8, Ended \cup {"PIPELINE_RESET"})
       /\ ~inst.node[10].active \/ GaveNext(10, Ended)
       /\ {8, 10} \cap inst'.live = {}]_vars

\* An action of se_trigger_on_change runs at every edge of its condition and
\* at no other tick, the ones after the first too.
EdgesFire ==
  [][tree = Watch /\ ~inst'.draining /\ inst'.node[1].init =>
       LET before == inst.node[2].state
           after == inst'.node[2].state
       IN /\ FiredNext(6) <=> before = 0 /\ after = 1
          /\ FiredNext(9) <=> before = 1 /\ after = 0]_vars

\* Two states that hand over to each other do so for ever, as long as the event
\* queue is not overrun: se_state_machine makes the entered state ready all the
\* way down.
HandsOver ==
  /\ (tree = Hand /\ inst.field = "a") ~> (inst.field = "b" \/ inst.dead)
  /\ (tree = Hand /\ inst.field = "b") ~> (inst.field = "a" \/ inst.dead)
=============================================================================
