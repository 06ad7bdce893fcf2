------------------------------ MODULE SEngine ------------------------------
(***************************************************************************)
(* The S-expression engine: one tree instance, its nodes' flags and the    *)
(* builtin control functions, ticked with one event at a time.  A node is  *)
(* a callable (OPEN_CALL) of the tree; its non-callable parameters are its *)
(* arg.  An invocation takes the instance and gives back the instance and  *)
(* a result code, as the C functions do.                                   *)
(***************************************************************************)
EXTENDS Integers, Sequences, FiniteSets

CONSTANTS Trees,        \* the trees that may be loaded, in a sequence
          QueueSize,    \* S_EXPR_EVENT_QUEUE_SIZE
          UserResults   \* result codes a user's main function may return

Words == STRING \ {"INIT", "TERMINATE"}

-----------------------------------------------------------------------------
(* The trees the compiler makes.                                           *)

\* Main functions that call and end main functions below them, and those that
\* have nothing to end: their TERMINATE does nothing.
Controls == {"sequence", "sequence_once", "function_interface", "fork", "fork_join",
             "chain_flow", "while", "if_then_else", "cond", "trigger_on_change",
             "state_machine", "field_dispatch"}
Waits == {"tick_delay", "time_delay", "wait_event", "wait", "wait_timeout"}
Verifies == {"verify", "verify_time", "verify_events"}
Simple == Waits \cup Verifies \cup {"return", "handle_internal_events"}
Silent == Simple \cup {"event_dispatch"}

\* A node comes before its children, and each but the root is a child once.
IsTree(t) ==
  LET ids == 1..Len(t.nodes)
      kids(n) == t.nodes[n].kids
  IN /\ Len(t.nodes) \in Nat \ {0} /\ DOMAIN t.nodes = ids
     /\ \A n \in ids : kids(n) \in Seq((n + 1)..Len(t.nodes)) /\ Len(kids(n)) <= 255
     /\ \A m \in ids \ {1} : \E n \in ids : \E k \in DOMAIN kids(n) : kids(n)[k] = m
     /\ \A m, n \in ids : \A j \in DOMAIN kids(m), k \in DOMAIN kids(n) :
          kids(m)[j] = kids(n)[k] => m = n /\ j = k

\* The functions there are of a type, and the children each is called with.
CallOK(d, kids) ==
  /\ \/ d.type = "main" /\ d.fn \in Controls \cup Silent \cup {"user"}
     \/ d.type = "pred" /\ d.fn # "user" /\ \A kid \in kids : kid.type = "pred"
     \/ d.type \in {"oneshot", "io"} /\ d.fn # "user" /\ kids = {}
  /\ d.fn = "user" => kids = {}
  /\ d.fn = "while" => Len(d.kids) = 2
  /\ d.fn \in {"if_then_else", "trigger_on_change"} => Len(d.kids) \in {2, 3}
  /\ d.type = "main" /\ d.fn \in Simple => \A kid \in kids : kid.type # "main"
  /\ d.type = "main" /\ d.fn \in Verifies \cup {"wait_timeout"} => kids # {}

ArgOK(d) ==
  /\ d.fn \in {"return", "set_field"} => d.arg \in STRING
  /\ d.fn = "queue_event" => d.arg \in Words
  /\ d.fn = "trigger_on_change" => d.arg \in 0..255
  /\ d.fn = "tick_delay" => d.arg \in Nat
  /\ d.fn = "wait_event" => d.arg.count \in Nat

WellFormed(t) ==
  /\ IsTree(t)
  /\ \A n \in DOMAIN t.nodes :
       LET d == t.nodes[n] IN
       CallOK(d, {t.nodes[d.kids[k]] : k \in DOMAIN d.kids}) /\ ArgOK(d)
  /\ t.nodes[1].type = "main" /\ t.field \in STRING /\ t.events \subseteq Words

\* The nodes of a part of a tree.
Subtree(t, n) ==
  LET below[m \in DOMAIN t.nodes] ==
        LET kids == t.nodes[m].kids IN {m} \cup UNION {below[kids[k]] : k \in DOMAIN kids}
  IN below[n]

\* se_event_dispatch passes TERMINATE to nobody: no user function under one, or
\* what its INIT took is never given back.
Tidy(t) ==
  \A n \in DOMAIN t.nodes :
    t.nodes[n].fn = "event_dispatch" => \A m \in Subtree(t, n) : t.nodes[m].fn # "user"

ASSUME TreesAssumption == \A k \in DOMAIN Trees : WellFormed(Trees[k])
ASSUME ResultsAssumption == UserResults \subseteq Words
ASSUME QueueAssumption == QueueSize \in Nat

VARIABLES tree,  \* the tree's definition, in ROM: its nodes, the first is the
                 \* root, the event ids it may be sent and how often
          inst   \* s_expr_tree_instance_t, and what the last step called

vars == <<tree, inst>>

\* The pipeline codes (12-17), which composites handle; all others propagate.
Pipeline == {"PIPELINE_CONTINUE", "PIPELINE_HALT", "PIPELINE_TERMINATE",
             "PIPELINE_RESET", "PIPELINE_DISABLE", "PIPELINE_SKIP"}
Running == {"PIPELINE_CONTINUE", "PIPELINE_HALT"}
Ended == {"PIPELINE_DISABLE", "PIPELINE_TERMINATE"}

\* The results, events and field values that the functions name are strings.
Names == Pipeline \cup {"CONTINUE", "FUNCTION_CONTINUE", "FUNCTION_HALT", "FUNCTION_DISABLE",
                        "FUNCTION_TERMINATE", "INIT", "TERMINATE", "TICK", "boot"}
ASSUME NamesAssumption == Names \subseteq STRING

Nodes == DOMAIN tree.nodes
Fn(n) == tree.nodes[n].fn
Kids(n) == tree.nodes[n].kids
Arg(n) == tree.nodes[n].arg
IsMain(n) == tree.nodes[n].type = "main"

\* s_expr_node_state_t: the flags, the state byte and the user data.
NodeState == [active : BOOLEAN, init : BOOLEAN, ever : BOOLEAN, state : 0..255, data : Nat]
Fresh(s) == [active |-> TRUE, init |-> FALSE, ever |-> s.ever, state |-> 0, data |-> 0]
Cleared == [active |-> FALSE, init |-> FALSE, ever |-> FALSE, state |-> 0, data |-> 0]

\* s_expr_tree_instance_t, with what the last step called (log), the user
\* functions that hold what their INIT took (live), and whether the processor
\* is in the exception handler (dead) or draining the ring.
Insts == [node : [Nodes -> NodeState], field : STRING, queue : Seq(Words),
          draining : BOOLEAN, dead : BOOLEAN, pass : BOOLEAN, res : STRING,
          log : Seq(Nodes \X STRING), live : SUBSET Nodes]

Ret(i, r) == [inst |-> i, res |-> r]
SetState(i, n, v) == [i EXCEPT !.node[n].state = v]
SetData(i, n, v) == [i EXCEPT !.node[n].data = v]
Log(i, n, what) == [i EXCEPT !.log = Append(@, <<n, what>>),
                             !.live = IF what = "INIT" THEN @ \cup {n}
                                      ELSE IF what = "TERMINATE" THEN @ \ {n} ELSE @]
-----------------------------------------------------------------------------
(* Resetting: one node, or a node and everything below it.                 *)

Below(n) == Subtree(tree, n)

ResetAll(i, nodes) ==
  [i EXCEPT !.node = [m \in DOMAIN @ |-> IF m \in nodes THEN Fresh(@[m]) ELSE @[m]]]
ChildReset(i, n) == ResetAll(i, {n})
\* [mutant of ResetRecursive] What is below the node keeps its state.
ResetShallow(i, n) == ResetAll(i, {n})
ResetRecursive(i, n) == ResetAll(i, Below(n))
ChildrenReset(i, n) == ResetAll(i, {Kids(n)[k] : k \in DOMAIN Kids(n)})
-----------------------------------------------------------------------------
(* A tree is walked by recursive functions on its nodes: what a node does   *)
(* is given by what its children do, a tuple with one function for each.    *)
(* A loop over the children is a pass: one function for each, applied to    *)
(* what the one before it has left.                                         *)

Through(F, len, start) ==
  LET after[k \in 0..len] == IF k = 0 THEN start ELSE F[k][after[k - 1]] IN after[len]
-----------------------------------------------------------------------------
(* TERMINATE: what each function does with the event, and its delivery;    *)
(* end[k] delivers it to the child k, as ChildTerminate does.              *)

\* s_expr_children_terminate_all: backward, and each is left ready to run.
ChildrenTerminate(i, n, end) ==
  LET len == Len(Kids(n))
      Back == [k \in 1..len |-> [j \in Insts |->
                 ChildReset(end[len + 1 - k][j], Kids(n)[len + 1 - k])]]
  IN Through(Back, len, i)

\* [mutant of EndEach] The children of the last pass are left as they are.
EndNone(i, n, end) == i

\* se_sequence_once ends its children forward and leaves them inactive.
EndEach(i, n, end) == Through(end, Len(Kids(n)), i)

OnTerminate(i, n, end) ==
  LET s == i.node[n] IN
  CASE Fn(n) = "user" -> Log(i, n, "TERMINATE")
    [] Fn(n) \in {"if_then_else", "cond", "trigger_on_change", "fork_join", "chain_flow"} ->
         ChildrenTerminate(i, n, end)
    [] Fn(n) \in {"fork", "function_interface"} -> SetState(ChildrenTerminate(i, n, end), n, 2)
    [] Fn(n) = "sequence" ->
         SetState(IF s.state < Len(Kids(n)) THEN end[s.state + 1][i] ELSE i, n, 0)
    [] Fn(n) = "sequence_once" -> SetState(EndEach(i, n, end), n, 0)
    [] Fn(n) = "while" -> end[2][i]
    [] Fn(n) \in {"state_machine", "field_dispatch"} /\ s.data # 0 ->
         SetData(end[s.data][i], n, 0)
    [] OTHER -> i

\* s_expr_child_terminate: only a main function, only one that was initialised.
Terminated(i, n, end) ==
  IF IsMain(n) /\ i.node[n].init THEN [OnTerminate(i, n, end) EXCEPT !.node[n] = Cleared] ELSE i

Ending ==
  LET ending[n \in Nodes] ==
        [i \in Insts |-> Terminated(i, n, [k \in DOMAIN Kids(n) |-> ending[Kids(n)[k]]])]
  IN ending
Ends(n) == [k \in DOMAIN Kids(n) |-> Ending[Kids(n)[k]]]

\* [mutant of ChildTerminate] The flags are cleared, nobody is told.
ChildForget(i, n) ==
  IF IsMain(n) /\ i.node[n].init THEN [i EXCEPT !.node[n] = Cleared] ELSE i

ChildTerminate(i, n) == Ending[n][i]

\* INIT; RUNNING is 1, COMPLETE is 2.
OnInit(i, n) ==
  CASE Fn(n) = "user" -> Log(i, n, "INIT")
    [] Fn(n) \in {"fork", "function_interface"} ->
         SetData(SetState(ChildrenReset(i, n), n, 1), n, 0)
    [] Fn(n) = "trigger_on_change" -> SetState(i, n, Arg(n))
    [] Fn(n) = "tick_delay" -> SetData(i, n, Arg(n) + 1)
    [] Fn(n) = "wait_event" -> SetData(i, n, Arg(n).count)
    [] Fn(n) \in {"sequence", "sequence_once", "while"} -> SetState(i, n, 0)
    [] Fn(n) \in {"cond", "state_machine", "field_dispatch", "verify_events"} -> SetData(i, n, 0)
    [] OTHER -> i
-----------------------------------------------------------------------------
(* The tick of each function.  in carries the event id, the predicates and *)
(* timers that are true now, and the result of each user main function.    *)

Holds(i, n, in) ==
  LET holds[m \in Nodes] ==
        LET kids == {Kids(m)[k] : k \in DOMAIN Kids(m)} IN
        CASE Fn(m) = "pred_and" -> \A kid \in kids : holds[kid]
          [] Fn(m) = "pred_or" -> \E kid \in kids : holds[kid]
          [] Fn(m) = "pred_not" -> ~holds[Kids(m)[1]]
          [] Fn(m) = "check_event" -> in.event = Arg(m)
          [] Fn(m) = "field_eq" -> i.field = Arg(m)
          [] Fn(m) = "true" -> TRUE
          [] OTHER -> m \in in.true
  IN holds[n]

\* [mutant of Push] The ring has no end.
PushAlways(i, event) == [i EXCEPT !.queue = Append(@, event)]

\* cfl_exception_handler spins until the watchdog resets the processor.
Exception(i) == [i EXCEPT !.dead = TRUE]

\* s_expr_event_push: a full ring is an exception.
Push(i, event) ==
  IF Len(i.queue) >= QueueSize THEN Exception(i) ELSE [i EXCEPT !.queue = Append(@, event)]

\* dispatch_oneshot: once after a reset, or once in the life of the instance.
Oneshot(i, n, in) ==
  LET once == IF tree.nodes[n].type = "io" THEN "ever" ELSE "init"
      done == Log([i EXCEPT !.node[n][once] = TRUE], n, in.event)
  IN IF i.node[n][once] THEN i
     ELSE CASE Fn(n) = "set_field" -> [done EXCEPT !.field = Arg(n)]
            [] Fn(n) = "queue_event" -> Push(done, Arg(n))
            [] OTHER -> done

\* A pass that calls the children: the instance so far, the result that counts
\* when it is over, whether it goes on, and whether a child is still running.
Visits == [inst : Insts, res : STRING, go : BOOLEAN, alive : BOOLEAN]
Visit(i) == [inst |-> i, res |-> "PIPELINE_CONTINUE", go |-> TRUE, alive |-> FALSE]
Go(v, i) == [v EXCEPT !.inst = i]
GoAlive(v, i) == [v EXCEPT !.inst = i, !.alive = TRUE]
Leave(v, i, res) == [v EXCEPT !.inst = i, !.res = res, !.go = FALSE]

\* se_sequence: past oneshots and predicates, up to the first main function
\* that is still running; the state byte is the number of children passed.
SequenceVisit(v, n, k, call) ==
  LET kid == Kids(n)[k]
      x == call[k][v.inst]
      Past(j) == Go(v, SetState(j, n, k))
  IN IF ~v.go \/ k <= v.inst.node[n].state THEN v
     ELSE IF ~IsMain(kid) THEN Past(x.inst)
     ELSE IF x.res \in Ended \cup {"PIPELINE_RESET"} THEN Past(ChildTerminate(x.inst, kid))
     ELSE IF x.res = "FUNCTION_HALT" THEN Leave(v, x.inst, "PIPELINE_HALT")
     ELSE IF x.res \in Pipeline THEN Leave(v, x.inst, "PIPELINE_CONTINUE")
     ELSE Leave(v, x.inst, x.res)

Sequence(i, n, call) ==
  LET v == Through([k \in DOMAIN Kids(n) |-> [v \in Visits |-> SequenceVisit(v, n, k, call)]],
                   Len(Kids(n)), Visit(i))
  IN Ret(v.inst, IF v.go THEN "PIPELINE_DISABLE" ELSE v.res)

\* se_sequence_once: every child once, cut short by any other result.
OnceVisit(v, n, k, call) ==
  LET x == call[k][v.inst]
  IN IF ~v.go THEN v
     ELSE IF IsMain(Kids(n)[k]) /\ x.res \notin {"PIPELINE_CONTINUE", "PIPELINE_DISABLE"}
       THEN Leave(v, x.inst, x.res)
     ELSE Go(v, x.inst)

SequenceOnce(i, n, call) ==
  LET v == Through([k \in DOMAIN Kids(n) |-> [v \in Visits |-> OnceVisit(v, n, k, call)]],
                   Len(Kids(n)), Visit(i))
  IN Ret(EndEach(v.inst, n, Ends(n)), "PIPELINE_DISABLE")

\* se_function_interface counts every child that still runs, oneshots included.
InterfaceVisit(v, n, k, call) ==
  LET kid == Kids(n)[k]
      x == call[k][v.inst]
  IN IF ~v.go \/ ~v.inst.node[kid].active THEN v
     ELSE IF x.res \notin Pipeline THEN Leave(v, x.inst, x.res)
     ELSE IF x.res \in Running THEN GoAlive(v, x.inst)
     ELSE IF x.res \in Ended THEN Go(v, ChildTerminate(x.inst, kid))
     ELSE IF x.res = "PIPELINE_RESET"
       THEN GoAlive(v, ChildReset(ChildTerminate(x.inst, kid), kid))
     ELSE Leave(v, x.inst, "FUNCTION_CONTINUE")

FunctionInterface(i, n, call) ==
  LET v == Through([k \in DOMAIN Kids(n) |-> [v \in Visits |-> InterfaceVisit(v, n, k, call)]],
                   Len(Kids(n)), Visit(i))
  IN IF i.node[n].state # 1 THEN Ret(i, "FUNCTION_DISABLE")
     ELSE IF ~v.go THEN Ret(v.inst, v.res)
     ELSE IF v.alive THEN Ret(v.inst, "FUNCTION_CONTINUE")
     ELSE Ret(SetState(v.inst, n, 2), "FUNCTION_DISABLE")

\* The loop se_fork and se_fork_join share; a pipeline result means it ran
\* through, any other leaves the composite.
ForkVisit(v, n, k, call) ==
  LET kid == Kids(n)[k]
      s == v.inst.node[kid]
      x == call[k][v.inst]
      skip == IF IsMain(kid) THEN ~s.active ELSE s.init
  IN IF ~v.go \/ skip THEN v
     ELSE IF ~IsMain(kid) \/ x.res \in Running \cup {"FUNCTION_HALT"} THEN Go(v, x.inst)
     ELSE IF x.res \in Ended THEN Go(v, ChildTerminate(x.inst, kid))
     ELSE IF x.res = "PIPELINE_RESET"
       THEN Go(v, ResetRecursive(ChildTerminate(x.inst, kid), kid))
     ELSE Leave(v, x.inst, x.res)

ForkPass(i, n, call) ==
  Through([k \in DOMAIN Kids(n) |-> [v \in Visits |-> ForkVisit(v, n, k, call)]],
          Len(Kids(n)), Visit(i))

\* [mutant of ActiveMain] The first function stands for all.
ActiveFirst(i, n) ==
  \E k \in DOMAIN Kids(n) :
    /\ IsMain(Kids(n)[k]) /\ i.node[Kids(n)[k]].active
    /\ \A j \in 1..(k - 1) : ~IsMain(Kids(n)[j])

ActiveMain(i, n) == \E k \in DOMAIN Kids(n) : IsMain(Kids(n)[k]) /\ i.node[Kids(n)[k]].active

Fork(i, n, call) ==
  LET v == ForkPass(i, n, call)
  IN IF i.node[n].state # 1 THEN Ret(i, "PIPELINE_DISABLE")
     ELSE IF v.res \notin Pipeline THEN Ret(v.inst, v.res)
     ELSE IF ActiveMain(v.inst, n) THEN Ret(v.inst, "PIPELINE_CONTINUE")
     ELSE Ret(SetState(v.inst, n, 2), "PIPELINE_DISABLE")

ForkJoin(i, n, call) ==
  LET v == ForkPass(i, n, call)
  IN Ret(v.inst, IF v.res \notin Pipeline THEN v.res
                 ELSE IF ActiveMain(v.inst, n) THEN "FUNCTION_HALT" ELSE "PIPELINE_DISABLE")

\* se_chain_flow: a main function that goes on keeps the chain alive.
ChainVisit(v, n, k, call) ==
  LET kid == Kids(n)[k]
      x == call[k][v.inst]
      ended == ChildrenTerminate(x.inst, n, Ends(n))
  IN IF ~v.go \/ ~v.inst.node[kid].active THEN v
     ELSE IF ~IsMain(kid) THEN Go(v, x.inst)
     ELSE CASE x.res = "PIPELINE_CONTINUE" -> GoAlive(v, x.inst)
            [] x.res = "PIPELINE_DISABLE" -> Go(v, ChildTerminate(x.inst, kid))
            [] x.res = "PIPELINE_TERMINATE" -> Leave(v, ended, x.res)
            [] x.res = "PIPELINE_RESET" -> Leave(v, ChildrenReset(ended, n), "PIPELINE_CONTINUE")
            [] x.res = "FUNCTION_HALT" -> Leave(v, x.inst, "PIPELINE_HALT")
            [] x.res \in {"PIPELINE_HALT", "PIPELINE_SKIP"} ->
                 Leave(v, x.inst, "PIPELINE_CONTINUE")
            [] OTHER -> Leave(v, x.inst, x.res)

ChainFlow(i, n, call) ==
  LET v == Through([k \in DOMAIN Kids(n) |-> [v \in Visits |-> ChainVisit(v, n, k, call)]],
                   Len(Kids(n)), Visit(i))
  IN Ret(v.inst, IF v.go /\ ~v.alive THEN "PIPELINE_DISABLE" ELSE v.res)

\* [mutant of Edge] The action is called, and neither action is renewed.
EdgeOnce(i, n, stop, start, call) == Ret(call[start][i].inst, "PIPELINE_CONTINUE")

\* A child that is ended and made ready, one level deep.
Renew(i, kid) == ChildReset(ChildTerminate(i, kid), kid)

\* se_trigger_on_change on an edge: the other action ends, this one restarts.
Edge(i, n, stop, start, call) ==
  LET kid == Kids(n)[start]
      stopped == IF stop > Len(Kids(n)) THEN i ELSE Renew(i, Kids(n)[stop])
      x == call[start][Renew(stopped, kid)]
  IN IF x.res \notin Pipeline THEN x
     ELSE Ret(IF x.res \in Ended \cup {"PIPELINE_RESET"} THEN Renew(x.inst, kid) ELSE x.inst,
              "PIPELINE_CONTINUE")

TriggerOnChange(i, n, call, in) ==
  LET now == Holds(i, Kids(n)[1], in)
      was == i.node[n].state # 0
      set == SetState(i, n, IF now THEN 1 ELSE 0)
  IN IF now /\ ~was THEN Edge(set, n, 3, 2, call)
     ELSE IF was /\ ~now /\ Len(Kids(n)) = 3 THEN Edge(set, n, 2, 3, call)
     ELSE Ret(set, "PIPELINE_CONTINUE")

\* se_if_then_else: both branches are ended and reset, each one level deep.
Branch(i, n, k, call) ==
  LET x == call[k][i]
      one == Renew(x.inst, Kids(n)[2])
      both == IF Len(Kids(n)) = 2 THEN one ELSE Renew(one, Kids(n)[3])
  IN CASE x.res = "PIPELINE_RESET" -> Ret(both, x.res)
       [] x.res \in Ended -> Ret(both, "PIPELINE_CONTINUE")
       [] x.res = "PIPELINE_SKIP" -> Ret(x.inst, "PIPELINE_CONTINUE")
       [] OTHER -> x

IfThenElse(i, n, call, in) ==
  IF Holds(i, Kids(n)[1], in) THEN Branch(i, n, 2, call)
  ELSE IF Len(Kids(n)) = 3 THEN Branch(i, n, 3, call)
  ELSE Ret(i, "PIPELINE_CONTINUE")

\* A dispatcher's action that ended is ended and made ready all the way down.
Settle(x, kid) ==
  CASE x.res \in Ended \cup {"PIPELINE_RESET"} ->
         Ret(ResetRecursive(ChildTerminate(x.inst, kid), kid), "PIPELINE_CONTINUE")
    [] x.res = "PIPELINE_SKIP" -> Ret(x.inst, "PIPELINE_CONTINUE")
    [] OTHER -> x

\* [mutant of Case] An event without a case of its own is ignored.
CaseExact(n, value) ==
  IF value \in {Arg(n)[k] : k \in DOMAIN Kids(n)}
    THEN CHOOSE k \in DOMAIN Kids(n) : Arg(n)[k] = value
    ELSE 0

\* The action of a dispatcher's case, or of its default; 0 if there is none.
Case(n, value) ==
  LET At(v) == {k \in DOMAIN Kids(n) : Arg(n)[k] = v}
      hit == IF At(value) # {} THEN At(value) ELSE At("default")
  IN IF hit = {} THEN 0 ELSE CHOOSE k \in hit : \A j \in hit : k <= j

\* [mutant of Switch] The branch that is entered goes on where it was left.
SwitchKept(i, n, k) == SetData(i, n, k)

\* se_state_machine, se_field_dispatch: another branch than last time.
Switch(i, n, k) ==
  LET old == i.node[n].data
      left == IF old = 0 THEN i
              ELSE ResetRecursive(ChildTerminate(i, Kids(n)[old]), Kids(n)[old])
  IN IF old = k THEN i ELSE SetData(ResetRecursive(left, Kids(n)[k]), n, k)

\* se_cond: the first pair whose predicate holds; there must be one.
Matched(i, n, in) ==
  LET pairs == {k \in DOMAIN Kids(n) : k % 2 = 0 /\ Holds(i, Kids(n)[k - 1], in)}
  IN IF pairs = {} THEN 0 ELSE CHOOSE k \in pairs : \A j \in pairs : k <= j

Replace(i, kid) == ResetRecursive(ChildTerminate(i, kid), kid)

\* s_expr_child_invoke, by which se_cond and se_while call: a child that gives
\* SE_DISABLE is ended here, and the caller sees SE_CONTINUE.
ChildInvoke(i, kid, call) ==
  LET x == call[i]
  IN IF x.res = "DISABLE" THEN Ret(ChildTerminate(x.inst, kid), "CONTINUE") ELSE x

CondPair(i, n, k, call) ==
  LET kid == Kids(n)[k]
      old == i.node[n].data
      left == IF old = 0 THEN i ELSE Replace(i, Kids(n)[old])
      x == ChildInvoke(IF old = k THEN i ELSE SetData(Replace(left, kid), n, k), kid, call[k])
  IN CASE x.res \in Running -> Ret(x.inst, "PIPELINE_CONTINUE")
       [] x.res = "PIPELINE_RESET" -> Ret(Replace(x.inst, kid), "PIPELINE_CONTINUE")
       [] OTHER -> x

Cond(i, n, call, in) ==
  LET k == Matched(i, n, in)
  IN IF k = 0 THEN Ret(Exception(i), "PIPELINE_CONTINUE") ELSE CondPair(i, n, k, call)

\* se_while: the body is renewed before it starts and when it has ended; the
\* result that ends it costs the loop one tick.
While(i, n, call, in) ==
  LET body == Kids(n)[2]
      ready == IF i.node[n].state = 1 THEN i ELSE SetState(ResetRecursive(i, body), n, 1)
      x == ChildInvoke(ready, body, call[2])
  IN IF i.node[n].state = 0 /\ ~Holds(i, Kids(n)[1], in) THEN Ret(i, "PIPELINE_DISABLE")
     ELSE IF x.res \in Ended \cup {"PIPELINE_RESET"}
       THEN Ret(SetState(Replace(x.inst, body), n, 0), "PIPELINE_HALT")
     ELSE IF x.res \in Pipeline THEN Ret(x.inst, "FUNCTION_HALT")
     ELSE x

\* se_event_dispatch, se_state_machine, se_field_dispatch: no case, no default,
\* no return.
EventDispatch(i, n, call, in) ==
  LET k == Case(n, in.event)
  IN IF k = 0 THEN Ret(Exception(i), "PIPELINE_CONTINUE") ELSE Settle(call[k][i], Kids(n)[k])

StateMachine(i, n, call) ==
  LET k == Case(n, i.field)
      x == call[k][Switch(i, n, k)]
  IN IF k = 0 THEN Ret(Exception(i), "PIPELINE_CONTINUE")
     ELSE IF x.res = "FUNCTION_HALT" THEN Ret(x.inst, "PIPELINE_HALT")
     ELSE Settle(x, Kids(n)[k])

FieldDispatch(i, n, call) ==
  LET k == Case(n, i.field)
      x == call[k][Switch(i, n, k)]
      y == Settle(x, Kids(n)[k])
  IN IF k = 0 THEN Ret(Exception(i), "CONTINUE")
     ELSE IF x.res \in Ended \cup {"PIPELINE_RESET"} THEN Ret(SetData(y.inst, n, 0), y.res)
     ELSE x

\* The error function of a verify or of a timeout, fired every time.
Fail(i, err, reset, in) ==
  Ret(Oneshot(ChildReset(i, err), err, in),
      IF reset THEN "PIPELINE_RESET" ELSE "PIPELINE_TERMINATE")

\* Delays and waits for an event or a condition.
DelayTick(i, n, in) ==
  LET s == i.node[n]
      left == IF s.data > 0 /\ in.event = Arg(n).event THEN s.data - 1 ELSE s.data
  IN CASE Fn(n) = "tick_delay" ->
            IF s.data = 0 THEN Ret(i, "PIPELINE_DISABLE")
            ELSE Ret(SetData(i, n, s.data - 1), "FUNCTION_HALT")
       [] Fn(n) = "time_delay" ->
            Ret(i, IF in.event = "TICK" /\ n \in in.true THEN "PIPELINE_DISABLE"
                   ELSE "FUNCTION_HALT")
       [] Fn(n) = "wait_event" ->
            Ret(SetData(i, n, left), IF left = 0 THEN "PIPELINE_DISABLE" ELSE "PIPELINE_HALT")
       [] Fn(n) = "wait" ->
            Ret(i, IF Holds(i, Kids(n)[1], in) THEN "PIPELINE_DISABLE" ELSE "PIPELINE_HALT")

\* Waits and verifications with an error function, their last parameter.
Expired(n, in) == in.event = "TICK" /\ n \in in.true
Watched(i, n, in) ==
  LET s == i.node[n]
      err == Kids(n)[Len(Kids(n))]
      counted == SetData(i, n, s.data + 1)
  IN CASE Fn(n) = "wait_timeout" ->
            IF in.event = "TICK" /\ Holds(i, Kids(n)[1], in) THEN Ret(i, "PIPELINE_DISABLE")
            ELSE IF Expired(n, in) THEN Fail(i, err, Arg(n), in)
            ELSE Ret(i, "PIPELINE_HALT")
       [] Fn(n) = "verify" ->
            IF in.event = "TICK" /\ ~Holds(i, Kids(n)[1], in) THEN Fail(i, err, Arg(n), in)
            ELSE Ret(i, "PIPELINE_CONTINUE")
       [] Fn(n) = "verify_time" ->
            IF Expired(n, in) THEN Fail(i, err, Arg(n), in) ELSE Ret(i, "PIPELINE_CONTINUE")
       [] Fn(n) = "verify_events" ->
            IF in.event # Arg(n).event THEN Ret(i, "PIPELINE_CONTINUE")
            ELSE IF s.data < Arg(n).count THEN Ret(counted, "PIPELINE_CONTINUE")
            ELSE Fail(counted, err, Arg(n).reset, in)

\* The dongle's handle_internal_events: the host opened the port again.
Reattached(i, in) == IF in.event = "REATTACH" THEN [i EXCEPT !.field = "boot"] ELSE i

LeafTick(i, n, in) ==
  CASE Fn(n) = "user" -> Ret(Log(i, n, in.ret[n]), in.ret[n])
    [] Fn(n) = "return" -> Ret(i, Arg(n))
    [] Fn(n) = "handle_internal_events" -> Ret(Reattached(i, in), "PIPELINE_CONTINUE")
    [] Fn(n) \in {"tick_delay", "time_delay", "wait_event", "wait"} -> DelayTick(i, n, in)
    [] OTHER -> Watched(i, n, in)

OnTick(i, n, call, in) ==
  CASE Fn(n) = "sequence" -> Sequence(i, n, call)
    [] Fn(n) = "sequence_once" -> SequenceOnce(i, n, call)
    [] Fn(n) = "function_interface" -> FunctionInterface(i, n, call)
    [] Fn(n) = "fork" -> Fork(i, n, call)
    [] Fn(n) = "fork_join" -> ForkJoin(i, n, call)
    [] Fn(n) = "chain_flow" -> ChainFlow(i, n, call)
    [] Fn(n) = "while" -> While(i, n, call, in)
    [] Fn(n) = "if_then_else" -> IfThenElse(i, n, call, in)
    [] Fn(n) = "cond" -> Cond(i, n, call, in)
    [] Fn(n) = "trigger_on_change" -> TriggerOnChange(i, n, call, in)
    [] Fn(n) = "event_dispatch" -> EventDispatch(i, n, call, in)
    [] Fn(n) = "state_machine" -> StateMachine(i, n, call)
    [] Fn(n) = "field_dispatch" -> FieldDispatch(i, n, call)
    [] OTHER -> LeafTick(i, n, in)

\* dispatch_main: INIT on the first call, and TERMINATE when the result is
\* PIPELINE_DISABLE, which leaves INITIALIZED set.
Started(i, n) ==
  IF i.node[n].init THEN i ELSE OnInit([i EXCEPT !.node[n].init = TRUE], n)
Ticked(x, n) ==
  IF x.res = "PIPELINE_DISABLE"
    THEN Ret([OnTerminate(x.inst, n, Ends(n)) EXCEPT !.node[n].active = FALSE], x.res)
    ELSE x
Main(i, n, call, in) ==
  IF i.node[n].active THEN Ticked(OnTick(Started(i, n), n, call, in), n)
  ELSE Ret(i, "PIPELINE_CONTINUE")

Called(i, n, call, in) ==
  CASE tree.nodes[n].type = "main" -> Main(i, n, call, in)
    [] tree.nodes[n].type \in {"oneshot", "io"} -> Ret(Oneshot(i, n, in), "PIPELINE_CONTINUE")
    [] tree.nodes[n].type = "pred" ->
         Ret(i, IF Holds(i, n, in) THEN "PIPELINE_CONTINUE" ELSE "PIPELINE_HALT")

\* s_expr_invoke_any: node after node, what a call of it does.
Invoke(in) ==
  LET invoke[n \in Nodes] ==
        [i \in Insts |-> Called(i, n, [k \in DOMAIN Kids(n) |-> invoke[Kids(n)[k]]], in)]
  IN invoke

\* s_expr_node_tick: an inactive root means that the tree is complete.
NodeTick(i, in) ==
  IF i.node[1].active THEN Invoke(in)[1][i] ELSE Ret(i, "FUNCTION_TERMINATE")
-----------------------------------------------------------------------------
(* One instance and the loop around it: events are queued between ticks,   *)
(* a tick is followed by one tick per queued event.                        *)

UserNodes == {n \in DOMAIN tree.nodes : Fn(n) = "user"}
Inputs == {n \in DOMAIN tree.nodes :
             Fn(n) \in {"user_pred", "time_delay", "verify_time", "wait_timeout"}}

\* What the world answers during a tick.
World(event) ==
  [event : {event}, true : SUBSET Inputs, ret : [UserNodes -> UserResults]]

\* s_expr_tree_create: every node active, an empty queue; the field's first
\* value is the tree's.
Create(t) ==
  [node |-> [n \in DOMAIN t.nodes |-> [Cleared EXCEPT !.active = TRUE]],
   field |-> t.field, queue |-> <<>>, draining |-> FALSE, res |-> "PIPELINE_CONTINUE",
   log |-> <<>>, live |-> {}, dead |-> FALSE, pass |-> FALSE]

Init == \E k \in DOMAIN Trees : tree = Trees[k] /\ inst = Create(Trees[k])

\* A frame or a DTR edge becomes an event, between ticks.
Arrive ==
  /\ ~inst.draining /\ ~inst.dead
  /\ \E event \in tree.events : inst' = [Push(inst, event) EXCEPT !.log = <<>>]
  /\ UNCHANGED tree

\* An exception ends the tick; what it had done goes with the RAM.
Outcome(i, x) ==
  IF x.inst.dead THEN [i EXCEPT !.dead = TRUE, !.log = <<>>, !.pass = ~@]
  ELSE [x.inst EXCEPT !.res = x.res, !.draining = x.inst.queue # <<>>, !.pass = ~@]

\* [mutant of Run] The drain stops at a result of the application's own.
RunStops(i, event) ==
  \E in \in World(event) :
    LET x == NodeTick([i EXCEPT !.log = <<>>], in)
        y == Outcome(i, x)
    IN inst' = IF x.res \in Pipeline THEN y ELSE [y EXCEPT !.draining = FALSE]

Run(i, event) ==
  \E in \in World(event) : inst' = Outcome(i, NodeTick([i EXCEPT !.log = <<>>], in))

\* tick_and_drain: the tick, and then one event of the queue at a time.
Tick == ~inst.draining /\ ~inst.dead /\ Run(inst, "TICK") /\ UNCHANGED tree
Dispatch ==
  /\ inst.draining /\ ~inst.dead
  /\ Run([inst EXCEPT !.queue = Tail(@)], Head(inst.queue))
  /\ UNCHANGED tree

\* The watchdog, which only the engine's ticks pet, resets the processor.
Reset ==
  /\ inst.dead
  /\ inst' = [Create(tree) EXCEPT !.pass = ~inst.pass]
  /\ UNCHANGED tree

Next == Arrive \/ Tick \/ Dispatch \/ Reset

Spec == Init /\ [][Next]_vars
\* The main loop keeps ticking, or the watchdog fires: one of Tick, Dispatch
\* and Reset is enabled in every state, and pass changes with each of them.
FairSpec == Spec /\ []<><<inst'.pass # inst.pass>>_vars
-----------------------------------------------------------------------------
TypeOK ==
  /\ tree \in {Trees[k] : k \in DOMAIN Trees}
  /\ DOMAIN inst.node = DOMAIN tree.nodes
  /\ \A n \in DOMAIN inst.node :
       inst.node[n] \in [active : BOOLEAN, init : BOOLEAN, ever : BOOLEAN, state : 0..255, data : Nat]
  /\ Len(inst.queue) <= QueueSize
  /\ inst.draining \in BOOLEAN /\ inst.dead \in BOOLEAN /\ inst.pass \in BOOLEAN
  /\ inst.live \subseteq UserNodes

\* A node that is about to start, under active composites, is ready all the way
\* down: no flag, state byte or count of an earlier run is left under it, or a
\* one-shot would not fire again and a function would go on where it was cut off.
FreshMeansFresh ==
  LET Active(n) == \A m \in DOMAIN inst.node : n \in Below(m) => inst.node[m].active IN
  \A n \in DOMAIN inst.node :
    IsMain(n) /\ Active(n) /\ ~inst.node[n].init =>
      \A m \in Below(n) : inst.node[m] = Fresh(inst.node[m])

\* A user function that holds what its INIT took is one the tree still ticks:
\* it and every composite above it are active, and the tree is not complete.
NothingLeaks ==
  /\ \A n \in inst.live : \A m \in DOMAIN inst.node :
       n \in Below(m) => inst.node[m].active /\ inst.node[m].init
  /\ Fn(1) = "function_interface" /\ inst.node[1].state = 2 => inst.live = {}

\* INIT, then ticks, then TERMINATE: a user function is never initialised twice
\* without an end between, and never ticked before its INIT or after its end.
Alive(log, k, n, live) ==
  LET earlier == {j \in 1..(k - 1) : log[j][1] = n}
  IN IF earlier = {} THEN n \in live
     ELSE \E j \in earlier : log[j][2] # "TERMINATE" /\ \A h \in earlier : h <= j

LifeCycle ==
  [][\A k \in DOMAIN inst'.log :
       LET n == inst'.log[k][1]
           what == inst'.log[k][2]
           alive == Alive(inst'.log, k, n, inst.live)
       IN Fn(n) = "user" =>
            (what = "INIT" => ~alive) /\ (what \in UserResults => alive)]_vars
=============================================================================
