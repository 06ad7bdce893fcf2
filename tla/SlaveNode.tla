------------------------------ MODULE SlaveNode ------------------------------
(***************************************************************************)
(* A register dongle in the slave role: samd21/apps/register_dongle/main.c *)
(* under ROLE_SLAVE.  Two threads of control share its state without a     *)
(* lock: the receive interrupt (slave_rx_isr) answers the master at once   *)
(* and claims commands; the main loop (rs485_slave_poll) publishes the     *)
(* interlock summary, fills the interlock message, runs the BUSY-watchdog  *)
(* and executes the claimed command.  The main loop is cut where an        *)
(* interrupt can see a difference.  A buffer that is not read again is     *)
(* modelled as empty.                                                      *)
(***************************************************************************)
EXTENDS BusWire

VARIABLES
  node,      \* per slave: the g_slave_* state and where its main loop stands
  tripped,   \* per slave: the armed interlock slots whose condition is false
  trips,     \* how many times a condition has changed
  executed   \* per id: how often a slave has executed it (history)

slaveVars == <<node, tripped, trips, executed>>

Pcs == {"loop", "fill", "dog", "abort", "abort2", "work", "exec", "rest"}

Boot == [busy |-> FALSE,          \* g_slave_busy
         work |-> FALSE,          \* g_slave_work_fresh
         in |-> NoCmd,            \* g_slave_in
         doing |-> NoCmd,         \* f, the main loop's copy of g_slave_in
         ready |-> FALSE,         \* g_slave_reply_ready
         reply |-> NoCmd,         \* the command g_slave_reply answers
         timed |-> FALSE,         \* g_slave_exec_to > 0
         late |-> FALSE,          \* now - g_slave_claim_ms > exec_to + margin
         fresh |-> FALSE,         \* g_slave_il_msg_fresh
         msg |-> {},              \* g_slave_il_msg
         summary |-> FALSE,       \* g_slave_summary, bit 0
         prev |-> FALSE,          \* g_slave_prev_summary
         repush |-> FALSE,        \* s_repush_req
         pc |-> "loop"]

SlaveType ==
  /\ node \in [Slaves -> [busy : BOOLEAN, work : BOOLEAN, in : Cmd \cup {NoCmd},
                          doing : Cmd \cup {NoCmd}, ready : BOOLEAN, reply : Cmd \cup {NoCmd}, timed : BOOLEAN,
                          late : BOOLEAN, fresh : BOOLEAN, msg : SUBSET IlSlots, summary : BOOLEAN,
                          prev : BOOLEAN, repush : BOOLEAN, pc : Pcs]]
  /\ tripped \in [Slaves -> SUBSET IlSlots]
  /\ trips \in 0..MaxTrips
  /\ executed \in [Ids \ {Poke} -> 0..2]

SlaveInit ==
  /\ node = [s \in Slaves |-> Boot]
  /\ tripped = [s \in Slaves |-> {}]
  /\ trips = 0
  /\ executed = [i \in Ids \ {Poke} |-> 0]

At(s, pc) == node[s].pc = pc
\* The node of s becomes n, its other state is left alone.
Becomes(s, n) ==
  /\ node' = [node EXCEPT ![s] = n]
  /\ UNCHANGED <<tripped, trips, executed>>
MainStep(s, n) == Becomes(s, n) /\ UNCHANGED <<wire, mishaps>>
IsrStep(s, n, f) == Becomes(s, n) /\ wire' = f /\ UNCHANGED mishaps

-----------------------------------------------------------------------------
\* slave_rx_isr.  A POLL ships one thing: the interlock message before the
\* command reply before the summary byte.
Polled(s) == wire.kind = "poll" /\ wire.to = s

\* [mutant of IsrMessage] both flags are cleared when one buffer is shipped
IsrMessageBoth(s) ==
  /\ Polled(s) /\ node[s].fresh
  /\ IsrStep(s, [node[s] EXCEPT !.fresh = FALSE, !.ready = FALSE], Message(s, node[s].msg))

IsrMessage(s) ==
  /\ Polled(s) /\ node[s].fresh
  /\ IsrStep(s, [node[s] EXCEPT !.fresh = FALSE], Message(s, node[s].msg))

\* [mutant of IsrReply] the reply stays armed
IsrReplyArmed(s) ==
  /\ Polled(s) /\ ~node[s].fresh /\ node[s].ready
  /\ IsrStep(s, [node[s] EXCEPT !.busy = FALSE], Answer("reply", s, node[s].reply.id))
IsrReply(s) ==
  /\ Polled(s) /\ ~node[s].fresh /\ node[s].ready
  /\ IsrStep(s, [node[s] EXCEPT !.ready = FALSE, !.busy = FALSE, !.reply = NoCmd],
             Answer("reply", s, node[s].reply.id))

IsrSummary(s) ==
  /\ Polled(s) /\ ~node[s].fresh /\ ~node[s].ready
  /\ IsrStep(s, node[s], Summary(s, node[s].summary))

\* [mutant of IsrData] the frame is stored before busy is looked at
IsrDataStored(s) ==
  /\ wire.kind = "data" /\ wire.to = s
  /\ IsrStep(s, [node[s] EXCEPT !.in = wire.cmd, !.busy = TRUE, !.work = TRUE],
             Answer(IF node[s].busy THEN "nak" ELSE "ack", s, wire.cmd.id))

\* DATA claims an idle slave, and is refused by a busy one.
IsrData(s) ==
  /\ wire.kind = "data" /\ wire.to = s
  /\ IF node[s].busy
       THEN IsrStep(s, node[s], Answer("nak", s, wire.cmd.id))
       ELSE IsrStep(s, [node[s] EXCEPT !.in = wire.cmd, !.busy = TRUE, !.work = TRUE],
                    Answer("ack", s, wire.cmd.id))

Isr(s) == IsrMessage(s) \/ IsrReply(s) \/ IsrSummary(s) \/ IsrData(s)

-----------------------------------------------------------------------------
\* rs485_slave_poll.  The summary is published; a change of it, or a request
\* to push again, rewrites the message slot by slot: before cut new, after it
\* old, when the interrupt comes in between.
PublishSummary(s) ==
  LET summ == tripped[s] # {}
      n == [node[s] EXCEPT !.summary = summ, !.prev = summ, !.repush = FALSE]
      old == node[s].msg IN
  /\ At(s, "loop")
  /\ IF summ # node[s].prev \/ node[s].repush
       THEN \E cut \in IlSlots :
              LET mix == {i \in tripped[s] : i < cut} \cup {i \in old : i >= cut} IN
              MainStep(s, [n EXCEPT !.msg = mix, !.pc = "fill"])
       ELSE MainStep(s, [n EXCEPT !.pc = "dog"])

FillMessage(s) ==
  /\ At(s, "fill")
  /\ MainStep(s, [node[s] EXCEPT !.msg = tripped[s],
                                 !.fresh = TRUE, !.pc = "dog"])

\* The BUSY-watchdog: three stores, an interrupt may come between them.
WatchdogFires(n) == n.busy /\ n.timed /\ n.late

Watchdog(s) ==
  /\ At(s, "dog")
  /\ MainStep(s, IF WatchdogFires(node[s])
                   THEN [node[s] EXCEPT !.busy = FALSE, !.pc = "abort"]
                   ELSE [node[s] EXCEPT !.pc = "work"])

DropWork(s) ==
  /\ At(s, "abort")
  /\ MainStep(s, [node[s] EXCEPT !.work = FALSE, !.pc = "abort2"])

DropReply(s) ==
  /\ At(s, "abort2")
  /\ MainStep(s, [node[s] EXCEPT !.ready = FALSE, !.reply = NoCmd, !.timed = FALSE,
                                 !.pc = "work"])

\* [mutant of PickUp] work_fresh is not cleared
PickUpAgain(s) ==
  /\ At(s, "work")
  /\ MainStep(s, IF node[s].work
                   THEN [node[s] EXCEPT !.doing = node[s].in, !.late = FALSE, !.timed = node[s].in.timed,
                                        !.pc = "exec"]
                   ELSE [node[s] EXCEPT !.pc = "rest"])

\* A claimed command is picked up; its clock starts here, not at its claim.
PickUp(s) ==
  /\ At(s, "work")
  /\ MainStep(s, IF node[s].work
                   THEN [node[s] EXCEPT !.work = FALSE, !.in = NoCmd, !.doing = node[s].in,
                                        !.late = FALSE, !.timed = node[s].in.timed, !.pc = "exec"]
                   ELSE [node[s] EXCEPT !.pc = "rest"])

\* [mutant of Execute] CMD_INTERLOCK_REPUSH does nothing
ExecuteNoRepush(s) ==
  LET c == node[s].doing IN
  /\ At(s, "exec")
  /\ node' = [node EXCEPT ![s] = [@ EXCEPT !.reply = c, !.doing = NoCmd, !.ready = TRUE, !.pc = "rest"]]
  /\ executed' = IF c.id = Poke THEN executed ELSE [executed EXCEPT ![c.id] = @ + 1]
  /\ UNCHANGED <<tripped, trips, wire, mishaps>>

\* shell_dispatch_payload runs the command to its end and arms the reply.
Execute(s) ==
  LET c == node[s].doing IN
  /\ At(s, "exec")
  /\ node' = [node EXCEPT ![s] = [node[s] EXCEPT !.reply = c, !.doing = NoCmd, !.ready = TRUE,
                                                 !.repush = @ \/ c.id = Poke, !.pc = "rest"]]
  /\ executed' = IF c.id = Poke THEN executed ELSE [executed EXCEPT ![c.id] = @ + 1]
  /\ UNCHANGED <<tripped, trips, wire, mishaps>>

\* interlock_tick_all ends a pass of the main loop: conditions may have changed.
InterlockTick(s) ==
  /\ At(s, "rest")
  /\ node' = [node EXCEPT ![s].pc = "loop"]
  /\ \E t \in SUBSET IlSlots :
       /\ t # tripped[s] => trips < MaxTrips
       /\ trips' = IF t = tripped[s] THEN trips ELSE trips + 1
       /\ tripped' = [tripped EXCEPT ![s] = t]
  /\ UNCHANGED <<executed, wire, mishaps>>

MainLoop(s) ==
  \/ PublishSummary(s) \/ FillMessage(s) \/ Watchdog(s) \/ DropWork(s) \/ DropReply(s)
  \/ PickUp(s) \/ Execute(s) \/ InterlockTick(s)

-----------------------------------------------------------------------------
\* exec_timeout + margin have passed since the last command was picked up.
Lapse(s) ==
  /\ node[s].timed /\ ~node[s].late
  /\ Mishap("lapse")
  /\ Becomes(s, [node[s] EXCEPT !.late = TRUE])
  /\ UNCHANGED wire

\* The slave restarts (watchdog, power): its RAM is zeroed, the interlocks
\* survive a warm restart and are gone after a cold one.
Reset(s) ==
  /\ Mishap("reset")
  /\ node' = [node EXCEPT ![s] = Boot]
  /\ \E t \in {tripped[s], {}} : tripped' = [tripped EXCEPT ![s] = t]
  /\ wire' = IF Concerns(s) THEN NoFrame ELSE wire
  /\ UNCHANGED <<trips, executed>>

SlaveMishap(s) == Lapse(s) \/ Reset(s)
=============================================================================
