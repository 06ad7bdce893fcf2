----------------------------- MODULE RegisterBus -----------------------------
(***************************************************************************)
(* One RS-485 bus: the master (BusMaster), its slaves (SlaveNode) and the  *)
(* wire between them, in every interleaving of the master's loop, each     *)
(* slave's interrupt and each slave's main loop.                           *)
(***************************************************************************)
EXTENDS SlaveNode, BusMaster

vars == <<wire, mishaps, slaveVars, masterVars>>

Init ==
  /\ wire = NoFrame /\ mishaps = [v \in {"bus", "host"} |-> 0]
  /\ SlaveInit /\ MasterInit

SlaveStep(s) ==
  s \notin Absent /\ (Isr(s) \/ MainLoop(s) \/ SlaveMishap(s)) /\ UNCHANGED masterVars

MasterStep ==
  /\ \/ Engine
     \/ Drain
     \/ PollRefused
     \/ ClearRoster
     \/ HostRestart
     \/ \E on \in BOOLEAN : PollEnable(on)
     \/ \E s \in Slaves : \/ Register(s)
                          \/ Unregister(s)
                          \/ Reconcile(s)
                          \/ \E timed \in Timed : HostSend(s, timed)
  /\ UNCHANGED slaveVars

\* A frame is garbled, not heard, or refused by a busy transmitter.
Lose ==
  /\ wire # NoFrame
  /\ Mishap("lose")
  /\ wire' = NoFrame
  /\ UNCHANGED <<slaveVars, masterVars>>

\* No slave is there to hear the frame.
Unheard ==
  /\ IsDown /\ wire.to \in Absent
  /\ wire' = NoFrame
  /\ UNCHANGED <<mishaps, slaveVars, masterVars>>

Next == MasterStep \/ Lose \/ Unheard \/ \E s \in Slaves : SlaveStep(s)

Spec == Init /\ [][Next]_vars

\* Every processor keeps running: interrupts are served, main loops turn, the
\* USB ring drains, the host goes through its provisioning and its poll.
Host(A) == A /\ UNCHANGED slaveVars
Fairness ==
  /\ \A s \in Slaves \ Absent :
       /\ WF_vars(Isr(s) /\ UNCHANGED masterVars)
       /\ WF_vars(MainLoop(s) /\ UNCHANGED masterVars)
  /\ \A s \in Slaves :
       /\ WF_vars(Host(Register(s)))
       /\ WF_vars(Host(Reconcile(s)))
  /\ WF_vars(Unheard)
  /\ WF_vars(Host(PollEnable(TRUE)))
  /\ WF_vars(Host(Engine))
  /\ WF_vars(Host(DrainCmdAck))
  /\ WF_vars(Host(DrainCmdReply))
  /\ WF_vars(Host(DrainFlagged))
  /\ WF_vars(Host(DrainEvents /\ info' # info))
  /\ WF_vars(Host(StatusBegin \/ StatusNext))

FairSpec == Spec /\ Fairness
-----------------------------------------------------------------------------
\* Type invariant of the bus, the slaves and what the host was told.
TypeOK ==
  /\ wire \in UpFrame \cup DownFrame \cup {NoFrame}
  /\ mishaps \in MishapCount
  /\ SlaveType /\ MasterType

Executed == {i \in DOMAIN executed : executed[i] > 0}
Once == INSTANCE CommandOnce WITH Ids <- 1..MaxCmd, ran <- executed, replied <- told_reply,
                                  acked <- told_ack \ {Poke}, nacked <- told_nak \ {Poke}

\* However frames are lost, slaves restart or the watchdog bites, the bus runs
\* a transmission at most once, answers it at most once and only after it ran,
\* and never runs one whose refusal (slave_rx_isr's NAK) the host was told.
OnceSpec == Once!OnceSpec

\* Replies to i on their way from the slave's buffer to the host, and told.
Replies(i) ==
  told_reply[i]
  + Cardinality({s \in Slaves : node[s].ready /\ node[s].reply.id = i})
  + (IF wire.kind = "reply" /\ wire.id = i THEN 1 ELSE 0)
  + (IF cmd_reply.kind = "reply" /\ cmd_reply.id = i THEN 1 ELSE 0)

\* A reply armed in g_slave_reply is handed on, never copied: wherever it is
\* on its way, there are no more replies to a command than executions of it.
RepliesAreExecutions == \A i \in Ids \ {Poke} : Replies(i) <= executed[i]

\* A command whose NAK is anywhere on its way is not, and was not, claimed.
Nacked(i) == \/ i \in told_nak
             \/ wire.kind = "nak" /\ wire.id = i
             \/ cmd_ack.kind = "nak" /\ cmd_ack.id = i
Claimed(i) == \/ i \in Executed
              \/ \E s \in Slaves : i \in {node[s].in.id, node[s].doing.id}
RefusedNeverClaimed == \A i \in Ids \ {Poke} : Nacked(i) => ~Claimed(i)
-----------------------------------------------------------------------------
\* A window belongs to the command that is sent or to a routine poll: a
\* command is never out without its window, whatever the host does meanwhile.
WindowCoherent ==
  /\ cmd_state = "sent" => poll_state = "wait" /\ poll_cur_addr = cmd.to
  /\ poll_state = "idle" => ~IsUp

\* The watchdog ends a command that overruns its execution timeout, never one
\* that was acknowledged and not yet begun (main.c: "a claimed command that
\* overruns exec_timeout+margin").
FreshClaimSpared == \A s \in Slaves : At(s, "dog") /\ WatchdogFires(node[s]) => ~node[s].work

\* What the comment of the BUSY-watchdog promises ("frees the slot so the node
\* stays commandable") and its three stores do not keep: TLC finds it violated
\* under FairSpec with the values of bus_watchdog (README, section 3).
BusyEnds == \A s \in Slaves : node[s].busy ~> ~node[s].busy
-----------------------------------------------------------------------------
\* A command the host was told the slave took is executed and its reply reaches
\* the host, although interlock messages share the relay.  A host process that
\* restarts in between is no excuse; a lost frame is, and so is what befalls
\* the slave, the roster or the polling in runs that let it happen.
AckedAnswered ==
  \A i \in Ids \ {Poke} : i \in told_ack ~> (told_reply[i] > 0 \/ mishaps["bus"] > 0)

\* The round robin leaves no enabled slave out, dead ones included.
Swept == \A s \in Slaves \ Disabled : []<>(poll_state = "wait" /\ poll_cur_addr = s)

\* When losses have ended, the host's last word on every enabled slave is the
\* truth: an absent one is down, a present one is not.
LivenessSettles == \A s \in Slaves \ Disabled :
  <>[](/\ s \in told_down <=> s \in Absent
       /\ info[s].state = IF s \in Absent THEN "dead" ELSE "alive")

\* Reconciliation closes every gap between index and message (controller.c).
GapCloses == \A s \in Slaves \ (Disabled \cup Absent) : <>[]~Gap(s)
=============================================================================
