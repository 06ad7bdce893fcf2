------------------------------- MODULE BusWire -------------------------------
(***************************************************************************)
(* What the master (SAMD21 bus controller) and the slaves of one RS-485    *)
(* bus share: the wire and the frames on it.  The bus is half duplex and   *)
(* the master speaks first, so the wire holds at most one frame: the       *)
(* master's, or the answer a slave's receive interrupt sent at once.  A    *)
(* frame that is garbled, not heard, or refused by a busy transmit engine  *)
(* (rs485_tx_async_start) is lost.  A reply window (20 ms, 40 ms for a     *)
(* command) is longer than any turnaround of the interrupt, so an answer   *)
(* arrives inside its window or never.                                     *)
(***************************************************************************)
EXTENDS Integers, FiniteSets, Sequences

CONSTANTS Slaves,      \* addresses a roster may name
          Absent,      \* those of them at which no slave answers
          IlSlots,     \* interlock slots of a slave (INTERLOCK_MAX_SLOTS)
          MaxCmd,      \* bound on the commands the host sends
          MaxTrips,    \* bound on the changes of interlock conditions
          MaxMishaps,  \* bound on the mishaps of a behaviour
          Mishaps,     \* which of the mishaps below may happen
          Timed        \* do commands carry an execution timeout (OP_BUS_EXEC)?

ASSUME WireAssumption ==
  /\ Absent \subseteq Slaves
  /\ IlSlots \subseteq Nat /\ 0 \in IlSlots
  /\ MaxCmd \in Nat /\ MaxTrips \in Nat /\ MaxMishaps \in Nat
  /\ Mishaps \subseteq {"lose",        \* a frame is lost, or refused by the transmitter
                      "reset",       \* a slave restarts
                      "lapse",       \* a command's execution timeout and margin pass
                      "stall",       \* the USB ring is full for a while (not counted)
                      "restart",     \* a new host process attaches
                      "clear",       \* the host clears the roster
                      "unregister",  \* the host removes a slave
                      "off"}         \* the host switches polling off
  /\ Timed \subseteq BOOLEAN

VARIABLES wire,        \* the frame on the bus
          mishaps      \* how many mishaps have befallen the bus, and the host

\* Every transmission of a command by the host has an id of its own (the
\* request id); 0 is CMD_INTERLOCK_REPUSH, which the host does not track.
Poke == 0
Ids == 0..MaxCmd
Cmd == [to : Slaves, id : Ids, timed : BOOLEAN]
NoCmd == [id |-> -1]

\* Frames.  A message is the v2 status of the interlock slots: the set of
\* slots it says are tripped.
NoFrame == [kind |-> "none"]
Poll(s) == [kind |-> "poll", to |-> s]
Data(c) == [kind |-> "data", to |-> c.to, cmd |-> c]
Summary(s, flag) == [kind |-> "summary", from |-> s, flag |-> flag]
Message(s, m) == [kind |-> "message", from |-> s, tripped |-> m]
Answer(kind, s, id) == [kind |-> kind, from |-> s, id |-> id]

AnswerFrame == [kind : {"reply", "ack", "nak"}, from : Slaves, id : Ids]
MessageFrame == [kind : {"message"}, from : Slaves, tripped : SUBSET IlSlots]
UpFrame == AnswerFrame \cup MessageFrame
             \cup [kind : {"summary"}, from : Slaves, flag : BOOLEAN]
DownFrame == [kind : {"poll"}, to : Slaves] \cup [kind : {"data"}, to : Slaves, cmd : Cmd]

IsDown == wire.kind \in {"poll", "data"}
IsUp == wire.kind \in {"reply", "ack", "nak", "message", "summary"}
Concerns(s) == (IsDown /\ wire.to = s) \/ (IsUp /\ wire.from = s)

MishapCount == [{"bus", "host"} -> 0..MaxMishaps]
Victim(m) == IF m = "restart" THEN "host" ELSE "bus"

\* One more mishap of kind m.
Mishap(m) ==
  /\ m \in Mishaps
  /\ mishaps["bus"] + mishaps["host"] < MaxMishaps
  /\ mishaps' = [mishaps EXCEPT ![Victim(m)] = @ + 1]
=============================================================================
