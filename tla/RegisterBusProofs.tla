-------------------------- MODULE RegisterBusProofs --------------------------
(***************************************************************************)
(* Proofs about RegisterBus, for any number of slaves, roster places,      *)
(* commands and mishaps: the windows of the master fit its command slot,   *)
(* and no command is executed twice, answered more often than executed, or *)
(* executed although its refusal is on its way.  What carries them is a    *)
(* ledger of where each command is.                                        *)
(***************************************************************************)
EXTENDS RegisterBus, FiniteSetTheorems, WellFoundedInduction, TLAPS

Commands == Ids \ {Poke}

-----------------------------------------------------------------------------
(***************************************************************************)
(* The invariant.  Shapes: what a state of the engine says of its data.    *)
(***************************************************************************)

\* A buffer that is about to be read holds a command.
NodeShape(n) == /\ n.work => n.in \in Cmd
                /\ n.pc = "exec" => n.doing \in Cmd
                /\ n.ready => n.reply \in Cmd

\* The bus is silent outside a window, and a window is a slave's.
WindowShape == /\ poll_state = "idle" => wire = NoFrame
               /\ poll_state = "wait" => poll_cur_addr \in Slaves
               /\ cmd_state # "idle" => cmd \in Cmd
               /\ cmd_state = "sent" => poll_state = "wait" /\ poll_cur_addr = cmd.to

RelayShape == /\ cmd_ack.kind \in {"none", "ack", "nak"}
              /\ cmd_reply.kind \in {"none", "reply", "message"}

Shaped == WindowShape /\ RelayShape /\ \A s \in Slaves : NodeShape(node[s])

\* The ledger: where a command is before a slave takes it,
Queued(i) == cmd_state = "queued" /\ cmd.id = i
OnWire(i) == wire.kind = "data" /\ wire.cmd.id = i
\* in a slave that has taken it and not run it,
HeldBy(s, i) == node[s].in.id = i \/ node[s].doing.id = i
\* as a verdict on its way to the host, or told,
Verdict(f, i) == f.kind \in {"ack", "nak"} /\ f.id = i
Told(i) == i \in told_ack \cup told_nak
Judged(i) == Verdict(wire, i) \/ Verdict(cmd_ack, i) \/ Told(i)
\* or as a reply.
ReplyAt(s, i) == node[s].ready /\ node[s].reply.id = i
ReplyIn(f, i) == f.kind = "reply" /\ f.id = i

Begun(i) == executed[i] > 0 \/ (\E s \in Slaves : HeldBy(s, i)) \/ Judged(i)

\* A command that is not sent yet is nowhere, and one that no slave has seen
\* is in one place and has no verdict.
BeforeClaim(i) ==
  /\ Queued(i) \/ OnWire(i) \/ Begun(i) => i <= sent
  /\ Queued(i) => ~OnWire(i)
  /\ Queued(i) \/ OnWire(i) => ~Begun(i)

\* A claimed command is in one buffer of one slave until it runs, once.
WhileClaimed(i) ==
  /\ executed[i] \in {0, 1}
  /\ \A s \in Slaves : HeldBy(s, i) =>
       /\ executed[i] = 0
       /\ ~(node[s].in.id = i /\ node[s].doing.id = i)
       /\ \A t \in Slaves : HeldBy(t, i) => t = s

\* There is one verdict on a command, and a refused one was not claimed.
OneVerdict(i) ==
  /\ Verdict(wire, i) => ~Verdict(cmd_ack, i) /\ ~Told(i)
  /\ Verdict(cmd_ack, i) => ~Told(i)
  /\ Nacked(i) => ~Claimed(i)

\* There is one reply, and none before the command ran.
OneReply(i) ==
  /\ told_reply[i] \in {0, executed[i]}
  /\ \A s \in Slaves : ReplyAt(s, i) =>
       /\ executed[i] = 1 /\ told_reply[i] = 0
       /\ ~ReplyIn(wire, i) /\ ~ReplyIn(cmd_reply, i)
       /\ \A t \in Slaves : ReplyAt(t, i) => t = s
  /\ ReplyIn(wire, i) =>
       executed[i] = 1 /\ told_reply[i] = 0 /\ ~ReplyIn(cmd_reply, i)
  /\ ReplyIn(cmd_reply, i) => executed[i] = 1 /\ told_reply[i] = 0

Ledger == \A i \in Commands : /\ BeforeClaim(i) /\ WhileClaimed(i)
                              /\ OneVerdict(i) /\ OneReply(i)

IInv == TypeOK /\ Shaped /\ Ledger

-----------------------------------------------------------------------------
(***************************************************************************)
(* Frames, records and small sets.                                         *)
(***************************************************************************)
Buffer == Cmd \cup {NoCmd}
NodeRec == [busy : BOOLEAN, work : BOOLEAN, in : Buffer, doing : Buffer, ready : BOOLEAN,
            reply : Buffer, timed : BOOLEAN, late : BOOLEAN, fresh : BOOLEAN,
            msg : SUBSET IlSlots, summary : BOOLEAN, prev : BOOLEAN, repush : BOOLEAN,
            pc : Pcs]
InfoRec == [state : Liveness, announced : Liveness, misses : Nat,
            summary : BOOLEAN, announced_summary : BOOLEAN]
Frame == UpFrame \cup DownFrame \cup {NoFrame}

SlaveTyped == /\ node \in [Slaves -> NodeRec]
              /\ tripped \in [Slaves -> SUBSET IlSlots]
              /\ trips \in 0..MaxTrips
              /\ executed \in [Commands -> 0..2]
LEMMA SlaveTypeNames == SlaveType <=> SlaveTyped
BY DEF SlaveType, SlaveTyped, NodeRec, Buffer, Commands

\* A command is no empty buffer, and names a slave and an id.
LEMMA CmdFacts ==
  /\ \A c \in Cmd : c.id \in Ids /\ c.to \in Slaves /\ c.timed \in BOOLEAN /\ c.id # -1
  /\ NoCmd \notin Cmd /\ NoCmd.id = -1 /\ NoCmd \in Buffer /\ Cmd \subseteq Buffer
  /\ \A c \in Buffer : c.id \in Ids => c \in Cmd
  /\ \A i \in Commands : i \in Ids /\ i # Poke /\ i # -1 /\ i \in Nat
<1>1. \A i \in Ids : i \in Nat /\ i # -1
  BY WireAssumption DEF Ids
<1>2. NoCmd.id = -1
  BY DEF NoCmd
<1>3. \A c \in Cmd : c.id \in Ids /\ c.to \in Slaves /\ c.timed \in BOOLEAN /\ c.id # -1
  BY <1>1 DEF Cmd
<1> QED BY <1>1, <1>2, <1>3 DEF Buffer, Commands

\* What a frame of each kind carries.
LEMMA FrameFacts ==
  /\ NoFrame \in Frame /\ NoFrame.kind = "none"
  /\ \A f \in Frame : /\ f.kind = "none" <=> f = NoFrame
                      /\ f.kind = "data" => f.cmd \in Cmd /\ f.to \in Slaves
                      /\ f.kind = "poll" => f.to \in Slaves
                      /\ f.kind \in {"ack", "nak", "reply"} => f \in AnswerFrame
                      /\ f.kind = "message" => f \in MessageFrame
                      /\ f.kind = "summary" => f.flag \in BOOLEAN
  /\ \A f \in AnswerFrame : f \in Frame /\ f.id \in Ids /\ f.from \in Slaves
                            /\ f.kind \in {"ack", "nak", "reply"}
  /\ \A f \in MessageFrame : f \in Frame /\ f.kind = "message" /\ f.from \in Slaves
                             /\ f.tripped \in SUBSET IlSlots
BY DEF Frame, UpFrame, DownFrame, AnswerFrame, MessageFrame, NoFrame

\* The frames that the master and the slaves build.
LEMMA BuiltFrames ==
  ASSUME NEW s \in Slaves
  PROVE  /\ Poll(s) \in Frame /\ Poll(s).kind = "poll"
         /\ \A c \in Cmd : Data(c) \in Frame /\ Data(c).kind = "data" /\ Data(c).cmd = c
         /\ \A b \in BOOLEAN : Summary(s, b) \in Frame /\ Summary(s, b).kind = "summary"
         /\ \A m \in SUBSET IlSlots : Message(s, m) \in Frame /\ Message(s, m).kind = "message"
         /\ \A k \in {"ack", "nak", "reply"}, i \in Ids :
              Answer(k, s, i) \in Frame /\ Answer(k, s, i).kind = k /\ Answer(k, s, i).id = i
BY CmdFacts DEF Poll, Data, Summary, Message, Answer, Frame, UpFrame, DownFrame, AnswerFrame,
                MessageFrame

\* The least element of a set of numbers is in it.
LEMMA MinIn ==
  ASSUME NEW S, S \subseteq Nat, S # {}
  PROVE  Min(S) \in S
<1> DEFINE R == OpToRel(<, Nat)
<1>1. IsWellFoundedOn(R, Nat)
  BY NatLessThanWellFounded
<1>2. \A m, n \in Nat : m < n => <<m, n>> \in R
  BY DEF OpToRel
<1> HIDE DEF R
<1>3. PICK n \in S : \A m \in S : ~(<<m, n>> \in R)
  BY <1>1, WFMin
<1>4. ASSUME NEW m \in S PROVE n <= m
  <2>1. m \in Nat /\ n \in Nat /\ ~(m < n)
    BY <1>2, <1>3
  <2> QED BY <2>1
<1> QED BY <1>4 DEF Min

LEMMA MinOfTwo == \A m, n \in Nat : Min({m, n}) \in Nat
<1> TAKE m, n \in Nat
<1> QED BY MinIn

LEMMA MaxOfTwo == \A m, n \in Int : Max({m, n}) = IF m >= n THEN m ELSE n
<1> TAKE m, n \in Int
<1> DEFINE x == IF m >= n THEN m ELSE n
<1>1. x \in {m, n} /\ \A y \in {m, n} : x >= y
  OBVIOUS
<1>2. \A z \in {m, n} : (\A y \in {m, n} : z >= y) => z = x
  OBVIOUS
<1> QED BY <1>1, <1>2 DEF Max
-----------------------------------------------------------------------------
(***************************************************************************)
(* Types and shapes, the slaves' steps.                                    *)
(***************************************************************************)

\* The invariant without the ledger.
Fit == TypeOK /\ Shaped

\* Everything of the master stays.
LEMMA MasterStays ==
  UNCHANGED masterVars =>
    /\ UNCHANGED <<enabled, poll_state, poll_cur_addr, poll_cursor, cmd_state, cmd, cmd_ack,
                   cmd_reply, table, info, status_cursor, sent, told_ack, told_nak, told_reply,
                   told_down, il_flags, il_msg, cooling>>
    /\ MasterType' = MasterType /\ RelayShape' = RelayShape
BY DEF masterVars, engineVars, slotVars, relayVars, rosterVars, toldVars, MasterType, RelayShape

\* A step of a slave that leaves its node fit.
LEMMA SlaveFit ==
  ASSUME Fit, UNCHANGED masterVars, NEW s \in Slaves, NEW n \in NodeRec, NodeShape(n),
         node' = [node EXCEPT ![s] = n],
         tripped' \in [Slaves -> SUBSET IlSlots], trips' \in 0..MaxTrips,
         executed' \in [Commands -> 0..2],
         mishaps' \in MishapCount, wire' \in Frame, poll_state = "idle" => wire' = NoFrame
  PROVE  Fit' /\ node'[s] = n /\ \A t \in Slaves \ {s} : node'[t] = node[t]
<1>1. node \in [Slaves -> NodeRec]
  BY SlaveTypeNames DEF Fit, TypeOK, SlaveTyped
<1>2. node' \in [Slaves -> NodeRec] /\ node'[s] = n /\ \A t \in Slaves \ {s} : node'[t] = node[t]
  BY <1>1
<1>3. SlaveType'
  BY <1>2 DEF SlaveType, NodeRec, Buffer, Commands
<1>4. TypeOK'
  BY <1>3, MasterStays DEF Fit, TypeOK, Frame
<1>5. Shaped'
  BY <1>2, MasterStays DEF Fit, Shaped, WindowShape
<1> QED BY <1>2, <1>4, <1>5 DEF Fit

LEMMA FitFacts ==
  ASSUME Fit
  PROVE  /\ SlaveTyped /\ MasterType /\ wire \in Frame /\ mishaps \in MishapCount
         /\ \A s \in Slaves : node[s] \in NodeRec /\ NodeShape(node[s])
BY SlaveTypeNames DEF Fit, TypeOK, Shaped, SlaveTyped, Frame

\* One more mishap is within the bound.
LEMMA MishapType ==
  ASSUME NEW m, mishaps \in MishapCount, Mishap(m)
  PROVE  mishaps' \in MishapCount
<1>1. MaxMishaps \in Nat
  BY WireAssumption
<1>2. Victim(m) \in {"bus", "host"} /\ mishaps["bus"] \in 0..MaxMishaps /\ mishaps["host"] \in 0..MaxMishaps
  BY DEF Victim, MishapCount
<1>3. mishaps[Victim(m)] + 1 \in 0..MaxMishaps
  BY <1>1, <1>2 DEF Mishap
<1> QED BY <1>2, <1>3 DEF Mishap, MishapCount

\* The buffers that hold a command or the reply to one.
Papers(n) == <<n.in, n.doing, n.ready, n.reply>>

\* Steps of the main loop that leave those buffers alone: the summary is
\* published, with a message or without,
LEMMA SummaryNodes ==
  ASSUME Fit, NEW s \in Slaves, NEW n, NEW m \in SUBSET IlSlots, NEW b \in BOOLEAN,
         \/ n = [node[s] EXCEPT !.summary = b, !.prev = b, !.repush = FALSE, !.msg = m,
                                !.pc = "fill"]
         \/ n = [node[s] EXCEPT !.summary = b, !.prev = b, !.repush = FALSE, !.pc = "dog"]
  PROVE  n \in NodeRec /\ NodeShape(n) /\ Papers(n) = Papers(node[s])
<1>1. node[s] \in NodeRec /\ NodeShape(node[s])
  BY FitFacts
<1>2. CASE n = [node[s] EXCEPT !.summary = b, !.prev = b, !.repush = FALSE, !.msg = m,
                               !.pc = "fill"]
  BY <1>1, <1>2 DEF NodeRec, NodeShape, Papers, Pcs
<1>3. CASE n = [node[s] EXCEPT !.summary = b, !.prev = b, !.repush = FALSE, !.pc = "dog"]
  BY <1>1, <1>3 DEF NodeRec, NodeShape, Papers, Pcs
<1> QED BY <1>2, <1>3

\* its message is complete,
LEMMA MessageNode ==
  ASSUME Fit, NEW s \in Slaves, NEW n, NEW m \in SUBSET IlSlots,
         n = [node[s] EXCEPT !.msg = m, !.fresh = TRUE, !.pc = "dog"]
  PROVE  n \in NodeRec /\ NodeShape(n) /\ Papers(n) = Papers(node[s])
<1>1. node[s] \in NodeRec /\ NodeShape(node[s])
  BY FitFacts
<1> QED BY <1>1 DEF NodeRec, NodeShape, Papers, Pcs

\* or a flag is changed, or nothing.
LEMMA QuietNodes ==
  ASSUME Fit, NEW s \in Slaves, NEW n,
         \/ n = [node[s] EXCEPT !.busy = FALSE, !.pc = "abort"]
         \/ n = [node[s] EXCEPT !.work = FALSE, !.pc = "abort2"]
         \/ \E pc \in {"work", "rest", "loop"} : n = [node[s] EXCEPT !.pc = pc]
         \/ n = [node[s] EXCEPT !.late = TRUE]
         \/ n = [node[s] EXCEPT !.fresh = FALSE]
         \/ n = node[s]
  PROVE  n \in NodeRec /\ NodeShape(n) /\ Papers(n) = Papers(node[s])
<1>1. node[s] \in NodeRec /\ NodeShape(node[s])
  BY FitFacts
<1>2. CASE n = [node[s] EXCEPT !.busy = FALSE, !.pc = "abort"]
  BY <1>1, <1>2 DEF NodeRec, NodeShape, Papers, Pcs
<1>3. CASE n = [node[s] EXCEPT !.work = FALSE, !.pc = "abort2"]
  BY <1>1, <1>3 DEF NodeRec, NodeShape, Papers, Pcs
<1>4. CASE \E pc \in {"work", "rest", "loop"} : n = [node[s] EXCEPT !.pc = pc]
  BY <1>1, <1>4 DEF NodeRec, NodeShape, Papers, Pcs
<1>5. CASE n = [node[s] EXCEPT !.late = TRUE]
  BY <1>1, <1>5 DEF NodeRec, NodeShape, Papers
<1>6. CASE n = [node[s] EXCEPT !.fresh = FALSE]
  BY <1>1, <1>6 DEF NodeRec, NodeShape, Papers
<1>7. CASE n = node[s]
  BY <1>1, <1>7
<1> QED BY <1>2, <1>3, <1>4, <1>5, <1>6, <1>7

LEMMA ReplyNode ==
  ASSUME Fit, NEW s \in Slaves, NEW n,
         \/ n = [node[s] EXCEPT !.ready = FALSE, !.busy = FALSE, !.reply = NoCmd]
         \/ n = [node[s] EXCEPT !.ready = FALSE, !.reply = NoCmd, !.timed = FALSE, !.pc = "work"]
  PROVE  /\ n \in NodeRec /\ NodeShape(n)
         /\ n.in = node[s].in /\ n.doing = node[s].doing /\ ~n.ready
<1>1. node[s] \in NodeRec /\ NodeShape(node[s])
  BY FitFacts
<1>2. CASE n = [node[s] EXCEPT !.ready = FALSE, !.busy = FALSE, !.reply = NoCmd]
  BY <1>1, <1>2, CmdFacts DEF NodeRec, NodeShape
<1>3. CASE n = [node[s] EXCEPT !.ready = FALSE, !.reply = NoCmd, !.timed = FALSE, !.pc = "work"]
  BY <1>1, <1>3, CmdFacts DEF NodeRec, NodeShape, Pcs
<1> QED BY <1>2, <1>3

LEMMA PickNode ==
  ASSUME Fit, NEW s \in Slaves, node[s].work, NEW n,
         n = [node[s] EXCEPT !.work = FALSE, !.in = NoCmd, !.doing = node[s].in, !.late = FALSE,
                             !.timed = node[s].in.timed, !.pc = "exec"]
  PROVE  /\ n \in NodeRec /\ NodeShape(n)
         /\ n.in = NoCmd /\ n.doing = node[s].in /\ n.ready = node[s].ready
         /\ n.reply = node[s].reply
<1>1. node[s] \in NodeRec /\ NodeShape(node[s])
  BY FitFacts
<1>2. node[s].in \in Cmd /\ node[s].in.timed \in BOOLEAN
  BY <1>1, CmdFacts DEF NodeShape
<1>3. PICK v, c, t : v = node[s] /\ c = node[s].in /\ t = node[s].in.timed
  OBVIOUS
<1>4. n = [v EXCEPT !.work = FALSE, !.in = NoCmd, !.doing = c, !.late = FALSE,
                    !.timed = t, !.pc = "exec"]
  BY <1>3
<1>5. v \in NodeRec /\ NodeShape(v) /\ c \in Cmd /\ t \in BOOLEAN
  BY <1>1, <1>2, <1>3
<1>6. NoCmd \in Buffer /\ c \in Buffer
  BY <1>5, CmdFacts
<1>7. "exec" \in Pcs
  BY DEF Pcs
<1>8. n \in NodeRec
  <2>1. PICK m : m = [v EXCEPT !.work = FALSE, !.in = NoCmd, !.doing = c]
    OBVIOUS
  <2>2. m \in NodeRec
    BY <1>5, <1>6, <2>1 DEF NodeRec
  <2>3. n = [m EXCEPT !.late = FALSE, !.timed = t, !.pc = "exec"]
    BY <1>4, <1>5, <2>1 DEF NodeRec
  <2>4. PICK e : e = "exec"
    OBVIOUS
  <2>5. e \in Pcs /\ t \in BOOLEAN
    BY <1>5, <1>7, <2>4
  <2>6. n = [m EXCEPT !.late = FALSE, !.timed = t, !.pc = e]
    BY <2>3, <2>4
  <2> QED BY <2>2, <2>5, <2>6 DEF NodeRec
<1>9. /\ n.in = NoCmd /\ n.doing = c /\ n.ready = v.ready
      /\ n.reply = v.reply /\ n.work = FALSE
  BY <1>4, <1>5 DEF NodeRec
<1> QED BY <1>3, <1>5, <1>8, <1>9 DEF NodeShape

LEMMA RanNode ==
  ASSUME Fit, NEW s \in Slaves, node[s].pc = "exec", NEW b \in BOOLEAN, NEW n,
         n = [node[s] EXCEPT !.reply = node[s].doing, !.doing = NoCmd, !.ready = TRUE,
                             !.repush = b, !.pc = "rest"]
  PROVE  /\ n \in NodeRec /\ NodeShape(n) /\ node[s].doing \in Cmd
         /\ n.in = node[s].in /\ n.doing = NoCmd /\ n.ready /\ n.reply = node[s].doing
<1>1. node[s] \in NodeRec /\ NodeShape(node[s])
  BY FitFacts
<1>2. node[s].doing \in Cmd
  BY <1>1 DEF NodeShape
<1> QED BY <1>1, <1>2, CmdFacts DEF NodeRec, NodeShape, Pcs

LEMMA BootNode ==
  /\ Boot \in NodeRec /\ NodeShape(Boot)
  /\ Boot.in = NoCmd /\ Boot.doing = NoCmd /\ ~Boot.ready
BY CmdFacts DEF Boot, NodeRec, NodeShape, Pcs
-----------------------------------------------------------------------------
(***************************************************************************)
(* The ledger.  Most steps move nothing in it, or lose something.          *)
(***************************************************************************)

\* Frames that say nothing of a command.
Mute == {"none", "message", "summary", "poll"}

LEMMA LedgerShrinks ==
  ASSUME Ledger, UNCHANGED <<executed, told_ack, told_nak, told_reply>>,
         sent \in Nat, sent' \in Nat, sent <= sent',
         wire' = wire \/ wire'.kind \in Mute,
         cmd_ack' = cmd_ack \/ cmd_ack'.kind = "none",
         cmd_reply' = cmd_reply \/ cmd_reply'.kind \in Mute,
         \A i \in Commands : Queued(i)' => Queued(i),
         \A t \in Slaves, i \in Commands :
           /\ node'[t].in.id = i => node[t].in.id = i
           /\ node'[t].doing.id = i => node[t].doing.id = i
           /\ ReplyAt(t, i)' => ReplyAt(t, i)
  PROVE  Ledger'
<1> SUFFICES ASSUME NEW i \in Commands
             PROVE  (BeforeClaim(i) /\ WhileClaimed(i) /\ OneVerdict(i) /\ OneReply(i))'
  BY DEF Ledger
<1>1. BeforeClaim(i) /\ WhileClaimed(i) /\ OneVerdict(i) /\ OneReply(i)
  BY DEF Ledger
<1>2. i \in Nat
  BY CmdFacts
<1>3. /\ \A t \in Slaves : HeldBy(t, i)' => HeldBy(t, i)
      /\ OnWire(i)' => OnWire(i)
      /\ Verdict(wire', i) => Verdict(wire, i) /\ wire' = wire
      /\ Verdict(cmd_ack', i) => Verdict(cmd_ack, i) /\ cmd_ack' = cmd_ack
      /\ ReplyIn(wire', i) => ReplyIn(wire, i)
      /\ ReplyIn(cmd_reply', i) => ReplyIn(cmd_reply, i)
      /\ Told(i)' = Told(i)
  BY DEF HeldBy, OnWire, Verdict, ReplyIn, Told, Mute
<1>4. Begun(i)' => Begun(i)
  BY <1>3 DEF Begun, Judged
<1>5. BeforeClaim(i)'
  BY <1>1, <1>2, <1>3, <1>4 DEF BeforeClaim
<1>6. WhileClaimed(i)'
  BY <1>1, <1>3 DEF WhileClaimed
<1>7. OneVerdict(i)'
  <2>1. Claimed(i)' => Claimed(i)
    BY DEF Claimed, Executed
  <2>2. Nacked(i)' => Nacked(i)
    BY <1>3 DEF Nacked, Verdict
  <2> QED BY <1>1, <1>3, <2>1, <2>2 DEF OneVerdict
<1>8. OneReply(i)'
  BY <1>1, <1>3 DEF OneReply
<1> QED BY <1>5, <1>6, <1>7, <1>8

\* A step of slave s with which its node becomes n, and nothing is executed.
SlaveMove(s, n) ==
  /\ node' = [node EXCEPT ![s] = n] /\ n \in NodeRec /\ NodeShape(n)
  /\ tripped' \in [Slaves -> SUBSET IlSlots] /\ trips' \in 0..MaxTrips
  /\ mishaps' \in MishapCount
  /\ UNCHANGED <<executed, masterVars>>

\* Such a step that clears buffers or leaves them keeps the invariant.
LEMMA SlaveShrinks ==
  ASSUME IInv, NEW s \in Slaves, NEW n, SlaveMove(s, n),
         n.in \in {node[s].in, NoCmd}, n.doing \in {node[s].doing, NoCmd},
         n.ready => node[s].ready /\ n.reply = node[s].reply,
         wire' = wire \/ (wire' \in Frame /\ wire'.kind \in Mute),
         poll_state = "idle" => wire' = NoFrame
  PROVE  IInv'
<1>0. Fit /\ SlaveTyped /\ MasterType /\ wire \in Frame
  BY FitFacts DEF IInv, Fit
<1>1. executed' \in [Commands -> 0..2]
  BY <1>0 DEF SlaveMove, SlaveTyped
<1>2. Fit' /\ node'[s] = n /\ \A t \in Slaves \ {s} : node'[t] = node[t]
  BY <1>0, <1>1, SlaveFit DEF SlaveMove
<1>3. UNCHANGED <<executed, told_ack, told_nak, told_reply, cmd_ack, cmd_reply, cmd_state, cmd, sent>>
  BY MasterStays DEF SlaveMove
<1>4. sent \in Nat
  BY <1>0, WireAssumption DEF MasterType, Ids
<1>5. ASSUME NEW t \in Slaves, NEW i \in Commands
      PROVE  /\ node'[t].in.id = i => node[t].in.id = i
             /\ node'[t].doing.id = i => node[t].doing.id = i
             /\ ReplyAt(t, i)' => ReplyAt(t, i)
  BY <1>2, CmdFacts DEF ReplyAt
<1>6. Ledger'
  BY <1>3, <1>4, <1>5, LedgerShrinks DEF IInv, Queued
<1> QED BY <1>2, <1>6 DEF IInv, Fit

\* Steps that only leave: the main loop without its command, time, restarts.
LEMMA LoopKeeps ==
  ASSUME IInv, NEW s \in Slaves, UNCHANGED masterVars,
         \/ PublishSummary(s) \/ FillMessage(s) \/ Watchdog(s) \/ DropWork(s) \/ DropReply(s)
         \/ (PickUp(s) /\ ~node[s].work) \/ InterlockTick(s) \/ Lapse(s)
  PROVE  IInv'
<1>0. Fit /\ SlaveTyped /\ MasterType /\ wire \in Frame /\ mishaps \in MishapCount
      /\ node[s] \in NodeRec /\ NodeShape(node[s])
  BY FitFacts DEF IInv, Fit
<1>1. poll_state = "idle" => wire = NoFrame
  BY DEF IInv, Shaped, WindowShape
<1> SUFFICES ASSUME NEW n, SlaveMove(s, n), wire' = wire,
                    n.in = node[s].in, n.doing = node[s].doing,
                    n.ready => node[s].ready /\ n.reply = node[s].reply
             PROVE  IInv'
  <2> DEFINE Calm(n) == /\ SlaveMove(s, n) /\ wire' = wire
                        /\ n.in = node[s].in /\ n.doing = node[s].doing
                        /\ n.ready => node[s].ready /\ n.reply = node[s].reply
  <2>1. SUFFICES \E n : Calm(n)
    OBVIOUS
  <2> HIDE DEF Calm
  <2>2. ASSUME NEW n, Becomes(s, n), wire' = wire, mishaps' \in MishapCount,
               n \in NodeRec, NodeShape(n), n.in = node[s].in, n.doing = node[s].doing,
               n.ready => node[s].ready /\ n.reply = node[s].reply
        PROVE  Calm(n)
    BY <1>0, <2>2 DEF Calm, SlaveMove, Becomes, SlaveTyped
  <2>3. ASSUME NEW n, MainStep(s, n), n \in NodeRec, NodeShape(n), Papers(n) = Papers(node[s])
        PROVE  Calm(n)
    BY <1>0, <2>2, <2>3 DEF MainStep, Papers
  <2>4. CASE PublishSummary(s)
    <3> DEFINE summ == tripped[s] # {}
               m == [node[s] EXCEPT !.summary = summ, !.prev = summ, !.repush = FALSE]
               mix(cut) == {i \in tripped[s] : i < cut} \cup {i \in node[s].msg : i >= cut}
    <3>1. CASE \E cut \in IlSlots : MainStep(s, [m EXCEPT !.msg = mix(cut), !.pc = "fill"])
      <4>1. PICK cut \in IlSlots : MainStep(s, [m EXCEPT !.msg = mix(cut), !.pc = "fill"])
        BY <3>1
      <4>2. mix(cut) \in SUBSET IlSlots /\ summ \in BOOLEAN
        BY <1>0 DEF SlaveTyped, NodeRec
      <4>3. [m EXCEPT !.msg = mix(cut), !.pc = "fill"]
              = [node[s] EXCEPT !.summary = summ, !.prev = summ, !.repush = FALSE,
                                !.msg = mix(cut), !.pc = "fill"]
        BY <1>0 DEF NodeRec
      <4> HIDE DEF summ, mix
      <4> QED BY <1>0, <2>3, <4>1, <4>2, <4>3, SummaryNodes
    <3>2. CASE MainStep(s, [m EXCEPT !.pc = "dog"])
      <4>1. [m EXCEPT !.pc = "dog"]
              = [node[s] EXCEPT !.summary = summ, !.prev = summ, !.repush = FALSE, !.pc = "dog"]
        BY <1>0 DEF NodeRec
      <4>2. summ \in BOOLEAN /\ {} \in SUBSET IlSlots
        OBVIOUS
      <4> HIDE DEF summ
      <4> QED BY <1>0, <2>3, <3>2, <4>1, <4>2, SummaryNodes
    <3> QED BY <2>4, <3>1, <3>2 DEF PublishSummary
  <2>5. CASE FillMessage(s)
    <3>1. tripped[s] \in SUBSET IlSlots
      <4>1. tripped \in [Slaves -> SUBSET IlSlots]
        BY <1>0, Zenon DEF SlaveTyped
      <4> QED BY <4>1
    <3> QED BY <1>0, <2>3, <2>5, <3>1, MessageNode DEF FillMessage
  <2>6. CASE Watchdog(s) \/ DropWork(s) \/ (PickUp(s) /\ ~node[s].work)
    <3>1. PICK n : /\ MainStep(s, n)
                   /\ \/ n = [node[s] EXCEPT !.busy = FALSE, !.pc = "abort"]
                      \/ n = [node[s] EXCEPT !.pc = "work"]
                      \/ n = [node[s] EXCEPT !.work = FALSE, !.pc = "abort2"]
                      \/ n = [node[s] EXCEPT !.pc = "rest"]
      BY <2>6 DEF Watchdog, DropWork, PickUp
    <3> QED BY <1>0, <2>3, <3>1, QuietNodes
  <2>7. CASE DropReply(s)
    BY <1>0, <2>2, <2>7, ReplyNode DEF DropReply, MainStep
  <2>8. CASE InterlockTick(s)
    <3> DEFINE n == [node[s] EXCEPT !.pc = "loop"]
    <3>1. n \in NodeRec /\ NodeShape(n) /\ Papers(n) = Papers(node[s])
      BY <1>0, QuietNodes
    <3>2. /\ node' = [node EXCEPT ![s] = n]
          /\ tripped' \in [Slaves -> SUBSET IlSlots] /\ trips' \in 0..MaxTrips
          /\ UNCHANGED <<executed, wire, mishaps>>
      <4>1. MaxTrips \in Nat
        BY WireAssumption
      <4>2. PICK t \in SUBSET IlSlots :
              /\ t # tripped[s] => trips < MaxTrips
              /\ trips' = IF t = tripped[s] THEN trips ELSE trips + 1
              /\ tripped' = [tripped EXCEPT ![s] = t]
        BY <2>8 DEF InterlockTick
      <4>3. trips' \in 0..MaxTrips
        BY <1>0, <4>1, <4>2 DEF SlaveTyped
      <4>4. tripped' \in [Slaves -> SUBSET IlSlots]
        BY <1>0, <4>2 DEF SlaveTyped
      <4> QED BY <2>8, <4>3, <4>4 DEF InterlockTick
    <3> HIDE DEF n
    <3> QED BY <1>0, <3>1, <3>2 DEF Calm, SlaveMove, Papers
  <2>9. CASE Lapse(s)
    <3>1. mishaps' \in MishapCount
      BY <1>0, <2>9, MishapType DEF Lapse
    <3> QED BY <1>0, <2>2, <2>9, <3>1, QuietNodes DEF Lapse, Papers
  <2> QED BY <2>4, <2>5, <2>6, <2>7, <2>8, <2>9
<1> QED BY <1>1, SlaveShrinks

LEMMA ResetKeeps ==
  ASSUME IInv, NEW s \in Slaves, UNCHANGED masterVars, Reset(s)
  PROVE  IInv'
<1>0. Fit /\ SlaveTyped /\ MasterType /\ wire \in Frame /\ mishaps \in MishapCount
  BY FitFacts DEF IInv, Fit
<1>1. mishaps' \in MishapCount
  BY <1>0, MishapType DEF Reset
<1>2. SlaveMove(s, Boot)
  BY <1>0, <1>1, BootNode DEF Reset, SlaveMove, SlaveTyped
<1>3. wire' = wire \/ wire' = NoFrame
  BY DEF Reset
<1>4. poll_state = "idle" => wire' = NoFrame
  BY <1>3 DEF IInv, Shaped, WindowShape
<1> QED BY <1>2, <1>3, <1>4, BootNode, FrameFacts, SlaveShrinks DEF Mute

\* The interrupt answers inside a window: the bus is not silent then.
LEMMA IsrShapes ==
  ASSUME IInv, NEW s \in Slaves, NEW n, NEW f, IsrStep(s, n, f), UNCHANGED masterVars,
         n \in NodeRec, NodeShape(n), f \in Frame, wire # NoFrame
  PROVE  /\ SlaveMove(s, n) /\ wire' = f /\ (poll_state = "idle" => wire' = NoFrame)
         /\ Fit' /\ node'[s] = n /\ \A t \in Slaves \ {s} : node'[t] = node[t]
         /\ UNCHANGED <<executed, told_ack, told_nak, told_reply, cmd_ack, cmd_reply, cmd_state,
                        cmd, sent>>
<1>0. Fit /\ SlaveTyped /\ mishaps \in MishapCount
  BY FitFacts DEF IInv, Fit
<1>1. SlaveMove(s, n)
  BY <1>0 DEF SlaveMove, IsrStep, Becomes, SlaveTyped
<1>2. wire' = f /\ (poll_state = "idle" => wire' = NoFrame)
  BY DEF IsrStep, IInv, Shaped, WindowShape
<1>3. executed' \in [Commands -> 0..2]
  BY <1>0, <1>1 DEF SlaveMove, SlaveTyped
<1>4. Fit' /\ node'[s] = n /\ \A t \in Slaves \ {s} : node'[t] = node[t]
  BY <1>0, <1>1, <1>2, <1>3, SlaveFit DEF SlaveMove
<1> QED BY <1>1, <1>2, <1>4, MasterStays DEF SlaveMove

LEMMA IsrQuietKeeps ==
  ASSUME IInv, NEW s \in Slaves, UNCHANGED masterVars, IsrMessage(s) \/ IsrSummary(s)
  PROVE  IInv'
<1>0. Fit /\ node[s] \in NodeRec /\ wire # NoFrame
  BY FitFacts, FrameFacts DEF IInv, Fit, IsrMessage, IsrSummary, Polled
<1>1. PICK n, f : /\ IsrStep(s, n, f)
                  /\ f \in Frame /\ f.kind \in Mute
                  /\ n = [node[s] EXCEPT !.fresh = FALSE] \/ n = node[s]
  <2>1. node[s].msg \in SUBSET IlSlots /\ node[s].summary \in BOOLEAN
    BY <1>0 DEF NodeRec
  <2>2. CASE IsrMessage(s)
    BY <2>1, <2>2, BuiltFrames DEF IsrMessage, Mute
  <2>3. CASE IsrSummary(s)
    BY <2>1, <2>3, BuiltFrames DEF IsrSummary, Mute
  <2> QED BY <2>2, <2>3
<1>2. n \in NodeRec /\ NodeShape(n) /\ Papers(n) = Papers(node[s])
  BY <1>0, <1>1, QuietNodes
<1> QED BY <1>0, <1>1, <1>2, IsrShapes, SlaveShrinks DEF Papers

\* The reply leaves its buffer for the wire.
LEMMA IsrReplyKeeps ==
  ASSUME IInv, NEW s \in Slaves, UNCHANGED masterVars, IsrReply(s)
  PROVE  IInv'
<1> DEFINE n == [node[s] EXCEPT !.ready = FALSE, !.busy = FALSE, !.reply = NoCmd]
           f == Answer("reply", s, node[s].reply.id)
<1>0. Fit /\ NodeShape(node[s]) /\ wire # NoFrame
  BY FitFacts, FrameFacts DEF IInv, Fit, IsrReply, Polled
<1>1. node[s].ready /\ node[s].reply.id \in Ids
  BY <1>0, CmdFacts DEF NodeShape, IsrReply
<1>2. IsrStep(s, n, f) /\ f \in Frame /\ f.kind = "reply" /\ f.id = node[s].reply.id
  BY <1>1, BuiltFrames DEF IsrReply
<1>3. n \in NodeRec /\ NodeShape(n) /\ n.in = node[s].in /\ n.doing = node[s].doing /\ ~n.ready
  BY <1>0, ReplyNode
<1> HIDE DEF n, f
<1>4. /\ Fit' /\ node'[s] = n /\ \A t \in Slaves \ {s} : node'[t] = node[t]
      /\ wire' = f
      /\ UNCHANGED <<executed, told_ack, told_nak, told_reply, cmd_ack, cmd_reply, cmd_state, cmd,
                     sent>>
  BY <1>0, <1>2, <1>3, IsrShapes
<1> SUFFICES ASSUME NEW i \in Commands
             PROVE  (BeforeClaim(i) /\ WhileClaimed(i) /\ OneVerdict(i) /\ OneReply(i))'
  BY <1>4 DEF IInv, Ledger, Fit
<1>5. BeforeClaim(i) /\ WhileClaimed(i) /\ OneVerdict(i) /\ OneReply(i)
  BY DEF Ledger, IInv
<1>6. /\ \A t \in Slaves : HeldBy(t, i)' = HeldBy(t, i)
      /\ \A t \in Slaves : node'[t].in = node[t].in /\ node'[t].doing = node[t].doing
  BY <1>3, <1>4 DEF HeldBy
<1>7. ~OnWire(i)' /\ ~Verdict(wire', i) /\ Queued(i)' = Queued(i) /\ Told(i)' = Told(i)
  BY <1>2, <1>4 DEF OnWire, Verdict, Queued, Told
<1>8. Begun(i)' => Begun(i)
  BY <1>4, <1>6, <1>7 DEF Begun, Judged
<1>9. BeforeClaim(i)' /\ WhileClaimed(i)'
  BY <1>4, <1>5, <1>6, <1>7, <1>8 DEF BeforeClaim, WhileClaimed
<1>10. OneVerdict(i)'
  <2>1. Claimed(i)' = Claimed(i)
    BY <1>4, <1>6 DEF Claimed, Executed
  <2>2. Nacked(i)' => Nacked(i)
    BY <1>2, <1>4 DEF Nacked
  <2> QED BY <1>4, <1>5, <1>7, <2>1, <2>2 DEF OneVerdict
<1>11. OneReply(i)'
  <2>1. ReplyIn(wire', i) => ReplyAt(s, i)
    BY <1>1, <1>2, <1>4 DEF ReplyIn, ReplyAt
  <2>2. \A t \in Slaves : ReplyAt(t, i)' => t # s /\ ReplyAt(t, i)
    BY <1>3, <1>4 DEF ReplyAt
  <2> QED BY <1>4, <1>5, <2>1, <2>2 DEF OneReply
<1> QED BY <1>9, <1>10, <1>11

\* The command leaves the wire for the slave's buffer, or is refused.
LEMMA IsrDataKeeps ==
  ASSUME IInv, NEW s \in Slaves, UNCHANGED masterVars, IsrData(s)
  PROVE  IInv'
<1> DEFINE c == wire.cmd
<1>0. Fit /\ node[s] \in NodeRec /\ NodeShape(node[s]) /\ wire # NoFrame /\ c \in Cmd
  BY FitFacts, FrameFacts DEF IInv, Fit, IsrData
<1>1. c.id \in Ids
  BY <1>0, CmdFacts
<1>2. \E n, f : /\ IsrStep(s, n, f) /\ f \in Frame /\ f.id = c.id
                /\ n \in NodeRec /\ NodeShape(n)
                /\ n.doing = node[s].doing /\ n.ready = node[s].ready /\ n.reply = node[s].reply
                /\ \/ f.kind = "nak" /\ n.in = node[s].in
                   \/ f.kind = "ack" /\ n.in = c
  <2>1. CASE node[s].busy
    BY <1>0, <1>1, <2>1, BuiltFrames DEF IsrData
  <2>2. CASE ~node[s].busy
    <3> DEFINE n == [node[s] EXCEPT !.in = c, !.busy = TRUE, !.work = TRUE]
    <3>1. IsrStep(s, n, Answer("ack", s, c.id))
      BY <2>2 DEF IsrData
    <3>2. n = [node[s] EXCEPT !.in = c, !.busy = TRUE, !.work = TRUE]
      OBVIOUS
    <3>3. /\ Answer("ack", s, c.id) \in Frame /\ Answer("ack", s, c.id).kind = "ack"
          /\ Answer("ack", s, c.id).id = c.id
      BY <1>1, BuiltFrames
    <3> HIDE DEF n, c
    <3>4. /\ n \in NodeRec /\ NodeShape(n) /\ n.in = c
          /\ n.doing = node[s].doing /\ n.ready = node[s].ready /\ n.reply = node[s].reply
      BY <1>0, <3>2, CmdFacts DEF NodeRec, NodeShape
    <3> QED BY <3>1, <3>3, <3>4
  <2> QED BY <2>1, <2>2
<1>3. PICK n, f : /\ IsrStep(s, n, f) /\ f \in Frame /\ f.id = c.id
                  /\ n \in NodeRec /\ NodeShape(n)
                  /\ n.doing = node[s].doing /\ n.ready = node[s].ready /\ n.reply = node[s].reply
                  /\ \/ f.kind = "nak" /\ n.in = node[s].in
                     \/ f.kind = "ack" /\ n.in = c
  BY <1>2
<1>4. /\ Fit' /\ node'[s] = n /\ \A t \in Slaves \ {s} : node'[t] = node[t]
      /\ wire' = f
      /\ UNCHANGED <<executed, told_ack, told_nak, told_reply, cmd_ack, cmd_reply, cmd_state, cmd,
                     sent>>
  BY <1>0, <1>3, IsrShapes
<1>5. wire.kind = "data"
  BY DEF IsrData
<1> HIDE DEF c
<1> SUFFICES ASSUME NEW i \in Commands
             PROVE  (BeforeClaim(i) /\ WhileClaimed(i) /\ OneVerdict(i) /\ OneReply(i))'
  BY <1>4 DEF IInv, Ledger, Fit
<1>6. BeforeClaim(i) /\ WhileClaimed(i) /\ OneVerdict(i) /\ OneReply(i)
  BY DEF Ledger, IInv
<1>7. /\ \A t \in Slaves : ReplyAt(t, i)' = ReplyAt(t, i)
      /\ ~ReplyIn(wire', i) /\ ~OnWire(i)' /\ Queued(i)' = Queued(i) /\ Told(i)' = Told(i)
      /\ OneReply(i)'
  <2>1. /\ \A t \in Slaves : ReplyAt(t, i)' = ReplyAt(t, i)
        /\ ~ReplyIn(wire', i) /\ ~OnWire(i)' /\ Queued(i)' = Queued(i) /\ Told(i)' = Told(i)
    BY <1>3, <1>4 DEF ReplyAt, ReplyIn, OnWire, Queued, Told
  <2> QED BY <1>4, <1>6, <2>1 DEF OneReply
<1>8. CASE i # c.id
  <2>1. \A t \in Slaves : (HeldBy(t, i)' => HeldBy(t, i))
          /\ (node'[t].in.id = i => node[t].in.id = i) /\ node'[t].doing = node[t].doing
    BY <1>3, <1>4, <1>8 DEF HeldBy
  <2>2. ~Verdict(wire', i)
    BY <1>3, <1>4, <1>8 DEF Verdict
  <2>3. (Begun(i)' => Begun(i)) /\ (Nacked(i)' => Nacked(i)) /\ (Claimed(i)' => Claimed(i))
    BY <1>3, <1>4, <1>7, <1>8, <2>1, <2>2 DEF Begun, Judged, Nacked, Claimed, Executed
  <2> QED BY <1>4, <1>6, <1>7, <2>1, <2>2, <2>3 DEF BeforeClaim, WhileClaimed, OneVerdict
<1>9. CASE i = c.id
  <2>1. OnWire(i) /\ i <= sent /\ ~Queued(i) /\ ~Begun(i)
    BY <1>5, <1>6, <1>9 DEF OnWire, BeforeClaim, c
  <2>2. /\ executed[i] = 0 /\ \A t \in Slaves : node[t].in.id # i /\ node[t].doing.id # i
        /\ ~Verdict(cmd_ack, i) /\ ~Told(i)
    BY <1>6, <2>1 DEF Begun, Judged, WhileClaimed, HeldBy
  <2>3. BeforeClaim(i)'
    BY <1>4, <1>7, <2>1 DEF BeforeClaim
  <2>4. WhileClaimed(i)'
    BY <1>3, <1>4, <2>2 DEF WhileClaimed, HeldBy
  <2>5. CASE f.kind = "ack" /\ n.in = c
    <3>1. ~Nacked(i)'
      BY <1>4, <2>2, <2>5 DEF Nacked, Verdict, Told
    <3> QED BY <1>4, <1>7, <2>2, <2>3, <2>4, <3>1 DEF OneVerdict
  <2>6. CASE f.kind = "nak" /\ n.in = node[s].in
    <3>1. \A t \in Slaves : node'[t].in = node[t].in /\ node'[t].doing = node[t].doing
      BY <1>3, <1>4, <2>6
    <3>2. ~Claimed(i)'
      BY <1>4, <2>2, <3>1 DEF Claimed, Executed
    <3> QED BY <1>4, <1>7, <2>2, <2>3, <2>4, <3>2 DEF OneVerdict
  <2> QED BY <1>3, <1>7, <2>3, <2>4, <2>5, <2>6
<1> QED BY <1>8, <1>9

\* The command moves from the buffer to the main loop's copy of it.
LEMMA PickUpKeeps ==
  ASSUME IInv, NEW s \in Slaves, UNCHANGED masterVars, PickUp(s), node[s].work
  PROVE  IInv'
<1> DEFINE n == [node[s] EXCEPT !.work = FALSE, !.in = NoCmd, !.doing = node[s].in,
                                !.late = FALSE, !.timed = node[s].in.timed, !.pc = "exec"]
<1>0. Fit /\ SlaveTyped /\ wire \in Frame /\ mishaps \in MishapCount
  BY FitFacts DEF IInv, Fit
<1>1. MainStep(s, n)
  BY DEF PickUp
<1>2. /\ n \in NodeRec /\ NodeShape(n)
      /\ n.in = NoCmd /\ n.doing = node[s].in /\ n.ready = node[s].ready
      /\ n.reply = node[s].reply
  BY <1>0, PickNode
<1> HIDE DEF n
<1>3. /\ Fit' /\ node'[s] = n /\ (\A t \in Slaves \ {s} : node'[t] = node[t])
      /\ UNCHANGED <<wire, executed>>
  <2>1. executed' \in [Commands -> 0..2] /\ tripped' \in [Slaves -> SUBSET IlSlots]
        /\ trips' \in 0..MaxTrips /\ mishaps' \in MishapCount /\ wire' \in Frame
        /\ UNCHANGED <<wire, executed>> /\ node' = [node EXCEPT ![s] = n]
    BY <1>0, <1>1 DEF MainStep, Becomes, SlaveTyped
  <2>2. poll_state = "idle" => wire' = NoFrame
    BY <2>1 DEF IInv, Shaped, WindowShape
  <2> QED BY <1>0, <1>2, <2>1, <2>2, SlaveFit
<1>4. UNCHANGED <<executed, told_ack, told_nak, told_reply, cmd_ack, cmd_reply, cmd_state, cmd, sent>>
  BY <1>3, MasterStays
<1> SUFFICES ASSUME NEW i \in Commands
             PROVE  (BeforeClaim(i) /\ WhileClaimed(i) /\ OneVerdict(i) /\ OneReply(i))'
  BY <1>3 DEF IInv, Ledger, Fit
<1>5. BeforeClaim(i) /\ WhileClaimed(i) /\ OneVerdict(i) /\ OneReply(i)
  BY DEF Ledger, IInv
<1>6. /\ \A t \in Slaves : HeldBy(t, i)' => HeldBy(t, i)
      /\ ~(node'[s].in.id = i)
      /\ \A t \in Slaves : ReplyAt(t, i)' = ReplyAt(t, i)
  BY <1>2, <1>3, CmdFacts DEF HeldBy, ReplyAt
<1>7. (Begun(i)' => Begun(i)) /\ (Nacked(i)' => Nacked(i)) /\ (Claimed(i)' => Claimed(i))
  BY <1>3, <1>4, <1>6 DEF Begun, Judged, Told, Nacked, Claimed, Executed, HeldBy
<1>8. BeforeClaim(i)' /\ OneVerdict(i)' /\ OneReply(i)'
  BY <1>3, <1>4, <1>5, <1>6, <1>7
  DEF BeforeClaim, OneVerdict, OneReply, Queued, OnWire, Told
<1>9. WhileClaimed(i)'
  BY <1>3, <1>4, <1>5, <1>6 DEF WhileClaimed
<1> QED BY <1>8, <1>9

\* The command runs, for the first time, and its reply is armed.
LEMMA ExecuteKeeps ==
  ASSUME IInv, NEW s \in Slaves, UNCHANGED masterVars, Execute(s)
  PROVE  IInv'
<1> DEFINE c == node[s].doing
           n == [node[s] EXCEPT !.reply = c, !.doing = NoCmd, !.ready = TRUE,
                                !.repush = node[s].repush \/ c.id = Poke, !.pc = "rest"]
<1>0. Fit /\ SlaveTyped /\ wire \in Frame /\ mishaps \in MishapCount /\ node[s] \in NodeRec
  BY FitFacts DEF IInv, Fit
<1>1. /\ n \in NodeRec /\ NodeShape(n) /\ c \in Cmd
      /\ n.in = node[s].in /\ n.doing = NoCmd /\ n.ready /\ n.reply = c
  <2>1. (node[s].repush \/ c.id = Poke) \in BOOLEAN /\ node[s].pc = "exec"
    BY <1>0 DEF NodeRec, Execute, At
  <2> QED BY <1>0, <2>1, RanNode
<1>2. /\ node' = [node EXCEPT ![s] = n]
      /\ executed' = IF c.id = Poke THEN executed ELSE [executed EXCEPT ![c.id] = @ + 1]
      /\ UNCHANGED <<tripped, trips, wire, mishaps>>
  <2>1. node' = [node EXCEPT ![s] = n] /\ UNCHANGED <<tripped, trips, wire, mishaps>>
    BY DEF Execute
  <2>2. executed' = IF c.id = Poke THEN executed ELSE [executed EXCEPT ![c.id] = @ + 1]
    BY DEF Execute
  <2> QED BY <2>1, <2>2
<1>3. c.id # Poke => c.id \in Commands
  BY <1>1, CmdFacts DEF Commands
<1>4. HeldBy(s, c.id)
  BY DEF HeldBy
<1> HIDE DEF n, c
<1>5. ASSUME c.id # Poke
      PROVE  executed[c.id] = 0 /\ executed' = [executed EXCEPT ![c.id] = 1]
  <2>1. executed[c.id] = 0
    BY <1>3, <1>4, <1>5 DEF IInv, Ledger, WhileClaimed
  <2> QED BY <1>2, <1>5, <2>1
<1>6. executed' \in [Commands -> 0..2]
  BY <1>0, <1>2, <1>3, <1>5 DEF SlaveTyped
<1>7. Fit' /\ node'[s] = n /\ (\A t \in Slaves \ {s} : node'[t] = node[t])
  <2>1. tripped' \in [Slaves -> SUBSET IlSlots] /\ trips' \in 0..MaxTrips
        /\ mishaps' \in MishapCount /\ wire' \in Frame
    BY <1>0, <1>2 DEF SlaveTyped
  <2>2. poll_state = "idle" => wire' = NoFrame
    BY <1>2 DEF IInv, Shaped, WindowShape
  <2> QED BY <1>0, <1>1, <1>2, <1>6, <2>1, <2>2, SlaveFit
<1>8. UNCHANGED <<wire, told_ack, told_nak, told_reply, cmd_ack, cmd_reply, cmd_state, cmd, sent>>
  BY <1>2, MasterStays
<1> SUFFICES ASSUME NEW i \in Commands
             PROVE  (BeforeClaim(i) /\ WhileClaimed(i) /\ OneVerdict(i) /\ OneReply(i))'
  BY <1>7 DEF IInv, Ledger, Fit
<1>9. BeforeClaim(i) /\ WhileClaimed(i) /\ OneVerdict(i) /\ OneReply(i)
  BY DEF Ledger, IInv
<1>10. i # Poke /\ i \in DOMAIN executed
  BY <1>0, CmdFacts DEF SlaveTyped
<1>11. \A t \in Slaves : HeldBy(t, i)' => HeldBy(t, i) /\ (t = s => c.id # i \/ node[s].in.id = i)
  BY <1>1, <1>7, CmdFacts DEF HeldBy, c
<1>12. /\ Queued(i)' = Queued(i) /\ OnWire(i)' = OnWire(i) /\ Judged(i)' = Judged(i)
       /\ Told(i)' = Told(i) /\ Nacked(i)' = Nacked(i)
  BY <1>8 DEF Queued, OnWire, Judged, Told, Nacked
<1>13. CASE i # c.id
  <2>1. executed'[i] = executed[i]
    BY <1>2, <1>3, <1>10, <1>13
  <2>2. \A t \in Slaves : ReplyAt(t, i)' => ReplyAt(t, i)
    BY <1>1, <1>7, <1>13 DEF ReplyAt
  <2>3. \A t \in Slaves : /\ node'[t].in.id = node[t].in.id
                          /\ node'[t].doing.id = i => node[t].doing.id = i
    BY <1>1, <1>7, CmdFacts
  <2>4. (Begun(i)' => Begun(i)) /\ (Claimed(i)' => Claimed(i))
    BY <1>0, <1>6, <1>11, <1>12, <2>1, <2>3 DEF Begun, Claimed, Executed, SlaveTyped
  <2>5. BeforeClaim(i)' /\ OneVerdict(i)' /\ OneReply(i)'
    BY <1>8, <1>9, <1>12, <2>1, <2>2, <2>4 DEF BeforeClaim, OneVerdict, OneReply
  <2>6. WhileClaimed(i)'
    BY <1>9, <1>11, <2>1, <2>3 DEF WhileClaimed
  <2> QED BY <2>5, <2>6
<1>14. CASE i = c.id
  <2>1. executed[i] = 0 /\ executed'[i] = 1
    BY <1>0, <1>5, <1>10, <1>14 DEF SlaveTyped
  <2>2. /\ node[s].in.id # i /\ \A t \in Slaves : HeldBy(t, i) => t = s
    BY <1>4, <1>9, <1>14 DEF WhileClaimed, c
  <2>3. /\ \A t \in Slaves : ~HeldBy(t, i)'
    BY <1>11, <1>14, <2>2
  <2>4. BeforeClaim(i)' /\ WhileClaimed(i)'
    BY <1>4, <1>8, <1>9, <1>12, <1>14, <2>1, <2>3 DEF BeforeClaim, WhileClaimed, Begun
  <2>5. OneVerdict(i)'
    <3>1. ~Nacked(i)
      BY <1>9, <1>14 DEF OneVerdict, Claimed, c
    <3> QED BY <1>8, <1>9, <1>12, <3>1 DEF OneVerdict
  <2>6. OneReply(i)'
    <3>1. /\ told_reply[i] = 0 /\ ~ReplyIn(wire, i) /\ ~ReplyIn(cmd_reply, i)
          /\ \A t \in Slaves : ~ReplyAt(t, i)
      BY <1>9, <2>1 DEF OneReply
    <3>2. \A t \in Slaves : ReplyAt(t, i)' => t = s
      BY <1>7, <3>1 DEF ReplyAt
    <3> QED BY <1>8, <2>1, <3>1, <3>2 DEF OneReply
  <2> QED BY <2>4, <2>5, <2>6
<1> QED BY <1>13, <1>14

\* The steps of a slave.
LEMMA SlaveKeeps ==
  ASSUME IInv, NEW s \in Slaves, SlaveStep(s)
  PROVE  IInv'
BY LoopKeeps, ResetKeeps, IsrQuietKeeps, IsrReplyKeeps, IsrDataKeeps, PickUpKeeps, ExecuteKeeps
DEF SlaveStep, Isr, MainLoop, SlaveMishap
-----------------------------------------------------------------------------
(***************************************************************************)
(* The steps of the wire, the master and the host.                         *)
(***************************************************************************)
\* What the host was told of its commands, and how many it sent.
commandVars == <<sent, told_ack, told_nak, told_reply>>

\* A step that leaves the slaves alone, with the types and shapes it keeps.
MasterMove == /\ UNCHANGED slaveVars
              /\ MasterType' /\ WindowShape' /\ RelayShape'
              /\ wire' \in Frame /\ mishaps' \in MishapCount

LEMMA MasterFit ==
  ASSUME Fit, MasterMove
  PROVE  Fit' /\ UNCHANGED <<node, executed>>
<1>1. UNCHANGED <<node, tripped, trips, executed>>
  BY DEF MasterMove, slaveVars
<1>2. SlaveType'
  BY <1>1 DEF Fit, TypeOK, SlaveType
<1> QED BY <1>1, <1>2 DEF Fit, TypeOK, Shaped, MasterMove, Frame

\* Such a step that moves nothing in the ledger, or loses a frame.
LEMMA MasterShrinks ==
  ASSUME IInv, MasterMove, UNCHANGED commandVars,
         wire' = wire \/ wire'.kind \in Mute,
         UNCHANGED relayVars,
         UNCHANGED slotVars \/ cmd' = NoCmd \/ cmd'.id = Poke
  PROVE  IInv'
<1>1. Fit' /\ UNCHANGED <<node, executed>>
  BY MasterFit DEF IInv, Fit
<1>2. sent \in Nat
  BY FitFacts, WireAssumption DEF IInv, Fit, MasterType, Ids
<1>3. \A i \in Commands : Queued(i)' => Queued(i)
  BY CmdFacts DEF Queued, slotVars
<1>4. \A t \in Slaves, i \in Commands : ReplyAt(t, i)' => ReplyAt(t, i)
  BY <1>1 DEF ReplyAt
<1>5. Ledger'
  BY <1>1, <1>2, <1>3, <1>4, LedgerShrinks DEF IInv, commandVars, relayVars
<1> QED BY <1>1, <1>5 DEF IInv, Fit

\* Facts of the state that the lemmas below begin with.
LEMMA MasterFacts ==
  ASSUME IInv
  PROVE  /\ Fit /\ MasterType /\ WindowShape /\ RelayShape /\ wire \in Frame
         /\ mishaps \in MishapCount
BY FitFacts DEF IInv, Fit, Shaped

\* Everything of the master stays, the wire falls silent.
LEMMA LostKeeps ==
  ASSUME IInv, Lose \/ Unheard
  PROVE  IInv'
<1>0. MasterType /\ WindowShape /\ RelayShape /\ mishaps \in MishapCount
  BY MasterFacts
<1>1. wire' = NoFrame /\ UNCHANGED <<slaveVars, masterVars>> /\ mishaps' \in MishapCount
  BY <1>0, MishapType DEF Lose, Unheard
<1>2. MasterMove
  BY <1>0, <1>1, MasterStays, FrameFacts DEF MasterMove, WindowShape
<1>3. UNCHANGED <<commandVars, relayVars, slotVars>>
  BY <1>1, MasterStays DEF commandVars, relayVars, slotVars
<1> QED BY <1>1, <1>2, <1>3, MasterShrinks, FrameFacts DEF Mute

\* The roster, the host's switch and a new host process.
LEMMA RosterKeeps ==
  ASSUME IInv, UNCHANGED slaveVars,
         \/ ClearRoster \/ HostRestart \/ \E on \in BOOLEAN : PollEnable(on)
         \/ \E s \in Slaves : Register(s) \/ Unregister(s)
  PROVE  IInv'
<1>0. MasterType /\ WindowShape /\ RelayShape /\ wire \in Frame /\ mishaps \in MishapCount
  BY MasterFacts
<1>1. UNCHANGED <<wire, commandVars, relayVars, slotVars, engineVars>> /\ mishaps' \in MishapCount
  <2>1. CASE ClearRoster
    BY <1>0, <2>1, MishapType DEF ClearRoster, RosterStep, toldVars, commandVars
  <2>2. CASE HostRestart
    BY <1>0, <2>2, MishapType DEF HostRestart, commandVars
  <2>3. CASE \E on \in BOOLEAN : PollEnable(on)
    BY <1>0, <2>3, MishapType DEF PollEnable, toldVars, commandVars
  <2>4. CASE \E s \in Slaves : Register(s) \/ Unregister(s)
    BY <1>0, <2>4, MishapType DEF Register, Unregister, RosterStep, toldVars, commandVars
  <2> QED BY <2>1, <2>2, <2>3, <2>4
<1>2. MasterType'
  <2>1. Fresh \in InfoRec
    BY DEF Fresh, InfoRec, Liveness
  <2>2. CASE ClearRoster
    BY <1>0, <2>2 DEF ClearRoster, RosterStep, toldVars, engineVars, slotVars, relayVars, MasterType
  <2>3. CASE HostRestart
    BY <1>0, <2>3, MasterAssumption
    DEF HostRestart, rosterVars, engineVars, slotVars, relayVars, MasterType
  <2>4. CASE \E on \in BOOLEAN : PollEnable(on)
    BY <1>0, <2>4
    DEF PollEnable, toldVars, rosterVars, engineVars, slotVars, relayVars, MasterType
  <2>5. CASE \E s \in Slaves : Register(s)
    <3>1. PICK s \in Slaves : Register(s)
      BY <2>5
    <3>2. info' \in [Slaves -> InfoRec]
      BY <1>0, <2>1, <3>1 DEF Register, MasterType, InfoRec
    <3>3. table' \in [1..RosterMax -> Slaves \cup {NoSlave}]
      BY <1>0, <3>1 DEF Register, MasterType
    <3> QED BY <1>0, <3>1, <3>2, <3>3
      DEF Register, RosterStep, toldVars, engineVars, slotVars, relayVars, MasterType, InfoRec
  <2>6. CASE \E s \in Slaves : Unregister(s)
    BY <1>0, <2>6
    DEF Unregister, RosterStep, toldVars, engineVars, slotVars, relayVars, MasterType
  <2> QED BY <2>2, <2>3, <2>4, <2>5, <2>6
<1>3. WindowShape' /\ RelayShape'
  BY <1>0, <1>1 DEF WindowShape, RelayShape, engineVars, slotVars, relayVars
<1>4. MasterMove
  BY <1>0, <1>1, <1>2, <1>3 DEF MasterMove
<1> QED BY <1>1, <1>4, MasterShrinks DEF slotVars

\* The drains that carry no command: liveness, summaries and the report.
LEMMA RosterSize == MasterType => Len(Roster) \in 0..RosterMax
<1> SUFFICES ASSUME MasterType PROVE Len(Roster) \in 0..RosterMax
  OBVIOUS
<1>1. RosterMax \in Nat
  BY MasterAssumption
<1>2. Used \subseteq 1..RosterMax
  BY DEF Used, MasterType
<1>3. IsFiniteSet(1..RosterMax) /\ Cardinality(1..RosterMax) = RosterMax
  BY <1>1, FS_Interval
<1>4. Cardinality(Used) <= RosterMax /\ Cardinality(Used) \in Nat
  BY <1>2, <1>3, FS_Subset, FS_CardinalityType
<1> QED BY <1>1, <1>4 DEF Roster

LEMMA DrainsKeep ==
  ASSUME IInv, UNCHANGED slaveVars,
         DrainEvents \/ DrainFlagged \/ StatusBegin \/ StatusNext
  PROVE  IInv'
<1>0. MasterType /\ WindowShape /\ RelayShape /\ wire \in Frame /\ mishaps \in MishapCount
  BY MasterFacts
<1>1. UNCHANGED <<wire, mishaps, commandVars, relayVars, slotVars, engineVars>>
  BY DEF DrainEvents, DrainFlagged, StatusBegin, StatusNext, RelayStep, toldVars, commandVars
<1>2. MasterType'
  <2>1. CASE DrainEvents
    <3>1. ASSUME NEW s \in Slaves PROVE Announced(s) \in InfoRec /\ info[s] \in InfoRec
      BY <1>0 DEF Announced, MasterType, InfoRec
    <3>2. info' \in [Slaves -> InfoRec] /\ told_down' \subseteq Slaves
      BY <2>1, <3>1 DEF DrainEvents
    <3> QED BY <1>0, <1>1, <2>1, <3>2
      DEF DrainEvents, RelayStep, commandVars, engineVars, slotVars, relayVars, MasterType, InfoRec
  <2>2. CASE DrainFlagged
    <3> DEFINE r == Roster[Min({j \in DOMAIN Roster : Unflagged(Roster[j])})]
    <3>1. r \in Slaves => Flag(r) \in {"unknown", "clear", "tripped"} /\ info[r] \in InfoRec
                          /\ info[r].summary \in BOOLEAN
      BY <1>0 DEF Flag, MasterType, InfoRec
    <3>2. /\ info' = [info EXCEPT ![r] = [@ EXCEPT !.announced_summary = info[r].summary]]
          /\ il_flags' = [il_flags EXCEPT ![r] = Flag(r)]
      BY <2>2 DEF DrainFlagged
    <3> HIDE DEF r
    <3>3. info' \in [Slaves -> InfoRec]
      BY <1>0, <3>1, <3>2 DEF MasterType, InfoRec
    <3>4. il_flags' \in [Slaves -> {"unknown", "clear", "tripped"}]
      BY <1>0, <3>1, <3>2 DEF MasterType
    <3> QED BY <1>0, <1>1, <2>2, <3>3, <3>4
      DEF DrainFlagged, RelayStep, commandVars, engineVars, slotVars, relayVars, MasterType, InfoRec
  <2>3. CASE StatusBegin
    BY <1>0, <1>1, <2>3, MasterAssumption
    DEF StatusBegin, RelayStep, toldVars, engineVars, slotVars, relayVars, MasterType
  <2>4. CASE StatusNext
    <3> DEFINE r == Roster[status_cursor]
    <3>1. r \in Slaves => Flag(r) \in {"unknown", "clear", "tripped"}
      BY DEF Flag
    <3>2. il_flags' = il_flags \/ il_flags' = [il_flags EXCEPT ![r] = Flag(r)]
      BY <2>4 DEF StatusNext
    <3> HIDE DEF r
    <3>3. il_flags' \in [Slaves -> {"unknown", "clear", "tripped"}]
      BY <1>0, <3>1, <3>2 DEF MasterType
    <3>4. status_cursor' \in 0..RosterMax + 1
      <4>1. PICK l, s : l = Len(Roster) /\ s = status_cursor
        OBVIOUS
      <4>2. l \in 0..RosterMax
        BY <1>0, <4>1, RosterSize
      <4>3. s \in 0..RosterMax + 1
        BY <1>0, <4>1 DEF MasterType
      <4>4. CASE status_cursor' = 0
        BY <4>4, MasterAssumption
      <4>5. CASE ~(s > l) /\ status_cursor' = s + 1
        <5>1. PICK size, next : size = RosterMax /\ next = status_cursor'
          OBVIOUS
        <5>2. size \in Nat
          BY <5>1, MasterAssumption
        <5> QED BY <4>2, <4>3, <4>5, <5>1, <5>2
      <4> QED BY <2>4, <4>1, <4>4, <4>5 DEF StatusNext
    <3> QED BY <1>0, <1>1, <2>4, <3>3, <3>4
      DEF StatusNext, RelayStep, commandVars, engineVars, slotVars, relayVars, MasterType
  <2> QED BY <2>1, <2>2, <2>3, <2>4
<1>3. WindowShape' /\ RelayShape'
  BY <1>0, <1>1 DEF WindowShape, RelayShape, engineVars, slotVars, relayVars
<1>4. MasterMove
  BY <1>0, <1>1, <1>2, <1>3 DEF MasterMove
<1> QED BY <1>1, <1>4, MasterShrinks

\* The engine.  A window that closes marks its slave.
LEMMA MarkedType ==
  ASSUME MasterType, NEW n, Marked(n), poll_cur_addr \in Slaves => n \in InfoRec
  PROVE  info' \in [Slaves -> InfoRec]
BY DEF Marked, MasterType, InfoRec

LEMMA MarksType ==
  ASSUME NEW m \in InfoRec
  PROVE  /\ Alive(m) \in InfoRec /\ Missed(m) \in InfoRec
         /\ \A b \in BOOLEAN : [Alive(m) EXCEPT !.summary = b] \in InfoRec
<1>1. m.misses \in Nat /\ m.misses + 1 \in Nat /\ MaxMisses \in Nat
  BY MasterAssumption DEF InfoRec
<1>2. Min({m.misses + 1, MaxMisses}) \in Nat
  BY <1>1, MinOfTwo
<1>3. Missed(m) \in InfoRec
  BY <1>2 DEF Missed, InfoRec, Liveness
<1>4. Alive(m) \in InfoRec
  BY DEF Alive, InfoRec, Liveness
<1> QED BY <1>3, <1>4 DEF InfoRec

\* What every step that closes a window does to types and shapes.
LEMMA CloseFits ==
  ASSUME IInv, UNCHANGED slaveVars, NEW n, Marked(n),
         poll_cur_addr \in Slaves => n \in InfoRec,
         CloseWindow, EngineStep, wire' = NoFrame,
         FreeSlot \/ (cmd_state # "sent" /\ UNCHANGED slotVars),
         cmd_ack' \in AnswerFrame \cup {NoFrame}, cmd_ack'.kind \in {"none", "ack", "nak"},
         cmd_reply' \in AnswerFrame \cup MessageFrame \cup {NoFrame},
         cmd_reply'.kind \in {"none", "reply", "message"}
  PROVE  MasterMove /\ UNCHANGED commandVars
<1>0. MasterType /\ WindowShape /\ mishaps \in MishapCount
  BY MasterFacts
<1>1. info' \in [Slaves -> InfoRec]
  BY <1>0, MarkedType
<1>2. cmd_state' \in {"idle", "queued", "sent"} /\ cmd' \in Cmd \cup {NoCmd}
  BY <1>0 DEF MasterType, FreeSlot, slotVars
<1>3. MasterType'
  BY <1>0, <1>1, <1>2 DEF CloseWindow, EngineStep, toldVars, MasterType, InfoRec
<1>4. WindowShape' /\ RelayShape'
  BY <1>0 DEF WindowShape, RelayShape, CloseWindow, FreeSlot, slotVars
<1> QED BY <1>0, <1>3, <1>4, FrameFacts DEF MasterMove, EngineStep, toldVars, commandVars

LEMMA ReceiveSummaryKeeps ==
  ASSUME IInv, UNCHANGED slaveVars, ReceiveSummary
  PROVE  IInv'
<1>0. MasterType /\ RelayShape /\ wire \in Frame
  BY MasterFacts
<1>1. poll_cur_addr \in Slaves => info[poll_cur_addr] \in InfoRec
  BY <1>0 DEF MasterType, InfoRec
<1>2. wire.flag \in BOOLEAN
  BY <1>0, FrameFacts DEF ReceiveSummary
<1>3. MasterMove /\ UNCHANGED commandVars
  BY <1>0, <1>1, <1>2, MarksType, CloseFits
  DEF ReceiveSummary, ReceiveCommon, relayVars, MasterType, RelayShape
<1> QED BY <1>3, MasterShrinks, FrameFacts DEF ReceiveSummary, ReceiveCommon, Mute

LEMMA WindowTimeoutKeeps ==
  ASSUME IInv, UNCHANGED slaveVars, WindowTimeout
  PROVE  IInv'
<1>0. MasterType /\ RelayShape
  BY MasterFacts
<1>1. poll_cur_addr \in Slaves => info[poll_cur_addr] \in InfoRec
  BY <1>0 DEF MasterType, InfoRec
<1>2. FreeSlot \/ (cmd_state # "sent" /\ UNCHANGED slotVars)
  BY DEF WindowTimeout
<1>3. MasterMove /\ UNCHANGED commandVars
  BY <1>0, <1>1, <1>2, MarksType, CloseFits
  DEF WindowTimeout, relayVars, MasterType, RelayShape
<1> QED BY <1>2, <1>3, MasterShrinks DEF WindowTimeout, FreeSlot

\* The verdict moves from the wire to its relay, or is dropped with its window.
LEMMA ReceiveAckKeeps ==
  ASSUME IInv, UNCHANGED slaveVars, ReceiveAck
  PROVE  IInv'
<1>0. Fit /\ MasterType /\ RelayShape /\ wire \in Frame
  BY MasterFacts
<1>1. poll_cur_addr \in Slaves => info[poll_cur_addr] \in InfoRec
  BY <1>0 DEF MasterType, InfoRec
<1>2. /\ cmd_ack' \in AnswerFrame \cup {NoFrame} /\ cmd_ack'.kind \in {"none", "ack", "nak"}
      /\ cmd_reply' = cmd_reply /\ wire' = NoFrame /\ cmd_state' = "idle"
      /\ cmd_ack' = cmd_ack \/ (cmd_ack = NoFrame /\ cmd_ack' = wire)
  BY <1>0, FrameFacts DEF ReceiveAck, ReceiveCommon, FreeSlot, MasterType, RelayShape
<1>3. MasterMove /\ UNCHANGED commandVars
  BY <1>0, <1>1, <1>2, MarksType, CloseFits
  DEF ReceiveAck, ReceiveCommon, MasterType, RelayShape
<1>4. Fit' /\ UNCHANGED <<node, executed>>
  BY <1>0, <1>3, MasterFit
<1> SUFFICES ASSUME NEW i \in Commands
             PROVE  (BeforeClaim(i) /\ WhileClaimed(i) /\ OneVerdict(i) /\ OneReply(i))'
  BY <1>4 DEF IInv, Ledger, Fit
<1>5. BeforeClaim(i) /\ WhileClaimed(i) /\ OneVerdict(i) /\ OneReply(i)
  BY DEF Ledger, IInv
<1>6. /\ ~Queued(i)' /\ ~OnWire(i)' /\ ~Verdict(wire', i) /\ ~ReplyIn(wire', i)
      /\ Verdict(cmd_ack', i) => Verdict(wire, i) \/ Verdict(cmd_ack, i)
      /\ Told(i)' = Told(i)
  BY <1>2, <1>3, FrameFacts DEF Queued, OnWire, Verdict, ReplyIn, Told, commandVars
<1>7. (Begun(i)' => Begun(i)) /\ (Nacked(i)' => Nacked(i)) /\ (Claimed(i)' = Claimed(i))
  BY <1>2, <1>3, <1>4, <1>6, FrameFacts
  DEF Begun, Judged, Nacked, Claimed, Executed, HeldBy, commandVars
<1>8. BeforeClaim(i)' /\ WhileClaimed(i)' /\ OneVerdict(i)'
  BY <1>3, <1>4, <1>5, <1>6, <1>7
  DEF BeforeClaim, WhileClaimed, HeldBy, OneVerdict, commandVars
<1>9. OneReply(i)'
  BY <1>2, <1>3, <1>4, <1>5, <1>6 DEF OneReply, ReplyAt, commandVars
<1> QED BY <1>8, <1>9

\* The reply moves from the wire to its relay, or is dropped.
LEMMA ReceiveDataKeeps ==
  ASSUME IInv, UNCHANGED slaveVars, ReceiveData
  PROVE  IInv'
<1>0. Fit /\ MasterType /\ RelayShape /\ wire \in Frame
  BY MasterFacts
<1>1. poll_cur_addr \in Slaves => info[poll_cur_addr] \in InfoRec
  BY <1>0 DEF MasterType, InfoRec
<1>2. /\ cmd_reply' \in AnswerFrame \cup MessageFrame \cup {NoFrame}
      /\ cmd_reply'.kind \in {"none", "reply", "message"}
      /\ cmd_ack' = cmd_ack /\ wire' = NoFrame /\ UNCHANGED slotVars
      /\ cmd_reply' = cmd_reply \/ (cmd_reply = NoFrame /\ cmd_reply' = wire)
  BY <1>0, FrameFacts DEF ReceiveData, ReceiveCommon, MasterType, RelayShape
<1>3. MasterMove /\ UNCHANGED commandVars
  BY <1>0, <1>1, <1>2, MarksType, CloseFits
  DEF ReceiveData, ReceiveCommon, MasterType, RelayShape
<1>4. Fit' /\ UNCHANGED <<node, executed>>
  BY <1>0, <1>3, MasterFit
<1> SUFFICES ASSUME NEW i \in Commands
             PROVE  (BeforeClaim(i) /\ WhileClaimed(i) /\ OneVerdict(i) /\ OneReply(i))'
  BY <1>4 DEF IInv, Ledger, Fit
<1>5. BeforeClaim(i) /\ WhileClaimed(i) /\ OneVerdict(i) /\ OneReply(i)
  BY DEF Ledger, IInv
<1>6. /\ Queued(i)' = Queued(i) /\ ~OnWire(i)' /\ ~Verdict(wire', i) /\ ~ReplyIn(wire', i)
      /\ ReplyIn(cmd_reply', i) => ReplyIn(wire, i) \/ ReplyIn(cmd_reply, i)
      /\ Told(i)' = Told(i)
  BY <1>2, <1>3, FrameFacts DEF Queued, OnWire, Verdict, ReplyIn, Told, commandVars, slotVars
<1>7. (Begun(i)' => Begun(i)) /\ (Nacked(i)' => Nacked(i)) /\ (Claimed(i)' = Claimed(i))
  BY <1>2, <1>3, <1>4, <1>6, FrameFacts
  DEF Begun, Judged, Nacked, Claimed, Executed, HeldBy, commandVars
<1>8. BeforeClaim(i)' /\ WhileClaimed(i)' /\ OneVerdict(i)'
  BY <1>2, <1>3, <1>4, <1>5, <1>6, <1>7
  DEF BeforeClaim, WhileClaimed, HeldBy, OneVerdict, commandVars
<1>9. OneReply(i)'
  BY <1>2, <1>3, <1>4, <1>5, <1>6 DEF OneReply, ReplyAt, commandVars
<1> QED BY <1>8, <1>9

\* The search of bus_roster_next_enabled ends at an enabled slave.
LEMMA Modulo ==
  ASSUME NEW m \in Nat \ {0}
  PROVE  /\ \A k \in Nat : k % m \in 0..m - 1
         /\ \A k \in 0..m - 1 : k % m = k /\ (k + m) % m = k
OBVIOUS

LEMMA NextEnabledIs ==
  ASSUME MasterType, Pollable # {}
  PROVE  /\ NextEnabled(poll_cursor) \in 1..RosterMax
         /\ table[NextEnabled(poll_cursor)] \in Slaves
<1> DEFINE S == {k \in 0..RosterMax - 1 : Place(poll_cursor, k) \in Pollable}
<1>1. PICK p \in Pollable : TRUE
  OBVIOUS
<1>2. RosterMax \in Nat \ {0} /\ poll_cursor \in 1..RosterMax /\ p \in 1..RosterMax
  BY <1>1, MasterAssumption DEF MasterType, Pollable
<1>3. \E k \in 0..RosterMax - 1 : Place(poll_cursor, k) = p
  <2>1. (p - 1) % RosterMax = p - 1 /\ (p - 1 + RosterMax) % RosterMax = p - 1
    <3> DEFINE q == p - 1
    <3>1. q \in 0..RosterMax - 1
      BY <1>2
    <3> HIDE DEF q
    <3>2. q % RosterMax = q /\ (q + RosterMax) % RosterMax = q
      BY <1>2, <3>1, Modulo
    <3> QED BY <3>2 DEF q
  <2>2. CASE p >= poll_cursor
    <3> DEFINE k == p - poll_cursor
    <3>1. k \in 0..RosterMax - 1 /\ poll_cursor + k - 1 = p - 1
      BY <1>2, <2>2
    <3> HIDE DEF k
    <3>2. Place(poll_cursor, k) = p
      BY <1>2, <2>1, <3>1 DEF Place
    <3> QED BY <3>1, <3>2
  <2>3. CASE ~(p >= poll_cursor)
    <3> DEFINE k == p - poll_cursor + RosterMax
    <3>1. k \in 0..RosterMax - 1 /\ poll_cursor + k - 1 = p - 1 + RosterMax
      BY <1>2, <2>3
    <3> HIDE DEF k
    <3>2. Place(poll_cursor, k) = p
      BY <1>2, <2>1, <3>1 DEF Place
    <3> QED BY <3>1, <3>2
  <2> QED BY <2>2, <2>3
<1>4. S # {} /\ S \subseteq Nat
  BY <1>3
<1>5. Min(S) \in S
  BY <1>4, MinIn
<1>6. NextEnabled(poll_cursor) \in Pollable
  BY <1>5 DEF NextEnabled
<1> QED BY <1>6 DEF Pollable, MasterType

\* The cursor behind the slave just found stays in the roster.
LEMMA CursorMoves ==
  ASSUME NEW i \in 1..RosterMax
  PROVE  (i % RosterMax) + 1 \in 1..RosterMax
<1>1. RosterMax \in Nat \ {0} /\ i \in Nat
  BY MasterAssumption
<1>2. i % RosterMax \in 0..RosterMax - 1
  BY <1>1, Modulo
<1> QED BY <1>1, <1>2

LEMMA PollRefusedKeeps ==
  ASSUME IInv, UNCHANGED slaveVars, PollRefused
  PROVE  IInv'
<1> DEFINE i == NextEnabled(poll_cursor)
<1>0. MasterType /\ WindowShape /\ RelayShape /\ wire \in Frame /\ mishaps \in MishapCount
  BY MasterFacts
<1>1. i \in 1..RosterMax
  BY <1>0, NextEnabledIs DEF PollRefused
<1>2. /\ poll_cursor' = (i % RosterMax) + 1 /\ mishaps' \in MishapCount
      /\ UNCHANGED <<wire, poll_state, poll_cur_addr, slotVars, relayVars, commandVars>>
  BY <1>0, MishapType DEF PollRefused, toldVars, commandVars
<1> HIDE DEF i
<1>3. poll_cursor' \in 1..RosterMax
  BY <1>1, <1>2, CursorMoves
<1>4. MasterType'
  BY <1>0, <1>3 DEF PollRefused, toldVars, rosterVars, slotVars, relayVars, MasterType
<1>5. WindowShape' /\ RelayShape'
  BY <1>0, <1>2 DEF WindowShape, RelayShape, slotVars, relayVars
<1>6. MasterMove
  BY <1>0, <1>2, <1>4, <1>5 DEF MasterMove
<1> QED BY <1>2, <1>6, MasterShrinks

LEMMA SendPollKeeps ==
  ASSUME IInv, UNCHANGED slaveVars, SendPoll
  PROVE  IInv'
<1> DEFINE i == NextEnabled(poll_cursor)
           s == table[i]
<1>0. MasterType /\ WindowShape /\ RelayShape /\ mishaps \in MishapCount
  BY MasterFacts
<1>1. i \in 1..RosterMax /\ s \in Slaves
  BY <1>0, NextEnabledIs DEF SendPoll
<1>2. /\ OpenWindow(s, Poll(s)) /\ poll_cursor' = (i % RosterMax) + 1
      /\ cooling' = [cooling EXCEPT ![s] = Max({@ - 1, 0})]
      /\ cmd_state # "queued" /\ UNCHANGED slotVars
  BY DEF SendPoll
<1> HIDE DEF i, s
<1>3. poll_cursor' \in 1..RosterMax
  BY <1>1, <1>2, CursorMoves
<1>4. cooling' \in [Slaves -> 0..Cooldown]
  <2>1. cooling[s] \in 0..Cooldown /\ Cooldown \in Nat
    BY <1>0, <1>1, MasterAssumption DEF MasterType
  <2>2. Max({cooling[s] - 1, 0}) \in 0..Cooldown
    BY <2>1, MaxOfTwo
  <2> QED BY <1>0, <1>2, <2>2 DEF MasterType
<1>5. MasterType'
  BY <1>0, <1>1, <1>2, <1>3, <1>4
  DEF OpenWindow, EngineStep, relayVars, slotVars, toldVars, MasterType
<1>6. WindowShape' /\ RelayShape'
  BY <1>0, <1>1, <1>2 DEF OpenWindow, WindowShape, RelayShape, relayVars, slotVars
<1>7. wire' = Poll(s) /\ wire' \in Frame /\ wire'.kind \in Mute
  BY <1>1, <1>2, BuiltFrames DEF OpenWindow, Mute
<1>8. MasterMove /\ UNCHANGED commandVars /\ UNCHANGED relayVars
  BY <1>0, <1>2, <1>5, <1>6, <1>7 DEF MasterMove, OpenWindow, EngineStep, toldVars, commandVars
<1> QED BY <1>2, <1>7, <1>8, MasterShrinks

\* The command leaves the slot's queue for the wire.
LEMMA SendCommandKeeps ==
  ASSUME IInv, UNCHANGED slaveVars, SendCommand
  PROVE  IInv'
<1>0. Fit /\ MasterType /\ WindowShape /\ RelayShape /\ mishaps \in MishapCount
  BY MasterFacts
<1>1. cmd \in Cmd /\ cmd.to \in Slaves
  BY <1>0, CmdFacts DEF SendCommand, WindowShape
<1>2. /\ wire' = Data(cmd) /\ wire' \in Frame /\ wire'.kind = "data" /\ wire'.cmd = cmd
      /\ cmd_state' = "sent" /\ cmd_state = "queued" /\ UNCHANGED <<cmd, relayVars>>
  BY <1>1, BuiltFrames DEF SendCommand, OpenWindow
<1>3. MasterType'
  BY <1>0, <1>1 DEF SendCommand, OpenWindow, EngineStep, relayVars, toldVars, MasterType
<1>4. WindowShape' /\ RelayShape'
  BY <1>0, <1>1 DEF SendCommand, OpenWindow, WindowShape, RelayShape, relayVars
<1>5. MasterMove /\ UNCHANGED commandVars
  BY <1>0, <1>2, <1>3, <1>4
  DEF MasterMove, SendCommand, OpenWindow, EngineStep, toldVars, commandVars
<1>6. Fit' /\ UNCHANGED <<node, executed>>
  BY <1>0, <1>5, MasterFit
<1> SUFFICES ASSUME NEW i \in Commands
             PROVE  (BeforeClaim(i) /\ WhileClaimed(i) /\ OneVerdict(i) /\ OneReply(i))'
  BY <1>6 DEF IInv, Ledger, Fit
<1>7. BeforeClaim(i) /\ WhileClaimed(i) /\ OneVerdict(i) /\ OneReply(i)
  BY DEF Ledger, IInv
<1>8. /\ ~Queued(i)' /\ (OnWire(i)' => Queued(i)) /\ ~Verdict(wire', i) /\ ~ReplyIn(wire', i)
      /\ UNCHANGED <<cmd_ack, cmd_reply>> /\ Told(i)' = Told(i)
  BY <1>2, <1>5 DEF Queued, OnWire, Verdict, ReplyIn, Told, commandVars, relayVars
<1>9. (Begun(i)' => Begun(i)) /\ (Nacked(i)' => Nacked(i)) /\ (Claimed(i)' = Claimed(i))
  BY <1>2, <1>5, <1>6, <1>8 DEF Begun, Judged, Nacked, Claimed, Executed, HeldBy, commandVars
<1>10. BeforeClaim(i)' /\ WhileClaimed(i)' /\ OneVerdict(i)'
  BY <1>5, <1>6, <1>7, <1>8, <1>9
  DEF BeforeClaim, WhileClaimed, HeldBy, OneVerdict, commandVars
<1>11. OneReply(i)'
  BY <1>5, <1>6, <1>7, <1>8 DEF OneReply, ReplyAt, commandVars
<1> QED BY <1>10, <1>11

\* The slot takes the host's new command, or a poke, or nothing.
LEMMA EnqueuedFits ==
  ASSUME IInv, NEW c \in Cmd, Enqueued(c), EnqueueStep, UNCHANGED slaveVars,
         sent' \in Ids, cooling' \in [Slaves -> 0..Cooldown]
  PROVE  /\ MasterMove
         /\ UNCHANGED <<wire, relayVars, told_ack, told_nak, told_reply>>
         /\ UNCHANGED slotVars \/ (cmd_state = "idle" /\ cmd' = c)
<1>0. MasterType /\ WindowShape /\ RelayShape /\ wire \in Frame /\ mishaps \in MishapCount
  BY MasterFacts
<1>1. \/ UNCHANGED slotVars
      \/ cmd_state = "idle" /\ cmd_state' = "queued" /\ cmd' = c
  BY DEF Enqueued
<1>2. MasterType'
  BY <1>0, <1>1
  DEF EnqueueStep, engineVars, relayVars, rosterVars, toldVars, slotVars, MasterType
<1>3. WindowShape' /\ RelayShape'
  BY <1>0, <1>1 DEF EnqueueStep, engineVars, relayVars, slotVars, WindowShape, RelayShape
<1> QED BY <1>0, <1>1, <1>2, <1>3 DEF MasterMove, EnqueueStep, toldVars

LEMMA ReconcileKeeps ==
  ASSUME IInv, UNCHANGED slaveVars, NEW s \in Slaves, Reconcile(s)
  PROVE  IInv'
<1> DEFINE c == [to |-> s, id |-> Poke, timed |-> FALSE]
<1>0. MasterType
  BY MasterFacts
<1>1. c \in Cmd /\ c.id = Poke
  BY WireAssumption DEF Cmd, Ids, Poke
<1>2. Enqueued(c) /\ EnqueueStep /\ UNCHANGED sent
  BY DEF Reconcile
<1>3. sent' \in Ids /\ cooling' \in [Slaves -> 0..Cooldown]
  BY <1>0, MasterAssumption DEF Reconcile, MasterType
<1> HIDE DEF c
<1>4. /\ MasterMove
      /\ UNCHANGED <<wire, relayVars, told_ack, told_nak, told_reply>>
      /\ UNCHANGED slotVars \/ (cmd_state = "idle" /\ cmd' = c)
  BY <1>1, <1>2, <1>3, EnqueuedFits
<1> QED BY <1>1, <1>2, <1>4, MasterShrinks DEF commandVars

\* A new command has the next id: no trace of it exists.
LEMMA HostSendKeeps ==
  ASSUME IInv, UNCHANGED slaveVars, NEW s \in Slaves, NEW timed \in Timed, HostSend(s, timed)
  PROVE  IInv'
<1> DEFINE c == [to |-> s, id |-> sent + 1, timed |-> timed]
<1>0. Fit /\ MasterType
  BY MasterFacts
<1>1. c \in Cmd /\ c.id = sent + 1 /\ sent' = sent + 1 /\ sent' \in Ids /\ sent \in Nat
  <2>1. sent \in Nat /\ sent + 1 \in Ids
    BY <1>0, WireAssumption DEF MasterType, HostSend, Ids
  <2>2. timed \in BOOLEAN
    BY WireAssumption
  <2> QED BY <2>1, <2>2 DEF Cmd, HostSend
<1>2. Enqueued(c) /\ EnqueueStep /\ cooling' \in [Slaves -> 0..Cooldown]
  BY <1>0 DEF HostSend, MasterType
<1> HIDE DEF c
<1>3. /\ MasterMove
      /\ UNCHANGED <<wire, relayVars, told_ack, told_nak, told_reply>>
      /\ UNCHANGED slotVars \/ (cmd_state = "idle" /\ cmd' = c)
  BY <1>1, <1>2, EnqueuedFits
<1>4. Fit' /\ UNCHANGED <<node, executed>>
  BY <1>0, <1>3, MasterFit
<1> SUFFICES ASSUME NEW i \in Commands
             PROVE  (BeforeClaim(i) /\ WhileClaimed(i) /\ OneVerdict(i) /\ OneReply(i))'
  BY <1>4 DEF IInv, Ledger, Fit
<1>5. BeforeClaim(i) /\ WhileClaimed(i) /\ OneVerdict(i) /\ OneReply(i)
  BY DEF Ledger, IInv
<1>6. /\ OnWire(i)' = OnWire(i) /\ Begun(i)' = Begun(i) /\ Told(i)' = Told(i)
      /\ Nacked(i)' = Nacked(i) /\ Claimed(i)' = Claimed(i)
  BY <1>3, <1>4
  DEF OnWire, Begun, Judged, HeldBy, Told, Nacked, Claimed, Executed, relayVars
<1>7. BeforeClaim(i)'
  <2>1. i \in Nat
    BY CmdFacts
  <2>2. CASE UNCHANGED slotVars
    BY <1>1, <1>5, <1>6, <2>1, <2>2 DEF BeforeClaim, Queued, slotVars
  <2>3. CASE cmd' = c
    BY <1>1, <1>5, <1>6, <2>1, <2>3 DEF BeforeClaim, Queued
  <2> QED BY <1>3, <2>2, <2>3
<1>8. WhileClaimed(i)' /\ OneVerdict(i)' /\ OneReply(i)'
  BY <1>3, <1>4, <1>5, <1>6
  DEF WhileClaimed, HeldBy, OneVerdict, OneReply, ReplyAt, relayVars
<1> QED BY <1>7, <1>8

\* The verdict is told.
LEMMA DrainCmdAckKeeps ==
  ASSUME IInv, UNCHANGED slaveVars, DrainCmdAck
  PROVE  IInv'
<1>0. Fit /\ MasterType /\ WindowShape /\ RelayShape /\ wire \in Frame
      /\ mishaps \in MishapCount
  BY MasterFacts
<1>1. cmd_ack.kind \in {"ack", "nak"} /\ cmd_ack.id \in Ids
  BY <1>0, FrameFacts DEF DrainCmdAck, MasterType, RelayShape, AnswerFrame
<1>2. /\ UNCHANGED <<wire, mishaps, engineVars, slotVars, cmd_reply, sent, told_reply>>
      /\ cmd_ack' = NoFrame
      /\ told_ack' = IF cmd_ack.kind = "ack" THEN told_ack \cup {cmd_ack.id} ELSE told_ack
      /\ told_nak' = IF cmd_ack.kind = "nak" THEN told_nak \cup {cmd_ack.id} ELSE told_nak
  BY DEF DrainCmdAck, RelayStep
<1>3. MasterType'
  BY <1>0, <1>1, <1>2 DEF DrainCmdAck, RelayStep, engineVars, slotVars, MasterType
<1>4. WindowShape' /\ RelayShape'
  BY <1>0, <1>2, FrameFacts DEF WindowShape, RelayShape, engineVars, slotVars
<1>5. Fit' /\ UNCHANGED <<node, executed>>
  BY <1>0, <1>2, <1>3, <1>4, MasterFit DEF MasterMove
<1> SUFFICES ASSUME NEW i \in Commands
             PROVE  (BeforeClaim(i) /\ WhileClaimed(i) /\ OneVerdict(i) /\ OneReply(i))'
  BY <1>5 DEF IInv, Ledger, Fit
<1>6. BeforeClaim(i) /\ WhileClaimed(i) /\ OneVerdict(i) /\ OneReply(i)
  BY DEF Ledger, IInv
<1>7. /\ Queued(i)' = Queued(i) /\ OnWire(i)' = OnWire(i) /\ Verdict(wire, i)' = Verdict(wire, i)
      /\ ~Verdict(cmd_ack', i) /\ Told(i)' = (Told(i) \/ Verdict(cmd_ack, i))
  BY <1>1, <1>2, FrameFacts DEF Queued, OnWire, Verdict, Told, slotVars
<1>8. Begun(i)' = Begun(i) /\ (Nacked(i)' => Nacked(i)) /\ Claimed(i)' = Claimed(i)
  <2>1. Judged(i)' <=> Judged(i)
    BY <1>7 DEF Judged
  <2> QED BY <1>2, <1>5, <2>1, FrameFacts DEF Begun, HeldBy, Nacked, Claimed, Executed
<1>9. BeforeClaim(i)' /\ WhileClaimed(i)' /\ OneVerdict(i)'
  BY <1>2, <1>5, <1>6, <1>7, <1>8 DEF BeforeClaim, WhileClaimed, HeldBy, OneVerdict
<1>10. OneReply(i)'
  BY <1>2, <1>5, <1>6 DEF OneReply, ReplyAt
<1> QED BY <1>9, <1>10

\* The reply is told, or the message.
LEMMA DrainCmdReplyKeeps ==
  ASSUME IInv, UNCHANGED slaveVars, DrainCmdReply
  PROVE  IInv'
<1> DEFINE r == cmd_reply
<1>0. Fit /\ MasterType /\ WindowShape /\ RelayShape /\ wire \in Frame
      /\ mishaps \in MishapCount
  BY MasterFacts
<1>1. \/ r.kind = "reply" /\ r.id \in Ids
      \/ r.kind = "message" /\ r \in MessageFrame
  BY <1>0, FrameFacts DEF DrainCmdReply, MasterType, RelayShape, AnswerFrame
<1>2. /\ UNCHANGED <<wire, mishaps, engineVars, slotVars, cmd_ack, sent, told_ack, told_nak>>
      /\ cmd_reply' = NoFrame
      /\ told_reply' = IF r.kind = "message" \/ r.id = Poke THEN told_reply
                       ELSE [told_reply EXCEPT ![r.id] = @ + 1]
  BY DEF DrainCmdReply, RelayStep
<1> HIDE DEF r
<1>3. ASSUME r.kind = "reply", r.id # Poke
      PROVE  /\ r.id \in Commands /\ told_reply[r.id] = 0 /\ executed[r.id] = 1
             /\ told_reply' = [told_reply EXCEPT ![r.id] = 1]
  <2>1. r.id \in Commands
    BY <1>1, <1>3 DEF Commands
  <2>2. ReplyIn(cmd_reply, r.id)
    BY <1>3 DEF ReplyIn, r
  <2>3. told_reply[r.id] = 0 /\ executed[r.id] = 1
    BY <2>1, <2>2 DEF IInv, Ledger, OneReply
  <2> QED BY <1>2, <1>3, <2>1, <2>3
<1>4. told_reply' \in [Commands -> 0..2] /\ told_reply \in [Commands -> 0..2]
  <2>1. told_reply \in [Commands -> 0..2]
    BY <1>0 DEF MasterType, Commands
  <2> QED BY <1>1, <1>2, <1>3, <2>1
<1>5. MasterType'
  <2>1. il_msg' \in [Slaves -> SUBSET IlSlots]
    BY <1>0, <1>1, FrameFacts DEF DrainCmdReply, MasterType, r
  <2> QED BY <1>0, <1>2, <1>4, <2>1
    DEF DrainCmdReply, RelayStep, engineVars, slotVars, MasterType, Commands
<1>6. WindowShape' /\ RelayShape'
  BY <1>0, <1>2, FrameFacts DEF WindowShape, RelayShape, engineVars, slotVars
<1>7. Fit' /\ UNCHANGED <<node, executed>>
  <2>1. UNCHANGED slaveVars
    OBVIOUS
  <2> QED BY <1>0, <1>2, <1>5, <1>6, <2>1, MasterFit DEF MasterMove
<1> SUFFICES ASSUME NEW i \in Commands
             PROVE  (BeforeClaim(i) /\ WhileClaimed(i) /\ OneVerdict(i) /\ OneReply(i))'
  BY <1>7 DEF IInv, Ledger, Fit
<1>8. BeforeClaim(i) /\ WhileClaimed(i) /\ OneVerdict(i) /\ OneReply(i)
  BY DEF Ledger, IInv
<1>9. /\ Queued(i)' = Queued(i) /\ OnWire(i)' = OnWire(i) /\ Begun(i)' = Begun(i)
      /\ Told(i)' = Told(i) /\ Nacked(i)' = Nacked(i) /\ Claimed(i)' = Claimed(i)
  BY <1>2, <1>7
  DEF Queued, OnWire, Begun, Judged, HeldBy, Told, Nacked, Claimed, Executed, slotVars
<1>10. BeforeClaim(i)' /\ WhileClaimed(i)' /\ OneVerdict(i)'
  BY <1>2, <1>7, <1>8, <1>9 DEF BeforeClaim, WhileClaimed, HeldBy, OneVerdict
<1>11. OneReply(i)'
  <2>1. ~ReplyIn(cmd_reply', i)
    BY <1>2, FrameFacts DEF ReplyIn
  <2>2. CASE r.kind = "reply" /\ r.id = i
    <3>1. ReplyIn(cmd_reply, i)
      BY <2>2 DEF ReplyIn, r
    <3>2. /\ executed[i] = 1 /\ ~ReplyIn(wire, i) /\ \A t \in Slaves : ~ReplyAt(t, i)
      BY <1>8, <3>1 DEF OneReply
    <3>3. told_reply'[i] = 1
      BY <1>3, <1>4, <2>2, CmdFacts
    <3> QED BY <1>2, <1>7, <2>1, <3>2, <3>3 DEF OneReply, ReplyAt
  <2>3. CASE ~(r.kind = "reply" /\ r.id = i)
    <3>1. told_reply'[i] = told_reply[i]
      BY <1>1, <1>2, <1>3, <1>4, <2>3
    <3> QED BY <1>2, <1>7, <1>8, <2>1, <3>1 DEF OneReply, ReplyAt
  <2> QED BY <2>2, <2>3
<1> QED BY <1>10, <1>11

LEMMA MasterKeeps ==
  ASSUME IInv, MasterStep
  PROVE  IInv'
BY RosterKeeps, DrainsKeep, ReceiveSummaryKeeps, WindowTimeoutKeeps, ReceiveAckKeeps,
   ReceiveDataKeeps, SendPollKeeps, PollRefusedKeeps, SendCommandKeeps, ReconcileKeeps, HostSendKeeps,
   DrainCmdAckKeeps, DrainCmdReplyKeeps
DEF MasterStep, Engine, Drain
-----------------------------------------------------------------------------
(***************************************************************************)
(* The invariant holds, and what follows from it.                          *)
(***************************************************************************)
LEMMA InitInv == Init => IInv
<1> SUFFICES ASSUME Init PROVE IInv
  OBVIOUS
<1>1. SlaveType
  <2>1. node \in [Slaves -> NodeRec] /\ trips \in 0..MaxTrips
    BY BootNode, WireAssumption DEF Init, SlaveInit
  <2> QED BY <2>1, SlaveTypeNames DEF Init, SlaveInit, SlaveTyped, Commands
<1>2. MasterType
  <2>1. Fresh \in InfoRec /\ 0 \in Ids
    BY WireAssumption DEF Fresh, InfoRec, Liveness, Ids
  <2>2. info \in [Slaves -> InfoRec] /\ table \in [1..RosterMax -> Slaves \cup {NoSlave}]
    BY <2>1 DEF Init, MasterInit
  <2>3. /\ told_reply \in [Ids \ {Poke} -> 0..2] /\ cooling \in [Slaves -> 0..Cooldown]
        /\ il_flags \in [Slaves -> {"unknown", "clear", "tripped"}]
        /\ il_msg \in [Slaves -> SUBSET IlSlots]
    BY MasterAssumption DEF Init, MasterInit
  <2>4. /\ enabled \in BOOLEAN /\ poll_state \in {"idle", "wait"}
        /\ poll_cur_addr \in Slaves \cup {NoSlave}
        /\ cmd_state \in {"idle", "queued", "sent"} /\ cmd \in Cmd \cup {NoCmd}
    BY DEF Init, MasterInit
  <2>5. /\ cmd_ack \in AnswerFrame \cup {NoFrame}
        /\ cmd_reply \in AnswerFrame \cup MessageFrame \cup {NoFrame}
    BY DEF Init, MasterInit
  <2>6. sent \in Ids /\ told_ack \subseteq Ids /\ told_nak \subseteq Ids /\ told_down \subseteq Slaves
    BY <2>1 DEF Init, MasterInit
  <2>7. poll_cursor \in 1..RosterMax /\ status_cursor \in 0..RosterMax + 1
    <3>1. RosterMax \in Nat /\ RosterMax >= 1
      BY MasterAssumption
    <3> QED BY <3>1 DEF Init, MasterInit
  <2> QED BY <2>2, <2>3, <2>4, <2>5, <2>6, <2>7 DEF MasterType, InfoRec
<1>3. TypeOK
  <2>1. mishaps \in MishapCount
    BY WireAssumption DEF Init, MishapCount
  <2> QED BY <1>1, <1>2, <2>1 DEF Init, TypeOK
<1>4. Shaped
  BY BootNode, FrameFacts DEF Init, SlaveInit, MasterInit, Shaped, WindowShape, RelayShape
<1>5. ASSUME NEW i \in Commands
      PROVE  BeforeClaim(i) /\ WhileClaimed(i) /\ OneVerdict(i) /\ OneReply(i)
  <2>1. executed[i] = 0 /\ told_reply[i] = 0 /\ i # -1
    BY CmdFacts DEF Init, SlaveInit, MasterInit, Commands
  <2>2. \A s \in Slaves : ~HeldBy(s, i) /\ ~ReplyAt(s, i)
    BY <2>1, BootNode, CmdFacts DEF Init, SlaveInit, HeldBy, ReplyAt
  <2>3. /\ ~Queued(i) /\ ~OnWire(i) /\ ~Verdict(wire, i) /\ ~Verdict(cmd_ack, i) /\ ~Told(i)
        /\ ~ReplyIn(wire, i) /\ ~ReplyIn(cmd_reply, i)
    BY FrameFacts DEF Init, MasterInit, Queued, OnWire, Verdict, Told, ReplyIn
  <2>4. ~Nacked(i)
    BY FrameFacts DEF Init, MasterInit, Nacked
  <2> QED BY <2>1, <2>2, <2>3, <2>4
    DEF BeforeClaim, Begun, Judged, WhileClaimed, OneVerdict, OneReply
<1> QED BY <1>3, <1>4, <1>5 DEF IInv, Ledger

LEMMA StutterInv ==
  ASSUME IInv, UNCHANGED vars
  PROVE  IInv'
<1>0. MasterType /\ WindowShape /\ RelayShape /\ wire \in Frame /\ mishaps \in MishapCount
  BY MasterFacts
<1>1. UNCHANGED <<wire, mishaps, slaveVars, masterVars>>
  BY DEF vars
<1>2. WindowShape'
  BY <1>0, <1>1, MasterStays DEF WindowShape
<1>3. MasterMove
  BY <1>0, <1>1, <1>2, MasterStays DEF MasterMove
<1> QED BY <1>1, <1>3, MasterStays, MasterShrinks DEF commandVars, relayVars, slotVars

\* No step of the bus, in any interleaving, breaks it.
THEOREM Invariant == Spec => []IInv
<1>1. Init => IInv
  BY InitInv
<1>2. IInv /\ [Next]_vars => IInv'
  BY MasterKeeps, LostKeeps, SlaveKeeps, StutterInv DEF Next
<1> QED BY <1>1, <1>2, PTL DEF Spec

\* The state of master, slaves and wire keeps its type, for any number of
\* slaves and places: the cursors of bus_roster_next_enabled and of the status
\* report stay within the roster, and nothing runs or is answered thrice.
THEOREM TypeCorrect == Spec => []TypeOK
<1>1. IInv => TypeOK
  BY DEF IInv
<1> QED BY <1>1, Invariant, PTL

\* bus_poll_engine: a command is never out without its window, and outside a
\* window no slave answers, whatever the host, the roster and the wire do.
THEOREM WindowHolds == Spec => []WindowCoherent
<1>1. IInv => WindowCoherent
  BY DEF IInv, Shaped, WindowShape, WindowCoherent, NoFrame, IsUp
<1> QED BY <1>1, Invariant, PTL

\* slave_rx_isr: a command whose NAK is on its way is not, and was not, claimed.
THEOREM RefusalsHold == Spec => []RefusedNeverClaimed
<1>1. IInv => RefusedNeverClaimed
  BY DEF IInv, Ledger, OneVerdict, RefusedNeverClaimed, Commands
<1> QED BY <1>1, Invariant, PTL

\* A reply armed in g_slave_reply is handed on, never copied.
THEOREM RepliesHold == Spec => []RepliesAreExecutions
<1>1. IInv => RepliesAreExecutions
  <2> SUFFICES ASSUME IInv, NEW i \in Commands PROVE Replies(i) <= executed[i]
    BY DEF RepliesAreExecutions, Commands
  <2> DEFINE S == {s \in Slaves : node[s].ready /\ node[s].reply.id = i}
             w == IF wire.kind = "reply" /\ wire.id = i THEN 1 ELSE 0
             r == IF cmd_reply.kind = "reply" /\ cmd_reply.id = i THEN 1 ELSE 0
  <2>1. OneReply(i) /\ executed[i] \in {0, 1}
    BY DEF IInv, Ledger, WhileClaimed
  <2>2. Replies(i) = told_reply[i] + Cardinality(S) + w + r
    BY DEF Replies
  <2>3. \A s \in Slaves : s \in S <=> ReplyAt(s, i)
    BY DEF ReplyAt
  <2>4. w = (IF ReplyIn(wire, i) THEN 1 ELSE 0) /\ r = (IF ReplyIn(cmd_reply, i) THEN 1 ELSE 0)
    BY DEF ReplyIn
  <2>5. CASE \E s \in Slaves : ReplyAt(s, i)
    <3>1. PICK s \in Slaves : ReplyAt(s, i)
      BY <2>5
    <3>2. S = {s}
      BY <2>1, <2>3, <3>1 DEF OneReply
    <3>3. Cardinality(S) = 1
      BY <3>2, FS_Singleton
    <3>4. told_reply[i] = 0 /\ executed[i] = 1 /\ w = 0 /\ r = 0
      BY <2>1, <2>4, <3>1 DEF OneReply
    <3> HIDE DEF S, w, r
    <3> QED BY <2>2, <3>3, <3>4
  <2>6. CASE ~\E s \in Slaves : ReplyAt(s, i)
    <3>1. S = {}
      BY <2>3, <2>6
    <3>2. Cardinality(S) = 0
      BY <3>1, FS_EmptySet
    <3>3. w \in {0, 1} /\ r \in {0, 1} /\ told_reply[i] \in {0, executed[i]}
          /\ (w = 1 => executed[i] = 1 /\ told_reply[i] = 0 /\ r = 0)
          /\ (r = 1 => executed[i] = 1 /\ told_reply[i] = 0)
      BY <2>1, <2>4 DEF OneReply
    <3> HIDE DEF S, w, r
    <3> QED BY <2>1, <2>2, <3>2, <3>3
  <2> QED BY <2>5, <2>6
<1> QED BY <1>1, Invariant, PTL
-----------------------------------------------------------------------------
(***************************************************************************)
(* The bus implements CommandOnce: Execute is Run, the two relays of       *)
(* verdicts and replies are TellTaken, TellRefused and TellReply, and no   *)
(* other step is seen.                                                     *)
(***************************************************************************)
LEMMA HiddenSlaveSteps ==
  ASSUME NEW s \in Slaves, SlaveStep(s), ~Execute(s)
  PROVE  UNCHANGED <<executed, told_ack, told_nak, told_reply>>
<1>1. UNCHANGED <<told_ack, told_nak, told_reply>>
  BY MasterStays DEF SlaveStep
<1>2. UNCHANGED executed
  <2>1. CASE Isr(s)
    BY <2>1 DEF Isr, IsrMessage, IsrReply, IsrSummary, IsrData, IsrStep, Becomes
  <2>2. CASE MainLoop(s)
    BY <2>2 DEF MainLoop, PublishSummary, FillMessage, Watchdog, DropWork, DropReply, PickUp,
                InterlockTick, MainStep, Becomes
  <2>3. CASE SlaveMishap(s)
    BY <2>3 DEF SlaveMishap, Lapse, Reset, Becomes
  <2> QED BY <2>1, <2>2, <2>3 DEF SlaveStep
<1> QED BY <1>1, <1>2

LEMMA HiddenMasterSteps ==
  ASSUME MasterStep, ~DrainCmdAck, ~DrainCmdReply
  PROVE  UNCHANGED <<executed, told_ack, told_nak, told_reply>>
<1>1. UNCHANGED executed
  BY DEF MasterStep, slaveVars
<1>2. UNCHANGED <<told_ack, told_nak, told_reply>>
  <2>1. CASE Engine
    BY <2>1 DEF Engine, SendCommand, SendPoll, OpenWindow, ReceiveAck, ReceiveData, ReceiveSummary,
                ReceiveCommon, WindowTimeout, EngineStep, toldVars
  <2>2. CASE Drain
    BY <2>2 DEF Drain, DrainEvents, DrainFlagged, StatusBegin, StatusNext, toldVars
  <2>3. CASE ClearRoster \/ HostRestart \/ PollRefused \/ \E on \in BOOLEAN : PollEnable(on)
    BY <2>3 DEF ClearRoster, HostRestart, PollRefused, PollEnable, RosterStep, toldVars
  <2>4. CASE \E s \in Slaves : \/ Register(s) \/ Unregister(s) \/ Reconcile(s)
                              \/ \E timed \in Timed : HostSend(s, timed)
    BY <2>4 DEF Register, Unregister, RosterStep, Reconcile, HostSend, EnqueueStep, toldVars
  <2> QED BY <2>1, <2>2, <2>3, <2>4 DEF MasterStep
<1> QED BY <1>1, <1>2

LEMMA CommandIds == Commands = 1..MaxCmd
BY WireAssumption DEF Commands, Ids, Poke

LEMMA ExecuteIsRun ==
  ASSUME IInv, NEW s \in Slaves, SlaveStep(s), Execute(s)
  PROVE  [Once!OnceNext]_(Once!onceVars)
<1> DEFINE c == node[s].doing
<1>0. SlaveTyped /\ node[s] \in NodeRec /\ NodeShape(node[s])
  BY FitFacts DEF IInv, Fit
<1>1. UNCHANGED <<told_ack, told_nak, told_reply>>
  BY MasterStays DEF SlaveStep
<1>2. executed' = IF c.id = Poke THEN executed ELSE [executed EXCEPT ![c.id] = @ + 1]
  BY DEF Execute
<1>3. c \in Cmd
  BY <1>0 DEF NodeShape, Execute, At
<1>4. CASE c.id = Poke
  BY <1>1, <1>2, <1>4 DEF Once!onceVars
<1>5. CASE c.id # Poke
  <2>1. c.id \in Commands /\ HeldBy(s, c.id)
    BY <1>3, <1>5, CmdFacts DEF Commands, HeldBy
  <2>2. executed[c.id] = 0 /\ OneVerdict(c.id)
    BY <2>1 DEF IInv, Ledger, WhileClaimed
  <2>3. c.id \notin told_nak
    BY <2>2 DEF OneVerdict, Claimed, Nacked
  <2>4. executed' = [executed EXCEPT ![c.id] = 1]
    BY <1>2, <1>5, <2>2
  <2>5. Once!Run(c.id)
    BY <1>1, <2>2, <2>3, <2>4 DEF Once!Run
  <2> QED BY <2>1, <2>5, CommandIds DEF Once!OnceNext
<1> QED BY <1>4, <1>5

LEMMA DrainCmdAckIsTell ==
  ASSUME IInv, UNCHANGED slaveVars, DrainCmdAck
  PROVE  [Once!OnceNext]_(Once!onceVars)
<1> DEFINE i == cmd_ack.id
<1>0. MasterType /\ RelayShape
  BY MasterFacts
<1>1. cmd_ack.kind \in {"ack", "nak"} /\ i \in Ids
  BY <1>0, FrameFacts DEF DrainCmdAck, MasterType, RelayShape, AnswerFrame
<1>2. /\ told_ack' = IF cmd_ack.kind = "ack" THEN told_ack \cup {i} ELSE told_ack
      /\ told_nak' = IF cmd_ack.kind = "nak" THEN told_nak \cup {i} ELSE told_nak
      /\ UNCHANGED <<executed, told_reply>>
  BY DEF DrainCmdAck, slaveVars
<1>3. CASE i = Poke
  <2>1. told_ack' \ {Poke} = told_ack \ {Poke} /\ told_nak' \ {Poke} = told_nak \ {Poke}
    BY <1>2, <1>3
  <2> QED BY <1>2, <2>1 DEF Once!onceVars
<1>4. CASE i # Poke
  <2>1. i \in Commands /\ Verdict(cmd_ack, i)
    BY <1>1, <1>4 DEF Commands, Verdict
  <2>2. /\ OneVerdict(i) /\ executed[i] \in {0, 1}
    BY <2>1 DEF IInv, Ledger, WhileClaimed
  <2>3. i \notin told_ack \cup told_nak
    BY <2>1, <2>2 DEF OneVerdict, Told
  <2>4. CASE cmd_ack.kind = "ack"
    <3>1. told_ack' \ {Poke} = (told_ack \ {Poke}) \cup {i} /\ told_nak' = told_nak
      BY <1>2, <1>4, <2>4
    <3>2. Once!TellTaken(i)
      BY <1>2, <2>3, <3>1 DEF Once!TellTaken
    <3> QED BY <2>1, <3>2, CommandIds DEF Once!OnceNext
  <2>5. CASE cmd_ack.kind = "nak"
    <3>1. told_nak' \ {Poke} = (told_nak \ {Poke}) \cup {i} /\ told_ack' = told_ack
      BY <1>2, <1>4, <2>5
    <3>2. i \notin Executed /\ i \in DOMAIN executed
      <4>1. executed \in [Commands -> 0..2]
        BY FitFacts DEF IInv, Fit, SlaveTyped
      <4> QED BY <2>1, <2>2, <2>5, <4>1 DEF OneVerdict, Nacked, Claimed
    <3>3. executed[i] = 0
      BY <2>2, <3>2 DEF Executed
    <3>4. Once!TellRefused(i)
      BY <1>2, <2>3, <3>1, <3>3 DEF Once!TellRefused
    <3> QED BY <2>1, <3>4, CommandIds DEF Once!OnceNext
  <2> QED BY <1>1, <2>4, <2>5
<1> QED BY <1>3, <1>4

LEMMA DrainCmdReplyIsTell ==
  ASSUME IInv, UNCHANGED slaveVars, DrainCmdReply
  PROVE  [Once!OnceNext]_(Once!onceVars)
<1> DEFINE i == cmd_reply.id
<1>0. MasterType /\ RelayShape
  BY MasterFacts
<1>1. UNCHANGED <<executed, told_ack, told_nak>>
  BY DEF DrainCmdReply, slaveVars
<1>2. CASE UNCHANGED told_reply
  BY <1>1, <1>2 DEF Once!onceVars
<1>3. CASE told_reply' # told_reply
  <2>1. cmd_reply.kind = "reply" /\ i \in Commands
    BY <1>0, <1>3, FrameFacts DEF DrainCmdReply, MasterType, RelayShape, AnswerFrame, Commands
  <2>2. told_reply' = [told_reply EXCEPT ![i] = @ + 1]
    BY <1>3 DEF DrainCmdReply
  <2>3. executed[i] = 1 /\ told_reply[i] = 0
    BY <2>1 DEF IInv, Ledger, OneReply, ReplyIn
  <2>4. Once!TellReply(i)
    BY <1>1, <2>2, <2>3 DEF Once!TellReply
  <2> QED BY <2>1, <2>4, CommandIds DEF Once!OnceNext
<1> QED BY <1>2, <1>3

\* Every behaviour of the bus is one of CommandOnce: a transmission runs at
\* most once, is answered at most once and only after it ran, and never runs
\* if the host was told slave_rx_isr refused it.
THEOREM ImplementsOnce == Spec => OnceSpec
<1>1. Init => Once!OnceInit
  BY CommandIds DEF Init, SlaveInit, MasterInit, Once!OnceInit, Commands
<1>2. IInv /\ [Next]_vars => [Once!OnceNext]_(Once!onceVars)
  <2> SUFFICES ASSUME IInv, [Next]_vars PROVE [Once!OnceNext]_(Once!onceVars)
    OBVIOUS
  <2>1. CASE \E s \in Slaves : SlaveStep(s)
    BY <2>1, HiddenSlaveSteps, ExecuteIsRun DEF Once!onceVars
  <2>2. CASE MasterStep
    <3>1. UNCHANGED slaveVars
      BY <2>2 DEF MasterStep
    <3> QED BY <2>2, <3>1, HiddenMasterSteps, DrainCmdAckIsTell, DrainCmdReplyIsTell
      DEF Once!onceVars
  <2>3. CASE Lose \/ Unheard \/ UNCHANGED vars
    BY <2>3, MasterStays DEF Lose, Unheard, vars, slaveVars, Once!onceVars
  <2> QED BY <2>1, <2>2, <2>3 DEF Next
<1> QED BY <1>1, <1>2, Invariant, PTL DEF Spec, OnceSpec, Once!OnceSpec
=============================================================================
