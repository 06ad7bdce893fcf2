----------------------------- MODULE CmdTracker -----------------------------
(***************************************************************************)
(* The Layer-2 command tracker (linux/bus_controller/cmd_tracker.c) on top *)
(* of the request-id demultiplexer (demux.c) and the USB link's up/down    *)
(* state (usb_link.c), as controller.c drives them from one thread:        *)
(*                                                                         *)
(*   client --> controller_poll: link_poll (rx or reopen) --> demux sweep  *)
(*          --> tracker slots --> client                                   *)
(*                                                                         *)
(* The dongle and the slaves are the environment: during rx they may ACK,  *)
(* NAK, answer or flag anything at any time, answer twice, or never.       *)
(* Time is counted in ticks; timestamps are kept as the age of the event,  *)
(* saturating at MaxAge.                                                   *)
(***************************************************************************)
EXTENDS Integers, Sequences, FiniteSets

CONSTANTS
  Slaves,        \* bus addresses a roster may name
  Rosters,       \* the sets of slaves a client may attach
  QueueDepth,    \* CMD_QUEUE_DEPTH
  PendingMax,    \* PENDING_MAX
  MaxRetries,    \* MAX_ACK_RETRIES
  AckTimeout,    \* ACK_TIMEOUT_MS, in ticks
  DemuxTimeout,  \* the timeout controller_poll gives demux_poll, in ticks
  ExecMargin,    \* EXEC_MARGIN_MS, in ticks
  ExecTimeout,   \* exec_timeout_ms of each command, in ticks
  MaxAge,        \* bound: ages stop growing here
  MaxLag,        \* bound: ticks between two polls
  MaxHandle,     \* bound: commands submitted
  MaxOther,      \* bound: untracked requests outstanding at once
  RidMax,        \* bound: request ids in use at once
  SentMax,       \* bound: transmissions of a command are counted so far
  Mishaps        \* the rare outcomes of a send that a run admits

Other == "other"   \* owner of a pending entry that is no tracker slot's

MishapKinds == {"staging", "drop", "resenddrop", "ridwrap"}

ASSUME TrackerAssumption ==
  /\ QueueDepth \in Nat \ {0} /\ PendingMax \in Nat \ {0}
  /\ MaxRetries \in Nat /\ MaxHandle \in Nat /\ MaxLag \in Nat
  /\ MaxOther \in Nat /\ RidMax \in Nat /\ MaxAge \in Nat /\ SentMax \in Nat
  /\ AckTimeout \in Nat /\ DemuxTimeout \in Nat /\ ExecMargin \in Nat
  /\ ExecTimeout \in [1..MaxHandle -> Nat]
  /\ MaxLag <= MaxAge
  /\ Rosters \subseteq SUBSET Slaves
  /\ Mishaps \subseteq MishapKinds
  /\ Other \notin Slaves

NoRid  == 0            \* inflight_rid of a slot without a command
ErrRid == RidMax + 1   \* 0xFFFF: a request id, and the error value of a send

Handles == 1..MaxHandle

VARIABLES
  link,        \* "up" or "down"
  pc,          \* where the one thread is
  todo,        \* slots cmd_tracker_poll has still to visit
  lag,         \* age of the tracker's clock t->now
  pend,        \* the demultiplexer's table of pending requests
  inUse,       \* slaves that have a slot
  slot,        \* the tracker's slots
  nextHandle,  \* the handle the next accepted command gets
  accepted,    \* history: handles returned to the client, per slave
  done,        \* history: handles completed, per slave
  sent         \* history: transmissions of each handle, up to SentMax

vars == <<link, pc, todo, lag, pend, inUse, slot, nextHandle, accepted, done, sent>>
loop == <<pc, todo, lag, inUse>>
client == <<nextHandle, accepted>>
-----------------------------------------------------------------------------
SlotState == {"IDLE", "SENT", "INFLIGHT"}
Current   == Handles \cup {0}
SlotRid   == 0..RidMax
Age       == 0..MaxAge
Retries   == 0..MaxRetries
HandleSeq == Seq(Handles)

Slot == [state : SlotState, queue : HandleSeq, has : BOOLEAN, cur : Current,
         rid : SlotRid, sentAge : Age, ackAge : Age, retries : Retries,
         faulted : BOOLEAN]

ClearSlot == [state |-> "IDLE", queue |-> <<>>, has |-> FALSE, cur |-> 0, rid |-> NoRid,
              sentAge |-> 0, ackAge |-> 0, retries |-> 0, faulted |-> FALSE]

\* One entry of the table.  The handle h is a history field: the command the
\* frame carried (0 for an untracked request).
Entry(a, r, h) == [owner |-> a, rid |-> r, h |-> h, age |-> 0]

Owner   == Slaves \cup {Other}
WireRid == 1..ErrRid
Pending == [owner : Owner, rid : WireRid, h : Current, age : Age]

Init ==
  /\ link = "down" /\ pc = "client" /\ todo = {} /\ lag = 0
  /\ pend = {} /\ inUse = {} /\ nextHandle = 1
  /\ slot = [a \in Slaves |-> ClearSlot]
  /\ accepted = [a \in Slaves |-> <<>>]
  /\ done = [a \in Slaves |-> <<>>]
  /\ sent = [h \in Handles |-> 0]
-----------------------------------------------------------------------------
(***************************************************************************)
(* Slot updates, as functions from slot to slot.                           *)
(***************************************************************************)

\* [mutant of Completed] The command is forgotten but the slot stays busy.
CompletedStillSent(s) == [s EXCEPT !.has = FALSE, !.rid = NoRid]

\* complete_inflight: the command's callback has run.
Completed(s) == [s EXCEPT !.state = "IDLE", !.has = FALSE, !.rid = NoRid,
                          !.sentAge = 0, !.ackAge = 0]

\* [mutant of WillPump] The fault gate is not looked at.
WillPumpUngated(s) == s.state = "IDLE" /\ s.queue # <<>>

\* pump_slot sends only from an idle, unfaulted slot with queued work ...
WillPump(s) == s.state = "IDLE" /\ ~s.faulted /\ s.queue # <<>>

\* ... whose front it copies into inflight before it calls send_inflight.
Loaded(s) == [s EXCEPT !.has = TRUE, !.cur = Head(s.queue), !.retries = 0]

\* [mutant of Sent] The command that was sent stays in the queue.
SentUnpopped(kind, s, r) ==
  [s EXCEPT !.rid = r, !.state = "SENT", !.sentAge = lag, !.ackAge = 0]

\* The send returned a request id: pump_slot's first send or a resend.
Sent(kind, s, r) ==
  [s EXCEPT !.rid = r, !.state = "SENT", !.sentAge = lag, !.ackAge = 0,
            !.queue = IF kind = "first" THEN Tail(@) ELSE @]

\* [mutant of NotSent] The command is dequeued before its send is known to work.
NotSentDequeued(kind, s) ==
  IF kind = "first" THEN [s EXCEPT !.has = FALSE, !.queue = Tail(@)] ELSE [s EXCEPT !.sentAge = lag]

\* The send returned 0xFFFF: pump_slot leaves the command queued; a resend has
\* restarted the ACK clock all the same.
NotSent(kind, s) ==
  IF kind = "first" THEN [s EXCEPT !.has = FALSE] ELSE [s EXCEPT !.sentAge = lag]

\* [mutant of Awaits] Any reply for the slave is taken as the awaited one.
AwaitsAnyRid(s, a, p) == p.owner = a /\ s.has

\* on_tracker_reply acts on the reply to entry p only if the slot still awaits it.
Awaits(s, a, p) == p.owner = a /\ s.has /\ s.rid = p.rid

\* The slot of a after on_link_state(DOWN) has resolved the table T: an awaited
\* command is completed, and pumping the next one fails because the link is down.
SweptBy(T, s, a) == \E p \in T : Awaits(s, a, p)
Dropped(T, s, a) ==
  LET c == Completed(s)
  IN  CASE ~SweptBy(T, s, a) -> s
        [] SweptBy(T, s, a) /\ WillPump(c) -> NotSent("first", Loaded(c))
        [] OTHER -> c

\* What the client holds an unanswered handle for, oldest first.
Held(s) == (IF s.has THEN <<s.cur>> ELSE <<>>) \o s.queue
-----------------------------------------------------------------------------
\* Request ids are handed out cyclically from 16 bits; an id comes round again
\* long after the table has forgotten it, so the next one is taken to be one
\* that nothing refers to.
FreshRid(T, r) == /\ \A p \in T : p.rid # r
                  /\ \A b \in Slaves : slot[b].rid # r
NextRid(T, r) == FreshRid(T, r) /\ \A q \in 1..(r - 1) : ~FreshRid(T, q)

Update(a, s, T, D) ==
  /\ slot' = [slot EXCEPT ![a] = s] /\ pend' = T /\ done' = D
  /\ UNCHANGED link

\* A frame that carries the command h has gone to the staging ring.
Transmitted(h) == [sent EXCEPT ![h] = IF @ < SentMax THEN @ + 1 ELSE @]

\* go_down as usb_send's flush_tx calls it, with a's slot at s, the table at T
\* and the history at D: every pending request is resolved with LINK_DOWN and
\* the table is left empty.
SlotsDropped(a, s, T) ==
  [b \in Slaves |-> IF b = a THEN Dropped(T, s, a) ELSE Dropped(T, slot[b], b)]
DoneDropped(a, s, T, D) ==
  [b \in Slaves |-> IF SweptBy(T, IF b = a THEN s ELSE slot[b], b)
                    THEN Append(D[b], IF b = a THEN s.cur ELSE slot[b].cur) ELSE D[b]]

\* send_inflight of slot a, whose slot reads s while demux_send_bus_exec runs.
\* usb_send returns 0 even when the write that it tried took the link down, so
\* the entry is registered after the sweep that should have resolved it.
SendRefused(a, kind, s, T, D) ==
  /\ Cardinality(T) >= PendingMax \/ link = "down" \/ "staging" \in Mishaps
  /\ Update(a, NotSent(kind, s), T, D)
  /\ UNCHANGED sent

SendStaged(a, kind, s, T, D) ==
  /\ Cardinality(T) < PendingMax /\ link = "up"
  /\ \E r \in 1..RidMax : /\ NextRid(T, r)
                          /\ Update(a, Sent(kind, s, r), T \cup {Entry(a, r, s.cur)}, D)
  /\ sent' = Transmitted(s.cur)

SendWrapped(a, kind, s, T, D) ==
  /\ "ridwrap" \in Mishaps
  /\ Cardinality(T) < PendingMax /\ link = "up" /\ FreshRid(T, ErrRid)
  /\ Update(a, NotSent(kind, s), T \cup {Entry(a, ErrRid, s.cur)}, D)
  /\ sent' = Transmitted(s.cur)

SendDropped(a, kind, s, T, D) ==
  /\ (IF kind = "first" THEN "drop" ELSE "resenddrop") \in Mishaps
  /\ Cardinality(T) < PendingMax /\ link = "up"
  /\ link' = "down"
  /\ \E r \in 1..RidMax :
       /\ NextRid(T, r)
       /\ pend' = {Entry(a, r, s.cur)}
       /\ slot' = [SlotsDropped(a, s, T) EXCEPT ![a] = Sent(kind, @, r)]
       /\ done' = DoneDropped(a, s, T, D)
  /\ sent' = Transmitted(s.cur)

Send(a, kind, s, T, D) ==
  \/ SendRefused(a, kind, s, T, D)
  \/ SendStaged(a, kind, s, T, D)
  \/ SendWrapped(a, kind, s, T, D)
  \/ SendDropped(a, kind, s, T, D)

\* pump_slot of slot a, whose slot reads s.
Pump(a, s, T, D) ==
  \/ WillPump(s)  /\ Send(a, "first", Loaded(s), T, D)
  \/ ~WillPump(s) /\ Update(a, s, T, D) /\ UNCHANGED sent

\* complete_inflight, then pump_slot.
Finish(a, T) ==
  \/ /\ slot[a].has
     /\ Pump(a, Completed(slot[a]), T, [done EXCEPT ![a] = Append(@, slot[a].cur)])
  \/ ~slot[a].has /\ Pump(a, slot[a], T, done)

\* [mutant of ResendOrFail] One resend too many.
ResendOrFailLoose(a) ==
  \/ /\ slot[a].retries <= MaxRetries
     /\ Send(a, "resend", [slot[a] EXCEPT !.retries = @ + 1], pend, done)
  \/ slot[a].retries > MaxRetries /\ Finish(a, pend)

\* [mutant of ResendOrFail] Resends are not counted.
ResendUncounted(a) == Send(a, "resend", slot[a], pend, done)

\* A NAK or an ACK timeout: resend while retries are left, else give up.
ResendOrFail(a) ==
  \/ /\ slot[a].retries < MaxRetries
     /\ Send(a, "resend", [slot[a] EXCEPT !.retries = @ + 1], pend, done)
  \/ slot[a].retries >= MaxRetries /\ Finish(a, pend)

\* go_down outside any send: every pending request is resolved with LINK_DOWN.
LinkLost ==
  /\ link' = "down"
  /\ slot' = [a \in Slaves |-> Dropped(pend, slot[a], a)]
  /\ done' = [a \in Slaves |-> IF SweptBy(pend, slot[a], a)
                               THEN Append(done[a], slot[a].cur) ELSE done[a]]

\* resolve: the table entry p is freed, then its callback runs.
Resolve(p) ==
  \/ \E a \in Slaves : Awaits(slot[a], a, p) /\ Finish(a, pend \ {p})
  \/ /\ \A a \in Slaves : ~Awaits(slot[a], a, p)
     /\ pend' = pend \ {p}
     /\ UNCHANGED <<slot, done, link, sent>>
-----------------------------------------------------------------------------
(***************************************************************************)
(* The client, between two polls.                                          *)
(***************************************************************************)

\* cmd_tracker_submit, when it does not refuse the command.
Submit(a) ==
  /\ pc = "client" /\ a \in inUse
  /\ Len(slot[a].queue) < QueueDepth /\ nextHandle <= MaxHandle
  /\ nextHandle' = nextHandle + 1
  /\ accepted' = [accepted EXCEPT ![a] = Append(@, nextHandle)]
  /\ Pump(a, [slot[a] EXCEPT !.queue = Append(@, nextHandle)], pend, done)
  /\ UNCHANGED loop

\* [mutant of AttachRoster] The slots are rebuilt and nobody is told.
AttachRosterSilent(R) ==
  /\ pc = "client"
  /\ slot' = [a \in Slaves |-> ClearSlot]
  /\ inUse' = R
  /\ UNCHANGED <<link, pc, todo, lag, pend, client, done, sent>>

\* controller_attach_roster: abort everything, rebuild the slots.
AttachRoster(R) ==
  /\ pc = "client"
  /\ done' = [a \in Slaves |-> done[a] \o Held(slot[a])]
  /\ slot' = [a \in Slaves |-> ClearSlot]
  /\ inUse' = R
  /\ UNCHANGED <<link, pc, todo, lag, pend, client, sent>>

\* An untracked request (ungated command, provisioning step) that gets a table
\* entry, before or after its write finds the link gone.
SendOther ==
  /\ pc \in {"client", "rx"} /\ link = "up"
  /\ Cardinality({p \in pend : p.owner = Other}) < MaxOther
  /\ Cardinality(pend) < PendingMax
  /\ \E r \in 1..RidMax :
       /\ NextRid(pend, r)
       /\ \/ /\ pend' = pend \cup {Entry(Other, r, 0)}
             /\ UNCHANGED <<link, slot, done>>
          \/ "drop" \in Mishaps /\ LinkLost /\ pend' = {Entry(Other, r, 0)}
  /\ UNCHANGED <<loop, client, sent>>

Older(n) == IF n < MaxAge THEN n + 1 ELSE n

Tick ==
  /\ pc = "client" /\ lag < MaxLag
  /\ lag' = lag + 1
  /\ pend' = {[p EXCEPT !.age = Older(@)] : p \in pend}
  /\ slot' = [a \in Slaves |->
       [slot[a] EXCEPT !.sentAge = IF slot[a].state = "SENT" THEN Older(@) ELSE @,
                       !.ackAge = IF slot[a].state = "INFLIGHT" THEN Older(@) ELSE @]]
  /\ UNCHANGED <<link, pc, todo, inUse, client, done, sent>>
-----------------------------------------------------------------------------
(***************************************************************************)
(* controller_poll.                                                        *)
(***************************************************************************)
Goto(p, q) == pc = p /\ pc' = q /\ UNCHANGED <<todo, lag, inUse>>

PollBegin == /\ Goto("client", IF link = "up" THEN "rx" ELSE "reopen")
             /\ UNCHANGED <<link, pend, slot, client, done, sent>>

\* usb_poll with the port closed: try_open succeeds, or fails or is not yet due.
Reopen == /\ Goto("reopen", "sweep")
          /\ link' \in {"up", "down"}
          /\ UNCHANGED <<pend, slot, client, done, sent>>

\* usb_poll with the port open: frames are handed up one by one ...
Ack(a) ==
  /\ pc = "rx" /\ slot[a].state = "SENT"
  /\ slot' = [slot EXCEPT ![a].state = "INFLIGHT", ![a].ackAge = lag,
                          ![a].sentAge = 0, ![a].retries = 0]
  /\ UNCHANGED <<link, loop, pend, client, done, sent>>

Nak(a) ==
  /\ pc = "rx" /\ slot[a].state = "SENT"
  /\ ResendOrFail(a)
  /\ UNCHANGED <<loop, client>>

Reply(p) ==
  /\ pc = "rx"
  /\ Resolve(p)
  /\ UNCHANGED <<loop, client>>

\* BUS_SLAVE_FLAGGED and BUS_STATUS_REPORT: cache the summary, gate the queue.
Flagged(a, tripped) ==
  /\ pc = "rx" /\ a \in inUse
  /\ \/ /\ slot[a].faulted /\ ~tripped
        /\ Pump(a, [slot[a] EXCEPT !.faulted = FALSE], pend, done)
     \/ /\ tripped \/ ~slot[a].faulted
        /\ Update(a, [slot[a] EXCEPT !.faulted = tripped], pend, done)
        /\ UNCHANGED sent
  /\ UNCHANGED <<loop, client>>

\* ... until the port runs dry, or turns out to be gone.
RxDone == /\ Goto("rx", "sweep")
          /\ UNCHANGED <<link, pend, slot, client, done, sent>>

HangUp ==
  /\ Goto("rx", "sweep")
  /\ link = "up" /\ LinkLost
  /\ pend' = {}
  /\ UNCHANGED <<client, sent>>

\* demux_poll's timeout sweep.
Expired(p) == p.age >= DemuxTimeout

Expire(p) ==
  /\ pc = "sweep" /\ Expired(p)
  /\ Resolve(p)
  /\ UNCHANGED <<loop, client>>

SweepDone ==
  /\ pc = "sweep" /\ \A p \in pend : ~Expired(p)
  /\ lag' = 0 /\ todo' = inUse
  /\ pc' = IF inUse = {} THEN "client" ELSE "slots"
  /\ UNCHANGED <<link, pend, inUse, slot, client, done, sent>>

\* cmd_tracker_poll visits one slot.
AckLate(s) == s.state = "SENT" /\ s.sentAge >= AckTimeout
ExecLate(s) == s.state = "INFLIGHT" /\ s.ackAge >= ExecTimeout[s.cur] + ExecMargin

\* [mutant of PollSlot] An idle slot is not pumped.
PollSlotNoPump(a) ==
  /\ pc = "slots" /\ a \in todo
  /\ \/ AckLate(slot[a]) /\ ResendOrFail(a)
     \/ ExecLate(slot[a]) /\ Finish(a, pend)
     \/ /\ ~AckLate(slot[a]) /\ ~ExecLate(slot[a])
        /\ UNCHANGED <<link, pend, slot, done, sent>>
  /\ todo' = todo \ {a}
  /\ pc' = IF todo' = {} THEN "client" ELSE "slots"
  /\ UNCHANGED <<lag, inUse, client>>

PollSlot(a) ==
  /\ pc = "slots" /\ a \in todo
  /\ \/ AckLate(slot[a]) /\ ResendOrFail(a)
     \/ ExecLate(slot[a]) /\ Finish(a, pend)
     \/ slot[a].state = "IDLE" /\ Pump(a, slot[a], pend, done)
     \/ /\ slot[a].state # "IDLE" /\ ~AckLate(slot[a]) /\ ~ExecLate(slot[a])
        /\ UNCHANGED <<link, pend, slot, done, sent>>
  /\ todo' = todo \ {a}
  /\ pc' = IF todo' = {} THEN "client" ELSE "slots"
  /\ UNCHANGED <<lag, inUse, client>>
-----------------------------------------------------------------------------
ClientNext == \/ \E a \in Slaves : Submit(a)
              \/ \E R \in Rosters : AttachRoster(R)
              \/ SendOther
              \/ Tick
              \/ PollBegin

FrameNext == \/ \E a \in Slaves : Ack(a) \/ Nak(a)
             \/ \E a \in Slaves, tripped \in BOOLEAN : Flagged(a, tripped)
             \/ \E p \in pend : Reply(p)

PollNext == \/ Reopen \/ RxDone \/ HangUp \/ SweepDone
            \/ \E p \in pend : Expire(p)
            \/ \E a \in Slaves : PollSlot(a)

Next == ClientNext \/ FrameNext \/ PollNext

Spec == Init /\ [][Next]_vars

\* The service loop keeps polling and the clock keeps running: every step of
\* controller_poll ends, and time passes between polls.
Fairness ==
  /\ WF_vars(PollBegin) /\ WF_vars(Reopen) /\ WF_vars(RxDone) /\ WF_vars(SweepDone)
  /\ WF_vars(\E p \in pend : Expire(p))
  /\ WF_vars(\E a \in Slaves : PollSlot(a))
  /\ SF_vars(Tick)

FairSpec == Spec /\ Fairness
-----------------------------------------------------------------------------
(***************************************************************************)
(* Properties.                                                             *)
(***************************************************************************)

\* Every variable of the tracker and of the demultiplexer has its type.
TypeOK ==
  /\ link \in {"up", "down"}
  /\ pc \in {"client", "reopen", "rx", "sweep", "slots"}
  /\ todo \subseteq Slaves /\ inUse \subseteq Slaves
  /\ lag \in 0..MaxLag
  /\ pend \subseteq Pending
  /\ slot \in [Slaves -> Slot]
  /\ nextHandle \in 1..(MaxHandle + 1)
  /\ accepted \in [Slaves -> HandleSeq]
  /\ done \in [Slaves -> HandleSeq]
  /\ sent \in [Handles -> 0..SentMax]

\* Through resends, timeouts, refusals, lost links and new rosters, what a slave
\* has completed, followed by what it still holds, is exactly what was accepted
\* for it, in order: no handle is lost, completed twice or overtaken.
Accounted == \A a \in Slaves : done[a] \o Held(slot[a]) = accepted[a]

\* on_tracker_reply's stale guard: the one entry whose reply may complete a
\* slot's command carries that very command.
ReplyIsOwn == \A a \in Slaves, p \in pend : Awaits(slot[a], a, p) => p.h = slot[a].cur

\* A command that is still queued is not on the wire: a send that reported
\* failure has transmitted nothing, so sending it again is its first transmission.
QueuedNotOnWire ==
  \A p \in pend : p.owner \in Slaves =>
     \A i \in DOMAIN slot[p.owner].queue : slot[p.owner].queue[i] # p.h

\* A command is transmitted at most 1 + MAX_ACK_RETRIES times in all, whatever mix
\* of NAKs, ACK timeouts, refused sends and lost links it meets.
BoundedResends == \A h \in Handles : sent[h] <= MaxRetries + 1

\* A transmission starts for a command in flight only: what a step adds to the
\* table belongs to a command that no step has completed before.
NoLateTransmission ==
  [][\A p \in pend' \ pend : p.owner \in Slaves /\ p.age = 0 =>
        \A i \in DOMAIN done[p.owner] : done[p.owner][i] # p.h]_vars

\* While a slave's interlock stays tripped no queued command of it starts.
GateHolds ==
  [][\A a \in Slaves : slot[a].faulted /\ slot[a]'.faulted /\ slot[a]'.has
        => slot[a].has /\ slot[a]'.cur = slot[a].cur]_vars

\* The tracker implements the abstract command service.
Service == INSTANCE CommandService
             WITH waiting <- [a \in Slaves |-> Held(slot[a])], completed <- done
ServiceSpec == Service!ServiceSpec

\* An accepted command is completed unless its slave's interlock or the link
\* holds it back for ever.
AcceptedCompletes ==
  \A a \in Slaves, h \in Handles :
    (\E i \in DOMAIN accepted[a] : accepted[a][i] = h)
      ~> \/ \E i \in DOMAIN done[a] : done[a][i] = h
         \/ slot[a].faulted
         \/ link = "down"
=============================================================================
