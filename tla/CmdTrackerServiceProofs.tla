------------------------ MODULE CmdTrackerServiceProofs ------------------------
(***************************************************************************)
(* Proofs that CmdTracker implements CommandService and that its interlock *)
(* gate holds, for every roster, queue depth, table size, timeout and mix  *)
(* of mishaps.  Both look at one step: what it adds to a slave's history,  *)
(* and what it puts in flight.                                             *)
(***************************************************************************)
EXTENDS CmdTrackerProofs

\* The history d has become e: as it was, or longer by one handle.
Grown(d, e) == e = d \/ \E h \in Handles : e = Append(d, h)

\* Slot s has become n, and nothing new is in flight behind a tripped interlock.
Gated(s, n) == n.faulted = s.faulted /\ (s.faulted /\ n.has => s.has /\ n.cur = s.cur)

\* What a call leaves that found slot a at s and the history at D.
Effect(a, s, D) ==
  /\ Gated(s, slot'[a])
  /\ \A b \in Slaves : Grown(D[b], done'[b])
  /\ \A b \in Slaves \ {a} : Gated(slot[b], slot'[b])

-----------------------------------------------------------------------------
\* What is credited to a slave when a lost link resolves the table.
LEMMA CreditedGrows ==
  ASSUME NEW T, NEW a, NEW s \in Slot, s.has => s.cur # 0, NEW d
  PROVE  Grown(d, Credited(T, s, a, d))
<1>1. s.has => s.cur \in Handles
  BY DEF Slot, Current
<1>2. SweptBy(T, s, a) => s.has
  BY DEF SweptBy, Awaits
<1> QED BY <1>1, <1>2 DEF Credited, Grown

\* The slot rewrites of complete_inflight, pump_slot and send_inflight.
LEMMA CompletedGated ==
  ASSUME NEW s \in Slot
  PROVE  Gated(s, Completed(s)) /\ \A n : Gated(Completed(s), n) => Gated(s, n)
BY CompletedType DEF Gated

LEMMA DroppedGated ==
  ASSUME NEW T, NEW a, NEW s \in Slot, lag \in 0..MaxLag
  PROVE  Gated(s, Dropped(T, s, a))
<1> DEFINE c == Completed(s)
<1>1. c \in Slot /\ Gated(s, c) /\ c.faulted = s.faulted
  BY CompletedType, CompletedGated
<1>2. ASSUME WillPump(c) PROVE Gated(s, NotSent("first", Loaded(c)))
  <2>1. Loaded(c) \in Slot /\ Loaded(c).faulted = c.faulted
    BY <1>1, <1>2, LoadedType DEF Loaded, Slot
  <2>2. NotSent("first", Loaded(c)).faulted = Loaded(c).faulted
    BY <2>1 DEF NotSent, Slot
  <2> QED BY <1>1, <1>2, <2>1, <2>2 DEF Gated, WillPump
<1> QED BY <1>1, <1>2 DEF Dropped, Gated

LEMMA NotSentGated ==
  ASSUME NEW kind \in Kinds, NEW s \in Slot
  PROVE  Gated(s, NotSent(kind, s))
BY DEF NotSent, Gated, Slot

\* A first send needs an open gate; a resend sends what is in flight already.
LEMMA SentGated ==
  ASSUME NEW kind \in Kinds, NEW s \in Slot, NEW n \in Slot, Gated(s, n),
         kind = "first" => ~s.faulted, NEW r
  PROVE  Gated(s, Sent(kind, n, r))
BY DEF Sent, Gated, Slot

-----------------------------------------------------------------------------
LEMMA UpdateEffect ==
  ASSUME NEW a \in Slaves, slot \in [Slaves -> Slot], NEW s \in Slot, NEW n, Gated(s, n),
         NEW T, NEW D, Update(a, n, T, D)
  PROVE  Effect(a, s, D)
BY DEF Update, Effect, Gated, Grown

\* send_inflight, whatever becomes of the frame.
LEMMA SendEffect ==
  ASSUME Sound, lag \in 0..MaxLag, NEW a \in Slaves, NEW kind \in Kinds,
         NEW s, Sendable(kind, s), kind = "first" => ~s.faulted,
         NEW T, NEW D \in [Slaves -> HandleSeq], Send(a, kind, s, T, D)
  PROVE  Effect(a, s, D)
<1>1. s \in Slot /\ (s.has => s.cur # 0) /\ slot \in [Slaves -> Slot]
  BY DEF Sendable, Sound, Typed
<1>2. CASE \E U : Update(a, NotSent(kind, s), U, D)
  BY <1>1, <1>2, NotSentGated, UpdateEffect
<1>3. CASE \E r, U : Update(a, Sent(kind, s, r), U, D)
  BY <1>1, <1>3, SentGated, UpdateEffect DEF Gated
<1>4. CASE SendDropped(a, kind, s, T, D)
  <2>1. PICK r : /\ slot' = [SlotsDropped(a, s, T) EXCEPT ![a] = Sent(kind, @, r)]
                 /\ done' = DoneDropped(a, s, T, D)
    BY <1>4 DEF SendDropped
  <2>2. slot'[a] = Sent(kind, Dropped(T, s, a), r)
        /\ \A b \in Slaves \ {a} : slot'[b] = Dropped(T, slot[b], b)
    BY <2>1 DEF SlotsDropped
  <2>3. Gated(s, slot'[a])
    <3>1. Dropped(T, s, a) \in Slot /\ Gated(s, Dropped(T, s, a))
      BY <1>1, DroppedType, DroppedGated
    <3> QED BY <1>1, <2>2, <3>1, SentGated
  <2>4. \A b \in Slaves \ {a} : Gated(slot[b], slot'[b])
    BY <1>1, <2>2, DroppedGated
  <2>5. ASSUME NEW b \in Slaves PROVE Grown(D[b], done'[b])
    <3>1. done'[b] = Credited(T, IF b = a THEN s ELSE slot[b], b, D[b])
      BY <2>1 DEF DoneDropped, Credited
    <3>2. slot[b] \in Slot /\ (slot[b].has => slot[b].cur # 0)
      BY <1>1 DEF Sound, Shaped, SlotShape
    <3> QED BY <1>1, <3>1, <3>2, CreditedGrows
  <2> QED BY <2>3, <2>4, <2>5 DEF Effect
<1> QED BY <1>2, <1>3, <1>4 DEF Send, SendRefused, SendStaged, SendWrapped

\* A first send awaits nothing yet: it adds nothing to its own slave's history.
LEMMA FirstSendHistory ==
  ASSUME NEW a \in Slaves, NEW s, Sendable("first", s), NEW T, T \subseteq Pending,
         NEW D, Send(a, "first", s, T, D)
  PROVE  done'[a] = D[a]
<1>1. CASE done' = D
  BY <1>1
<1>2. CASE done' = DoneDropped(a, s, T, D)
  <2>1. \A p \in T : p.rid # NoRid
    BY TrackerAssumption DEF Pending, WireRid, NoRid
  <2>2. s.rid = NoRid
    BY DEF Sendable
  <2>3. ~SweptBy(T, s, a)
    BY <2>1, <2>2 DEF SweptBy, Awaits
  <2> QED BY <1>2, <2>3 DEF DoneDropped
<1> QED BY <1>1, <1>2 DEF Send, SendRefused, SendStaged, SendWrapped, SendDropped, Update

\* pump_slot, called with the slot already rewritten to s.
LEMMA PumpEffect ==
  ASSUME Sound, lag \in 0..MaxLag, NEW a \in Slaves, NEW s \in Slot, SlotShape(s),
         NEW T, T \subseteq Pending, NEW D \in [Slaves -> HandleSeq], Pump(a, s, T, D)
  PROVE  Effect(a, s, D) /\ done'[a] = D[a]
<1>0. slot \in [Slaves -> Slot]
  BY DEF Sound, Typed
<1>1. CASE WillPump(s) /\ Send(a, "first", Loaded(s), T, D)
  <2> DEFINE l == Loaded(s)
  <2>1. /\ l \in Slot /\ l.queue = s.queue /\ l.state = "IDLE" /\ l.rid = s.rid
        /\ l.has /\ l.cur = Head(s.queue) /\ l.cur # 0
    BY <1>1, LoadedType
  <2>2. s.rid = NoRid /\ s.queue # <<>> /\ ~s.faulted /\ l.faulted = s.faulted
    BY <1>1 DEF SlotShape, WillPump, Loaded, Slot
  <2>3. Sendable("first", l)
    BY <2>1, <2>2 DEF Sendable
  <2> HIDE DEF l
  <2>4. Effect(a, l, D) /\ done'[a] = D[a]
    <3>1. Send(a, "first", l, T, D)
      BY <1>1 DEF l
    <3> QED BY <2>2, <2>3, <3>1, SendEffect, FirstSendHistory DEF Kinds
  <2> QED BY <2>2, <2>4 DEF Effect, Gated
<1>2. CASE Update(a, s, T, D)
  <2>1. Gated(s, s)
    BY DEF Gated
  <2> QED BY <1>0, <1>2, <2>1, UpdateEffect DEF Update
<1> QED BY <1>1, <1>2 DEF Pump

\* complete_inflight then pump_slot: one handle more in the slave's history.
LEMMA FinishEffect ==
  ASSUME Sound, lag \in 0..MaxLag, NEW a \in Slaves, NEW T, T \subseteq pend, Finish(a, T)
  PROVE  Effect(a, slot[a], done)
<1>1. /\ slot[a] \in Slot /\ SlotShape(slot[a]) /\ done \in [Slaves -> HandleSeq]
      /\ T \subseteq Pending
  BY DEF Sound, Typed, Shaped
<1>2. CASE slot[a].has /\ Pump(a, Completed(slot[a]), T,
                               [done EXCEPT ![a] = Append(@, slot[a].cur)])
  <2> DEFINE c == Completed(slot[a])
             D == [done EXCEPT ![a] = Append(@, slot[a].cur)]
  <2>1. c \in Slot /\ SlotShape(c)
    BY <1>1, CompletedType DEF SlotShape
  <2>2. slot[a].cur \in Handles
    BY <1>1, <1>2 DEF SlotShape, Slot, Current
  <2>3. done[a] \in Seq(Handles)
    BY <1>1 DEF HandleSeq
  <2>4. Append(done[a], slot[a].cur) \in HandleSeq
    BY <2>2, <2>3 DEF HandleSeq
  <2>5. D \in [Slaves -> HandleSeq] /\ D[a] = Append(done[a], slot[a].cur)
        /\ \A b \in Slaves \ {a} : D[b] = done[b]
    BY <1>1, <2>4
  <2>6. Effect(a, c, D) /\ done'[a] = D[a]
    BY <1>1, <1>2, <2>1, <2>5, PumpEffect
  <2>7. \A b \in Slaves : Grown(done[b], done'[b])
    BY <2>2, <2>5, <2>6 DEF Effect, Grown
  <2>8. Gated(slot[a], slot'[a])
    BY <1>1, <2>6, CompletedGated DEF Effect
  <2> QED BY <2>6, <2>7, <2>8 DEF Effect
<1>3. CASE ~slot[a].has /\ Pump(a, slot[a], T, done)
  BY <1>1, <1>3, PumpEffect
<1> QED BY <1>2, <1>3 DEF Finish

\* A NAK or an ACK timeout.
LEMMA ResendOrFailEffect ==
  ASSUME Sound, lag \in 0..MaxLag, NEW a \in Slaves, slot[a].state # "IDLE", ResendOrFail(a)
  PROVE  Effect(a, slot[a], done)
<1>1. /\ slot[a] \in Slot /\ SlotShape(slot[a]) /\ done \in [Slaves -> HandleSeq]
  BY DEF Sound, Typed, Shaped
<1>2. CASE Finish(a, pend)
  BY <1>2, FinishEffect
<1>3. CASE /\ slot[a].retries < MaxRetries
           /\ Send(a, "resend", [slot[a] EXCEPT !.retries = @ + 1], pend, done)
  <2> DEFINE s == [slot[a] EXCEPT !.retries = @ + 1]
  <2>1. slot[a].retries + 1 \in Retries
    BY <1>1, <1>3, TrackerAssumption DEF Slot, Retries
  <2>2. /\ s \in Slot /\ s.state = slot[a].state /\ s.has = slot[a].has
        /\ s.cur = slot[a].cur /\ s.faulted = slot[a].faulted
    BY <1>1, <2>1 DEF Slot
  <2>3. Sendable("resend", s)
    BY <1>1, <2>2 DEF Sendable, SlotShape
  <2>4. Effect(a, s, done)
    BY <1>1, <1>3, <2>3, SendEffect DEF Kinds
  <2> HIDE DEF s
  <2> QED BY <2>2, <2>4 DEF Effect, Gated
<1> QED BY <1>2, <1>3 DEF ResendOrFail

-----------------------------------------------------------------------------
(***************************************************************************)
(* The steps.                                                              *)
(***************************************************************************)

\* Every history is as it was, or longer by one handle.
Grows == \A b \in Slaves : Grown(done[b], done'[b])

\* The step that GateHolds forbids is not this one.
GateKept == \A b \in Slaves :
  slot[b].faulted /\ slot'[b].faulted /\ slot'[b].has
    => slot[b].has /\ slot'[b].cur = slot[b].cur

LEMMA EffectMeans ==
  ASSUME NEW a \in Slaves, Effect(a, slot[a], done)
  PROVE  Grows /\ GateKept
BY DEF Effect, Gated, Grows, GateKept

LEMMA StillMeans ==
  ASSUME UNCHANGED <<slot, done>>
  PROVE  Grows /\ GateKept
BY DEF Grown, Grows, GateKept

\* go_down outside a tracked send.
LEMMA LinkLostEffect ==
  ASSUME Sound, lag \in 0..MaxLag, LinkLost
  PROVE  Grows /\ GateKept
<1>1. \A b \in Slaves : slot[b] \in Slot /\ (slot[b].has => slot[b].cur # 0)
  BY DEF Sound, Typed, Shaped, SlotShape
<1>2. \A b \in Slaves : /\ slot'[b] = Dropped(pend, slot[b], b)
                        /\ done'[b] = Credited(pend, slot[b], b, done[b])
  BY DEF LinkLost, Credited
<1>3. Grows
  BY <1>1, <1>2, CreditedGrows DEF Grows
<1>4. \A b \in Slaves : Gated(slot[b], slot'[b])
  BY <1>1, <1>2, DroppedGated
<1> QED BY <1>3, <1>4 DEF GateKept, Gated

\* resolve, for a reply or a timeout.
LEMMA ResolveEffect ==
  ASSUME Sound, lag \in 0..MaxLag, NEW p \in pend, Resolve(p)
  PROVE  Grows /\ GateKept
<1>1. CASE \E a \in Slaves : Awaits(slot[a], a, p) /\ Finish(a, pend \ {p})
  BY <1>1, FinishEffect, EffectMeans
<1>2. CASE UNCHANGED <<slot, done, link>>
  BY <1>2, StillMeans
<1> QED BY <1>1, <1>2 DEF Resolve

\* on_flagged and on_interlock_msg: what is started is started with the gate open.
LEMMA FlaggedEffect ==
  ASSUME Sound, lag \in 0..MaxLag, NEW a \in Slaves, NEW tripped \in BOOLEAN,
         Flagged(a, tripped)
  PROVE  Grows /\ GateKept
<1>1. /\ slot \in [Slaves -> Slot] /\ slot[a] \in Slot /\ SlotShape(slot[a])
      /\ done \in [Slaves -> HandleSeq] /\ pend \subseteq Pending
  BY DEF Sound, Typed, Shaped
<1>2. CASE Pump(a, [slot[a] EXCEPT !.faulted = FALSE], pend, done)
  <2> DEFINE n == [slot[a] EXCEPT !.faulted = FALSE]
  <2>1. n \in Slot /\ SlotShape(n) /\ ~n.faulted
    BY <1>1 DEF Slot, SlotShape
  <2>2. Effect(a, n, done)
    BY <1>1, <1>2, <2>1, PumpEffect
  <2>3. ~slot'[a].faulted
    BY <2>1, <2>2 DEF Effect, Gated
  <2> QED BY <2>2, <2>3 DEF Effect, Gated, Grows, GateKept
<1>3. CASE Update(a, [slot[a] EXCEPT !.faulted = tripped], pend, done)
  <2>1. slot'[a].has = slot[a].has /\ slot'[a].cur = slot[a].cur
        /\ \A b \in Slaves \ {a} : slot'[b] = slot[b]
    BY <1>1, <1>3 DEF Update, Slot
  <2>2. Grows
    BY <1>3 DEF Update, Grows, Grown
  <2> QED BY <2>1, <2>2 DEF GateKept
<1> QED BY <1>2, <1>3 DEF Flagged

LEMMA PollSlotEffect ==
  ASSUME Sound, lag \in 0..MaxLag, NEW a \in Slaves, PollSlot(a)
  PROVE  Grows /\ GateKept
<1>1. slot[a] \in Slot /\ SlotShape(slot[a]) /\ done \in [Slaves -> HandleSeq]
      /\ pend \subseteq Pending
  BY DEF Sound, Typed, Shaped
<1>2. CASE AckLate(slot[a]) /\ ResendOrFail(a)
  BY <1>2, ResendOrFailEffect, EffectMeans DEF AckLate
<1>3. CASE Finish(a, pend)
  BY <1>3, FinishEffect, EffectMeans
<1>4. CASE Pump(a, slot[a], pend, done)
  BY <1>1, <1>4, PumpEffect, EffectMeans
<1>5. CASE UNCHANGED <<link, pend, slot, done>>
  BY <1>5, StillMeans
<1> QED BY <1>2, <1>3, <1>4, <1>5 DEF PollSlot

\* cmd_tracker_submit: its own slave completes nothing.
LEMMA SubmitEffect ==
  ASSUME IInv, NEW a \in Slaves, Submit(a)
  PROVE  Grows /\ GateKept /\ done'[a] = done[a]
<1> DEFINE s == [slot[a] EXCEPT !.queue = Append(@, nextHandle)]
<1>1. Sound /\ LoopTyped /\ ClientTyped
  BY IInvParts
<1>2. /\ slot[a] \in Slot /\ SlotShape(slot[a]) /\ done \in [Slaves -> HandleSeq]
      /\ pend \subseteq Pending
  BY <1>1 DEF Sound, Typed, Shaped
<1>3. nextHandle \in Handles
  BY <1>1, TrackerAssumption DEF Submit, ClientTyped, Handles
<1>4. Append(slot[a].queue, nextHandle) \in HandleSeq
  BY <1>2, <1>3 DEF HandleSeq, Slot
<1>5. /\ s \in Slot /\ s.state = slot[a].state /\ s.has = slot[a].has /\ s.cur = slot[a].cur
      /\ s.rid = slot[a].rid /\ s.faulted = slot[a].faulted
  BY <1>2, <1>4 DEF Slot
<1>6. SlotShape(s)
  BY <1>2, <1>5 DEF SlotShape
<1>7. Effect(a, s, done) /\ done'[a] = done[a]
  BY <1>1, <1>2, <1>5, <1>6, PumpEffect DEF Submit, LoopTyped
<1> HIDE DEF s
<1>8. Effect(a, slot[a], done)
  BY <1>5, <1>7 DEF Effect, Gated
<1> QED BY <1>7, <1>8, EffectMeans

\* The ages that a tick moves are not the command.
LEMMA TickEffect ==
  ASSUME Sound, Tick
  PROVE  Grows /\ GateKept
<1>1. \A b \in Slaves : slot[b] \in Slot
  BY DEF Sound, Typed
<1>2. \A b \in Slaves : slot'[b].has = slot[b].has /\ slot'[b].cur = slot[b].cur
  BY <1>1 DEF Tick, Slot
<1> QED BY <1>2 DEF Tick, Grows, Grown, GateKept

LEMMA AckEffect ==
  ASSUME Sound, NEW a \in Slaves, Ack(a)
  PROVE  Grows /\ GateKept
<1>1. slot \in [Slaves -> Slot]
  BY DEF Sound, Typed
<1>2. \A b \in Slaves : slot'[b].has = slot[b].has /\ slot'[b].cur = slot[b].cur
  BY <1>1 DEF Ack, Slot
<1> QED BY <1>2 DEF Ack, Grows, Grown, GateKept

\* A step that neither accepts a command nor rebuilds the roster.
Serving == [Next]_vars /\ (\A a \in Slaves : ~Submit(a)) /\ \A R \in Rosters : ~AttachRoster(R)

LEMMA ServingEffect ==
  ASSUME IInv, Serving
  PROVE  Grows /\ GateKept /\ UNCHANGED client
<1>1. Sound /\ lag \in 0..MaxLag
  BY IInvParts DEF LoopTyped
<1>2. CASE ClientNext
  <2>1. CASE SendOther
    <3>1. LinkLost \/ UNCHANGED <<link, slot, done>>
      BY <2>1 DEF SendOther
    <3> QED BY <1>1, <2>1, <3>1, LinkLostEffect, StillMeans DEF SendOther
  <2>2. CASE Tick
    BY <1>1, <2>2, TickEffect DEF Tick
  <2>3. CASE PollBegin
    BY <2>3, StillMeans DEF PollBegin
  <2> QED BY <1>2, <2>1, <2>2, <2>3 DEF ClientNext, Serving
<1>3. CASE FrameNext
  <2>1. ASSUME NEW a \in Slaves, Ack(a) PROVE Grows /\ GateKept /\ UNCHANGED client
    BY <1>1, <2>1, AckEffect DEF Ack
  <2>2. ASSUME NEW a \in Slaves, Nak(a) PROVE Grows /\ GateKept /\ UNCHANGED client
    BY <1>1, <2>2, ResendOrFailEffect, EffectMeans DEF Nak
  <2>3. ASSUME NEW a \in Slaves, NEW f \in BOOLEAN, Flagged(a, f)
        PROVE  Grows /\ GateKept /\ UNCHANGED client
    BY <1>1, <2>3, FlaggedEffect DEF Flagged
  <2>4. ASSUME NEW p \in pend, Reply(p) PROVE Grows /\ GateKept /\ UNCHANGED client
    BY <1>1, <2>4, ResolveEffect DEF Reply
  <2> QED BY <1>3, <2>1, <2>2, <2>3, <2>4 DEF FrameNext
<1>4. CASE PollNext
  <2>1. CASE Reopen \/ RxDone \/ SweepDone
    BY <2>1, StillMeans DEF Reopen, RxDone, SweepDone
  <2>2. CASE HangUp
    BY <1>1, <2>2, LinkLostEffect DEF HangUp
  <2>3. ASSUME NEW p \in pend, Expire(p) PROVE Grows /\ GateKept /\ UNCHANGED client
    BY <1>1, <2>3, ResolveEffect DEF Expire
  <2>4. ASSUME NEW a \in Slaves, PollSlot(a) PROVE Grows /\ GateKept /\ UNCHANGED client
    BY <1>1, <2>4, PollSlotEffect DEF PollSlot
  <2> QED BY <1>4, <2>1, <2>2, <2>3, <2>4 DEF PollNext
<1>5. CASE UNCHANGED vars
  BY <1>5, StillMeans DEF vars, client
<1> QED BY <1>2, <1>3, <1>4, <1>5 DEF Serving, Next

-----------------------------------------------------------------------------
(***************************************************************************)
(* The gate.                                                               *)
(***************************************************************************)
LEMMA GateStep == ASSUME IInv, [Next]_vars PROVE GateKept
<1>1. ASSUME NEW R \in Rosters, AttachRoster(R) PROVE GateKept
  BY <1>1 DEF AttachRoster, ClearSlot, GateKept
<1> QED BY <1>1, SubmitEffect, ServingEffect DEF Serving

\* While a slave's interlock stays tripped no queued command of it is put in
\* flight, by pump_slot or by any path that ends in it: a submit, a completion,
\* a refused or dropped send, a new link (the fault_any test of pump_slot).
THEOREM GateAlways == Spec => GateHolds
<1>1. IInv /\ [Next]_vars =>
        [\A a \in Slaves : slot[a].faulted /\ slot[a]'.faulted /\ slot[a]'.has
           => slot[a].has /\ slot[a]'.cur = slot[a].cur]_vars
  BY GateStep DEF GateKept
<1> QED BY <1>1, IInvAlways, PTL DEF Spec, GateHolds

-----------------------------------------------------------------------------
(***************************************************************************)
(* The refinement.                                                         *)
(***************************************************************************)

\* Equal ledgers behind the same history are equal.
LEMMA CancelLeft ==
  ASSUME NEW d \in Seq(Handles), NEW k \in Seq(Handles), NEW w \in Seq(Handles),
         d \o k = d \o w
  PROVE  k = w
BY ConcatSimplifications

\* A ledger that is kept while the history grows by a handle lost its head to it.
LEMMA OneMoved ==
  ASSUME NEW d \in Seq(Handles), NEW w \in Seq(Handles), NEW k \in Seq(Handles),
         NEW x \in Handles, Append(d, x) \o k = d \o w
  PROVE  w # <<>> /\ Head(w) = x /\ Tail(w) = k
<1>1. <<x>> \in Seq(Handles) /\ <<x>> \o k \in Seq(Handles)
  OBVIOUS
<1>2. Append(d, x) \o k = d \o (<<x>> \o k)
  BY <1>1
<1>3. <<x>> \o k = w
  BY <1>1, <1>2, CancelLeft
<1>4. <<x>> \o k # <<>> /\ Head(<<x>> \o k) = x /\ Tail(<<x>> \o k) = k
  BY <1>1
<1> QED BY <1>3, <1>4

\* With d answered and w in hand before, e and k after: nothing, or the oldest of w.
ServedOldest(d, e, w, k) ==
  /\ e = d => k = w
  /\ e # d => w # <<>> /\ k = Tail(w) /\ e = Append(d, Head(w))

\* One slave over one step that kept its ledger: nothing, or its oldest command.
LEMMA SlaveServed ==
  ASSUME NEW d \in HandleSeq, NEW e, Grown(d, e),
         NEW w \in HandleSeq, NEW k \in HandleSeq, e \o k = d \o w
  PROVE  ServedOldest(d, e, w, k)
<1>1. d \in Seq(Handles) /\ w \in Seq(Handles) /\ k \in Seq(Handles)
  BY DEF HandleSeq
<1>2. ASSUME e = d PROVE k = w
  BY <1>1, <1>2, CancelLeft
<1>3. ASSUME e # d PROVE w # <<>> /\ k = Tail(w) /\ e = Append(d, Head(w))
  <2>1. PICK x \in Handles : e = Append(d, x)
    BY <1>3 DEF Grown
  <2> QED BY <1>1, <1>3, <2>1, OneMoved
<1> QED BY <1>2, <1>3 DEF ServedOldest

\* What a client waits for and has had back, in one state.
Booked == \A b \in Slaves : /\ done[b] \in HandleSeq /\ Held(slot[b]) \in HandleSeq
                            /\ done[b] \o Held(slot[b]) = accepted[b]

LEMMA Books == IInv => Booked
<1> SUFFICES ASSUME IInv PROVE Booked
  OBVIOUS
<1>1. \A b \in Slaves : slot[b] \in Slot /\ (slot[b].has => slot[b].cur # 0)
  BY IInvParts DEF Sound, Typed, Shaped, SlotShape
<1>2. \A b \in Slaves : done[b] \in HandleSeq /\ done[b] \o Held(slot[b]) = accepted[b]
  BY DEF IInv, Typed, Accounted
<1> QED BY <1>1, <1>2, HeldType DEF Booked

\* The slaves whose history grew.
Served == {b \in Slaves : done'[b] # done[b]}

\* The state function that the abstract service sees as waiting.
Waiting == [a \in Slaves |-> Held(slot[a])]

LEMMA ServingImplements ==
  ASSUME IInv, IInv', Grows, UNCHANGED client
  PROVE  Service!Complete(Served)
<1>1. Booked /\ Booked'
  BY Books, PTL
<1>2. ASSUME NEW b \in Slaves
      PROVE  /\ b \notin Served => Held(slot'[b]) = Held(slot[b]) /\ done'[b] = done[b]
             /\ b \in Served => /\ Held(slot[b]) # <<>>
                                /\ Held(slot'[b]) = Tail(Held(slot[b]))
                                /\ done'[b] = Append(done[b], Head(Held(slot[b])))
  <2>1. done'[b] \o Held(slot'[b]) = done[b] \o Held(slot[b])
    BY <1>1 DEF Booked, client
  <2>2. Grown(done[b], done'[b])
    BY DEF Grows
  <2>3. /\ done'[b] = done[b] => Held(slot'[b]) = Held(slot[b])
        /\ done'[b] # done[b] => /\ Held(slot[b]) # <<>>
                                 /\ Held(slot'[b]) = Tail(Held(slot[b]))
                                 /\ done'[b] = Append(done[b], Head(Held(slot[b])))
    <3>1. PICK d \in HandleSeq : d = done[b]
      BY <1>1 DEF Booked
    <3>2. PICK e \in HandleSeq : e = done'[b]
      BY <1>1 DEF Booked
    <3>3. PICK v \in HandleSeq : v = Held(slot[b])
      BY <1>1 DEF Booked
    <3>4. PICK k \in HandleSeq : k = Held(slot'[b])
      BY <1>1 DEF Booked
    <3>5. Grown(d, e) /\ e \o k = d \o v
      BY <2>1, <2>2, <3>1, <3>2, <3>3, <3>4
    <3>6. ServedOldest(d, e, v, k)
      BY <3>5, SlaveServed
    <3> QED BY <3>1, <3>2, <3>3, <3>4, <3>6 DEF ServedOldest
  <2> QED BY <2>3 DEF Served
<1>3. Served \subseteq Slaves
  BY DEF Served
<1>4. Waiting' = [b \in Slaves |-> IF b \in Served THEN Tail(Waiting[b]) ELSE Waiting[b]]
  BY <1>2 DEF Waiting
<1>5. done \in [Slaves -> HandleSeq] /\ done' \in [Slaves -> HandleSeq]
  BY DEF IInv, Typed
<1>6. done' = [b \in Slaves |-> IF b \in Served THEN Append(done[b], Head(Waiting[b]))
                                              ELSE done[b]]
  BY <1>2, <1>5 DEF Waiting
<1>7. \A b \in Served : Waiting[b] # <<>>
  BY <1>2, <1>3 DEF Waiting
<1> QED BY <1>4, <1>6, <1>7 DEF Service!Complete, Service!HeadsCompleted, Waiting, client

LEMMA SubmitImplements ==
  ASSUME IInv, IInv', NEW a \in Slaves, Submit(a)
  PROVE  Service!Accept(a, Served)
<1> DEFINE w == [Waiting EXCEPT ![a] = Append(@, nextHandle)]
<1>1. Booked /\ Booked'
  BY Books, PTL
<1>2. /\ nextHandle \in Handles
      /\ accepted' = [accepted EXCEPT ![a] = Append(@, nextHandle)]
      /\ accepted \in [Slaves -> HandleSeq]
      /\ done \in [Slaves -> HandleSeq] /\ done' \in [Slaves -> HandleSeq]
      /\ slot[a] \in Slot
  <2>1. Typed /\ Typed' /\ ClientTyped
    BY DEF IInv
  <2>2. nextHandle \in Handles
    BY <2>1, TrackerAssumption DEF ClientTyped, Submit, Handles
  <2>3. accepted' = [accepted EXCEPT ![a] = Append(@, nextHandle)]
    BY DEF Submit
  <2> QED BY <2>1, <2>2, <2>3 DEF Typed, ClientTyped
<1>3. w[a] = Append(Held(slot[a]), nextHandle) /\ \A b \in Slaves \ {a} : w[b] = Held(slot[b])
  BY DEF Waiting
<1>4. Grows /\ done'[a] = done[a]
  BY SubmitEffect
<1>5. ASSUME NEW b \in Slaves \ {a}
      PROVE  /\ b \notin Served => Held(slot'[b]) = Held(slot[b]) /\ done'[b] = done[b]
             /\ b \in Served => /\ Held(slot[b]) # <<>>
                                /\ Held(slot'[b]) = Tail(Held(slot[b]))
                                /\ done'[b] = Append(done[b], Head(Held(slot[b])))
  <2>1. done'[b] \o Held(slot'[b]) = done[b] \o Held(slot[b])
    BY <1>1, <1>2 DEF Booked
  <2>2. Grown(done[b], done'[b])
    BY <1>4 DEF Grows
  <2>3. /\ done'[b] = done[b] => Held(slot'[b]) = Held(slot[b])
        /\ done'[b] # done[b] => /\ Held(slot[b]) # <<>>
                                 /\ Held(slot'[b]) = Tail(Held(slot[b]))
                                 /\ done'[b] = Append(done[b], Head(Held(slot[b])))
    <3>1. PICK d \in HandleSeq : d = done[b]
      BY <1>1 DEF Booked
    <3>2. PICK e \in HandleSeq : e = done'[b]
      BY <1>1 DEF Booked
    <3>3. PICK v \in HandleSeq : v = Held(slot[b])
      BY <1>1 DEF Booked
    <3>4. PICK k \in HandleSeq : k = Held(slot'[b])
      BY <1>1 DEF Booked
    <3>5. Grown(d, e) /\ e \o k = d \o v
      BY <2>1, <2>2, <3>1, <3>2, <3>3, <3>4
    <3>6. ServedOldest(d, e, v, k)
      BY <3>5, SlaveServed
    <3> QED BY <3>1, <3>2, <3>3, <3>4, <3>6 DEF ServedOldest
  <2> QED BY <2>3 DEF Served
<1>6. Held(slot'[a]) = w[a] /\ a \notin Served
  <2> DEFINE d == done[a]
             h == Held(slot[a])
             k == Held(slot'[a])
  <2>1. d \in Seq(Handles) /\ h \in Seq(Handles) /\ k \in Seq(Handles)
    BY <1>1 DEF Booked, HandleSeq
  <2>2. d \o k = Append(d \o h, nextHandle)
    BY <1>1, <1>2, <1>4 DEF Booked
  <2> HIDE DEF d, h, k
  <2>3. Append(d \o h, nextHandle) = d \o Append(h, nextHandle)
    <3>1. \A q, e \in Seq(Handles), x \in Handles : e \o Append(q, x) = Append(e \o q, x)
      OBVIOUS
    <3> QED BY <1>2, <2>1, <3>1
  <2>4. Append(h, nextHandle) \in Seq(Handles)
    BY <1>2, <2>1
  <2>5. k = Append(h, nextHandle)
    BY <2>1, <2>2, <2>3, <2>4, CancelLeft
  <2> QED BY <1>3, <1>4, <2>5 DEF Served, h, k
<1>7. Waiting' = [b \in Slaves |-> IF b \in Served THEN Tail(w[b]) ELSE w[b]]
  <2>1. \A b \in Slaves : Held(slot'[b]) = IF b \in Served THEN Tail(w[b]) ELSE w[b]
    BY <1>3, <1>5, <1>6
  <2> QED BY <2>1 DEF Waiting
<1>8. done' = [b \in Slaves |-> IF b \in Served THEN Append(done[b], Head(w[b])) ELSE done[b]]
  <2>1. \A b \in Slaves : done'[b] = IF b \in Served THEN Append(done[b], Head(w[b]))
                                                     ELSE done[b]
    BY <1>3, <1>4, <1>5, <1>6
  <2> QED BY <1>2, <2>1
<1>9. \A b \in Served : w[b] # <<>>
  BY <1>3, <1>5, <1>6 DEF Served
<1>10. Len(Waiting[a]) <= QueueDepth
  <2> DEFINE q == slot[a].queue
             c == slot[a].cur
  <2>1. q \in Seq(Handles) /\ Len(q) < QueueDepth /\ Len(q) \in Nat
    BY <1>2 DEF Slot, HandleSeq, Submit
  <2>2. CASE slot[a].has
    <3>1. c \in Handles /\ Held(slot[a]) = <<c>> \o q
      BY <1>2, <2>2, IInvParts, HeldType DEF Sound, Shaped, SlotShape
    <3> HIDE DEF q, c
    <3>2. Len(<<c>> \o q) = 1 + Len(q)
      BY <2>1, <3>1
    <3> QED BY <2>1, <3>1, <3>2, TrackerAssumption DEF Waiting
  <2>3. CASE ~slot[a].has
    <3>1. Held(slot[a]) = q
      BY <1>2, <2>3, HeldType
    <3> QED BY <2>1, <3>1, TrackerAssumption DEF Waiting
  <2> QED BY <2>2, <2>3
<1>11. nextHandle <= MaxHandle /\ nextHandle' = nextHandle + 1
  BY DEF Submit
<1> QED
  BY <1>7, <1>8, <1>9, <1>10, <1>11 DEF Service!Accept, Service!HeadsCompleted, Waiting

LEMMA AttachImplements ==
  ASSUME NEW R \in Rosters, AttachRoster(R)
  PROVE  Service!AbortAll
BY ClearSlotHeld DEF AttachRoster, client, Service!AbortAll

LEMMA ServiceStep ==
  ASSUME IInv, IInv', [Next]_vars
  PROVE  [Service!ServiceNext]_(Service!serviceVars)
<1>1. ASSUME NEW a \in Slaves, Submit(a) PROVE Service!ServiceNext
  <2>1. Service!Accept(a, Served) /\ Served \in SUBSET Slaves
    BY <1>1, SubmitImplements DEF Served
  <2> QED BY <2>1 DEF Service!ServiceNext
<1>2. ASSUME NEW R \in Rosters, AttachRoster(R) PROVE Service!ServiceNext
  BY <1>2, AttachImplements DEF Service!ServiceNext
<1>3. CASE Serving
  <2>1. Service!Complete(Served) /\ Served \in SUBSET Slaves
    BY <1>3, ServingEffect, ServingImplements DEF Served
  <2> QED BY <2>1 DEF Service!ServiceNext
<1> QED BY <1>1, <1>2, <1>3 DEF Serving

LEMMA ServiceStart == Init => Service!ServiceInit
BY ClearSlotHeld DEF Init, ClearSlot, Service!ServiceInit

\* The tracker, with its timers, retries, table of requests and failing link,
\* implements the command service: what it completes at any step is the oldest
\* command of a slave, and a new roster alone completes more than one.
THEOREM ImplementsService == Spec => ServiceSpec
<1>1. IInv /\ IInv' /\ [Next]_vars => [Service!ServiceNext]_(Service!serviceVars)
  BY ServiceStep
<1> QED BY <1>1, ServiceStart, IInvAlways, PTL DEF Spec, ServiceSpec, Service!ServiceSpec
=============================================================================
