-------------------------- MODULE CmdTrackerProofs --------------------------
(***************************************************************************)
(* Proofs about CmdTracker, for every roster, queue depth, table size,     *)
(* timeout and mix of mishaps.                                             *)
(***************************************************************************)
EXTENDS CmdTracker, SequenceTheorems, TLAPS

Kinds == {"first", "resend"}

\* What a client still waits for at a slot that reads s while send_inflight runs:
\* a first send has not been taken off the queue yet.
Carried(kind, s) == IF kind = "first" THEN s.queue ELSE Held(s)

\* The slot that send_inflight is called with.
Sendable(kind, s) ==
  /\ s \in Slot
  /\ kind = "first" => s.state = "IDLE" /\ s.rid = NoRid /\ s.queue # <<>>
                       /\ s.has /\ s.cur = Head(s.queue)
  /\ kind = "resend" => s.state # "IDLE"
  /\ s.has => s.cur # 0

\* An idle slot has no command, and the command of a busy one is a handle.
SlotShape(s) == /\ s.state = "IDLE" => ~s.has /\ s.rid = NoRid
                /\ s.has => s.cur # 0

-----------------------------------------------------------------------------
\* Zero is an age, a request id of a slot, a current handle and a retry count.
LEMMA ZeroInRange == 0 \in Age /\ 0 \in SlotRid /\ 0 \in Current /\ 0 \in Retries
  BY TrackerAssumption DEF Age, SlotRid, Current, Retries

\* The age of the tracker's clock t->now fits where a timestamp goes.
LEMMA LagIsAge == ASSUME lag \in 0..MaxLag PROVE lag \in Age
  BY TrackerAssumption DEF Age

\* The front of a queue that is not empty, and what remains behind it.
LEMMA FrontOfQueue ==
  ASSUME NEW q \in HandleSeq, q # <<>>
  PROVE  /\ Head(q) \in Handles /\ Head(q) \in Current /\ Head(q) # 0
         /\ Tail(q) \in HandleSeq
         /\ <<Head(q)>> \o Tail(q) = q
<1>1. q \in Seq(Handles)
  BY DEF HandleSeq
<1>2. Head(q) \in Handles /\ Tail(q) \in Seq(Handles)
  BY <1>1
<1>3. <<Head(q)>> \o Tail(q) = q
  BY <1>1
<1>4. QED
  BY <1>2, <1>3 DEF Handles, Current, HandleSeq

\* complete_inflight leaves an idle slot and does not touch the queue.
LEMMA CompletedType ==
  ASSUME NEW s \in Slot
  PROVE  /\ Completed(s) \in Slot
         /\ Completed(s).queue = s.queue /\ Completed(s).faulted = s.faulted
         /\ ~Completed(s).has /\ Completed(s).rid = NoRid /\ Completed(s).state = "IDLE"
         /\ Completed(s).cur = s.cur
  BY ZeroInRange DEF Completed, Slot, SlotState, NoRid

\* pump_slot's copy of the front of the queue into inflight, before the send.
LEMMA LoadedType ==
  ASSUME NEW s \in Slot, WillPump(s)
  PROVE  /\ Loaded(s) \in Slot
         /\ Loaded(s).queue = s.queue /\ Loaded(s).state = "IDLE" /\ Loaded(s).rid = s.rid
         /\ Loaded(s).has /\ Loaded(s).cur = Head(s.queue) /\ Loaded(s).cur # 0
<1>1. Head(s.queue) \in Current /\ Head(s.queue) # 0
  BY FrontOfQueue DEF WillPump, Slot
<1>2. QED
  BY <1>1, ZeroInRange DEF Loaded, WillPump, Slot

\* A send that failed leaves the slot's state, id and queue as they were.
LEMMA NotSentType ==
  ASSUME NEW kind \in Kinds, NEW s \in Slot, lag \in 0..MaxLag
  PROVE  /\ NotSent(kind, s) \in Slot
         /\ NotSent(kind, s).queue = s.queue /\ NotSent(kind, s).state = s.state
         /\ NotSent(kind, s).rid = s.rid /\ NotSent(kind, s).cur = s.cur
         /\ kind = "first" => ~NotSent(kind, s).has
         /\ kind = "resend" => NotSent(kind, s).has = s.has
  BY LagIsAge DEF NotSent, Kinds, Slot

\* A send that worked leaves a SENT slot that awaits the new request id.
LEMMA SentType ==
  ASSUME NEW kind \in Kinds, NEW s \in Slot, NEW r \in 1..RidMax, lag \in 0..MaxLag,
         kind = "first" => s.queue # <<>>
  PROVE  /\ Sent(kind, s, r) \in Slot
         /\ Sent(kind, s, r).state = "SENT" /\ Sent(kind, s, r).rid = r
         /\ Sent(kind, s, r).has = s.has /\ Sent(kind, s, r).cur = s.cur
         /\ Sent(kind, s, r).queue = (IF kind = "first" THEN Tail(s.queue) ELSE s.queue)
<1>1. kind = "first" => Tail(s.queue) \in HandleSeq
  BY FrontOfQueue DEF Slot
<1>2. r \in SlotRid
  BY TrackerAssumption DEF SlotRid
<1>3. QED
  BY <1>1, <1>2, LagIsAge, ZeroInRange DEF Sent, Kinds, Slot, SlotState

\* Resolving the table for a lost link keeps the shape of a slot.
LEMMA DroppedType ==
  ASSUME NEW T, NEW a, NEW s \in Slot, lag \in 0..MaxLag
  PROVE  /\ Dropped(T, s, a) \in Slot
         /\ Dropped(T, s, a).queue = s.queue
         /\ ~SweptBy(T, s, a) => Dropped(T, s, a) = s
         /\ SweptBy(T, s, a) => /\ ~Dropped(T, s, a).has
                                /\ Dropped(T, s, a).rid = NoRid
                                /\ Dropped(T, s, a).state = "IDLE"
<1> DEFINE c == Completed(s)
<1>1. c \in Slot /\ c.queue = s.queue /\ ~c.has /\ c.rid = NoRid /\ c.state = "IDLE"
  BY CompletedType
<1>2. CASE ~SweptBy(T, s, a)
  BY <1>2 DEF Dropped
<1>3. CASE SweptBy(T, s, a) /\ WillPump(c)
  <2>1. Dropped(T, s, a) = NotSent("first", Loaded(c))
    BY <1>3 DEF Dropped
  <2> DEFINE n == NotSent("first", Loaded(c))
  <2>2. Loaded(c) \in Slot /\ Loaded(c).queue = s.queue /\ Loaded(c).state = "IDLE"
        /\ Loaded(c).rid = NoRid
    BY <1>1, <1>3, LoadedType
  <2>3. n \in Slot /\ n.queue = s.queue /\ n.state = "IDLE" /\ n.rid = NoRid /\ ~n.has
    BY <2>2, NotSentType DEF Kinds
  <2>4. QED
    BY <2>1, <2>3, <1>3
<1>4. CASE SweptBy(T, s, a) /\ ~WillPump(c)
  BY <1>4, <1>1 DEF Dropped
<1>5. QED
  BY <1>2, <1>3, <1>4

-----------------------------------------------------------------------------
(***************************************************************************)
(* The ledger: what is done, followed by what is held.                     *)
(***************************************************************************)

\* What the client waits for at a slot: the command in flight, then the queue.
LEMMA HeldType ==
  ASSUME NEW s \in Slot, s.has => s.cur # 0
  PROVE  /\ Held(s) \in HandleSeq
         /\ ~s.has => Held(s) = s.queue
         /\ s.has => Held(s) = <<s.cur>> \o s.queue /\ s.cur \in Handles
<1>1. s.queue \in Seq(Handles) /\ s.has \in BOOLEAN /\ s.cur \in Handles \cup {0}
  BY DEF Slot, HandleSeq, Current
<1>2. CASE s.has
  <2>1. s.cur \in Handles
    BY <1>1, <1>2
  <2>2. Held(s) = <<s.cur>> \o s.queue
    BY <1>2 DEF Held
  <2>3. <<s.cur>> \o s.queue \in Seq(Handles)
    BY <1>1, <2>1
  <2>4. QED
    BY <1>2, <2>1, <2>2, <2>3 DEF HandleSeq
<1>3. CASE ~s.has
  <2>1. Held(s) = <<>> \o s.queue
    BY <1>3 DEF Held
  <2>2. <<>> \o s.queue = s.queue
    BY <1>1
  <2>3. QED
    BY <1>1, <1>3, <2>1, <2>2 DEF HandleSeq
<1>4. QED
  BY <1>1, <1>2, <1>3

\* Moving the first of what is held to the end of the history changes no ledger.
LEMMA AppendThenHold ==
  ASSUME NEW d \in HandleSeq, NEW h \in Handles, NEW q \in HandleSeq
  PROVE  /\ Append(d, h) \in HandleSeq
         /\ Append(d, h) \o q = d \o (<<h>> \o q)
<1>1. d \in Seq(Handles) /\ q \in Seq(Handles)
  BY DEF HandleSeq
<1>2. Append(d, h) \in Seq(Handles)
  BY <1>1
<1>3. Append(d, h) \o q = d \o (<<h>> \o q)
  BY <1>1
<1>4. QED
  BY <1>2, <1>3 DEF HandleSeq

\* The history d of slave a, whose slot reads s, after the table T was resolved.
Credited(T, s, a, d) == IF SweptBy(T, s, a) THEN Append(d, s.cur) ELSE d

\* A command that a lost link completes moves from the slot to the history.
LEMMA DroppedLedger ==
  ASSUME NEW T, NEW a, NEW s \in Slot, s.has => s.cur # 0, NEW d \in HandleSeq,
         lag \in 0..MaxLag
  PROVE  /\ Credited(T, s, a, d) \in HandleSeq
         /\ Credited(T, s, a, d) \o Held(Dropped(T, s, a)) = d \o Held(s)
<1> DEFINE n == Dropped(T, s, a)
<1>1. n \in Slot /\ n.queue = s.queue
  BY DroppedType
<1>2. CASE ~SweptBy(T, s, a)
  BY <1>2, DroppedType DEF Credited
<1>3. CASE SweptBy(T, s, a)
  <2>1. s.has
    BY <1>3 DEF SweptBy, Awaits
  <2>2. s.cur \in Handles /\ Held(s) = <<s.cur>> \o s.queue
    BY <2>1, HeldType
  <2>3. ~n.has
    BY <1>3, DroppedType
  <2>4. Held(n) = s.queue
    BY <2>3, <1>1, HeldType
  <2>5. s.queue \in HandleSeq
    BY DEF Slot
  <2>6. Append(d, s.cur) \in HandleSeq
        /\ Append(d, s.cur) \o s.queue = d \o (<<s.cur>> \o s.queue)
    BY <2>2, <2>5, AppendThenHold
  <2>7. Append(d, s.cur) \o Held(n) = d \o Held(s)
    BY <2>2, <2>4, <2>6
  <2>8. QED
    BY <1>3, <2>6, <2>7 DEF Credited
<1>4. QED
  BY <1>2, <1>3

\* complete_inflight moves the command in flight from the slot to the history.
LEMMA CompletedLedger ==
  ASSUME NEW s \in Slot, s.has, s.cur # 0, NEW d \in HandleSeq
  PROVE  /\ Append(d, s.cur) \in HandleSeq
         /\ Append(d, s.cur) \o Held(Completed(s)) = d \o Held(s)
<1> DEFINE c == Completed(s)
<1>1. c \in Slot /\ c.queue = s.queue /\ ~c.has
  BY CompletedType
<1>2. s.cur \in Handles /\ Held(s) = <<s.cur>> \o s.queue
  BY HeldType
<1>3. Held(c) = s.queue
  BY <1>1, HeldType
<1>4. s.queue \in HandleSeq
  BY DEF Slot
<1>5. Append(d, s.cur) \in HandleSeq /\ Append(d, s.cur) \o s.queue = d \o (<<s.cur>> \o s.queue)
  BY <1>2, <1>4, AppendThenHold
<1>6. QED
  BY <1>2, <1>3, <1>5

\* cmd_tracker_submit queues a handle behind everything the slot holds.
LEMMA QueuedLedger ==
  ASSUME NEW s \in Slot, s.has => s.cur # 0, NEW h \in Handles, NEW d \in HandleSeq,
         NEW n \in Slot, n.has = s.has, n.cur = s.cur, n.queue = Append(s.queue, h)
  PROVE  d \o Held(n) = Append(d \o Held(s), h)
<1>1. s.queue \in Seq(Handles) /\ d \in Seq(Handles) /\ s.has \in BOOLEAN
  BY DEF Slot, HandleSeq
<1>2. CASE s.has
  <2>1. s.cur \in Handles /\ Held(s) = <<s.cur>> \o s.queue /\ Held(n) = <<s.cur>> \o n.queue
    BY <1>2, HeldType
  <2>2. \A q, e \in Seq(Handles) : e \o Append(q, h) = Append(e \o q, h)
    OBVIOUS
  <2>3. <<s.cur>> \in Seq(Handles) /\ <<s.cur>> \o s.queue \in Seq(Handles)
    BY <1>1, <2>1
  <2>4. Held(n) = Append(Held(s), h)
    BY <1>1, <2>1, <2>2, <2>3
  <2>5. QED
    BY <1>1, <2>1, <2>2, <2>3, <2>4
<1>3. CASE ~s.has
  <2>1. Held(s) = s.queue /\ Held(n) = n.queue
    BY <1>3, HeldType
  <2>2. \A q \in Seq(Handles), e \in Seq(Handles) :
          e \o Append(q, h) = Append(e \o q, h)
    OBVIOUS
  <2>3. QED
    BY <1>1, <2>1, <2>2
<1>4. QED
  BY <1>1, <1>2, <1>3

\* A first send takes the front of the queue into flight.
LEMMA FirstSendLedger ==
  ASSUME NEW s \in Slot, s.has, s.cur = Head(s.queue), s.queue # <<>>
  PROVE  Tail(s.queue) \in HandleSeq /\ <<s.cur>> \o Tail(s.queue) = s.queue
  BY FrontOfQueue DEF Slot

-----------------------------------------------------------------------------
(***************************************************************************)
(* What a call that works on slot a preserves.                             *)
(***************************************************************************)
Typed == /\ link \in {"up", "down"}
         /\ pend \subseteq Pending
         /\ slot \in [Slaves -> Slot]
         /\ done \in [Slaves -> HandleSeq]
Shaped == \A a \in Slaves : SlotShape(slot[a])
Sound == Typed /\ Shaped /\ ReplyIsOwn

\* The call leaves slot a with the ledger L, and the other slots with the one
\* they had before, their histories being D.
Moves(a, L, D) ==
  /\ done'[a] \o Held(slot'[a]) = L
  /\ \A b \in Slaves \ {a} : done'[b] \o Held(slot'[b]) = D[b] \o Held(slot[b])

\* Every reply in the table T that slot a, reading s, awaits is its own.
OwnIn(T, a, s) == \A p \in T : Awaits(s, a, p) => p.h = s.cur

\* A new entry of the table has its type and names its command.
LEMMA EntryType ==
  ASSUME NEW a \in Slaves, NEW r \in WireRid, NEW h \in Current
  PROVE  /\ Entry(a, r, h) \in Pending
         /\ Entry(a, r, h).owner = a /\ Entry(a, r, h).rid = r /\ Entry(a, r, h).h = h
  BY ZeroInRange DEF Entry, Pending, Owner

\* The error value of a send is a request id on the wire, but none of a slot's.
LEMMA RidRange ==
  /\ ErrRid \in WireRid
  /\ \A r \in 1..RidMax : r \in WireRid /\ r \in SlotRid
  /\ \A r \in SlotRid : r # ErrRid
  BY TrackerAssumption DEF WireRid, SlotRid, ErrRid

\* A call that only rewrites slot a, the table and the history.
LEMMA UpdateStep ==
  ASSUME Sound, NEW a \in Slaves, NEW s \in Slot, SlotShape(s),
         NEW T, T \subseteq Pending, OwnIn(T, a, s),
         \A b \in Slaves \ {a} : OwnIn(T, b, slot[b]),
         NEW D \in [Slaves -> HandleSeq], Update(a, s, T, D)
  PROVE  Sound' /\ Moves(a, D[a] \o Held(s), D)
<1>1. slot' = [slot EXCEPT ![a] = s] /\ pend' = T /\ done' = D /\ link' = link
  BY DEF Update
<1>2. slot \in [Slaves -> Slot]
  BY DEF Sound, Typed
<1>3. slot'[a] = s /\ \A b \in Slaves \ {a} : slot'[b] = slot[b]
  BY <1>1, <1>2
<1>4. Typed'
  BY <1>1, <1>2 DEF Sound, Typed
<1>5. Shaped'
  BY <1>3 DEF Sound, Shaped
<1>6. ReplyIsOwn'
  BY <1>1, <1>3 DEF ReplyIsOwn, OwnIn
<1>7. Moves(a, D[a] \o Held(s), D)
  BY <1>1, <1>3 DEF Moves
<1>8. QED
  BY <1>4, <1>5, <1>6, <1>7 DEF Sound

\* A send that failed keeps the invariant and the sender's ledger.
LEMMA NotSentStep ==
  ASSUME Sound, lag \in 0..MaxLag, NEW a \in Slaves, NEW kind \in Kinds,
         NEW s, Sendable(kind, s),
         NEW T, T \subseteq Pending, OwnIn(T, a, s),
         \A b \in Slaves \ {a} : OwnIn(T, b, slot[b]),
         NEW D \in [Slaves -> HandleSeq], Update(a, NotSent(kind, s), T, D)
  PROVE  Sound' /\ Moves(a, D[a] \o Carried(kind, s), D)
<1> DEFINE n == NotSent(kind, s)
<1>0. s \in Slot /\ (s.has => s.cur # 0)
  BY DEF Sendable
<1>1. /\ n \in Slot /\ n.queue = s.queue /\ n.state = s.state /\ n.rid = s.rid
      /\ n.cur = s.cur
      /\ kind = "first" => ~n.has
      /\ kind = "resend" => n.has = s.has
  BY <1>0, NotSentType
<1>2. SlotShape(n)
  BY <1>1 DEF SlotShape, Sendable, Kinds
<1>3. OwnIn(T, a, n)
  BY <1>1 DEF OwnIn, Awaits, Kinds
<1>4. Held(n) = Carried(kind, s)
  <2>1. CASE kind = "first"
    BY <2>1, <1>1, <1>2, HeldType DEF Carried, SlotShape
  <2>2. CASE kind = "resend"
    BY <2>2, <1>1 DEF Carried, Held
  <2>3. QED
    BY <2>1, <2>2 DEF Kinds
<1>5. Sound' /\ Moves(a, D[a] \o Held(n), D)
  BY <1>1, <1>2, <1>3, UpdateStep
<1>6. QED
  BY <1>4, <1>5

\* The command that a send put in flight is the one it was called with.
LEMMA SentCarried ==
  ASSUME lag \in 0..MaxLag, NEW kind \in Kinds, NEW s, Sendable(kind, s),
         NEW r \in 1..RidMax
  PROVE  /\ Sent(kind, s, r) \in Slot /\ SlotShape(Sent(kind, s, r))
         /\ Sent(kind, s, r).cur = s.cur /\ Sent(kind, s, r).rid = r
         /\ Held(Sent(kind, s, r)) = Carried(kind, s)
<1> DEFINE n == Sent(kind, s, r)
<1>0. s \in Slot /\ (kind = "first" => s.queue # <<>>) /\ (s.has => s.cur # 0)
  BY DEF Sendable
<1>1. /\ n \in Slot /\ n.state = "SENT" /\ n.rid = r /\ n.has = s.has /\ n.cur = s.cur
      /\ n.queue = (IF kind = "first" THEN Tail(s.queue) ELSE s.queue)
  BY <1>0, SentType
<1>2. SlotShape(n)
  BY <1>0, <1>1 DEF SlotShape
<1>3. CASE kind = "first"
  <2>1. s.has /\ s.cur = Head(s.queue) /\ s.queue # <<>>
    BY <1>3 DEF Sendable
  <2>2. <<s.cur>> \o Tail(s.queue) = s.queue
    BY <1>0, <2>1, FirstSendLedger
  <2>3. Held(n) = <<s.cur>> \o Tail(s.queue)
    BY <1>1, <1>2, <1>3, <2>1, HeldType DEF SlotShape
  <2>4. QED
    BY <1>1, <1>2, <1>3, <2>2, <2>3 DEF Carried
<1>4. CASE kind = "resend"
  BY <1>1, <1>2, <1>4 DEF Carried, Held
<1>5. QED
  BY <1>3, <1>4 DEF Kinds

\* A send refused for want of a table entry, of a link or of staging room.
LEMMA SendRefusedStep ==
  ASSUME Sound, lag \in 0..MaxLag, NEW a \in Slaves, NEW kind \in Kinds,
         NEW s, Sendable(kind, s),
         NEW T, T \subseteq Pending, OwnIn(T, a, s),
         \A b \in Slaves \ {a} : OwnIn(T, b, slot[b]),
         NEW D \in [Slaves -> HandleSeq], SendRefused(a, kind, s, T, D)
  PROVE  Sound' /\ Moves(a, D[a] \o Carried(kind, s), D)
<1>1. Update(a, NotSent(kind, s), T, D)
  BY DEF SendRefused
<1>2. QED
  BY <1>1, NotSentStep

\* The one entry with the new id is the one just sent: the id was fresh.
LEMMA SendStagedStep ==
  ASSUME Sound, lag \in 0..MaxLag, NEW a \in Slaves, NEW kind \in Kinds,
         NEW s, Sendable(kind, s),
         NEW T, T \subseteq Pending, OwnIn(T, a, s),
         \A b \in Slaves \ {a} : OwnIn(T, b, slot[b]),
         NEW D \in [Slaves -> HandleSeq], SendStaged(a, kind, s, T, D)
  PROVE  Sound' /\ Moves(a, D[a] \o Carried(kind, s), D)
<1>1. PICK r \in 1..RidMax : /\ NextRid(T, r)
                            /\ Update(a, Sent(kind, s, r), T \cup {Entry(a, r, s.cur)}, D)
  BY DEF SendStaged
<1> DEFINE n == Sent(kind, s, r)
           e == Entry(a, r, s.cur)
<1>2. n \in Slot /\ SlotShape(n) /\ n.cur = s.cur /\ n.rid = r /\ Held(n) = Carried(kind, s)
  BY SentCarried
<1>3. s.cur \in Current
  BY DEF Sendable, Slot
<1>4. e \in Pending /\ e.owner = a /\ e.rid = r /\ e.h = s.cur
  BY <1>3, EntryType, RidRange
<1>5. \A p \in T : p.rid # r
  BY <1>1 DEF NextRid, FreshRid
<1>6. OwnIn(T \cup {e}, a, n)
  BY <1>2, <1>4, <1>5 DEF OwnIn, Awaits
<1>7. \A b \in Slaves \ {a} : OwnIn(T \cup {e}, b, slot[b])
  BY <1>4 DEF OwnIn, Awaits
<1>8. Sound' /\ Moves(a, D[a] \o Held(n), D)
  BY <1>1, <1>2, <1>4, <1>6, <1>7, UpdateStep
<1>9. QED
  BY <1>2, <1>8

\* No slot ever awaits the id 0xFFFF.
LEMMA SendWrappedStep ==
  ASSUME Sound, lag \in 0..MaxLag, NEW a \in Slaves, NEW kind \in Kinds,
         NEW s, Sendable(kind, s),
         NEW T, T \subseteq Pending, OwnIn(T, a, s),
         \A b \in Slaves \ {a} : OwnIn(T, b, slot[b]),
         NEW D \in [Slaves -> HandleSeq], SendWrapped(a, kind, s, T, D)
  PROVE  Sound' /\ Moves(a, D[a] \o Carried(kind, s), D)
<1> DEFINE e == Entry(a, ErrRid, s.cur)
           W == T \cup {e}
<1>1. Update(a, NotSent(kind, s), W, D)
  BY DEF SendWrapped
<1>2. s \in Slot /\ s.cur \in Current /\ s.rid \in SlotRid
  BY DEF Sendable, Slot
<1>3. e \in Pending /\ e.owner = a /\ e.rid = ErrRid
  BY <1>2, EntryType, RidRange
<1>4. W \subseteq Pending
  BY <1>3
<1>5. OwnIn(W, a, s)
  BY <1>2, <1>3, RidRange DEF OwnIn, Awaits
<1>6. \A b \in Slaves \ {a} : OwnIn(W, b, slot[b])
  BY <1>3 DEF OwnIn, Awaits
<1>7. QED
  BY <1>1, <1>4, <1>5, <1>6, NotSentStep

\* A slot other than the sender's when the link drops under a send.
LEMMA BystanderDropped ==
  ASSUME Sound, lag \in 0..MaxLag, NEW b \in Slaves, NEW T,
         NEW D \in [Slaves -> HandleSeq]
  PROVE  /\ Dropped(T, slot[b], b) \in Slot /\ SlotShape(Dropped(T, slot[b], b))
         /\ Credited(T, slot[b], b, D[b]) \in HandleSeq
         /\ Credited(T, slot[b], b, D[b]) \o Held(Dropped(T, slot[b], b))
              = D[b] \o Held(slot[b])
<1>1. slot[b] \in Slot /\ SlotShape(slot[b]) /\ D[b] \in HandleSeq
  BY DEF Sound, Typed, Shaped
<1>2. slot[b].has => slot[b].cur # 0
  BY <1>1 DEF SlotShape
<1>3. Dropped(T, slot[b], b) \in Slot /\ SlotShape(Dropped(T, slot[b], b))
  BY <1>1, DroppedType DEF SlotShape
<1>4. QED
  BY <1>1, <1>2, <1>3, DroppedLedger

\* The slot n has request id r, and no command but that of s.
Resumed(n, s, r) == n \in Slot /\ SlotShape(n) /\ n.rid = r /\ (n.has => n.cur = s.cur)

\* Slot n goes on with what the send of s carried, and its ledger, e after d, is kept.
SenderKept(kind, s, d, r, n, e) ==
  /\ Resumed(n, s, r) /\ e \in HandleSeq
  /\ e \o Held(n) = d \o Carried(kind, s)

\* The sender's own slot: a first send has nothing awaited in the table; a resend
\* loses its command to the sweep but becomes SENT again.
LEMMA SenderDropped ==
  ASSUME lag \in 0..MaxLag, NEW a \in Slaves, NEW kind \in Kinds,
         NEW s, Sendable(kind, s), NEW T, T \subseteq Pending,
         NEW d \in HandleSeq, NEW r \in 1..RidMax
  PROVE  SenderKept(kind, s, d, r, Sent(kind, Dropped(T, s, a), r), Credited(T, s, a, d))
<1> DEFINE x == Dropped(T, s, a)
           n == Sent(kind, x, r)
           e == Credited(T, s, a, d)
<1>0. s \in Slot /\ (s.has => s.cur # 0)
  BY DEF Sendable
<1>1. CASE ~SweptBy(T, s, a)
  <2>1. x = s
    BY <1>0, <1>1, DroppedType
  <2>2. n \in Slot /\ SlotShape(n) /\ n.cur = s.cur /\ n.rid = r /\ Held(n) = Carried(kind, s)
    BY <2>1, SentCarried
  <2>3. e = d
    BY <1>1 DEF Credited
  <2>4. QED
    BY <2>2, <2>3 DEF Resumed, SenderKept
<1>2. CASE SweptBy(T, s, a)
  <2>1. PICK p \in T : p.owner = a /\ s.has /\ s.rid = p.rid
    BY <1>2 DEF SweptBy, Awaits
  <2>2. p.rid # NoRid
    BY <2>1, TrackerAssumption DEF Pending, WireRid, NoRid
  <2>3. kind = "resend"
    BY <2>1, <2>2 DEF Sendable, Kinds
  <2>4. x \in Slot /\ x.queue = s.queue /\ ~x.has
    BY <1>0, <1>2, DroppedType
  <2>5. n \in Slot /\ n.state = "SENT" /\ n.rid = r /\ ~n.has /\ n.queue = x.queue
    BY <2>3, <2>4, SentType
  <2>6. SlotShape(n)
    BY <2>5 DEF SlotShape
  <2>7. Held(n) = Held(x)
    BY <2>4, <2>5, HeldType
  <2>8. e \in HandleSeq /\ e \o Held(x) = d \o Held(s)
    BY <1>0, DroppedLedger
  <2>9. Carried(kind, s) = Held(s)
    BY <2>3 DEF Carried
  <2>10. QED
    BY <2>5, <2>6, <2>7, <2>8, <2>9 DEF Resumed, SenderKept
<1>3. QED
  BY <1>1, <1>2

\* A send whose write takes the link down resolves the table, then registers itself.
LEMMA SendDroppedStep ==
  ASSUME Sound, lag \in 0..MaxLag, NEW a \in Slaves, NEW kind \in Kinds,
         NEW s, Sendable(kind, s),
         NEW T, T \subseteq Pending,
         NEW D \in [Slaves -> HandleSeq], SendDropped(a, kind, s, T, D)
  PROVE  Sound' /\ Moves(a, D[a] \o Carried(kind, s), D)
<1>1. PICK r \in 1..RidMax :
        /\ NextRid(T, r)
        /\ pend' = {Entry(a, r, s.cur)}
        /\ slot' = [SlotsDropped(a, s, T) EXCEPT ![a] = Sent(kind, @, r)]
        /\ done' = DoneDropped(a, s, T, D)
        /\ link' = "down"
  BY DEF SendDropped
<1> DEFINE n == Sent(kind, Dropped(T, s, a), r)
           e == Entry(a, r, s.cur)
<1>2. slot' = [b \in Slaves |-> IF b = a THEN n ELSE Dropped(T, slot[b], b)]
  BY <1>1 DEF SlotsDropped
<1>3. done' = [b \in Slaves |->
                 IF b = a THEN Credited(T, s, a, D[a]) ELSE Credited(T, slot[b], b, D[b])]
  BY <1>1 DEF DoneDropped, Credited
<1>4. /\ n \in Slot /\ SlotShape(n) /\ n.rid = r /\ done'[a] \in HandleSeq
      /\ n.has => n.cur = s.cur
      /\ done'[a] \o Held(n) = D[a] \o Carried(kind, s)
  <2> DEFINE d == Credited(T, s, a, D[a])
  <2>1. done'[a] = d
    BY <1>3
  <2>2. D[a] \in HandleSeq
    OBVIOUS
  <2>3. Resumed(n, s, r) /\ d \in HandleSeq /\ d \o Held(n) = D[a] \o Carried(kind, s)
    <3>1. PICK h : h = D[a]
      OBVIOUS
    <3>2. h \in HandleSeq
      BY <2>2, <3>1
    <3>3. SenderKept(kind, s, h, r, n, Credited(T, s, a, h))
      BY <3>2, SenderDropped
    <3> QED BY <3>1, <3>3 DEF SenderKept
  <2>4. QED
    BY <2>1, <2>3 DEF Resumed
<1>5. \A b \in Slaves \ {a} :
        /\ slot'[b] \in Slot /\ SlotShape(slot'[b]) /\ done'[b] \in HandleSeq
        /\ done'[b] \o Held(slot'[b]) = D[b] \o Held(slot[b])
  BY <1>2, <1>3, BystanderDropped
<1>6. slot'[a] = n
  BY <1>2
<1>7. s.cur \in Current
  BY DEF Sendable, Slot
<1>8. e \in Pending /\ e.owner = a /\ e.rid = r /\ e.h = s.cur
  BY <1>7, EntryType, RidRange
<1>9. Typed'
  <2>1. \A b \in Slaves : slot'[b] \in Slot /\ done'[b] \in HandleSeq
    BY <1>4, <1>5, <1>6
  <2>2. slot' \in [Slaves -> Slot] /\ done' \in [Slaves -> HandleSeq]
    BY <1>2, <1>3, <2>1
  <2>3. QED
    BY <1>1, <1>8, <2>2 DEF Typed
<1>10. Shaped'
  BY <1>4, <1>5, <1>6 DEF Shaped
<1>11. ReplyIsOwn'
  <2> SUFFICES ASSUME NEW b \in Slaves, Awaits(slot'[b], b, e)
               PROVE  e.h = slot'[b].cur
    BY <1>1 DEF ReplyIsOwn
  <2>1. b = a
    BY <1>8 DEF Awaits
  <2>2. QED
    BY <2>1, <1>4, <1>6, <1>8 DEF Awaits
<1>12. Moves(a, D[a] \o Carried(kind, s), D)
  BY <1>4, <1>5, <1>6 DEF Moves
<1>13. QED
  BY <1>9, <1>10, <1>11, <1>12 DEF Sound

\* send_inflight, whatever becomes of the frame.
LEMMA SendStep ==
  ASSUME Sound, lag \in 0..MaxLag, NEW a \in Slaves, NEW kind \in Kinds,
         NEW s, Sendable(kind, s),
         NEW T, T \subseteq Pending, OwnIn(T, a, s),
         \A b \in Slaves \ {a} : OwnIn(T, b, slot[b]),
         NEW D \in [Slaves -> HandleSeq], Send(a, kind, s, T, D)
  PROVE  Sound' /\ Moves(a, D[a] \o Carried(kind, s), D)
  BY SendRefusedStep, SendStagedStep, SendWrappedStep, SendDroppedStep DEF Send

-----------------------------------------------------------------------------
\* pump_slot, called with the slot already rewritten to s.
LEMMA PumpStep ==
  ASSUME Sound, lag \in 0..MaxLag, NEW a \in Slaves,
         NEW s \in Slot, SlotShape(s),
         NEW T, T \subseteq Pending, OwnIn(T, a, s),
         \A b \in Slaves \ {a} : OwnIn(T, b, slot[b]),
         NEW D \in [Slaves -> HandleSeq], Pump(a, s, T, D)
  PROVE  Sound' /\ Moves(a, D[a] \o Held(s), D)
<1>1. CASE WillPump(s) /\ Send(a, "first", Loaded(s), T, D)
  <2> DEFINE l == Loaded(s)
  <2>1. /\ l \in Slot /\ l.queue = s.queue /\ l.state = "IDLE" /\ l.rid = s.rid
        /\ l.has /\ l.cur = Head(s.queue) /\ l.cur # 0
    BY <1>1, LoadedType
  <2>2. s.rid = NoRid /\ ~s.has /\ s.queue # <<>>
    BY <1>1 DEF SlotShape, WillPump
  <2>3. Sendable("first", l)
    BY <2>1, <2>2 DEF Sendable
  <2>4. OwnIn(T, a, l)
    <3> SUFFICES ASSUME NEW p \in T, l.rid = p.rid PROVE FALSE
      BY DEF OwnIn, Awaits
    <3>1. p.rid # NoRid
      BY TrackerAssumption DEF Pending, WireRid, NoRid, ErrRid
    <3>2. QED
      BY <2>1, <2>2, <3>1
  <2>5. Carried("first", l) = Held(s)
    BY <2>1, <2>2, HeldType DEF Carried, SlotShape
  <2>6. Sound' /\ Moves(a, D[a] \o Carried("first", l), D)
    BY <1>1, <2>3, <2>4, SendStep DEF Kinds
  <2>7. QED
    BY <2>5, <2>6
<1>2. CASE ~WillPump(s) /\ Update(a, s, T, D)
  BY <1>2, UpdateStep
<1>3. QED
  BY <1>1, <1>2 DEF Pump

\* complete_inflight then pump_slot: the ledger of every slave stays as it was.
LEMMA FinishStep ==
  ASSUME Sound, lag \in 0..MaxLag, NEW a \in Slaves, NEW T, T \subseteq pend,
         Finish(a, T)
  PROVE  Sound' /\ Moves(a, done[a] \o Held(slot[a]), done)
<1>1. /\ slot[a] \in Slot /\ SlotShape(slot[a]) /\ done \in [Slaves -> HandleSeq]
      /\ T \subseteq Pending
  BY DEF Sound, Typed, Shaped
<1>2. \A b \in Slaves : OwnIn(T, b, slot[b])
  BY DEF Sound, ReplyIsOwn, OwnIn
<1>3. CASE slot[a].has /\ Pump(a, Completed(slot[a]), T,
                                [done EXCEPT ![a] = Append(@, slot[a].cur)])
  <2> DEFINE c == Completed(slot[a])
             D == [done EXCEPT ![a] = Append(@, slot[a].cur)]
  <2>1. /\ c \in Slot /\ c.queue = slot[a].queue /\ ~c.has /\ c.rid = NoRid
    BY <1>1, CompletedType
  <2>2. slot[a].cur # 0
    BY <1>1, <1>3 DEF SlotShape
  <2>3. done[a] \in HandleSeq
    BY <1>1
  <2>4. PICK s : s = slot[a]
    OBVIOUS
  <2>5. PICK d : d = done[a]
    OBVIOUS
  <2>6. /\ Append(d, s.cur) \in HandleSeq
        /\ Append(d, s.cur) \o Held(Completed(s)) = d \o Held(s)
    BY <1>1, <1>3, <2>2, <2>3, <2>4, <2>5, CompletedLedger
  <2>7. D = [done EXCEPT ![a] = Append(d, s.cur)]
    BY <2>4, <2>5
  <2>8. /\ D \in [Slaves -> HandleSeq]
        /\ D[a] = Append(d, s.cur)
        /\ \A b \in Slaves \ {a} : D[b] = done[b]
    BY <1>1, <2>6, <2>7
  <2>9. SlotShape(c)
    BY <2>1 DEF SlotShape
  <2>10. OwnIn(T, a, c)
    BY <2>1 DEF OwnIn, Awaits
  <2>11. Sound' /\ Moves(a, D[a] \o Held(c), D)
    BY <1>1, <1>2, <1>3, <2>1, <2>8, <2>9, <2>10, PumpStep
  <2>12. D[a] \o Held(c) = done[a] \o Held(slot[a])
    BY <2>4, <2>5, <2>6, <2>8
  <2>13. QED
    BY <2>8, <2>11, <2>12 DEF Moves
<1>4. CASE ~slot[a].has /\ Pump(a, slot[a], T, done)
  BY <1>1, <1>2, <1>4, PumpStep
<1>5. QED
  BY <1>3, <1>4 DEF Finish

\* A NAK or an ACK timeout keeps the command or completes it.
LEMMA ResendOrFailStep ==
  ASSUME Sound, lag \in 0..MaxLag, NEW a \in Slaves, slot[a].state # "IDLE",
         ResendOrFail(a)
  PROVE  Sound' /\ Moves(a, done[a] \o Held(slot[a]), done)
<1>1. /\ slot[a] \in Slot /\ SlotShape(slot[a]) /\ done \in [Slaves -> HandleSeq]
      /\ pend \subseteq Pending
  BY DEF Sound, Typed, Shaped
<1>2. CASE slot[a].retries >= MaxRetries /\ Finish(a, pend)
  BY <1>2, FinishStep
<1>3. CASE /\ slot[a].retries < MaxRetries
           /\ Send(a, "resend", [slot[a] EXCEPT !.retries = @ + 1], pend, done)
  <2> DEFINE s == [slot[a] EXCEPT !.retries = @ + 1]
  <2>1. slot[a].retries + 1 \in Retries
    <3>1. PICK x, most : x = slot[a].retries /\ most = MaxRetries
      OBVIOUS
    <3>2. most \in Nat /\ x < most
      BY <1>3, <3>1, TrackerAssumption
    <3>3. x \in 0..most
      BY <1>1, <3>1 DEF Slot, Retries
    <3>4. x + 1 \in 0..most
      BY <3>2, <3>3
    <3> QED BY <3>1, <3>4 DEF Retries
  <2>2. /\ s \in Slot /\ s.state = slot[a].state /\ s.has = slot[a].has
        /\ s.cur = slot[a].cur /\ s.rid = slot[a].rid /\ s.queue = slot[a].queue
    BY <1>1, <2>1 DEF Slot
  <2>3. Sendable("resend", s)
    BY <1>1, <2>2 DEF Sendable, SlotShape
  <2>4. OwnIn(pend, a, s)
    BY <2>2 DEF Sound, ReplyIsOwn, OwnIn, Awaits
  <2>5. \A b \in Slaves \ {a} : OwnIn(pend, b, slot[b])
    BY DEF Sound, ReplyIsOwn, OwnIn
  <2>6. Carried("resend", s) = Held(slot[a])
    <3>1. Carried("resend", s) = Held(s)
      BY DEF Carried
    <3> HIDE DEF s
    <3>2. QED
      BY <2>2, <3>1 DEF Held
  <2>7. Sound' /\ Moves(a, done[a] \o Carried("resend", s), done)
    BY <1>1, <1>3, <2>3, <2>4, <2>5, SendStep DEF Kinds
  <2>8. QED
    BY <2>6, <2>7
<1>4. QED
  BY <1>2, <1>3 DEF ResendOrFail

\* A lost link completes what it resolves, and moves nothing else.
LEMMA LinkLostStep ==
  ASSUME Sound, lag \in 0..MaxLag, LinkLost
  PROVE  /\ link' = "down" /\ slot' \in [Slaves -> Slot] /\ done' \in [Slaves -> HandleSeq]
         /\ Shaped'
         /\ \A b \in Slaves : done'[b] \o Held(slot'[b]) = done[b] \o Held(slot[b])
<1>1. done \in [Slaves -> HandleSeq]
  BY DEF Sound, Typed
<1>2. \A b \in Slaves :
        /\ slot'[b] = Dropped(pend, slot[b], b)
        /\ done'[b] = Credited(pend, slot[b], b, done[b])
  BY DEF LinkLost, Credited
<1>3. \A b \in Slaves :
        /\ slot'[b] \in Slot /\ SlotShape(slot'[b]) /\ done'[b] \in HandleSeq
        /\ done'[b] \o Held(slot'[b]) = done[b] \o Held(slot[b])
  <2> SUFFICES ASSUME NEW b \in Slaves
               PROVE  /\ slot'[b] \in Slot /\ SlotShape(slot'[b]) /\ done'[b] \in HandleSeq
                      /\ done'[b] \o Held(slot'[b]) = done[b] \o Held(slot[b])
    OBVIOUS
  <2> DEFINE n == Dropped(pend, slot[b], b)
             d == Credited(pend, slot[b], b, done[b])
  <2>1. /\ n \in Slot /\ SlotShape(n) /\ d \in HandleSeq
        /\ d \o Held(n) = done[b] \o Held(slot[b])
    BY <1>1, BystanderDropped
  <2>2. slot'[b] = n /\ done'[b] = d
    BY <1>2
  <2>3. QED
    BY <2>1, <2>2
<1>4. QED
  BY <1>3 DEF LinkLost, Shaped

\* A reply, or a timeout, uses one entry of the table up.
LEMMA ResolveStep ==
  ASSUME Sound, lag \in 0..MaxLag, NEW p \in pend, Resolve(p)
  PROVE  /\ Sound'
         /\ \A b \in Slaves : done'[b] \o Held(slot'[b]) = done[b] \o Held(slot[b])
<1>1. CASE \E a \in Slaves : Awaits(slot[a], a, p) /\ Finish(a, pend \ {p})
  <2>1. PICK a \in Slaves : Finish(a, pend \ {p})
    BY <1>1
  <2>2. Sound' /\ Moves(a, done[a] \o Held(slot[a]), done)
    BY <2>1, FinishStep
  <2>3. QED
    BY <2>2 DEF Moves
<1>2. CASE pend' = pend \ {p} /\ UNCHANGED <<slot, done, link>>
  BY <1>2 DEF Sound, Typed, Shaped, ReplyIsOwn
<1>3. QED
  BY <1>1, <1>2 DEF Resolve

-----------------------------------------------------------------------------
(***************************************************************************)
(* The inductive invariant and its preservation, action by action.         *)
(***************************************************************************)
\* What no call below controller_poll touches: the thread, the clock, the roster.
LoopTyped ==
  /\ pc \in {"client", "reopen", "rx", "sweep", "slots"}
  /\ todo \subseteq Slaves /\ inUse \subseteq Slaves
  /\ lag \in 0..MaxLag

ClientTyped ==
  /\ nextHandle \in 1..(MaxHandle + 1)
  /\ accepted \in [Slaves -> HandleSeq]

IInv ==
  Typed /\ LoopTyped /\ ClientTyped /\ Shaped /\ ReplyIsOwn /\ Accounted

\* The inductive invariant, cut into what a call on one slot can and cannot change.
LEMMA IInvParts == IInv <=> Sound /\ LoopTyped /\ ClientTyped /\ Accounted
  BY DEF IInv, Sound

\* Every slave's ledger is unchanged.
LedgerKept == \A b \in Slaves : done'[b] \o Held(slot'[b]) = done[b] \o Held(slot[b])

\* A step that keeps the ledger, the client's record and the types keeps the invariant.
LEMMA KeptStep ==
  ASSUME IInv, Sound', LedgerKept, LoopTyped', UNCHANGED client
  PROVE  IInv'
<1>1. ClientTyped'
  BY IInvParts DEF ClientTyped, client
<1>2. Accounted'
  BY DEF IInv, Accounted, LedgerKept, client
<1>3. QED
  BY <1>1, <1>2 DEF IInv, Sound

\* clear_slot leaves nothing for the client to wait for.
LEMMA ClearSlotHeld ==
  /\ ClearSlot \in Slot /\ SlotShape(ClearSlot)
  /\ Held(ClearSlot) = <<>> /\ ~ClearSlot.has /\ <<>> \in HandleSeq
<1>1. ClearSlot \in Slot /\ SlotShape(ClearSlot) /\ ClearSlot.queue = <<>> /\ ~ClearSlot.has
  BY ZeroInRange DEF ClearSlot, Slot, SlotState, SlotShape, NoRid, HandleSeq
<1>2. <<>> \in HandleSeq
  BY DEF HandleSeq
<1>3. Held(ClearSlot) = <<>>
  BY <1>1, <1>2, HeldType DEF SlotShape
<1>4. QED
  BY <1>1, <1>2, <1>3

\* The invariant holds of the tracker that cmd_tracker_create makes.
LEMMA InitStep == Init => IInv
<1> SUFFICES ASSUME Init PROVE IInv
  OBVIOUS
<1>1. ClearSlot \in Slot /\ SlotShape(ClearSlot) /\ <<>> \in HandleSeq
  BY ClearSlotHeld
<1>2. \A a \in Slaves : slot[a] = ClearSlot /\ done[a] = <<>> /\ accepted[a] = <<>>
  BY DEF Init
<1>3. \A a \in Slaves : done[a] \o Held(slot[a]) = accepted[a]
  <2>1. <<>> \o <<>> = <<>>
    OBVIOUS
  <2>2. QED
    BY <1>2, <2>1, ClearSlotHeld
<1>4. Typed /\ LoopTyped /\ ClientTyped
  BY <1>1, TrackerAssumption DEF Init, Typed, LoopTyped, ClientTyped
<1>5. Shaped
  BY <1>1 DEF Init, Shaped
<1>6. ReplyIsOwn
  BY DEF Init, ReplyIsOwn
<1>7. Accounted
  BY <1>3 DEF Accounted
<1>8. QED
  BY <1>4, <1>5, <1>6, <1>7 DEF IInv

\* cmd_tracker_submit records the handle and queues it behind all that is held.
LEMMA SubmitStep == ASSUME IInv, NEW a \in Slaves, Submit(a) PROVE IInv'
<1> DEFINE s == [slot[a] EXCEPT !.queue = Append(@, nextHandle)]
<1>1. Sound /\ LoopTyped /\ ClientTyped /\ Accounted
  BY IInvParts
<1>2. slot[a] \in Slot /\ SlotShape(slot[a]) /\ done \in [Slaves -> HandleSeq]
      /\ slot[a].queue \in HandleSeq /\ pend \subseteq Pending
  BY <1>1 DEF Sound, Typed, Shaped, Slot
<1>3. nextHandle \in Handles
  BY <1>1, TrackerAssumption DEF Submit, ClientTyped, Handles
<1>4. Append(slot[a].queue, nextHandle) \in HandleSeq
  BY <1>2, <1>3 DEF HandleSeq
<1>5. /\ s \in Slot /\ s.state = slot[a].state /\ s.has = slot[a].has /\ s.cur = slot[a].cur
      /\ s.rid = slot[a].rid /\ s.queue = Append(slot[a].queue, nextHandle)
  BY <1>2, <1>4 DEF Slot
<1>6. SlotShape(s) /\ OwnIn(pend, a, s)
  BY <1>1, <1>2, <1>5 DEF SlotShape, Sound, ReplyIsOwn, OwnIn, Awaits
<1>7. \A b \in Slaves \ {a} : OwnIn(pend, b, slot[b])
  BY <1>1 DEF Sound, ReplyIsOwn, OwnIn
<1>8. Sound' /\ Moves(a, done[a] \o Held(s), done)
  BY <1>1, <1>2, <1>5, <1>6, <1>7, PumpStep DEF Submit, LoopTyped
<1>9. done[a] \o Held(s) = Append(done[a] \o Held(slot[a]), nextHandle)
  <2>1. slot[a].has => slot[a].cur # 0
    BY <1>2 DEF SlotShape
  <2>2. PICK o \in Slot : o = slot[a]
    BY <1>2
  <2>3. PICK n \in Slot : n = s
    BY <1>5
  <2>4. PICK d \in HandleSeq : d = done[a]
    BY <1>2
  <2>5. d \o Held(n) = Append(d \o Held(o), nextHandle)
    BY <1>3, <1>5, <2>1, <2>2, <2>3, QueuedLedger
  <2>6. QED
    BY <2>2, <2>3, <2>4, <2>5
<1>10. accepted' = [accepted EXCEPT ![a] = Append(@, nextHandle)]
       /\ accepted \in [Slaves -> HandleSeq]
  BY <1>1 DEF Submit, ClientTyped
<1>11. Accounted'
  BY <1>1, <1>8, <1>9, <1>10 DEF Accounted, Moves
<1>12. ClientTyped'
  <2>1. nextHandle + 1 \in 1..(MaxHandle + 1)
    BY <1>3, TrackerAssumption DEF Handles
  <2>2. Append(accepted[a], nextHandle) \in HandleSeq
    BY <1>3, <1>10 DEF HandleSeq
  <2>3. QED
    BY <1>10, <2>1, <2>2 DEF Submit, ClientTyped
<1>13. LoopTyped'
  BY <1>1 DEF Submit, loop, LoopTyped
<1>14. QED
  BY <1>8, <1>11, <1>12, <1>13 DEF IInv, Sound

\* cmd_tracker_reset completes what every slot holds, in order.
LEMMA AttachRosterStep == ASSUME IInv, NEW R \in Rosters, AttachRoster(R) PROVE IInv'
<1>1. Sound /\ LoopTyped /\ ClientTyped /\ Accounted
  BY IInvParts
<1>2. ClearSlot \in Slot /\ SlotShape(ClearSlot) /\ Held(ClearSlot) = <<>> /\ ~ClearSlot.has
  BY ClearSlotHeld
<1>3. \A b \in Slaves : slot'[b] = ClearSlot /\ done'[b] = done[b] \o Held(slot[b])
  BY DEF AttachRoster
<1>4. \A b \in Slaves : done[b] \in HandleSeq /\ Held(slot[b]) \in HandleSeq
  BY <1>1, HeldType DEF Sound, Typed, Shaped, SlotShape
<1>5. \A b \in Slaves : done'[b] \in HandleSeq /\ done'[b] \o <<>> = done'[b]
  <2> SUFFICES ASSUME NEW b \in Slaves
               PROVE  done'[b] \in HandleSeq /\ done'[b] \o <<>> = done'[b]
    OBVIOUS
  <2>1. \A d, h \in HandleSeq : d \o h \in HandleSeq
    BY DEF HandleSeq
  <2>2. \A d \in HandleSeq : d \o <<>> = d
    BY DEF HandleSeq
  <2>3. QED
    BY <1>3, <1>4, <2>1, <2>2
<1>6. LedgerKept
  BY <1>2, <1>3, <1>5 DEF LedgerKept
<1>7. Typed'
  BY <1>1, <1>2, <1>5 DEF AttachRoster, Sound, Typed
<1>8. Shaped' /\ ReplyIsOwn'
  BY <1>2, <1>3 DEF Shaped, ReplyIsOwn, Awaits
<1>9. LoopTyped'
  BY <1>1, TrackerAssumption DEF AttachRoster, LoopTyped
<1>10. QED
  BY <1>6, <1>7, <1>8, <1>9, KeptStep DEF AttachRoster, Sound

\* An untracked request awaits no slot, and may find the link gone.
LEMMA SendOtherStep == ASSUME IInv, SendOther PROVE IInv'
<1>1. Sound /\ LoopTyped /\ ClientTyped /\ Accounted
  BY IInvParts
<1>2. lag \in 0..MaxLag
  BY <1>1 DEF LoopTyped
<1>3. PICK r \in 1..RidMax :
        \/ pend' = pend \cup {Entry(Other, r, 0)} /\ UNCHANGED <<link, slot, done>>
        \/ LinkLost /\ pend' = {Entry(Other, r, 0)}
  BY DEF SendOther
<1> DEFINE e == Entry(Other, r, 0)
<1>4. e \in Pending /\ e.owner = Other
  BY ZeroInRange, RidRange DEF Entry, Pending, Owner
<1>5. \A b \in Slaves : e.owner # b
  BY <1>4, TrackerAssumption
<1>6. LoopTyped' /\ UNCHANGED client
  BY <1>1 DEF SendOther, LoopTyped, loop, client
<1>7. CASE pend' = pend \cup {e} /\ UNCHANGED <<link, slot, done>>
  <2>1. Typed' /\ Shaped' /\ LedgerKept
    BY <1>1, <1>4, <1>7 DEF Sound, Typed, Shaped, LedgerKept
  <2>2. ReplyIsOwn'
    BY <1>1, <1>5, <1>7 DEF Sound, ReplyIsOwn, Awaits
  <2>3. QED
    BY <1>6, <2>1, <2>2, KeptStep DEF Sound
<1>8. CASE LinkLost /\ pend' = {e}
  <2>1. /\ link' = "down" /\ slot' \in [Slaves -> Slot] /\ done' \in [Slaves -> HandleSeq]
        /\ Shaped' /\ LedgerKept
    BY <1>1, <1>2, <1>8, LinkLostStep DEF LedgerKept
  <2>2. ReplyIsOwn' /\ Typed'
    BY <1>4, <1>5, <1>8, <2>1 DEF ReplyIsOwn, Awaits, Typed
  <2>3. QED
    BY <1>6, <2>1, <2>2, KeptStep DEF Sound
<1>9. QED
  BY <1>3, <1>7, <1>8

\* Time changes ages only.
LEMMA TickStep == ASSUME IInv, Tick PROVE IInv'
<1>1. Sound /\ LoopTyped /\ ClientTyped /\ Accounted
  BY IInvParts
<1>2. \A n \in Age : Older(n) \in Age
  BY TrackerAssumption DEF Older, Age
<1>3. /\ lag < MaxLag /\ lag' = lag + 1
      /\ pend' = {[p EXCEPT !.age = Older(@)] : p \in pend}
      /\ UNCHANGED <<link, pc, todo, inUse, client, done>>
  BY DEF Tick
<1>4. \A b \in Slaves :
        slot'[b] = [slot[b] EXCEPT !.sentAge = IF slot[b].state = "SENT" THEN Older(@) ELSE @,
                                   !.ackAge = IF slot[b].state = "INFLIGHT" THEN Older(@) ELSE @]
  BY DEF Tick
<1>5. \A b \in Slaves :
        /\ slot'[b] \in Slot /\ slot'[b].state = slot[b].state /\ slot'[b].has = slot[b].has
        /\ slot'[b].cur = slot[b].cur /\ slot'[b].rid = slot[b].rid
        /\ slot'[b].queue = slot[b].queue
  <2> SUFFICES ASSUME NEW b \in Slaves
               PROVE  /\ slot'[b] \in Slot /\ slot'[b].state = slot[b].state
                      /\ slot'[b].has = slot[b].has
                      /\ slot'[b].cur = slot[b].cur /\ slot'[b].rid = slot[b].rid
                      /\ slot'[b].queue = slot[b].queue
    OBVIOUS
  <2>1. slot[b] \in Slot
    BY <1>1 DEF Sound, Typed
  <2>2. QED
    BY <1>2, <1>4, <2>1 DEF Slot
<1>6. \A q \in pend' : \E p \in pend :
        q \in Pending /\ q.owner = p.owner /\ q.rid = p.rid /\ q.h = p.h
  BY <1>1, <1>2, <1>3 DEF Sound, Typed, Pending
<1>7. Typed'
  <2>1. slot' \in [Slaves -> Slot]
    BY <1>5 DEF Tick
  <2>2. QED
    BY <1>1, <1>3, <1>6, <2>1 DEF Sound, Typed
<1>8. Shaped'
  BY <1>1, <1>5 DEF Sound, Shaped, SlotShape
<1>9. ReplyIsOwn'
  BY <1>1, <1>5, <1>6 DEF Sound, ReplyIsOwn, Awaits
<1>10. LedgerKept
  BY <1>3, <1>5 DEF LedgerKept, Held
<1>11. LoopTyped'
  BY <1>1, <1>3, TrackerAssumption DEF LoopTyped
<1>12. QED
  BY <1>3, <1>7, <1>8, <1>9, <1>10, <1>11, KeptStep DEF Sound

\* Steps that move the thread and perhaps the link, and touch no slot and no entry.
LEMMA IdleStep ==
  ASSUME IInv, link' \in {"up", "down"}, UNCHANGED <<pend, slot, client, done>>, LoopTyped'
  PROVE  IInv'
  BY DEF IInv, Typed, Shaped, ReplyIsOwn, Accounted, Awaits, ClientTyped, client

\* The calls on one slot that controller_poll makes while the thread stays where it is.
LEMMA MovedStep ==
  ASSUME IInv, NEW a \in Slaves, Sound', Moves(a, done[a] \o Held(slot[a]), done),
         LoopTyped', UNCHANGED client
  PROVE  IInv'
  BY KeptStep DEF Moves, LedgerKept

\* An ACK moves a slot from SENT to INFLIGHT and keeps its command.
LEMMA AckStep == ASSUME IInv, NEW a \in Slaves, Ack(a) PROVE IInv'
<1>1. Sound /\ LoopTyped /\ ClientTyped /\ Accounted
  BY IInvParts
<1>2. slot[a] \in Slot /\ SlotShape(slot[a]) /\ lag \in Age
  BY <1>1, LagIsAge DEF Sound, Typed, Shaped, LoopTyped
<1> DEFINE n == [slot[a] EXCEPT !.state = "INFLIGHT", !.ackAge = lag, !.sentAge = 0, !.retries = 0]
<1>3. /\ n \in Slot /\ n.state = "INFLIGHT" /\ n.has = slot[a].has /\ n.cur = slot[a].cur
      /\ n.rid = slot[a].rid /\ n.queue = slot[a].queue
  BY <1>2, ZeroInRange DEF Slot, SlotState
<1>4. slot' = [slot EXCEPT ![a] = n] /\ UNCHANGED <<link, loop, pend, client, done>>
  BY <1>1 DEF Ack, Sound, Typed
<1>5. SlotShape(n) /\ Held(n) = Held(slot[a])
  <2> HIDE DEF n
  <2>1. QED
    BY <1>2, <1>3 DEF SlotShape, Held
<1>6. \A b \in Slaves : slot'[b] = IF b = a THEN n ELSE slot[b]
  BY <1>1, <1>4 DEF Sound, Typed
<1> HIDE DEF n
<1>7. Typed' /\ Shaped' /\ LedgerKept
  BY <1>1, <1>3, <1>4, <1>5, <1>6 DEF Sound, Typed, Shaped, LedgerKept
<1>8. ReplyIsOwn'
  BY <1>1, <1>3, <1>4, <1>6 DEF Sound, ReplyIsOwn, Awaits
<1>9. QED
  BY <1>1, <1>4, <1>7, <1>8, KeptStep DEF Sound, LoopTyped, loop

\* A NAK keeps the invariant, whether it resends or gives up.
LEMMA NakStep == ASSUME IInv, NEW a \in Slaves, Nak(a) PROVE IInv'
<1>1. Sound /\ LoopTyped
  BY IInvParts
<1>2. Sound' /\ Moves(a, done[a] \o Held(slot[a]), done)
  BY <1>1, ResendOrFailStep DEF Nak, LoopTyped
<1>3. QED
  BY <1>1, <1>2, MovedStep DEF Nak, LoopTyped, loop

\* on_flagged and on_interlock_msg change the gate, and may start a queued command.
LEMMA FlaggedStep ==
  ASSUME IInv, NEW a \in Slaves, NEW tripped \in BOOLEAN, Flagged(a, tripped)
  PROVE  IInv'
<1>1. Sound /\ LoopTyped
  BY IInvParts
<1>2. slot[a] \in Slot /\ SlotShape(slot[a]) /\ done \in [Slaves -> HandleSeq]
      /\ pend \subseteq Pending
  BY <1>1 DEF Sound, Typed, Shaped
<1>3. PICK f \in BOOLEAN :
        \/ Pump(a, [slot[a] EXCEPT !.faulted = f], pend, done)
        \/ Update(a, [slot[a] EXCEPT !.faulted = f], pend, done)
  BY DEF Flagged
<1> DEFINE n == [slot[a] EXCEPT !.faulted = f]
<1>4. /\ n \in Slot /\ n.state = slot[a].state /\ n.has = slot[a].has /\ n.cur = slot[a].cur
      /\ n.rid = slot[a].rid /\ n.queue = slot[a].queue
  BY <1>2 DEF Slot
<1>5. SlotShape(n) /\ OwnIn(pend, a, n) /\ \A b \in Slaves \ {a} : OwnIn(pend, b, slot[b])
  BY <1>1, <1>2, <1>4 DEF SlotShape, OwnIn, Awaits, Sound, ReplyIsOwn
<1>6. Held(n) = Held(slot[a])
  <2> HIDE DEF n
  <2>1. QED
    BY <1>4 DEF Held
<1>7. Sound' /\ Moves(a, done[a] \o Held(n), done)
  BY <1>1, <1>2, <1>3, <1>4, <1>5, PumpStep, UpdateStep DEF LoopTyped
<1>8. QED
  BY <1>1, <1>6, <1>7, MovedStep DEF Flagged, LoopTyped, loop

\* A reply or an expired request keeps the invariant.
LEMMA ResolvedStep ==
  ASSUME IInv, NEW p \in pend, Resolve(p), UNCHANGED <<loop, client>>
  PROVE  IInv'
<1>1. Sound /\ LoopTyped
  BY IInvParts
<1>2. Sound' /\ LedgerKept
  BY <1>1, ResolveStep DEF LoopTyped, LedgerKept
<1>3. QED
  BY <1>1, <1>2, KeptStep DEF LoopTyped, loop

\* A link that is found gone while frames are read keeps the invariant.
LEMMA HangUpStep == ASSUME IInv, HangUp PROVE IInv'
<1>1. Sound /\ LoopTyped
  BY IInvParts
<1>2. /\ link' = "down" /\ slot' \in [Slaves -> Slot] /\ done' \in [Slaves -> HandleSeq]
      /\ Shaped' /\ LedgerKept
  BY <1>1, LinkLostStep DEF HangUp, LoopTyped, LedgerKept
<1>3. Typed' /\ ReplyIsOwn'
  BY <1>2 DEF HangUp, Typed, ReplyIsOwn
<1>4. LoopTyped'
  BY <1>1 DEF HangUp, Goto, LoopTyped
<1>5. QED
  BY <1>2, <1>3, <1>4, KeptStep DEF HangUp, Sound

\* cmd_tracker_poll's visit of one slot: ACK timeout, deadline or pump.
LEMMA PollSlotStep == ASSUME IInv, NEW a \in Slaves, PollSlot(a) PROVE IInv'
<1>1. Sound /\ LoopTyped
  BY IInvParts
<1>2. slot[a] \in Slot /\ SlotShape(slot[a]) /\ done \in [Slaves -> HandleSeq]
      /\ pend \subseteq Pending /\ \A b \in Slaves : OwnIn(pend, b, slot[b])
  BY <1>1 DEF Sound, Typed, Shaped, ReplyIsOwn, OwnIn
<1>3. LoopTyped' /\ UNCHANGED client
  BY <1>1 DEF PollSlot, LoopTyped
<1>4. CASE AckLate(slot[a]) /\ ResendOrFail(a)
  <2>1. Sound' /\ Moves(a, done[a] \o Held(slot[a]), done)
    BY <1>1, <1>4, ResendOrFailStep DEF AckLate, LoopTyped
  <2>2. QED
    BY <1>3, <2>1, MovedStep
<1>5. CASE Finish(a, pend)
  BY <1>1, <1>3, <1>5, FinishStep, MovedStep DEF LoopTyped
<1>6. CASE Pump(a, slot[a], pend, done)
  BY <1>1, <1>2, <1>3, <1>6, PumpStep, MovedStep DEF LoopTyped
<1>7. CASE UNCHANGED <<link, pend, slot, done>>
  BY <1>1, <1>3, <1>7, IdleStep DEF Sound, Typed
<1>8. QED
  BY <1>4, <1>5, <1>6, <1>7 DEF PollSlot

\* Every step of the tracker, and every stutter, keeps the inductive invariant.
LEMMA NextStep == IInv /\ [Next]_vars => IInv'
<1> SUFFICES ASSUME IInv, [Next]_vars PROVE IInv'
  OBVIOUS
<1>1. Sound /\ LoopTyped
  BY IInvParts
<1>2. CASE ClientNext
  <2>1. ASSUME NEW a \in Slaves, Submit(a) PROVE IInv'
    BY <2>1, SubmitStep
  <2>2. ASSUME NEW R \in Rosters, AttachRoster(R) PROVE IInv'
    BY <2>2, AttachRosterStep
  <2>3. CASE PollBegin
    BY <1>1, <2>3, IdleStep DEF PollBegin, Goto, LoopTyped, Sound, Typed
  <2>4. QED
    BY <1>2, <2>1, <2>2, <2>3, SendOtherStep, TickStep DEF ClientNext
<1>3. CASE FrameNext
  <2>1. ASSUME NEW p \in pend, Reply(p) PROVE IInv'
    BY <2>1, ResolvedStep DEF Reply
  <2>2. QED
    BY <1>3, <2>1, AckStep, NakStep, FlaggedStep DEF FrameNext
<1>4. CASE PollNext
  <2>1. CASE Reopen
    BY <1>1, <2>1, IdleStep DEF Reopen, Goto, LoopTyped
  <2>2. CASE RxDone
    BY <1>1, <2>2, IdleStep DEF RxDone, Goto, LoopTyped, Sound, Typed
  <2>3. CASE SweepDone
    BY <1>1, <2>3, TrackerAssumption, IdleStep DEF SweepDone, LoopTyped, Sound, Typed
  <2>4. ASSUME NEW p \in pend, Expire(p) PROVE IInv'
    BY <2>4, ResolvedStep DEF Expire
  <2>5. QED
    BY <1>4, <2>1, <2>2, <2>3, <2>4, HangUpStep, PollSlotStep DEF PollNext
<1>5. CASE UNCHANGED vars
  BY <1>5 DEF vars, IInv, Typed, LoopTyped, ClientTyped, Shaped, ReplyIsOwn, Accounted, Awaits
<1>6. QED
  BY <1>2, <1>3, <1>4, <1>5 DEF Next

-----------------------------------------------------------------------------
\* The inductive invariant holds in every reachable state.
LEMMA IInvAlways == Spec => []IInv
<1>1. Init => IInv
  BY InitStep
<1>2. IInv /\ [Next]_vars => IInv'
  BY NextStep
<1>3. QED
  BY <1>1, <1>2, PTL DEF Spec

\* A step transmits one command at most.
SentStep == sent' = sent \/ \E h : sent' = Transmitted(h)

LEMMA PumpSent ==
  ASSUME NEW a, NEW s, NEW T, NEW D, Pump(a, s, T, D)
  PROVE  SentStep
<1>1. ASSUME NEW k, NEW c, Send(a, k, c, T, D) PROVE SentStep
  BY <1>1 DEF Send, SendRefused, SendStaged, SendWrapped, SendDropped, SentStep
<1>2. QED
  BY <1>1 DEF Pump, SentStep

LEMMA ResendSent == ASSUME NEW a, ResendOrFail(a) PROVE SentStep
<1>1. ASSUME NEW k, NEW c, Send(a, k, c, pend, done) PROVE SentStep
  BY <1>1 DEF Send, SendRefused, SendStaged, SendWrapped, SendDropped, SentStep
<1>2. QED
  BY <1>1, PumpSent DEF ResendOrFail, Finish

LEMMA SentSteps == ASSUME [Next]_vars PROVE SentStep
<1>1. ASSUME NEW p \in pend, Reply(p) \/ Expire(p) PROVE SentStep
  <2>1. Resolve(p)
    BY <1>1 DEF Reply, Expire
  <2>2. QED
    BY <2>1, PumpSent DEF Resolve, Finish, SentStep
<1>2. ASSUME NEW a \in Slaves, Nak(a) PROVE SentStep
  BY <1>2, ResendSent DEF Nak
<1>3. ASSUME NEW a \in Slaves, NEW f, Flagged(a, f) PROVE SentStep
  BY <1>3, PumpSent DEF Flagged, SentStep
<1>4. ASSUME NEW a \in Slaves, PollSlot(a) PROVE SentStep
  BY <1>4, PumpSent, ResendSent DEF PollSlot, Finish, SentStep
<1>5. ASSUME NEW a \in Slaves, Submit(a) PROVE SentStep
  BY <1>5, PumpSent DEF Submit
<1>6. CASE ClientNext
  BY <1>5, <1>6 DEF ClientNext, AttachRoster, SendOther, Tick, PollBegin, SentStep
<1>7. CASE FrameNext
  BY <1>1, <1>2, <1>3, <1>7 DEF FrameNext, Ack, SentStep
<1>8. CASE PollNext
  BY <1>1, <1>4, <1>8 DEF PollNext, Reopen, RxDone, SweepDone, HangUp, SentStep
<1>9. QED
  BY <1>6, <1>7, <1>8 DEF Next, vars, SentStep

\* Every variable of tracker and demultiplexer keeps its type, whatever the
\* slaves, the link and the client do (cmd_tracker.c, demux.c).
THEOREM TypeCorrect == Spec => []TypeOK
<1> DEFINE S == sent \in [Handles -> 0..SentMax]
<1>1. Init => S
  BY TrackerAssumption DEF Init
<1>2. S /\ [Next]_vars => S'
  BY SentSteps, TrackerAssumption DEF SentStep, Transmitted
<1>3. IInv /\ S => TypeOK
  BY DEF IInv, Typed, LoopTyped, ClientTyped, TypeOK
<1>4. QED
  BY <1>1, <1>2, <1>3, IInvAlways, PTL DEF Spec

\* No accepted command is lost, completed twice or overtaken by a later one of
\* the same slave, across resends, timeouts, refusals, lost links, wrapped
\* request ids and new rosters (complete_inflight and pump_slot).
THEOREM AccountedAlways == Spec => []Accounted
<1>1. IInv => Accounted
  BY DEF IInv
<1>2. QED
  BY <1>1, IInvAlways, PTL

\* A late reply to an earlier transmission never completes a later command: the
\* stale guard of on_tracker_reply is strong enough for any number of resends.
THEOREM ReplyIsOwnAlways == Spec => []ReplyIsOwn
<1>1. IInv => ReplyIsOwn
  BY DEF IInv
<1>2. QED
  BY <1>1, IInvAlways, PTL
=============================================================================
