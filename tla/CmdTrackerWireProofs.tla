------------------------- MODULE CmdTrackerWireProofs -------------------------
(***************************************************************************)
(* Proofs about what CmdTracker puts on the wire, for every roster, queue  *)
(* depth, table size, timeout and retry budget: a queued command has not   *)
(* been transmitted, a command in flight is transmitted 1 + MaxRetries     *)
(* times at most, and a completed one never again.                         *)
(*                                                                         *)
(* All three are false of a send that transmits and reports failure (the   *)
(* request id 0xFFFF) and of a resend under which the link drops, which    *)
(* re-arms a slot whose command has been completed: the theorems assume    *)
(* that neither happens.  A first send may find the staging ring full or   *)
(* take the link down.                                                     *)
(***************************************************************************)
EXTENDS CmdTrackerServiceProofs

\* Neither of the two outcomes of a send after which a slot is out of step with the wire.
Faithful == Mishaps \cap {"ridwrap", "resenddrop"} = {}

\* The members of a sequence, and that none occurs twice.
Elems(q) == {q[i] : i \in DOMAIN q}
Distinct(q) == \A i, j \in DOMAIN q : q[i] = q[j] => i = j

\* The transmissions of the handle h that the table T still waits for.
Sendings(T, h) == {p \in T : p.h = h}

\* Handles are given out once, in increasing order.
Unique ==
  \A a \in Slaves :
    /\ Distinct(accepted[a])
    /\ \A h \in Elems(accepted[a]) : h < nextHandle
    /\ \A b \in Slaves \ {a} : Elems(accepted[a]) \cap Elems(accepted[b]) = {}

\* The table T and the transmissions S so far: of handles below n, none sent too often.
WireOf(T, S, n) ==
  /\ \A p \in T : p.h < n
  /\ S \in [Handles -> Nat]
  /\ \A h \in Handles : S[h] <= MaxRetries + 1 /\ (h < n \/ S[h] = 0)

\* A slot that reads s, against T and S: a busy slot has its command, the queue
\* has never been transmitted, and the retries pay for what a SENT command was.
Row(T, S, s) ==
  /\ s.state # "IDLE" => s.has
  /\ \A h \in Elems(s.queue) : Sendings(T, h) = {} /\ S[h] = 0
  /\ s.state = "SENT" => S[s.cur] <= s.retries + 1

\* The inductive invariant of the wire.
WInv == /\ IInv /\ Unique
        /\ WireOf(pend, sent, nextHandle)
        /\ \A b \in Slaves : Row(pend, sent, slot[b])

-----------------------------------------------------------------------------
(***************************************************************************)
(* Members of sequences.                                                   *)
(***************************************************************************)
LEMMA TailElems ==
  ASSUME NEW q \in HandleSeq, q # <<>>
  PROVE  /\ Head(q) \in Elems(q)
         /\ Elems(Tail(q)) \subseteq Elems(q)
         /\ Distinct(q) => Head(q) \notin Elems(Tail(q))
<1>1. /\ Tail(q) \in Seq(Handles) /\ Len(Tail(q)) = Len(q) - 1 /\ Len(q) \in Nat /\ Len(q) > 0
      /\ DOMAIN q = 1..Len(q) /\ DOMAIN Tail(q) = 1..(Len(q) - 1) /\ Head(q) = q[1]
  BY DEF HandleSeq
<1>2. \A i \in 1..(Len(q) - 1) : Tail(q)[i] = q[i + 1]
  BY HeadTailProperties, <1>1 DEF HandleSeq
<1>3. \A i \in DOMAIN Tail(q) : i + 1 \in DOMAIN q /\ Tail(q)[i] = q[i + 1] /\ i + 1 # 1
  BY <1>1, <1>2
<1>4. 1 \in DOMAIN q
  BY <1>1
<1> QED BY <1>1, <1>3, <1>4 DEF Elems, Distinct

LEMMA ConcatElems ==
  ASSUME NEW d \in HandleSeq, NEW w \in HandleSeq
  PROVE  /\ Elems(d \o w) = Elems(d) \cup Elems(w)
         /\ Distinct(d \o w) => /\ Elems(d) \cap Elems(w) = {}
                                /\ Distinct(w)
         /\ Distinct(d) /\ Distinct(w) /\ Elems(d) \cap Elems(w) = {} => Distinct(d \o w)
<1> DEFINE c == d \o w
           m == Len(d)
           n == Len(w)
<1>1. d \in Seq(Handles) /\ w \in Seq(Handles)
  BY DEF HandleSeq
<1>2. /\ m \in Nat /\ n \in Nat
      /\ DOMAIN d = 1..m /\ DOMAIN w = 1..n /\ DOMAIN c = 1..(m + n)
      /\ \A i \in 1..(m + n) : c[i] = IF i <= m THEN d[i] ELSE w[i - m]
  BY <1>1, ConcatProperties, LenProperties
<1>3. \A i \in DOMAIN d : i \in DOMAIN c /\ c[i] = d[i]
  BY <1>2
<1>4. \A i \in DOMAIN w : m + i \in DOMAIN c /\ c[m + i] = w[i]
  BY <1>2
<1>5. \A i \in DOMAIN c : i \in DOMAIN d \/ (i - m \in DOMAIN w /\ c[i] = w[i - m])
  BY <1>2
<1>6. \A i \in DOMAIN d, j \in DOMAIN w : i # m + j
  BY <1>2
<1>7. \A i, j \in DOMAIN w : m + i = m + j => i = j
  BY <1>2
<1>8. \A i, j \in DOMAIN c : i - m = j - m => i = j
  BY <1>2
<1> HIDE DEF c, m, n
<1>9. Elems(c) = Elems(d) \cup Elems(w)
  <2>1. Elems(c) \subseteq Elems(d) \cup Elems(w)
    BY <1>3, <1>5 DEF Elems
  <2>2. Elems(d) \subseteq Elems(c)
    BY <1>3 DEF Elems
  <2>3. Elems(w) \subseteq Elems(c)
    BY <1>4 DEF Elems
  <2> QED BY <2>1, <2>2, <2>3
<1>10. ASSUME Distinct(c) PROVE Elems(d) \cap Elems(w) = {} /\ Distinct(w)
  <2>1. \A i \in DOMAIN d, j \in DOMAIN w : d[i] # w[j]
    BY <1>3, <1>4, <1>6, <1>10 DEF Distinct
  <2>2. \A i, j \in DOMAIN w : w[i] = w[j] => m + i = m + j
    BY <1>4, <1>10 DEF Distinct
  <2> QED BY <1>7, <2>1, <2>2 DEF Elems, Distinct
<1>11. ASSUME Distinct(d), Distinct(w), Elems(d) \cap Elems(w) = {} PROVE Distinct(c)
  <2>1. \A i \in DOMAIN d, j \in DOMAIN w : d[i] # w[j]
    BY <1>11 DEF Elems
  <2> SUFFICES ASSUME NEW i \in DOMAIN c, NEW j \in DOMAIN c, c[i] = c[j] PROVE i = j
    BY DEF Distinct
  <2>2. CASE i \in DOMAIN d /\ j \in DOMAIN d
    BY <1>3, <1>11, <2>2 DEF Distinct
  <2>3. CASE i \in DOMAIN d /\ j \notin DOMAIN d
    BY <1>3, <1>5, <2>1, <2>3
  <2>4. CASE i \notin DOMAIN d /\ j \in DOMAIN d
    BY <1>3, <1>5, <2>1, <2>4
  <2>5. CASE i \notin DOMAIN d /\ j \notin DOMAIN d
    BY <1>5, <1>8, <1>11, <2>5 DEF Distinct
  <2> QED BY <2>2, <2>3, <2>4, <2>5
<1> QED BY <1>9, <1>10, <1>11 DEF c

\* A queue holds handles.
LEMMA QueueHandles ==
  ASSUME NEW s \in Slot
  PROVE  Elems(s.queue) \subseteq Handles
BY ElementOfSeq, LenProperties DEF Slot, HandleSeq, Elems

LEMMA OneElem ==
  ASSUME NEW h \in Handles
  PROVE  <<h>> \in HandleSeq /\ Elems(<<h>>) = {h} /\ Distinct(<<h>>)
<1>1. <<h>> \in Seq(Handles) /\ DOMAIN <<h>> = {1} /\ <<h>>[1] = h
  OBVIOUS
<1> QED BY <1>1 DEF HandleSeq, Elems, Distinct

LEMMA AppendElems ==
  ASSUME NEW q \in HandleSeq, NEW h \in Handles
  PROVE  /\ Elems(Append(q, h)) = Elems(q) \cup {h}
         /\ Distinct(q) /\ h \notin Elems(q) => Distinct(Append(q, h))
<1>1. Append(q, h) = q \o <<h>>
  BY AppendIsConcat DEF HandleSeq
<1> QED BY <1>1, OneElem, ConcatElems

\* What a slot holds: the command in flight and the queue, apart when no handle repeats.
LEMMA HeldElems ==
  ASSUME NEW s \in Slot, s.has => s.cur # 0
  PROVE  /\ Elems(Held(s)) = Elems(s.queue) \cup (IF s.has THEN {s.cur} ELSE {})
         /\ Distinct(Held(s)) => Distinct(s.queue)
         /\ Distinct(Held(s)) /\ s.has => s.cur \notin Elems(s.queue)
<1>1. s.queue \in HandleSeq /\ s.has \in BOOLEAN
  BY DEF Slot
<1>2. CASE s.has
  <2>1. s.cur \in Handles /\ Held(s) = <<s.cur>> \o s.queue
    BY <1>2, HeldType
  <2> DEFINE o == <<s.cur>>
             q == s.queue
  <2>2. o \in HandleSeq /\ Elems(o) = {s.cur}
    BY <2>1, OneElem
  <2> HIDE DEF o, q
  <2>3. q \in HandleSeq
    BY <1>1 DEF q
  <2>4. /\ Elems(o \o q) = Elems(o) \cup Elems(q)
        /\ Distinct(o \o q) => Elems(o) \cap Elems(q) = {} /\ Distinct(q)
    BY <2>2, <2>3, ConcatElems
  <2> QED BY <1>2, <2>1, <2>2, <2>4 DEF o, q
<1>3. CASE ~s.has
  BY <1>3, HeldType
<1> QED BY <1>1, <1>2, <1>3

-----------------------------------------------------------------------------
(***************************************************************************)
(* The number of transmissions, and tables with entries gone.              *)
(***************************************************************************)
LEMMA TransmittedOnce ==
  ASSUME NEW c \in Handles, sent \in [Handles -> Nat]
  PROVE  /\ Transmitted(c) \in [Handles -> Nat]
         /\ Transmitted(c)[c] <= sent[c] + 1
         /\ \A h \in Handles : h # c => Transmitted(c)[h] = sent[h]
BY DEF Transmitted

\* A table with fewer entries is no worse.
LEMMA FewerWire ==
  ASSUME NEW T, NEW S, NEW n, WireOf(T, S, n), NEW U \in SUBSET T
  PROVE  WireOf(U, S, n) /\ \A s : Row(T, S, s) => Row(U, S, s)
BY DEF WireOf, Row, Sendings

-----------------------------------------------------------------------------
(***************************************************************************)
(* One send.                                                               *)
(***************************************************************************)

\* What stays queued once send_inflight has worked.
Rest(kind, s) == IF kind = "first" THEN Tail(s.queue) ELSE s.queue

\* The call of send_inflight for slot a, reading s, with the table at T, is one
\* that may transmit s.cur.  Handles below n have been given out.
Clear(a, kind, s, T, n) ==
  /\ WireOf(T, sent, n)
  /\ s.has /\ s.cur \in Handles /\ s.cur < n
  /\ kind = "resend" => s.state = "SENT"
  /\ sent[s.cur] <= s.retries
  /\ s.cur \notin Elems(Rest(kind, s)) /\ Elems(Rest(kind, s)) \subseteq Elems(s.queue)
  /\ \A h \in Elems(s.queue) : h \in Handles /\ Sendings(T, h) = {} /\ sent[h] = 0
  /\ \A b \in Slaves \ {a} : Row(T, sent, slot[b]) /\ s.cur \notin Elems(Held(slot[b]))

\* What the call leaves: a sound wire, and no new entry but a's, for a handle of H.
After(a, H, T, n) ==
  /\ WireOf(pend', sent', n)
  /\ \A b \in Slaves : Row(pend', sent', slot'[b])
  /\ \A p \in pend' \ T : p.owner = a /\ p.h \in H

\* The wire with a transmission and its entry added.
LEMMA AddedWire ==
  ASSUME NEW a \in Slaves, NEW kind \in Kinds, NEW s \in Slot, NEW T, NEW n,
         Clear(a, kind, s, T, n), NEW e, e.h = s.cur, NEW S, S = Transmitted(s.cur)
  PROVE  /\ WireOf(T \cup {e}, S, n)
         /\ S[s.cur] <= s.retries + 1
         /\ \A h : h # s.cur => Sendings(T \cup {e}, h) = Sendings(T, h)
         /\ \A h \in Handles : h # s.cur => S[h] = sent[h]
<1>1. s.retries \in 0..MaxRetries
  BY DEF Slot, Retries
<1>2. s.cur \in Handles /\ s.cur < n /\ sent \in [Handles -> Nat] /\ sent[s.cur] <= s.retries
  BY DEF Clear, WireOf
<1>3. /\ S \in [Handles -> Nat] /\ S[s.cur] <= sent[s.cur] + 1
      /\ \A h \in Handles : h # s.cur => S[h] = sent[h]
  BY <1>2, TransmittedOnce
<1>4. S[s.cur] <= s.retries + 1
  BY <1>1, <1>2, <1>3
<1>5. S[s.cur] <= MaxRetries + 1
  BY <1>1, <1>2, <1>3, <1>4, TrackerAssumption
<1>6. ASSUME NEW h \in Handles PROVE S[h] <= MaxRetries + 1 /\ (h < n \/ S[h] = 0)
  <2>1. CASE h = s.cur
    BY <1>2, <1>5, <2>1
  <2>2. CASE h # s.cur
    BY <1>3, <2>2 DEF Clear, WireOf
  <2> QED BY <2>1, <2>2
<1>7. \A p \in T \cup {e} : p.h < n
  BY <1>2 DEF Clear, WireOf
<1>8. \A h : h # s.cur => Sendings(T \cup {e}, h) = Sendings(T, h)
  BY DEF Sendings
<1> QED BY <1>3, <1>4, <1>6, <1>7, <1>8 DEF WireOf

\* A slot that holds other commands than the one transmitted.
LEMMA OthersRow ==
  ASSUME NEW a \in Slaves, NEW kind \in Kinds, NEW s \in Slot, NEW T, NEW n,
         Clear(a, kind, s, T, n), NEW e, e.h = s.cur, NEW S, S = Transmitted(s.cur),
         NEW b \in Slaves \ {a}, slot[b] \in Slot, SlotShape(slot[b])
  PROVE  Row(T \cup {e}, S, slot[b])
<1> DEFINE o == slot[b]
<1>1. Row(T, sent, o) /\ s.cur \notin Elems(Held(o))
  BY DEF Clear
<1>2. Elems(Held(o)) = Elems(o.queue) \cup (IF o.has THEN {o.cur} ELSE {})
  BY HeldElems DEF SlotShape
<1>3. /\ \A h : h # s.cur => Sendings(T \cup {e}, h) = Sendings(T, h)
      /\ \A h \in Handles : h # s.cur => S[h] = sent[h]
  BY AddedWire
<1>4. Elems(o.queue) \subseteq Handles /\ (o.has => o.cur \in Handles)
  BY QueueHandles, HeldType DEF SlotShape
<1> HIDE DEF o
<1>5. \A h \in Elems(o.queue) : h # s.cur
  BY <1>1, <1>2
<1>6. o.state = "SENT" => o.cur # s.cur /\ o.cur \in Handles
  BY <1>1, <1>2, <1>4 DEF Row
<1>7. Row(T \cup {e}, S, o)
  BY <1>1, <1>3, <1>4, <1>5, <1>6 DEF Row
<1> QED BY <1>7 DEF o

\* The sender's own slot, once the frame is staged.
LEMMA SenderRow ==
  ASSUME lag \in 0..MaxLag, NEW a \in Slaves, NEW kind \in Kinds, NEW s, Sendable(kind, s),
         NEW T, NEW n, Clear(a, kind, s, T, n), NEW e, e.h = s.cur, NEW r \in 1..RidMax,
         NEW S, S = Transmitted(s.cur), NEW U \in SUBSET (T \cup {e})
  PROVE  Row(U, S, Sent(kind, s, r))
<1> DEFINE x == Sent(kind, s, r)
<1>1. s \in Slot /\ (kind = "first" => s.queue # <<>>)
  BY DEF Sendable
<1>2. /\ x.state = "SENT" /\ x.has = s.has /\ x.cur = s.cur /\ x.queue = Rest(kind, s)
      /\ x.retries = s.retries
  BY <1>1, SentType DEF Rest, Sent, Slot
<1> HIDE DEF x
<1>3. S[s.cur] <= s.retries + 1 /\ \A h \in Handles : h # s.cur => S[h] = sent[h]
  <2>1. /\ s.cur \in Handles /\ sent \in [Handles -> Nat] /\ sent[s.cur] <= s.retries
        /\ s.retries \in 0..MaxRetries
    BY <1>1 DEF Clear, WireOf, Slot, Retries
  <2>2. /\ S \in [Handles -> Nat] /\ S[s.cur] <= sent[s.cur] + 1
        /\ \A h \in Handles : h # s.cur => S[h] = sent[h]
    BY <2>1, TransmittedOnce
  <2> QED BY <2>1, <2>2
<1>4. \A h : h # s.cur => Sendings(T \cup {e}, h) = Sendings(T, h)
  BY DEF Sendings
<1>5. \A h \in Elems(x.queue) : Sendings(U, h) = {} /\ S[h] = 0
  <2> SUFFICES ASSUME NEW h \in Elems(x.queue) PROVE Sendings(U, h) = {} /\ S[h] = 0
    OBVIOUS
  <2>1. h # s.cur /\ h \in Elems(s.queue)
    BY <1>2 DEF Clear
  <2>2. Sendings(T, h) = {} /\ sent[h] = 0 /\ h \in Handles
    BY <2>1 DEF Clear
  <2>3. Sendings(T \cup {e}, h) = {} /\ S[h] = 0
    BY <1>3, <1>4, <2>1, <2>2
  <2> QED BY <2>3 DEF Sendings
<1>6. Row(U, S, x)
  BY <1>2, <1>3, <1>5 DEF Row, Clear
<1> QED BY <1>6 DEF x

\* send_inflight, whatever becomes of the frame, other than the two excluded outcomes.
LEMMA SendWire ==
  ASSUME Faithful, Sound, lag \in 0..MaxLag, NEW a \in Slaves, NEW kind \in Kinds,
         NEW s, Sendable(kind, s), NEW T, T \subseteq pend, NEW n, Clear(a, kind, s, T, n),
         NEW D, Send(a, kind, s, T, D)
  PROVE  After(a, {s.cur}, T, n)
<1>1. /\ s \in Slot /\ slot \in [Slaves -> Slot] /\ T \subseteq Pending
      /\ \A b \in Slaves : slot[b] \in Slot /\ SlotShape(slot[b])
  BY DEF Sendable, Sound, Typed, Shaped
<1>2. CASE SendRefused(a, kind, s, T, D)
  <2> DEFINE x == NotSent(kind, s)
  <2>1. /\ x.queue = s.queue /\ x.state = s.state /\ x.cur = s.cur /\ x.retries = s.retries
        /\ kind = "resend" => x.has
    BY <1>1, NotSentType DEF NotSent, Slot, Clear, Kinds
  <2>2. s.retries \in Nat /\ sent[s.cur] \in Nat
    BY <1>1, TrackerAssumption DEF Slot, Retries, Clear, WireOf
  <2> HIDE DEF x
  <2>3. Row(T, sent, x)
    BY <2>1, <2>2 DEF Row, Clear, Sendable, Kinds
  <2>4. slot'[a] = x /\ pend' = T /\ sent' = sent /\ \A b \in Slaves \ {a} : slot'[b] = slot[b]
    BY <1>1, <1>2 DEF SendRefused, Update, x
  <2> QED BY <2>3, <2>4 DEF After, Clear
<1>3. CASE SendStaged(a, kind, s, T, D)
  <2>1. PICK r \in 1..RidMax : Update(a, Sent(kind, s, r), T \cup {Entry(a, r, s.cur)}, D)
    BY <1>3 DEF SendStaged
  <2> DEFINE e == Entry(a, r, s.cur)
  <2>2. e.owner = a /\ e.h = s.cur
    BY DEF Entry
  <2> HIDE DEF e
  <2>3. /\ slot'[a] = Sent(kind, s, r) /\ pend' = T \cup {e} /\ sent' = Transmitted(s.cur)
        /\ \A b \in Slaves \ {a} : slot'[b] = slot[b]
    BY <1>1, <1>3, <2>1 DEF SendStaged, Update, e
  <2>4. WireOf(T \cup {e}, sent', n)
    BY <1>1, <2>2, <2>3, AddedWire
  <2>5. Row(T \cup {e}, sent', Sent(kind, s, r))
    BY <2>2, <2>3, SenderRow
  <2>6. \A b \in Slaves \ {a} : Row(T \cup {e}, sent', slot[b])
    BY <1>1, <2>2, <2>3, OthersRow
  <2> QED BY <2>2, <2>3, <2>4, <2>5, <2>6 DEF After
<1>4. CASE SendDropped(a, kind, s, T, D)
  <2>1. kind = "first"
    BY <1>4 DEF SendDropped, Faithful, Kinds
  <2>2. PICK r \in 1..RidMax : /\ pend' = {Entry(a, r, s.cur)}
                               /\ slot' = [SlotsDropped(a, s, T) EXCEPT ![a] = Sent(kind, @, r)]
    BY <1>4 DEF SendDropped
  <2> DEFINE e == Entry(a, r, s.cur)
  <2>3. e.owner = a /\ e.h = s.cur
    BY DEF Entry
  <2> HIDE DEF e
  <2>4. pend' = {e} /\ sent' = Transmitted(s.cur)
    BY <1>4, <2>2 DEF SendDropped, e
  <2>5. ~SweptBy(T, s, a)
    <3>1. \A p \in T : p.rid # NoRid
      BY <1>1, TrackerAssumption DEF Pending, WireRid, NoRid
    <3> QED BY <2>1, <3>1 DEF Sendable, SweptBy, Awaits
  <2>6. slot'[a] = Sent(kind, s, r) /\ \A b \in Slaves \ {a} : slot'[b] = Dropped(T, slot[b], b)
    BY <1>1, <2>2, <2>5, DroppedType DEF SlotsDropped
  <2>7. WireOf(T \cup {e}, sent', n)
    BY <1>1, <2>3, <2>4, AddedWire
  <2>8. WireOf({e}, sent', n) /\ \A x : Row(T \cup {e}, sent', x) => Row({e}, sent', x)
    <3>1. {e} \in SUBSET (T \cup {e})
      OBVIOUS
    <3> QED BY <2>7, <3>1, FewerWire
  <2>9. Row({e}, sent', Sent(kind, s, r))
    BY <2>3, <2>4, SenderRow
  <2>10. ASSUME NEW b \in Slaves \ {a} PROVE Row({e}, sent', Dropped(T, slot[b], b))
    <3>1. Row({e}, sent', slot[b])
      BY <1>1, <2>3, <2>4, <2>8, OthersRow
    <3>2. /\ Dropped(T, slot[b], b).queue = slot[b].queue
          /\ \/ Dropped(T, slot[b], b) = slot[b]
             \/ Dropped(T, slot[b], b).state = "IDLE"
      BY <1>1, DroppedType
    <3> QED BY <3>1, <3>2 DEF Row
  <2> QED BY <2>3, <2>4, <2>6, <2>8, <2>9, <2>10 DEF After
<1> QED BY <1>2, <1>3, <1>4 DEF Send, SendWrapped, Faithful

-----------------------------------------------------------------------------
(***************************************************************************)
(* The calls that send.                                                    *)
(***************************************************************************)

\* Slot a, reading s, is called with the table at T.
Calm(a, s, T, n) ==
  /\ WireOf(T, sent, n) /\ Row(T, sent, s)
  /\ Distinct(Held(s))
  /\ \A h \in Elems(Held(s)) : h < n
  /\ \A b \in Slaves \ {a} : Row(T, sent, slot[b]) /\ Elems(Held(s)) \cap Elems(Held(slot[b])) = {}

\* pump_slot, called with the slot already rewritten to s.
LEMMA PumpWire ==
  ASSUME Faithful, Sound, lag \in 0..MaxLag, NEW a \in Slaves, NEW s \in Slot, SlotShape(s),
         NEW T, T \subseteq pend, NEW n, Calm(a, s, T, n), NEW D, Pump(a, s, T, D)
  PROVE  After(a, Elems(Held(s)), T, n)
<1>0. slot \in [Slaves -> Slot] /\ T \subseteq Pending
  BY DEF Sound, Typed
<1>1. CASE WillPump(s) /\ Send(a, "first", Loaded(s), T, D)
  <2> DEFINE l == Loaded(s)
  <2>1. /\ l \in Slot /\ l.queue = s.queue /\ l.state = "IDLE" /\ l.rid = s.rid
        /\ l.has /\ l.cur = Head(s.queue) /\ l.cur # 0 /\ l.retries = 0
    BY <1>1, LoadedType, ZeroInRange DEF Loaded, Slot
  <2>2. s.rid = NoRid /\ s.queue # <<>> /\ ~s.has /\ s.queue \in HandleSeq
    BY <1>1 DEF SlotShape, WillPump, Slot
  <2>3. Sendable("first", l)
    BY <2>1, <2>2 DEF Sendable
  <2>4. Held(s) = s.queue
    BY <2>2, HeldType
  <2>5. /\ Head(s.queue) \in Elems(s.queue) /\ Head(s.queue) \in Handles
        /\ Elems(Tail(s.queue)) \subseteq Elems(s.queue)
        /\ Head(s.queue) \notin Elems(Tail(s.queue))
    BY <2>2, <2>4, TailElems, FrontOfQueue DEF Calm
  <2> HIDE DEF l
  <2>6. sent[l.cur] = 0
    BY <2>1, <2>5 DEF Calm, Row
  <2>7. Clear(a, "first", l, T, n)
    <3>1. WireOf(T, sent, n) /\ l.has /\ l.cur \in Handles /\ l.cur < n /\ sent[l.cur] <= l.retries
      BY <2>1, <2>4, <2>5, <2>6 DEF Calm
    <3>2. /\ l.cur \notin Elems(Rest("first", l)) /\ Elems(Rest("first", l)) \subseteq Elems(l.queue)
          /\ \A h \in Elems(l.queue) : h \in Handles /\ Sendings(T, h) = {} /\ sent[h] = 0
      BY <2>1, <2>5, QueueHandles DEF Rest, Calm, Row
    <3>3. \A b \in Slaves \ {a} : Row(T, sent, slot[b]) /\ l.cur \notin Elems(Held(slot[b]))
      BY <2>1, <2>4, <2>5 DEF Calm
    <3> QED BY <3>1, <3>2, <3>3 DEF Clear
  <2>8. Send(a, "first", l, T, D)
    BY <1>1 DEF l
  <2>9. After(a, {l.cur}, T, n)
    BY <2>3, <2>7, <2>8, SendWire DEF Kinds
  <2>10. l.cur \in Elems(Held(s))
    BY <2>1, <2>4, <2>5
  <2> QED BY <2>9, <2>10 DEF After
<1>2. CASE Update(a, s, T, D) /\ UNCHANGED sent
  <2>1. slot'[a] = s /\ pend' = T /\ sent' = sent /\ \A b \in Slaves \ {a} : slot'[b] = slot[b]
    BY <1>0, <1>2 DEF Update
  <2> QED BY <2>1 DEF Calm, After
<1> QED BY <1>1, <1>2 DEF Pump

\* The command in flight is completed: the slot holds less than before.
LEMMA CompletedCalm ==
  ASSUME NEW a \in Slaves, NEW s \in Slot, s.has => s.cur # 0, NEW T, NEW n, Calm(a, s, T, n)
  PROVE  /\ Calm(a, Completed(s), T, n)
         /\ Elems(Held(Completed(s))) \subseteq Elems(Held(s))
<1> DEFINE c == Completed(s)
<1>1. c \in Slot /\ c.queue = s.queue /\ ~c.has /\ c.state = "IDLE"
  BY CompletedType
<1> HIDE DEF c
<1>2. Held(c) = s.queue
  BY <1>1, HeldType
<1>3. Elems(s.queue) \subseteq Elems(Held(s)) /\ Distinct(s.queue)
  BY HeldElems DEF Calm
<1>4. Row(T, sent, c)
  BY <1>1 DEF Calm, Row
<1>5. Calm(a, c, T, n)
  BY <1>2, <1>3, <1>4 DEF Calm
<1> QED BY <1>2, <1>3, <1>5 DEF c

\* complete_inflight then pump_slot.
LEMMA FinishWire ==
  ASSUME Faithful, Sound, lag \in 0..MaxLag, NEW a \in Slaves, NEW T, T \subseteq pend,
         NEW n, Calm(a, slot[a], T, n), Finish(a, T)
  PROVE  After(a, Elems(Held(slot[a])), T, n)
<1>1. slot[a] \in Slot /\ SlotShape(slot[a])
  BY DEF Sound, Typed, Shaped
<1>2. CASE slot[a].has /\ Pump(a, Completed(slot[a]), T,
                               [done EXCEPT ![a] = Append(@, slot[a].cur)])
  <2> DEFINE c == Completed(slot[a])
  <2>1. c \in Slot /\ SlotShape(c)
    BY <1>1, CompletedType DEF SlotShape
  <2>2. Calm(a, c, T, n) /\ Elems(Held(c)) \subseteq Elems(Held(slot[a]))
    BY <1>1, CompletedCalm DEF SlotShape
  <2>3. After(a, Elems(Held(c)), T, n)
    BY <1>2, <2>1, <2>2, PumpWire
  <2> QED BY <2>2, <2>3 DEF After
<1>3. CASE Pump(a, slot[a], T, done)
  BY <1>1, <1>3, PumpWire
<1> QED BY <1>2, <1>3 DEF Finish

\* A NAK or an ACK timeout of a SENT slot: the retry budget pays for the resend.
LEMMA ResendWire ==
  ASSUME Faithful, Sound, lag \in 0..MaxLag, NEW a \in Slaves, slot[a].state = "SENT",
         NEW n, Calm(a, slot[a], pend, n), ResendOrFail(a)
  PROVE  After(a, Elems(Held(slot[a])), pend, n)
<1>1. slot[a] \in Slot /\ SlotShape(slot[a])
  BY DEF Sound, Typed, Shaped
<1>2. CASE Finish(a, pend)
  BY <1>2, FinishWire
<1>3. CASE /\ slot[a].retries < MaxRetries
           /\ Send(a, "resend", [slot[a] EXCEPT !.retries = @ + 1], pend, done)
  <2> DEFINE o == slot[a]
             s == [slot[a] EXCEPT !.retries = @ + 1]
  <2>1. o.retries + 1 \in Retries
    <3>1. o.retries \in 0..MaxRetries /\ o.retries < MaxRetries
      BY <1>1, <1>3 DEF Slot, Retries
    <3>2. MaxRetries \in Nat
      BY TrackerAssumption
    <3> HIDE DEF o
    <3> QED BY <3>1, <3>2 DEF Retries
  <2>2. /\ s \in Slot /\ s.state = o.state /\ s.has = o.has /\ s.cur = o.cur
        /\ s.queue = o.queue /\ s.retries = o.retries + 1
    BY <1>1, <2>1 DEF Slot
  <2>3. Send(a, "resend", s, pend, done)
    BY <1>3
  <2>4. o \in Slot /\ o.state = "SENT" /\ SlotShape(o) /\ Calm(a, o, pend, n)
    BY <1>1
  <2>5. o.has /\ o.cur # 0 /\ Row(pend, sent, o)
    BY <2>4 DEF Calm, Row, SlotShape
  <2> HIDE DEF o, s
  <2>6. Sendable("resend", s)
    BY <2>2, <2>4, <2>5 DEF Sendable
  <2>7. o.cur \in Elems(Held(o)) /\ o.cur \notin Elems(o.queue) /\ o.cur \in Handles
    BY <2>4, <2>5, HeldElems, HeldType DEF Calm
  <2>8. Clear(a, "resend", s, pend, n)
    <3>1. WireOf(pend, sent, n) /\ s.has /\ s.cur \in Handles /\ s.cur < n /\ s.state = "SENT"
      BY <2>2, <2>4, <2>5, <2>7 DEF Calm
    <3>2. sent[s.cur] <= s.retries
      BY <2>2, <2>4, <2>5 DEF Row
    <3>3. /\ s.cur \notin Elems(Rest("resend", s))
          /\ Elems(Rest("resend", s)) \subseteq Elems(s.queue)
          /\ \A h \in Elems(s.queue) : h \in Handles /\ Sendings(pend, h) = {} /\ sent[h] = 0
      BY <2>2, <2>5, <2>7, QueueHandles DEF Rest, Row
    <3>4. \A b \in Slaves \ {a} : Row(pend, sent, slot[b]) /\ s.cur \notin Elems(Held(slot[b]))
      BY <2>2, <2>4, <2>7 DEF Calm
    <3> QED BY <3>1, <3>2, <3>3, <3>4 DEF Clear
  <2>9. After(a, {s.cur}, pend, n)
    BY <2>3, <2>6, <2>8, SendWire DEF Kinds
  <2> QED BY <2>2, <2>7, <2>9 DEF After, o
<1> QED BY <1>2, <1>3 DEF ResendOrFail

-----------------------------------------------------------------------------
(***************************************************************************)
(* The actions.                                                            *)
(***************************************************************************)

\* What a slave completed, what it holds, and what the others hold, are disjoint.
LEMMA Apart ==
  ASSUME WInv, NEW a \in Slaves
  PROVE  /\ Calm(a, slot[a], pend, nextHandle)
         /\ Elems(done[a]) \cap Elems(Held(slot[a])) = {}
         /\ Elems(done[a]) \subseteq Elems(accepted[a])
<1>1. \A b \in Slaves : /\ done[b] \in HandleSeq /\ Held(slot[b]) \in HandleSeq
                        /\ done[b] \o Held(slot[b]) = accepted[b]
  BY Books DEF WInv, Booked
<1>2. \A b \in Slaves : /\ Elems(accepted[b]) = Elems(done[b]) \cup Elems(Held(slot[b]))
                        /\ Distinct(accepted[b]) => /\ Elems(done[b]) \cap Elems(Held(slot[b])) = {}
                                                    /\ Distinct(Held(slot[b]))
  <2> SUFFICES ASSUME NEW b \in Slaves
               PROVE  /\ Elems(accepted[b]) = Elems(done[b]) \cup Elems(Held(slot[b]))
                      /\ Distinct(accepted[b]) => /\ Elems(done[b]) \cap Elems(Held(slot[b])) = {}
                                                  /\ Distinct(Held(slot[b]))
    OBVIOUS
  <2>1. PICK d \in HandleSeq : d = done[b]
    BY <1>1
  <2>2. PICK w \in HandleSeq : w = Held(slot[b])
    BY <1>1
  <2>3. /\ Elems(d \o w) = Elems(d) \cup Elems(w)
        /\ Distinct(d \o w) => Elems(d) \cap Elems(w) = {} /\ Distinct(w)
    BY ConcatElems
  <2>4. d \o w = accepted[b]
    BY <1>1, <2>1, <2>2
  <2> QED BY <2>1, <2>2, <2>3, <2>4
<1>3. Calm(a, slot[a], pend, nextHandle)
  BY <1>2 DEF WInv, Unique, Calm
<1> QED BY <1>2, <1>3 DEF WInv, Unique

\* A step after which the wire is sound, and that transmits nothing completed.
WireKept ==
  /\ WireOf(pend', sent', nextHandle') /\ \A b \in Slaves : Row(pend', sent', slot'[b])
  /\ \A p \in pend' \ pend : p.owner \in Slaves /\ p.age = 0 => p.h \notin Elems(done[p.owner])

LEMMA AfterKept ==
  ASSUME WInv, NEW a \in Slaves, NEW T, T \subseteq pend, After(a, Elems(Held(slot[a])), T, nextHandle),
         UNCHANGED client
  PROVE  WireKept
BY Apart DEF After, WireKept, client

\* A step that adds no entry of a slot, and rewrites no slot's command.
LEMMA StillWire ==
  ASSUME WInv, UNCHANGED <<pend, slot, client, sent>>
  PROVE  WireKept
BY DEF WInv, WireKept, client

LEMMA ResolveWire ==
  ASSUME Faithful, WInv, NEW p \in pend, Resolve(p), UNCHANGED client
  PROVE  WireKept
<1>1. /\ Sound /\ lag \in 0..MaxLag /\ \A b \in Slaves : slot[b] \in Slot
  BY IInvParts DEF WInv, LoopTyped, Sound, Typed
<1>2. pend \ {p} \in SUBSET pend
  OBVIOUS
<1>3. CASE \E a \in Slaves : Finish(a, pend \ {p})
  <2>1. PICK a \in Slaves : Finish(a, pend \ {p})
    BY <1>3
  <2>2. Calm(a, slot[a], pend, nextHandle)
    BY Apart
  <2>3. Calm(a, slot[a], pend \ {p}, nextHandle)
    <3>1. /\ WireOf(pend \ {p}, sent, nextHandle)
          /\ \A b \in Slaves : Row(pend, sent, slot[b]) => Row(pend \ {p}, sent, slot[b])
      BY <1>2, <2>2, FewerWire DEF Calm
    <3> QED BY <2>2, <3>1 DEF Calm
  <2>4. After(a, Elems(Held(slot[a])), pend \ {p}, nextHandle)
    BY <1>1, <1>2, <2>1, <2>3, FinishWire
  <2> QED BY <1>2, <2>4, AfterKept
<1>4. CASE pend' = pend \ {p} /\ UNCHANGED <<slot, done, link, sent>>
  <2>1. WireOf(pend, sent, nextHandle) /\ \A b \in Slaves : Row(pend, sent, slot[b])
    BY DEF WInv
  <2>2. WireOf(pend', sent, nextHandle) /\ \A b \in Slaves : Row(pend', sent, slot[b])
    BY <1>2, <1>4, <2>1, FewerWire
  <2> QED BY <1>4, <2>2 DEF WireKept, client
<1> QED BY <1>3, <1>4 DEF Resolve

\* A link that drops outside a tracked send leaves an empty table, or one
\* untracked request in it.
LEMMA LinkLostWire ==
  ASSUME WInv, LinkLost, NEW U, U \subseteq {e \in Pending : e.owner = Other /\ e.h = 0},
         pend' = U, UNCHANGED <<client, sent>>
  PROVE  WireKept
<1>1. /\ Sound /\ nextHandle \in 1..(MaxHandle + 1) /\ WireOf(pend, sent, nextHandle)
      /\ lag \in 0..MaxLag
      /\ \A b \in Slaves : slot[b] \in Slot /\ Row(pend, sent, slot[b])
  BY IInvParts DEF WInv, ClientTyped, LoopTyped, Sound, Typed
<1>2. \A h \in Handles : Sendings(U, h) = {}
  BY TrackerAssumption DEF Sendings, Handles
<1>3. WireOf(U, sent, nextHandle)
  <2>1. \A p \in U : p.h < nextHandle
    BY <1>1
  <2> QED BY <1>1, <2>1 DEF WireOf
<1>4. ASSUME NEW b \in Slaves PROVE Row(U, sent, slot'[b])
  <2> DEFINE o == slot[b]
             x == Dropped(pend, o, b)
  <2>1. x.queue = o.queue /\ (x = o \/ x.state = "IDLE") /\ slot'[b] = x
    BY <1>1, DroppedType DEF LinkLost
  <2>2. Row(pend, sent, o) /\ Elems(o.queue) \subseteq Handles
    BY <1>1, QueueHandles
  <2> HIDE DEF o, x
  <2>3. Row(U, sent, x)
    BY <1>2, <2>1, <2>2 DEF Row
  <2> QED BY <2>1, <2>3
<1> QED BY <1>3, <1>4, TrackerAssumption DEF WireKept, client

LEMMA SendOtherWire == ASSUME WInv, SendOther PROVE WireKept
<1>1. /\ Sound /\ nextHandle \in 1..(MaxHandle + 1) /\ UNCHANGED <<client, sent>>
      /\ WireOf(pend, sent, nextHandle)
      /\ \A b \in Slaves : slot[b] \in Slot /\ Row(pend, sent, slot[b])
  BY IInvParts DEF WInv, ClientTyped, Sound, Typed, SendOther
<1>2. PICK r \in 1..RidMax :
        \/ pend' = pend \cup {Entry(Other, r, 0)} /\ UNCHANGED <<link, slot, done>>
        \/ LinkLost /\ pend' = {Entry(Other, r, 0)}
  BY DEF SendOther
<1> DEFINE e == Entry(Other, r, 0)
<1>3. e \in Pending /\ e.owner = Other /\ e.h = 0
  BY ZeroInRange, RidRange DEF Entry, Pending, Owner
<1> HIDE DEF e
<1>4. CASE LinkLost /\ pend' = {e}
  <2>1. {e} \subseteq {x \in Pending : x.owner = Other /\ x.h = 0}
    BY <1>3
  <2> QED BY <1>1, <1>4, <2>1, LinkLostWire
<1>5. CASE pend' = pend \cup {e} /\ UNCHANGED slot
  <2>1. \A h \in Handles : Sendings(pend \cup {e}, h) = Sendings(pend, h)
    BY <1>3, TrackerAssumption DEF Sendings, Handles
  <2>2. WireOf(pend', sent, nextHandle)
    <3>1. \A p \in pend \cup {e} : p.h < nextHandle
      BY <1>1, <1>3 DEF WireOf
    <3> QED BY <1>1, <1>5, <3>1 DEF WireOf
  <2>3. ASSUME NEW b \in Slaves PROVE Row(pend', sent, slot'[b])
    <3> DEFINE o == slot[b]
    <3>1. Elems(o.queue) \subseteq Handles /\ Row(pend, sent, o)
      BY <1>1, QueueHandles
    <3> HIDE DEF o
    <3>2. Row(pend \cup {e}, sent, o)
      BY <2>1, <3>1 DEF Row
    <3> QED BY <1>5, <3>2 DEF o
  <2> QED BY <1>1, <1>3, <1>5, <2>2, <2>3, TrackerAssumption DEF WireKept, client
<1> QED BY <1>2, <1>4, <1>5 DEF e

\* Time adds no transmission: it moves the age of those there are.
Aged(p) == [p EXCEPT !.age = Older(@)]

LEMMA TickWire == ASSUME WInv, Tick PROVE WireKept
<1>1. /\ UNCHANGED <<client, sent>>
      /\ pend \subseteq Pending /\ \A b \in Slaves : slot[b] \in Slot
      /\ WireOf(pend, sent, nextHandle) /\ \A b \in Slaves : Row(pend, sent, slot[b])
  BY IInvParts DEF WInv, Sound, Typed, Tick
<1>2. pend' = {Aged(p) : p \in pend}
  BY DEF Tick, Aged
<1>3. \A p \in pend : /\ Aged(p).owner = p.owner /\ Aged(p).h = p.h
                      /\ Aged(p).age = Older(p.age) /\ p.age \in 0..MaxAge
  BY <1>1 DEF Aged, Pending, Age
<1>4. \A h : Sendings(pend, h) = {} => Sendings(pend', h) = {}
  BY <1>2, <1>3 DEF Sendings
<1>5. WireOf(pend', sent, nextHandle)
  BY <1>1, <1>2, <1>3 DEF WireOf
<1>6. ASSUME NEW b \in Slaves PROVE Row(pend', sent, slot'[b])
  <2> DEFINE o == slot[b]
             x == slot'[b]
  <2>1. /\ x.state = o.state /\ x.has = o.has /\ x.cur = o.cur /\ x.queue = o.queue
        /\ x.retries = o.retries
    <3>1. x = [o EXCEPT !.sentAge = IF o.state = "SENT" THEN Older(@) ELSE @,
                        !.ackAge = IF o.state = "INFLIGHT" THEN Older(@) ELSE @]
      BY DEF Tick
    <3>2. o \in Slot
      BY <1>1
    <3> HIDE DEF o, x
    <3> QED BY <3>1, <3>2 DEF Slot
  <2>2. Row(pend, sent, o)
    BY <1>1
  <2> HIDE DEF o, x
  <2>3. Row(pend', sent, x)
    BY <1>4, <2>1, <2>2 DEF Row
  <2> QED BY <2>3 DEF x
<1>7. ASSUME NEW q \in pend' \ pend PROVE q.age # 0
  <2>1. PICK p \in pend : q = Aged(p)
    BY <1>2
  <2>2. CASE p.age < MaxAge
    BY <1>3, <2>1, <2>2, TrackerAssumption DEF Older
  <2>3. CASE ~(p.age < MaxAge)
    <3>1. Aged(p) = p
      BY <1>1, <2>3 DEF Aged, Older, Pending
    <3> QED BY <2>1, <3>1
  <2> QED BY <2>2, <2>3
<1> QED BY <1>1, <1>5, <1>6, <1>7 DEF WireKept, client

LEMMA AckWire == ASSUME WInv, NEW a \in Slaves, Ack(a) PROVE WireKept
<1>1. /\ slot \in [Slaves -> Slot] /\ WireOf(pend, sent, nextHandle)
      /\ \A b \in Slaves : Row(pend, sent, slot[b])
  BY IInvParts DEF WInv, Sound, Typed
<1>2. /\ slot'[a].state = "INFLIGHT" /\ slot'[a].has = slot[a].has
      /\ slot'[a].queue = slot[a].queue
      /\ \A b \in Slaves \ {a} : slot'[b] = slot[b]
  BY <1>1 DEF Ack, Slot
<1>3. Row(pend, sent, slot'[a])
  BY <1>1, <1>2 DEF Ack, Row
<1> QED BY <1>1, <1>2, <1>3 DEF Ack, WireKept, client

LEMMA FlaggedWire ==
  ASSUME Faithful, WInv, NEW a \in Slaves, NEW tripped \in BOOLEAN, Flagged(a, tripped)
  PROVE  WireKept
<1>1. /\ Sound /\ lag \in 0..MaxLag /\ slot[a] \in Slot /\ SlotShape(slot[a])
      /\ slot \in [Slaves -> Slot] /\ UNCHANGED client
  BY IInvParts DEF WInv, LoopTyped, Sound, Typed, Shaped, Flagged
<1>2. \E f \in BOOLEAN :
        \/ Pump(a, [slot[a] EXCEPT !.faulted = f], pend, done)
        \/ Update(a, [slot[a] EXCEPT !.faulted = f], pend, done) /\ UNCHANGED sent
  BY DEF Flagged
<1>e. [slot[a] EXCEPT !.faulted = TRUE] \in Slot /\ [slot[a] EXCEPT !.faulted = FALSE] \in Slot
  BY <1>1 DEF Slot
<1>f. PICK s \in Slot :
        /\ \E f \in BOOLEAN : s = [slot[a] EXCEPT !.faulted = f]
        /\ \/ Pump(a, s, pend, done)
           \/ Update(a, s, pend, done) /\ UNCHANGED sent
  BY <1>2, <1>e
<1> DEFINE o == slot[a]
<1>3. /\ s \in Slot /\ s.state = o.state /\ s.has = o.has /\ s.cur = o.cur /\ s.rid = o.rid
      /\ s.queue = o.queue /\ s.retries = o.retries
  BY <1>1, <1>f DEF Slot
<1>4. Calm(a, o, pend, nextHandle)
  BY Apart
<1>5. /\ SlotShape(o)
      /\ \/ Pump(a, s, pend, done)
         \/ Update(a, s, pend, done) /\ UNCHANGED sent
  BY <1>1, <1>f
<1>6. Update(a, s, pend, done) =>
        slot'[a] = s /\ pend' = pend /\ \A b \in Slaves \ {a} : slot'[b] = slot[b]
  BY <1>1 DEF Update
<1>7. Held(s) = Held(o)
  BY <1>3 DEF Held
<1>8. SlotShape(s) /\ Calm(a, s, pend, nextHandle)
  BY <1>3, <1>4, <1>5, <1>7 DEF SlotShape, Calm, Row
<1>9. After(a, Elems(Held(s)), pend, nextHandle)
  <2>1. CASE Pump(a, s, pend, done)
    BY <1>1, <1>3, <1>8, <2>1, PumpWire
  <2>2. CASE Update(a, s, pend, done) /\ UNCHANGED sent
    BY <1>6, <1>8, <2>2 DEF After, Calm
  <2> QED BY <1>5, <2>1, <2>2
<1> QED BY <1>1, <1>7, <1>9, AfterKept

LEMMA PollSlotWire ==
  ASSUME Faithful, WInv, NEW a \in Slaves, PollSlot(a)
  PROVE  WireKept
<1>1. /\ Sound /\ lag \in 0..MaxLag /\ slot[a] \in Slot /\ SlotShape(slot[a])
      /\ UNCHANGED client /\ Calm(a, slot[a], pend, nextHandle)
  BY IInvParts, Apart DEF WInv, LoopTyped, Sound, Typed, Shaped, PollSlot
<1>2. CASE AckLate(slot[a]) /\ ResendOrFail(a)
  BY <1>1, <1>2, ResendWire, AfterKept DEF AckLate
<1>3. CASE Finish(a, pend)
  BY <1>1, <1>3, FinishWire, AfterKept
<1>4. CASE Pump(a, slot[a], pend, done)
  BY <1>1, <1>4, PumpWire, AfterKept
<1>5. CASE UNCHANGED <<link, pend, slot, done, sent>>
  BY <1>1, <1>5, StillWire
<1> QED BY <1>2, <1>3, <1>4, <1>5 DEF PollSlot

\* cmd_tracker_reset empties the slots; the demultiplexer's table stays.
LEMMA AttachWire == ASSUME WInv, NEW R \in Rosters, AttachRoster(R) PROVE WireKept
<1>1. ClearSlot.state = "IDLE" /\ Elems(ClearSlot.queue) = {}
  BY DEF ClearSlot, Elems
<1>2. Row(pend, sent, ClearSlot)
  BY <1>1 DEF Row
<1> QED BY <1>2 DEF AttachRoster, WInv, WireKept, client

\* cmd_tracker_submit queues a handle that nobody has seen before.
LEMMA SubmitWire ==
  ASSUME Faithful, WInv, NEW a \in Slaves, Submit(a)
  PROVE  WireKept /\ Unique'
<1> DEFINE o == slot[a]
           s == [slot[a] EXCEPT !.queue = Append(@, nextHandle)]
           n == nextHandle + 1
<1>1. /\ Sound /\ lag \in 0..MaxLag /\ o \in Slot /\ SlotShape(o)
      /\ slot \in [Slaves -> Slot] /\ accepted \in [Slaves -> HandleSeq]
      /\ nextHandle \in 1..(MaxHandle + 1)
  BY IInvParts DEF WInv, LoopTyped, ClientTyped, Sound, Typed, Shaped
<1>2. /\ nextHandle \in Handles /\ nextHandle' = n
      /\ accepted' = [accepted EXCEPT ![a] = Append(@, nextHandle)]
      /\ Pump(a, s, pend, done)
  BY <1>1, TrackerAssumption DEF Submit, Handles
<1>3. Append(o.queue, nextHandle) \in HandleSeq
  BY <1>1, <1>2 DEF HandleSeq, Slot
<1>4. /\ s \in Slot /\ s.state = o.state /\ s.has = o.has /\ s.cur = o.cur /\ s.rid = o.rid
      /\ s.queue = Append(o.queue, nextHandle) /\ s.retries = o.retries
  BY <1>1, <1>3 DEF Slot
<1>5. /\ \A b \in Slaves : /\ Elems(Held(slot[b])) \subseteq Elems(accepted[b])
                          /\ \A h \in Elems(accepted[b]) : h < nextHandle
      /\ \A b \in Slaves : Elems(done[b]) \subseteq Elems(accepted[b])
  <2>1. ASSUME NEW b \in Slaves PROVE Elems(Held(slot[b])) \subseteq Elems(accepted[b])
    <3>1. PICK d \in HandleSeq : d = done[b]
      BY Books DEF WInv, Booked
    <3>2. PICK w \in HandleSeq : w = Held(slot[b])
      BY Books DEF WInv, Booked
    <3>3. d \o w = accepted[b]
      BY <3>1, <3>2, Books DEF WInv, Booked
    <3>4. Elems(d \o w) = Elems(d) \cup Elems(w)
      BY ConcatElems
    <3> QED BY <3>2, <3>3, <3>4
  <2> QED BY <2>1, Apart DEF WInv, Unique
<1>6. Calm(a, o, pend, nextHandle)
  BY Apart
<1> HIDE DEF s, o
<1>7. Held(s) = Append(Held(o), nextHandle) /\ Held(o) \in HandleSeq
  <2>1. <<>> \in HandleSeq /\ (o.has => o.cur # 0)
    BY <1>1 DEF SlotShape, HandleSeq
  <2>2. Held(o) \in HandleSeq /\ Held(s) \in HandleSeq
    BY <1>1, <1>4, <2>1, HeldType
  <2>3. <<>> \o Held(s) = Append(<<>> \o Held(o), nextHandle)
    BY <1>1, <1>2, <1>4, <2>1, QueuedLedger
  <2> QED BY <2>2, <2>3, ConcatEmptySeq DEF HandleSeq
<1>8. \A b \in Slaves : nextHandle \notin Elems(accepted[b])
  BY <1>1, <1>5
<1>9. /\ Elems(Held(s)) = Elems(Held(o)) \cup {nextHandle} /\ Distinct(Held(s))
  <2>1. nextHandle \notin Elems(Held(o)) /\ Distinct(Held(o))
    BY <1>5, <1>6, <1>8 DEF Calm, o
  <2> QED BY <1>2, <1>7, <2>1, AppendElems
<1>10. Row(pend, sent, s)
  <2>1. Sendings(pend, nextHandle) = {} /\ sent[nextHandle] = 0
    BY <1>1, <1>2, <1>6 DEF Calm, WireOf, Sendings
  <2>2. Elems(s.queue) = Elems(o.queue) \cup {nextHandle}
    BY <1>1, <1>2, <1>4, AppendElems DEF Slot
  <2> QED BY <1>4, <1>6, <2>1, <2>2 DEF Calm, Row
<1>11. Calm(a, s, pend, n)
  <2>1. WireOf(pend, sent, n)
    <3>1. \A p \in pend : p.h < nextHandle /\ p.h \in Int
      BY <1>1, <1>6, TrackerAssumption DEF Calm, WireOf, Sound, Typed, Pending, Current, Handles
    <3>2. \A h \in Handles : h < nextHandle => h < n
      BY <1>1 DEF Handles
    <3> QED BY <1>1, <1>6, <3>1, <3>2 DEF Calm, WireOf
  <2>2. \A h \in Elems(Held(s)) : h < n
    <3>1. \A h \in Elems(Held(o)) : h < nextHandle /\ h \in Int
      <4>1. Elems(Held(o)) \subseteq Handles
        BY <1>7, ElementOfSeq, LenProperties DEF HandleSeq, Elems
      <4> QED BY <1>6, <4>1 DEF Calm, Handles
    <3> QED BY <1>1, <1>9, <3>1
  <2>3. \A b \in Slaves \ {a} : nextHandle \notin Elems(Held(slot[b]))
    BY <1>5, <1>8
  <2> QED BY <1>6, <1>9, <1>10, <2>1, <2>2, <2>3 DEF Calm
<1>12. After(a, Elems(Held(s)), pend, n)
  <2>1. SlotShape(s)
    BY <1>1, <1>4 DEF SlotShape
  <2> HIDE DEF n
  <2> QED BY <1>1, <1>2, <1>4, <1>11, <2>1, PumpWire
<1>13. WireKept
  <2>1. Elems(done[a]) \cap Elems(Held(s)) = {}
    BY <1>5, <1>8, <1>9, Apart DEF o
  <2> QED BY <1>2, <1>12, <2>1 DEF After, WireKept
<1>14. Unique'
  <2>1. accepted'[a] = Append(accepted[a], nextHandle)
        /\ \A b \in Slaves \ {a} : accepted'[b] = accepted[b]
    BY <1>1, <1>2
  <2>2. Unique /\ nextHandle \in Int
    BY <1>1 DEF WInv
  <2>3. Elems(accepted'[a]) = Elems(accepted[a]) \cup {nextHandle} /\ Distinct(accepted'[a])
    <3>1. accepted[a] \in HandleSeq /\ Distinct(accepted[a])
      BY <1>1, <2>2 DEF Unique
    <3> QED BY <1>2, <1>8, <2>1, <3>1, AppendElems
  <2>4. \A b \in Slaves : Elems(accepted[b]) \subseteq Handles
    BY <1>1, ElementOfSeq, LenProperties DEF HandleSeq, Elems
  <2>5. \A b \in Slaves : \A h \in Elems(accepted[b]) : h < nextHandle + 1
    BY <1>5, <2>2, <2>4 DEF Handles
  <2>6. \A b \in Slaves : \A h \in Elems(accepted'[b]) : h < nextHandle + 1
    <3>1. \A h \in Elems(accepted'[a]) : h < nextHandle + 1
      <4>1. nextHandle < nextHandle + 1
        BY <2>2
      <4> QED BY <2>3, <2>5, <4>1
    <3> QED BY <2>1, <2>5, <3>1
  <2>7. ASSUME NEW b \in Slaves, NEW c \in Slaves, b # c
        PROVE  Elems(accepted'[b]) \cap Elems(accepted'[c]) = {}
    <3>1. Elems(accepted[b]) \cap Elems(accepted[c]) = {}
      BY <2>2, <2>7 DEF Unique
    <3>2. CASE b = a
      BY <1>8, <2>1, <2>3, <2>7, <3>1, <3>2
    <3>3. CASE c = a
      BY <1>8, <2>1, <2>3, <2>7, <3>1, <3>3
    <3>4. CASE b # a /\ c # a
      BY <2>1, <3>1, <3>4
    <3> QED BY <3>2, <3>3, <3>4
  <2>8. \A b \in Slaves : Distinct(accepted'[b])
    BY <2>1, <2>2, <2>3 DEF Unique
  <2> QED BY <1>2, <2>6, <2>7, <2>8 DEF Unique
<1> QED BY <1>13, <1>14

-----------------------------------------------------------------------------
LEMMA WStep == ASSUME Faithful, WInv, [Next]_vars PROVE WInv' /\ WireKept
<1>1. /\ Sound /\ LoopTyped /\ lag \in 0..MaxLag
      /\ \A a \in Slaves : Calm(a, slot[a], pend, nextHandle)
  BY IInvParts, Apart DEF WInv, LoopTyped
<1>2. WireKept /\ Unique'
  <2>0. UNCHANGED client => Unique'
    BY DEF WInv, Unique, client
  <2>1. CASE ClientNext
    <3>1. ASSUME NEW R \in Rosters, AttachRoster(R) PROVE WireKept /\ Unique'
      BY <2>0, <3>1, AttachWire DEF AttachRoster
    <3>2. CASE PollBegin
      BY <2>0, <3>2, StillWire DEF PollBegin
    <3>3. CASE SendOther \/ Tick
      BY <2>0, <3>3, SendOtherWire, TickWire DEF SendOther, Tick
    <3> QED BY <2>1, <3>1, <3>2, <3>3, SubmitWire DEF ClientNext
  <2>2. CASE FrameNext
    <3>1. ASSUME NEW a \in Slaves, Ack(a) PROVE WireKept /\ Unique'
      BY <2>0, <3>1, AckWire DEF Ack
    <3>2. ASSUME NEW a \in Slaves, Nak(a) PROVE WireKept /\ Unique'
      BY <1>1, <2>0, <3>2, ResendWire, AfterKept DEF Nak
    <3>3. ASSUME NEW a \in Slaves, NEW f \in BOOLEAN, Flagged(a, f) PROVE WireKept /\ Unique'
      BY <2>0, <3>3, FlaggedWire DEF Flagged
    <3>4. ASSUME NEW p \in pend, Reply(p) PROVE WireKept /\ Unique'
      BY <2>0, <3>4, ResolveWire DEF Reply
    <3> QED BY <2>2, <3>1, <3>2, <3>3, <3>4 DEF FrameNext
  <2>3. CASE PollNext
    <3>1. CASE Reopen \/ RxDone \/ SweepDone
      BY <2>0, <3>1, StillWire DEF Reopen, RxDone, SweepDone
    <3>2. CASE HangUp
      BY <2>0, <3>2, LinkLostWire DEF HangUp
    <3>3. ASSUME NEW p \in pend, Expire(p) PROVE WireKept /\ Unique'
      BY <2>0, <3>3, ResolveWire DEF Expire
    <3>4. ASSUME NEW a \in Slaves, PollSlot(a) PROVE WireKept /\ Unique'
      BY <2>0, <3>4, PollSlotWire DEF PollSlot
    <3> QED BY <2>3, <3>1, <3>2, <3>3, <3>4 DEF PollNext
  <2>4. CASE UNCHANGED vars
    BY <2>0, <2>4, StillWire DEF vars, client
  <2> QED BY <2>1, <2>2, <2>3, <2>4 DEF Next
<1>3. IInv'
  BY NextStep DEF WInv
<1> QED BY <1>2, <1>3 DEF WInv, WireKept

LEMMA WStart == Init => WInv
<1> SUFFICES ASSUME Init PROVE WInv
  OBVIOUS
<1>1. Elems(<<>>) = {} /\ Distinct(<<>>)
  BY DEF Elems, Distinct
<1>2. Unique
  BY <1>1 DEF Init, Unique
<1>3. WireOf(pend, sent, nextHandle)
  BY TrackerAssumption DEF Init, WireOf
<1>4. \A b \in Slaves : Row(pend, sent, slot[b])
  BY <1>1 DEF Init, ClearSlot, Row
<1> QED BY <1>2, <1>3, <1>4, InitStep DEF WInv

LEMMA WAlways == ASSUME Faithful PROVE Spec => []WInv
<1>1. WInv /\ [Next]_vars => WInv'
  BY WStep
<1> QED BY <1>1, WStart, PTL DEF Spec

\* A command that waits in the queue has never been transmitted: pump_slot takes
\* it off the queue in the same call that transmits it, and leaves it there only
\* when demux_send_bus_exec has sent nothing.
THEOREM QueuedNeverSent == ASSUME Faithful PROVE Spec => []QueuedNotOnWire
<1>1. WInv => QueuedNotOnWire
  <2> SUFFICES ASSUME WInv, NEW p \in pend, p.owner \in Slaves,
                      NEW i \in DOMAIN slot[p.owner].queue, slot[p.owner].queue[i] = p.h
               PROVE  FALSE
    BY DEF QueuedNotOnWire
  <2>1. p.h \in Elems(slot[p.owner].queue) /\ p \in Sendings(pend, p.h)
    BY DEF Elems, Sendings
  <2> QED BY <2>1 DEF WInv, Row
<1> QED BY <1>1, WAlways, PTL

\* However NAKs, ACK timeouts, refused sends and lost links alternate, and
\* whatever the table has forgotten since, a command is transmitted
\* 1 + MAX_ACK_RETRIES times at most in all: each transmission after the first
\* is paid for by a retry, an ACK clears the retry count, and nothing is resent
\* after an ACK.
THEOREM ResendsBounded == ASSUME Faithful PROVE Spec => []BoundedResends
<1>1. WInv => BoundedResends
  BY DEF WInv, WireOf, BoundedResends
<1> QED BY <1>1, WAlways, PTL

\* A command whose callback has run is not transmitted again, by a resend or
\* from the queue.
THEOREM NeverSentLate == ASSUME Faithful PROVE Spec => NoLateTransmission
<1>1. WInv /\ [Next]_vars =>
        [\A p \in pend' \ pend : p.owner \in Slaves /\ p.age = 0 =>
           \A i \in DOMAIN done[p.owner] : done[p.owner][i] # p.h]_vars
  BY WStep DEF WireKept, Elems
<1> QED BY <1>1, WAlways, PTL DEF Spec, NoLateTransmission
=============================================================================
