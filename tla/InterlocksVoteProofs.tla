------------------------- MODULE InterlocksVoteProofs -------------------------
(***************************************************************************)
(* Proofs about the votes of Interlocks, for any number of slots, pins and *)
(* programs: a condition plainly violated for as many ticks as its pin is  *)
(* debounced has driven the outputs to their error level, a condition      *)
(* plainly satisfied that long holds nothing back, and between the two a   *)
(* vote stays what it was.  The invariant: a filter's shift register holds *)
(* the last samples of its pin, and a vote follows from the filters.       *)
(***************************************************************************)
EXTENDS InterlocksProofs, SequenceTheorems

Level == 0..UINT16_MAX

\* What the filter of a watch may hold.
FilterOf(w) == [shift : [1..w.depth -> {0, 1}], deb : {0, 1}, pass : BOOLEAN]

\* The shift register's last bits are the last samples h of pin p.
Tracks(w, f, h, p) ==
  \A k \in 0..(w.depth - 1) : k < Len(h) => h[Len(h) - k][p] = f.shift[w.depth - k]

\* The filters f and the history h of a slot that runs P.
Filtering(P, f, h) ==
  /\ h \in Seq([Ins(P) -> Level])
  /\ DOMAIN f = Ins(P)
  /\ \A p \in Ins(P) : f[p] \in FilterOf(P.watch[p]) /\ Tracks(P.watch[p], f[p], h, p)

\* A vote, once there is one, is what the filters say.
VoteFollows(P, f, tf) ==
  tf # "none" =>
    /\ tf = "true" <=> \A p \in Ins(P) : f[p].pass
    /\ \A p \in Ins(P) :
         P.watch[p].depth # 0 =>
           (f[p].pass <=> Holds(P.watch[p].op, f[p].deb, P.watch[p].thr))

FInv ==
  /\ DOMAIN filt = Slots /\ DOMAIN seen = Slots
  /\ \A s \in Claimants : /\ Filtering(Prog(s), filt[s], seen[s])
                          /\ VoteFollows(Prog(s), filt[s], slots[s].tf)
  /\ \A s \in Slots : s >= stage => seen[s] = <<>>
  /\ \A s \in Slots : Armed(s) /\ Ins(Prog(s)) = {} => slots[s].tf # "false"

\* The shell turns no pin into an input.
NoInputs == Commands \subseteq {"write", "output"}
\* A pin with an owner that drives it is an output.
OutputsOn == \A p \in Pins : claims[p].owners # {} /\ claims[p].use = "out" => port[p].out

\* No dead band reaches past the ends of the range.
BandsFit ==
  \A P \in Programs : \A p \in Ins(P) :
    LET w == P.watch[p] IN /\ w.op = "gt" => w.hyst <= w.thr
                           /\ w.op = "lt" => w.thr + w.hyst <= UINT16_MAX

-----------------------------------------------------------------------------
(***************************************************************************)
(* One evaluation of one watch.                                            *)
(***************************************************************************)
\* What the parser accepts.
Watch(w) == /\ w.depth \in {0} \cup 2..15 /\ w.thr \in Level /\ w.hyst \in Level
            /\ w.op \in {"eq", "ne", "lt", "le", "gt", "ge"}
            /\ w.hyst # 0 => w.op \in {"lt", "le", "gt", "ge"}
            /\ w.depth # 0 => w.hyst = 0

LEMMA LevelFacts == UINT16_MAX \in Nat
BY DEF UINT16_MAX

LEMMA WatchOfProgram ==
  ASSUME NEW P \in Programs, NEW p \in Ins(P)
  PROVE  /\ Watch(P.watch[p])
         /\ Levels[p] \subseteq Level /\ 0 \in Levels[p]
         /\ P.watch[p].depth # 0 => Levels[p] \subseteq {0, 1}
<1> DEFINE w == P.watch[p]
<1>1. /\ w.depth \in {0} \cup 2..15 /\ w.thr \in 0..UINT16_MAX /\ w.hyst \in 0..UINT16_MAX
      /\ w.op \in {"eq", "ne", "lt", "le", "gt", "ge"}
      /\ w.hyst # 0 => w.op \in {"lt", "le", "gt", "ge"}
      /\ Levels[p] \subseteq 0..UINT16_MAX /\ 0 \in Levels[p]
      /\ w.depth # 0 => w.hyst = 0 /\ Levels[p] \subseteq {0, 1}
  BY WatchAssumption, Zenon
<1> QED BY <1>1 DEF Watch, Level

\* The threshold that the dead band eases.
LEMMA EasedThreshold ==
  ASSUME NEW w, Watch(w), NEW passed \in BOOLEAN, NEW t, t = Threshold(w, passed)
  PROVE  \/ t = w.thr /\ (~passed \/ w.hyst = 0)
         \/ passed /\ w.op \in {"gt", "ge"} /\ t = IF w.thr > w.hyst THEN w.thr - w.hyst ELSE 0
         \/ passed /\ w.op \in {"lt", "le"} /\ t = IF w.thr + w.hyst > UINT16_MAX THEN UINT16_MAX
                                                   ELSE w.thr + w.hyst
<1>1. CASE w.hyst = 0 \/ ~passed
  BY <1>1 DEF Threshold
<1>2. CASE w.hyst # 0 /\ passed /\ w.op \in {"gt", "ge"}
  BY <1>2 DEF Threshold
<1>3. CASE w.hyst # 0 /\ passed /\ w.op \in {"lt", "le"}
  BY <1>3 DEF Threshold
<1> QED BY <1>1, <1>2, <1>3 DEF Watch

\* Each ordered comparison.
LEMMA ComparedGT == \A v, t : Holds("gt", v, t) <=> v > t
BY DEF Holds

LEMMA ComparedGE == \A v, t : Holds("ge", v, t) <=> v >= t
BY DEF Holds

LEMMA ComparedLT == \A v, t : Holds("lt", v, t) <=> v < t
BY DEF Holds

LEMMA ComparedLE == \A v, t : Holds("le", v, t) <=> v <= t
BY DEF Holds

\* A level moved by the dead band.
LEMMA EasedLevel ==
  ASSUME NEW w, NEW v
  PROVE  /\ w.op \in {"gt", "ge"} => Eased(w, v) = v + w.hyst
         /\ w.op \in {"lt", "le"} => Eased(w, v) = v - w.hyst
         /\ w.op \in {"eq", "ne"} => Eased(w, v) = v
<1>1. ASSUME w.op \in {"gt", "ge"} PROVE Eased(w, v) = v + w.hyst
  BY <1>1 DEF Eased
<1>2. ASSUME w.op \in {"lt", "le"} PROVE Eased(w, v) = v - w.hyst
  BY <1>2 DEF Eased
<1>3. ASSUME w.op \in {"eq", "ne"} PROVE Eased(w, v) = v
  BY <1>3 DEF Eased
<1> QED BY <1>1, <1>2, <1>3

\* The dead band of each.
LEMMA BandGT ==
  ASSUME NEW max \in Nat, NEW v \in 0..max, NEW thr \in 0..max, NEW hyst \in 0..max,
         NEW t, t = IF thr > hyst THEN thr - hyst ELSE 0, NEW e, e = v + hyst
  PROVE  /\ ~(v > thr) /\ ~(e > thr) => ~(v > t)
         /\ v > thr => v > t
         /\ hyst <= thr => (~(v > thr) /\ e > thr => v > t)
OBVIOUS

LEMMA BandGE ==
  ASSUME NEW max \in Nat, NEW v \in 0..max, NEW thr \in 0..max, NEW hyst \in 0..max,
         NEW t, t = IF thr > hyst THEN thr - hyst ELSE 0, NEW e, e = v + hyst
  PROVE  /\ ~(v >= thr) /\ ~(e >= thr) => ~(v >= t)
         /\ v >= thr => v >= t
         /\ ~(v >= thr) /\ e >= thr => v >= t
OBVIOUS

LEMMA BandLT ==
  ASSUME NEW max \in Nat, NEW v \in 0..max, NEW thr \in 0..max, NEW hyst \in 0..max,
         NEW t, t = IF thr + hyst > max THEN max ELSE thr + hyst, NEW e, e = v - hyst
  PROVE  /\ ~(v < thr) /\ ~(e < thr) => ~(v < t)
         /\ v < thr => v < t
         /\ ~(v < thr) /\ e < thr /\ thr + hyst <= max => v < t
OBVIOUS

LEMMA BandLE ==
  ASSUME NEW max \in Nat, NEW v \in 0..max, NEW thr \in 0..max, NEW hyst \in 0..max,
         NEW t, t = IF thr + hyst > max THEN max ELSE thr + hyst, NEW e, e = v - hyst
  PROVE  /\ ~(v <= thr) /\ ~(e <= thr) => ~(v <= t)
         /\ v <= thr => v <= t
         /\ ~(v <= thr) /\ e <= thr => v <= t
OBVIOUS

\* A condition violated by more than the dead band fails whatever it did
\* before; one that holds is not undone by the dead band; between the two it
\* stays what it was, if the band fits.
LEMMA DeadBand ==
  ASSUME NEW w, Watch(w), NEW v \in Level, NEW passed \in BOOLEAN,
         NEW t, t = Threshold(w, passed)
  PROVE  /\ ~Holds(w.op, v, w.thr) /\ ~Holds(w.op, Eased(w, v), w.thr) => ~Holds(w.op, v, t)
         /\ Holds(w.op, v, w.thr) => Holds(w.op, v, t)
         /\ /\ ~Holds(w.op, v, w.thr) /\ Holds(w.op, Eased(w, v), w.thr)
            /\ w.op = "gt" => w.hyst <= w.thr
            /\ w.op = "lt" => w.thr + w.hyst <= UINT16_MAX
            => (Holds(w.op, v, t) <=> passed)
<1>1. /\ w.thr \in Int /\ w.hyst \in Int /\ w.thr >= 0 /\ w.hyst >= 0 /\ v \in Int
      /\ v >= 0 /\ v <= UINT16_MAX /\ w.thr <= UINT16_MAX /\ UINT16_MAX \in Int
  BY LevelFacts DEF Watch, Level
<1>0. /\ UINT16_MAX \in Nat /\ v \in 0..UINT16_MAX /\ w.thr \in 0..UINT16_MAX
      /\ w.hyst \in 0..UINT16_MAX
  BY LevelFacts DEF Watch, Level
<1>2. /\ w.op \in {"gt", "ge"} => Eased(w, v) = v + w.hyst
      /\ w.op \in {"lt", "le"} => Eased(w, v) = v - w.hyst
      /\ w.op \in {"eq", "ne"} => Eased(w, v) = v
  BY EasedLevel
<1>3. CASE t = w.thr /\ (~passed \/ w.hyst = 0)
  <2>1. w.hyst = 0 => Eased(w, v) = v
    BY <1>1, <1>2 DEF Watch
  <2> QED BY <1>3, <2>1, Zenon
<1> PICK e : e = Eased(w, v)
  OBVIOUS
<1>4. CASE passed /\ w.op \in {"gt", "ge"} /\ t = IF w.thr > w.hyst THEN w.thr - w.hyst ELSE 0
  <2>1. e = v + w.hyst
    BY <1>2, <1>4
  <2>2. CASE w.op = "gt"
    <3>1. /\ Holds(w.op, v, t) <=> v > t
          /\ Holds(w.op, v, w.thr) <=> v > w.thr
          /\ Holds(w.op, e, w.thr) <=> e > w.thr
      BY <2>2, ComparedGT, Zenon
    <3>2. /\ ~(v > w.thr) /\ ~(e > w.thr) => ~(v > t)
          /\ v > w.thr => v > t
          /\ w.hyst <= w.thr => (~(v > w.thr) /\ e > w.thr => v > t)
      <4> PICK thr \in 0..UINT16_MAX, hyst \in 0..UINT16_MAX : thr = w.thr /\ hyst = w.hyst
        BY <1>0
      <4>1. t = IF thr > hyst THEN thr - hyst ELSE 0
        BY <1>4
      <4>2. /\ ~(v > thr) /\ ~(e > thr) => ~(v > t)
            /\ v > thr => v > t
            /\ hyst <= thr => (~(v > thr) /\ e > thr => v > t)
        BY <1>0, <2>1, <4>1, BandGT
      <4> QED BY <4>2
    <3> QED BY <1>4, <2>2, <3>1, <3>2, Zenon
  <2>3. CASE w.op = "ge"
    <3>1. /\ Holds(w.op, v, t) <=> v >= t
          /\ Holds(w.op, v, w.thr) <=> v >= w.thr
          /\ Holds(w.op, e, w.thr) <=> e >= w.thr
      BY <2>3, ComparedGE, Zenon
    <3>2. /\ ~(v >= w.thr) /\ ~(e >= w.thr) => ~(v >= t)
          /\ v >= w.thr => v >= t
          /\ ~(v >= w.thr) /\ e >= w.thr => v >= t
      BY <1>0, <1>4, <2>1, BandGE, Zenon
    <3> QED BY <1>4, <2>3, <3>1, <3>2, Zenon
  <2> QED BY <1>4, <2>2, <2>3
<1>5. CASE passed /\ w.op \in {"lt", "le"} /\ t = IF w.thr + w.hyst > UINT16_MAX THEN UINT16_MAX
                                                 ELSE w.thr + w.hyst
  <2>1. e = v - w.hyst
    BY <1>2, <1>5
  <2>2. CASE w.op = "lt"
    <3>1. /\ Holds(w.op, v, t) <=> v < t
          /\ Holds(w.op, v, w.thr) <=> v < w.thr
          /\ Holds(w.op, e, w.thr) <=> e < w.thr
      BY <2>2, ComparedLT, Zenon
    <3>2. /\ ~(v < w.thr) /\ ~(e < w.thr) => ~(v < t)
          /\ v < w.thr => v < t
          /\ ~(v < w.thr) /\ e < w.thr /\ w.thr + w.hyst <= UINT16_MAX => v < t
      BY <1>0, <1>5, <2>1, BandLT, Zenon
    <3> QED BY <1>5, <2>2, <3>1, <3>2, Zenon
  <2>3. CASE w.op = "le"
    <3>1. /\ Holds(w.op, v, t) <=> v <= t
          /\ Holds(w.op, v, w.thr) <=> v <= w.thr
          /\ Holds(w.op, e, w.thr) <=> e <= w.thr
      BY <2>3, ComparedLE, Zenon
    <3>2. /\ ~(v <= w.thr) /\ ~(e <= w.thr) => ~(v <= t)
          /\ v <= w.thr => v <= t
          /\ ~(v <= w.thr) /\ e <= w.thr => v <= t
      BY <1>0, <1>5, <2>1, BandLE, Zenon
    <3> QED BY <1>5, <2>3, <3>1, <3>2, Zenon
  <2> QED BY <1>5, <2>2, <2>3
<1> QED BY <1>3, <1>4, <1>5, EasedThreshold

LEMMA PlainThreshold ==
  ASSUME NEW w, w.hyst = 0, NEW passed
  PROVE  Threshold(w, passed) = w.thr
BY DEF Threshold

\* Shifting a sample in.
Shifted(d, sr, v, new) ==
  /\ new \in [1..d -> {0, 1}]
  /\ new[d] = v
  /\ \A i \in 1..(d - 1) : new[i] = sr[i + 1]

\* Appending to the tail shifts.
LEMMA ShiftIn ==
  ASSUME NEW d \in 2..15, NEW sr \in [1..d -> {0, 1}], NEW v \in {0, 1}
  PROVE  Shifted(d, sr, v, Append(Tail(sr), v))
<1>1. sr \in Seq({0, 1}) /\ Len(sr) = d /\ sr # <<>>
  OBVIOUS
<1> DEFINE tl == Tail(sr)
           new == Append(tl, v)
<1>2. tl \in Seq({0, 1}) /\ Len(tl) = d - 1 /\ \A i \in 1..(d - 1) : tl[i] = sr[i + 1]
  BY <1>1, HeadTailProperties
<1> HIDE DEF tl
<1>3. /\ new \in Seq({0, 1}) /\ Len(new) = d
      /\ \A i \in 1..(d - 1) : new[i] = tl[i]
      /\ new[d] = v
  BY <1>2, AppendProperties
<1> HIDE DEF new
<1>4. new \in [1..d -> {0, 1}] /\ \A i \in 1..(d - 1) : new[i] = sr[i + 1]
  BY <1>2, <1>3
<1>5. Shifted(d, sr, v, new)
  BY <1>3, <1>4 DEF Shifted
<1> QED BY <1>5 DEF new, tl

\* The debounced level of a filter, and its shift register.
LEMMA DebouncedStep ==
  ASSUME NEW w, Watch(w), NEW f \in FilterOf(w), NEW v \in Level,
         w.depth # 0 => v \in {0, 1},
         NEW n, n = Debounced(w, f, v)
  PROVE  /\ n \in FilterOf(w) /\ n.pass = f.pass
         /\ w.depth = 0 => n = f
         /\ w.depth # 0 =>
              /\ n.shift[w.depth] = v
              /\ \A i \in 1..(w.depth - 1) : n.shift[i] = f.shift[i + 1]
              /\ (\A i \in 1..w.depth : n.shift[i] = 1) => n.deb = 1
              /\ (\A i \in 1..w.depth : n.shift[i] = 0) => n.deb = 0
              /\ (\E i, j \in 1..w.depth : n.shift[i] # n.shift[j]) => n.deb = f.deb
<1>1. CASE w.depth = 0
  BY <1>1 DEF Debounced
<1>2. CASE w.depth # 0
  <2> DEFINE sr == Append(Tail(f.shift), v)
  <2>1. w.depth \in 2..15 /\ f.shift \in [1..w.depth -> {0, 1}] /\ v \in {0, 1}
    BY <1>2 DEF Watch, FilterOf
  <2>2. /\ sr \in [1..w.depth -> {0, 1}] /\ sr[w.depth] = v
        /\ \A i \in 1..(w.depth - 1) : sr[i] = f.shift[i + 1]
    <3>1. Shifted(w.depth, f.shift, v, sr)
      BY <2>1, ShiftIn
    <3> HIDE DEF sr
    <3> QED BY <3>1 DEF Shifted
  <2>3. n = [f EXCEPT !.shift = sr,
                      !.deb = IF \A i \in DOMAIN sr : sr[i] = 1 THEN 1
                              ELSE IF \A i \in DOMAIN sr : sr[i] = 0 THEN 0 ELSE @]
    <3>1. ~(w.depth < 2)
      BY <2>1
    <3> QED BY <3>1, Zenon DEF Debounced
  <2> HIDE DEF sr
  <2>4. /\ n.shift = sr /\ n.pass = f.pass
        /\ n.deb = IF \A i \in 1..w.depth : sr[i] = 1 THEN 1
                   ELSE IF \A i \in 1..w.depth : sr[i] = 0 THEN 0 ELSE f.deb
    BY <2>2, <2>3 DEF FilterOf
  <2>5. n \in FilterOf(w)
    BY <2>2, <2>3 DEF FilterOf
  <2>6. ASSUME \A i \in 1..w.depth : sr[i] = 1 PROVE n.deb = 1
    BY <2>4, <2>6
  <2>7. ASSUME \A i \in 1..w.depth : sr[i] = 0 PROVE n.deb = 0
    <3>1. 1 \in 1..w.depth
      BY <2>1
    <3>2. sr[1] # 1
      BY <2>7, <3>1
    <3> QED BY <2>4, <2>7, <3>1, <3>2
  <2>8. ASSUME NEW i \in 1..w.depth, NEW j \in 1..w.depth, sr[i] # sr[j] PROVE n.deb = f.deb
    <3>1. ~(\A k \in 1..w.depth : sr[k] = 1) /\ ~(\A k \in 1..w.depth : sr[k] = 0)
      BY <2>8
    <3> QED BY <2>4, <3>1
  <2> QED BY <1>2, <2>2, <2>4, <2>5, <2>6, <2>7, <2>8
<1> QED BY <1>1, <1>2

-----------------------------------------------------------------------------
(***************************************************************************)
(* One tick of one slot.                                                   *)
(***************************************************************************)
LEMMA HoldsBoolean ==
  ASSUME NEW op \in {"eq", "ne", "lt", "le", "gt", "ge"}, NEW v, NEW t
  PROVE  Holds(op, v, t) \in BOOLEAN
<1>1. CASE op = "eq"
  BY <1>1 DEF Holds
<1>2. CASE op = "ne"
  BY <1>2 DEF Holds
<1>3. CASE op = "lt"
  BY <1>3 DEF Holds
<1>4. CASE op = "le"
  BY <1>4 DEF Holds
<1>5. CASE op = "gt"
  BY <1>5 DEF Holds
<1>6. CASE op = "ge"
  BY <1>6 DEF Holds
<1> QED BY <1>1, <1>2, <1>3, <1>4, <1>5, <1>6

\* The history is as long as the longest debounce, which is finite.
LEMMA ReachPositive ==
  ASSUME NEW P \in Programs
  PROVE  Reach(P) \in Nat \ {0}
<1> DEFINE D == {1} \cup {Depth(P.watch[p]) : p \in Ins(P)}
<1>1. D \subseteq 1..15 /\ 1 \in D
  BY WatchOfProgram DEF Watch, Depth
<1> HIDE DEF D
<1>2. \E d \in D : \A e \in D : e <= d
  BY <1>1
<1>3. \E d \in D : \A p \in Ins(P) : Depth(P.watch[p]) <= d
  BY <1>2 DEF D
<1> DEFINE Longest(d) == d \in D /\ \A p \in Ins(P) : Depth(P.watch[p]) <= d
<1>4. Reach(P) = CHOOSE d : Longest(d)
  BY DEF Reach, D
<1> HIDE DEF Longest
<1>5. \E d : Longest(d)
  BY <1>3 DEF Longest
<1>6. Longest(Reach(P))
  BY <1>4, <1>5, Zenon
<1>7. Reach(P) \in D
  BY <1>6 DEF Longest
<1>8. D \subseteq Nat \ {0}
  BY <1>1
<1> QED BY <1>7, <1>8, Zenon

\* A sample joins the history, and the rest of it moves back by one.
Pushed(h, x, r) == IF Len(Append(h, x)) > r THEN Tail(Append(h, x)) ELSE Append(h, x)

\* The history new is h with x behind it, as far as it goes.
Extends(new, h, x, S) ==
  /\ new \in Seq(S) /\ Len(new) >= 1
  /\ new[Len(new)] = x
  /\ \A k \in 1..(Len(new) - 1) : k <= Len(h) /\ new[Len(new) - k] = h[Len(h) - (k - 1)]

LEMMA HistoryStep ==
  ASSUME NEW S, NEW h \in Seq(S), NEW x \in S, NEW r \in Nat, r # 0
  PROVE  Extends(Pushed(h, x, r), h, x, S)
<1> PICK new : new = Pushed(h, x, r)
  OBVIOUS
<1> PICK all : all = Append(h, x)
  OBVIOUS
<1>1. /\ all \in Seq(S) /\ all # <<>> /\ Len(all) = Len(h) + 1 /\ Len(h) \in Nat
      /\ \A i \in 1..Len(h) : all[i] = h[i]
      /\ all[Len(h) + 1] = x
  BY AppendProperties
<1>2. CASE Len(all) > r
  <2>1. new = Tail(all) /\ Len(h) >= 1
    BY <1>1, <1>2 DEF Pushed
  <2>2. new \in Seq(S) /\ Len(new) = Len(h) /\ \A i \in 1..Len(h) : new[i] = all[i + 1]
    BY <1>1, <2>1, HeadTailProperties
  <2> QED BY <1>1, <2>1, <2>2 DEF Extends
<1>3. CASE ~(Len(all) > r)
  <2>1. new = all
    BY <1>3 DEF Pushed
  <2> QED BY <1>1, <2>1 DEF Extends
<1> QED BY <1>2, <1>3

\* What a filter becomes when its pin reads x.
Stepped(w, f, x) ==
  LET b == Debounced(w, f, x)
      v == IF w.depth < 2 THEN x ELSE b.deb
  IN [b EXCEPT !.pass = Holds(w.op, v, Threshold(w, @))]

\* Filter n is f one sample x later, as the watch w has it.
StepsFilter(w, f, x, n) ==
  /\ n \in FilterOf(w)
  /\ w.depth = 0 => (n.pass <=> Holds(w.op, x, Threshold(w, f.pass)))
  /\ w.depth # 0 =>
       /\ n.pass <=> Holds(w.op, n.deb, w.thr)
       /\ n.shift[w.depth] = x
       /\ \A i \in 1..(w.depth - 1) : n.shift[i] = f.shift[i + 1]
       /\ (\A i \in 1..w.depth : n.shift[i] = 1) => n.deb = 1
       /\ (\A i \in 1..w.depth : n.shift[i] = 0) => n.deb = 0
       /\ (\E i, j \in 1..w.depth : n.shift[i] # n.shift[j]) => n.deb = f.deb

\* One step of a filter is such a step.
LEMMA FilterStep ==
  ASSUME NEW w, Watch(w), NEW f \in FilterOf(w), NEW x \in Level, w.depth # 0 => x \in {0, 1},
         NEW n, n = Stepped(w, f, x)
  PROVE  StepsFilter(w, f, x, n)
<1> PICK b : b = Debounced(w, f, x)
  OBVIOUS
<1> PICK v : v = IF w.depth < 2 THEN x ELSE b.deb
  OBVIOUS
<1>1. /\ b \in FilterOf(w) /\ b.pass = f.pass
      /\ w.depth # 0 =>
           /\ b.shift[w.depth] = x
           /\ \A i \in 1..(w.depth - 1) : b.shift[i] = f.shift[i + 1]
           /\ (\A i \in 1..w.depth : b.shift[i] = 1) => b.deb = 1
           /\ (\A i \in 1..w.depth : b.shift[i] = 0) => b.deb = 0
           /\ (\E i, j \in 1..w.depth : b.shift[i] # b.shift[j]) => b.deb = f.deb
  BY DebouncedStep
<1> PICK t : t = Threshold(w, f.pass)
  OBVIOUS
<1>2. Holds(w.op, v, t) \in BOOLEAN
  BY HoldsBoolean DEF Watch
<1>3. n = [b EXCEPT !.pass = Holds(w.op, v, t)]
  BY <1>1 DEF Stepped
<1>4. n \in FilterOf(w) /\ n.shift = b.shift /\ n.deb = b.deb /\ n.pass = Holds(w.op, v, t)
  BY <1>1, <1>2, <1>3 DEF FilterOf
<1>5. w.depth = 0 => v = x
  OBVIOUS
<1>6. w.depth # 0 => v = n.deb /\ t = w.thr
  BY <1>4, PlainThreshold DEF Watch
<1>7. w.depth = 0 => (n.pass <=> Holds(w.op, x, t))
  BY <1>4, <1>5
<1>8. w.depth # 0 => (n.pass <=> Holds(w.op, n.deb, w.thr))
  BY <1>4, <1>6
<1> QED BY <1>1, <1>4, <1>7, <1>8 DEF StepsFilter

\* What an armed slot reads at a tick.
LEMMA RawLevel ==
  ASSUME NEW s \in Slots, Armed(s), Prog(s) \in Programs, NEW g \in Fields,
         NEW p \in Ins(Prog(s))
  PROVE  Raw(p, g) \in Levels[p]
<1>1. p \in Watched
  BY DEF Watched
<1>2. g[p] \in Levels[p]
  BY <1>1 DEF Fields
<1> QED BY <1>2, WatchOfProgram DEF Raw

\* The parts of a tick that votes are about.
TickOf(g) ==
  /\ g \in Fields
  /\ slots' = Evaluated(Slots, g)
  /\ filt' = [s \in Slots |-> IF Armed(s) THEN Filtered(s, g) ELSE filt[s]]
  /\ port' = [p \in Pins |-> IF claims[p].use = "out" THEN Driven(p, Evaluated(Slots, g))
                             ELSE port[p]]
  /\ seen' = [s \in Slots |-> IF Armed(s) THEN Remember(s, g) ELSE seen[s]]

LEMMA TickParts == ASSUME Tick PROVE \E g : TickOf(g)
BY DEF Tick, TickOf

\* A tick of an armed slot: its history, and the filter of each of its pins.
LEMMA TickSlot ==
  ASSUME IInv, FInv, Tick, NEW g, TickOf(g), NEW s \in Slots, Armed(s),
         NEW P, P = Prog(s)
  PROVE  /\ P \in Programs
         /\ seen'[s] \in Seq([Ins(P) -> Level]) /\ Len(seen'[s]) >= 1
         /\ \A p \in Ins(P) : seen'[s][Len(seen'[s])][p] = Raw(p, g)
         /\ \A k \in 1..(Len(seen'[s]) - 1) :
              k <= Len(seen[s]) /\ seen'[s][Len(seen'[s]) - k] = seen[s][Len(seen[s]) - (k - 1)]
         /\ filt'[s] = Filtered(s, g) /\ DOMAIN filt'[s] = Ins(P)
         /\ slots'[s].tf = Vote(s, g)
         /\ Filtering(P, filt[s], seen[s]) /\ VoteFollows(P, filt[s], slots[s].tf)
<1>1. P \in Programs
  BY DEF IInv, ArmedProgram
<1>2. s \in Claimants
  BY UpClaimants DEF Tick
<1>3. Filtering(P, filt[s], seen[s]) /\ VoteFollows(P, filt[s], slots[s].tf)
  BY <1>2 DEF FInv
<1>4. seen[s] \in Seq([Ins(P) -> Level])
  BY <1>3 DEF Filtering
<1>5. \A p \in Ins(P) : Raw(p, g) \in Level
  BY <1>1, RawLevel, WatchOfProgram DEF TickOf
<1> PICK x : x = Sample(s, g)
  OBVIOUS
<1>6. x \in [Ins(P) -> Level] /\ \A p \in Ins(P) : x[p] = Raw(p, g)
  BY <1>5 DEF Sample
<1>7. seen'[s] = Remember(s, g) /\ filt'[s] = Filtered(s, g) /\ slots'[s].tf = Vote(s, g)
  <2>1. slots[s] \in Record
    BY TypeNames DEF IInv
  <2>2. slots'[s] = [slots[s] EXCEPT !.tf = Vote(s, g)]
    BY DEF TickOf, Evaluated
  <2> QED BY <2>1, <2>2 DEF TickOf, Record
<1>8. DOMAIN filt'[s] = Ins(P)
  BY <1>7 DEF Filtered
<1> PICK r : r = Reach(P)
  OBVIOUS
<1>9. r \in Nat \ {0}
  BY <1>1, ReachPositive
<1>10. seen'[s] = Pushed(seen[s], x, r)
  BY <1>7 DEF Remember, Pushed
<1>11. /\ seen'[s] \in Seq([Ins(P) -> Level]) /\ Len(seen'[s]) >= 1
       /\ seen'[s][Len(seen'[s])] = x
       /\ \A k \in 1..(Len(seen'[s]) - 1) :
            k <= Len(seen[s]) /\ seen'[s][Len(seen'[s]) - k] = seen[s][Len(seen[s]) - (k - 1)]
  <2>1. Extends(Pushed(seen[s], x, r), seen[s], x, [Ins(P) -> Level])
    BY <1>4, <1>6, <1>9, HistoryStep
  <2> QED BY <1>10, <2>1 DEF Extends
<1> QED BY <1>1, <1>3, <1>6, <1>7, <1>8, <1>11

\* The filter of one pin after a tick.
LEMMA TickFilter ==
  ASSUME IInv, FInv, Tick, NEW g, TickOf(g), NEW s \in Slots, Armed(s),
         NEW P, P = Prog(s), NEW p \in Ins(P), NEW w, w = P.watch[p],
         NEW f, f = filt[s][p], NEW n, n = filt'[s][p]
  PROVE  /\ Watch(w) /\ f \in FilterOf(w) /\ n \in FilterOf(w)
         /\ Raw(p, g) \in Levels[p] /\ Levels[p] \subseteq Level
         /\ w.depth # 0 => Levels[p] \subseteq {0, 1}
         /\ w.depth = 0 => (n.pass <=> Holds(w.op, Raw(p, g), Threshold(w, f.pass)))
         /\ w.depth # 0 =>
              /\ n.pass <=> Holds(w.op, n.deb, w.thr)
              /\ n.shift[w.depth] = Raw(p, g)
              /\ \A i \in 1..(w.depth - 1) : n.shift[i] = f.shift[i + 1]
              /\ (\A i \in 1..w.depth : n.shift[i] = 1) => n.deb = 1
              /\ (\A i \in 1..w.depth : n.shift[i] = 0) => n.deb = 0
              /\ (\E i, j \in 1..w.depth : n.shift[i] # n.shift[j]) => n.deb = f.deb
<1>1. /\ P \in Programs /\ filt'[s] = Filtered(s, g)
      /\ f \in FilterOf(w) /\ Tracks(w, f, seen[s], p)
  BY TickSlot DEF Filtering
<1>2. /\ Watch(w) /\ Levels[p] \subseteq Level
      /\ w.depth # 0 => Levels[p] \subseteq {0, 1}
  BY <1>1, WatchOfProgram
<1> PICK x : x = Raw(p, g)
  OBVIOUS
<1>3. x \in Levels[p]
  BY <1>1, RawLevel DEF TickOf
<1>4. n = Stepped(w, f, x)
  BY <1>1 DEF Filtered, Stepped
<1>5. x \in Level /\ (w.depth # 0 => x \in {0, 1})
  BY <1>2, <1>3
<1>6. StepsFilter(w, f, x, n)
  <2>1. Watch(w) /\ f \in FilterOf(w)
    BY <1>1, <1>2
  <2> QED BY <1>4, <1>5, <2>1, FilterStep
<1> QED BY <1>1, <1>2, <1>3, <1>6 DEF StepsFilter

\* The shift register still holds the last samples.
LEMMA TickFiltering ==
  ASSUME IInv, FInv, Tick, NEW g, TickOf(g), NEW s \in Slots, Armed(s),
         NEW P, P = Prog(s)
  PROVE  Filtering(P, filt'[s], seen'[s])
<1> PICK h, new, f, n : h = seen[s] /\ new = seen'[s] /\ f = filt[s] /\ n = filt'[s]
  OBVIOUS
<1>1. /\ new \in Seq([Ins(P) -> Level]) /\ Len(new) >= 1 /\ DOMAIN n = Ins(P)
      /\ \A p \in Ins(P) : new[Len(new)][p] = Raw(p, g)
      /\ \A k \in 1..(Len(new) - 1) : k <= Len(h) /\ new[Len(new) - k] = h[Len(h) - (k - 1)]
      /\ Filtering(P, f, h)
  BY TickSlot
<1>2. ASSUME NEW p \in Ins(P)
      PROVE  n[p] \in FilterOf(P.watch[p]) /\ Tracks(P.watch[p], n[p], new, p)
  <2> PICK w : w = P.watch[p]
    OBVIOUS
  <2>1. /\ Watch(w) /\ n[p] \in FilterOf(w)
        /\ w.depth # 0 =>
             /\ n[p].shift[w.depth] = Raw(p, g)
             /\ \A i \in 1..(w.depth - 1) : n[p].shift[i] = f[p].shift[i + 1]
    BY TickFilter
  <2>2. Tracks(w, f[p], h, p)
    BY <1>1 DEF Filtering
  <2>3. w.depth \in Nat /\ Len(new) \in Nat /\ Len(h) \in Nat
    <3>1. h \in Seq([Ins(P) -> Level])
      BY <1>1 DEF Filtering
    <3>2. w.depth \in Nat
      BY <2>1 DEF Watch
    <3> QED BY <1>1, <3>1, <3>2
  <2>4. ASSUME NEW k \in 0..(w.depth - 1), k < Len(new)
        PROVE  new[Len(new) - k][p] = n[p].shift[w.depth - k]
    <3>1. CASE k = 0
      <4>1. Len(new) - k = Len(new) /\ w.depth - k = w.depth /\ w.depth # 0
        BY <2>3, <3>1
      <4> QED BY <1>1, <2>1, <4>1
    <3>2. CASE k # 0
      <4>1. k \in 1..(Len(new) - 1) /\ k - 1 \in 0..(w.depth - 1)
        BY <2>3, <2>4, <3>2
      <4>2. k <= Len(h) /\ new[Len(new) - k] = h[Len(h) - (k - 1)]
        BY <1>1, <4>1
      <4>3. h[Len(h) - (k - 1)][p] = f[p].shift[w.depth - (k - 1)]
        <5>1. k - 1 < Len(h)
          BY <2>3, <4>1, <4>2
        <5> QED BY <2>2, <4>1, <5>1 DEF Tracks
      <4>4. w.depth - k \in 1..(w.depth - 1) /\ w.depth # 0
        BY <2>3, <3>2
      <4>5. n[p].shift[w.depth - k] = f[p].shift[(w.depth - k) + 1]
        BY <2>1, <4>4
      <4>6. (w.depth - k) + 1 = w.depth - (k - 1)
        BY <2>3
      <4> QED BY <4>2, <4>3, <4>5, <4>6
    <3> QED BY <3>1, <3>2
  <2> QED BY <2>1, <2>4 DEF Tracks
<1> QED BY <1>1, <1>2 DEF Filtering

\* A vote is cast by the filters as they are when the tick is over.
LEMMA TickVote ==
  ASSUME IInv, FInv, Tick, NEW g, TickOf(g), NEW s \in Slots, Armed(s),
         NEW P, P = Prog(s)
  PROVE  /\ VoteFollows(P, filt'[s], slots'[s].tf)
         /\ slots'[s].tf = IF \A p \in Ins(P) : filt'[s][p].pass THEN "true" ELSE "false"
<1>1. filt'[s] = Filtered(s, g) /\ slots'[s].tf = Vote(s, g)
  BY TickSlot
<1>2. slots'[s].tf = IF \A p \in Ins(P) : filt'[s][p].pass THEN "true" ELSE "false"
  BY <1>1 DEF Vote
<1>3. \A p \in Ins(P) :
        P.watch[p].depth # 0 =>
          (filt'[s][p].pass <=> Holds(P.watch[p].op, filt'[s][p].deb, P.watch[p].thr))
  BY TickFilter
<1>4. slots'[s].tf = "true" <=> \A p \in Ins(P) : filt'[s][p].pass
  BY <1>2
<1> QED BY <1>2, <1>3, <1>4 DEF VoteFollows

LEMMA TickKeeps ==
  ASSUME IInv, FInv, Tick
  PROVE  FInv'
<1>1. PICK g : TickOf(g)
  BY TickParts
<1>2. \A s \in Slots : slots'[s].state = slots[s].state /\ slots'[s].prog = slots[s].prog
  BY <1>1, EvaluatedVotes DEF TickOf, IInv
<1>3. \A s \in Slots : Armed(s)' = Armed(s) /\ Prog(s)' = Prog(s)
  BY <1>2 DEF Armed, Prog
<1>4. Claimants' = Claimants /\ Claimants = {s \in Slots : Armed(s)}
  BY <1>3, UpClaimants DEF Tick, Claimants
<1>5. DOMAIN filt' = Slots /\ DOMAIN seen' = Slots
  BY <1>1 DEF TickOf
<1>6. ASSUME NEW s \in Slots, Armed(s)
      PROVE  /\ Filtering(Prog(s), filt'[s], seen'[s])
             /\ VoteFollows(Prog(s), filt'[s], slots'[s].tf)
             /\ Ins(Prog(s)) = {} => slots'[s].tf # "false"
  BY <1>1, <1>6, TickFiltering, TickVote
<1>7. \A s \in Slots : ~(s >= stage')
  BY SlotsAssumption DEF Tick, Up, Slots
<1> QED BY <1>3, <1>4, <1>5, <1>6, <1>7 DEF FInv

-----------------------------------------------------------------------------
(***************************************************************************)
(* The other steps.                                                        *)
(***************************************************************************)
LEMMA FreshFilter ==
  ASSUME NEW P \in Programs
  PROVE  Filtering(P, Clear(P), <<>>) /\ \A f : VoteFollows(P, f, "none")
<1>1. \A p \in Ins(P) : Clear(P)[p] \in FilterOf(P.watch[p])
  BY WatchOfProgram DEF Clear, FilterOf, Watch
<1>2. \A p \in Ins(P) : \A f : Tracks(P.watch[p], f, <<>>, p)
  BY WatchOfProgram DEF Tracks, Watch
<1>3. DOMAIN Clear(P) = Ins(P) /\ <<>> \in Seq([Ins(P) -> Level])
  BY DEF Clear
<1> QED BY <1>1, <1>2, <1>3 DEF Filtering, VoteFollows

LEMMA InitFilters == Init => FInv
<1> SUFFICES ASSUME Init PROVE FInv
  OBVIOUS
<1>1. \A s \in Slots : ~Armed(s) /\ seen[s] = <<>>
  BY DEF Init, Armed, Vacant
<1> QED BY <1>1 DEF FInv, Init, Claimants

\* A step that evaluates, arms and disarms nothing.
LEMMA QuietKeeps ==
  ASSUME FInv, UNCHANGED <<slots, stage, filt, seen>>
  PROVE  FInv'
BY DEF FInv, Claimants, Armed, Prog, Filtering, VoteFollows

\* After a reset no slot has claimed, and nothing has been read.
LEMMA ResetKeeps ==
  ASSUME FInv, stage' = -1, DOMAIN filt' = Slots, seen' = [s \in Slots |-> <<>>],
         \A s \in Slots : Armed(s)' => /\ Armed(s) /\ Prog(s)' = Prog(s)
                                       /\ \/ slots'[s].tf = slots[s].tf
                                          \/ Ins(Prog(s)) = {} => slots'[s].tf # "false"
  PROVE  FInv'
<1>1. Claimants' = {}
  BY SlotsAssumption DEF Claimants, Slots
<1>2. \A s \in Slots : Armed(s)' /\ Ins(Prog(s)') = {} => slots'[s].tf # "false"
  BY DEF FInv
<1> QED BY <1>1, <1>2 DEF FInv, Ins

LEMMA BootKeeps ==
  ASSUME IInv, FInv, BootDecide
  PROVE  FInv'
<1>1. Claimants' = {}
  BY SlotsAssumption DEF BootDecide, Claimants, Slots
<1>2. \A s \in Slots : seen[s] = <<>>
  BY SlotsAssumption DEF BootDecide, Slots, FInv
<1>3. ASSUME NEW s \in Slots, Armed(s)'
      PROVE  Armed(s) /\ Prog(s)' = Prog(s) /\ slots'[s].tf = slots[s].tf
  <2>1. slots[s] \in Record /\ slots'[s] = IF valid THEN Counted(slots[s]) ELSE Vacant
    BY TypeNames DEF IInv, BootDecide
  <2>2. slots'[s].state = "armed"
    BY <1>3 DEF Armed
  <2> QED BY <2>1, <2>2 DEF Armed, Prog, Counted, Vacant, Record
<1>4. \A s \in Slots : Armed(s)' /\ Ins(Prog(s)') = {} => slots'[s].tf # "false"
  BY <1>3 DEF FInv
<1> QED BY <1>1, <1>2, <1>4 DEF FInv, BootDecide, Ins

\* A slot that starts with clear filters and no vote.
LEMMA ArmKeeps ==
  ASSUME IInv, FInv, NEW s \in Slots, NEW P \in Programs, Up, ~Armed(s),
         Install(s, P), stage' = stage
  PROVE  FInv'
<1>1. /\ slots' = [slots EXCEPT ![s] = Installed(P)] /\ slots \in [Slots -> Record]
      /\ filt' = [filt EXCEPT ![s] = Clear(P)] /\ DOMAIN filt = Slots
      /\ seen' = [seen EXCEPT ![s] = <<>>] /\ DOMAIN seen = Slots
  BY TypeNames DEF Install, IInv, FInv
<1>2. /\ Prog(s)' = P /\ slots'[s].tf = "none" /\ filt'[s] = Clear(P) /\ seen'[s] = <<>>
      /\ \A t \in Slots \ {s} : /\ slots'[t] = slots[t] /\ filt'[t] = filt[t]
                                /\ seen'[t] = seen[t]
                                /\ Armed(t)' = Armed(t) /\ Prog(t)' = Prog(t)
  BY <1>1 DEF Armed, Prog, Installed
<1>3. \A t \in Slots \ {s} : t \in Claimants' <=> t \in Claimants
  BY <1>2 DEF Claimants
<1>4. /\ Filtering(Prog(s)', filt'[s], seen'[s])
      /\ VoteFollows(Prog(s)', filt'[s], slots'[s].tf)
  BY <1>2, FreshFilter
<1>5. ASSUME NEW t \in Claimants'
      PROVE  /\ Filtering(Prog(t)', filt'[t], seen'[t])
             /\ VoteFollows(Prog(t)', filt'[t], slots'[t].tf)
  <2>1. t \in Slots
    BY DEF Claimants
  <2> QED BY <1>2, <1>3, <1>4, <2>1 DEF FInv
<1>6. \A t \in Slots : t >= stage' => seen'[t] = <<>>
  BY <1>2 DEF FInv
<1>7. \A t \in Slots : Armed(t)' /\ Ins(Prog(t)') = {} => slots'[t].tf # "false"
  BY <1>2 DEF FInv
<1> QED BY <1>1, <1>5, <1>6, <1>7 DEF FInv, Ins, Filtering, VoteFollows

LEMMA DisarmKeeps ==
  ASSUME IInv, FInv, NEW s \in Slots, Disarm(s)
  PROVE  FInv'
<1>1. /\ slots' = [slots EXCEPT ![s] = Vacant] /\ slots \in [Slots -> Record]
      /\ filt' = [filt EXCEPT ![s] = <<>>] /\ DOMAIN filt = Slots
      /\ seen' = [seen EXCEPT ![s] = <<>>] /\ DOMAIN seen = Slots
      /\ stage' = stage
  BY TypeNames DEF Disarm, IInv, FInv
<1>2. /\ ~Armed(s)' /\ seen'[s] = <<>>
      /\ \A t \in Slots \ {s} : /\ slots'[t] = slots[t] /\ filt'[t] = filt[t]
                                /\ seen'[t] = seen[t]
                                /\ Armed(t)' = Armed(t) /\ Prog(t)' = Prog(t)
  BY <1>1 DEF Armed, Prog, Vacant
<1>3. \A t \in Claimants' : t \in Claimants /\ t \in Slots \ {s}
  BY <1>1, <1>2 DEF Claimants
<1>4. \A t \in Claimants' : /\ Filtering(Prog(t)', filt'[t], seen'[t])
                            /\ VoteFollows(Prog(t)', filt'[t], slots'[t].tf)
  BY <1>2, <1>3 DEF FInv
<1>5. \A t \in Slots : t >= stage' => seen'[t] = <<>>
  BY <1>1, <1>2 DEF FInv
<1>6. \A t \in Slots : Armed(t)' /\ Ins(Prog(t)') = {} => slots'[t].tf # "false"
  BY <1>2 DEF FInv
<1> QED BY <1>1, <1>4, <1>5, <1>6 DEF FInv, Ins, Filtering, VoteFollows

\* A restored slot starts anew; one of the registry keeps its vote, which no
\* pin can have made false.
LEMMA RestoreKeepsFilters ==
  ASSUME IInv, FInv, Restore
  PROVE  FInv'
<1>1. PICK s \in Slots : s = stage /\ stage' = s + 1
  BY DEF Restore
<1>2. \A t \in Slots : Armed(t)' = Armed(t) /\ Prog(t)' = Prog(t)
  BY RestoreSame DEF Armed, Prog
<1>3. /\ seen' = seen /\ seen[s] = <<>>
      /\ \A t \in Slots : t >= stage' => seen'[t] = <<>>
  BY <1>1, SlotsAssumption DEF Restore, FInv, Slots
<1>4. /\ DOMAIN filt' = Slots
      /\ \A t \in Slots \ {s} : filt'[t] = filt[t] /\ slots'[t] = slots[t]
      /\ Armed(s) => /\ filt'[s] = Clear(Prog(s))
                     /\ \/ slots'[s].tf = "none"
                        \/ slots'[s] = slots[s] /\ Prog(s) \in Compiled
  <2>1. slots \in [Slots -> Record] /\ DOMAIN filt = Slots /\ Prog(s) = slots[s].prog
    BY TypeNames DEF IInv, FInv, Prog
  <2>2. CASE ~Armed(s)
    BY <1>1, <2>1, <2>2 DEF Restore
  <2>3. CASE Armed(s) /\ Prog(s) \in Compiled
    BY <1>1, <2>1, <2>3 DEF Restore
  <2>4. CASE Armed(s) /\ Prog(s) \notin Compiled
    <3>1. MayClaim(s, Prog(s), claims)
      BY <1>1, <2>4, RestoreMayClaim
    <3>2. /\ slots' = [slots EXCEPT ![s].tf = "none"]
          /\ filt' = [filt EXCEPT ![s] = Clear(Prog(s))]
      BY <1>1, <2>1, <2>4, <3>1 DEF Restore
    <3> QED BY <2>1, <3>2 DEF Record
  <2> QED BY <2>2, <2>3, <2>4
<1>5. \A t \in Slots \ {s} : t \in Claimants' => t \in Claimants
  BY <1>1, <1>2, SlotsAssumption DEF Claimants, Slots
<1>6. ASSUME NEW t \in Claimants'
      PROVE  /\ Filtering(Prog(t), filt'[t], seen'[t])
             /\ VoteFollows(Prog(t), filt'[t], slots'[t].tf)
  <2>1. t \in Slots /\ Armed(t)
    BY <1>2 DEF Claimants
  <2>2. CASE t # s
    BY <1>3, <1>4, <1>5, <2>1, <2>2 DEF FInv
  <2>3. CASE t = s
    <3>1. Prog(s) \in Programs /\ filt'[s] = Clear(Prog(s)) /\ seen'[s] = <<>>
      BY <1>3, <1>4, <2>1, <2>3 DEF IInv, ArmedProgram
    <3>2. VoteFollows(Prog(s), filt'[s], slots'[s].tf)
      <4>1. CASE slots'[s].tf = "none"
        BY <4>1 DEF VoteFollows
      <4>2. CASE slots'[s] = slots[s] /\ Prog(s) \in Compiled
        <5>1. Ins(Prog(s)) = {}
          BY <3>1, <4>2, PinsOfProgram
        <5>2. slots'[s].tf # "false" /\ slots'[s].tf \in {"none", "true", "false"}
          BY <2>1, <2>3, <4>2, <5>1, TypeNames DEF FInv, IInv, Record, Votes
        <5> QED BY <5>1, <5>2 DEF VoteFollows
      <4> QED BY <1>4, <2>1, <2>3, <4>1, <4>2
    <3> QED BY <2>3, <3>1, <3>2, FreshFilter
  <2> QED BY <2>2, <2>3
<1>7. ASSUME NEW t \in Slots, Armed(t), Ins(Prog(t)) = {} PROVE slots'[t].tf # "false"
  BY <1>4, <1>7 DEF FInv
<1>8. \A t \in Claimants' : t \in Slots
  BY DEF Claimants
<1>9. \A t \in Claimants' : /\ Filtering(Prog(t)', filt'[t], seen'[t])
                            /\ VoteFollows(Prog(t)', filt'[t], slots'[t].tf)
  BY <1>2, <1>6, <1>8
<1>10. \A t \in Slots : Armed(t)' /\ Ins(Prog(t)') = {} => slots'[t].tf # "false"
  BY <1>2, <1>7
<1>11. DOMAIN filt' = Slots /\ DOMAIN seen' = Slots
  BY <1>3, <1>4 DEF FInv
<1> QED BY <1>3, <1>9, <1>10, <1>11 DEF FInv, Ins, Filtering, VoteFollows

LEMMA NextFilters ==
  ASSUME IInv, FInv, [Next]_vars
  PROVE  FInv'
<1>1. CASE BootDecide
  BY <1>1, BootKeeps
<1>2. CASE Restore
  BY <1>2, RestoreKeepsFilters
<1>3. CASE Tick
  BY <1>3, TickKeeps
<1>4. ASSUME Reset, UNCHANGED slots PROVE FInv'
  BY <1>4, ResetKeeps DEF Reset, Armed, Prog
<1>5. ASSUME NEW s \in Slots, Hang(s) PROVE FInv'
  <2>1. PICK g : slots' = Evaluated({t \in Slots : t < s}, g)
    BY <1>5 DEF Hang
  <2>2. \A t \in Slots : /\ slots'[t].state = slots[t].state /\ slots'[t].prog = slots[t].prog
    BY <2>1, EvaluatedVotes DEF IInv
  <2>3. ASSUME NEW t \in Slots
        PROVE  \/ slots'[t].tf = slots[t].tf
               \/ Ins(Prog(t)) = {} => slots'[t].tf # "false"
    <3>1. slots[t] \in Record
      BY TypeNames DEF IInv
    <3>2. slots'[t] = slots[t] \/ slots'[t] = [slots[t] EXCEPT !.tf = Vote(t, g)]
      BY <2>1 DEF Evaluated
    <3>3. Ins(Prog(t)) = {} => Vote(t, g) = "true"
      BY DEF Vote
    <3> QED BY <3>1, <3>2, <3>3 DEF Record
  <2> QED BY <1>5, <2>2, <2>3, ResetKeeps DEF Hang, Reset, Armed, Prog
<1>6. ASSUME NEW s \in Slots, Disarm(s) PROVE FInv'
  BY <1>6, DisarmKeeps
<1>7. ASSUME NEW s \in Slots, NEW P \in Programs, ArmCompiled(s, P) PROVE FInv'
  BY <1>7, ArmKeeps DEF ArmCompiled
<1>8. ASSUME NEW s \in Slots, NEW P \in Programs, SetDsl(s, P) PROVE FInv'
  <2>1. CASE MayClaim(s, P, claims)
    BY <1>8, <2>1, ArmKeeps DEF SetDsl
  <2>2. CASE ~MayClaim(s, P, claims)
    BY <1>8, <2>2, QuietKeeps DEF SetDsl
  <2> QED BY <2>1, <2>2
<1>9. Corrupt \/ Shell \/ UNCHANGED vars => UNCHANGED <<slots, stage, filt, seen>>
  BY DEF Corrupt, Shell, GpioWrite, GpioConfig, vars
<1>10. Panic \/ WarmReset \/ PowerOn => Reset /\ UNCHANGED slots
  BY DEF Panic, WarmReset, PowerOn
<1> QED
  BY <1>1, <1>2, <1>3, <1>4, <1>5, <1>6, <1>7, <1>8, <1>9, <1>10, QuietKeeps
     DEF Next, Board, Operator, Trouble

LEMMA Filters == Spec => []FInv
<1>1. Init => FInv
  BY InitFilters
<1>2. IInv /\ FInv /\ [Next]_vars => FInv'
  BY NextFilters
<1> QED BY <1>1, <1>2, Invariant, PTL DEF Spec

-----------------------------------------------------------------------------
(***************************************************************************)
(* A claimed output is driven.                                             *)
(***************************************************************************)
\* Claiming turns on the driver of an output that had no owner.
LEMMA AcquireDrives ==
  ASSUME TypeOK, OutputsOn, NEW s \in Slots, NEW P \in Programs,
         MayClaim(s, P, claims), Acquire(s, P)
  PROVE  OutputsOn'
<1> SUFFICES ASSUME NEW p \in Pins, claims'[p].owners # {}, claims'[p].use = "out"
             PROVE  port'[p].out
  BY DEF OutputsOn
<1>1. claims[p] \in ClaimRec /\ port[p] \in PortRec
  BY TypeNames
<1>2. p \notin Ins(P)
  BY DEF Acquire, Claim
<1>3. CASE p \in Outs(P)
  <2>1. CASE claims[p].owners = {}
    BY <1>1, <1>2, <1>3, <2>1 DEF Acquire, Configure, PortRec
  <2>2. CASE claims[p].owners # {}
    <3>1. claims[p].use = "out" /\ port'[p] = port[p]
      BY <1>2, <1>3, <2>2 DEF MayClaim, Acquire, Configure
    <3> QED BY <2>2, <3>1 DEF OutputsOn
  <2> QED BY <2>1, <2>2
<1>4. CASE p \notin Outs(P)
  <2>1. claims'[p] = claims[p] /\ port'[p] = port[p]
    BY <1>2, <1>4 DEF Acquire, Claim, Configure
  <2> QED BY <2>1 DEF OutputsOn
<1> QED BY <1>3, <1>4

\* A refused claim leaves the owned pins alone.
LEMMA RefuseDrives ==
  ASSUME OutputsOn, NEW P, Refuse(P)
  PROVE  OutputsOn'
BY DEF OutputsOn, Refuse

\* Giving up a pin that stays owned leaves it alone.
LEMMA DisarmDrives ==
  ASSUME TypeOK, OutputsOn, NEW s \in Slots, Disarm(s)
  PROVE  OutputsOn'
<1> SUFFICES ASSUME NEW p \in Pins, claims'[p].owners # {}, claims'[p].use = "out"
             PROVE  port'[p].out
  BY DEF OutputsOn
<1>1. claims[p] \in ClaimRec
  BY TypeNames
<1>2. claims[p].owners # {s}
  BY DEF Disarm, Released, Unclaimed
<1>3. claims[p].owners # {} /\ claims[p].use = "out" /\ port'[p] = port[p]
  BY <1>1, <1>2 DEF Disarm, Released, MadeSafe, ClaimRec
<1> QED BY <1>3 DEF OutputsOn

LEMMA TickDrives ==
  ASSUME TypeOK, OutputsOn, Tick
  PROVE  OutputsOn'
<1>1. PICK g : TickOf(g)
  BY TickParts
<1>2. ASSUME NEW p \in Pins PROVE port'[p].out = port[p].out
  BY <1>1, TypeNames DEF TickOf, Driven, PortRec
<1> QED BY <1>2 DEF OutputsOn, Tick

\* The shell makes outputs only.
LEMMA ShellDrives ==
  ASSUME NoInputs, TypeOK, OutputsOn, Shell
  PROVE  OutputsOn'
<1>1. claims' = claims
  BY DEF Shell, GpioWrite, GpioConfig
<1>2. ASSUME NEW p \in Pins, port[p].out PROVE port'[p].out
  <2>1. port \in [Pins -> PortRec]
    BY TypeNames
  <2>2. ASSUME NEW q, NEW level, GpioWrite(q, level) PROVE port'[p].out
    BY <1>2, <2>1, <2>2 DEF GpioWrite, PortRec
  <2>3. ASSUME NEW q, NEW mode \in Commands \ {"write"}, GpioConfig(q, mode) PROVE port'[p].out
    <3>1. mode = "output"
      BY DEF NoInputs
    <3>2. PICK level : port' = [port EXCEPT ![q] = [out |-> mode = "output", level |-> level]]
      BY <2>3 DEF GpioConfig
    <3> QED BY <1>2, <2>1, <3>1, <3>2
  <2> QED BY <2>2, <2>3 DEF Shell
<1> QED BY <1>1, <1>2 DEF OutputsOn

LEMMA NextDrives ==
  ASSUME NoInputs, IInv, OutputsOn, [Next]_vars
  PROVE  OutputsOn'
<1> USE DEF IInv
<1>1. CASE Tick
  BY <1>1, TickDrives
<1>2. CASE Restore
  <2>1. CASE UNCHANGED <<claims, port>>
    BY <2>1 DEF OutputsOn
  <2>2. CASE ~UNCHANGED <<claims, port>>
    <3> PICK P : P = Prog(stage)
      OBVIOUS
    <3>1. stage \in Slots /\ Armed(stage) /\ P = slots[stage].prog
      BY <1>2, <2>2 DEF Restore, Prog
    <3>2. P \in Programs /\ MayClaim(stage, P, claims)
      BY <3>1, RestoreMayClaim
    <3>3. Acquire(stage, P)
      BY <1>2, <2>2, <3>1, <3>2 DEF Restore
    <3> QED BY <3>1, <3>2, <3>3, AcquireDrives
  <2> QED BY <2>1, <2>2
<1>3. ASSUME NEW s \in Slots, NEW P \in Programs, SetDsl(s, P) PROVE OutputsOn'
  BY <1>3, AcquireDrives, RefuseDrives DEF SetDsl
<1>4. ASSUME NEW s \in Slots, Disarm(s) PROVE OutputsOn'
  BY <1>4, DisarmDrives
<1>5. CASE Shell
  BY <1>5, ShellDrives
<1>6. CASE Reset
  BY <1>6 DEF Reset, OutputsOn, Unclaimed
<1>7. CASE UNCHANGED <<claims, port>>
  BY <1>7 DEF OutputsOn
<1>8. Panic \/ WarmReset \/ PowerOn \/ (\E s \in Slots : Hang(s)) => Reset
  BY DEF Panic, WarmReset, PowerOn, Hang
<1>9. BootDecide \/ Corrupt \/ UNCHANGED vars => UNCHANGED <<claims, port>>
  BY DEF BootDecide, Corrupt, vars
<1>10. (\E s \in Slots : \E P \in Programs : ArmCompiled(s, P)) => UNCHANGED <<claims, port>>
  BY DEF ArmCompiled
<1> QED
  BY <1>1, <1>2, <1>3, <1>4, <1>5, <1>6, <1>7, <1>8, <1>9, <1>10
     DEF Next, Board, Operator, Trouble

LEMMA Driving == ASSUME NoInputs PROVE Spec => []OutputsOn
<1>1. Init => OutputsOn
  BY DEF Init, OutputsOn, Unclaimed
<1>2. IInv /\ OutputsOn /\ [Next]_vars => OutputsOn'
  BY NextDrives
<1> QED BY <1>1, <1>2, Invariant, PTL DEF Spec

-----------------------------------------------------------------------------
(***************************************************************************)
(* The verdicts.                                                           *)
(***************************************************************************)
\* The last samples of a debounced pin are the bits of its shift register.
LEMMA TickBits ==
  ASSUME IInv, FInv, Tick, NEW g, TickOf(g), NEW s \in Slots, Armed(s),
         NEW p \in Ins(Prog(s))
  PROVE  Tracks(Prog(s).watch[p], filt'[s][p], seen'[s], p)
<1>1. Filtering(Prog(s), filt'[s], seen'[s])
  BY TickFiltering
<1> QED BY <1>1 DEF Filtering

\* What has been read for the debounce depth is what is compared.
LEMMA SteadyLevel ==
  ASSUME IInv, FInv, Tick, NEW g, TickOf(g), NEW s \in Slots, Armed(s),
         NEW P, P = Prog(s), NEW p \in Ins(P), NEW w, w = P.watch[p],
         NEW V, Steadily(s, p, V)
  PROVE  IF w.depth = 0 THEN Raw(p, g) \in V ELSE filt'[s][p].deb \in V
<1> PICK h, f, n : h = seen'[s] /\ f = filt[s][p] /\ n = filt'[s][p]
  OBVIOUS
<1>1. /\ Len(h) \in Nat /\ Len(h) >= Depth(w)
      /\ \A i \in 0..(Depth(w) - 1) : h[Len(h) - i][p] \in V
      /\ h[Len(h)][p] = Raw(p, g)
  <2>1. h \in Seq([Ins(P) -> Level]) /\ h[Len(h)][p] = Raw(p, g)
    BY TickSlot
  <2> QED BY <2>1 DEF Steadily
<1>2. /\ Watch(w) /\ n \in FilterOf(w)
      /\ w.depth # 0 => /\ (\A i \in 1..w.depth : n.shift[i] = 1) => n.deb = 1
                        /\ (\A i \in 1..w.depth : n.shift[i] = 0) => n.deb = 0
  BY TickFilter
<1>3. CASE w.depth = 0
  <2>1. 0 \in 0..(Depth(w) - 1) /\ Len(h) - 0 = Len(h)
    BY <1>1, <1>3 DEF Depth
  <2>2. h[Len(h) - 0][p] \in V
    BY <1>1, <2>1
  <2> QED BY <1>1, <1>3, <2>1, <2>2
<1>4. CASE w.depth # 0
  <2> PICK d \in 2..15 : d = w.depth /\ d = Depth(w)
    BY <1>2, <1>4 DEF Watch, Depth
  <2> PICK len \in Nat : len = Len(h) /\ d <= len
    BY <1>1
  <2>1. Tracks(w, n, h, p)
    BY TickBits
  <2>2. ASSUME NEW k \in 1..d PROVE n.shift[k] \in V
    <3> PICK i \in 0..(d - 1) : i = d - k
      OBVIOUS
    <3>1. i < len /\ d - i = k
      OBVIOUS
    <3>2. i \in 0..(w.depth - 1) /\ i < Len(h) /\ i \in 0..(Depth(w) - 1)
      BY <3>1
    <3>3. h[Len(h) - i][p] = n.shift[w.depth - i]
      BY <2>1, <3>2 DEF Tracks
    <3>4. h[Len(h) - i][p] \in V
      BY <1>1, <3>2, Zenon
    <3> QED BY <3>1, <3>3, <3>4
  <2>3. /\ n \in FilterOf(w)
        /\ (\A i \in 1..d : n.shift[i] = 1) => n.deb = 1
        /\ (\A i \in 1..d : n.shift[i] = 0) => n.deb = 0
    BY <1>2, <1>4
  <2>4. n.deb \in {0, 1} /\ \A k \in 1..d : n.shift[k] \in {0, 1}
    BY <2>3 DEF FilterOf
  <2>5. n.deb \in V
    <3>1. 1 \in 1..d
      OBVIOUS
    <3>2. CASE \A k \in 1..d : n.shift[k] = 1
      BY <2>2, <2>3, <3>1, <3>2
    <3>3. CASE \A k \in 1..d : n.shift[k] = 0
      BY <2>2, <2>3, <3>1, <3>3
    <3>4. CASE 0 \in V /\ 1 \in V
      BY <2>4, <3>4
    <3> QED BY <2>2, <2>4, <3>2, <3>3, <3>4
  <2> QED BY <1>4, <2>5
<1> QED BY <1>3, <1>4

\* What is plainly so for the debounce depth is the verdict.
LEMMA SteadyVerdict ==
  ASSUME IInv, FInv, Tick, NEW g, TickOf(g), NEW s \in Slots, Armed(s),
         NEW P, P = Prog(s), NEW p \in Ins(P), NEW b \in BOOLEAN,
         Steadily(s, p, Clearly(s, p, b))
  PROVE  filt'[s][p].pass = b
<1> PICK w, f, n : w = P.watch[p] /\ f = filt[s][p] /\ n = filt'[s][p]
  OBVIOUS
<1>1. /\ Watch(w) /\ f \in FilterOf(w) /\ n \in FilterOf(w) /\ Levels[p] \subseteq Level
      /\ w.depth = 0 => (n.pass <=> Holds(w.op, Raw(p, g), Threshold(w, f.pass)))
      /\ w.depth # 0 => (n.pass <=> Holds(w.op, n.deb, w.thr))
  BY TickFilter
<1>2. n.pass \in BOOLEAN /\ f.pass \in BOOLEAN
  BY <1>1 DEF FilterOf
<1> PICK v : v = IF w.depth = 0 THEN Raw(p, g) ELSE n.deb
  OBVIOUS
<1>3. v \in Clearly(s, p, b)
  BY SteadyLevel, Zenon
<1>4. /\ v \in Level
      /\ b => Holds(w.op, v, w.thr)
      /\ ~b => ~Holds(w.op, v, w.thr) /\ ~Holds(w.op, Eased(w, v), w.thr)
  BY <1>1, <1>3 DEF Clearly
<1>5. CASE w.depth = 0
  <2> PICK t : t = Threshold(w, f.pass)
    OBVIOUS
  <2>1. n.pass <=> Holds(w.op, v, t)
    BY <1>1, <1>5
  <2>2. Holds(w.op, v, w.thr) => Holds(w.op, v, t)
    BY <1>1, <1>2, <1>4, DeadBand
  <2>3. ~Holds(w.op, v, w.thr) /\ ~Holds(w.op, Eased(w, v), w.thr) => ~Holds(w.op, v, t)
    BY <1>1, <1>2, <1>4, DeadBand
  <2> QED BY <1>2, <1>4, <2>1, <2>2, <2>3
<1>6. CASE w.depth # 0
  BY <1>1, <1>2, <1>4, <1>6
<1> QED BY <1>5, <1>6

\* What is neither is as it was.
LEMMA UndecidedVerdict ==
  ASSUME BandsFit, IInv, FInv, Tick, NEW g, TickOf(g), NEW s \in Slots, Armed(s),
         slots[s].tf # "none", NEW P, P = Prog(s), NEW p \in Ins(P), Undecided(s, p)
  PROVE  filt'[s][p].pass = filt[s][p].pass
<1> PICK w, f, n, h : w = P.watch[p] /\ f = filt[s][p] /\ n = filt'[s][p] /\ h = seen'[s]
  OBVIOUS
<1>1. /\ Watch(w) /\ f \in FilterOf(w) /\ n \in FilterOf(w)
      /\ Raw(p, g) \in Levels[p] /\ Levels[p] \subseteq Level
      /\ w.depth = 0 => (n.pass <=> Holds(w.op, Raw(p, g), Threshold(w, f.pass)))
      /\ w.depth # 0 =>
           /\ n.pass <=> Holds(w.op, n.deb, w.thr)
           /\ (\E i, j \in 1..w.depth : n.shift[i] # n.shift[j]) => n.deb = f.deb
  BY TickFilter
<1>2. n.pass \in BOOLEAN /\ f.pass \in BOOLEAN
  BY <1>1 DEF FilterOf
<1>3. /\ P \in Programs
      /\ VoteFollows(P, filt[s], slots[s].tf)
      /\ h \in Seq([Ins(P) -> Level]) /\ Len(h) >= 1
      /\ h[Len(h)][p] = Raw(p, g)
  BY TickSlot
<1>4. Tracks(w, n, h, p)
  BY TickBits
<1>5. CASE w.depth = 0
  <2> PICK v, t : v = Raw(p, g) /\ t = Threshold(w, f.pass)
    OBVIOUS
  <2>0. w.depth < 2 /\ w = Prog(s).watch[p]
    BY <1>5
  <2>1. v \notin Clearly(s, p, TRUE) \cup Clearly(s, p, FALSE)
    BY <1>3, <2>0, Zenon DEF Undecided
  <2>2. ~Holds(w.op, v, w.thr) /\ Holds(w.op, Eased(w, v), w.thr)
    BY <1>1, <2>1 DEF Clearly
  <2>3. /\ w.op = "gt" => w.hyst <= w.thr
        /\ w.op = "lt" => w.thr + w.hyst <= UINT16_MAX
    BY <1>3 DEF BandsFit
  <2>4. Holds(w.op, v, t) <=> f.pass
    BY <1>1, <1>2, <2>2, <2>3, DeadBand
  <2> QED BY <1>1, <1>2, <1>5, <2>4
<1>6. CASE w.depth # 0
  <2> PICK d \in 2..15 : d = w.depth
    BY <1>1, <1>6 DEF Watch
  <2>1. ~(w.depth < 2)
    OBVIOUS
  <2>2. Len(h) >= w.depth /\ \E i \in 0..(w.depth - 1) : h[Len(h) - i][p] # h[Len(h)][p]
    BY <2>1 DEF Undecided
  <2> PICK len \in Nat : len = Len(h) /\ d <= len
    BY <1>3, <2>2
  <2>3. PICK i \in 0..(d - 1) : h[len - i][p] # h[len][p]
    BY <2>2
  <2>4. ASSUME NEW k \in 0..(d - 1) PROVE h[len - k][p] = n.shift[d - k]
    <3>1. k < len
      OBVIOUS
    <3>2. k \in 0..(w.depth - 1) /\ k < Len(h)
      BY <3>1
    <3>3. h[Len(h) - k][p] = n.shift[w.depth - k]
      BY <1>4, <3>2 DEF Tracks
    <3> QED BY <3>3
  <2>5. 0 \in 0..(d - 1) /\ len - 0 = len /\ d - 0 = d /\ d - i \in 1..d /\ d \in 1..d
    OBVIOUS
  <2>6. n.shift[d - i] # n.shift[d]
    <3>1. n.shift[d - i] = h[len - i][p]
      BY <2>4
    <3>2. n.shift[d] = h[len][p]
      BY <2>4, <2>5
    <3> QED BY <2>3, <3>1, <3>2
  <2>7. \E j, k \in 1..w.depth : n.shift[j] # n.shift[k]
    BY <2>5, <2>6
  <2>8. n.pass <=> Holds(w.op, f.deb, w.thr)
    BY <1>1, <1>6, <2>7
  <2>9. f.pass <=> Holds(w.op, f.deb, w.thr)
    BY <1>3, <1>6 DEF VoteFollows
  <2> QED BY <1>2, <2>8, <2>9
<1> QED BY <1>5, <1>6

-----------------------------------------------------------------------------
\* The owners of an output are armed slots that ask for it.
LEMMA OwnersAsk ==
  ASSUME IInv, Up, NEW p \in Pins, claims[p].use = "out"
  PROVE  \A s \in claims[p].owners :
           s \in Slots /\ Armed(s) /\ p \in Outs(Prog(s)) /\ claims[p].ok = Prog(s).ok[p]
<1>1. \A s \in claims[p].owners :
        /\ s \in Claimants /\ p \in Ins(Prog(s)) \cup Outs(Prog(s))
        /\ p \in Ins(Prog(s)) => claims[p].use = "in"
        /\ p \in Outs(Prog(s)) => claims[p].ok = Prog(s).ok[p]
  BY DEF IInv, ClaimsMatchArmed
<1> QED BY <1>1 DEF Claimants

LEMMA Vetoed ==
  ASSUME IInv, FInv, OutputsOn, Tick, NEW s \in Slots, Armed(s),
         NEW p \in Ins(Prog(s)), Steadily(s, p, Clearly(s, p, FALSE)),
         NEW q \in Outs(Prog(s))
  PROVE  port'[q] = [out |-> TRUE, level |-> 1 - Prog(s).ok[q]]
<1>1. PICK g : TickOf(g)
  BY TickParts
<1> PICK r : r = Evaluated(Slots, g)
  OBVIOUS
<1>2. filt'[s][p].pass = FALSE
  BY <1>1, SteadyVerdict
<1>3. slots'[s].tf = "false"
  BY <1>1, <1>2, TickVote
<1>4. slots' = r /\ r[s].state = slots[s].state
  BY <1>1, EvaluatedVotes DEF TickOf, IInv
<1>5. s \in Vetoes(r)
  BY <1>3, <1>4 DEF Vetoes, Armed
<1>6. Prog(s) \in Programs /\ q \in Pins /\ s \in Claimants
  BY PinsOfProgram, UpClaimants DEF IInv, ArmedProgram, Tick
<1>7. s \in claims[q].owners /\ claims[q].use = "out" /\ claims[q].ok = Prog(s).ok[q]
  BY <1>6 DEF IInv, ClaimsMatchArmed
<1>8. port'[q] = Driven(q, r)
  BY <1>1, <1>6, <1>7 DEF TickOf
<1>9. Driven(q, r) = [port[q] EXCEPT !.level = 1 - Prog(s).ok[q]]
  BY <1>5, <1>7 DEF Driven
<1>10. port[q] \in PortRec /\ port[q].out = TRUE
  BY <1>6, <1>7, TypeNames DEF IInv, OutputsOn, PortRec
<1> QED BY <1>8, <1>9, <1>10 DEF PortRec

LEMMA ReleasedAgain ==
  ASSUME IInv, FInv, Tick, NEW p \in Pins, claims[p].use = "out",
         \A s \in claims[p].owners : \A q \in Ins(Prog(s)) :
           Steadily(s, q, Clearly(s, q, TRUE))
  PROVE  port'[p].level = claims[p].ok
<1>1. PICK g : TickOf(g)
  BY TickParts
<1> PICK r : r = Evaluated(Slots, g)
  OBVIOUS
<1>2. ASSUME NEW s \in claims[p].owners PROVE s \notin Vetoes(r)
  <2>1. s \in Slots /\ Armed(s)
    BY OwnersAsk DEF Tick
  <2>2. \A q \in Ins(Prog(s)) : filt'[s][q].pass = TRUE
    BY <1>1, <2>1, SteadyVerdict
  <2>3. slots'[s].tf = "true"
    BY <1>1, <2>1, <2>2, TickVote
  <2>4. slots' = r
    BY <1>1 DEF TickOf
  <2> QED BY <2>3, <2>4 DEF Vetoes
<1>3. port'[p] = [port[p] EXCEPT !.level = claims[p].ok]
  BY <1>1, <1>2 DEF TickOf, Driven
<1>4. port[p] \in PortRec
  BY TypeNames DEF IInv
<1> QED BY <1>3, <1>4 DEF PortRec

LEMMA VoteStays ==
  ASSUME BandsFit, IInv, FInv, Tick, NEW s \in Slots, Armed(s), slots[s].tf # "none",
         \A p \in Ins(Prog(s)) : Undecided(s, p)
  PROVE  slots'[s].tf = slots[s].tf
<1>1. PICK g : TickOf(g)
  BY TickParts
<1>2. \A p \in Ins(Prog(s)) : filt'[s][p].pass = filt[s][p].pass
  BY <1>1, UndecidedVerdict
<1>3. slots'[s].tf = IF \A p \in Ins(Prog(s)) : filt'[s][p].pass THEN "true" ELSE "false"
  BY <1>1, TickVote
<1>4. slots[s].tf = "true" <=> \A p \in Ins(Prog(s)) : filt[s][p].pass
  BY <1>1, TickSlot DEF VoteFollows
<1>5. slots[s].tf \in {"true", "false"}
  BY TypeNames DEF IInv, Record, Votes
<1> QED BY <1>2, <1>3, <1>4, <1>5

\* With the shell making no pin an input, a slot that has seen one of its
\* conditions plainly violated for its debounce depth has every output it
\* drives at its error level when the tick is over, whoever shares it
\* (eval_slot, the two phases of interlock_tick_all, hal_pin_drive_outputs).
\* cmd_gpio_config would turn a claimed output's driver off: hence NoInputs.
THEOREM VetoesInTime == ASSUME NoInputs PROVE Spec => VetoInTime
<1>1. IInv /\ FInv /\ OutputsOn /\ [Next]_vars =>
        [Tick => \A s \in Slots :
           (Armed(s) /\ \E p \in Ins(Prog(s)) : Steadily(s, p, Clearly(s, p, FALSE)))
             => \A p \in Outs(Prog(s)) :
                  port'[p] = [out |-> TRUE, level |-> 1 - Prog(s).ok[p]]]_vars
  BY Vetoed
<1> QED BY <1>1, Invariant, Filters, Driving, PTL DEF Spec, VetoInTime

\* An output all of whose sharers have seen their conditions plainly satisfied
\* for their debounce depth has its normal level when the tick is over: no
\* veto of eval_slot outlives its cause, whatever was disarmed, poisoned or
\* reset meanwhile (interlock_tick_all, interlock_disarm_slot).
THEOREM ReleasesInTime == Spec => ReleaseInTime
<1>1. IInv /\ FInv /\ [Next]_vars =>
        [Tick => \A p \in Pins :
           (claims[p].use = "out" /\ \A s \in claims[p].owners : \A q \in Ins(Prog(s)) :
                                       Steadily(s, q, Clearly(s, q, TRUE)))
             => port'[p].level = claims[p].ok]_vars
  BY ReleasedAgain
<1> QED BY <1>1, Invariant, Filters, PTL DEF Spec, ReleaseInTime

\* When no dead band reaches past 0 or UINT16_MAX, where eval_slot clamps the
\* eased threshold, a vote stays what it was at a tick that shows every input
\* inside its dead band or not yet agreed for its debounce depth.
THEOREM VotesSteady == ASSUME BandsFit PROVE Spec => SteadyVote
<1>1. IInv /\ FInv /\ [Next]_vars =>
        [Tick => \A s \in Slots :
           (Armed(s) /\ slots[s].tf # "none" /\ \A p \in Ins(Prog(s)) : Undecided(s, p))
             => slots'[s].tf = slots[s].tf]_vars
  BY VoteStays
<1> QED BY <1>1, Invariant, Filters, PTL DEF Spec, SteadyVote

=============================================================================
