--------------------------- MODULE SEngineProofs ---------------------------
(***************************************************************************)
(* Proofs about the S-expression engine, for every well-formed tree.       *)
(*                                                                         *)
(* What a call or a TERMINATE of a node does is a recursive function on    *)
(* the tree, so the argument has two layers.  For one node, given that its *)
(* children keep a contract (EndsWell, CallsWell), each of the functions   *)
(* keeps it; by induction over the tree every node then keeps it, and the  *)
(* root's call is one step of the instance.  The contract is Sound: each   *)
(* node can reach with a TERMINATE whatever lives below it, and Told: the  *)
(* log so far is a life cycle and live says who is alive at its end.       *)
(***************************************************************************)
EXTENDS SEngine, NaturalsInduction, WellFoundedInduction, TLAPS

-----------------------------------------------------------------------------
(* The tree.                                                               *)

\* A set of numbers that is not empty has a least one.
LEMMA Least ==
  ASSUME NEW S, S \subseteq Nat, S # {}
  PROVE  \E n \in S : \A m \in S : n <= m
<1> DEFINE R == OpToRel(<, Nat)
<1>1. IsWellFoundedOn(R, Nat)
  BY NatLessThanWellFounded
<1>2. \A m, n \in Nat : m < n => <<m, n>> \in R
  BY DEF OpToRel
<1> HIDE DEF R
<1>3. PICK n \in S : \A m \in S : ~(<<m, n>> \in R)
  BY <1>1, WFMin
<1>4. ASSUME NEW m \in S PROVE n <= m
  <2>1. m \in Nat /\ n \in Nat /\ ~(m < n)
    BY <1>2, <1>3
  <2> QED BY <2>1
<1> QED BY <1>4

\* The children of a node are nodes after it, and a byte can count them.
LEMMA KidsFacts ==
  ASSUME WellFormed(tree), NEW n \in Nodes
  PROVE  /\ Nodes = 1..Len(tree.nodes) /\ Len(tree.nodes) \in Nat \ {0}
         /\ Len(Kids(n)) \in 0..255 /\ DOMAIN Kids(n) = 1..Len(Kids(n))
         /\ \A k \in DOMAIN Kids(n) : Kids(n)[k] \in Nodes /\ Kids(n)[k] > n
<1>1. /\ Nodes = 1..Len(tree.nodes) /\ Len(tree.nodes) \in Nat \ {0}
      /\ Kids(n) \in Seq((n + 1)..Len(tree.nodes)) /\ Len(Kids(n)) <= 255
  BY DEF WellFormed, IsTree, Nodes, Kids
<1>2. n \in Nat /\ (n + 1)..Len(tree.nodes) \subseteq Nodes
  BY <1>1
<1>3. \A k \in DOMAIN Kids(n) : Kids(n)[k] \in (n + 1)..Len(tree.nodes)
  BY <1>1
<1>4. Len(Kids(n)) \in 0..255 /\ DOMAIN Kids(n) = 1..Len(Kids(n))
  <2>1. PICK s, S : s = Kids(n) /\ S = (n + 1)..Len(tree.nodes)
    OBVIOUS
  <2>2. s \in Seq(S) /\ Len(s) <= 255
    BY <1>1, <2>1
  <2>3. Len(s) \in Nat /\ DOMAIN s = 1..Len(s)
    BY <2>2
  <2>4. PICK l : l = Len(s)
    OBVIOUS
  <2>5. l \in Nat
    BY <2>3, <2>4
  <2>6. l <= 255
    BY <2>2, <2>4
  <2>7. l \in 0..255
    BY <2>5, <2>6
  <2> QED BY <2>1, <2>3, <2>4, <2>7
<1>5. ASSUME NEW k \in DOMAIN Kids(n) PROVE Kids(n)[k] \in Nodes /\ Kids(n)[k] > n
  BY <1>1, <1>2, <1>3
<1> QED BY <1>1, <1>4, <1>5

\* Nodes, children and their number are numbers.
LEMMA KidsCounts ==
  ASSUME WellFormed(tree), NEW n \in Nodes
  PROVE  /\ Nodes \subseteq Nat /\ n \in Nat
         /\ Len(Kids(n)) \in Nat /\ 0 \in 0..Len(Kids(n))
         /\ DOMAIN Kids(n) \subseteq Nat /\ DOMAIN Kids(n) \subseteq 0..Len(Kids(n))
<1>1. PICK l, m : l = Len(Kids(n)) /\ m = Len(tree.nodes)
  OBVIOUS
<1>2. l \in 0..255 /\ DOMAIN Kids(n) = 1..l /\ Nodes = 1..m
  BY <1>1, KidsFacts
<1>3. ASSUME NEW x \in 0..255 PROVE x \in Nat
  OBVIOUS
<1>4. ASSUME NEW x \in Nat PROVE 0 \in 0..x /\ 1..x \subseteq 0..x
  OBVIOUS
<1>5. ASSUME NEW x PROVE 1..x \subseteq Nat
  OBVIOUS
<1>6. l \in Nat
  BY <1>2, <1>3
<1>7. 0 \in 0..l /\ DOMAIN Kids(n) \subseteq 0..l
  BY <1>2, <1>4, <1>6
<1>8. DOMAIN Kids(n) \subseteq Nat /\ Nodes \subseteq Nat
  BY <1>2, <1>5
<1> QED BY <1>1, <1>6, <1>7, <1>8

-----------------------------------------------------------------------------
(* The recursive functions on the nodes of a tree exist: a function that is *)
(* right at the last d nodes extends to one more.                          *)

BelowAt(n, f) == {n} \cup UNION {f[Kids(n)[k]] : k \in DOMAIN Kids(n)}

\* The function that gives the nodes below each node exists.
LEMMA BelowExists ==
  ASSUME WellFormed(tree)
  PROVE  \E f : f = [n \in Nodes |-> BelowAt(n, f)]
<1> DEFINE N == Len(tree.nodes)
           Right(d, f) == \A n \in Nodes : n + d > N => f[n] = BelowAt(n, f)
           Bad == {d \in 0..N : ~\E f : Right(d, f)}
<1>0. N \in Nat \ {0} /\ Nodes = 1..N
  BY DEF WellFormed, IsTree, Nodes
<1> HIDE DEF N
<1>1. ASSUME Bad # {} PROVE FALSE
  <2>1. PICK d \in Bad : \A e \in Bad : d <= e
    <3>1. Bad \subseteq Nat
      BY <1>0
    <3> HIDE DEF Bad
    <3> QED BY <1>1, <3>1, Least
  <2>2. d # 0
    <3>1. \A f : Right(0, f)
      BY <1>0
    <3> HIDE DEF Right
    <3> QED BY <2>1, <3>1
  <2>3. d \in 1..N /\ d - 1 \in 0..N /\ d - 1 \notin Bad
    <3>1. d \in 0..N
      BY <2>1
    <3>2. d - 1 \notin Bad
      <4> HIDE DEF Bad
      <4> QED BY <1>0, <2>1, <3>1
    <3> QED BY <1>0, <2>2, <3>1, <3>2
  <2>4. PICK f : Right(d - 1, f)
    <3> HIDE DEF Right
    <3> QED BY <2>3
  <2> HIDE DEF Bad
  <2> DEFINE m == N + 1 - d
             g == [n \in Nodes |-> IF n = m THEN BelowAt(m, f) ELSE f[n]]
  <2>5. ASSUME NEW n \in Nodes, n + d > N PROVE g[n] = BelowAt(n, g)
    <3>0. n \in Nat /\ d \in Nat /\ m \in Nat /\ n >= m
      BY <1>0, <2>3, <2>5
    <3>1. ASSUME NEW k \in DOMAIN Kids(n) PROVE g[Kids(n)[k]] = f[Kids(n)[k]]
      <4>1. PICK c : c = Kids(n)[k]
        OBVIOUS
      <4>2. c \in Nodes /\ c > n /\ c \in Nat
        <5>1. c \in Nodes /\ c > n
          BY <4>1, KidsFacts
        <5> QED BY <5>1, KidsCounts
      <4>3. c # m
        BY <3>0, <4>2
      <4>4. g[c] = f[c]
        BY <4>2, <4>3
      <4> QED BY <4>1, <4>4
    <3> HIDE DEF m
    <3>2. BelowAt(n, g) = BelowAt(n, f)
      <4> HIDE DEF g
      <4> QED BY <3>1 DEF BelowAt
    <3>3. g[n] = IF n = m THEN BelowAt(m, f) ELSE f[n]
      OBVIOUS
    <3>4. CASE n # m
      <4>1. n + (d - 1) > N
        BY <1>0, <3>0, <3>4, <2>5 DEF m
      <4>2. f[n] = BelowAt(n, f)
        BY <2>4, <4>1
      <4> QED BY <3>2, <3>3, <3>4, <4>2
    <3> HIDE DEF g
    <3> QED BY <3>2, <3>3, <3>4
  <2>6. Right(d, g)
    BY <2>5
  <2>7. d \notin Bad
    <3> HIDE DEF g, Right
    <3> QED BY <2>6 DEF Bad
  <2> QED BY <2>1, <2>7
<1>2. PICK f : Right(N, f)
  <2> HIDE DEF Right
  <2> QED BY <1>0, <1>1
<1> DEFINE g == [n \in Nodes |-> f[n]]
<1>3. ASSUME NEW n \in Nodes PROVE g[n] = BelowAt(n, g)
  <2>1. n + N > N
    BY <1>0
  <2>2. f[n] = BelowAt(n, f)
    BY <1>2, <2>1
  <2>3. \A k \in DOMAIN Kids(n) : g[Kids(n)[k]] = f[Kids(n)[k]]
    BY KidsFacts
  <2>4. BelowAt(n, g) = BelowAt(n, f)
    <3> HIDE DEF g
    <3> QED BY <2>3 DEF BelowAt
  <2> QED BY <2>2, <2>4
<1> QED BY <1>3

\* A node and what is below its children is what is below it.
LEMMA BelowDef ==
  ASSUME WellFormed(tree), NEW n \in Nodes
  PROVE  Below(n) = {n} \cup UNION {Below(Kids(n)[k]) : k \in DOMAIN Kids(n)}
<1> DEFINE f == CHOOSE f : f = [m \in Nodes |-> BelowAt(m, f)]
<1>1. f = [m \in Nodes |-> BelowAt(m, f)]
  BY BelowExists
<1>2. \A m : Below(m) = f[m]
  BY DEF Below, Subtree, BelowAt, Nodes, Kids
<1> HIDE DEF f
<1>3. Below(n) = BelowAt(n, f)
  BY <1>1, <1>2
<1>4. UNION {Below(Kids(n)[k]) : k \in DOMAIN Kids(n)} = UNION {f[Kids(n)[k]] : k \in DOMAIN Kids(n)}
  BY <1>2
<1> QED BY <1>3, <1>4 DEF BelowAt

\* A set that has a node whenever it has all of its children has them all.
LEMMA TreeInduction ==
  ASSUME WellFormed(tree), NEW G,
         \A n \in Nodes : (\A k \in DOMAIN Kids(n) : Kids(n)[k] \in G) => n \in G
  PROVE  Nodes \subseteq G
<1> DEFINE N == Len(tree.nodes)
           Bad == {d \in Nat : N - d \in Nodes \ G}
<1>0. N \in Nat \ {0} /\ Nodes = 1..N
  BY DEF WellFormed, IsTree, Nodes
<1> HIDE DEF N
<1>1. SUFFICES ASSUME NEW x \in Nodes, x \notin G PROVE FALSE
  OBVIOUS
<1>2. N - x \in Bad
  <2>1. x \in Nat /\ N - x \in Nat /\ N - (N - x) = x
    BY <1>0
  <2> QED BY <1>1, <2>1
<1>3. PICK d \in Bad : \A e \in Bad : d <= e
  <2>1. Bad \subseteq Nat
    OBVIOUS
  <2> HIDE DEF Bad
  <2> QED BY <1>2, <2>1, Least
<1>4. PICK n : n = N - d
  OBVIOUS
<1>5. n \in Nodes /\ n \notin G /\ d \in Nat
  BY <1>3, <1>4
<1>6. ASSUME NEW k \in DOMAIN Kids(n) PROVE Kids(n)[k] \in G
  <2>1. PICK c : c = Kids(n)[k]
    OBVIOUS
  <2>2. c \in Nodes /\ c > n
    BY <1>5, <2>1, KidsFacts
  <2>3. N - c \in Nat /\ N - c < d /\ N - (N - c) = c
    BY <1>0, <1>4, <1>5, <2>2
  <2>4. N - c \notin Bad
    <3> HIDE DEF Bad
    <3> QED BY <1>3, <1>5, <2>3
  <2>5. c \in G
    BY <2>2, <2>3, <2>4
  <2> QED BY <2>1, <2>5
<1> QED BY <1>5, <1>6

LEMMA BelowSelf ==
  ASSUME WellFormed(tree), NEW n \in Nodes
  PROVE  n \in Below(n)
BY BelowDef

LEMMA BelowKid ==
  ASSUME WellFormed(tree), NEW n \in Nodes, NEW k \in DOMAIN Kids(n)
  PROVE  Below(Kids(n)[k]) \subseteq Below(n)
BY BelowDef

LEMMA BelowCases ==
  ASSUME WellFormed(tree), NEW n \in Nodes, NEW m \in Below(n), m # n
  PROVE  \E k \in DOMAIN Kids(n) : m \in Below(Kids(n)[k])
BY BelowDef

LEMMA BelowNodes ==
  ASSUME WellFormed(tree), NEW n \in Nodes
  PROVE  \A m \in Below(n) : m \in Nodes /\ m >= n
<1> DEFINE G == {x \in Nodes : \A m \in Below(x) : m \in Nodes /\ m >= x}
<1>1. ASSUME NEW x \in Nodes, \A k \in DOMAIN Kids(x) : Kids(x)[k] \in G
      PROVE  x \in G
  <2>1. SUFFICES ASSUME NEW m \in Below(x) PROVE m \in Nodes /\ m >= x
    OBVIOUS
  <2>2. x \in Nat /\ Nodes \subseteq Nat
    BY KidsCounts
  <2>3. CASE m = x
    BY <2>2, <2>3
  <2>4. CASE m # x
    <3>1. PICK k \in DOMAIN Kids(x) : m \in Below(Kids(x)[k])
      BY <2>4, BelowCases
    <3>2. PICK c : c = Kids(x)[k]
      OBVIOUS
    <3>3. c \in Nodes /\ c > x
      BY <3>2, KidsFacts
    <3>4. m \in Nodes /\ m >= c
      BY <1>1, <3>1, <3>2
    <3> QED BY <2>2, <3>3, <3>4
  <2> QED BY <2>3, <2>4
<1> HIDE DEF G
<1>2. n \in G
  BY <1>1, TreeInduction
<1> QED BY <1>2 DEF G

LEMMA BelowTransitive ==
  ASSUME WellFormed(tree), NEW n \in Nodes, NEW m \in Below(n)
  PROVE  Below(m) \subseteq Below(n)
<1> DEFINE G == {x \in Nodes : \A y \in Below(x) : Below(y) \subseteq Below(x)}
<1>1. ASSUME NEW x \in Nodes, \A k \in DOMAIN Kids(x) : Kids(x)[k] \in G
      PROVE  x \in G
  <2>1. SUFFICES ASSUME NEW y \in Below(x) PROVE Below(y) \subseteq Below(x)
    OBVIOUS
  <2>2. CASE y = x
    BY <2>2
  <2>3. CASE y # x
    <3>1. PICK k \in DOMAIN Kids(x) : y \in Below(Kids(x)[k])
      BY <2>3, BelowCases
    <3>2. Below(y) \subseteq Below(Kids(x)[k])
      BY <1>1, <3>1
    <3> QED BY <3>2, BelowKid
  <2> QED BY <2>2, <2>3
<1> HIDE DEF G
<1>2. n \in G
  BY <1>1, TreeInduction
<1> QED BY <1>2 DEF G

\* A node under c other than c has its parent under c.
LEMMA ParentBelow ==
  ASSUME WellFormed(tree), NEW c \in Nodes, NEW n \in Nodes, NEW k \in DOMAIN Kids(n),
         Kids(n)[k] \in Below(c), Kids(n)[k] # c
  PROVE  n \in Below(c)
<1> DEFINE G == {x \in Nodes : Kids(n)[k] \in Below(x) /\ Kids(n)[k] # x => n \in Below(x)}
<1>1. ASSUME NEW x \in Nodes, \A j \in DOMAIN Kids(x) : Kids(x)[j] \in G
      PROVE  x \in G
  <2>1. SUFFICES ASSUME Kids(n)[k] \in Below(x), Kids(n)[k] # x PROVE n \in Below(x)
    OBVIOUS
  <2>2. PICK j \in DOMAIN Kids(x) : Kids(n)[k] \in Below(Kids(x)[j])
    BY <2>1, BelowCases
  <2>3. CASE Kids(n)[k] = Kids(x)[j]
    <3>1. n = x
      BY <2>3 DEF WellFormed, IsTree, Nodes, Kids
    <3> QED BY <3>1, BelowSelf
  <2>4. CASE Kids(n)[k] # Kids(x)[j]
    <3>1. n \in Below(Kids(x)[j])
      BY <1>1, <2>2, <2>4
    <3> QED BY <3>1, BelowKid
  <2> QED BY <2>3, <2>4
<1> HIDE DEF G
<1>2. c \in G
  BY <1>1, TreeInduction
<1> QED BY <1>2 DEF G

\* Two parts of the tree that meet are one in the other.
LEMMA BelowNested ==
  ASSUME WellFormed(tree), NEW c \in Nodes, NEW d \in Nodes, NEW m \in Below(c), m \in Below(d)
  PROVE  c \in Below(d) \/ d \in Below(c)
<1> DEFINE G == {x \in Nodes : m \in Below(x) => x \in Below(d) \/ d \in Below(x)}
<1>1. ASSUME NEW x \in Nodes, \A j \in DOMAIN Kids(x) : Kids(x)[j] \in G
      PROVE  x \in G
  <2>1. SUFFICES ASSUME m \in Below(x) PROVE x \in Below(d) \/ d \in Below(x)
    OBVIOUS
  <2>2. CASE m = x
    BY <2>2
  <2>3. CASE m # x
    <3>1. PICK j \in DOMAIN Kids(x) : m \in Below(Kids(x)[j])
      BY <2>1, <2>3, BelowCases
    <3>2. CASE d \in Below(Kids(x)[j])
      BY <3>2, BelowKid
    <3>3. CASE Kids(x)[j] \in Below(d) /\ Kids(x)[j] # d
      BY <3>3, ParentBelow
    <3>4. CASE Kids(x)[j] = d
      BY <3>4, BelowKid, BelowSelf
    <3> QED BY <1>1, <3>1, <3>2, <3>3, <3>4
  <2> QED BY <2>2, <2>3
<1> HIDE DEF G
<1>2. c \in G
  BY <1>1, TreeInduction
<1> QED BY <1>2 DEF G

\* The parts below two children of a node have nothing in common.
LEMMA KidsApart ==
  ASSUME WellFormed(tree), NEW n \in Nodes, NEW k \in DOMAIN Kids(n)
  PROVE  /\ n \notin Below(Kids(n)[k])
         /\ \A j \in DOMAIN Kids(n) : j # k => Below(Kids(n)[j]) \cap Below(Kids(n)[k]) = {}
<1>1. \A j \in DOMAIN Kids(n) : Kids(n)[j] \in Nodes /\ Kids(n)[j] > n
  BY KidsFacts
<1>2. ASSUME NEW j \in DOMAIN Kids(n) PROVE n \notin Below(Kids(n)[j])
  <2>1. PICK c : c = Kids(n)[j]
    OBVIOUS
  <2>2. c \in Nodes /\ c > n /\ \A m \in Below(c) : m \in Nodes /\ m >= c
    BY <1>1, <2>1, BelowNodes
  <2>3. n \in Nat /\ c \in Nat
    BY KidsCounts, <2>2
  <2>4. n \notin Below(c)
    BY <2>2, <2>3
  <2> QED BY <2>1, <2>4
<1>3. ASSUME NEW i \in DOMAIN Kids(n), NEW j \in DOMAIN Kids(n), i # j
      PROVE  Kids(n)[i] \notin Below(Kids(n)[j])
  <2>1. Kids(n)[i] # Kids(n)[j]
    BY <1>3 DEF WellFormed, IsTree, Nodes, Kids
  <2> QED BY <1>1, <1>2, <2>1, ParentBelow
<1>4. ASSUME NEW j \in DOMAIN Kids(n), j # k, NEW m \in Below(Kids(n)[j]), m \in Below(Kids(n)[k])
      PROVE  FALSE
  BY <1>1, <1>3, <1>4, BelowNested
<1> QED BY <1>2, <1>4

\* Every node is below the root: each but the root is the child of an earlier one.
LEMMA BelowRoot ==
  ASSUME WellFormed(tree)
  PROVE  1 \in Nodes /\ Below(1) = Nodes
<1> DEFINE N == Len(tree.nodes)
           Bad == {m \in Nodes : m \notin Below(1)}
<1>0. N \in Nat \ {0} /\ Nodes = 1..N
  BY DEF WellFormed, IsTree, Nodes
<1> HIDE DEF N
<1>1. 1 \in Nodes
  BY <1>0
<1>2. ASSUME Bad # {} PROVE FALSE
  <2>1. PICK m \in Bad : \A e \in Bad : m <= e
    <3>1. Bad \subseteq Nat
      BY <1>0
    <3> HIDE DEF Bad
    <3> QED BY <1>2, <3>1, Least
  <2>2. m # 1 /\ m \in Nodes /\ m \notin Below(1)
    BY <1>1, <2>1, BelowSelf
  <2>3. PICK n \in Nodes : \E k \in DOMAIN Kids(n) : Kids(n)[k] = m
    BY <2>2 DEF WellFormed, IsTree, Nodes, Kids
  <2>4. n < m /\ n \in Nat /\ m \in Nat
    <3>1. PICK k \in DOMAIN Kids(n) : Kids(n)[k] = m
      BY <2>3
    <3>2. m > n
      BY <3>1, KidsFacts
    <3>3. n \in Nat /\ m \in Nat
      BY <2>2, KidsCounts
    <3> QED BY <3>2, <3>3
  <2>5. n \in Below(1)
    BY <2>1, <2>4
  <2>6. m \in Below(n)
    BY <2>2, <2>3, BelowKid, BelowSelf
  <2> QED BY <1>1, <2>2, <2>5, <2>6, BelowTransitive
<1> QED BY <1>1, <1>2, BelowNodes

-----------------------------------------------------------------------------
(* The passes over the children, and the recursion of TERMINATE.           *)

Steps(F, len, start, f) == f = [k \in 0..len |-> IF k = 0 THEN start ELSE F[k][f[k - 1]]]

\* The values a pass goes through exist.
LEMMA StepsExist ==
  ASSUME NEW F, NEW len \in Nat, NEW start
  PROVE  \E f : Steps(F, len, start, f)
<1> DEFINE Bad == {n \in Nat : ~\E f : Steps(F, n, start, f)}
<1>1. SUFFICES ASSUME Bad # {} PROVE FALSE
  OBVIOUS
<1>2. PICK n \in Bad : \A m \in Bad : n <= m
  BY <1>1, Least
<1>3. CASE n = 0
  <2>1. Steps(F, 0, start, [k \in 0..0 |-> start])
    BY DEF Steps
  <2> QED BY <1>2, <1>3, <2>1
<1>4. CASE n # 0
  <2>1. n \in Nat /\ n - 1 \in Nat /\ n - 1 \notin Bad
    BY <1>2, <1>4
  <2>2. PICK f : Steps(F, n - 1, start, f)
    BY <2>1
  <2> DEFINE g == [k \in 0..n |-> IF k = n THEN F[n][f[n - 1]] ELSE f[k]]
  <2>3. ASSUME NEW k \in 0..n PROVE g[k] = IF k = 0 THEN start ELSE F[k][g[k - 1]]
    <3>1. CASE k = n
      <4>1. n - 1 \in 0..n /\ n - 1 # n
        BY <2>1
      <4> QED BY <1>4, <3>1, <4>1
    <3>2. CASE k # n
      <4>1. k \in 0..(n - 1) /\ g[k] = f[k]
        BY <2>1, <3>2
      <4>2. f[k] = IF k = 0 THEN start ELSE F[k][f[k - 1]]
        BY <2>2, <4>1 DEF Steps
      <4>3. CASE k # 0
        <5>1. k - 1 \in 0..n /\ k - 1 # n
          BY <2>1, <4>1, <4>3
        <5> QED BY <4>1, <4>2, <4>3, <5>1
      <4> QED BY <4>1, <4>2, <4>3
    <3> QED BY <3>1, <3>2
  <2>4. Steps(F, n, start, g)
    BY <2>3 DEF Steps
  <2> QED BY <1>2, <2>1, <2>4
<1> QED BY <1>3, <1>4

\* What a pass keeps: S[k] is what holds after the first k functions.
LEMMA ThroughKeeps ==
  ASSUME NEW F, NEW len \in Nat, NEW start, NEW S, start \in S[0],
         \A k \in 1..len : \A v \in S[k - 1] : F[k][v] \in S[k]
  PROVE  Through(F, len, start) \in S[len]
<1> DEFINE f == CHOOSE f : Steps(F, len, start, f)
           Bad == {k \in 0..len : f[k] \notin S[k]}
<1>1. Steps(F, len, start, f)
  BY StepsExist
<1>2. Through(F, len, start) = f[len]
  BY DEF Through, Steps
<1> HIDE DEF f
<1>3. SUFFICES ASSUME Bad # {} PROVE FALSE
  BY <1>2
<1>4. PICK k \in Bad : \A j \in Bad : k <= j
  <2>1. Bad \subseteq Nat
    OBVIOUS
  <2> HIDE DEF Bad
  <2> QED BY <1>3, <2>1, Least
<1>5. f[k] = IF k = 0 THEN start ELSE F[k][f[k - 1]]
  BY <1>1, <1>4 DEF Steps
<1>6. k # 0
  BY <1>4, <1>5
<1>7. k \in 1..len /\ k - 1 \in 0..len /\ k - 1 \notin Bad
  BY <1>4, <1>6
<1>8. f[k - 1] \in S[k - 1]
  BY <1>7
<1> QED BY <1>4, <1>5, <1>6, <1>7, <1>8

EndingAt(n, f) ==
  [i \in Insts |-> Terminated(i, n, [k \in DOMAIN Kids(n) |-> f[Kids(n)[k]]])]

\* What TERMINATE does, node by node, exists.
LEMMA EndingExists ==
  ASSUME WellFormed(tree)
  PROVE  \E f : f = [n \in Nodes |-> EndingAt(n, f)]
<1> DEFINE N == Len(tree.nodes)
           Right(d, f) == \A n \in Nodes : n + d > N => f[n] = EndingAt(n, f)
           Bad == {d \in 0..N : ~\E f : Right(d, f)}
<1>0. N \in Nat \ {0} /\ Nodes = 1..N
  BY DEF WellFormed, IsTree, Nodes
<1> HIDE DEF N
<1>1. ASSUME Bad # {} PROVE FALSE
  <2>1. PICK d \in Bad : \A e \in Bad : d <= e
    <3>1. Bad \subseteq Nat
      BY <1>0
    <3> HIDE DEF Bad
    <3> QED BY <1>1, <3>1, Least
  <2>2. d # 0
    <3>1. \A f : Right(0, f)
      BY <1>0
    <3> HIDE DEF Right
    <3> QED BY <2>1, <3>1
  <2>3. d \in 1..N /\ d - 1 \in 0..N /\ d - 1 \notin Bad
    <3>1. d \in 0..N
      BY <2>1
    <3>2. d - 1 \notin Bad
      <4> HIDE DEF Bad
      <4> QED BY <1>0, <2>1, <3>1
    <3> QED BY <1>0, <2>2, <3>1, <3>2
  <2>4. PICK f : Right(d - 1, f)
    <3> HIDE DEF Right
    <3> QED BY <2>3
  <2> HIDE DEF Bad
  <2> DEFINE m == N + 1 - d
             g == [n \in Nodes |-> IF n = m THEN EndingAt(m, f) ELSE f[n]]
  <2>5. ASSUME NEW n \in Nodes, n + d > N PROVE g[n] = EndingAt(n, g)
    <3>0. n \in Nat /\ d \in Nat /\ m \in Nat /\ n >= m
      BY <1>0, <2>3, <2>5
    <3>1. ASSUME NEW k \in DOMAIN Kids(n) PROVE g[Kids(n)[k]] = f[Kids(n)[k]]
      <4>1. PICK c : c = Kids(n)[k]
        OBVIOUS
      <4>2. c \in Nodes /\ c > n /\ c \in Nat
        <5>1. c \in Nodes /\ c > n
          BY <4>1, KidsFacts
        <5> QED BY <5>1, KidsCounts
      <4>3. c # m
        BY <3>0, <4>2
      <4>4. g[c] = f[c]
        BY <4>2, <4>3
      <4> QED BY <4>1, <4>4
    <3> HIDE DEF m
    <3>2. EndingAt(n, g) = EndingAt(n, f)
      <4> HIDE DEF g
      <4> QED BY <3>1 DEF EndingAt
    <3>3. g[n] = IF n = m THEN EndingAt(m, f) ELSE f[n]
      OBVIOUS
    <3>4. CASE n # m
      <4>1. n + (d - 1) > N
        BY <1>0, <3>0, <3>4, <2>5 DEF m
      <4>2. f[n] = EndingAt(n, f)
        BY <2>4, <4>1
      <4> QED BY <3>2, <3>3, <3>4, <4>2
    <3> HIDE DEF g
    <3> QED BY <3>2, <3>3, <3>4
  <2>6. Right(d, g)
    BY <2>5
  <2>7. d \notin Bad
    <3> HIDE DEF g, Right
    <3> QED BY <2>6 DEF Bad
  <2> QED BY <2>1, <2>7
<1>2. PICK f : Right(N, f)
  <2> HIDE DEF Right
  <2> QED BY <1>0, <1>1
<1> DEFINE g == [n \in Nodes |-> f[n]]
<1>3. ASSUME NEW n \in Nodes PROVE g[n] = EndingAt(n, g)
  <2>1. n + N > N
    BY <1>0
  <2>2. f[n] = EndingAt(n, f)
    BY <1>2, <2>1
  <2>3. \A k \in DOMAIN Kids(n) : g[Kids(n)[k]] = f[Kids(n)[k]]
    BY KidsFacts
  <2>4. EndingAt(n, g) = EndingAt(n, f)
    <3> HIDE DEF g
    <3> QED BY <2>3 DEF EndingAt
  <2> QED BY <2>2, <2>4
<1> QED BY <1>3

\* TERMINATE of a node is what its function does, given TERMINATE of its children.
LEMMA EndingDef ==
  ASSUME WellFormed(tree), NEW n \in Nodes, NEW i \in Insts
  PROVE  ChildTerminate(i, n) = Terminated(i, n, Ends(n))
<1> DEFINE f == CHOOSE f : f = [m \in Nodes |-> EndingAt(m, f)]
<1>1. f = [m \in Nodes |-> EndingAt(m, f)]
  BY EndingExists
<1>2. Ending = f
  BY DEF Ending, EndingAt
<1> HIDE DEF f
<1>3. f[n] = EndingAt(n, f)
  BY <1>1
<1> QED BY <1>2, <1>3 DEF ChildTerminate, Ends, EndingAt

InvokeAt(in, n, f) ==
  [i \in Insts |-> Called(i, n, [k \in DOMAIN Kids(n) |-> f[Kids(n)[k]]], in)]

Calls(in, n) == [k \in DOMAIN Kids(n) |-> Invoke(in)[Kids(n)[k]]]

\* What a call does, node by node, exists.
LEMMA InvokeExists ==
  ASSUME WellFormed(tree), NEW in
  PROVE  \E f : f = [n \in Nodes |-> InvokeAt(in, n, f)]
<1> DEFINE N == Len(tree.nodes)
           Right(d, f) == \A n \in Nodes : n + d > N => f[n] = InvokeAt(in, n, f)
           Bad == {d \in 0..N : ~\E f : Right(d, f)}
<1>0. N \in Nat \ {0} /\ Nodes = 1..N
  BY DEF WellFormed, IsTree, Nodes
<1> HIDE DEF N
<1>1. ASSUME Bad # {} PROVE FALSE
  <2>1. PICK d \in Bad : \A e \in Bad : d <= e
    <3>1. Bad \subseteq Nat
      BY <1>0
    <3> HIDE DEF Bad
    <3> QED BY <1>1, <3>1, Least
  <2>2. d # 0
    <3>1. \A f : Right(0, f)
      BY <1>0
    <3> HIDE DEF Right
    <3> QED BY <2>1, <3>1
  <2>3. d \in 1..N /\ d - 1 \in 0..N /\ d - 1 \notin Bad
    <3>1. d \in 0..N
      BY <2>1
    <3>2. d - 1 \notin Bad
      <4> HIDE DEF Bad
      <4> QED BY <1>0, <2>1, <3>1
    <3> QED BY <1>0, <2>2, <3>1, <3>2
  <2>4. PICK f : Right(d - 1, f)
    <3> HIDE DEF Right
    <3> QED BY <2>3
  <2> HIDE DEF Bad
  <2> DEFINE m == N + 1 - d
             g == [n \in Nodes |-> IF n = m THEN InvokeAt(in, m, f) ELSE f[n]]
  <2>5. ASSUME NEW n \in Nodes, n + d > N PROVE g[n] = InvokeAt(in, n, g)
    <3>0. n \in Nat /\ d \in Nat /\ m \in Nat /\ n >= m
      BY <1>0, <2>3, <2>5
    <3>1. ASSUME NEW k \in DOMAIN Kids(n) PROVE g[Kids(n)[k]] = f[Kids(n)[k]]
      <4>1. PICK c : c = Kids(n)[k]
        OBVIOUS
      <4>2. c \in Nodes /\ c > n /\ c \in Nat
        <5>1. c \in Nodes /\ c > n
          BY <4>1, KidsFacts
        <5> QED BY <5>1, KidsCounts
      <4>3. c # m
        BY <3>0, <4>2
      <4>4. g[c] = f[c]
        BY <4>2, <4>3
      <4> QED BY <4>1, <4>4
    <3> HIDE DEF m
    <3>2. InvokeAt(in, n, g) = InvokeAt(in, n, f)
      <4> HIDE DEF g
      <4> QED BY <3>1 DEF InvokeAt
    <3>3. g[n] = IF n = m THEN InvokeAt(in, m, f) ELSE f[n]
      OBVIOUS
    <3>4. CASE n # m
      <4>1. n + (d - 1) > N
        BY <1>0, <3>0, <3>4, <2>5 DEF m
      <4>2. f[n] = InvokeAt(in, n, f)
        BY <2>4, <4>1
      <4> QED BY <3>2, <3>3, <3>4, <4>2
    <3> HIDE DEF g
    <3> QED BY <3>2, <3>3, <3>4
  <2>6. Right(d, g)
    BY <2>5
  <2>7. d \notin Bad
    <3> HIDE DEF g, Right
    <3> QED BY <2>6 DEF Bad
  <2> QED BY <2>1, <2>7
<1>2. PICK f : Right(N, f)
  <2> HIDE DEF Right
  <2> QED BY <1>0, <1>1
<1> DEFINE g == [n \in Nodes |-> f[n]]
<1>3. ASSUME NEW n \in Nodes PROVE g[n] = InvokeAt(in, n, g)
  <2>1. n + N > N
    BY <1>0
  <2>2. f[n] = InvokeAt(in, n, f)
    BY <1>2, <2>1
  <2>3. \A k \in DOMAIN Kids(n) : g[Kids(n)[k]] = f[Kids(n)[k]]
    BY KidsFacts
  <2>4. InvokeAt(in, n, g) = InvokeAt(in, n, f)
    <3> HIDE DEF g
    <3> QED BY <2>3 DEF InvokeAt
  <2> QED BY <2>2, <2>4
<1> QED BY <1>3

\* A call of a node is what its type does, given the calls of its children.
LEMMA InvokeDef ==
  ASSUME WellFormed(tree), NEW in, NEW n \in Nodes, NEW i \in Insts
  PROVE  Invoke(in)[n][i] = Called(i, n, Calls(in, n), in)
<1> DEFINE f == CHOOSE f : f = [m \in Nodes |-> InvokeAt(in, m, f)]
<1>1. f = [m \in Nodes |-> InvokeAt(in, m, f)]
  BY InvokeExists
<1>2. Invoke(in) = f
  BY DEF Invoke, InvokeAt
<1> HIDE DEF f
<1>3. f[n] = InvokeAt(in, n, f)
  BY <1>1
<1> QED BY <1>2, <1>3 DEF Calls, InvokeAt

-----------------------------------------------------------------------------
(* The log, and who is alive after it.                                     *)

LEMMA AppendFacts ==
  ASSUME NEW S, NEW s \in Seq(S), NEW e \in S
  PROVE  /\ Append(s, e) \in Seq(S) /\ Len(s) \in Nat /\ Len(Append(s, e)) = Len(s) + 1
         /\ \A j \in 1..Len(s) : Append(s, e)[j] = s[j]
         /\ Append(s, e)[Len(s) + 1] = e
OBVIOUS

\* One more entry in the log changes who is alive only for the node it is about.
LEMMA AliveAppend ==
  ASSUME NEW log \in Seq(Nodes \X STRING), NEW n \in Nodes, NEW what \in STRING, NEW live
  PROVE  LET next == Append(log, <<n, what>>) IN
         /\ \A k \in 1..(Len(log) + 1) : \A m : Alive(next, k, m, live) <=> Alive(log, k, m, live)
         /\ \A m : m # n => (Alive(next, Len(next) + 1, m, live)
                               <=> Alive(log, Len(log) + 1, m, live))
         /\ Alive(next, Len(next) + 1, n, live) <=> what # "TERMINATE"
<1> DEFINE next == Append(log, <<n, what>>)
           Earlier(l, k, m) == {j \in 1..(k - 1) : l[j][1] = m}
<1>1. PICK len : len = Len(log)
  OBVIOUS
<1>2. /\ len \in Nat /\ Len(next) = len + 1
      /\ \A j \in 1..len : next[j] = log[j]
      /\ next[len + 1] = <<n, what>>
  <2>1. PICK e, S : e = <<n, what>> /\ S = Nodes \X STRING
    OBVIOUS
  <2>2. e \in S /\ log \in Seq(S)
    BY <2>1
  <2>3. PICK r : r = Append(log, e)
    OBVIOUS
  <2>4. /\ Len(log) \in Nat /\ Len(r) = Len(log) + 1
        /\ \A j \in 1..Len(log) : r[j] = log[j]
        /\ r[Len(log) + 1] = e
    BY <2>2, <2>3, AppendFacts
  <2>5. next = r
    BY <2>1, <2>3
  <2> HIDE DEF next
  <2> QED BY <1>1, <2>1, <2>4, <2>5
<1> HIDE DEF next
<1>3. next[len + 1][1] = n /\ next[len + 1][2] = what
  BY <1>2
<1>4. ASSUME NEW k \in 1..(len + 1), NEW m
      PROVE  Alive(next, k, m, live) <=> Alive(log, k, m, live)
  <2>1. \A j \in 1..(k - 1) : j \in 1..len
    BY <1>2
  <2>2. Earlier(next, k, m) = Earlier(log, k, m)
    BY <1>2, <2>1
  <2>3. \A j \in Earlier(log, k, m) : next[j] = log[j]
    BY <1>2, <2>1
  <2> HIDE DEF Earlier
  <2> QED BY <2>2, <2>3 DEF Alive, Earlier
<1>5. ASSUME NEW m, m # n
      PROVE  Alive(next, len + 2, m, live) <=> Alive(log, len + 1, m, live)
  <2>1. Earlier(next, len + 2, m) = Earlier(log, len + 1, m)
    <3>1. \A j : j \in 1..(len + 2 - 1) <=> j \in 1..(len + 1 - 1) \/ j = len + 1
      BY <1>2
    <3> QED BY <1>2, <1>3, <1>5, <3>1
  <2>2. \A j \in Earlier(log, len + 1, m) : next[j] = log[j]
    BY <1>2
  <2> HIDE DEF Earlier
  <2> QED BY <2>1, <2>2 DEF Alive, Earlier
<1>6. Alive(next, len + 2, n, live) <=> what # "TERMINATE"
  <2>1. len + 1 \in Earlier(next, len + 2, n)
    BY <1>2, <1>3
  <2>2. \A j \in Earlier(next, len + 2, n) : j \in Nat /\ j <= len + 1
    BY <1>2
  <2>3. \A j \in Earlier(next, len + 2, n) :
          (\A h \in Earlier(next, len + 2, n) : h <= j) <=> j = len + 1
    BY <1>2, <2>1, <2>2
  <2> HIDE DEF Earlier
  <2> QED BY <1>3, <2>1, <2>3 DEF Alive, Earlier
<1>7. Len(next) + 1 = len + 2
  BY <1>2
<1> QED BY <1>1, <1>4, <1>5, <1>6, <1>7 DEF next

-----------------------------------------------------------------------------
(* What an instance must be like between two steps of a tick.              *)

\* The log of this tick keeps the life cycle, and live is who is alive after it.
Told(i) ==
  /\ \A k \in DOMAIN i.log :
       LET n == i.log[k][1]
           what == i.log[k][2]
           alive == Alive(i.log, k, n, inst.live)
       IN Fn(n) = "user" =>
            (what = "INIT" => ~alive) /\ (what \in UserResults => alive)
  /\ \A n \in UserNodes : n \in i.live <=> Alive(i.log, Len(i.log) + 1, n, inst.live)

Sane(i) ==
  /\ i \in Insts /\ Len(i.queue) <= QueueSize /\ i.live \subseteq UserNodes
  /\ Tidy(tree) => Told(i)

\* Something below n holds what its INIT took.
Busy(i, n) == Tidy(tree) /\ \E m \in Below(n) : m \in i.live

\* The children that OnTerminate reaches.
Reached(s, n, k) ==
  /\ Fn(n) = "sequence" => k = s.state + 1
  /\ Fn(n) \in {"state_machine", "field_dispatch"} => k = s.data
  /\ Fn(n) = "while" => k = 2 /\ s.state = 1
  /\ Fn(n) = "function_interface" => s.state # 2
  /\ Fn(n) \notin Silent

Narrow(i, n) ==
  \A k \in DOMAIN Kids(n) : Busy(i, Kids(n)[k]) => Reached(i.node[n], n, k)

\* The functions that remember in their data which child they called.
Pointed(i, n) ==
  IsMain(n) /\ Fn(n) \in {"cond", "state_machine", "field_dispatch"} =>
    i.node[n].data \in 0..Len(Kids(n))

\* What lives below n can be reached by a TERMINATE to n.
Local(i, n) ==
  /\ Busy(i, n) => i.node[n].active /\ i.node[n].init
  /\ Tidy(tree) /\ Fn(n) = "user" /\ i.node[n].active /\ i.node[n].init => n \in i.live
  /\ Pointed(i, n)
  /\ Narrow(i, n)

Sound(i, n) == \A m \in Below(n) : Local(i, m)
KidsSound(i, n) == \A k \in DOMAIN Kids(n) : Sound(i, Kids(n)[k])
KidsIdle(i, n) == \A k \in DOMAIN Kids(n) : ~Busy(i, Kids(n)[k])

\* Outside nodes, i and j agree.
Same(i, j, nodes) ==
  \A m \in Nodes \ nodes : j.node[m] = i.node[m] /\ (m \in j.live <=> m \in i.live)

-----------------------------------------------------------------------------
(* The operations on one node.                                             *)

\* A change of the flags, the state byte or the data leaves the instance sane.
LEMMA NodeSet ==
  ASSUME NEW i, Sane(i), NEW n \in Nodes, NEW s \in NodeState
  PROVE  LET j == [i EXCEPT !.node[n] = s] IN
         /\ Sane(j) /\ j.node[n] = s /\ j.live = i.live
         /\ \A m \in Nodes : m # n => j.node[m] = i.node[m]
<1> DEFINE j == [i EXCEPT !.node[n] = s]
<1>1. i \in Insts /\ Len(i.queue) <= QueueSize /\ i.live \subseteq UserNodes /\ (Tidy(tree) => Told(i))
  BY DEF Sane
<1>2. /\ j \in Insts /\ j.queue = i.queue /\ j.live = i.live /\ j.log = i.log
      /\ j.node[n] = s /\ \A m \in Nodes : m # n => j.node[m] = i.node[m]
  BY <1>1 DEF Insts
<1> HIDE DEF j
<1>3. Told(i) => Told(j)
  BY <1>2 DEF Told
<1>4. Sane(j)
  BY <1>1, <1>2, <1>3 DEF Sane
<1> QED BY <1>2, <1>4 DEF j

\* Instance j is i but for the node n, which is left as s.
Wrote(i, j, n, s) ==
  /\ Sane(j) /\ j.live = i.live /\ j.node[n] = s
  /\ \A m \in Nodes : m # n => j.node[m] = i.node[m]

\* Writing the state byte of a node.
LEMMA StateSet ==
  ASSUME NEW i, Sane(i), NEW n \in Nodes, NEW v \in 0..255
  PROVE  Wrote(i, SetState(i, n, v), n, [i.node[n] EXCEPT !.state = v])
<1>1. i.node[n] \in NodeState
  BY DEF Sane, Insts
<1>2. PICK s : s = [i.node[n] EXCEPT !.state = v]
  OBVIOUS
<1>3. s \in NodeState
  BY <1>1, <1>2 DEF NodeState
<1>4. PICK j : j = SetState(i, n, v)
  OBVIOUS
<1>5. j = [i EXCEPT !.node[n] = s]
  BY <1>2, <1>4 DEF SetState
<1>6. /\ Sane(j) /\ j.live = i.live /\ j.node[n] = s
      /\ \A m \in Nodes : m # n => j.node[m] = i.node[m]
  BY <1>3, <1>5, NodeSet
<1> QED BY <1>2, <1>4, <1>6 DEF Wrote

\* Writing the data of a node.
LEMMA DataSet ==
  ASSUME NEW i, Sane(i), NEW n \in Nodes, NEW v \in Nat
  PROVE  Wrote(i, SetData(i, n, v), n, [i.node[n] EXCEPT !.data = v])
<1>1. i.node[n] \in NodeState
  BY DEF Sane, Insts
<1>2. PICK s : s = [i.node[n] EXCEPT !.data = v]
  OBVIOUS
<1>3. s \in NodeState
  BY <1>1, <1>2 DEF NodeState
<1>4. PICK j : j = SetData(i, n, v)
  OBVIOUS
<1>5. j = [i EXCEPT !.node[n] = s]
  BY <1>2, <1>4 DEF SetData
<1>6. /\ Sane(j) /\ j.live = i.live /\ j.node[n] = s
      /\ \A m \in Nodes : m # n => j.node[m] = i.node[m]
  BY <1>3, <1>5, NodeSet
<1> QED BY <1>2, <1>4, <1>6 DEF Wrote

LEMMA InitSet ==
  ASSUME NEW i, Sane(i), NEW n \in Nodes
  PROVE  LET j == [i EXCEPT !.node[n].init = TRUE] IN
         /\ Sane(j) /\ j.live = i.live
         /\ j.node[n] = [i.node[n] EXCEPT !.init = TRUE]
         /\ \A m \in Nodes : m # n => j.node[m] = i.node[m]
<1>1. i.node[n] \in NodeState
  BY DEF Sane, Insts
<1>2. PICK s : s = [i.node[n] EXCEPT !.init = TRUE]
  OBVIOUS
<1>3. s \in NodeState
  BY <1>1, <1>2 DEF NodeState
<1>4. PICK j : j = [i EXCEPT !.node[n].init = TRUE]
  OBVIOUS
<1>5. j = [i EXCEPT !.node[n] = s]
  BY <1>2, <1>4
<1>6. /\ Sane(j) /\ j.live = i.live /\ j.node[n] = s
      /\ \A m \in Nodes : m # n => j.node[m] = i.node[m]
  BY <1>3, <1>5, NodeSet
<1> QED BY <1>2, <1>4, <1>6

LEMMA ActiveUnset ==
  ASSUME NEW i, Sane(i), NEW n \in Nodes
  PROVE  LET j == [i EXCEPT !.node[n].active = FALSE] IN
         /\ Sane(j) /\ j.live = i.live
         /\ j.node[n] = [i.node[n] EXCEPT !.active = FALSE]
         /\ \A m \in Nodes : m # n => j.node[m] = i.node[m]
<1>1. i.node[n] \in NodeState
  BY DEF Sane, Insts
<1>2. PICK s : s = [i.node[n] EXCEPT !.active = FALSE]
  OBVIOUS
<1>3. s \in NodeState
  BY <1>1, <1>2 DEF NodeState
<1>4. PICK j : j = [i EXCEPT !.node[n].active = FALSE]
  OBVIOUS
<1>5. j = [i EXCEPT !.node[n] = s]
  BY <1>2, <1>4
<1>6. /\ Sane(j) /\ j.live = i.live /\ j.node[n] = s
      /\ \A m \in Nodes : m # n => j.node[m] = i.node[m]
  BY <1>3, <1>5, NodeSet
<1> QED BY <1>2, <1>4, <1>6

LEMMA ResetSets ==
  ASSUME NEW i, Sane(i), NEW A
  PROVE  LET j == ResetAll(i, A) IN
         /\ Sane(j) /\ j.live = i.live
         /\ \A m \in Nodes : j.node[m] = IF m \in A THEN Fresh(i.node[m]) ELSE i.node[m]
<1> DEFINE j == ResetAll(i, A)
           node == [m \in Nodes |-> IF m \in A THEN Fresh(i.node[m]) ELSE i.node[m]]
<1>1. i \in Insts /\ Len(i.queue) <= QueueSize /\ i.live \subseteq UserNodes /\ (Tidy(tree) => Told(i))
  BY DEF Sane
<1>2. node \in [Nodes -> NodeState]
  <2>1. ASSUME NEW m \in Nodes PROVE Fresh(i.node[m]) \in NodeState
    <3>1. i.node[m] \in NodeState
      BY <1>1 DEF Insts
    <3> QED BY <3>1 DEF Fresh, NodeState
  <2>2. ASSUME NEW m \in Nodes PROVE i.node[m] \in NodeState
    BY <1>1 DEF Insts
  <2> QED BY <2>1, <2>2
<1>3. j = [i EXCEPT !.node = node]
  <2>1. DOMAIN i.node = Nodes
    BY <1>1 DEF Insts
  <2> QED BY <2>1 DEF ResetAll
<1>4. \A m \in Nodes : node[m] = IF m \in A THEN Fresh(i.node[m]) ELSE i.node[m]
  OBVIOUS
<1> HIDE DEF node, j
<1>5. /\ j \in Insts /\ j.queue = i.queue /\ j.live = i.live /\ j.log = i.log /\ j.node = node
  BY <1>1, <1>2, <1>3 DEF Insts
<1>6. Told(i) => Told(j)
  BY <1>5 DEF Told
<1>7. Sane(j)
  BY <1>1, <1>5, <1>6 DEF Sane
<1> QED BY <1>4, <1>5, <1>7 DEF j

\* A user function is logged in turn: INIT when it is not alive, a tick when it is.
LEMMA LogUser ==
  ASSUME NEW i, Sane(i), NEW n \in UserNodes, NEW what \in STRING,
         Tidy(tree) => /\ what = "INIT" => n \notin i.live
                       /\ what \notin {"INIT", "TERMINATE"} => n \in i.live
  PROVE  LET j == Log(i, n, what) IN
         /\ Sane(j) /\ j.node = i.node
         /\ \A m \in Nodes : m # n => (m \in j.live <=> m \in i.live)
         /\ what = "INIT" => n \in j.live
         /\ what = "TERMINATE" => n \notin j.live
         /\ what \notin {"INIT", "TERMINATE"} => j.live = i.live
<1> DEFINE j == Log(i, n, what)
           L == inst.live
<1>1. i \in Insts /\ Len(i.queue) <= QueueSize /\ i.live \subseteq UserNodes /\ (Tidy(tree) => Told(i))
  BY DEF Sane
<1>2. n \in Nodes /\ Fn(n) = "user" /\ UserNodes \subseteq Nodes
  BY DEF UserNodes, Nodes
<1>3. PICK log, live : log = Append(i.log, <<n, what>>)
                    /\ live = IF what = "INIT" THEN i.live \cup {n}
                              ELSE IF what = "TERMINATE" THEN i.live \ {n} ELSE i.live
  OBVIOUS
<1>4. i.log \in Seq(Nodes \X STRING) /\ i.live \subseteq Nodes
  BY <1>1 DEF Insts
<1>5. log \in Seq(Nodes \X STRING) /\ live \subseteq UserNodes
  BY <1>1, <1>2, <1>3, <1>4
<1>6. j = [i EXCEPT !.log = log, !.live = live]
  BY <1>3 DEF Log
<1> HIDE DEF j, L
<1>7. j \in Insts /\ j.queue = i.queue /\ j.node = i.node /\ j.log = log /\ j.live = live
  BY <1>1, <1>2, <1>5, <1>6 DEF Insts
<1>8. /\ \A k \in 1..(Len(i.log) + 1) : \A m : Alive(log, k, m, L) <=> Alive(i.log, k, m, L)
      /\ \A m : m # n => (Alive(log, Len(log) + 1, m, L) <=> Alive(i.log, Len(i.log) + 1, m, L))
      /\ Alive(log, Len(log) + 1, n, L) <=> what # "TERMINATE"
  BY <1>2, <1>3, <1>4, AliveAppend
<1>9. /\ Len(i.log) \in Nat /\ DOMAIN log = 1..(Len(i.log) + 1) /\ DOMAIN i.log = 1..Len(i.log)
      /\ \A k \in 1..Len(i.log) : log[k] = i.log[k]
      /\ log[Len(i.log) + 1] = <<n, what>>
  <2>1. PICK S, e, s : S = Nodes \X STRING /\ e = <<n, what>> /\ s = i.log
    OBVIOUS
  <2>2. e \in S /\ s \in Seq(S) /\ log = Append(s, e)
    BY <1>2, <1>3, <1>4, <2>1
  <2>3. /\ Append(s, e) \in Seq(S) /\ Len(s) \in Nat /\ Len(Append(s, e)) = Len(s) + 1
        /\ \A k \in 1..Len(s) : Append(s, e)[k] = s[k]
        /\ Append(s, e)[Len(s) + 1] = e
    BY <2>2, AppendFacts
  <2>4. DOMAIN Append(s, e) = 1..(Len(s) + 1) /\ DOMAIN s = 1..Len(s)
    BY <2>2, <2>3
  <2> QED BY <2>1, <2>2, <2>3, <2>4
<1>10. ASSUME Tidy(tree) PROVE Told(j)
  <2>1. Told(i)
    BY <1>1, <1>10
  <2>2. n \in i.live <=> Alive(i.log, Len(i.log) + 1, n, L)
    BY <2>1 DEF Told, L
  <2>3. what \in UserResults => what \notin {"INIT", "TERMINATE"}
    BY ResultsAssumption DEF Words
  <2>4. ASSUME NEW k \in DOMAIN log, Fn(log[k][1]) = "user"
        PROVE  /\ log[k][2] = "INIT" => ~Alive(log, k, log[k][1], L)
               /\ log[k][2] \in UserResults => Alive(log, k, log[k][1], L)
    <3>1. CASE k \in 1..Len(i.log)
      <4>1. k \in 1..(Len(i.log) + 1) /\ log[k] = i.log[k] /\ k \in DOMAIN i.log
        BY <1>9, <3>1
      <4>2. Alive(log, k, log[k][1], L) <=> Alive(i.log, k, i.log[k][1], L)
        BY <1>8, <4>1
      <4> QED BY <2>1, <2>4, <4>1, <4>2 DEF Told, L
    <3>2. CASE k = Len(i.log) + 1
      <4>1. k \in 1..(Len(i.log) + 1) /\ log[k][1] = n /\ log[k][2] = what
        BY <1>9, <3>2
      <4>2. Alive(log, k, n, L) <=> Alive(i.log, Len(i.log) + 1, n, L)
        BY <1>8, <3>2, <4>1
      <4>3. Alive(log, k, n, L) <=> n \in i.live
        BY <2>2, <4>2
      <4> QED BY <1>10, <2>3, <4>1, <4>3
    <3> QED BY <1>9, <3>1, <3>2
  <2>5. ASSUME NEW m \in UserNodes PROVE m \in live <=> Alive(log, Len(log) + 1, m, L)
    <3>1. CASE m = n
      BY <1>3, <1>8, <1>10, <3>1
    <3>2. CASE m # n
      <4>1. m \in i.live <=> Alive(i.log, Len(i.log) + 1, m, L)
        BY <2>1 DEF Told, L
      <4> QED BY <1>3, <1>8, <3>2, <4>1
    <3> QED BY <3>1, <3>2
  <2> QED BY <1>7, <2>4, <2>5 DEF Told, L
<1>11. Sane(j)
  BY <1>1, <1>5, <1>7, <1>10 DEF Sane
<1>12. /\ \A m \in Nodes : m # n => (m \in j.live <=> m \in i.live)
       /\ what = "INIT" => n \in j.live
       /\ what = "TERMINATE" => n \notin j.live
       /\ what \notin {"INIT", "TERMINATE"} => j.live = i.live
  BY <1>3, <1>7
<1> QED BY <1>7, <1>11, <1>12 DEF j

LEMMA LogOther ==
  ASSUME NEW i, Sane(i), NEW n \in Nodes, Fn(n) # "user", NEW what \in Words
  PROVE  LET j == Log(i, n, what) IN Sane(j) /\ j.node = i.node /\ j.live = i.live
<1> DEFINE j == Log(i, n, what)
           L == inst.live
<1>1. i \in Insts /\ Len(i.queue) <= QueueSize /\ i.live \subseteq UserNodes /\ (Tidy(tree) => Told(i))
  BY DEF Sane
<1>2. what \in STRING /\ what # "INIT" /\ what # "TERMINATE"
  BY DEF Words
<1>3. PICK log : log = Append(i.log, <<n, what>>)
  OBVIOUS
<1>4. i.log \in Seq(Nodes \X STRING)
  BY <1>1 DEF Insts
<1>5. log \in Seq(Nodes \X STRING)
  BY <1>2, <1>3, <1>4
<1>6. j = [i EXCEPT !.log = log, !.live = i.live]
  BY <1>2, <1>3 DEF Log
<1> HIDE DEF j, L
<1>7. j \in Insts /\ j.queue = i.queue /\ j.node = i.node /\ j.log = log /\ j.live = i.live
  BY <1>1, <1>2, <1>5, <1>6 DEF Insts
<1>8. /\ \A k \in 1..(Len(i.log) + 1) : \A m : Alive(log, k, m, L) <=> Alive(i.log, k, m, L)
      /\ \A m : m # n => (Alive(log, Len(log) + 1, m, L) <=> Alive(i.log, Len(i.log) + 1, m, L))
  BY <1>2, <1>3, <1>4, AliveAppend
<1>9. /\ Len(i.log) \in Nat /\ DOMAIN log = 1..(Len(i.log) + 1) /\ DOMAIN i.log = 1..Len(i.log)
      /\ \A k \in 1..Len(i.log) : log[k] = i.log[k]
      /\ log[Len(i.log) + 1] = <<n, what>>
  <2>1. PICK S, e, s : S = Nodes \X STRING /\ e = <<n, what>> /\ s = i.log
    OBVIOUS
  <2>2. e \in S /\ s \in Seq(S) /\ log = Append(s, e)
    BY <1>2, <1>3, <1>4, <2>1
  <2>3. /\ Append(s, e) \in Seq(S) /\ Len(s) \in Nat /\ Len(Append(s, e)) = Len(s) + 1
        /\ \A k \in 1..Len(s) : Append(s, e)[k] = s[k]
        /\ Append(s, e)[Len(s) + 1] = e
    BY <2>2, AppendFacts
  <2>4. DOMAIN Append(s, e) = 1..(Len(s) + 1) /\ DOMAIN s = 1..Len(s)
    BY <2>2, <2>3
  <2> QED BY <2>1, <2>2, <2>3, <2>4
<1>10. ASSUME Told(i) PROVE Told(j)
  <2>1. ASSUME NEW k \in DOMAIN log, Fn(log[k][1]) = "user"
        PROVE  /\ log[k][2] = "INIT" => ~Alive(log, k, log[k][1], L)
               /\ log[k][2] \in UserResults => Alive(log, k, log[k][1], L)
    <3>1. k # Len(i.log) + 1
      BY <1>9, <2>1
    <3>2. k \in 1..(Len(i.log) + 1) /\ log[k] = i.log[k] /\ k \in DOMAIN i.log
      BY <1>9, <3>1
    <3>3. Alive(log, k, log[k][1], L) <=> Alive(i.log, k, i.log[k][1], L)
      BY <1>8, <3>2
    <3> QED BY <1>10, <2>1, <3>2, <3>3 DEF Told, L
  <2>2. ASSUME NEW m \in UserNodes PROVE m \in i.live <=> Alive(log, Len(log) + 1, m, L)
    <3>1. m # n
      BY DEF UserNodes
    <3>2. m \in i.live <=> Alive(i.log, Len(i.log) + 1, m, L)
      BY <1>10 DEF Told, L
    <3> QED BY <1>8, <3>1, <3>2
  <2> QED BY <1>7, <2>1, <2>2 DEF Told, L
<1>11. Sane(j)
  BY <1>1, <1>7, <1>10 DEF Sane
<1> QED BY <1>7, <1>11 DEF j

LEMMA FieldSet ==
  ASSUME NEW i, Sane(i), NEW v \in STRING
  PROVE  LET j == [i EXCEPT !.field = v] IN Sane(j) /\ j.node = i.node /\ j.live = i.live
<1> DEFINE j == [i EXCEPT !.field = v]
<1>1. i \in Insts /\ Len(i.queue) <= QueueSize /\ i.live \subseteq UserNodes /\ (Tidy(tree) => Told(i))
  BY DEF Sane
<1>2. j \in Insts /\ j.queue = i.queue /\ j.live = i.live /\ j.log = i.log /\ j.node = i.node
  BY <1>1 DEF Insts
<1> HIDE DEF j
<1>3. Told(i) => Told(j)
  BY <1>2 DEF Told
<1>4. Sane(j)
  BY <1>1, <1>2, <1>3 DEF Sane
<1> QED BY <1>2, <1>4 DEF j

LEMMA ExceptionKeeps ==
  ASSUME NEW i, Sane(i)
  PROVE  LET j == Exception(i) IN Sane(j) /\ j.node = i.node /\ j.live = i.live
<1> DEFINE j == Exception(i)
<1>1. i \in Insts /\ Len(i.queue) <= QueueSize /\ i.live \subseteq UserNodes /\ (Tidy(tree) => Told(i))
  BY DEF Sane
<1>2. j \in Insts /\ j.queue = i.queue /\ j.live = i.live /\ j.log = i.log /\ j.node = i.node
  BY <1>1 DEF Insts, Exception
<1> HIDE DEF j
<1>3. Told(i) => Told(j)
  BY <1>2 DEF Told
<1>4. Sane(j)
  BY <1>1, <1>2, <1>3 DEF Sane
<1> QED BY <1>2, <1>4 DEF j

\* The ring never holds more than its size: s_expr_event_push stops the processor first.
LEMMA PushKeeps ==
  ASSUME NEW i, Sane(i), NEW event \in Words
  PROVE  LET j == Push(i, event) IN Sane(j) /\ j.node = i.node /\ j.live = i.live
<1>1. CASE Len(i.queue) >= QueueSize
  BY <1>1, ExceptionKeeps DEF Push
<1>2. CASE ~(Len(i.queue) >= QueueSize)
  <2> DEFINE j == Push(i, event)
  <2>1. i \in Insts /\ i.live \subseteq UserNodes /\ (Tidy(tree) => Told(i))
    BY DEF Sane
  <2>2. PICK queue : queue = Append(i.queue, event)
    OBVIOUS
  <2>3. j = [i EXCEPT !.queue = queue]
    BY <1>2, <2>2 DEF Push
  <2>4. i.queue \in Seq(Words)
    BY <2>1 DEF Insts
  <2>5. queue \in Seq(Words) /\ Len(queue) = Len(i.queue) + 1 /\ Len(i.queue) \in Nat
    BY <2>2, <2>4, AppendFacts
  <2>6. Len(queue) <= QueueSize
    BY <1>2, <2>5, QueueAssumption
  <2> HIDE DEF j
  <2>7. j \in Insts /\ j.queue = queue /\ j.live = i.live /\ j.log = i.log /\ j.node = i.node
    BY <2>1, <2>3, <2>5 DEF Insts
  <2>8. Told(i) => Told(j)
    BY <2>7 DEF Told
  <2>9. Sane(j)
    BY <2>1, <2>6, <2>7, <2>8 DEF Sane
  <2> QED BY <2>7, <2>9 DEF j
<1> QED BY <1>1, <1>2

LEMMA NodeArg ==
  ASSUME WellFormed(tree), NEW n \in Nodes
  PROVE  /\ Fn(n) \in {"return", "set_field"} => Arg(n) \in STRING
         /\ Fn(n) = "queue_event" => Arg(n) \in Words
         /\ Fn(n) = "trigger_on_change" => Arg(n) \in 0..255
         /\ Fn(n) = "tick_delay" => Arg(n) \in Nat
         /\ Fn(n) = "wait_event" => Arg(n).count \in Nat
BY DEF WellFormed, ArgOK, Fn, Arg, Nodes

\* A one-shot changes its own flag, the field or the ring, and nobody is less alive.
LEMMA OneshotKeeps ==
  ASSUME WellFormed(tree), NEW i, Sane(i), NEW n \in Nodes, Fn(n) # "user",
         NEW in, in.event \in Words
  PROVE  LET j == Oneshot(i, n, in) IN
         /\ Sane(j) /\ j.live = i.live /\ \A m \in Nodes : m # n => j.node[m] = i.node[m]
<1>1. PICK once : once = IF tree.nodes[n].type = "io" THEN "ever" ELSE "init"
  OBVIOUS
<1>2. PICK j, s : j = [i EXCEPT !.node[n][once] = TRUE] /\ s = [i.node[n] EXCEPT ![once] = TRUE]
  OBVIOUS
<1>3. i.node[n] \in NodeState
  BY DEF Sane, Insts
<1>4. s \in NodeState
  <2>1. PICK q : q = i.node[n]
    OBVIOUS
  <2>2. s = [q EXCEPT ![once] = TRUE] /\ q \in NodeState
    BY <1>2, <1>3, <2>1
  <2>3. CASE once = "ever"
    <3>1. s = [q EXCEPT !.ever = TRUE]
      BY <2>2, <2>3
    <3> QED BY <2>2, <3>1 DEF NodeState
  <2>4. CASE once = "init"
    <3>1. s = [q EXCEPT !.init = TRUE]
      BY <2>2, <2>4
    <3> QED BY <2>2, <3>1 DEF NodeState
  <2> QED BY <1>1, <2>3, <2>4
<1>5. j = [i EXCEPT !.node[n] = s]
  BY <1>2
<1>6. Sane(j) /\ j.live = i.live /\ \A m \in Nodes : m # n => j.node[m] = i.node[m]
  BY <1>4, <1>5, NodeSet
<1>7. PICK done : done = Log(j, n, in.event)
  OBVIOUS
<1>8. Sane(done) /\ done.live = i.live /\ \A m \in Nodes : m # n => done.node[m] = i.node[m]
  BY <1>6, <1>7, LogOther
<1>9. Oneshot(i, n, in) = IF i.node[n][once] THEN i
                          ELSE CASE Fn(n) = "set_field" -> [done EXCEPT !.field = Arg(n)]
                                 [] Fn(n) = "queue_event" -> Push(done, Arg(n))
                                 [] OTHER -> done
  BY <1>1, <1>2, <1>7 DEF Oneshot
<1>10. CASE i.node[n][once]
  BY <1>9, <1>10
<1>11. CASE ~i.node[n][once] /\ Fn(n) = "set_field"
  <2>1. Oneshot(i, n, in) = [done EXCEPT !.field = Arg(n)]
    BY <1>9, <1>11
  <2>2. PICK v : v = Arg(n)
    OBVIOUS
  <2>3. v \in STRING
    BY <1>11, <2>2, NodeArg
  <2> QED BY <1>8, <2>1, <2>2, <2>3, FieldSet
<1>12. CASE ~i.node[n][once] /\ Fn(n) = "queue_event"
  <2>1. Oneshot(i, n, in) = Push(done, Arg(n))
    BY <1>9, <1>12
  <2>2. Arg(n) \in Words
    BY <1>12, NodeArg
  <2> QED BY <1>8, <2>1, <2>2, PushKeeps
<1>13. CASE ~i.node[n][once] /\ Fn(n) # "set_field" /\ Fn(n) # "queue_event"
  <2>1. Oneshot(i, n, in) = done
    BY <1>9, <1>13
  <2> QED BY <1>8, <2>1
<1> QED BY <1>10, <1>11, <1>12, <1>13

-----------------------------------------------------------------------------
(* What lives below a node, and what a change elsewhere leaves as it is.   *)

LEMMA SameBusy ==
  ASSUME WellFormed(tree), NEW i, NEW j, NEW A, Same(i, j, A),
         NEW n \in Nodes, Below(n) \cap A = {}
  PROVE  Busy(j, n) <=> Busy(i, n)
<1>1. \A m \in Below(n) : m \in Nodes \ A
  BY BelowNodes
<1> QED BY <1>1 DEF Same, Busy

\* A part of the tree that a step does not touch stays sound.
LEMMA SameSound ==
  ASSUME WellFormed(tree), NEW i, NEW j, NEW A, Same(i, j, A),
         NEW n \in Nodes, Below(n) \cap A = {}, Sound(i, n)
  PROVE  Sound(j, n)
<1>1. SUFFICES ASSUME NEW m \in Below(n) PROVE Local(j, m)
  BY DEF Sound
<1>2. m \in Nodes /\ m \notin A /\ Below(m) \subseteq Below(n)
  BY BelowNodes, BelowTransitive
<1>3. j.node[m] = i.node[m] /\ (m \in j.live <=> m \in i.live)
  BY <1>2 DEF Same
<1>4. Busy(j, m) <=> Busy(i, m)
  BY <1>2, SameBusy
<1>5. ASSUME NEW k \in DOMAIN Kids(m) PROVE Busy(j, Kids(m)[k]) <=> Busy(i, Kids(m)[k])
  <2>1. Kids(m)[k] \in Nodes /\ Below(Kids(m)[k]) \subseteq Below(m)
    BY <1>2, KidsFacts, BelowKid
  <2> QED BY <1>2, <2>1, SameBusy
<1>6. Local(i, m)
  BY DEF Sound
<1> QED BY <1>3, <1>4, <1>5, <1>6 DEF Local, Narrow, Pointed

LEMMA SameTransitive ==
  ASSUME NEW i, NEW j, NEW k, NEW A, Same(i, j, A), Same(j, k, A)
  PROVE  Same(i, k, A)
BY DEF Same

LEMMA SameWider ==
  ASSUME NEW i, NEW j, NEW A, NEW B, A \subseteq B, Same(i, j, A)
  PROVE  Same(i, j, B)
BY DEF Same

LEMMA BusyCases ==
  ASSUME WellFormed(tree), NEW i, NEW n \in Nodes
  PROVE  Busy(i, n) <=> \/ Tidy(tree) /\ n \in i.live
                        \/ \E k \in DOMAIN Kids(n) : Busy(i, Kids(n)[k])
<1>1. ASSUME Busy(i, n)
      PROVE  \/ Tidy(tree) /\ n \in i.live
             \/ \E k \in DOMAIN Kids(n) : Busy(i, Kids(n)[k])
  BY <1>1, BelowCases DEF Busy
<1>2. ASSUME Tidy(tree), n \in i.live PROVE Busy(i, n)
  BY <1>2, BelowSelf DEF Busy
<1>3. ASSUME NEW k \in DOMAIN Kids(n), Busy(i, Kids(n)[k]) PROVE Busy(i, n)
  BY <1>3, BelowKid DEF Busy
<1> QED BY <1>1, <1>2, <1>3

\* A node is sound when it is so itself and its children are.
LEMMA SoundCases ==
  ASSUME WellFormed(tree), NEW i, NEW n \in Nodes
  PROVE  Sound(i, n) <=> Local(i, n) /\ KidsSound(i, n)
<1>1. ASSUME Sound(i, n) PROVE Local(i, n) /\ KidsSound(i, n)
  BY <1>1, BelowSelf, BelowKid DEF Sound, KidsSound
<1>2. ASSUME Local(i, n), KidsSound(i, n) PROVE Sound(i, n)
  BY <1>2, BelowCases DEF Sound, KidsSound
<1> QED BY <1>1, <1>2

\* What the compiler guarantees of a node, function by function.
LEMMA NodeShape ==
  ASSUME WellFormed(tree), NEW n \in Nodes
  PROVE  /\ IsMain(n) => Fn(n) \in Controls \cup Silent \cup {"user"}
         /\ tree.nodes[n].type \in {"main", "pred", "oneshot", "io"}
         /\ ~IsMain(n) => Fn(n) # "user" /\ \A k \in DOMAIN Kids(n) : ~IsMain(Kids(n)[k])
         /\ Fn(n) = "user" => Kids(n) = <<>>
         /\ Fn(n) = "while" => Len(Kids(n)) = 2
         /\ Fn(n) \in {"if_then_else", "trigger_on_change"} => Len(Kids(n)) \in {2, 3}
         /\ IsMain(n) /\ Fn(n) \in Simple => \A k \in DOMAIN Kids(n) : ~IsMain(Kids(n)[k])
         /\ IsMain(n) /\ Fn(n) \in Verifies \cup {"wait_timeout"} => Len(Kids(n)) > 0
<1>1. PICK d, kids : /\ d = tree.nodes[n]
                     /\ kids = {tree.nodes[d.kids[k]] : k \in DOMAIN d.kids}
  OBVIOUS
<1>2. CallOK(d, kids)
  BY <1>1 DEF WellFormed, Nodes
<1>3. d.fn = Fn(n) /\ d.kids = Kids(n) /\ (d.type = "main" <=> IsMain(n)) /\ d.type = tree.nodes[n].type
  BY <1>1 DEF Fn, Kids, IsMain
<1>4. \A k \in DOMAIN Kids(n) : tree.nodes[Kids(n)[k]] \in kids
  BY <1>1, <1>3
<1>5. \A k \in DOMAIN Kids(n) : IsMain(Kids(n)[k]) <=> tree.nodes[Kids(n)[k]].type = "main"
  BY DEF IsMain
<1>6. Len(Kids(n)) \in Nat /\ DOMAIN Kids(n) = 1..Len(Kids(n))
  <2>1. DOMAIN Kids(n) = 1..Len(Kids(n))
    BY KidsFacts
  <2> QED BY <2>1, KidsCounts
<1>7. kids = {} => DOMAIN Kids(n) = {}
  BY <1>4
<1>8. DOMAIN Kids(n) = {} => kids = {} /\ Kids(n) = <<>>
  <2>1. Kids(n) \in Seq((n + 1)..Len(tree.nodes))
    BY DEF WellFormed, IsTree, Nodes, Kids
  <2>2. PICK s, S : s = Kids(n) /\ S = (n + 1)..Len(tree.nodes)
    OBVIOUS
  <2>3. s \in Seq(S)
    BY <2>1, <2>2
  <2>4. DOMAIN s = {} => s = <<>>
    BY <2>3
  <2> QED BY <1>1, <1>3, <2>2, <2>4
<1>9. /\ IsMain(n) => Fn(n) \in Controls \cup Silent \cup {"user"}
      /\ tree.nodes[n].type \in {"main", "pred", "oneshot", "io"}
  BY <1>2, <1>3 DEF CallOK
<1>10. ~IsMain(n) => Fn(n) # "user" /\ \A k \in DOMAIN Kids(n) : ~IsMain(Kids(n)[k])
  BY <1>2, <1>3, <1>4, <1>5, <1>7 DEF CallOK
<1>11. Fn(n) = "user" => Kids(n) = <<>>
  BY <1>2, <1>3, <1>7, <1>8 DEF CallOK
<1>12. /\ Fn(n) = "while" => Len(Kids(n)) = 2
       /\ Fn(n) \in {"if_then_else", "trigger_on_change"} => Len(Kids(n)) \in {2, 3}
  BY <1>2, <1>3 DEF CallOK
<1>13. IsMain(n) /\ Fn(n) \in Simple => \A k \in DOMAIN Kids(n) : ~IsMain(Kids(n)[k])
  BY <1>2, <1>3, <1>4, <1>5 DEF CallOK
<1>14. IsMain(n) /\ Fn(n) \in Verifies \cup {"wait_timeout"} => DOMAIN Kids(n) # {}
  BY <1>2, <1>3, <1>8 DEF CallOK
<1>15. DOMAIN Kids(n) # {} => Len(Kids(n)) > 0
  BY <1>6
<1> QED BY <1>9, <1>10, <1>11, <1>12, <1>13, <1>14, <1>15

\* Below a predicate or a one-shot there is no user function.
LEMMA OtherBarren ==
  ASSUME WellFormed(tree), NEW n \in Nodes, ~IsMain(n)
  PROVE  \A m \in Below(n) : Fn(m) # "user"
<1> DEFINE G == {x \in Nodes : ~IsMain(x) => \A m \in Below(x) : Fn(m) # "user"}
<1>1. ASSUME NEW x \in Nodes, \A k \in DOMAIN Kids(x) : Kids(x)[k] \in G
      PROVE  x \in G
  <2>1. SUFFICES ASSUME ~IsMain(x), NEW m \in Below(x) PROVE Fn(m) # "user"
    OBVIOUS
  <2>2. Fn(x) # "user" /\ \A k \in DOMAIN Kids(x) : ~IsMain(Kids(x)[k])
    BY <2>1, NodeShape
  <2>3. CASE m = x
    BY <2>2, <2>3
  <2>4. CASE m # x
    BY <1>1, <2>2, <2>4, BelowCases
  <2> QED BY <2>3, <2>4
<1> HIDE DEF G
<1>2. n \in G
  BY <1>1, TreeInduction
<1> QED BY <1>2 DEF G

LEMMA BarrenIdle ==
  ASSUME NEW i, Sane(i), NEW n, \A m \in Below(n) : Fn(m) # "user"
  PROVE  ~Busy(i, n)
BY DEF Busy, Sane, UserNodes

\* Below a function whose TERMINATE does nothing, nothing lives.
LEMMA SilentIdle ==
  ASSUME WellFormed(tree), NEW i, Sane(i), NEW n \in Nodes, Fn(n) \in Silent
  PROVE  KidsIdle(i, n)
<1>1. SUFFICES ASSUME NEW k \in DOMAIN Kids(n), Busy(i, Kids(n)[k]) PROVE FALSE
  BY DEF KidsIdle
<1>2. Kids(n)[k] \in Nodes
  BY KidsFacts
<1>3. CASE Fn(n) = "event_dispatch"
  <2>1. \A m \in Below(n) : Fn(m) # "user"
    BY <1>1, <1>3 DEF Busy, Tidy, Below, Fn, Nodes
  <2>2. \A m \in Below(Kids(n)[k]) : Fn(m) # "user"
    BY <2>1, BelowKid
  <2> QED BY <1>1, <2>2, BarrenIdle
<1>4. CASE Fn(n) # "event_dispatch"
  <2>1. ~IsMain(Kids(n)[k])
    BY <1>4, NodeShape DEF Silent
  <2> QED BY <1>1, <1>2, <2>1, OtherBarren, BarrenIdle
<1> QED BY <1>3, <1>4

\* Where nothing lives, a node may be switched off or made ready.
LEMMA IdleKept ==
  ASSUME WellFormed(tree), NEW i, NEW j, NEW n \in Nodes, Sound(i, n), ~Busy(i, n),
         \A m \in Below(n) :
           /\ m \in j.live => m \in i.live
           /\ \/ j.node[m] = i.node[m]
              \/ ~(j.node[m].active /\ j.node[m].init) /\ j.node[m].data = 0
  PROVE  Sound(j, n) /\ ~Busy(j, n)
<1>1. ~Busy(j, n)
  BY DEF Busy
<1>2. SUFFICES ASSUME NEW m \in Below(n) PROVE Local(j, m)
  BY <1>1 DEF Sound
<1>3. m \in Nodes /\ Below(m) \subseteq Below(n) /\ \A k \in DOMAIN Kids(m) : Below(Kids(m)[k]) \subseteq Below(n)
  BY BelowNodes, BelowTransitive, BelowKid
<1>4. ~Busy(j, m) /\ \A k \in DOMAIN Kids(m) : ~Busy(j, Kids(m)[k])
  BY <1>1, <1>3 DEF Busy
<1>5. Tidy(tree) => m \notin i.live
  BY DEF Busy
<1>6. Local(i, m)
  BY DEF Sound
<1>7. 0 \in 0..Len(Kids(m))
  BY <1>3, KidsCounts
<1> QED BY <1>4, <1>5, <1>6, <1>7 DEF Local, Narrow, Pointed

-----------------------------------------------------------------------------
(* A step below one child of n, and a step below n.                        *)

KidStep(i, j, n, k) == Sane(j) /\ KidsSound(j, n) /\ Same(i, j, Below(Kids(n)[k]))
KidsStep(i, j, n) == Sane(j) /\ KidsSound(j, n) /\ Same(i, j, Below(n) \ {n})

\* What is sound below one child, and the same elsewhere, is sound below the node.
LEMMA KidStepMade ==
  ASSUME WellFormed(tree), NEW n \in Nodes, NEW k \in DOMAIN Kids(n), NEW i, NEW j,
         KidsSound(i, n), Sane(j), Sound(j, Kids(n)[k]), Same(i, j, Below(Kids(n)[k]))
  PROVE  KidStep(i, j, n, k)
<1>1. ASSUME NEW h \in DOMAIN Kids(n), h # k PROVE Sound(j, Kids(n)[h])
  <2>1. Kids(n)[h] \in Nodes /\ Below(Kids(n)[h]) \cap Below(Kids(n)[k]) = {}
    BY <1>1, KidsFacts, KidsApart
  <2>2. Sound(i, Kids(n)[h])
    BY DEF KidsSound
  <2> QED BY <2>1, <2>2, SameSound
<1> QED BY <1>1 DEF KidStep, KidsSound

LEMMA KidStepFacts ==
  ASSUME WellFormed(tree), NEW n \in Nodes, NEW k \in DOMAIN Kids(n), NEW i, NEW j,
         KidStep(i, j, n, k)
  PROVE  /\ KidsStep(i, j, n) /\ j.node[n] = i.node[n] /\ (n \in j.live <=> n \in i.live)
         /\ \A h \in DOMAIN Kids(n) : h # k => (Busy(j, Kids(n)[h]) <=> Busy(i, Kids(n)[h]))
<1>1. n \notin Below(Kids(n)[k]) /\ Below(Kids(n)[k]) \subseteq Below(n)
  BY KidsApart, BelowKid
<1>2. KidsStep(i, j, n)
  <2>1. Below(Kids(n)[k]) \subseteq Below(n) \ {n}
    BY <1>1
  <2> QED BY <2>1, SameWider DEF KidStep, KidsStep
<1>3. j.node[n] = i.node[n] /\ (n \in j.live <=> n \in i.live)
  BY <1>1 DEF KidStep, Same
<1>4. ASSUME NEW h \in DOMAIN Kids(n), h # k
      PROVE  Busy(j, Kids(n)[h]) <=> Busy(i, Kids(n)[h])
  <2>1. Kids(n)[h] \in Nodes /\ Below(Kids(n)[h]) \cap Below(Kids(n)[k]) = {}
    BY <1>4, KidsFacts, KidsApart
  <2> QED BY <2>1, SameBusy DEF KidStep
<1> QED BY <1>2, <1>3, <1>4

LEMMA KidsStepFacts ==
  ASSUME WellFormed(tree), NEW n \in Nodes, NEW i, NEW j, KidsStep(i, j, n)
  PROVE  /\ j.node[n] = i.node[n] /\ (n \in j.live <=> n \in i.live)
         /\ Same(i, j, Below(n))
<1>1. j.node[n] = i.node[n] /\ (n \in j.live <=> n \in i.live)
  BY DEF KidsStep, Same
<1>2. Same(i, j, Below(n))
  BY SameWider DEF KidsStep
<1> QED BY <1>1, <1>2

LEMMA KidsStepTransitive ==
  ASSUME NEW n, NEW h, NEW i, NEW j, KidsStep(h, i, n), KidsStep(i, j, n)
  PROVE  KidsStep(h, j, n)
BY SameTransitive DEF KidsStep

LEMMA KidsStepSelf ==
  ASSUME NEW n, NEW i, Sane(i), KidsSound(i, n)
  PROVE  KidsStep(i, i, n)
BY DEF KidsStep, Same

\* Resetting below a child where nothing lives.
LEMMA ResetKid ==
  ASSUME WellFormed(tree), NEW n \in Nodes, NEW k \in DOMAIN Kids(n),
         NEW i, Sane(i), KidsSound(i, n), ~Busy(i, Kids(n)[k]),
         NEW A, A \subseteq Below(Kids(n)[k])
  PROVE  KidStep(i, ResetAll(i, A), n, k) /\ ~Busy(ResetAll(i, A), Kids(n)[k])
<1>1. PICK j, c : j = ResetAll(i, A) /\ c = Kids(n)[k]
  OBVIOUS
<1>2. c \in Nodes /\ Below(c) \subseteq Nodes
  BY <1>1, KidsFacts, BelowNodes
<1>3. /\ Sane(j) /\ j.live = i.live
      /\ \A m \in Nodes : j.node[m] = IF m \in A THEN Fresh(i.node[m]) ELSE i.node[m]
  BY <1>1, ResetSets
<1>4. \A m \in Nodes : ~Fresh(i.node[m]).init /\ Fresh(i.node[m]).data = 0
  BY DEF Fresh
<1>5. Sound(j, c) /\ ~Busy(j, c)
  <2>1. Sound(i, c) /\ ~Busy(i, c)
    BY <1>1 DEF KidsSound
  <2>2. ASSUME NEW m \in Below(c)
        PROVE  /\ m \in j.live => m \in i.live
               /\ \/ j.node[m] = i.node[m]
                  \/ ~(j.node[m].active /\ j.node[m].init) /\ j.node[m].data = 0
    BY <1>2, <1>3, <1>4
  <2> QED BY <1>2, <2>1, <2>2, IdleKept
<1>6. Same(i, j, Below(c))
  BY <1>1, <1>3 DEF Same
<1> QED BY <1>1, <1>3, <1>5, <1>6, KidStepMade

-----------------------------------------------------------------------------
(* TERMINATE leaves nothing alive.                                         *)

EndsWell(f, n) ==
  \A i \in Insts : Sane(i) /\ Sound(i, n) =>
    Sane(f[i]) /\ Sound(f[i], n) /\ ~Busy(f[i], n) /\ Same(i, f[i], Below(n))

LEMMA EndKid ==
  ASSUME WellFormed(tree), NEW n \in Nodes, NEW k \in DOMAIN Kids(n),
         NEW f, EndsWell(f, Kids(n)[k]), NEW i, Sane(i), KidsSound(i, n)
  PROVE  KidStep(i, f[i], n, k) /\ ~Busy(f[i], Kids(n)[k])
<1>1. i \in Insts /\ Sound(i, Kids(n)[k])
  BY DEF Sane, KidsSound
<1>2. PICK j : j = f[i]
  OBVIOUS
<1>3. Sane(j) /\ Sound(j, Kids(n)[k]) /\ ~Busy(j, Kids(n)[k]) /\ Same(i, j, Below(Kids(n)[k]))
  BY <1>1, <1>2 DEF EndsWell
<1> QED BY <1>2, <1>3, KidStepMade

\* s_expr_children_terminate_all leaves nothing alive below any child.
LEMMA ChildrenTerminateKeeps ==
  ASSUME WellFormed(tree), NEW n \in Nodes, NEW i, Sane(i), KidsSound(i, n),
         NEW end, \A k \in DOMAIN Kids(n) : EndsWell(end[k], Kids(n)[k])
  PROVE  LET j == ChildrenTerminate(i, n, end) IN KidsStep(i, j, n) /\ KidsIdle(j, n)
<1>1. PICK len : len = Len(Kids(n))
  OBVIOUS
<1>2. len \in Nat /\ DOMAIN Kids(n) = 1..len
  <2>1. DOMAIN Kids(n) = 1..len
    BY <1>1, KidsFacts
  <2> QED BY <1>1, <2>1, KidsCounts
<1> DEFINE Back == [k \in 1..len |-> [j \in Insts |->
                      ChildReset(end[len + 1 - k][j], Kids(n)[len + 1 - k])]]
           S == [k \in 0..len |-> {j \in Insts :
                   KidsStep(i, j, n) /\ \A h \in DOMAIN Kids(n) : h > len - k => ~Busy(j, Kids(n)[h])}]
<1>3. i \in S[0]
  <2>1. KidsStep(i, i, n) /\ i \in Insts
    BY KidsStepSelf DEF Sane
  <2>2. \A h \in DOMAIN Kids(n) : ~(h > len - 0)
    BY <1>2
  <2> QED BY <1>2, <2>1, <2>2
<1>4. ASSUME NEW k \in 1..len, NEW j \in S[k - 1] PROVE Back[k][j] \in S[k]
  <2>1. PICK h, c, e, r : /\ h = len + 1 - k /\ c = Kids(n)[h] /\ e = end[h][j] /\ r = ChildReset(e, c)
    OBVIOUS
  <2>2. h \in DOMAIN Kids(n) /\ k - 1 \in 0..len /\ len - (k - 1) = h /\ len - k = h - 1 /\ h \in Nat
    BY <1>2, <2>1
  <2>3. /\ j \in Insts /\ KidsStep(i, j, n)
        /\ \A g \in DOMAIN Kids(n) : g > h => ~Busy(j, Kids(n)[g])
    BY <1>4, <2>2
  <2>4. KidStep(j, e, n, h) /\ ~Busy(e, c)
    BY <2>1, <2>2, <2>3, EndKid DEF KidsStep
  <2>5. KidStep(e, r, n, h) /\ ~Busy(r, c)
    <3>1. Sane(e) /\ KidsSound(e, n) /\ c \in Nodes
      BY <2>1, <2>2, <2>4, KidsFacts DEF KidStep
    <3>2. {c} \subseteq Below(Kids(n)[h])
      BY <2>1, <3>1, BelowSelf
    <3>3. r = ResetAll(e, {c})
      BY <2>1 DEF ChildReset
    <3> QED BY <2>1, <2>2, <2>4, <3>1, <3>2, <3>3, ResetKid
  <2>6. KidsStep(j, e, n) /\ KidsStep(e, r, n)
    BY <2>2, <2>4, <2>5, KidStepFacts
  <2>7. KidsStep(i, r, n)
    BY <2>3, <2>6, KidsStepTransitive
  <2>8. ASSUME NEW g \in DOMAIN Kids(n), g > h - 1 PROVE ~Busy(r, Kids(n)[g])
    <3>1. CASE g = h
      BY <2>1, <2>5, <3>1
    <3>2. CASE g # h
      <4>1. g > h
        BY <1>2, <2>2, <2>8, <3>2
      <4>2. ~Busy(j, Kids(n)[g])
        BY <2>3, <4>1
      <4>3. ~Busy(e, Kids(n)[g])
        BY <2>2, <2>4, <3>2, <4>2, KidStepFacts
      <4> QED BY <2>2, <2>5, <3>2, <4>3, KidStepFacts
    <3> QED BY <3>1, <3>2
  <2>9. r \in Insts
    BY <2>7 DEF KidsStep, Sane
  <2>10. Back[k][j] = r
    BY <2>1, <2>3
  <2>11. S[k] = {x \in Insts :
                   KidsStep(i, x, n) /\ \A g \in DOMAIN Kids(n) : g > len - k => ~Busy(x, Kids(n)[g])}
    BY <1>2
  <2> HIDE DEF S, Back
  <2> QED BY <2>2, <2>7, <2>8, <2>9, <2>10, <2>11
<1> HIDE DEF S, Back
<1>5. Through(Back, len, i) \in S[len]
  BY <1>2, <1>3, <1>4, ThroughKeeps
<1>6. ChildrenTerminate(i, n, end) = Through(Back, len, i)
  BY <1>1 DEF ChildrenTerminate, Back
<1>7. PICK j : j = ChildrenTerminate(i, n, end)
  OBVIOUS
<1>8. KidsStep(i, j, n) /\ \A h \in DOMAIN Kids(n) : h > len - len => ~Busy(j, Kids(n)[h])
  BY <1>2, <1>5, <1>6, <1>7 DEF S
<1>9. \A h \in DOMAIN Kids(n) : h > len - len
  BY <1>2
<1> QED BY <1>7, <1>8, <1>9 DEF KidsIdle

\* And so does se_sequence_once's own loop.
LEMMA EndEachKeeps ==
  ASSUME WellFormed(tree), NEW n \in Nodes, NEW i, Sane(i), KidsSound(i, n),
         NEW end, \A k \in DOMAIN Kids(n) : EndsWell(end[k], Kids(n)[k])
  PROVE  LET j == EndEach(i, n, end) IN KidsStep(i, j, n) /\ KidsIdle(j, n)
<1>1. PICK len : len = Len(Kids(n))
  OBVIOUS
<1>2. len \in Nat /\ DOMAIN Kids(n) = 1..len
  <2>1. DOMAIN Kids(n) = 1..len
    BY <1>1, KidsFacts
  <2> QED BY <1>1, <2>1, KidsCounts
<1> DEFINE S == [k \in 0..len |-> {j \in Insts :
                   KidsStep(i, j, n) /\ \A h \in DOMAIN Kids(n) : h <= k => ~Busy(j, Kids(n)[h])}]
<1>3. i \in S[0]
  <2>1. KidsStep(i, i, n) /\ i \in Insts
    BY KidsStepSelf DEF Sane
  <2> QED BY <1>2, <2>1
<1>4. ASSUME NEW k \in 1..len, NEW j \in S[k - 1] PROVE end[k][j] \in S[k]
  <2>1. PICK e : e = end[k][j]
    OBVIOUS
  <2>2. k \in DOMAIN Kids(n) /\ k - 1 \in 0..len
    BY <1>2
  <2>3. /\ j \in Insts /\ KidsStep(i, j, n)
        /\ \A g \in DOMAIN Kids(n) : g <= k - 1 => ~Busy(j, Kids(n)[g])
    BY <1>4, <2>2
  <2>4. KidStep(j, e, n, k) /\ ~Busy(e, Kids(n)[k])
    BY <2>1, <2>2, <2>3, EndKid DEF KidsStep
  <2>5. KidsStep(i, e, n)
    BY <2>2, <2>3, <2>4, KidStepFacts, KidsStepTransitive
  <2>6. ASSUME NEW g \in DOMAIN Kids(n), g <= k PROVE ~Busy(e, Kids(n)[g])
    <3>1. CASE g = k
      BY <2>4, <3>1
    <3>2. CASE g # k
      <4>1. ~Busy(j, Kids(n)[g])
        BY <1>2, <2>3, <2>6, <3>2
      <4> QED BY <2>2, <2>4, <3>2, <4>1, KidStepFacts
    <3> QED BY <3>1, <3>2
  <2>7. e \in Insts
    BY <2>5 DEF KidsStep, Sane
  <2>8. S[k] = {x \in Insts :
                  KidsStep(i, x, n) /\ \A g \in DOMAIN Kids(n) : g <= k => ~Busy(x, Kids(n)[g])}
    BY <1>2
  <2> HIDE DEF S
  <2> QED BY <2>1, <2>5, <2>6, <2>7, <2>8
<1> HIDE DEF S
<1>5. Through(end, len, i) \in S[len]
  BY <1>2, <1>3, <1>4, ThroughKeeps
<1>6. PICK j : j = EndEach(i, n, end)
  OBVIOUS
<1>7. j = Through(end, len, i)
  BY <1>1, <1>6 DEF EndEach
<1>8. KidsStep(i, j, n) /\ \A h \in DOMAIN Kids(n) : h <= len => ~Busy(j, Kids(n)[h])
  BY <1>2, <1>5, <1>7 DEF S
<1>9. \A h \in DOMAIN Kids(n) : h <= len
  BY <1>2
<1> QED BY <1>6, <1>8, <1>9 DEF KidsIdle

\* A change of n alone.
LEMMA OwnStep ==
  ASSUME WellFormed(tree), NEW n \in Nodes, NEW i, NEW j, KidsSound(i, n), Same(i, j, {n})
  PROVE  /\ KidsSound(j, n) /\ Same(i, j, Below(n))
         /\ \A k \in DOMAIN Kids(n) : Busy(j, Kids(n)[k]) <=> Busy(i, Kids(n)[k])
<1>1. ASSUME NEW k \in DOMAIN Kids(n)
      PROVE  Sound(j, Kids(n)[k]) /\ (Busy(j, Kids(n)[k]) <=> Busy(i, Kids(n)[k]))
  <2>1. Kids(n)[k] \in Nodes /\ Below(Kids(n)[k]) \cap {n} = {}
    BY KidsFacts, KidsApart
  <2>2. Sound(i, Kids(n)[k])
    BY DEF KidsSound
  <2> QED BY <2>1, <2>2, SameSound, SameBusy
<1>2. Same(i, j, Below(n))
  BY BelowSelf, SameWider
<1> QED BY <1>1, <1>2 DEF KidsSound

\* A node that remembers no child remembers no wrong one.
LEMMA ZeroPoints ==
  ASSUME WellFormed(tree), NEW n \in Nodes, NEW i, i.node[n].data = 0
  PROVE  Pointed(i, n)
<1>1. 0 \in 0..Len(Kids(n))
  BY KidsCounts
<1> QED BY <1>1 DEF Pointed

\* n itself, and whatever it may have been alive, is over.
Over(i, j, n) ==
  /\ Sane(j) /\ KidsSound(j, n) /\ KidsIdle(j, n) /\ Pointed(j, n) /\ Same(i, j, Below(n))
  /\ Tidy(tree) => n \notin j.live

LEMMA OverMade ==
  ASSUME WellFormed(tree), NEW n \in Nodes, Fn(n) # "user", NEW i, NEW j,
         KidsStep(i, j, n), KidsIdle(j, n), Pointed(i, n)
  PROVE  Over(i, j, n)
<1>1. n \notin j.live
  BY DEF KidsStep, Sane, UserNodes
<1>2. j.node[n] = i.node[n] /\ Same(i, j, Below(n))
  BY KidsStepFacts
<1>3. Pointed(j, n)
  BY <1>2 DEF Pointed
<1> QED BY <1>1, <1>2, <1>3 DEF Over, KidsStep

LEMMA OverState ==
  ASSUME WellFormed(tree), NEW n \in Nodes, Fn(n) # "user", NEW i, NEW j,
         KidsStep(i, j, n), KidsIdle(j, n), Pointed(i, n), NEW v \in 0..255
  PROVE  Over(i, SetState(j, n, v), n)
<1>1. PICK h : h = SetState(j, n, v)
  OBVIOUS
<1>0. Sane(j)
  BY DEF KidsStep
<1>2. /\ Sane(h) /\ h.live = j.live /\ h.node[n] = [j.node[n] EXCEPT !.state = v]
      /\ \A m \in Nodes : m # n => h.node[m] = j.node[m]
  <2>1. Wrote(j, h, n, [j.node[n] EXCEPT !.state = v])
    BY <1>1, <1>0, StateSet
  <2> QED BY <2>1 DEF Wrote
<1>3. Same(j, h, {n})
  BY <1>2 DEF Same
<1>4. /\ KidsSound(h, n) /\ Same(j, h, Below(n))
      /\ \A k \in DOMAIN Kids(n) : Busy(h, Kids(n)[k]) <=> Busy(j, Kids(n)[k])
  BY <1>3, OwnStep DEF KidsStep
<1>5. n \notin h.live
  BY <1>2 DEF Sane, UserNodes
<1>6. Same(i, h, Below(n))
  BY <1>4, KidsStepFacts, SameTransitive
<1>7. Pointed(h, n)
  <2>1. j.node[n] = i.node[n] /\ j.node[n] \in NodeState
    BY <1>0, KidsStepFacts DEF Sane, Insts
  <2>2. h.node[n].data = i.node[n].data
    BY <1>2, <2>1 DEF NodeState
  <2> QED BY <2>2 DEF Pointed
<1> QED BY <1>1, <1>2, <1>4, <1>5, <1>6, <1>7 DEF Over, KidsIdle

LEMMA OverData ==
  ASSUME WellFormed(tree), NEW n \in Nodes, Fn(n) # "user", NEW i, NEW j,
         KidsStep(i, j, n), KidsIdle(j, n)
  PROVE  Over(i, SetData(j, n, 0), n)
<1>1. PICK h, v : h = SetData(j, n, v) /\ v = 0
  OBVIOUS
<1>0. Sane(j)
  BY DEF KidsStep
<1>2. /\ Sane(h) /\ h.live = j.live /\ h.node[n] = [j.node[n] EXCEPT !.data = v]
      /\ \A m \in Nodes : m # n => h.node[m] = j.node[m]
  <2>1. v \in Nat
    BY <1>1
  <2>2. Wrote(j, h, n, [j.node[n] EXCEPT !.data = v])
    BY <1>0, <1>1, <2>1, DataSet
  <2> QED BY <2>2 DEF Wrote
<1>3. Same(j, h, {n})
  BY <1>2 DEF Same
<1>4. /\ KidsSound(h, n) /\ Same(j, h, Below(n))
      /\ \A k \in DOMAIN Kids(n) : Busy(h, Kids(n)[k]) <=> Busy(j, Kids(n)[k])
  BY <1>3, OwnStep DEF KidsStep
<1>5. n \notin h.live
  BY <1>2 DEF Sane, UserNodes
<1>6. Same(i, h, Below(n))
  BY <1>4, KidsStepFacts, SameTransitive
<1>7. Pointed(h, n)
  <2>1. j.node[n] \in NodeState
    BY <1>0 DEF Sane, Insts
  <2>2. h.node[n].data = 0
    BY <1>1, <1>2, <2>1 DEF NodeState
  <2> QED BY <2>2, ZeroPoints
<1> QED BY <1>1, <1>2, <1>4, <1>5, <1>6, <1>7 DEF Over, KidsIdle

\* Ending the one child in which anything may live.
LEMMA EndOnly ==
  ASSUME WellFormed(tree), NEW n \in Nodes, NEW k \in DOMAIN Kids(n),
         NEW f, EndsWell(f, Kids(n)[k]), NEW i, Sane(i), KidsSound(i, n),
         \A h \in DOMAIN Kids(n) : h # k => ~Busy(i, Kids(n)[h])
  PROVE  KidsStep(i, f[i], n) /\ KidsIdle(f[i], n)
<1>1. PICK j : j = f[i]
  OBVIOUS
<1>2. KidStep(i, j, n, k) /\ ~Busy(j, Kids(n)[k])
  BY <1>1, EndKid
<1>3. ASSUME NEW h \in DOMAIN Kids(n) PROVE ~Busy(j, Kids(n)[h])
  <2>1. CASE h = k
    BY <1>2, <2>1
  <2>2. CASE h # k
    BY <1>2, <2>2, KidStepFacts
  <2> QED BY <2>1, <2>2
<1> QED BY <1>1, <1>2, <1>3, KidStepFacts DEF KidsIdle

\* Each function that is told to end ends every child in which anything may live:
\* se_sequence, se_while and the dispatchers only the one that Narrow leaves.
LEMMA OnTerminateKeeps ==
  ASSUME WellFormed(tree), NEW n \in Nodes, IsMain(n), NEW i, Sane(i), KidsSound(i, n),
         Narrow(i, n), Pointed(i, n),
         NEW end, \A k \in DOMAIN Kids(n) : EndsWell(end[k], Kids(n)[k])
  PROVE  Over(i, OnTerminate(i, n, end), n)
<1> DEFINE T == OnTerminate(i, n, end)
<1>0. PICK s, len, c : s = i.node[n] /\ len = Len(Kids(n)) /\ c = ChildrenTerminate(i, n, end)
  OBVIOUS
<1>1. len \in 0..255 /\ DOMAIN Kids(n) = 1..len
  BY <1>0, KidsFacts
<1>2. KidsStep(i, c, n) /\ KidsIdle(c, n)
  <2>1. LET j == ChildrenTerminate(i, n, end) IN KidsStep(i, j, n) /\ KidsIdle(j, n)
    BY ChildrenTerminateKeeps
  <2> QED BY <1>0, <2>1
<1>3. s \in NodeState
  BY <1>0 DEF Sane, Insts
<1>4. KidsStep(i, i, n)
  BY KidsStepSelf
<1>5. CASE Fn(n) = "user"
  <2>1. PICK j : j = T
    OBVIOUS
  <2>2. j = Log(i, n, "TERMINATE")
    BY <1>5, <2>1 DEF OnTerminate
  <2>3. n \in UserNodes
    BY <1>5 DEF UserNodes, Nodes
  <2>4. /\ Sane(j) /\ j.node = i.node /\ n \notin j.live
        /\ \A m \in Nodes : m # n => (m \in j.live <=> m \in i.live)
    <3>1. LET h == Log(i, n, "TERMINATE") IN
          /\ Sane(h) /\ h.node = i.node
          /\ \A m \in Nodes : m # n => (m \in h.live <=> m \in i.live)
          /\ n \notin h.live
      <4>1. PICK w : w = "TERMINATE"
        OBVIOUS
      <4>2. w \in STRING /\ w # "INIT" /\ w \in {"INIT", "TERMINATE"}
        <5>1. w \in STRING
          BY <4>1, NamesAssumption DEF Names
        <5>2. w # "INIT" /\ w \in {"INIT", "TERMINATE"}
          BY <4>1
        <5> QED BY <5>1, <5>2
      <4>3. LET h == Log(i, n, w) IN
            /\ Sane(h) /\ h.node = i.node
            /\ \A m \in Nodes : m # n => (m \in h.live <=> m \in i.live)
            /\ w = "INIT" => n \in h.live
            /\ w = "TERMINATE" => n \notin h.live
            /\ w \notin {"INIT", "TERMINATE"} => h.live = i.live
        BY <2>3, <4>2, LogUser
      <4> QED BY <4>1, <4>3
    <3> QED BY <2>2, <3>1
  <2>5. Same(i, j, {n})
    BY <2>4 DEF Same
  <2>6. KidsSound(j, n) /\ Same(i, j, Below(n))
    BY <2>5, OwnStep
  <2>7. DOMAIN Kids(n) = {}
    BY <1>5, NodeShape
  <2>8. KidsIdle(j, n)
    BY <2>7 DEF KidsIdle
  <2>9. Pointed(j, n)
    BY <1>5 DEF Pointed
  <2> QED BY <2>1, <2>4, <2>6, <2>8, <2>9 DEF Over
<1>6. CASE Fn(n) \in {"if_then_else", "cond", "trigger_on_change", "fork_join", "chain_flow"}
  <2>1. T = c /\ Fn(n) # "user"
    BY <1>0, <1>6 DEF OnTerminate
  <2> HIDE DEF T
  <2>2. Over(i, c, n)
    BY <1>2, <2>1, OverMade
  <2> QED BY <2>1, <2>2 DEF T
<1>7. CASE Fn(n) \in {"fork", "function_interface"}
  <2>1. T = SetState(c, n, 2) /\ Fn(n) # "user"
    BY <1>0, <1>7 DEF OnTerminate
  <2> HIDE DEF T
  <2>2. 2 \in 0..255
    OBVIOUS
  <2>3. Over(i, SetState(c, n, 2), n)
    BY <1>2, <2>1, <2>2, OverState
  <2> QED BY <2>1, <2>3 DEF T
<1>8. CASE Fn(n) = "sequence"
  <2>1. PICK j : j = IF s.state < len THEN end[s.state + 1][i] ELSE i
    OBVIOUS
  <2>2. T = SetState(j, n, 0) /\ Fn(n) # "user"
    BY <1>0, <1>8, <2>1 DEF OnTerminate
  <2>3. s.state \in Nat
    BY <1>3 DEF NodeState
  <2>4. ASSUME NEW h \in DOMAIN Kids(n), h # s.state + 1 PROVE ~Busy(i, Kids(n)[h])
    BY <1>0, <1>8, <2>4 DEF Narrow, Reached
  <2>5. KidsStep(i, j, n) /\ KidsIdle(j, n)
    <3>1. CASE s.state < len
      <4>1. PICK k : k = s.state + 1
        OBVIOUS
      <4>2. k \in DOMAIN Kids(n)
        BY <1>1, <2>3, <3>1, <4>1
      <4>3. EndsWell(end[k], Kids(n)[k]) /\ \A h \in DOMAIN Kids(n) : h # k => ~Busy(i, Kids(n)[h])
        BY <2>4, <4>1, <4>2
      <4>4. KidsStep(i, end[k][i], n) /\ KidsIdle(end[k][i], n)
        BY <4>2, <4>3, EndOnly
      <4> QED BY <2>1, <3>1, <4>1, <4>4
    <3>2. CASE ~(s.state < len)
      <4>1. j = i
        BY <2>1, <3>2
      <4>2. \A h \in DOMAIN Kids(n) : h # s.state + 1
        BY <1>1, <2>3, <3>2
      <4> QED BY <1>4, <2>4, <4>1, <4>2 DEF KidsIdle
    <3> QED BY <3>1, <3>2
  <2> HIDE DEF T
  <2>6. Over(i, SetState(j, n, 0), n)
    BY <2>2, <2>5, OverState
  <2> QED BY <2>2, <2>6 DEF T
<1>9. CASE Fn(n) = "sequence_once"
  <2>1. PICK j : j = EndEach(i, n, end)
    OBVIOUS
  <2>2. T = SetState(j, n, 0) /\ Fn(n) # "user"
    BY <1>9, <2>1 DEF OnTerminate
  <2>3. KidsStep(i, j, n) /\ KidsIdle(j, n)
    <3>1. LET h == EndEach(i, n, end) IN KidsStep(i, h, n) /\ KidsIdle(h, n)
      BY EndEachKeeps
    <3> QED BY <2>1, <3>1
  <2> HIDE DEF T
  <2>4. Over(i, SetState(j, n, 0), n)
    BY <2>2, <2>3, OverState
  <2> QED BY <2>2, <2>4 DEF T
<1>10. CASE Fn(n) = "while"
  <2>1. T = end[2][i] /\ Fn(n) # "user"
    BY <1>10 DEF OnTerminate
  <2> HIDE DEF T
  <2>2. len = 2
    BY <1>0, <1>10, NodeShape
  <2>3. 2 \in DOMAIN Kids(n)
    BY <1>1, <2>2
  <2>4. \A h \in DOMAIN Kids(n) : h # 2 => ~Busy(i, Kids(n)[h])
    BY <1>10 DEF Narrow, Reached
  <2>5. KidsStep(i, end[2][i], n) /\ KidsIdle(end[2][i], n)
    BY <2>3, <2>4, EndOnly
  <2>6. Over(i, end[2][i], n)
    BY <2>1, <2>5, OverMade
  <2> QED BY <2>1, <2>6 DEF T
<1>11. CASE Fn(n) \in {"state_machine", "field_dispatch"}
  <2>1. PICK k : k = s.data
    OBVIOUS
  <2>2. k \in 0..len
    BY <1>0, <1>11, <2>1 DEF Pointed
  <2>3. \A h \in DOMAIN Kids(n) : h # k => ~Busy(i, Kids(n)[h])
    BY <1>0, <1>11, <2>1 DEF Narrow, Reached
  <2>4. CASE k # 0
    <3>1. T = SetData(end[k][i], n, 0) /\ Fn(n) # "user"
      BY <1>0, <1>11, <2>1, <2>4 DEF OnTerminate
    <3> HIDE DEF T
    <3>2. k \in DOMAIN Kids(n)
      BY <1>1, <2>2, <2>4
    <3>3. PICK j : j = end[k][i]
      OBVIOUS
    <3>4. KidsStep(i, j, n) /\ KidsIdle(j, n)
      BY <2>3, <3>2, <3>3, EndOnly
    <3>5. Over(i, SetData(j, n, 0), n)
      BY <3>1, <3>4, OverData
    <3> QED BY <3>1, <3>3, <3>5 DEF T
  <2>5. CASE k = 0
    <3>1. T = i /\ Fn(n) # "user"
      BY <1>0, <1>11, <2>1, <2>5 DEF OnTerminate
    <3> HIDE DEF T
    <3>2. KidsIdle(i, n)
      BY <1>1, <2>3, <2>5 DEF KidsIdle
    <3>3. Over(i, i, n)
      BY <1>4, <3>1, <3>2, OverMade
    <3> QED BY <3>1, <3>3 DEF T
  <2> QED BY <2>4, <2>5
<1>12. CASE Fn(n) \in Silent
  <2>1. T = i /\ Fn(n) # "user"
    BY <1>12 DEF OnTerminate, Silent, Simple, Waits, Verifies
  <2> HIDE DEF T
  <2>2. KidsIdle(i, n)
    BY <1>12, SilentIdle
  <2>3. Over(i, i, n)
    BY <1>4, <2>1, <2>2, OverMade
  <2> QED BY <2>1, <2>3 DEF T
<1>13. Fn(n) \in Controls \cup Silent \cup {"user"}
  BY NodeShape
<1> HIDE DEF T
<1> QED BY <1>5, <1>6, <1>7, <1>8, <1>9, <1>10, <1>11, <1>12, <1>13 DEF Controls

\* s_expr_child_terminate of a node, given that it works for its children.
LEMMA TerminatedKeeps ==
  ASSUME WellFormed(tree), NEW n \in Nodes,
         NEW end, \A k \in DOMAIN Kids(n) : EndsWell(end[k], Kids(n)[k]),
         NEW i, Sane(i), Sound(i, n)
  PROVE  LET j == Terminated(i, n, end) IN
         Sane(j) /\ Sound(j, n) /\ ~Busy(j, n) /\ Same(i, j, Below(n))
<1>1. PICK j : j = Terminated(i, n, end)
  OBVIOUS
<1>2. Local(i, n) /\ KidsSound(i, n)
  BY SoundCases
<1>3. Same(i, i, Below(n))
  BY DEF Same
<1>4. CASE ~IsMain(n)
  <2>1. j = i
    BY <1>1, <1>4 DEF Terminated
  <2>2. ~Busy(i, n)
    BY <1>4, OtherBarren, BarrenIdle
  <2> QED BY <1>1, <1>3, <2>1, <2>2
<1>5. CASE ~i.node[n].init
  <2>1. j = i
    BY <1>1, <1>5 DEF Terminated
  <2>2. ~Busy(i, n)
    BY <1>2, <1>5 DEF Local
  <2> QED BY <1>1, <1>3, <2>1, <2>2
<1>6. CASE IsMain(n) /\ i.node[n].init
  <2>1. PICK h, s : h = OnTerminate(i, n, end) /\ s = Cleared
    OBVIOUS
  <2>2. j = [h EXCEPT !.node[n] = s]
    BY <1>1, <1>6, <2>1 DEF Terminated
  <2>3. Over(i, h, n)
    <3>1. Narrow(i, n) /\ Pointed(i, n)
      BY <1>2 DEF Local
    <3>2. Over(i, OnTerminate(i, n, end), n)
      BY <1>2, <1>6, <3>1, OnTerminateKeeps
    <3> QED BY <2>1, <3>2
  <2>4. s \in NodeState
    BY <2>1 DEF Cleared, NodeState
  <2>5. /\ Sane(j) /\ j.node[n] = s /\ j.live = h.live
        /\ \A m \in Nodes : m # n => j.node[m] = h.node[m]
    <3>1. Sane(h)
      BY <2>3 DEF Over
    <3>2. LET g == [h EXCEPT !.node[n] = s] IN
          /\ Sane(g) /\ g.node[n] = s /\ g.live = h.live
          /\ \A m \in Nodes : m # n => g.node[m] = h.node[m]
      BY <2>4, <3>1, NodeSet
    <3> QED BY <2>2, <3>2
  <2>6. Same(h, j, {n})
    BY <2>5 DEF Same
  <2>7. /\ KidsSound(j, n) /\ Same(h, j, Below(n))
        /\ \A k \in DOMAIN Kids(n) : Busy(j, Kids(n)[k]) <=> Busy(h, Kids(n)[k])
    <3>1. KidsSound(h, n)
      BY <2>3 DEF Over
    <3> QED BY <2>6, <3>1, OwnStep
  <2>8. Same(i, j, Below(n))
    BY <2>3, <2>7, SameTransitive DEF Over
  <2>9. \A k \in DOMAIN Kids(n) : ~Busy(j, Kids(n)[k])
    BY <2>3, <2>7 DEF Over, KidsIdle
  <2>10. ~Busy(j, n)
    <3>1. Tidy(tree) => n \notin j.live
      BY <2>3, <2>5 DEF Over
    <3> QED BY <2>9, <3>1, BusyCases
  <2>11. Local(j, n)
    <3>1. ~j.node[n].active /\ j.node[n].data = 0
      BY <2>1, <2>5 DEF Cleared
    <3>2. Pointed(j, n)
      BY <3>1, ZeroPoints
    <3> QED BY <2>9, <2>10, <3>1, <3>2 DEF Local, Narrow
  <2>12. Sound(j, n)
    BY <2>7, <2>11, SoundCases
  <2> QED BY <1>1, <2>5, <2>8, <2>10, <2>12
<1> QED BY <1>4, <1>5, <1>6

\* By induction over the tree, TERMINATE leaves nothing alive below any node.
LEMMA EndingKeeps ==
  ASSUME WellFormed(tree), NEW n \in Nodes
  PROVE  EndsWell(Ending[n], n)
<1> DEFINE G == {x \in Nodes : EndsWell(Ending[x], x)}
<1>1. ASSUME NEW x \in Nodes, \A k \in DOMAIN Kids(x) : Kids(x)[k] \in G
      PROVE  x \in G
  <2>1. SUFFICES ASSUME NEW i \in Insts, Sane(i), Sound(i, x)
                 PROVE  /\ Sane(Ending[x][i]) /\ Sound(Ending[x][i], x)
                        /\ ~Busy(Ending[x][i], x) /\ Same(i, Ending[x][i], Below(x))
    BY DEF EndsWell
  <2>2. PICK end : end = Ends(x)
    OBVIOUS
  <2>3. \A k \in DOMAIN Kids(x) : EndsWell(end[k], Kids(x)[k])
    BY <1>1, <2>2 DEF Ends
  <2>4. LET j == Terminated(i, x, end) IN
        Sane(j) /\ Sound(j, x) /\ ~Busy(j, x) /\ Same(i, j, Below(x))
    BY <2>1, <2>3, TerminatedKeeps
  <2>5. Ending[x][i] = Terminated(i, x, end)
    BY <2>2, EndingDef DEF ChildTerminate
  <2> QED BY <2>4, <2>5
<1> HIDE DEF G
<1>2. n \in G
  BY <1>1, TreeInduction
<1> QED BY <1>2 DEF G

LEMMA EndsAll ==
  ASSUME WellFormed(tree), NEW n \in Nodes
  PROVE  \A k \in DOMAIN Kids(n) : EndsWell(Ends(n)[k], Kids(n)[k])
BY EndingKeeps, KidsFacts DEF Ends

LEMMA KidStepTransitive ==
  ASSUME NEW n, NEW k, NEW h, NEW i, NEW j, KidStep(h, i, n, k), KidStep(i, j, n, k)
  PROVE  KidStep(h, j, n, k)
BY SameTransitive DEF KidStep

\* A child that is ended, and one that is made ready after that.
LEMMA KidEnded ==
  ASSUME WellFormed(tree), NEW n \in Nodes, NEW k \in DOMAIN Kids(n),
         NEW i, Sane(i), KidsSound(i, n), NEW j,
         \/ j = ChildTerminate(i, Kids(n)[k])
         \/ j = Renew(i, Kids(n)[k])
         \/ j = Replace(i, Kids(n)[k])
  PROVE  KidStep(i, j, n, k) /\ ~Busy(j, Kids(n)[k])
<1>1. PICK c, e : c = Kids(n)[k] /\ e = ChildTerminate(i, c)
  OBVIOUS
<1>2. c \in Nodes
  BY <1>1, KidsFacts
<1>3. KidStep(i, e, n, k) /\ ~Busy(e, c)
  <2>1. PICK f : f = Ending[c]
    OBVIOUS
  <2>2. EndsWell(f, Kids(n)[k])
    BY <1>1, <1>2, <2>1, EndingKeeps
  <2>3. KidStep(i, f[i], n, k) /\ ~Busy(f[i], Kids(n)[k])
    BY <2>2, EndKid
  <2> QED BY <1>1, <2>1, <2>3 DEF ChildTerminate
<1>4. ASSUME NEW A, A \subseteq Below(Kids(n)[k])
      PROVE  KidStep(i, ResetAll(e, A), n, k) /\ ~Busy(ResetAll(e, A), Kids(n)[k])
  <2>1. Sane(e) /\ KidsSound(e, n) /\ ~Busy(e, Kids(n)[k])
    BY <1>1, <1>3 DEF KidStep
  <2>2. KidStep(e, ResetAll(e, A), n, k) /\ ~Busy(ResetAll(e, A), Kids(n)[k])
    BY <1>4, <2>1, ResetKid
  <2> QED BY <1>3, <2>2, KidStepTransitive
<1>5. {c} \subseteq Below(Kids(n)[k]) /\ Below(c) \subseteq Below(Kids(n)[k])
  BY <1>1, <1>2, BelowSelf
<1>6. CASE j = ChildTerminate(i, Kids(n)[k])
  BY <1>1, <1>3, <1>6
<1>7. CASE j = Renew(i, Kids(n)[k])
  <2>1. j = ResetAll(e, {c})
    BY <1>1, <1>7 DEF Renew, ChildReset
  <2> QED BY <1>4, <1>5, <2>1
<1>8. CASE j = Replace(i, Kids(n)[k])
  <2>1. j = ResetAll(e, Below(c))
    BY <1>1, <1>8 DEF Replace, ResetRecursive
  <2> QED BY <1>4, <1>5, <2>1
<1> QED BY <1>6, <1>7, <1>8

-----------------------------------------------------------------------------
(* A function that is being ticked, and what it may do to the instance.    *)

Ready(i, n) == Sane(i) /\ Sound(i, n) /\ IsMain(n) /\ i.node[n].active /\ i.node[n].init

\* j is i after steps of n that leave it running.
Moved(i, j, n) ==
  /\ Sane(j) /\ KidsSound(j, n) /\ Pointed(j, n) /\ Same(i, j, Below(n))
  /\ j.node[n].active = i.node[n].active /\ j.node[n].init = i.node[n].init
  /\ n \in j.live <=> n \in i.live

\* These may have something alive below every child.
Free(n) == Fn(n) \in {"fork", "fork_join", "chain_flow", "sequence_once", "if_then_else",
                      "trigger_on_change", "cond"}

\* A function that ends all its children has nothing to be narrow about.
LEMMA FreeNarrow ==
  ASSUME NEW n, Free(n), NEW i
  PROVE  Narrow(i, n)
BY DEF Free, Narrow, Reached, Silent, Simple, Waits, Verifies

LEMMA IdleNarrow ==
  ASSUME NEW n, NEW i, KidsIdle(i, n)
  PROVE  Narrow(i, n)
BY DEF KidsIdle, Narrow

LEMMA ReadyFacts ==
  ASSUME WellFormed(tree), NEW n \in Nodes, NEW i, Ready(i, n)
  PROVE  /\ Sane(i) /\ KidsSound(i, n) /\ Narrow(i, n) /\ Pointed(i, n)
         /\ Moved(i, i, n) /\ i.node[n] \in NodeState /\ IsMain(n)
         /\ Tidy(tree) /\ Fn(n) = "user" => n \in i.live
<1>1. Sane(i) /\ KidsSound(i, n) /\ Local(i, n)
  BY SoundCases DEF Ready
<1>2. i.node[n] \in NodeState
  BY <1>1 DEF Sane, Insts
<1>3. Same(i, i, Below(n))
  BY DEF Same
<1> QED BY <1>1, <1>2, <1>3 DEF Local, Moved, Ready

\* A step that leaves a running node narrow leaves it ready to go on.
LEMMA MovedReady ==
  ASSUME WellFormed(tree), NEW n \in Nodes, NEW i, NEW j, Ready(i, n), Moved(i, j, n), Narrow(j, n)
  PROVE  Ready(j, n)
<1>1. Tidy(tree) /\ Fn(n) = "user" => n \in i.live
  BY ReadyFacts
<1>2. j.node[n].active /\ j.node[n].init
  BY DEF Ready, Moved
<1>3. Local(j, n)
  BY <1>1, <1>2 DEF Local, Moved
<1>4. Sound(j, n)
  BY <1>3, SoundCases DEF Moved
<1> QED BY <1>2, <1>4 DEF Ready, Moved

LEMMA MovedTransitive ==
  ASSUME NEW n, NEW h, NEW i, NEW j, Moved(h, i, n), Moved(i, j, n)
  PROVE  Moved(h, j, n)
BY SameTransitive DEF Moved

LEMMA MovedKid ==
  ASSUME WellFormed(tree), NEW n \in Nodes, NEW k \in DOMAIN Kids(n),
         NEW i, NEW j, NEW h, Moved(i, j, n), KidStep(j, h, n, k)
  PROVE  Moved(i, h, n) /\ h.node[n] = j.node[n]
<1>1. KidsStep(j, h, n) /\ h.node[n] = j.node[n] /\ (n \in h.live <=> n \in j.live)
  BY KidStepFacts
<1>2. Same(j, h, Below(n))
  BY <1>1, KidsStepFacts
<1>3. Moved(j, h, n)
  BY <1>1, <1>2 DEF Moved, KidsStep, Pointed
<1> QED BY <1>1, <1>3, MovedTransitive

LEMMA MovedOwn ==
  ASSUME WellFormed(tree), NEW n \in Nodes, NEW i, NEW j, NEW h, Moved(i, j, n),
         Sane(h), h.live = j.live, \A m \in Nodes : m # n => h.node[m] = j.node[m],
         h.node[n].active = j.node[n].active, h.node[n].init = j.node[n].init, Pointed(h, n)
  PROVE  Moved(i, h, n) /\ \A k \in DOMAIN Kids(n) : Busy(h, Kids(n)[k]) <=> Busy(j, Kids(n)[k])
<1>1. Same(j, h, {n})
  BY DEF Same
<1>2. KidsSound(j, n)
  BY DEF Moved
<1>3. /\ KidsSound(h, n) /\ Same(j, h, Below(n))
      /\ \A k \in DOMAIN Kids(n) : Busy(h, Kids(n)[k]) <=> Busy(j, Kids(n)[k])
  BY <1>1, <1>2, OwnStep
<1>4. Moved(j, h, n)
  BY <1>3 DEF Moved
<1> QED BY <1>3, <1>4, MovedTransitive

\* Writing the state byte.
LEMMA MovedState ==
  ASSUME WellFormed(tree), NEW n \in Nodes, NEW i, NEW j, Moved(i, j, n), NEW v \in 0..255
  PROVE  LET h == SetState(j, n, v) IN
         /\ Moved(i, h, n) /\ h.node[n].state = v /\ h.node[n].data = j.node[n].data
         /\ \A k \in DOMAIN Kids(n) : Busy(h, Kids(n)[k]) <=> Busy(j, Kids(n)[k])
<1>1. PICK h : h = SetState(j, n, v)
  OBVIOUS
<1>2. Sane(j) /\ Pointed(j, n)
  BY DEF Moved
<1>3. /\ Sane(h) /\ h.live = j.live /\ h.node[n] = [j.node[n] EXCEPT !.state = v]
      /\ \A m \in Nodes : m # n => h.node[m] = j.node[m]
  <2>1. Wrote(j, h, n, [j.node[n] EXCEPT !.state = v])
    BY <1>1, <1>2, StateSet
  <2> QED BY <2>1 DEF Wrote
<1>4. j.node[n] \in NodeState
  BY <1>2 DEF Sane, Insts
<1>5. /\ h.node[n].state = v /\ h.node[n].data = j.node[n].data
      /\ h.node[n].active = j.node[n].active /\ h.node[n].init = j.node[n].init
  BY <1>3, <1>4 DEF NodeState
<1>6. Pointed(h, n)
  BY <1>2, <1>5 DEF Pointed
<1>7. Moved(i, h, n) /\ \A k \in DOMAIN Kids(n) : Busy(h, Kids(n)[k]) <=> Busy(j, Kids(n)[k])
  BY <1>3, <1>5, <1>6, MovedOwn
<1> QED BY <1>1, <1>5, <1>7

\* Writing the data, where it still points at a child.
LEMMA MovedData ==
  ASSUME WellFormed(tree), NEW n \in Nodes, NEW i, NEW j, Moved(i, j, n), NEW v \in Nat,
         Fn(n) \in {"cond", "state_machine", "field_dispatch"} => v \in 0..Len(Kids(n))
  PROVE  LET h == SetData(j, n, v) IN
         /\ Moved(i, h, n) /\ h.node[n].data = v /\ h.node[n].state = j.node[n].state
         /\ \A k \in DOMAIN Kids(n) : Busy(h, Kids(n)[k]) <=> Busy(j, Kids(n)[k])
<1>1. PICK h : h = SetData(j, n, v)
  OBVIOUS
<1>2. Sane(j) /\ Pointed(j, n)
  BY DEF Moved
<1>3. /\ Sane(h) /\ h.live = j.live /\ h.node[n] = [j.node[n] EXCEPT !.data = v]
      /\ \A m \in Nodes : m # n => h.node[m] = j.node[m]
  <2>1. Wrote(j, h, n, [j.node[n] EXCEPT !.data = v])
    BY <1>1, <1>2, DataSet
  <2> QED BY <2>1 DEF Wrote
<1>4. j.node[n] \in NodeState
  BY <1>2 DEF Sane, Insts
<1>5. /\ h.node[n].data = v /\ h.node[n].state = j.node[n].state
      /\ h.node[n].active = j.node[n].active /\ h.node[n].init = j.node[n].init
  BY <1>3, <1>4 DEF NodeState
<1>6. Pointed(h, n)
  BY <1>5 DEF Pointed
<1>7. Moved(i, h, n) /\ \A k \in DOMAIN Kids(n) : Busy(h, Kids(n)[k]) <=> Busy(j, Kids(n)[k])
  BY <1>3, <1>5, <1>6, MovedOwn
<1> QED BY <1>1, <1>5, <1>7

-----------------------------------------------------------------------------
(* The call of a child, and one pass over the children.                    *)

CallsWell(f, n) ==
  \A i \in Insts : Sane(i) /\ Sound(i, n) =>
    /\ f[i].res \in STRING
    /\ Sane(f[i].inst) /\ Sound(f[i].inst, n) /\ Same(i, f[i].inst, Below(n))

\* A call of a child, given that it keeps the contract.
LEMMA CallKid ==
  ASSUME WellFormed(tree), NEW n \in Nodes, NEW k \in DOMAIN Kids(n),
         NEW f, CallsWell(f, Kids(n)[k]), NEW i, NEW j, Moved(i, j, n)
  PROVE  /\ KidStep(j, f[j].inst, n, k) /\ f[j].res \in STRING
         /\ Moved(i, f[j].inst, n) /\ f[j].inst.node[n] = j.node[n]
<1>1. Sane(j) /\ j \in Insts /\ KidsSound(j, n) /\ Sound(j, Kids(n)[k])
  BY DEF Moved, Sane, KidsSound
<1>2. PICK h : h = f[j].inst
  OBVIOUS
<1>3. /\ f[j].res \in STRING
      /\ Sane(h) /\ Sound(h, Kids(n)[k]) /\ Same(j, h, Below(Kids(n)[k]))
  BY <1>1, <1>2 DEF CallsWell
<1>4. KidStep(j, h, n, k)
  BY <1>1, <1>3, KidStepMade
<1>5. Moved(i, h, n) /\ h.node[n] = j.node[n]
  BY <1>4, MovedKid
<1> QED BY <1>2, <1>3, <1>4, <1>5

\* The end of a child, with or without a reset after it.
LEMMA EndMoved ==
  ASSUME WellFormed(tree), NEW n \in Nodes, NEW k \in DOMAIN Kids(n),
         NEW i, NEW j, Moved(i, j, n), NEW h,
         \/ h = ChildTerminate(j, Kids(n)[k])
         \/ h = Renew(j, Kids(n)[k])
         \/ h = Replace(j, Kids(n)[k])
  PROVE  /\ KidStep(j, h, n, k) /\ ~Busy(h, Kids(n)[k])
         /\ Moved(i, h, n) /\ h.node[n] = j.node[n]
<1>1. Sane(j) /\ KidsSound(j, n)
  BY DEF Moved
<1>2. KidStep(j, h, n, k) /\ ~Busy(h, Kids(n)[k])
  BY <1>1, KidEnded
<1>3. Moved(i, h, n) /\ h.node[n] = j.node[n]
  BY <1>2, MovedKid
<1> QED BY <1>2, <1>3

\* The results that the functions name are strings.
LEMMA NamesFacts == Pipeline \subseteq STRING /\ Names \subseteq STRING
BY NamesAssumption DEF Names

\* A call of a child that is ended if it gives SE_DISABLE.
LEMMA InvokeMoved ==
  ASSUME WellFormed(tree), NEW n \in Nodes, NEW k \in DOMAIN Kids(n),
         NEW f, CallsWell(f, Kids(n)[k]), NEW i, NEW j, Moved(i, j, n),
         NEW x, x = ChildInvoke(j, Kids(n)[k], f)
  PROVE  /\ KidStep(j, x.inst, n, k) /\ x.res \in STRING
         /\ Moved(i, x.inst, n) /\ x.inst.node[n] = j.node[n]
<1>1. PICK y, h, e : y = f[j] /\ h = y.inst /\ e = ChildTerminate(h, Kids(n)[k])
  OBVIOUS
<1>2. /\ KidStep(j, h, n, k) /\ y.res \in STRING
      /\ Moved(i, h, n) /\ h.node[n] = j.node[n]
  BY <1>1, CallKid
<1>3. x = IF y.res = "DISABLE" THEN Ret(e, "CONTINUE") ELSE y
  BY <1>1 DEF ChildInvoke
<1>4. CASE y.res # "DISABLE"
  BY <1>1, <1>2, <1>3, <1>4
<1>5. CASE y.res = "DISABLE"
  <2>1. KidStep(h, e, n, k) /\ Moved(i, e, n) /\ e.node[n] = h.node[n]
    BY <1>1, <1>2, EndMoved
  <2>2. KidStep(j, e, n, k)
    BY <1>2, <2>1, KidStepTransitive
  <2>3. x.inst = e /\ x.res = "CONTINUE"
    BY <1>3, <1>5 DEF Ret
  <2>4. "CONTINUE" \in STRING
    BY NamesFacts DEF Names
  <2> QED BY <1>2, <2>1, <2>2, <2>3, <2>4
<1> QED BY <1>4, <1>5

\* A pass carries an instance and a result.
LEMMA VisitMade ==
  ASSUME NEW i, NEW j, NEW n, Moved(i, j, n)
  PROVE  /\ j \in Insts
         /\ Visit(j) \in Visits
         /\ \A v \in Visits : Go(v, j) \in Visits /\ GoAlive(v, j) \in Visits
         /\ \A v \in Visits : \A res \in STRING : Leave(v, j, res) \in Visits
<1>1. j \in Insts
  BY DEF Moved, Sane
<1>2. Visit(j) \in Visits
  BY <1>1, NamesAssumption DEF Visit, Visits, Names, Pipeline
<1> QED BY <1>1, <1>2 DEF Visits, Go, GoAlive, Leave

\* A pass of a function that may have something alive below every child.
LEMMA PassMoved ==
  ASSUME WellFormed(tree), NEW n \in Nodes, NEW i, Moved(i, i, n), NEW F,
         \A k \in DOMAIN Kids(n) : \A v \in Visits :
           Moved(i, v.inst, n) => F[k][v] \in Visits /\ Moved(i, F[k][v].inst, n)
  PROVE  LET v == Through(F, Len(Kids(n)), Visit(i)) IN v \in Visits /\ Moved(i, v.inst, n)
<1>1. PICK len, start : len = Len(Kids(n)) /\ start = Visit(i)
  OBVIOUS
<1>2. len \in Nat /\ DOMAIN Kids(n) = 1..len
  <2>1. DOMAIN Kids(n) = 1..len
    BY <1>1, KidsFacts
  <2> QED BY <1>1, <2>1, KidsCounts
<1> DEFINE A == {v \in Visits : Moved(i, v.inst, n)}
           S == [k \in 0..len |-> A]
<1>3. start \in A
  <2>1. start.inst = i
    BY <1>1 DEF Visit
  <2> QED BY <1>1, <2>1, VisitMade
<1>4. \A k \in 1..len : \A v \in A : F[k][v] \in A
  BY <1>2
<1> HIDE DEF A
<1>5. start \in S[0] /\ \A k \in 1..len : \A v \in S[k - 1] : F[k][v] \in S[k]
  <2>1. \A k \in 0..len : S[k] = A
    OBVIOUS
  <2>2. 0 \in 0..len /\ \A k \in 1..len : k \in 0..len /\ k - 1 \in 0..len
    BY <1>2
  <2> HIDE DEF S
  <2> QED BY <1>3, <1>4, <2>1, <2>2
<1>6. len \in 0..len
  BY <1>2
<1>7. S[len] = A
  BY <1>6
<1> HIDE DEF S
<1>8. Through(F, len, start) \in S[len]
  BY <1>2, <1>5, ThroughKeeps
<1> QED BY <1>1, <1>7, <1>8 DEF A

\* The loop that se_fork and se_fork_join share.
LEMMA ForkPassMoved ==
  ASSUME WellFormed(tree), NEW n \in Nodes, NEW i, Moved(i, i, n),
         NEW call, \A k \in DOMAIN Kids(n) : CallsWell(call[k], Kids(n)[k])
  PROVE  LET v == ForkPass(i, n, call) IN v \in Visits /\ Moved(i, v.inst, n)
<1> DEFINE F == [k \in DOMAIN Kids(n) |-> [v \in Visits |-> ForkVisit(v, n, k, call)]]
<1>1. ASSUME NEW k \in DOMAIN Kids(n), NEW v \in Visits, Moved(i, v.inst, n)
      PROVE  ForkVisit(v, n, k, call) \in Visits /\ Moved(i, ForkVisit(v, n, k, call).inst, n)
  <2>1. PICK kid, x, y, e, r : /\ kid = Kids(n)[k] /\ x = call[k][v.inst] /\ y = x.inst
                               /\ e = ChildTerminate(y, kid) /\ r = Replace(y, kid)
    OBVIOUS
  <2>2. Moved(i, y, n) /\ x.res \in STRING
    BY <1>1, <2>1, CallKid
  <2>3. Moved(i, e, n) /\ Moved(i, r, n)
    BY <2>1, <2>2, EndMoved
  <2>4. PICK w : w = ForkVisit(v, n, k, call)
    OBVIOUS
  <2>5. w \in {v, Go(v, y), Go(v, e), Go(v, r), Leave(v, y, x.res)}
    BY <2>1, <2>4 DEF ForkVisit, Replace
  <2>6. \A j : Moved(i, j, n) => /\ Go(v, j) \in Visits /\ Leave(v, j, x.res) \in Visits
                                 /\ Go(v, j).inst = j /\ Leave(v, j, x.res).inst = j
    BY <2>2, VisitMade DEF Go, Leave, Visits
  <2>7. w \in Visits /\ Moved(i, w.inst, n)
    BY <1>1, <2>2, <2>3, <2>5, <2>6
  <2> QED BY <2>4, <2>7
<1>2. \A k \in DOMAIN Kids(n) : \A v \in Visits :
        Moved(i, v.inst, n) => F[k][v] \in Visits /\ Moved(i, F[k][v].inst, n)
  BY <1>1
<1>3. ForkPass(i, n, call) = Through(F, Len(Kids(n)), Visit(i))
  BY DEF ForkPass
<1> HIDE DEF F
<1>4. LET v == Through(F, Len(Kids(n)), Visit(i)) IN v \in Visits /\ Moved(i, v.inst, n)
  BY <1>2, PassMoved
<1> QED BY <1>3, <1>4

LEMMA MovedKids ==
  ASSUME WellFormed(tree), NEW n \in Nodes, NEW i, NEW j, NEW h, Moved(i, j, n), KidsStep(j, h, n)
  PROVE  Moved(i, h, n) /\ h.node[n] = j.node[n]
<1>1. h.node[n] = j.node[n] /\ (n \in h.live <=> n \in j.live) /\ Same(j, h, Below(n))
  BY KidsStepFacts
<1>2. Moved(j, h, n)
  BY <1>1 DEF Moved, KidsStep, Pointed
<1> QED BY <1>1, <1>2, MovedTransitive

\* Resetting children in which nothing lives.
LEMMA ResetKids ==
  ASSUME WellFormed(tree), NEW n \in Nodes, NEW i, Sane(i), KidsSound(i, n), KidsIdle(i, n)
  PROVE  LET j == ChildrenReset(i, n) IN KidsStep(i, j, n) /\ KidsIdle(j, n)
<1>1. PICK j, A : j = ChildrenReset(i, n) /\ A = {Kids(n)[k] : k \in DOMAIN Kids(n)}
  OBVIOUS
<1>2. /\ Sane(j) /\ j.live = i.live
      /\ \A m \in Nodes : j.node[m] = IF m \in A THEN Fresh(i.node[m]) ELSE i.node[m]
  <2>1. LET h == ResetAll(i, A) IN
        /\ Sane(h) /\ h.live = i.live
        /\ \A m \in Nodes : h.node[m] = IF m \in A THEN Fresh(i.node[m]) ELSE i.node[m]
    BY ResetSets
  <2> QED BY <1>1, <2>1 DEF ChildrenReset
<1>3. \A m \in Nodes : ~Fresh(i.node[m]).init /\ Fresh(i.node[m]).data = 0
  BY DEF Fresh
<1>4. ASSUME NEW k \in DOMAIN Kids(n) PROVE Sound(j, Kids(n)[k]) /\ ~Busy(j, Kids(n)[k])
  <2>1. PICK c : c = Kids(n)[k]
    OBVIOUS
  <2>2. c \in Nodes /\ Below(c) \subseteq Nodes
    BY <2>1, KidsFacts, BelowNodes
  <2>3. Sound(i, c) /\ ~Busy(i, c)
    BY <2>1 DEF KidsSound, KidsIdle
  <2>4. ASSUME NEW m \in Below(c)
        PROVE  /\ m \in j.live => m \in i.live
               /\ \/ j.node[m] = i.node[m]
                  \/ ~(j.node[m].active /\ j.node[m].init) /\ j.node[m].data = 0
    BY <1>2, <1>3, <2>2
  <2>5. Sound(j, c) /\ ~Busy(j, c)
    BY <2>2, <2>3, <2>4, IdleKept
  <2> QED BY <2>1, <2>5
<1>5. Same(i, j, Below(n) \ {n})
  <2>1. A \subseteq Below(n) \ {n}
    <3>1. ASSUME NEW k \in DOMAIN Kids(n) PROVE Kids(n)[k] \in Below(n) /\ Kids(n)[k] # n
      <4>1. Kids(n)[k] \in Nodes /\ Kids(n)[k] \in Below(Kids(n)[k]) /\ n \notin Below(Kids(n)[k])
        BY KidsFacts, BelowSelf, KidsApart
      <4> QED BY <4>1, BelowKid
    <3> QED BY <1>1, <3>1
  <2> QED BY <1>2, <2>1 DEF Same
<1>6. KidsStep(i, j, n) /\ KidsIdle(j, n)
  BY <1>2, <1>4, <1>5 DEF KidsStep, KidsSound, KidsIdle
<1> QED BY <1>1, <1>6

\* Every child ended, and made ready after that.
LEMMA AllEnded ==
  ASSUME WellFormed(tree), NEW n \in Nodes, NEW i, NEW j, Moved(i, j, n), NEW h,
         \/ h = ChildrenTerminate(j, n, Ends(n))
         \/ h = ChildrenReset(ChildrenTerminate(j, n, Ends(n)), n)
         \/ h = EndEach(j, n, Ends(n))
  PROVE  Moved(i, h, n) /\ KidsIdle(h, n)
<1>1. PICK end, c : end = Ends(n) /\ c = ChildrenTerminate(j, n, end)
  OBVIOUS
<1>2. \A k \in DOMAIN Kids(n) : EndsWell(end[k], Kids(n)[k])
  BY <1>1, EndsAll
<1>3. Sane(j) /\ KidsSound(j, n)
  BY DEF Moved
<1>4. KidsStep(j, c, n) /\ KidsIdle(c, n)
  <2>1. LET g == ChildrenTerminate(j, n, end) IN KidsStep(j, g, n) /\ KidsIdle(g, n)
    BY <1>2, <1>3, ChildrenTerminateKeeps
  <2> QED BY <1>1, <2>1
<1>5. CASE h = c
  BY <1>4, <1>5, MovedKids
<1>6. CASE h = ChildrenReset(c, n)
  <2>1. Moved(i, c, n) /\ Sane(c) /\ KidsSound(c, n)
    BY <1>4, MovedKids DEF KidsStep
  <2>2. LET g == ChildrenReset(c, n) IN KidsStep(c, g, n) /\ KidsIdle(g, n)
    BY <1>4, <2>1, ResetKids
  <2> QED BY <1>6, <2>1, <2>2, MovedKids
<1>7. CASE h = EndEach(j, n, end)
  <2>1. LET g == EndEach(j, n, end) IN KidsStep(j, g, n) /\ KidsIdle(g, n)
    BY <1>2, <1>3, EndEachKeeps
  <2> QED BY <1>7, <2>1, MovedKids
<1> QED BY <1>1, <1>5, <1>6, <1>7

-----------------------------------------------------------------------------
(* The tick of each function.                                              *)

Ran(i, x, n) == x.res \in STRING /\ Ready(x.inst, n) /\ Same(i, x.inst, Below(n))

\* A tick of n gives the instance and a result that is a string.
LEMMA RanMade ==
  ASSUME WellFormed(tree), NEW n \in Nodes, NEW i, Ready(i, n),
         NEW j, Moved(i, j, n), Narrow(j, n), NEW r, r \in STRING, NEW x, x = Ret(j, r)
  PROVE  Ran(i, x, n)
<1>1. x.inst = j /\ x.res = r
  BY DEF Ret
<1>2. Ready(j, n)
  BY MovedReady
<1> QED BY <1>1, <1>2 DEF Ran, Moved

LEMMA RanFree ==
  ASSUME WellFormed(tree), NEW n \in Nodes, NEW i, Ready(i, n), Free(n),
         NEW j, Moved(i, j, n), NEW r, r \in STRING, NEW x, x = Ret(j, r)
  PROVE  Ran(i, x, n)
BY FreeNarrow, RanMade

\* Each function's tick keeps its node ready, whatever its children's calls give.
LEMMA ForkTick ==
  ASSUME WellFormed(tree), NEW n \in Nodes, NEW i, Ready(i, n), Fn(n) = "fork",
         NEW call, \A k \in DOMAIN Kids(n) : CallsWell(call[k], Kids(n)[k])
  PROVE  Ran(i, Fork(i, n, call), n)
<1>1. PICK v, x, h : v = ForkPass(i, n, call) /\ x = Fork(i, n, call) /\ h = SetState(v.inst, n, 2)
  OBVIOUS
<1>2. Free(n) /\ Moved(i, i, n)
  BY ReadyFacts DEF Free
<1>3. v \in Visits /\ Moved(i, v.inst, n)
  BY <1>1, <1>2, ForkPassMoved
<1>4. Moved(i, h, n)
  <2>1. 2 \in 0..255
    OBVIOUS
  <2>2. LET g == SetState(v.inst, n, 2) IN
        /\ Moved(i, g, n) /\ g.node[n].state = 2 /\ g.node[n].data = v.inst.node[n].data
        /\ \A k \in DOMAIN Kids(n) : Busy(g, Kids(n)[k]) <=> Busy(v.inst, Kids(n)[k])
    BY <1>3, <2>1, MovedState
  <2> QED BY <1>1, <2>2
<1>5. v.res \in STRING
  BY <1>3 DEF Visits
<1>6. /\ "PIPELINE_DISABLE" \in STRING /\ "PIPELINE_CONTINUE" \in STRING
  BY NamesFacts DEF Pipeline
<1>7. \/ x = Ret(i, "PIPELINE_DISABLE") \/ x = Ret(v.inst, v.res)
      \/ x = Ret(v.inst, "PIPELINE_CONTINUE") \/ x = Ret(h, "PIPELINE_DISABLE")
  BY <1>1 DEF Fork
<1>8. Ran(i, x, n)
  BY <1>2, <1>3, <1>4, <1>5, <1>6, <1>7, RanFree
<1> QED BY <1>1, <1>8

LEMMA ForkJoinTick ==
  ASSUME WellFormed(tree), NEW n \in Nodes, NEW i, Ready(i, n), Fn(n) = "fork_join",
         NEW call, \A k \in DOMAIN Kids(n) : CallsWell(call[k], Kids(n)[k])
  PROVE  Ran(i, ForkJoin(i, n, call), n)
<1>1. PICK v, x : v = ForkPass(i, n, call) /\ x = ForkJoin(i, n, call)
  OBVIOUS
<1>2. Free(n) /\ Moved(i, i, n)
  BY ReadyFacts DEF Free
<1>3. v \in Visits /\ Moved(i, v.inst, n)
  BY <1>1, <1>2, ForkPassMoved
<1>4. PICK r : r = IF v.res \notin Pipeline THEN v.res
                   ELSE IF ActiveMain(v.inst, n) THEN "FUNCTION_HALT" ELSE "PIPELINE_DISABLE"
  OBVIOUS
<1>5. x = Ret(v.inst, r)
  BY <1>1, <1>4 DEF ForkJoin
<1>6. r \in STRING
  <2>1. "FUNCTION_HALT" \in STRING /\ "PIPELINE_DISABLE" \in STRING
    BY NamesFacts DEF Names, Pipeline
  <2> QED BY <1>3, <1>4, <2>1 DEF Visits
<1>7. Ran(i, x, n)
  BY <1>2, <1>3, <1>5, <1>6, RanFree
<1> QED BY <1>1, <1>7

LEMMA SequenceOnceTick ==
  ASSUME WellFormed(tree), NEW n \in Nodes, NEW i, Ready(i, n), Fn(n) = "sequence_once",
         NEW call, \A k \in DOMAIN Kids(n) : CallsWell(call[k], Kids(n)[k])
  PROVE  Ran(i, SequenceOnce(i, n, call), n)
<1> DEFINE F == [k \in DOMAIN Kids(n) |-> [v \in Visits |-> OnceVisit(v, n, k, call)]]
<1>1. Free(n) /\ Moved(i, i, n)
  BY ReadyFacts DEF Free
<1>2. ASSUME NEW k \in DOMAIN Kids(n), NEW v \in Visits, Moved(i, v.inst, n)
      PROVE  OnceVisit(v, n, k, call) \in Visits /\ Moved(i, OnceVisit(v, n, k, call).inst, n)
  <2>1. PICK x, y, w : x = call[k][v.inst] /\ y = x.inst /\ w = OnceVisit(v, n, k, call)
    OBVIOUS
  <2>2. Moved(i, y, n) /\ x.res \in STRING
    BY <1>2, <2>1, CallKid
  <2>3. w \in {v, Go(v, y), Leave(v, y, x.res)}
    BY <2>1 DEF OnceVisit
  <2>4. /\ Go(v, y) \in Visits /\ Leave(v, y, x.res) \in Visits
        /\ Go(v, y).inst = y /\ Leave(v, y, x.res).inst = y
    BY <2>2, VisitMade DEF Go, Leave, Visits
  <2>5. w \in Visits /\ Moved(i, w.inst, n)
    BY <1>2, <2>2, <2>3, <2>4
  <2> QED BY <2>1, <2>5
<1>3. \A k \in DOMAIN Kids(n) : \A v \in Visits :
        Moved(i, v.inst, n) => F[k][v] \in Visits /\ Moved(i, F[k][v].inst, n)
  BY <1>2
<1>4. PICK v, h : v = Through(F, Len(Kids(n)), Visit(i)) /\ h = EndEach(v.inst, n, Ends(n))
  OBVIOUS
<1>5. SequenceOnce(i, n, call) = Ret(h, "PIPELINE_DISABLE")
  BY <1>4 DEF SequenceOnce
<1> HIDE DEF F
<1>6. Moved(i, v.inst, n)
  <2>1. LET u == Through(F, Len(Kids(n)), Visit(i)) IN u \in Visits /\ Moved(i, u.inst, n)
    BY <1>1, <1>3, PassMoved
  <2> QED BY <1>4, <2>1
<1>7. Moved(i, h, n)
  BY <1>4, <1>6, AllEnded
<1>8. "PIPELINE_DISABLE" \in STRING
  BY NamesFacts DEF Pipeline
<1> QED BY <1>1, <1>5, <1>7, <1>8, RanFree

LEMMA ChainTick ==
  ASSUME WellFormed(tree), NEW n \in Nodes, NEW i, Ready(i, n), Fn(n) = "chain_flow",
         NEW call, \A k \in DOMAIN Kids(n) : CallsWell(call[k], Kids(n)[k])
  PROVE  Ran(i, ChainFlow(i, n, call), n)
<1> DEFINE F == [k \in DOMAIN Kids(n) |-> [v \in Visits |-> ChainVisit(v, n, k, call)]]
<1>1. Free(n) /\ Moved(i, i, n)
  BY ReadyFacts DEF Free
<1>2. ASSUME NEW k \in DOMAIN Kids(n), NEW v \in Visits, Moved(i, v.inst, n)
      PROVE  ChainVisit(v, n, k, call) \in Visits /\ Moved(i, ChainVisit(v, n, k, call).inst, n)
  <2>1. PICK x, y, w, e, c, r : /\ x = call[k][v.inst] /\ y = x.inst
                                /\ w = ChainVisit(v, n, k, call)
                                /\ e = ChildTerminate(y, Kids(n)[k])
                                /\ c = ChildrenTerminate(y, n, Ends(n))
                                /\ r = ChildrenReset(c, n)
    OBVIOUS
  <2>2. Moved(i, y, n) /\ x.res \in STRING
    BY <1>2, <2>1, CallKid
  <2>3. Moved(i, e, n) /\ Moved(i, c, n) /\ Moved(i, r, n)
    <3>1. Moved(i, e, n)
      BY <2>1, <2>2, EndMoved
    <3>2. Moved(i, c, n) /\ Moved(i, r, n)
      BY <2>1, <2>2, AllEnded
    <3> QED BY <3>1, <3>2
  <2>4. "PIPELINE_HALT" \in STRING /\ "PIPELINE_CONTINUE" \in STRING
    BY NamesFacts DEF Pipeline
  <2>5. \/ w \in {v, Go(v, y), GoAlive(v, y), Go(v, e), Leave(v, c, x.res)}
        \/ w \in {Leave(v, r, "PIPELINE_CONTINUE"), Leave(v, y, "PIPELINE_HALT"),
                  Leave(v, y, "PIPELINE_CONTINUE"), Leave(v, y, x.res)}
    BY <2>1 DEF ChainVisit
  <2>6. ASSUME NEW j, Moved(i, j, n), NEW z \in STRING
        PROVE  /\ Go(v, j) \in Visits /\ GoAlive(v, j) \in Visits /\ Leave(v, j, z) \in Visits
               /\ Go(v, j).inst = j /\ GoAlive(v, j).inst = j /\ Leave(v, j, z).inst = j
    BY <2>6, VisitMade DEF Go, GoAlive, Leave, Visits
  <2> DEFINE Fine(u) == u \in Visits /\ Moved(i, u.inst, n)
  <2>7. Fine(v)
    BY <1>2
  <2>8. ASSUME NEW j, Moved(i, j, n), NEW z \in STRING
        PROVE  Fine(Go(v, j)) /\ Fine(GoAlive(v, j)) /\ Fine(Leave(v, j, z))
    BY <2>6, <2>8
  <2>9. Fine(w)
    <3> HIDE DEF Fine
    <3>1. Fine(Go(v, y)) /\ Fine(GoAlive(v, y)) /\ Fine(Leave(v, y, x.res))
      BY <2>2, <2>8
    <3>2. Fine(Go(v, e)) /\ Fine(Leave(v, c, x.res))
      BY <2>2, <2>3, <2>8
    <3>3. /\ Fine(Leave(v, r, "PIPELINE_CONTINUE")) /\ Fine(Leave(v, y, "PIPELINE_HALT"))
          /\ Fine(Leave(v, y, "PIPELINE_CONTINUE"))
      BY <2>2, <2>3, <2>4, <2>8
    <3> QED BY <2>5, <2>7, <3>1, <3>2, <3>3
  <2> QED BY <2>1, <2>9
<1>3. \A k \in DOMAIN Kids(n) : \A v \in Visits :
        Moved(i, v.inst, n) => F[k][v] \in Visits /\ Moved(i, F[k][v].inst, n)
  BY <1>2
<1>4. PICK v, r : /\ v = Through(F, Len(Kids(n)), Visit(i))
                  /\ r = IF v.go /\ ~v.alive THEN "PIPELINE_DISABLE" ELSE v.res
  OBVIOUS
<1>5. ChainFlow(i, n, call) = Ret(v.inst, r)
  BY <1>4 DEF ChainFlow
<1> HIDE DEF F
<1>6. v \in Visits /\ Moved(i, v.inst, n)
  <2>1. LET u == Through(F, Len(Kids(n)), Visit(i)) IN u \in Visits /\ Moved(i, u.inst, n)
    BY <1>1, <1>3, PassMoved
  <2> QED BY <1>4, <2>1
<1>7. r \in STRING
  <2>1. "PIPELINE_DISABLE" \in STRING
    BY NamesFacts DEF Pipeline
  <2> QED BY <1>4, <1>6, <2>1 DEF Visits
<1> QED BY <1>1, <1>5, <1>6, <1>7, RanFree

LEMMA IfThenElseTick ==
  ASSUME WellFormed(tree), NEW n \in Nodes, NEW i, Ready(i, n), Fn(n) = "if_then_else", NEW in,
         NEW call, \A k \in DOMAIN Kids(n) : CallsWell(call[k], Kids(n)[k])
  PROVE  Ran(i, IfThenElse(i, n, call, in), n)
<1>1. Free(n) /\ Moved(i, i, n)
  BY ReadyFacts DEF Free
<1>2. PICK len : len = Len(Kids(n))
  OBVIOUS
<1>3. len \in {2, 3} /\ DOMAIN Kids(n) = 1..len
  BY <1>1, <1>2, NodeShape, KidsFacts
<1>4. 2 \in DOMAIN Kids(n) /\ (len # 2 => 3 \in DOMAIN Kids(n))
  BY <1>3
<1>5. "PIPELINE_CONTINUE" \in STRING
  BY NamesFacts DEF Pipeline
<1>6. ASSUME NEW k \in DOMAIN Kids(n) PROVE Ran(i, Branch(i, n, k, call), n)
  <2>1. PICK x, y, one, both : /\ x = call[k][i] /\ y = x.inst /\ one = Renew(y, Kids(n)[2])
                               /\ both = IF len = 2 THEN one ELSE Renew(one, Kids(n)[3])
    OBVIOUS
  <2>2. Moved(i, y, n) /\ x.res \in STRING
    BY <1>1, <2>1, CallKid
  <2>3. Moved(i, one, n)
    BY <1>4, <2>1, <2>2, EndMoved
  <2>4. Moved(i, both, n)
    <3>1. CASE len = 2
      BY <2>1, <2>3, <3>1
    <3>2. CASE len # 2
      <4>1. 3 \in DOMAIN Kids(n) /\ both = Renew(one, Kids(n)[3])
        BY <1>4, <2>1, <3>2
      <4> QED BY <2>3, <4>1, EndMoved
    <3> QED BY <3>1, <3>2
  <2>5. PICK w : w = Branch(i, n, k, call)
    OBVIOUS
  <2>6. \/ w = Ret(both, x.res) \/ w = Ret(both, "PIPELINE_CONTINUE")
        \/ w = Ret(y, "PIPELINE_CONTINUE") \/ w = x
    BY <1>2, <2>1, <2>5 DEF Branch
  <2>7. CASE w = x
    <3>1. Ran(i, Ret(y, x.res), n)
      BY <1>1, <2>2, RanFree
    <3> QED BY <2>1, <2>5, <2>7, <3>1 DEF Ran, Ret
  <2>8. CASE w # x
    <3>1. Ran(i, w, n)
      BY <1>1, <1>5, <2>2, <2>4, <2>6, <2>8, RanFree
    <3> QED BY <2>5, <3>1
  <2> QED BY <2>7, <2>8
<1>7. Ran(i, Ret(i, "PIPELINE_CONTINUE"), n)
  BY <1>1, <1>5, RanFree
<1>8. PICK w : w = IfThenElse(i, n, call, in)
  OBVIOUS
<1>9. \/ w = Branch(i, n, 2, call)
      \/ len = 3 /\ w = Branch(i, n, 3, call)
      \/ w = Ret(i, "PIPELINE_CONTINUE")
  <2>1. CASE Holds(i, Kids(n)[1], in)
    BY <1>8, <2>1 DEF IfThenElse
  <2>2. CASE ~Holds(i, Kids(n)[1], in) /\ Len(Kids(n)) = 3
    BY <1>2, <1>8, <2>2 DEF IfThenElse
  <2>3. CASE ~Holds(i, Kids(n)[1], in) /\ Len(Kids(n)) # 3
    BY <1>8, <2>3 DEF IfThenElse
  <2> QED BY <2>1, <2>2, <2>3
<1>10. Ran(i, w, n)
  <2>1. len = 3 => 3 \in DOMAIN Kids(n)
    BY <1>4
  <2> QED BY <1>4, <1>6, <1>7, <1>9, <2>1
<1> QED BY <1>8, <1>10

\* An edge of se_trigger_on_change ends one action and starts the other.
LEMMA EdgeRuns ==
  ASSUME WellFormed(tree), NEW n \in Nodes, NEW i, NEW j, Ready(i, n), Moved(i, j, n), Free(n),
         NEW stop, NEW start \in DOMAIN Kids(n), stop > Len(Kids(n)) \/ stop \in DOMAIN Kids(n),
         NEW call, \A k \in DOMAIN Kids(n) : CallsWell(call[k], Kids(n)[k])
  PROVE  Ran(i, Edge(j, n, stop, start, call), n)
<1>1. PICK kid, stopped, set, x, y, e, w :
         /\ kid = Kids(n)[start]
         /\ stopped = IF stop > Len(Kids(n)) THEN j ELSE Renew(j, Kids(n)[stop])
         /\ set = Renew(stopped, kid) /\ x = call[start][set] /\ y = x.inst /\ e = Renew(y, kid)
         /\ w = Edge(j, n, stop, start, call)
  OBVIOUS
<1>2. Moved(i, stopped, n)
  <2>1. CASE stop > Len(Kids(n))
    BY <1>1, <2>1
  <2>2. CASE ~(stop > Len(Kids(n)))
    <3>1. stopped = Renew(j, Kids(n)[stop]) /\ stop \in DOMAIN Kids(n)
      BY <1>1, <2>2
    <3> QED BY <3>1, EndMoved
  <2> QED BY <2>1, <2>2
<1>3. Moved(i, set, n)
  BY <1>1, <1>2, EndMoved
<1>4. Moved(i, y, n) /\ x.res \in STRING
  BY <1>1, <1>3, CallKid
<1>5. Moved(i, e, n)
  BY <1>1, <1>4, EndMoved
<1>6. "PIPELINE_CONTINUE" \in STRING
  BY NamesFacts DEF Pipeline
<1>7. \/ w = x \/ w = Ret(e, "PIPELINE_CONTINUE") \/ w = Ret(y, "PIPELINE_CONTINUE")
  BY <1>1 DEF Edge
<1>8. CASE w = x
  <2>1. Ran(i, Ret(y, x.res), n)
    BY <1>4, RanFree
  <2> QED BY <1>1, <1>8, <2>1 DEF Ran, Ret
<1>9. CASE w # x
  <2>1. Ran(i, w, n)
    BY <1>4, <1>5, <1>6, <1>7, <1>9, RanFree
  <2> QED BY <1>1, <2>1
<1> QED BY <1>8, <1>9

LEMMA TriggerTick ==
  ASSUME WellFormed(tree), NEW n \in Nodes, NEW i, Ready(i, n), Fn(n) = "trigger_on_change", NEW in,
         NEW call, \A k \in DOMAIN Kids(n) : CallsWell(call[k], Kids(n)[k])
  PROVE  Ran(i, TriggerOnChange(i, n, call, in), n)
<1>1. Free(n) /\ Moved(i, i, n)
  BY ReadyFacts DEF Free
<1>2. PICK len, v, set, w : /\ len = Len(Kids(n)) /\ v = IF Holds(i, Kids(n)[1], in) THEN 1 ELSE 0
                            /\ set = SetState(i, n, v) /\ w = TriggerOnChange(i, n, call, in)
  OBVIOUS
<1>3. len \in {2, 3} /\ DOMAIN Kids(n) = 1..len
  BY <1>2, NodeShape, KidsFacts
<1>4. Moved(i, set, n)
  <2>1. v \in 0..255
    BY <1>2
  <2>2. LET g == SetState(i, n, v) IN
        /\ Moved(i, g, n) /\ g.node[n].state = v /\ g.node[n].data = i.node[n].data
        /\ \A k \in DOMAIN Kids(n) : Busy(g, Kids(n)[k]) <=> Busy(i, Kids(n)[k])
    BY <1>1, <2>1, MovedState
  <2> QED BY <1>2, <2>2
<1>5. \/ w = Edge(set, n, 3, 2, call)
      \/ len = 3 /\ w = Edge(set, n, 2, 3, call)
      \/ w = Ret(set, "PIPELINE_CONTINUE")
  <2>1. PICK now : now = Holds(i, Kids(n)[1], in)
    OBVIOUS
  <2>2. /\ set = SetState(i, n, IF now THEN 1 ELSE 0)
        /\ w = IF now /\ ~(i.node[n].state # 0) THEN Edge(set, n, 3, 2, call)
               ELSE IF i.node[n].state # 0 /\ ~now /\ len = 3 THEN Edge(set, n, 2, 3, call)
               ELSE Ret(set, "PIPELINE_CONTINUE")
    BY <1>2, <2>1 DEF TriggerOnChange
  <2> QED BY <2>2
<1>6. Ran(i, Edge(set, n, 3, 2, call), n)
  <2>1. 2 \in DOMAIN Kids(n) /\ (3 > len \/ 3 \in DOMAIN Kids(n))
    BY <1>3
  <2> QED BY <1>1, <1>2, <1>4, <2>1, EdgeRuns
<1>7. ASSUME len = 3 PROVE Ran(i, Edge(set, n, 2, 3, call), n)
  <2>1. 3 \in DOMAIN Kids(n) /\ 2 \in DOMAIN Kids(n)
    BY <1>3, <1>7
  <2> QED BY <1>1, <1>4, <2>1, EdgeRuns
<1>8. Ran(i, Ret(set, "PIPELINE_CONTINUE"), n)
  <2>1. "PIPELINE_CONTINUE" \in STRING
    BY NamesFacts DEF Pipeline
  <2> QED BY <1>1, <1>4, <2>1, RanFree
<1> QED BY <1>2, <1>5, <1>6, <1>7, <1>8

\* An exception moves nothing of the tree.
LEMMA ExceptionMoved ==
  ASSUME WellFormed(tree), NEW n \in Nodes, NEW i, Ready(i, n)
  PROVE  Moved(i, Exception(i), n) /\ Narrow(Exception(i), n)
<1>1. PICK j : j = Exception(i)
  OBVIOUS
<1>2. Moved(i, i, n) /\ Sane(i) /\ Narrow(i, n) /\ Pointed(i, n)
  BY ReadyFacts
<1>3. Sane(j) /\ j.node = i.node /\ j.live = i.live
  <2>1. LET h == Exception(i) IN Sane(h) /\ h.node = i.node /\ h.live = i.live
    BY <1>2, ExceptionKeeps
  <2> QED BY <1>1, <2>1
<1>4. Pointed(j, n)
  BY <1>2, <1>3 DEF Pointed
<1>5. Moved(i, j, n) /\ \A k \in DOMAIN Kids(n) : Busy(j, Kids(n)[k]) <=> Busy(i, Kids(n)[k])
  BY <1>2, <1>3, <1>4, MovedOwn
<1>6. Narrow(j, n)
  BY <1>2, <1>3, <1>5 DEF Narrow
<1> QED BY <1>1, <1>5, <1>6

\* se_cond calls one of its children or none.
LEMMA MatchedKid ==
  ASSUME WellFormed(tree), NEW n \in Nodes, NEW i, NEW in
  PROVE  Matched(i, n, in) = 0 \/ Matched(i, n, in) \in DOMAIN Kids(n)
<1> DEFINE pairs == {k \in DOMAIN Kids(n) : k % 2 = 0 /\ Holds(i, Kids(n)[k - 1], in)}
<1>1. pairs \subseteq DOMAIN Kids(n) /\ DOMAIN Kids(n) \subseteq Nat
  <2>1. DOMAIN Kids(n) \subseteq Nat
    BY KidsCounts
  <2> QED BY <2>1
<1>2. Matched(i, n, in) = IF pairs = {} THEN 0 ELSE CHOOSE k \in pairs : \A j \in pairs : k <= j
  BY DEF Matched
<1> HIDE DEF pairs
<1>3. ASSUME pairs # {} PROVE \E k \in pairs : \A j \in pairs : k <= j
  BY <1>1, <1>3, Least
<1>4. CASE pairs # {}
  <2>1. (CHOOSE k \in pairs : \A j \in pairs : k <= j) \in pairs
    BY <1>3, <1>4
  <2> QED BY <1>1, <1>2, <1>4, <2>1
<1> QED BY <1>2, <1>4

\* se_cond leaves what an earlier pair started for a TERMINATE to end.
LEMMA CondTick ==
  ASSUME WellFormed(tree), NEW n \in Nodes, NEW i, Ready(i, n), Fn(n) = "cond", NEW in,
         NEW call, \A k \in DOMAIN Kids(n) : CallsWell(call[k], Kids(n)[k])
  PROVE  Ran(i, Cond(i, n, call, in), n)
<1>1. Free(n) /\ Moved(i, i, n) /\ Pointed(i, n) /\ IsMain(n)
  BY ReadyFacts DEF Free
<1>2. PICK len, k, w : len = Len(Kids(n)) /\ k = Matched(i, n, in) /\ w = Cond(i, n, call, in)
  OBVIOUS
<1>3. len \in 0..255 /\ DOMAIN Kids(n) = 1..len
  BY <1>2, KidsFacts
<1>4. "PIPELINE_CONTINUE" \in STRING
  BY NamesFacts DEF Pipeline
<1>5. CASE k = 0
  <2>1. w = Ret(Exception(i), "PIPELINE_CONTINUE")
    BY <1>2, <1>5 DEF Cond
  <2>2. Ran(i, w, n)
    BY <1>4, <2>1, ExceptionMoved, RanMade
  <2> QED BY <1>2, <2>2
<1>6. CASE k \in DOMAIN Kids(n)
  <2>1. PICK kid, old, left, new, go :
           /\ kid = Kids(n)[k] /\ old = i.node[n].data
           /\ left = IF old = 0 THEN i ELSE Replace(i, Kids(n)[old])
           /\ new = Replace(left, kid)
           /\ go = IF old = k THEN i ELSE SetData(new, n, k)
    OBVIOUS
  <2>0. PICK x, y, e : x = ChildInvoke(go, kid, call[k]) /\ y = x.inst /\ e = Replace(y, kid)
    OBVIOUS
  <2>2. old \in 0..len
    BY <1>1, <1>2, <2>1 DEF Pointed
  <2>3. Moved(i, left, n)
    <3>1. CASE old = 0
      BY <1>1, <2>1, <3>1
    <3>2. CASE old # 0
      <4>1. old \in DOMAIN Kids(n)
        BY <1>3, <2>2, <3>2
      <4>2. left = Replace(i, Kids(n)[old])
        BY <2>1, <3>2
      <4> QED BY <1>1, <4>1, <4>2, EndMoved
    <3> QED BY <3>1, <3>2
  <2>4. Moved(i, new, n)
    BY <1>6, <2>1, <2>3, EndMoved
  <2>5. Moved(i, SetData(new, n, k), n)
    <3>1. k \in Nat /\ k \in 0..Len(Kids(n))
      BY <1>6, KidsCounts
    <3>2. LET h == SetData(new, n, k) IN
          /\ Moved(i, h, n) /\ h.node[n].data = k /\ h.node[n].state = new.node[n].state
          /\ \A m \in DOMAIN Kids(n) : Busy(h, Kids(n)[m]) <=> Busy(new, Kids(n)[m])
      BY <2>4, <3>1, MovedData
    <3> QED BY <3>2
  <2>6. Moved(i, go, n)
    <3>1. CASE old = k
      BY <1>1, <2>1, <3>1
    <3>2. CASE old # k
      <4>1. go = SetData(new, n, k)
        BY <2>1, <3>2
      <4> QED BY <2>5, <4>1
    <3> QED BY <3>1, <3>2
  <2>7. Moved(i, y, n) /\ x.res \in STRING
    BY <1>6, <2>0, <2>1, <2>6, InvokeMoved
  <2>8. Moved(i, e, n)
    BY <1>6, <2>0, <2>1, <2>7, EndMoved
  <2>9. w = CondPair(i, n, k, call)
    <3>1. k # 0
      BY <1>3, <1>6
    <3> QED BY <1>2, <3>1 DEF Cond
  <2>10. \/ w = x \/ w = Ret(y, "PIPELINE_CONTINUE") \/ w = Ret(e, "PIPELINE_CONTINUE")
    <3>1. w = CASE x.res \in Running -> Ret(x.inst, "PIPELINE_CONTINUE")
                [] x.res = "PIPELINE_RESET" -> Ret(Replace(x.inst, kid), "PIPELINE_CONTINUE")
                [] OTHER -> x
      BY <2>0, <2>1, <2>9 DEF CondPair
    <3> QED BY <2>0, <3>1
  <2>11. CASE w = x
    <3>1. Ran(i, Ret(y, x.res), n)
      BY <1>1, <2>7, RanFree
    <3> QED BY <1>2, <2>0, <2>11, <3>1 DEF Ran, Ret
  <2>12. CASE w # x
    <3>1. Ran(i, w, n)
      BY <1>1, <1>4, <2>7, <2>8, <2>10, <2>12, RanFree
    <3> QED BY <1>2, <3>1
  <2> QED BY <2>11, <2>12
<1> QED BY <1>2, <1>5, <1>6, MatchedKid

\* Where one child may be alive and the others are idle, so it is after a step
\* of that child.
LEMMA OnlyKept ==
  ASSUME WellFormed(tree), NEW n \in Nodes, NEW k \in DOMAIN Kids(n), NEW i, NEW j,
         KidStep(i, j, n, k), \A h \in DOMAIN Kids(n) : h # k => ~Busy(i, Kids(n)[h])
  PROVE  /\ \A h \in DOMAIN Kids(n) : h # k => ~Busy(j, Kids(n)[h])
         /\ ~Busy(j, Kids(n)[k]) => KidsIdle(j, n)
BY KidStepFacts DEF KidsIdle

\* se_while: its body lives only while the state byte is 1.
LEMMA WhileTick ==
  ASSUME WellFormed(tree), NEW n \in Nodes, NEW i, Ready(i, n), Fn(n) = "while", NEW in,
         NEW call, \A k \in DOMAIN Kids(n) : CallsWell(call[k], Kids(n)[k])
  PROVE  Ran(i, While(i, n, call, in), n)
<1>1. /\ Moved(i, i, n) /\ Sane(i) /\ KidsSound(i, n) /\ Narrow(i, n) /\ i.node[n] \in NodeState
  BY ReadyFacts
<1>2. 2 \in DOMAIN Kids(n)
  <2>1. PICK len : len = Len(Kids(n))
    OBVIOUS
  <2>2. len = 2 /\ DOMAIN Kids(n) = 1..len
    BY <2>1, NodeShape, KidsFacts
  <2> QED BY <2>2
<1>3. PICK body, new, set, go, w :
        /\ body = Kids(n)[2] /\ new = ResetRecursive(i, body) /\ set = SetState(new, n, 1)
        /\ go = IF i.node[n].state = 1 THEN i ELSE set
        /\ w = While(i, n, call, in)
  OBVIOUS
<1>4. PICK x, y, e, out : x = ChildInvoke(go, body, call[2]) /\ y = x.inst /\ e = Replace(y, body) /\ out = SetState(e, n, 0)
  OBVIOUS
<1>5. \A h \in DOMAIN Kids(n) : h # 2 => ~Busy(i, Kids(n)[h])
  BY <1>1 DEF Narrow, Reached
<1>6. /\ "PIPELINE_DISABLE" \in STRING /\ "PIPELINE_HALT" \in STRING
      /\ "FUNCTION_HALT" \in STRING
  BY NamesFacts DEF Names, Pipeline
<1>7. /\ Moved(i, go, n) /\ go.node[n].state = 1
      /\ \A h \in DOMAIN Kids(n) : h # 2 => ~Busy(go, Kids(n)[h])
  <2>1. CASE i.node[n].state = 1
    BY <1>1, <1>3, <1>5, <2>1
  <2>2. CASE i.node[n].state # 1
    <3>1. ~Busy(i, Kids(n)[2])
      BY <1>1, <1>2, <2>2 DEF Narrow, Reached
    <3>2. KidStep(i, new, n, 2) /\ ~Busy(new, Kids(n)[2])
      <4>1. PICK A : A = Below(body)
        OBVIOUS
      <4>2. KidStep(i, ResetAll(i, A), n, 2) /\ ~Busy(ResetAll(i, A), Kids(n)[2])
        BY <1>1, <1>2, <1>3, <3>1, <4>1, ResetKid
      <4> QED BY <1>3, <4>1, <4>2 DEF ResetRecursive
    <3>3. Moved(i, new, n) /\ \A h \in DOMAIN Kids(n) : h # 2 => ~Busy(new, Kids(n)[h])
      BY <1>1, <1>2, <1>5, <3>2, MovedKid, OnlyKept
    <3>4. /\ Moved(i, set, n) /\ set.node[n].state = 1
          /\ \A h \in DOMAIN Kids(n) : Busy(set, Kids(n)[h]) <=> Busy(new, Kids(n)[h])
      <4>1. 1 \in 0..255
        OBVIOUS
      <4>2. LET g == SetState(new, n, 1) IN
            /\ Moved(i, g, n) /\ g.node[n].state = 1 /\ g.node[n].data = new.node[n].data
            /\ \A h \in DOMAIN Kids(n) : Busy(g, Kids(n)[h]) <=> Busy(new, Kids(n)[h])
        BY <3>3, <4>1, MovedState
      <4> QED BY <1>3, <4>2
    <3>5. go = set
      BY <1>3, <2>2
    <3> QED BY <3>3, <3>4, <3>5
  <2> QED BY <2>1, <2>2
<1>8. KidStep(go, y, n, 2) /\ Moved(i, y, n) /\ y.node[n].state = 1 /\ x.res \in STRING
  BY <1>2, <1>3, <1>4, <1>7, InvokeMoved
<1>9. \A h \in DOMAIN Kids(n) : h # 2 => ~Busy(y, Kids(n)[h])
  BY <1>2, <1>7, <1>8, OnlyKept
<1>10. Narrow(y, n)
  BY <1>8, <1>9 DEF Narrow, Reached, Silent, Simple, Waits, Verifies
<1>11. Moved(i, out, n) /\ Narrow(out, n)
  <2>1. KidStep(y, e, n, 2) /\ ~Busy(e, Kids(n)[2]) /\ Moved(i, e, n)
    BY <1>2, <1>3, <1>4, <1>8, EndMoved
  <2>2. KidsIdle(e, n)
    BY <1>2, <1>9, <2>1, OnlyKept
  <2>3. 0 \in 0..255
    OBVIOUS
  <2>4. LET g == SetState(e, n, 0) IN
        /\ Moved(i, g, n) /\ g.node[n].state = 0 /\ g.node[n].data = e.node[n].data
        /\ \A h \in DOMAIN Kids(n) : Busy(g, Kids(n)[h]) <=> Busy(e, Kids(n)[h])
    BY <2>1, <2>3, MovedState
  <2>5. KidsIdle(out, n)
    BY <1>4, <2>2, <2>4 DEF KidsIdle
  <2> QED BY <1>4, <2>4, <2>5, IdleNarrow
<1>12. \/ w = Ret(i, "PIPELINE_DISABLE") \/ w = Ret(out, "PIPELINE_HALT")
       \/ w = Ret(y, "FUNCTION_HALT") \/ w = x
  <2>1. x = ChildInvoke(IF i.node[n].state = 1 THEN i
                        ELSE SetState(ResetRecursive(i, Kids(n)[2]), n, 1), Kids(n)[2], call[2])
    BY <1>3, <1>4
  <2>2. \/ w = Ret(i, "PIPELINE_DISABLE")
        \/ w = Ret(SetState(Replace(x.inst, Kids(n)[2]), n, 0), "PIPELINE_HALT")
        \/ w = Ret(x.inst, "FUNCTION_HALT")
        \/ w = x
    BY <1>3, <2>1 DEF While
  <2> QED BY <1>3, <1>4, <2>2
<1>13. CASE w = x
  <2>1. Ran(i, Ret(y, x.res), n)
    BY <1>8, <1>10, RanMade
  <2> QED BY <1>3, <1>4, <1>13, <2>1 DEF Ran, Ret
<1>14. CASE w # x
  <2>1. Ran(i, w, n)
    BY <1>1, <1>6, <1>8, <1>10, <1>11, <1>12, <1>14, RanMade
  <2> QED BY <1>3, <2>1
<1> QED BY <1>13, <1>14

\* A dispatcher calls one of its children or none.
LEMMA CaseKid ==
  ASSUME WellFormed(tree), NEW n \in Nodes, NEW value
  PROVE  Case(n, value) = 0 \/ Case(n, value) \in DOMAIN Kids(n)
<1> DEFINE At(v) == {k \in DOMAIN Kids(n) : Arg(n)[k] = v}
           hit == IF At(value) # {} THEN At(value) ELSE At("default")
<1>1. hit \subseteq DOMAIN Kids(n) /\ DOMAIN Kids(n) \subseteq Nat
  <2>1. DOMAIN Kids(n) \subseteq Nat
    BY KidsCounts
  <2> QED BY <2>1
<1>2. Case(n, value) = IF hit = {} THEN 0 ELSE CHOOSE k \in hit : \A j \in hit : k <= j
  BY DEF Case
<1> HIDE DEF hit
<1>3. ASSUME hit # {} PROVE \E k \in hit : \A j \in hit : k <= j
  BY <1>1, <1>3, Least
<1>4. CASE hit # {}
  <2>1. (CHOOSE k \in hit : \A j \in hit : k <= j) \in hit
    BY <1>3, <1>4
  <2> QED BY <1>1, <1>2, <1>4, <2>1
<1> QED BY <1>2, <1>4

LEMMA EventDispatchTick ==
  ASSUME WellFormed(tree), NEW n \in Nodes, NEW i, Ready(i, n), Fn(n) = "event_dispatch", NEW in,
         NEW call, \A k \in DOMAIN Kids(n) : CallsWell(call[k], Kids(n)[k])
  PROVE  Ran(i, EventDispatch(i, n, call, in), n)
<1>1. Moved(i, i, n)
  BY ReadyFacts
<1>2. PICK k, w : k = Case(n, in.event) /\ w = EventDispatch(i, n, call, in)
  OBVIOUS
<1>3. "PIPELINE_CONTINUE" \in STRING
  BY NamesFacts DEF Pipeline
<1>4. CASE k = 0
  <2>1. w = Ret(Exception(i), "PIPELINE_CONTINUE")
    BY <1>2, <1>4 DEF EventDispatch
  <2>2. Ran(i, w, n)
    BY <1>3, <2>1, ExceptionMoved, RanMade
  <2> QED BY <1>2, <2>2
<1>5. CASE k # 0 /\ k \in DOMAIN Kids(n)
  <2>1. PICK x, y, e : x = call[k][i] /\ y = x.inst /\ e = Replace(y, Kids(n)[k])
    OBVIOUS
  <2>2. Moved(i, y, n) /\ x.res \in STRING
    BY <1>1, <1>5, <2>1, CallKid
  <2>3. Moved(i, e, n)
    BY <1>5, <2>1, <2>2, EndMoved
  <2>4. ASSUME NEW j, Moved(i, j, n) PROVE Narrow(j, n)
    <3>1. Sane(j) /\ Fn(n) \in Silent
      BY <2>4 DEF Moved, Silent
    <3> QED BY <3>1, SilentIdle, IdleNarrow
  <2>5. w = Settle(x, Kids(n)[k])
    BY <1>2, <1>5, <2>1 DEF EventDispatch
  <2>6. \/ w = x \/ w = Ret(e, "PIPELINE_CONTINUE") \/ w = Ret(y, "PIPELINE_CONTINUE")
    BY <2>1, <2>5 DEF Settle, Replace
  <2>7. CASE w = x
    <3>1. Ran(i, Ret(y, x.res), n)
      BY <2>2, <2>4, RanMade
    <3> QED BY <1>2, <2>1, <2>7, <3>1 DEF Ran, Ret
  <2>8. CASE w # x
    <3>1. Ran(i, w, n)
      BY <1>3, <2>2, <2>3, <2>4, <2>6, <2>8, RanMade
    <3> QED BY <1>2, <3>1
  <2> QED BY <2>7, <2>8
<1> QED BY <1>2, <1>4, <1>5, CaseKid

\* Entering a branch: whatever the function had called before is over.
LEMMA SwitchMoved ==
  ASSUME WellFormed(tree), NEW n \in Nodes, NEW i, Ready(i, n),
         Fn(n) \in {"state_machine", "field_dispatch"}, NEW k \in DOMAIN Kids(n)
  PROVE  LET j == Switch(i, n, k) IN
         /\ Moved(i, j, n) /\ j.node[n].data = k
         /\ \A h \in DOMAIN Kids(n) : h # k => ~Busy(j, Kids(n)[h])
<1>1. /\ Moved(i, i, n) /\ Sane(i) /\ KidsSound(i, n) /\ Narrow(i, n) /\ Pointed(i, n) /\ IsMain(n)
  BY ReadyFacts
<1>2. PICK len, old, left, new, set, j :
        /\ len = Len(Kids(n)) /\ old = i.node[n].data
        /\ left = IF old = 0 THEN i ELSE Replace(i, Kids(n)[old])
        /\ new = ResetRecursive(left, Kids(n)[k]) /\ set = SetData(new, n, k)
        /\ j = Switch(i, n, k)
  OBVIOUS
<1>3. len \in 0..255 /\ DOMAIN Kids(n) = 1..len
  BY <1>2, KidsFacts
<1>4. old \in 0..len
  BY <1>1, <1>2 DEF Pointed
<1>5. \A h \in DOMAIN Kids(n) : h # old => ~Busy(i, Kids(n)[h])
  BY <1>1, <1>2 DEF Narrow, Reached
<1>6. CASE old = k
  <2>1. j = i
    BY <1>2, <1>6 DEF Switch
  <2> QED BY <1>1, <1>2, <1>5, <1>6, <2>1
<1>7. CASE old # k
  <2>1. Moved(i, left, n) /\ KidsIdle(left, n)
    <3>1. CASE old = 0
      <4>1. left = i
        BY <1>2, <3>1
      <4>2. \A h \in DOMAIN Kids(n) : h # old
        BY <1>3, <3>1
      <4> QED BY <1>1, <1>5, <4>1, <4>2 DEF KidsIdle
    <3>2. CASE old # 0
      <4>1. old \in DOMAIN Kids(n)
        BY <1>3, <1>4, <3>2
      <4>2. left = Replace(i, Kids(n)[old])
        BY <1>2, <3>2
      <4>3. KidStep(i, left, n, old) /\ ~Busy(left, Kids(n)[old]) /\ Moved(i, left, n)
        BY <1>1, <4>1, <4>2, EndMoved
      <4>4. KidsIdle(left, n)
        BY <1>5, <4>1, <4>3, OnlyKept
      <4> QED BY <4>3, <4>4
    <3> QED BY <3>1, <3>2
  <2>2. KidStep(left, new, n, k) /\ ~Busy(new, Kids(n)[k])
    <3>1. PICK A : A = Below(Kids(n)[k])
      OBVIOUS
    <3>2. Sane(left) /\ KidsSound(left, n) /\ ~Busy(left, Kids(n)[k])
      BY <2>1 DEF Moved, KidsIdle
    <3>3. KidStep(left, ResetAll(left, A), n, k) /\ ~Busy(ResetAll(left, A), Kids(n)[k])
      BY <3>1, <3>2, ResetKid
    <3> QED BY <1>2, <3>1, <3>3 DEF ResetRecursive
  <2>3. Moved(i, new, n) /\ KidsIdle(new, n)
    <3>1. \A h \in DOMAIN Kids(n) : h # k => ~Busy(left, Kids(n)[h])
      BY <2>1 DEF KidsIdle
    <3> QED BY <2>1, <2>2, <3>1, MovedKid, OnlyKept
  <2>4. /\ Moved(i, set, n) /\ set.node[n].data = k
        /\ \A h \in DOMAIN Kids(n) : Busy(set, Kids(n)[h]) <=> Busy(new, Kids(n)[h])
    <3>1. k \in Nat /\ k \in 0..Len(Kids(n))
      <4>1. k \in 1..len
        BY <1>3
      <4>2. k \in Nat /\ k \in 0..len
        BY <1>3, <4>1
      <4> QED BY <1>2, <4>2
    <3>2. LET g == SetData(new, n, k) IN
          /\ Moved(i, g, n) /\ g.node[n].data = k /\ g.node[n].state = new.node[n].state
          /\ \A h \in DOMAIN Kids(n) : Busy(g, Kids(n)[h]) <=> Busy(new, Kids(n)[h])
      BY <2>3, <3>1, MovedData
    <3> QED BY <1>2, <3>2
  <2>5. j = set
    BY <1>2, <1>7 DEF Switch, Replace
  <2> QED BY <1>2, <2>3, <2>4, <2>5 DEF KidsIdle
<1> QED BY <1>6, <1>7

\* The branch has been called: it is the only one alive, or it is over too.
LEMMA BranchCalled ==
  ASSUME WellFormed(tree), NEW n \in Nodes, NEW i, Ready(i, n),
         Fn(n) \in {"state_machine", "field_dispatch"}, NEW k \in DOMAIN Kids(n),
         NEW f, CallsWell(f, Kids(n)[k]),
         NEW x, x = f[Switch(i, n, k)], NEW y, y = x.inst, NEW e, e = Replace(y, Kids(n)[k])
  PROVE  /\ x.res \in STRING /\ Moved(i, y, n) /\ Narrow(y, n)
         /\ Moved(i, e, n) /\ KidsIdle(e, n) /\ Narrow(e, n)
<1>1. PICK j : j = Switch(i, n, k)
  OBVIOUS
<1>2. /\ Moved(i, j, n) /\ j.node[n].data = k
      /\ \A h \in DOMAIN Kids(n) : h # k => ~Busy(j, Kids(n)[h])
  <2>1. LET g == Switch(i, n, k) IN
        /\ Moved(i, g, n) /\ g.node[n].data = k
        /\ \A h \in DOMAIN Kids(n) : h # k => ~Busy(g, Kids(n)[h])
    BY SwitchMoved
  <2> QED BY <1>1, <2>1
<1>3. x.res \in STRING /\ KidStep(j, y, n, k) /\ Moved(i, y, n) /\ y.node[n].data = k
  BY <1>1, <1>2, CallKid
<1>4. \A h \in DOMAIN Kids(n) : h # k => ~Busy(y, Kids(n)[h])
  BY <1>2, <1>3, OnlyKept
<1>5. Narrow(y, n)
  BY <1>3, <1>4 DEF Narrow, Reached, Silent, Simple, Waits, Verifies
<1>6. KidStep(y, e, n, k) /\ ~Busy(e, Kids(n)[k]) /\ Moved(i, e, n)
  BY <1>3, EndMoved
<1>7. KidsIdle(e, n)
  BY <1>4, <1>6, OnlyKept
<1> QED BY <1>3, <1>5, <1>6, <1>7, IdleNarrow

LEMMA StateMachineTick ==
  ASSUME WellFormed(tree), NEW n \in Nodes, NEW i, Ready(i, n), Fn(n) = "state_machine",
         NEW call, \A k \in DOMAIN Kids(n) : CallsWell(call[k], Kids(n)[k])
  PROVE  Ran(i, StateMachine(i, n, call), n)
<1>1. PICK k, w : k = Case(n, i.field) /\ w = StateMachine(i, n, call)
  OBVIOUS
<1>2. "PIPELINE_CONTINUE" \in STRING /\ "PIPELINE_HALT" \in STRING
  BY NamesFacts DEF Pipeline
<1>3. CASE k = 0
  <2>1. w = Ret(Exception(i), "PIPELINE_CONTINUE")
    BY <1>1, <1>3 DEF StateMachine
  <2>2. Ran(i, w, n)
    BY <1>2, <2>1, ExceptionMoved, RanMade
  <2> QED BY <1>1, <2>2
<1>4. CASE k # 0 /\ k \in DOMAIN Kids(n)
  <2>1. PICK f, x, y, e : /\ f = call[k] /\ x = f[Switch(i, n, k)] /\ y = x.inst
                          /\ e = Replace(y, Kids(n)[k])
    OBVIOUS
  <2>2. /\ x.res \in STRING /\ Moved(i, y, n) /\ Narrow(y, n)
        /\ Moved(i, e, n) /\ KidsIdle(e, n) /\ Narrow(e, n)
    <3>1. CallsWell(f, Kids(n)[k])
      BY <1>4, <2>1
    <3> QED BY <1>4, <2>1, <3>1, BranchCalled
  <2>3. w = IF x.res = "FUNCTION_HALT" THEN Ret(y, "PIPELINE_HALT") ELSE Settle(x, Kids(n)[k])
    BY <1>1, <1>4, <2>1 DEF StateMachine
  <2>4. \/ w = x \/ w = Ret(e, "PIPELINE_CONTINUE")
        \/ w = Ret(y, "PIPELINE_CONTINUE") \/ w = Ret(y, "PIPELINE_HALT")
    BY <2>1, <2>3 DEF Settle, Replace
  <2>5. CASE w = x
    <3>1. Ran(i, Ret(y, x.res), n)
      BY <2>2, RanMade
    <3> QED BY <1>1, <2>1, <2>5, <3>1 DEF Ran, Ret
  <2>6. CASE w # x
    <3>1. Ran(i, w, n)
      BY <1>2, <2>2, <2>4, <2>6, RanMade
    <3> QED BY <1>1, <3>1
  <2> QED BY <2>5, <2>6
<1> QED BY <1>1, <1>3, <1>4, CaseKid

LEMMA FieldDispatchTick ==
  ASSUME WellFormed(tree), NEW n \in Nodes, NEW i, Ready(i, n), Fn(n) = "field_dispatch",
         NEW call, \A k \in DOMAIN Kids(n) : CallsWell(call[k], Kids(n)[k])
  PROVE  Ran(i, FieldDispatch(i, n, call), n)
<1>1. PICK k, w : k = Case(n, i.field) /\ w = FieldDispatch(i, n, call)
  OBVIOUS
<1>2. "PIPELINE_CONTINUE" \in STRING /\ "CONTINUE" \in STRING
  BY NamesFacts DEF Names, Pipeline
<1>3. CASE k = 0
  <2>1. w = Ret(Exception(i), "CONTINUE")
    BY <1>1, <1>3 DEF FieldDispatch
  <2>2. Ran(i, w, n)
    BY <1>2, <2>1, ExceptionMoved, RanMade
  <2> QED BY <1>1, <2>2
<1>4. CASE k # 0 /\ k \in DOMAIN Kids(n)
  <2>1. PICK f, x, y, e, out : /\ f = call[k] /\ x = f[Switch(i, n, k)] /\ y = x.inst
                               /\ e = Replace(y, Kids(n)[k]) /\ out = SetData(e, n, 0)
    OBVIOUS
  <2>2. /\ x.res \in STRING /\ Moved(i, y, n) /\ Narrow(y, n)
        /\ Moved(i, e, n) /\ KidsIdle(e, n)
    <3>1. CallsWell(f, Kids(n)[k])
      BY <1>4, <2>1
    <3> QED BY <1>4, <2>1, <3>1, BranchCalled
  <2>3. Moved(i, out, n) /\ Narrow(out, n)
    <3>1. PICK z, len : z = 0 /\ len = Len(Kids(n))
      OBVIOUS
    <3>2. 0 \in 0..len
      BY <3>1, KidsCounts
    <3>3. z \in Nat /\ z \in 0..len
      BY <3>1, <3>2
    <3>4. LET g == SetData(e, n, z) IN
          /\ Moved(i, g, n) /\ g.node[n].data = z /\ g.node[n].state = e.node[n].state
          /\ \A h \in DOMAIN Kids(n) : Busy(g, Kids(n)[h]) <=> Busy(e, Kids(n)[h])
      BY <2>2, <3>1, <3>3, MovedData
    <3>5. KidsIdle(out, n)
      BY <2>1, <2>2, <3>1, <3>4 DEF KidsIdle
    <3> QED BY <2>1, <3>1, <3>4, <3>5, IdleNarrow
  <2>4. w = x \/ w = Ret(out, "PIPELINE_CONTINUE")
    <3>1. w = IF x.res \in Ended \cup {"PIPELINE_RESET"}
                THEN Ret(SetData(Settle(x, Kids(n)[k]).inst, n, 0), Settle(x, Kids(n)[k]).res)
                ELSE x
      BY <1>1, <1>4, <2>1 DEF FieldDispatch
    <3>2. ASSUME x.res \in Ended \cup {"PIPELINE_RESET"}
          PROVE  Settle(x, Kids(n)[k]) = Ret(e, "PIPELINE_CONTINUE")
      BY <2>1, <3>2 DEF Settle, Replace, Ended
    <3>3. Ret(e, "PIPELINE_CONTINUE").inst = e /\ Ret(e, "PIPELINE_CONTINUE").res = "PIPELINE_CONTINUE"
      BY DEF Ret
    <3> QED BY <2>1, <3>1, <3>2, <3>3
  <2>5. CASE w = x
    <3>1. Ran(i, Ret(y, x.res), n)
      BY <2>2, RanMade
    <3> QED BY <1>1, <2>1, <2>5, <3>1 DEF Ran, Ret
  <2>6. CASE w # x
    <3>1. Ran(i, w, n)
      BY <1>2, <2>3, <2>4, <2>6, RanMade
    <3> QED BY <1>1, <3>1
  <2> QED BY <2>5, <2>6
<1> QED BY <1>1, <1>3, <1>4, CaseKid

LEMMA OtherIdle ==
  ASSUME WellFormed(tree), NEW i, Sane(i), NEW n \in Nodes, ~IsMain(n)
  PROVE  ~Busy(i, n)
BY OtherBarren, BarrenIdle

\* se_sequence: only the child after those it has passed can be alive, and the
\* byte that counts them never passes their number.
LEMMA SequenceTick ==
  ASSUME WellFormed(tree), NEW n \in Nodes, NEW i, Ready(i, n), Fn(n) = "sequence",
         NEW call, \A k \in DOMAIN Kids(n) : CallsWell(call[k], Kids(n)[k])
  PROVE  Ran(i, Sequence(i, n, call), n)
<1> DEFINE F == [k \in DOMAIN Kids(n) |-> [v \in Visits |-> SequenceVisit(v, n, k, call)]]
           Good(j) == Moved(i, j, n) /\ Narrow(j, n)
<1>1. Good(i) /\ i.node[n] \in NodeState
  BY ReadyFacts
<1>2. PICK len, start : len = Len(Kids(n)) /\ start = Visit(i)
  OBVIOUS
<1>3. len \in 0..255 /\ len \in Nat /\ DOMAIN Kids(n) = 1..len
  <2>1. len \in 0..255 /\ DOMAIN Kids(n) = 1..len
    BY <1>2, KidsFacts
  <2> QED BY <1>2, <2>1, KidsCounts
<1>4. ASSUME NEW k \in 1..len, NEW v \in Visits, Good(v.inst),
             v.go => v.inst.node[n].state >= k - 1, NEW w, w = SequenceVisit(v, n, k, call)
      PROVE  w \in Visits /\ Good(w.inst) /\ (w.go => w.inst.node[n].state >= k)
  <2>0. k \in DOMAIN Kids(n) /\ k \in 0..255
    BY <1>3
  <2>1. PICK s, kid, x, y, e : /\ s = v.inst.node[n].state /\ kid = Kids(n)[k]
                               /\ x = call[k][v.inst] /\ y = x.inst /\ e = ChildTerminate(y, kid)
    OBVIOUS
  <2>2. s \in Nat /\ kid \in Nodes
    <3>1. v.inst.node[n] \in NodeState
      BY <1>4 DEF Moved, Sane, Insts
    <3>2. s \in 0..255
      BY <2>1, <3>1 DEF NodeState
    <3>3. kid \in Nodes
      BY <2>0, <2>1, KidsFacts
    <3> QED BY <3>2, <3>3
  <2>3. CASE ~v.go \/ k <= s
    <3>1. w = v
      BY <1>4, <2>1, <2>3 DEF SequenceVisit
    <3>2. v.go => s >= k
      BY <2>2, <2>3
    <3> QED BY <1>4, <2>1, <3>1, <3>2
  <2>4. CASE v.go /\ ~(k <= s)
    <3>1. s = k - 1 /\ s + 1 = k
      BY <1>4, <2>1, <2>2, <2>4
    <3>2. \A h \in DOMAIN Kids(n) : h # k => ~Busy(v.inst, Kids(n)[h])
      BY <1>4, <2>1, <3>1 DEF Narrow, Reached
    <3>3. /\ KidStep(v.inst, y, n, k) /\ x.res \in STRING
          /\ Moved(i, y, n) /\ y.node[n] = v.inst.node[n]
      BY <1>4, <2>0, <2>1, CallKid
    <3>4. \A h \in DOMAIN Kids(n) : h # k => ~Busy(y, Kids(n)[h])
      BY <2>0, <3>2, <3>3, OnlyKept
    <3>5. Good(y)
      <4>1. y.node[n].state + 1 = k
        BY <2>1, <3>1, <3>3
      <4> QED BY <3>3, <3>4, <4>1 DEF Narrow, Reached, Silent, Simple, Waits, Verifies
    <3>6. ASSUME NEW j, Moved(i, j, n), KidsIdle(j, n)
          PROVE  Good(SetState(j, n, k)) /\ SetState(j, n, k).node[n].state = k
      <4>1. PICK g : g = SetState(j, n, k)
        OBVIOUS
      <4>2. LET h == SetState(j, n, k) IN
            /\ Moved(i, h, n) /\ h.node[n].state = k /\ h.node[n].data = j.node[n].data
            /\ \A m \in DOMAIN Kids(n) : Busy(h, Kids(n)[m]) <=> Busy(j, Kids(n)[m])
        BY <2>0, <3>6, MovedState
      <4>3. KidsIdle(g, n)
        BY <3>6, <4>1, <4>2 DEF KidsIdle
      <4> QED BY <4>1, <4>2, <4>3, IdleNarrow
    <3>7. ASSUME NEW j, Good(j)
          PROVE  Go(v, j) \in Visits /\ Go(v, j).inst = j
      BY <3>7, VisitMade DEF Go, Visits
    <3>8. ASSUME NEW r \in STRING
          PROVE  Leave(v, y, r) \in Visits /\ Leave(v, y, r).inst = y /\ ~Leave(v, y, r).go
      BY <3>5, VisitMade DEF Leave, Visits
    <3>9. k >= k
      BY <1>3
    <3>10. CASE ~IsMain(kid)
      <4>1. w = Go(v, SetState(y, n, k))
        BY <1>4, <2>1, <2>4, <3>10 DEF SequenceVisit
      <4>2. ~Busy(y, kid)
        BY <2>2, <3>3, <3>10, OtherIdle DEF KidStep
      <4>3. KidsIdle(y, n)
        BY <2>1, <3>4, <4>2 DEF KidsIdle
      <4> QED BY <3>3, <3>6, <3>7, <3>9, <4>1, <4>3
    <3>11. CASE IsMain(kid) /\ x.res \in Ended \cup {"PIPELINE_RESET"}
      <4>1. w = Go(v, SetState(e, n, k))
        BY <1>4, <2>1, <2>4, <3>11 DEF SequenceVisit
      <4>2. KidStep(y, e, n, k) /\ ~Busy(e, Kids(n)[k]) /\ Moved(i, e, n)
        BY <2>0, <2>1, <3>3, EndMoved
      <4>3. KidsIdle(e, n)
        BY <2>0, <3>4, <4>2, OnlyKept
      <4> QED BY <3>6, <3>7, <3>9, <4>1, <4>2, <4>3
    <3>12. CASE IsMain(kid) /\ x.res \notin Ended \cup {"PIPELINE_RESET"}
      <4>1. w \in {Leave(v, y, "PIPELINE_HALT"), Leave(v, y, "PIPELINE_CONTINUE"), Leave(v, y, x.res)}
        BY <1>4, <2>1, <2>4, <3>12 DEF SequenceVisit
      <4>2. "PIPELINE_HALT" \in STRING /\ "PIPELINE_CONTINUE" \in STRING
        BY NamesFacts DEF Pipeline
      <4>3. PICK r \in STRING : w = Leave(v, y, r)
        BY <3>3, <4>1, <4>2
      <4>4. w \in Visits /\ w.inst = y /\ ~w.go
        BY <3>8, <4>3
      <4> QED BY <3>5, <4>4
    <3> QED BY <3>10, <3>11, <3>12
  <2> QED BY <2>3, <2>4
<1> HIDE DEF Good
<1> DEFINE S == [k \in 0..len |-> {v \in Visits :
                   Good(v.inst) /\ (v.go => v.inst.node[n].state >= k)}]
<1>5. start \in S[0]
  <2>1. start.inst = i /\ start \in Visits
    BY <1>1, <1>2, VisitMade DEF Visit, Good
  <2>2. i.node[n].state >= 0
    BY <1>1 DEF NodeState
  <2> QED BY <1>1, <1>3, <2>1, <2>2
<1>6. ASSUME NEW k \in 1..len, NEW v \in S[k - 1] PROVE F[k][v] \in S[k]
  <2>1. k - 1 \in 0..len /\ k \in 0..len /\ k \in DOMAIN Kids(n)
    BY <1>3
  <2>2. v \in Visits /\ Good(v.inst) /\ (v.go => v.inst.node[n].state >= k - 1)
    BY <1>6, <2>1
  <2>3. PICK w : w = SequenceVisit(v, n, k, call)
    OBVIOUS
  <2>4. F[k][v] = w
    BY <2>1, <2>2, <2>3
  <2>5. w \in Visits /\ Good(w.inst) /\ (w.go => w.inst.node[n].state >= k)
    BY <1>4, <2>2, <2>3
  <2>6. S[k] = {u \in Visits : Good(u.inst) /\ (u.go => u.inst.node[n].state >= k)}
    BY <2>1
  <2> HIDE DEF S, F
  <2> QED BY <2>4, <2>5, <2>6
<1>7. len \in 0..len
  BY <1>3
<1>8. S[len] = {u \in Visits : Good(u.inst) /\ (u.go => u.inst.node[n].state >= len)}
  BY <1>7
<1>9. PICK v, r : /\ v = Through(F, Len(Kids(n)), Visit(i))
                  /\ r = IF v.go THEN "PIPELINE_DISABLE" ELSE v.res
  OBVIOUS
<1>10. Sequence(i, n, call) = Ret(v.inst, r)
  BY <1>9 DEF Sequence
<1> HIDE DEF S, F
<1>11. Through(F, len, start) \in S[len]
  BY <1>3, <1>5, <1>6, ThroughKeeps
<1>12. v \in Visits /\ Good(v.inst)
  BY <1>2, <1>8, <1>9, <1>11
<1>13. r \in STRING
  <2>1. "PIPELINE_DISABLE" \in STRING
    BY NamesFacts DEF Pipeline
  <2> QED BY <1>9, <1>12, <2>1 DEF Visits
<1> QED BY <1>10, <1>12, <1>13, RanMade DEF Good

\* se_function_interface: complete only when no child was left running.
LEMMA InterfaceTick ==
  ASSUME WellFormed(tree), NEW n \in Nodes, NEW i, Ready(i, n), Fn(n) = "function_interface",
         NEW call, \A k \in DOMAIN Kids(n) : CallsWell(call[k], Kids(n)[k])
  PROVE  Ran(i, FunctionInterface(i, n, call), n)
<1> DEFINE F == [k \in DOMAIN Kids(n) |-> [v \in Visits |-> InterfaceVisit(v, n, k, call)]]
           Good(j) == Moved(i, j, n) /\ j.node[n] = i.node[n]
           Done(v, k) == v.go /\ ~v.alive =>
                           \A h \in DOMAIN Kids(n) : h <= k => ~Busy(v.inst, Kids(n)[h])
<1>1. Good(i) /\ Narrow(i, n)
  BY ReadyFacts
<1>2. PICK len, start : len = Len(Kids(n)) /\ start = Visit(i)
  OBVIOUS
<1>3. len \in 0..255 /\ len \in Nat /\ DOMAIN Kids(n) = 1..len
  <2>1. len \in 0..255 /\ DOMAIN Kids(n) = 1..len
    BY <1>2, KidsFacts
  <2> QED BY <1>2, <2>1, KidsCounts
<1>4. ASSUME NEW k \in 1..len, NEW v \in Visits, Good(v.inst), Done(v, k - 1),
             NEW w, w = InterfaceVisit(v, n, k, call)
      PROVE  w \in Visits /\ Good(w.inst) /\ Done(w, k)
  <2>0. k \in DOMAIN Kids(n) /\ \A h \in DOMAIN Kids(n) : h <= k => h = k \/ h <= k - 1
    BY <1>3
  <2>1. PICK kid, x, y, e, r : /\ kid = Kids(n)[k] /\ x = call[k][v.inst] /\ y = x.inst
                               /\ e = ChildTerminate(y, kid) /\ r = Renew(y, kid)
    OBVIOUS
  <2>2. CASE ~v.go \/ ~v.inst.node[kid].active
    <3>1. w = v
      BY <1>4, <2>1, <2>2 DEF InterfaceVisit
    <3>2. ASSUME v.go PROVE ~Busy(v.inst, kid)
      <4>1. Sound(v.inst, kid) /\ kid \in Nodes
        BY <1>4, <2>0, <2>1, KidsFacts DEF Moved, KidsSound
      <4>2. Local(v.inst, kid)
        BY <4>1, SoundCases
      <4> QED BY <2>2, <3>2, <4>2 DEF Local
    <3>3. Done(v, k)
      BY <1>4, <2>0, <2>1, <3>2
    <3> QED BY <1>4, <3>1, <3>3
  <2>3. CASE v.go /\ v.inst.node[kid].active
    <3>1. /\ KidStep(v.inst, y, n, k) /\ x.res \in STRING
          /\ Moved(i, y, n) /\ y.node[n] = v.inst.node[n]
      BY <1>4, <2>0, <2>1, CallKid
    <3>2. KidStep(y, e, n, k) /\ ~Busy(e, Kids(n)[k]) /\ Moved(i, e, n) /\ e.node[n] = y.node[n]
      BY <2>0, <2>1, <3>1, EndMoved
    <3>3. Moved(i, r, n) /\ r.node[n] = y.node[n]
      BY <2>0, <2>1, <3>1, EndMoved
    <3>4. Good(y) /\ Good(e) /\ Good(r)
      BY <1>4, <3>1, <3>2, <3>3
    <3>5. "FUNCTION_CONTINUE" \in STRING
      BY NamesFacts DEF Names
    <3>6. \/ w \in {Leave(v, y, x.res), Leave(v, y, "FUNCTION_CONTINUE")}
          \/ w \in {GoAlive(v, y), GoAlive(v, r)}
          \/ w = Go(v, e)
      BY <1>4, <2>1, <2>3 DEF InterfaceVisit, Renew
    <3>7. CASE w \in {Leave(v, y, x.res), Leave(v, y, "FUNCTION_CONTINUE")}
      <4>1. PICK z \in STRING : w = Leave(v, y, z)
        BY <3>1, <3>5, <3>7
      <4>2. w \in Visits /\ w.inst = y /\ ~w.go
        BY <3>4, <4>1, VisitMade DEF Leave, Visits
      <4> QED BY <3>4, <4>2
    <3>8. CASE w \in {GoAlive(v, y), GoAlive(v, r)}
      <4>1. w \in Visits /\ w.inst \in {y, r} /\ w.alive
        <5>1. ASSUME NEW j, Moved(i, j, n)
              PROVE  GoAlive(v, j) \in Visits /\ GoAlive(v, j).inst = j /\ GoAlive(v, j).alive
          BY <5>1, VisitMade DEF GoAlive, Visits
        <5> QED BY <3>4, <3>8, <5>1
      <4> QED BY <3>4, <4>1
    <3>9. CASE w = Go(v, e)
      <4>1. w \in Visits /\ w.inst = e /\ w.go = v.go /\ w.alive = v.alive
        BY <3>4, <3>9, VisitMade DEF Go, Visits
      <4>2. ASSUME v.go /\ ~v.alive, NEW h \in DOMAIN Kids(n), h <= k PROVE ~Busy(e, Kids(n)[h])
        <5>1. CASE h = k
          BY <3>2, <5>1
        <5>2. CASE h # k
          <6>1. ~Busy(v.inst, Kids(n)[h])
            BY <1>4, <2>0, <4>2, <5>2
          <6>2. ~Busy(y, Kids(n)[h])
            BY <2>0, <3>1, <5>2, <6>1, KidStepFacts
          <6> QED BY <2>0, <3>2, <5>2, <6>2, KidStepFacts
        <5> QED BY <5>1, <5>2
      <4>3. Done(w, k)
        BY <4>1, <4>2
      <4> HIDE DEF Done
      <4> QED BY <3>4, <4>1, <4>3
    <3> QED BY <3>6, <3>7, <3>8, <3>9
  <2> QED BY <2>2, <2>3
<1> HIDE DEF Good, Done
<1> DEFINE S == [k \in 0..len |-> {v \in Visits : Good(v.inst) /\ Done(v, k)}]
<1>5. start \in S[0]
  <2>1. start.inst = i /\ start \in Visits
    BY <1>1, <1>2, VisitMade DEF Visit, Good
  <2>2. Done(start, 0)
    BY <1>3 DEF Done
  <2> QED BY <1>1, <1>3, <2>1, <2>2
<1>6. ASSUME NEW k \in 1..len, NEW v \in S[k - 1] PROVE F[k][v] \in S[k]
  <2>1. k - 1 \in 0..len /\ k \in 0..len /\ k \in DOMAIN Kids(n)
    BY <1>3
  <2>2. v \in Visits /\ Good(v.inst) /\ Done(v, k - 1)
    BY <1>6, <2>1
  <2>3. PICK w : w = InterfaceVisit(v, n, k, call)
    OBVIOUS
  <2>4. F[k][v] = w
    BY <2>1, <2>2, <2>3
  <2>5. w \in Visits /\ Good(w.inst) /\ Done(w, k)
    BY <1>4, <2>2, <2>3
  <2>6. S[k] = {u \in Visits : Good(u.inst) /\ Done(u, k)}
    BY <2>1
  <2> HIDE DEF S, F
  <2> QED BY <2>4, <2>5, <2>6
<1>7. len \in 0..len
  BY <1>3
<1>8. S[len] = {u \in Visits : Good(u.inst) /\ Done(u, len)}
  BY <1>7
<1>9. PICK v, w, h : /\ v = Through(F, Len(Kids(n)), Visit(i)) /\ h = SetState(v.inst, n, 2)
                     /\ w = FunctionInterface(i, n, call)
  OBVIOUS
<1>10. w = IF i.node[n].state # 1 THEN Ret(i, "FUNCTION_DISABLE")
           ELSE IF ~v.go THEN Ret(v.inst, v.res)
           ELSE IF v.alive THEN Ret(v.inst, "FUNCTION_CONTINUE")
           ELSE Ret(h, "FUNCTION_DISABLE")
  BY <1>9 DEF FunctionInterface
<1> HIDE DEF S, F
<1>11. Through(F, len, start) \in S[len]
  BY <1>3, <1>5, <1>6, ThroughKeeps
<1>12. v \in Visits /\ Good(v.inst) /\ Done(v, len) /\ v.res \in STRING
  BY <1>2, <1>8, <1>9, <1>11 DEF Visits
<1>13. "FUNCTION_DISABLE" \in STRING /\ "FUNCTION_CONTINUE" \in STRING
  BY NamesFacts DEF Names
<1>14. CASE i.node[n].state # 1
  <2>1. w = Ret(i, "FUNCTION_DISABLE")
    BY <1>10, <1>14
  <2>2. Ran(i, w, n)
    BY <1>1, <1>13, <2>1, RanMade DEF Good
  <2> QED BY <1>9, <2>2
<1>15. CASE i.node[n].state = 1 /\ ~(v.go /\ ~v.alive)
  <2>1. w = Ret(v.inst, v.res) \/ w = Ret(v.inst, "FUNCTION_CONTINUE")
    BY <1>10, <1>15
  <2>2. Narrow(v.inst, n) /\ Moved(i, v.inst, n)
    <3>1. v.inst.node[n].state # 2
      BY <1>12, <1>15 DEF Good
    <3> QED BY <1>12, <3>1 DEF Good, Narrow, Reached, Silent, Simple, Waits, Verifies
  <2>3. Ran(i, w, n)
    BY <1>12, <1>13, <2>1, <2>2, RanMade
  <2> QED BY <1>9, <2>3
<1>16. CASE i.node[n].state = 1 /\ v.go /\ ~v.alive
  <2>1. w = Ret(h, "FUNCTION_DISABLE")
    BY <1>10, <1>16
  <2>2. KidsIdle(v.inst, n)
    BY <1>3, <1>12, <1>16 DEF Done, KidsIdle
  <2>3. 2 \in 0..255
    OBVIOUS
  <2>4. LET g == SetState(v.inst, n, 2) IN
        /\ Moved(i, g, n) /\ g.node[n].state = 2 /\ g.node[n].data = v.inst.node[n].data
        /\ \A k \in DOMAIN Kids(n) : Busy(g, Kids(n)[k]) <=> Busy(v.inst, Kids(n)[k])
    BY <1>12, <2>3, MovedState DEF Good
  <2>5. KidsIdle(h, n) /\ Moved(i, h, n)
    BY <1>9, <2>2, <2>4 DEF KidsIdle
  <2>6. Ran(i, w, n)
    BY <1>13, <2>1, <2>5, IdleNarrow, RanMade
  <2> QED BY <1>9, <2>6
<1> QED BY <1>14, <1>15, <1>16

\* What the world may answer.
InputOK(in) == in.event \in Words /\ \A n \in UserNodes : in.ret[n] \in UserResults

\* A call of a one-shot keeps the contract.
LEMMA OneshotWell ==
  ASSUME WellFormed(tree), NEW c \in Nodes, ~IsMain(c), NEW in, InputOK(in),
         NEW i, Sane(i), Sound(i, c)
  PROVE  LET j == Oneshot(i, c, in) IN Sane(j) /\ Sound(j, c) /\ Same(i, j, Below(c))
<1>1. PICK j : j = Oneshot(i, c, in)
  OBVIOUS
<1>2. Fn(c) # "user" /\ \A k \in DOMAIN Kids(c) : ~IsMain(Kids(c)[k])
  BY NodeShape
<1>3. Sane(j) /\ j.live = i.live /\ \A m \in Nodes : m # c => j.node[m] = i.node[m]
  <2>1. in.event \in Words
    BY DEF InputOK
  <2>2. LET g == Oneshot(i, c, in) IN
        /\ Sane(g) /\ g.live = i.live /\ \A m \in Nodes : m # c => g.node[m] = i.node[m]
    BY <1>2, <2>1, OneshotKeeps
  <2> QED BY <1>1, <2>2
<1>4. KidsSound(i, c)
  BY SoundCases
<1>5. Same(i, j, {c})
  BY <1>3 DEF Same
<1>6. KidsSound(j, c) /\ Same(i, j, Below(c))
  BY <1>4, <1>5, OwnStep
<1>7. ~Busy(j, c)
  BY <1>3, OtherIdle
<1>8. Narrow(j, c)
  <2>1. ASSUME NEW k \in DOMAIN Kids(c) PROVE ~Busy(j, Kids(c)[k])
    <3>1. Kids(c)[k] \in Nodes /\ ~IsMain(Kids(c)[k])
      BY <1>2, KidsFacts
    <3> QED BY <1>3, <3>1, OtherIdle
  <2> QED BY <2>1 DEF Narrow
<1>9. Local(j, c)
  BY <1>2, <1>7, <1>8 DEF Local, Pointed
<1>10. Sound(j, c)
  BY <1>6, <1>9, SoundCases
<1> QED BY <1>1, <1>3, <1>6, <1>10

\* The error function of a verify or a timeout is made ready and fired.
LEMMA FailMoved ==
  ASSUME WellFormed(tree), NEW n \in Nodes, NEW i, NEW j, Moved(i, j, n), IsMain(n),
         Fn(n) \in Verifies \cup {"wait_timeout"}, NEW in, InputOK(in), NEW reset,
         NEW err, err = Kids(n)[Len(Kids(n))]
  PROVE  LET x == Fail(j, err, reset, in) IN Moved(i, x.inst, n) /\ x.res \in STRING
<1>1. PICK len : len = Len(Kids(n))
  OBVIOUS
<1>2. len \in DOMAIN Kids(n)
  <2>1. len \in 0..255 /\ DOMAIN Kids(n) = 1..len /\ len > 0
    BY <1>1, KidsFacts, NodeShape
  <2> QED BY <2>1
<1>3. err = Kids(n)[len] /\ err \in Nodes /\ ~IsMain(err)
  <2>1. Fn(n) \in Simple
    BY DEF Simple, Waits, Verifies
  <2> QED BY <1>1, <1>2, <2>1, KidsFacts, NodeShape
<1>4. Sane(j) /\ KidsSound(j, n)
  BY DEF Moved
<1>5. PICK set, out : set = ChildReset(j, err) /\ out = Oneshot(set, err, in)
  OBVIOUS
<1>6. KidStep(j, set, n, len)
  <2>1. ~Busy(j, Kids(n)[len])
    BY <1>3, <1>4, OtherIdle
  <2>2. PICK A : A = {err}
    OBVIOUS
  <2>3. A \subseteq Below(Kids(n)[len])
    BY <1>3, <2>2, BelowSelf
  <2>4. KidStep(j, ResetAll(j, A), n, len) /\ ~Busy(ResetAll(j, A), Kids(n)[len])
    BY <1>2, <1>4, <2>1, <2>3, ResetKid
  <2> QED BY <1>5, <2>2, <2>4 DEF ChildReset
<1>7. Moved(i, set, n)
  BY <1>2, <1>6, MovedKid
<1>8. KidStep(set, out, n, len)
  <2>1. Sane(set) /\ KidsSound(set, n) /\ Sound(set, err)
    BY <1>2, <1>3, <1>6 DEF KidStep, KidsSound
  <2>2. LET g == Oneshot(set, err, in) IN Sane(g) /\ Sound(g, err) /\ Same(set, g, Below(err))
    BY <1>3, <2>1, OneshotWell
  <2> QED BY <1>2, <1>3, <1>5, <2>1, <2>2, KidStepMade
<1>9. Moved(i, out, n)
  BY <1>2, <1>7, <1>8, MovedKid
<1>10. "PIPELINE_RESET" \in STRING /\ "PIPELINE_TERMINATE" \in STRING
  BY NamesFacts DEF Pipeline
<1>11. PICK r : r = IF reset THEN "PIPELINE_RESET" ELSE "PIPELINE_TERMINATE"
  OBVIOUS
<1>12. Fail(j, err, reset, in) = Ret(out, r)
  BY <1>5, <1>11 DEF Fail
<1>13. r \in STRING
  BY <1>10, <1>11
<1> QED BY <1>9, <1>12, <1>13 DEF Ret

\* These have nothing below them that could live.
LEMMA SimpleRan ==
  ASSUME WellFormed(tree), NEW n \in Nodes, NEW i, Ready(i, n), Fn(n) \in Simple,
         NEW x, NEW j, NEW r, x = Ret(j, r), Moved(i, j, n), r \in STRING
  PROVE  Ran(i, x, n)
<1>1. Narrow(j, n)
  <2>1. Sane(j) /\ Fn(n) \in Silent
    BY DEF Moved, Silent
  <2> QED BY <2>1, SilentIdle, IdleNarrow
<1> QED BY <1>1, RanMade

\* A count, of a function that has no child to remember.
LEMMA CountMoved ==
  ASSUME WellFormed(tree), NEW n \in Nodes, NEW i, NEW j, Moved(i, j, n), NEW v \in Nat,
         Fn(n) \in Simple
  PROVE  Moved(i, SetData(j, n, v), n)
<1>1. Fn(n) \notin {"cond", "state_machine", "field_dispatch"}
  BY DEF Simple, Waits, Verifies
<1>2. LET g == SetData(j, n, v) IN
      /\ Moved(i, g, n) /\ g.node[n].data = v /\ g.node[n].state = j.node[n].state
      /\ \A h \in DOMAIN Kids(n) : Busy(g, Kids(n)[h]) <=> Busy(j, Kids(n)[h])
  BY <1>1, MovedData
<1> QED BY <1>2

\* Delays and waits without one.
LEMMA DelayRan ==
  ASSUME WellFormed(tree), NEW n \in Nodes, NEW i, Ready(i, n), NEW in, InputOK(in),
         Fn(n) \in {"tick_delay", "time_delay", "wait_event", "wait"}
  PROVE  Ran(i, DelayTick(i, n, in), n)
<1>1. Moved(i, i, n) /\ i.node[n] \in NodeState
  BY ReadyFacts
<1>2. Fn(n) \in Simple
  BY DEF Simple, Waits
<1>3. PICK d, left, w : /\ d = i.node[n].data /\ w = DelayTick(i, n, in)
                        /\ left = IF d > 0 /\ in.event = Arg(n).event THEN d - 1 ELSE d
  OBVIOUS
<1>4. d \in Nat /\ left \in Nat
  <2>1. d \in Nat
    BY <1>1, <1>3 DEF NodeState
  <2> QED BY <1>3, <2>1
<1>5. /\ "PIPELINE_DISABLE" \in STRING /\ "PIPELINE_HALT" \in STRING /\ "FUNCTION_HALT" \in STRING
  BY NamesFacts DEF Names, Pipeline
<1>6. CASE Fn(n) = "tick_delay"
  <2>1. CASE d = 0
    <3>1. w = Ret(i, "PIPELINE_DISABLE")
      BY <1>3, <1>6, <2>1 DEF DelayTick
    <3> QED BY <1>1, <1>2, <1>3, <1>5, <3>1, SimpleRan
  <2>2. CASE d # 0
    <3>1. PICK v : v = d - 1
      OBVIOUS
    <3>2. w = Ret(SetData(i, n, v), "FUNCTION_HALT")
      BY <1>3, <1>6, <2>2, <3>1 DEF DelayTick
    <3>3. v \in Nat
      BY <1>4, <2>2, <3>1
    <3>4. Moved(i, SetData(i, n, v), n)
      BY <1>1, <1>2, <3>3, CountMoved
    <3> QED BY <1>2, <1>3, <1>5, <3>2, <3>4, SimpleRan
  <2> QED BY <2>1, <2>2
<1>7. CASE Fn(n) \in {"time_delay", "wait"}
  <2>1. w = Ret(i, "PIPELINE_DISABLE") \/ w = Ret(i, "PIPELINE_HALT") \/ w = Ret(i, "FUNCTION_HALT")
    BY <1>3, <1>7 DEF DelayTick
  <2> QED BY <1>1, <1>2, <1>3, <1>5, <2>1, SimpleRan
<1>8. CASE Fn(n) = "wait_event"
  <2>1. w = Ret(SetData(i, n, left), "PIPELINE_DISABLE") \/ w = Ret(SetData(i, n, left), "PIPELINE_HALT")
    BY <1>3, <1>8 DEF DelayTick
  <2>2. Moved(i, SetData(i, n, left), n)
    BY <1>1, <1>2, <1>4, CountMoved
  <2> QED BY <1>2, <1>3, <1>5, <2>1, <2>2, SimpleRan
<1> QED BY <1>6, <1>7, <1>8

\* Waits and verifications with an error function.
LEMMA WatchedRan ==
  ASSUME WellFormed(tree), NEW n \in Nodes, NEW i, Ready(i, n), NEW in, InputOK(in),
         Fn(n) \in Verifies \cup {"wait_timeout"}
  PROVE  Ran(i, Watched(i, n, in), n)
<1>1. Moved(i, i, n) /\ i.node[n] \in NodeState /\ IsMain(n)
  BY ReadyFacts
<1>2. Fn(n) \in Simple
  BY DEF Simple, Waits, Verifies
<1>3. PICK d, err, more, w : /\ d = i.node[n].data /\ err = Kids(n)[Len(Kids(n))]
                             /\ more = SetData(i, n, d + 1) /\ w = Watched(i, n, in)
  OBVIOUS
<1>4. Moved(i, more, n)
  <2>1. PICK v : v = d + 1
    OBVIOUS
  <2>2. d \in Nat
    BY <1>1, <1>3 DEF NodeState
  <2>3. v \in Nat
    BY <2>1, <2>2
  <2> QED BY <1>1, <1>2, <1>3, <2>1, <2>3, CountMoved
<1>5. "PIPELINE_DISABLE" \in STRING /\ "PIPELINE_HALT" \in STRING /\ "PIPELINE_CONTINUE" \in STRING
  BY NamesFacts DEF Pipeline
<1>6. ASSUME NEW j, Moved(i, j, n), NEW reset, w = Fail(j, err, reset, in)
      PROVE  Ran(i, w, n)
  <2>1. LET x == Fail(j, err, reset, in) IN Moved(i, x.inst, n) /\ x.res \in STRING
    BY <1>1, <1>3, <1>6, FailMoved
  <2>2. w = Ret(w.inst, w.res)
    BY <1>6 DEF Fail, Ret
  <2> QED BY <1>2, <1>6, <2>1, <2>2, SimpleRan
<1>7. ASSUME NEW j, Moved(i, j, n), NEW r \in STRING, w = Ret(j, r)
      PROVE  Ran(i, w, n)
  BY <1>2, <1>7, SimpleRan
<1>8. \/ w = Ret(i, "PIPELINE_DISABLE") \/ w = Ret(i, "PIPELINE_HALT")
      \/ w = Ret(i, "PIPELINE_CONTINUE") \/ w = Ret(more, "PIPELINE_CONTINUE")
      \/ w = Fail(i, err, Arg(n), in) \/ w = Fail(more, err, Arg(n).reset, in)
  <2>1. CASE Fn(n) = "wait_timeout"
    BY <1>3, <2>1 DEF Watched
  <2>2. CASE Fn(n) = "verify"
    BY <1>3, <2>2 DEF Watched
  <2>3. CASE Fn(n) = "verify_time"
    BY <1>3, <2>3 DEF Watched
  <2>4. CASE Fn(n) = "verify_events"
    <3>1. w = IF in.event # Arg(n).event THEN Ret(i, "PIPELINE_CONTINUE")
              ELSE IF d < Arg(n).count THEN Ret(more, "PIPELINE_CONTINUE")
              ELSE Fail(more, err, Arg(n).reset, in)
      BY <1>3, <2>4 DEF Watched
    <3> QED BY <3>1
  <2> QED BY <2>1, <2>2, <2>3, <2>4 DEF Verifies
<1>9. Ran(i, w, n)
  BY <1>1, <1>4, <1>5, <1>6, <1>7, <1>8
<1> QED BY <1>3, <1>9

\* A function without main functions below it.
LEMMA LeafRan ==
  ASSUME WellFormed(tree), NEW n \in Nodes, NEW i, Ready(i, n), NEW in, InputOK(in),
         Fn(n) \in Simple \cup {"user"}
  PROVE  Ran(i, LeafTick(i, n, in), n)
<1>1. Moved(i, i, n) /\ Sane(i) /\ (Tidy(tree) /\ Fn(n) = "user" => n \in i.live)
  BY ReadyFacts
<1>2. PICK w : w = LeafTick(i, n, in)
  OBVIOUS
<1>3. CASE Fn(n) = "user"
  <2>1. PICK r, j : r = in.ret[n] /\ j = Log(i, n, r)
    OBVIOUS
  <2>2. w = Ret(j, r)
    BY <1>2, <1>3, <2>1 DEF LeafTick
  <2>3. n \in UserNodes
    BY <1>3 DEF UserNodes, Nodes
  <2>4. r \in STRING /\ r \notin {"INIT", "TERMINATE"}
    <3>1. r \in UserResults
      BY <2>1, <2>3 DEF InputOK
    <3> QED BY <3>1, ResultsAssumption DEF Words
  <2>5. Sane(j) /\ j.node = i.node /\ j.live = i.live
    <3>1. LET g == Log(i, n, r) IN
          /\ Sane(g) /\ g.node = i.node
          /\ \A m \in Nodes : m # n => (m \in g.live <=> m \in i.live)
          /\ r = "INIT" => n \in g.live
          /\ r = "TERMINATE" => n \notin g.live
          /\ r \notin {"INIT", "TERMINATE"} => g.live = i.live
      BY <1>1, <1>3, <2>3, <2>4, LogUser
    <3> QED BY <2>1, <2>4, <3>1
  <2>6. Pointed(j, n)
    BY <1>3 DEF Pointed
  <2>7. Moved(i, j, n)
    BY <1>1, <2>5, <2>6, MovedOwn
  <2>8. Narrow(j, n)
    <3>1. DOMAIN Kids(n) = {}
      BY <1>3, NodeShape
    <3> QED BY <3>1 DEF Narrow
  <2> QED BY <1>2, <2>2, <2>4, <2>7, <2>8, RanMade
<1>4. CASE Fn(n) = "return"
  <2>1. w = Ret(i, Arg(n))
    BY <1>2, <1>4 DEF LeafTick
  <2>2. Arg(n) \in STRING
    BY <1>4, NodeArg
  <2>3. Fn(n) \in Simple
    BY <1>4 DEF Simple
  <2> QED BY <1>1, <1>2, <2>1, <2>2, <2>3, SimpleRan
<1>5. CASE Fn(n) = "handle_internal_events"
  <2>1. PICK j, v : j = Reattached(i, in) /\ v = "boot"
    OBVIOUS
  <2>2. w = Ret(j, "PIPELINE_CONTINUE")
    BY <1>2, <1>5, <2>1 DEF LeafTick
  <2>3. v \in STRING /\ "PIPELINE_CONTINUE" \in STRING
    BY <2>1, NamesFacts DEF Names, Pipeline
  <2>4. Sane(j) /\ j.node = i.node /\ j.live = i.live
    <3>1. LET g == [i EXCEPT !.field = v] IN Sane(g) /\ g.node = i.node /\ g.live = i.live
      BY <1>1, <2>3, FieldSet
    <3> QED BY <1>1, <2>1, <3>1 DEF Reattached
  <2>5. Pointed(j, n)
    BY <1>5 DEF Pointed
  <2>6. Moved(i, j, n)
    BY <1>1, <2>4, <2>5, MovedOwn
  <2>7. Fn(n) \in Simple
    BY <1>5 DEF Simple
  <2> QED BY <1>2, <2>2, <2>3, <2>6, <2>7, SimpleRan
<1>6. CASE Fn(n) \in {"tick_delay", "time_delay", "wait_event", "wait"}
  <2>1. w = DelayTick(i, n, in)
    BY <1>2, <1>6 DEF LeafTick
  <2> QED BY <1>2, <1>6, <2>1, DelayRan
<1>7. CASE Fn(n) \in Verifies \cup {"wait_timeout"}
  <2>1. w = Watched(i, n, in)
    BY <1>2, <1>7 DEF LeafTick, Verifies
  <2> QED BY <1>2, <1>7, <2>1, WatchedRan
<1> QED BY <1>3, <1>4, <1>5, <1>6, <1>7 DEF Simple, Waits, Verifies

\* Whatever function a node has, its tick keeps the node ready.
LEMMA OnTickRan ==
  ASSUME WellFormed(tree), NEW n \in Nodes, NEW i, Ready(i, n), NEW in, InputOK(in),
         NEW call, \A k \in DOMAIN Kids(n) : CallsWell(call[k], Kids(n)[k])
  PROVE  Ran(i, OnTick(i, n, call, in), n)
<1>1. PICK w : w = OnTick(i, n, call, in)
  OBVIOUS
<1>2. CASE Fn(n) = "sequence"
  <2>1. w = Sequence(i, n, call)
    BY <1>1, <1>2 DEF OnTick
  <2>2. Ran(i, Sequence(i, n, call), n)
    BY <1>2, SequenceTick
  <2> QED BY <1>1, <2>1, <2>2
<1>3. CASE Fn(n) = "sequence_once"
  <2>1. w = SequenceOnce(i, n, call)
    BY <1>1, <1>3 DEF OnTick
  <2>2. Ran(i, SequenceOnce(i, n, call), n)
    BY <1>3, SequenceOnceTick
  <2> QED BY <1>1, <2>1, <2>2
<1>4. CASE Fn(n) = "function_interface"
  <2>1. w = FunctionInterface(i, n, call)
    BY <1>1, <1>4 DEF OnTick
  <2>2. Ran(i, FunctionInterface(i, n, call), n)
    BY <1>4, InterfaceTick
  <2> QED BY <1>1, <2>1, <2>2
<1>5. CASE Fn(n) = "fork"
  <2>1. w = Fork(i, n, call)
    BY <1>1, <1>5 DEF OnTick
  <2>2. Ran(i, Fork(i, n, call), n)
    BY <1>5, ForkTick
  <2> QED BY <1>1, <2>1, <2>2
<1>6. CASE Fn(n) = "fork_join"
  <2>1. w = ForkJoin(i, n, call)
    BY <1>1, <1>6 DEF OnTick
  <2>2. Ran(i, ForkJoin(i, n, call), n)
    BY <1>6, ForkJoinTick
  <2> QED BY <1>1, <2>1, <2>2
<1>7. CASE Fn(n) = "chain_flow"
  <2>1. w = ChainFlow(i, n, call)
    BY <1>1, <1>7 DEF OnTick
  <2>2. Ran(i, ChainFlow(i, n, call), n)
    BY <1>7, ChainTick
  <2> QED BY <1>1, <2>1, <2>2
<1>8. CASE Fn(n) = "while"
  <2>1. w = While(i, n, call, in)
    BY <1>1, <1>8 DEF OnTick
  <2>2. Ran(i, While(i, n, call, in), n)
    BY <1>8, WhileTick
  <2> QED BY <1>1, <2>1, <2>2
<1>9. CASE Fn(n) = "if_then_else"
  <2>1. w = IfThenElse(i, n, call, in)
    BY <1>1, <1>9 DEF OnTick
  <2>2. Ran(i, IfThenElse(i, n, call, in), n)
    BY <1>9, IfThenElseTick
  <2> QED BY <1>1, <2>1, <2>2
<1>10. CASE Fn(n) = "cond"
  <2>1. w = Cond(i, n, call, in)
    BY <1>1, <1>10 DEF OnTick
  <2>2. Ran(i, Cond(i, n, call, in), n)
    BY <1>10, CondTick
  <2> QED BY <1>1, <2>1, <2>2
<1>11. CASE Fn(n) = "trigger_on_change"
  <2>1. w = TriggerOnChange(i, n, call, in)
    BY <1>1, <1>11 DEF OnTick
  <2>2. Ran(i, TriggerOnChange(i, n, call, in), n)
    BY <1>11, TriggerTick
  <2> QED BY <1>1, <2>1, <2>2
<1>12. CASE Fn(n) = "event_dispatch"
  <2>1. w = EventDispatch(i, n, call, in)
    BY <1>1, <1>12 DEF OnTick
  <2>2. Ran(i, EventDispatch(i, n, call, in), n)
    BY <1>12, EventDispatchTick
  <2> QED BY <1>1, <2>1, <2>2
<1>13. CASE Fn(n) = "state_machine"
  <2>1. w = StateMachine(i, n, call)
    BY <1>1, <1>13 DEF OnTick
  <2>2. Ran(i, StateMachine(i, n, call), n)
    BY <1>13, StateMachineTick
  <2> QED BY <1>1, <2>1, <2>2
<1>14. CASE Fn(n) = "field_dispatch"
  <2>1. w = FieldDispatch(i, n, call)
    BY <1>1, <1>14 DEF OnTick
  <2>2. Ran(i, FieldDispatch(i, n, call), n)
    BY <1>14, FieldDispatchTick
  <2> QED BY <1>1, <2>1, <2>2
<1>15. CASE Fn(n) \in Simple \cup {"user"}
  <2>1. w = LeafTick(i, n, in)
    BY <1>1, <1>15 DEF OnTick, Simple, Waits, Verifies
  <2>2. Ran(i, LeafTick(i, n, in), n)
    BY <1>15, LeafRan
  <2> QED BY <1>1, <2>1, <2>2
<1>16. Fn(n) \in Controls \cup Silent \cup {"user"}
  BY NodeShape DEF Ready
<1> QED BY <1>2, <1>3, <1>4, <1>5, <1>6, <1>7, <1>8, <1>9, <1>10, <1>11, <1>12, <1>13, <1>14, <1>15, <1>16 DEF Controls, Silent

-----------------------------------------------------------------------------
(* INIT, and the TERMINATE that a node which disables itself is sent.      *)

\* INIT, where nothing lives below the node yet.
LEMMA OnInitMoved ==
  ASSUME WellFormed(tree), NEW n \in Nodes, IsMain(n), Fn(n) # "user",
         NEW i, Sane(i), KidsSound(i, n), KidsIdle(i, n), Pointed(i, n)
  PROVE  LET j == OnInit(i, n) IN Moved(i, j, n) /\ KidsIdle(j, n)
<1>1. PICK j : j = OnInit(i, n)
  OBVIOUS
<1>2. Moved(i, i, n)
  BY DEF Moved, Same
<1>3. CASE Fn(n) \in {"fork", "function_interface"}
  <2>1. PICK g, h, d : g = ChildrenReset(i, n) /\ h = SetState(g, n, 1) /\ d = SetData(h, n, 0)
    OBVIOUS
  <2>2. j = d
    BY <1>1, <1>3, <2>1 DEF OnInit
  <2>3. Moved(i, g, n) /\ KidsIdle(g, n)
    <3>1. KidsStep(i, g, n) /\ KidsIdle(g, n)
      BY <2>1, ResetKids
    <3> QED BY <1>2, <3>1, MovedKids
  <2>4. Moved(i, h, n) /\ KidsIdle(h, n)
    <3>1. 1 \in 0..255
      OBVIOUS
    <3>2. LET f == SetState(g, n, 1) IN
          /\ Moved(i, f, n) /\ f.node[n].state = 1 /\ f.node[n].data = g.node[n].data
          /\ \A k \in DOMAIN Kids(n) : Busy(f, Kids(n)[k]) <=> Busy(g, Kids(n)[k])
      BY <2>3, <3>1, MovedState
    <3> QED BY <2>1, <2>3, <3>2 DEF KidsIdle
  <2>5. Moved(i, d, n) /\ KidsIdle(d, n)
    <3>1. LET f == SetData(h, n, 0) IN
          /\ Moved(i, f, n) /\ f.node[n].data = 0 /\ f.node[n].state = h.node[n].state
          /\ \A k \in DOMAIN Kids(n) : Busy(f, Kids(n)[k]) <=> Busy(h, Kids(n)[k])
      BY <1>3, <2>4, MovedData
    <3> QED BY <2>1, <2>4, <3>1 DEF KidsIdle
  <2> QED BY <1>1, <2>2, <2>5
<1>4. ASSUME NEW v \in 0..255 PROVE Moved(i, SetState(i, n, v), n) /\ KidsIdle(SetState(i, n, v), n)
  <2>1. LET f == SetState(i, n, v) IN
        /\ Moved(i, f, n) /\ f.node[n].state = v /\ f.node[n].data = i.node[n].data
        /\ \A k \in DOMAIN Kids(n) : Busy(f, Kids(n)[k]) <=> Busy(i, Kids(n)[k])
    BY <1>2, MovedState
  <2> QED BY <2>1 DEF KidsIdle
<1>5. ASSUME NEW v \in Nat,
             Fn(n) \in {"cond", "state_machine", "field_dispatch"} => v \in 0..Len(Kids(n))
      PROVE  Moved(i, SetData(i, n, v), n) /\ KidsIdle(SetData(i, n, v), n)
  <2>1. LET f == SetData(i, n, v) IN
        /\ Moved(i, f, n) /\ f.node[n].data = v /\ f.node[n].state = i.node[n].state
        /\ \A k \in DOMAIN Kids(n) : Busy(f, Kids(n)[k]) <=> Busy(i, Kids(n)[k])
    BY <1>2, <1>5, MovedData
  <2> QED BY <2>1 DEF KidsIdle
<1>6. CASE Fn(n) = "trigger_on_change"
  <2>1. j = SetState(i, n, Arg(n))
    BY <1>1, <1>6 DEF OnInit
  <2>2. Arg(n) \in 0..255
    BY <1>6, NodeArg
  <2> QED BY <1>1, <1>4, <2>1, <2>2
<1>7. CASE Fn(n) = "tick_delay"
  <2>1. j = SetData(i, n, Arg(n) + 1)
    BY <1>1, <1>7 DEF OnInit
  <2>2. Arg(n) + 1 \in Nat
    BY <1>7, NodeArg
  <2> QED BY <1>1, <1>5, <1>7, <2>1, <2>2
<1>8. CASE Fn(n) = "wait_event"
  <2>1. j = SetData(i, n, Arg(n).count)
    BY <1>1, <1>8 DEF OnInit
  <2>2. Arg(n).count \in Nat
    BY <1>8, NodeArg
  <2> QED BY <1>1, <1>5, <1>8, <2>1, <2>2
<1>9. CASE Fn(n) \in {"sequence", "sequence_once", "while"}
  <2>1. j = SetState(i, n, 0)
    BY <1>1, <1>9 DEF OnInit
  <2>2. 0 \in 0..255
    OBVIOUS
  <2> QED BY <1>1, <1>4, <2>1, <2>2
<1>10. CASE Fn(n) \in {"cond", "state_machine", "field_dispatch", "verify_events"}
  <2>1. j = SetData(i, n, 0)
    BY <1>1, <1>10 DEF OnInit
  <2>2. 0 \in 0..Len(Kids(n))
    BY KidsCounts
  <2> QED BY <1>1, <1>5, <2>1, <2>2
<1>11. CASE Fn(n) \notin {"fork", "function_interface", "trigger_on_change", "tick_delay", "wait_event",
                          "sequence", "sequence_once", "while", "cond", "state_machine",
                          "field_dispatch", "verify_events"}
  <2>1. j = i
    BY <1>1, <1>11 DEF OnInit
  <2> QED BY <1>1, <1>2, <2>1
<1> QED BY <1>3, <1>6, <1>7, <1>8, <1>9, <1>10, <1>11

\* An active node is ready to be ticked once it has been called.
LEMMA StartedReady ==
  ASSUME WellFormed(tree), NEW n \in Nodes, IsMain(n), NEW i, Sane(i), Sound(i, n), i.node[n].active
  PROVE  LET j == Started(i, n) IN Ready(j, n) /\ Same(i, j, Below(n))
<1>1. PICK j : j = Started(i, n)
  OBVIOUS
<1>2. CASE i.node[n].init
  <2>1. j = i
    BY <1>1, <1>2 DEF Started
  <2> QED BY <1>1, <1>2, <2>1 DEF Ready, Same
<1>3. CASE ~i.node[n].init
  <2>1. PICK g : g = [i EXCEPT !.node[n].init = TRUE]
    OBVIOUS
  <2>2. j = OnInit(g, n)
    BY <1>1, <1>3, <2>1 DEF Started
  <2>3. Local(i, n) /\ KidsSound(i, n)
    BY SoundCases
  <2>4. KidsIdle(i, n) /\ (Tidy(tree) => n \notin i.live)
    <3>1. ~Busy(i, n)
      BY <1>3, <2>3 DEF Local
    <3> QED BY <3>1, BusyCases DEF KidsIdle
  <2>5. /\ Sane(g) /\ g.live = i.live
        /\ g.node[n] = [i.node[n] EXCEPT !.init = TRUE]
        /\ \A m \in Nodes : m # n => g.node[m] = i.node[m]
    <3>1. LET f == [i EXCEPT !.node[n].init = TRUE] IN
          /\ Sane(f) /\ f.live = i.live
          /\ f.node[n] = [i.node[n] EXCEPT !.init = TRUE]
          /\ \A m \in Nodes : m # n => f.node[m] = i.node[m]
      BY InitSet
    <3> QED BY <2>1, <3>1
  <2>6. g.node[n].active /\ g.node[n].init /\ g.node[n].data = i.node[n].data
    <3>1. i.node[n] \in NodeState
      BY DEF Sane, Insts
    <3>2. PICK s : s = i.node[n]
      OBVIOUS
    <3>3. s.active /\ s \in NodeState
      BY <3>1, <3>2
    <3>4. [s EXCEPT !.init = TRUE].active /\ [s EXCEPT !.init = TRUE].init
          /\ [s EXCEPT !.init = TRUE].data = s.data
      BY <3>3 DEF NodeState
    <3> QED BY <2>5, <3>2, <3>4
  <2>7. KidsSound(g, n) /\ Same(i, g, Below(n)) /\ KidsIdle(g, n)
    <3>1. Same(i, g, {n})
      BY <2>5 DEF Same
    <3>2. /\ KidsSound(g, n) /\ Same(i, g, Below(n))
          /\ \A k \in DOMAIN Kids(n) : Busy(g, Kids(n)[k]) <=> Busy(i, Kids(n)[k])
      BY <2>3, <3>1, OwnStep
    <3> QED BY <2>4, <3>2 DEF KidsIdle
  <2>8. Pointed(g, n)
    BY <2>3, <2>6 DEF Local, Pointed
  <2>9. CASE Fn(n) # "user"
    <3>1. Moved(g, j, n) /\ KidsIdle(j, n)
      BY <2>2, <2>5, <2>7, <2>8, <2>9, OnInitMoved
    <3>2. j.node[n].active /\ j.node[n].init /\ Sane(j) /\ KidsSound(j, n) /\ Pointed(j, n)
      BY <2>6, <3>1 DEF Moved
    <3>3. Local(j, n)
      BY <2>9, <3>1, <3>2, IdleNarrow DEF Local
    <3>4. Sound(j, n)
      BY <3>2, <3>3, SoundCases
    <3>5. Same(i, j, Below(n))
      BY <2>7, <3>1, SameTransitive DEF Moved
    <3> QED BY <1>1, <3>2, <3>4, <3>5 DEF Ready
  <2>10. CASE Fn(n) = "user"
    <3>1. j = Log(g, n, "INIT")
      BY <2>2, <2>10 DEF OnInit
    <3>2. n \in UserNodes
      BY <2>10 DEF UserNodes, Nodes
    <3>3. PICK what : what = "INIT"
      OBVIOUS
    <3>4. what \in STRING
      BY <3>3, NamesFacts DEF Names
    <3>5. Tidy(tree) => n \notin g.live
      BY <2>4, <2>5
    <3>6. /\ Sane(j) /\ j.node = g.node /\ n \in j.live
          /\ \A m \in Nodes : m # n => (m \in j.live <=> m \in g.live)
      <4>1. LET f == Log(g, n, what) IN
            /\ Sane(f) /\ f.node = g.node
            /\ \A m \in Nodes : m # n => (m \in f.live <=> m \in g.live)
            /\ what = "INIT" => n \in f.live
            /\ what = "TERMINATE" => n \notin f.live
            /\ what \notin {"INIT", "TERMINATE"} => f.live = g.live
        BY <2>5, <3>2, <3>3, <3>4, <3>5, LogUser
      <4> QED BY <3>1, <3>3, <4>1
    <3>7. DOMAIN Kids(n) = {}
      BY <2>10, NodeShape
    <3>8. Local(j, n)
      BY <2>6, <2>10, <3>6, <3>7 DEF Local, Pointed, Narrow
    <3>9. Sound(j, n)
      BY <3>7, <3>8, SoundCases DEF KidsSound
    <3>10. Same(i, j, Below(n))
      <4>1. Same(g, j, Below(n))
        BY <3>6, BelowSelf DEF Same
      <4> QED BY <2>7, <4>1, SameTransitive
    <3> QED BY <1>1, <2>6, <3>6, <3>9, <3>10 DEF Ready
  <2> QED BY <2>9, <2>10
<1> QED BY <1>2, <1>3

\* After a tick, with the TERMINATE if the node has disabled itself.
LEMMA TickedWell ==
  ASSUME WellFormed(tree), NEW n \in Nodes, NEW i, NEW x, Ran(i, x, n)
  PROVE  LET y == Ticked(x, n) IN
         /\ y.res \in STRING /\ Sane(y.inst) /\ Sound(y.inst, n)
         /\ Same(i, y.inst, Below(n))
<1>1. PICK y : y = Ticked(x, n)
  OBVIOUS
<1>2. Ready(x.inst, n) /\ x.res \in STRING /\ Same(i, x.inst, Below(n))
  BY DEF Ran
<1>3. CASE x.res # "PIPELINE_DISABLE"
  <2>1. y = x
    BY <1>1, <1>3 DEF Ticked
  <2> QED BY <1>1, <1>2, <2>1 DEF Ready
<1>4. CASE x.res = "PIPELINE_DISABLE"
  <2>1. PICK g, h, j : g = x.inst /\ h = OnTerminate(g, n, Ends(n)) /\ j = [h EXCEPT !.node[n].active = FALSE]
    OBVIOUS
  <2>2. y = Ret(j, x.res)
    BY <1>1, <1>4, <2>1 DEF Ticked
  <2>3. y.inst = j /\ y.res = x.res
    BY <2>2 DEF Ret
  <2>4. Over(g, h, n)
    <3>1. Sane(g) /\ KidsSound(g, n) /\ Narrow(g, n) /\ Pointed(g, n) /\ IsMain(n)
      BY <1>2, <2>1, ReadyFacts
    <3> QED BY <2>1, <3>1, EndsAll, OnTerminateKeeps
  <2>5. Sane(h) /\ KidsSound(h, n) /\ KidsIdle(h, n) /\ Pointed(h, n) /\ Same(g, h, Below(n))
    BY <2>4 DEF Over
  <2>6. /\ Sane(j) /\ j.live = h.live
        /\ j.node[n] = [h.node[n] EXCEPT !.active = FALSE]
        /\ \A m \in Nodes : m # n => j.node[m] = h.node[m]
    <3>1. LET f == [h EXCEPT !.node[n].active = FALSE] IN
          /\ Sane(f) /\ f.live = h.live
          /\ f.node[n] = [h.node[n] EXCEPT !.active = FALSE]
          /\ \A m \in Nodes : m # n => f.node[m] = h.node[m]
      BY <2>5, ActiveUnset
    <3> QED BY <2>1, <3>1
  <2>7. ~j.node[n].active /\ j.node[n].data = h.node[n].data
    <3>1. h.node[n] \in NodeState
      BY <2>5 DEF Sane, Insts
    <3>2. PICK s : s = h.node[n]
      OBVIOUS
    <3>3. ~[s EXCEPT !.active = FALSE].active /\ [s EXCEPT !.active = FALSE].data = s.data
      BY <3>1, <3>2 DEF NodeState
    <3> QED BY <2>6, <3>2, <3>3
  <2>8. KidsSound(j, n) /\ Same(h, j, Below(n)) /\ KidsIdle(j, n)
    <3>1. Same(h, j, {n})
      BY <2>6 DEF Same
    <3>2. /\ KidsSound(j, n) /\ Same(h, j, Below(n))
          /\ \A k \in DOMAIN Kids(n) : Busy(j, Kids(n)[k]) <=> Busy(h, Kids(n)[k])
      BY <2>5, <3>1, OwnStep
    <3> QED BY <2>5, <3>2 DEF KidsIdle
  <2>9. Local(j, n)
    <3>1. Tidy(tree) => n \notin j.live
      BY <2>4, <2>6 DEF Over
    <3>2. ~Busy(j, n)
      BY <2>8, <3>1, BusyCases DEF KidsIdle
    <3>3. Pointed(j, n)
      BY <2>5, <2>7 DEF Pointed
    <3> QED BY <2>7, <2>8, <3>2, <3>3, IdleNarrow DEF Local
  <2>10. Sound(j, n)
    BY <2>8, <2>9, SoundCases
  <2>11. Same(i, j, Below(n))
    <3>1. Same(i, h, Below(n))
      BY <1>2, <2>1, <2>5, SameTransitive
    <3> QED BY <2>8, <3>1, SameTransitive
  <2> QED BY <1>1, <1>2, <2>3, <2>6, <2>10, <2>11
<1> QED BY <1>3, <1>4

\* What is called of a node keeps its part of the tree sound, given that what is
\* called of its children does.
LEMMA CalledWell ==
  ASSUME WellFormed(tree), NEW n \in Nodes, NEW i, Sane(i), Sound(i, n), NEW in, InputOK(in),
         NEW call, \A k \in DOMAIN Kids(n) : CallsWell(call[k], Kids(n)[k])
  PROVE  LET y == Called(i, n, call, in) IN
         /\ y.res \in STRING /\ Sane(y.inst) /\ Sound(y.inst, n)
         /\ Same(i, y.inst, Below(n))
<1>1. PICK y : y = Called(i, n, call, in)
  OBVIOUS
<1>2. {"PIPELINE_CONTINUE", "PIPELINE_HALT"} \subseteq STRING
  BY NamesFacts DEF Names, Pipeline
<1>3. ASSUME NEW r \in STRING, y = Ret(i, r)
      PROVE  y.res \in STRING /\ Sane(y.inst) /\ Sound(y.inst, n) /\ Same(i, y.inst, Below(n))
  BY <1>3 DEF Ret, Same
<1>4. CASE IsMain(n)
  <2>1. y = Main(i, n, call, in)
    BY <1>1, <1>4 DEF Called, IsMain
  <2>2. CASE ~i.node[n].active
    <3>1. y = Ret(i, "PIPELINE_CONTINUE")
      BY <2>1, <2>2 DEF Main
    <3> QED BY <1>1, <1>2, <1>3, <3>1
  <2>3. CASE i.node[n].active
    <3>1. PICK g, x : g = Started(i, n) /\ x = OnTick(g, n, call, in)
      OBVIOUS
    <3>2. y = Ticked(x, n)
      BY <2>1, <2>3, <3>1 DEF Main
    <3>3. Ready(g, n) /\ Same(i, g, Below(n))
      BY <1>4, <2>3, <3>1, StartedReady
    <3>4. Ran(g, x, n)
      BY <3>1, <3>3, OnTickRan
    <3>5. Ran(i, x, n)
      BY <3>3, <3>4, SameTransitive DEF Ran
    <3> QED BY <1>1, <3>2, <3>5, TickedWell
  <2> QED BY <2>2, <2>3
<1>5. CASE tree.nodes[n].type \in {"oneshot", "io"}
  <2>1. PICK j : j = Oneshot(i, n, in)
    OBVIOUS
  <2>2. y = Ret(j, "PIPELINE_CONTINUE")
    BY <1>1, <1>5, <2>1 DEF Called
  <2>3. ~IsMain(n)
    BY <1>5 DEF IsMain
  <2>4. Sane(j) /\ Sound(j, n) /\ Same(i, j, Below(n))
    BY <2>1, <2>3, OneshotWell
  <2> QED BY <1>1, <1>2, <2>2, <2>4 DEF Ret
<1>6. CASE tree.nodes[n].type = "pred"
  <2>1. y = Ret(i, IF Holds(i, n, in) THEN "PIPELINE_CONTINUE" ELSE "PIPELINE_HALT")
    BY <1>1, <1>6 DEF Called
  <2> QED BY <1>1, <1>2, <1>3, <2>1
<1>7. tree.nodes[n].type \in {"main", "pred", "oneshot", "io"}
  BY NodeShape
<1> QED BY <1>4, <1>5, <1>6, <1>7 DEF IsMain

\* By induction over the tree, a call of any node keeps the contract.
LEMMA InvokeWell ==
  ASSUME WellFormed(tree), NEW n \in Nodes, NEW in, InputOK(in)
  PROVE  CallsWell(Invoke(in)[n], n)
<1> DEFINE G == {m \in Nodes : CallsWell(Invoke(in)[m], m)}
<1>1. ASSUME NEW m \in Nodes, \A k \in DOMAIN Kids(m) : Kids(m)[k] \in G
      PROVE  m \in G
  <2>1. \A k \in DOMAIN Kids(m) : CallsWell(Calls(in, m)[k], Kids(m)[k])
    BY <1>1 DEF Calls
  <2>2. ASSUME NEW i \in Insts, Sane(i), Sound(i, m)
        PROVE  /\ Invoke(in)[m][i].res \in STRING
               /\ Sane(Invoke(in)[m][i].inst) /\ Sound(Invoke(in)[m][i].inst, m)
               /\ Same(i, Invoke(in)[m][i].inst, Below(m))
    <3>1. Invoke(in)[m][i] = Called(i, m, Calls(in, m), in)
      BY InvokeDef
    <3>2. LET y == Called(i, m, Calls(in, m), in) IN
          /\ y.res \in STRING /\ Sane(y.inst) /\ Sound(y.inst, m)
          /\ Same(i, y.inst, Below(m))
      BY <2>1, <2>2, CalledWell
    <3> QED BY <3>1, <3>2
  <2>3. CallsWell(Invoke(in)[m], m)
    BY <2>2 DEF CallsWell
  <2> QED BY <2>3
<1> HIDE DEF G
<1>2. n \in G
  BY <1>1, TreeInduction
<1> QED BY <1>2 DEF G

-----------------------------------------------------------------------------
(* The instance between the ticks.                                         *)

\* The ring is within its size, an event is taken out of it only when it holds
\* one, and what the user functions hold can be reached by a TERMINATE.
Held(i) ==
  /\ i \in Insts /\ Len(i.queue) <= QueueSize /\ i.live \subseteq UserNodes
  /\ i.draining /\ ~i.dead => i.queue # <<>>
  /\ Sound(i, 1)

IInv == tree \in {Trees[k] : k \in DOMAIN Trees} /\ Held(inst)

\* What the life cycle says of a log, as seen from the last step.
Logged(log) ==
  \A k \in DOMAIN log :
    LET n == log[k][1]
        what == log[k][2]
        alive == Alive(log, k, n, inst.live)
    IN Fn(n) = "user" =>
         (what = "INIT" => ~alive) /\ (what \in UserResults => alive)

LEMMA Formed ==
  ASSUME tree \in {Trees[k] : k \in DOMAIN Trees}
  PROVE  WellFormed(tree)
BY TreesAssumption

\* The nodes and who is alive are all that soundness looks at.
LEMMA SoundLike ==
  ASSUME WellFormed(tree), NEW i, Sound(i, 1), NEW j, j.node = i.node, j.live = i.live
  PROVE  Sound(j, 1)
<1>1. Same(i, j, {})
  BY DEF Same
<1>2. 1 \in Nodes
  BY BelowRoot
<1> QED BY <1>1, <1>2, SameSound

LEMMA EmptyLog == Logged(<<>>)
<1>1. DOMAIN <<>> = {}
  OBVIOUS
<1> QED BY <1>1 DEF Logged

\* Before a tick the log is cleared.
LEMMA Rested ==
  ASSUME WellFormed(tree), NEW i \in Insts, Len(i.queue) <= QueueSize, i.live \subseteq UserNodes,
         Sound(i, 1), i.live = inst.live
  PROVE  LET j == [i EXCEPT !.log = <<>>] IN Sane(j) /\ Sound(j, 1)
<1>1. PICK j : j = [i EXCEPT !.log = <<>>]
  OBVIOUS
<1>2. j \in Insts /\ j.queue = i.queue /\ j.node = i.node /\ j.live = i.live /\ j.log = <<>>
  <2>1. <<>> \in Seq(Nodes \X STRING)
    OBVIOUS
  <2> QED BY <1>1, <2>1 DEF Insts
<1>3. Told(j)
  <2>1. Len(j.log) = 0 /\ DOMAIN j.log = {}
    BY <1>2
  <2>2. \A n : Alive(j.log, 1, n, inst.live) <=> n \in inst.live
    <3>1. 1..(1 - 1) = {}
      OBVIOUS
    <3> QED BY <3>1 DEF Alive
  <2>3. 0 + 1 = 1
    OBVIOUS
  <2>4. \A n \in UserNodes : n \in j.live <=> Alive(j.log, Len(j.log) + 1, n, inst.live)
    BY <1>2, <2>1, <2>2, <2>3
  <2> QED BY <2>1, <2>4 DEF Told
<1>4. Sound(j, 1)
  BY <1>2, SoundLike
<1> QED BY <1>1, <1>2, <1>3, <1>4 DEF Sane

\* A new instance, at boot and after the watchdog.
LEMMA CreateHeld ==
  ASSUME WellFormed(tree), NEW b \in BOOLEAN
  PROVE  LET j == [Create(tree) EXCEPT !.pass = b] IN Held(j) /\ j.log = <<>>
<1>1. PICK c, j : c = Create(tree) /\ j = [c EXCEPT !.pass = b]
  OBVIOUS
<1>2. PICK s : s = [Cleared EXCEPT !.active = TRUE]
  OBVIOUS
<1>3. s \in NodeState /\ ~s.init /\ s.data = 0
  <2>1. s = [active |-> TRUE, init |-> FALSE, ever |-> FALSE, state |-> 0, data |-> 0]
    BY <1>2 DEF Cleared
  <2>2. 0 \in 0..255 /\ 0 \in Nat
    OBVIOUS
  <2> QED BY <2>1, <2>2 DEF NodeState
<1>4. c = [node |-> [n \in Nodes |-> s],
           field |-> tree.field, queue |-> <<>>, draining |-> FALSE, res |-> "PIPELINE_CONTINUE",
           log |-> <<>>, live |-> {}, dead |-> FALSE, pass |-> FALSE]
  BY <1>1, <1>2 DEF Create, Nodes
<1>5. /\ j.node = [n \in Nodes |-> s] /\ j.live = {} /\ j.queue = <<>> /\ ~j.draining
      /\ j.log = <<>>
  BY <1>1, <1>4
<1>6. j \in Insts
  <2>1. tree.field \in STRING /\ "PIPELINE_CONTINUE" \in STRING
    BY NamesFacts DEF WellFormed, Pipeline
  <2>2. [n \in Nodes |-> s] \in [Nodes -> NodeState]
    BY <1>3
  <2>3. <<>> \in Seq(Nodes \X STRING) /\ <<>> \in Seq(Words)
    OBVIOUS
  <2>4. PICK f, v, p : f = [n \in Nodes |-> s] /\ v = tree.field /\ p = "PIPELINE_CONTINUE"
    OBVIOUS
  <2>5. j = [node |-> f, field |-> v, queue |-> <<>>, draining |-> FALSE, res |-> p,
             log |-> <<>>, live |-> {}, dead |-> FALSE, pass |-> b]
    <3>1. c = [node |-> f, field |-> v, queue |-> <<>>, draining |-> FALSE, res |-> p,
               log |-> <<>>, live |-> {}, dead |-> FALSE, pass |-> FALSE]
      BY <1>4, <2>4, Zenon
    <3>2. j = [c EXCEPT !.pass = b]
      BY <1>1
    <3> QED BY <3>1, <3>2
  <2>6. f \in [Nodes -> NodeState] /\ v \in STRING /\ p \in STRING
    BY <2>1, <2>2, <2>4
  <2> QED BY <2>3, <2>5, <2>6 DEF Insts
<1>7. Sound(j, 1)
  <2>1. SUFFICES ASSUME NEW m \in Below(1) PROVE Local(j, m)
    BY DEF Sound
  <2>2. m \in Nodes
    BY BelowRoot
  <2>3. j.node[m] = s
    BY <1>5, <2>2
  <2>4. \A n : ~Busy(j, n)
    BY <1>5 DEF Busy
  <2>5. Pointed(j, m)
    BY <1>3, <2>2, <2>3, ZeroPoints
  <2> QED BY <1>3, <2>3, <2>4, <2>5 DEF Local, Narrow
<1>8. Len(j.queue) <= QueueSize
  <2>1. Len(j.queue) = 0
    BY <1>5
  <2> QED BY <2>1, QueueAssumption
<1> QED BY <1>1, <1>5, <1>6, <1>7, <1>8 DEF Held

\* One tick, and what comes of it.
LEMMA RunHeld ==
  ASSUME WellFormed(tree), NEW i \in Insts, Len(i.queue) <= QueueSize, i.live \subseteq UserNodes,
         Sound(i, 1), i.live = inst.live, NEW event \in Words, NEW in \in World(event),
         NEW o, o = Outcome(i, NodeTick([i EXCEPT !.log = <<>>], in))
  PROVE  Held(o) /\ (Tidy(tree) => Logged(o.log))
<1>1. PICK r, x : r = [i EXCEPT !.log = <<>>] /\ x = NodeTick(r, in)
  OBVIOUS
<1>2. Sane(r) /\ Sound(r, 1)
  BY <1>1, Rested
<1>3. InputOK(in)
  BY DEF World, InputOK
<1>4. 1 \in Nodes
  BY BelowRoot
<1>5. x.res \in STRING /\ Sane(x.inst) /\ Sound(x.inst, 1)
  <2>1. CASE r.node[1].active
    <3>1. x = Invoke(in)[1][r]
      BY <1>1, <2>1 DEF NodeTick
    <3>2. CallsWell(Invoke(in)[1], 1)
      BY <1>3, <1>4, InvokeWell
    <3>3. r \in Insts
      BY <1>2 DEF Sane
    <3> QED BY <1>2, <3>1, <3>2, <3>3 DEF CallsWell
  <2>2. CASE ~r.node[1].active
    <3>1. x = Ret(r, "FUNCTION_TERMINATE")
      BY <1>1, <2>2 DEF NodeTick
    <3>2. "FUNCTION_TERMINATE" \in STRING
      BY NamesFacts DEF Names
    <3> QED BY <1>2, <3>1, <3>2 DEF Ret
  <2> QED BY <2>1, <2>2
<1>6. i.pass \in BOOLEAN /\ <<>> \in Seq(Nodes \X STRING)
  BY DEF Insts
<1>7. CASE x.inst.dead
  <2>1. o = [i EXCEPT !.dead = TRUE, !.log = <<>>, !.pass = ~@]
    BY <1>1, <1>7 DEF Outcome
  <2>2. o \in Insts /\ o.node = i.node /\ o.live = i.live /\ o.queue = i.queue /\ o.dead /\ o.log = <<>>
    BY <1>6, <2>1 DEF Insts
  <2>3. Sound(o, 1)
    BY <2>2, SoundLike
  <2> QED BY <2>2, <2>3, EmptyLog DEF Held
<1>8. CASE ~x.inst.dead
  <2>1. PICK j, d : j = x.inst /\ d = (x.inst.queue # <<>>)
    OBVIOUS
  <2>2. d \in BOOLEAN
    BY <2>1
  <2>3. o = [j EXCEPT !.res = x.res, !.draining = d, !.pass = ~@]
    BY <1>1, <1>8, <2>1 DEF Outcome
  <2>4. /\ j \in Insts /\ Len(j.queue) <= QueueSize /\ j.live \subseteq UserNodes
        /\ Sound(j, 1) /\ (Tidy(tree) => Told(j)) /\ x.res \in STRING
    BY <1>5, <2>1 DEF Sane
  <2>5. j.pass \in BOOLEAN
    BY <2>4 DEF Insts
  <2>6. /\ o \in Insts /\ o.node = j.node /\ o.live = j.live /\ o.queue = j.queue
        /\ o.log = j.log /\ o.draining = d
    BY <2>2, <2>3, <2>4, <2>5 DEF Insts
  <2>7. Sound(o, 1)
    BY <2>4, <2>6, SoundLike
  <2>8. o.draining => o.queue # <<>>
    BY <2>1, <2>6
  <2>9. Tidy(tree) => Logged(o.log)
    BY <2>4, <2>6 DEF Told, Logged
  <2> QED BY <2>4, <2>6, <2>7, <2>8, <2>9 DEF Held
<1> QED BY <1>7, <1>8

\* The tree is in ROM: what is said of it stays true.
LEMMA TreeKept ==
  ASSUME tree' = tree
  PROVE  Held(inst)' <=> Held(inst')
<1>1. Nodes' = Nodes /\ Insts' = Insts /\ UserNodes' = UserNodes
  BY DEF Nodes, Insts, UserNodes, Fn
<1>2. \A n : Fn(n)' = Fn(n) /\ Kids(n)' = Kids(n) /\ IsMain(n)' = IsMain(n) /\ Below(n)' = Below(n)
  BY DEF Fn, Kids, IsMain, Below
<1>3. \A n : Busy(inst, n)' <=> Busy(inst', n)
  BY <1>2 DEF Busy
<1>4. \A n : Narrow(inst, n)' <=> Narrow(inst', n)
  BY <1>2, <1>3 DEF Narrow, Reached
<1>5. \A n : Pointed(inst, n)' <=> Pointed(inst', n)
  BY <1>2 DEF Pointed
<1>6. \A n : Local(inst, n)' <=> Local(inst', n)
  BY <1>2, <1>3, <1>4, <1>5 DEF Local
<1>7. Sound(inst, 1)' <=> Sound(inst', 1)
  BY <1>2, <1>6 DEF Sound
<1> QED BY <1>1, <1>7 DEF Held

\* An event is queued, or the ring was full and the processor stops.
LEMMA ArriveHeld ==
  ASSUME WellFormed(tree), Held(inst), Arrive
  PROVE  Held(inst') /\ inst'.log = <<>>
<1>1. PICK event \in tree.events : inst' = [Push(inst, event) EXCEPT !.log = <<>>]
  BY DEF Arrive
<1>2. event \in Words /\ <<>> \in Seq(Nodes \X STRING)
  BY DEF WellFormed
<1>3. /\ inst \in Insts /\ Len(inst.queue) <= QueueSize /\ inst.live \subseteq UserNodes
      /\ Sound(inst, 1) /\ ~inst.draining
  BY DEF Held, Arrive
<1>4. CASE Len(inst.queue) >= QueueSize
  <2>1. inst' = [[inst EXCEPT !.dead = TRUE] EXCEPT !.log = <<>>]
    BY <1>1, <1>4 DEF Push, Exception
  <2>2. /\ inst' \in Insts /\ inst'.node = inst.node /\ inst'.live = inst.live
        /\ inst'.queue = inst.queue /\ inst'.draining = inst.draining /\ inst'.log = <<>>
    BY <1>2, <1>3, <2>1 DEF Insts
  <2>3. Sound(inst', 1)
    BY <1>3, <2>2, SoundLike
  <2> QED BY <1>3, <2>2, <2>3 DEF Held
<1>5. CASE ~(Len(inst.queue) >= QueueSize)
  <2>1. PICK q, p : q = inst.queue /\ p = Append(q, event)
    OBVIOUS
  <2>2. inst' = [[inst EXCEPT !.queue = p] EXCEPT !.log = <<>>]
    BY <1>1, <1>5, <2>1 DEF Push
  <2>3. q \in Seq(Words)
    BY <1>3, <2>1 DEF Insts
  <2>4. p \in Seq(Words) /\ Len(p) <= QueueSize
    <3>1. p \in Seq(Words) /\ Len(p) = Len(q) + 1 /\ Len(q) \in Nat
      BY <1>2, <2>1, <2>3, AppendFacts
    <3>2. PICK l : l = Len(q)
      OBVIOUS
    <3>3. l \in Nat /\ ~(l >= QueueSize)
      BY <1>5, <2>1, <3>1, <3>2
    <3>4. l + 1 <= QueueSize
      BY <3>3, QueueAssumption
    <3> QED BY <3>1, <3>2, <3>4
  <2>5. /\ inst' \in Insts /\ inst'.node = inst.node /\ inst'.live = inst.live
        /\ inst'.queue = p /\ inst'.draining = inst.draining /\ inst'.log = <<>>
    BY <1>2, <1>3, <2>2, <2>4 DEF Insts
  <2>6. Sound(inst', 1)
    BY <1>3, <2>5, SoundLike
  <2> QED BY <1>3, <2>4, <2>5, <2>6 DEF Held
<1> QED BY <1>4, <1>5

\* tick_and_drain: there is an event to take, and its tick.
LEMMA DispatchHeld ==
  ASSUME WellFormed(tree), Held(inst), Dispatch
  PROVE  Held(inst') /\ (Tidy(tree) => Logged(inst'.log))
<1>1. PICK q, i, event : q = inst.queue /\ i = [inst EXCEPT !.queue = Tail(q)] /\ event = Head(q)
  OBVIOUS
<1>2. /\ inst \in Insts /\ Len(q) <= QueueSize /\ inst.live \subseteq UserNodes
      /\ Sound(inst, 1) /\ q # <<>> /\ q \in Seq(Words)
  BY <1>1 DEF Held, Dispatch, Insts
<1>3. event \in Words /\ Tail(q) \in Seq(Words) /\ Len(Tail(q)) <= QueueSize
  <2>1. event \in Words /\ Tail(q) \in Seq(Words) /\ Len(Tail(q)) = Len(q) - 1 /\ Len(q) \in Nat
    BY <1>1, <1>2
  <2>2. PICK l : l = Len(q)
    OBVIOUS
  <2>3. l - 1 <= QueueSize
    BY <1>2, <2>1, <2>2, QueueAssumption
  <2> QED BY <2>1, <2>2, <2>3
<1>4. PICK p : p = Tail(q)
  OBVIOUS
<1>5. i \in Insts /\ i.node = inst.node /\ i.live = inst.live /\ i.queue = p
  BY <1>1, <1>2, <1>3, <1>4 DEF Insts
<1>6. Sound(i, 1)
  BY <1>2, <1>5, SoundLike
<1>7. PICK in \in World(event) : inst' = Outcome(i, NodeTick([i EXCEPT !.log = <<>>], in))
  BY <1>1 DEF Dispatch, Run
<1> QED BY <1>2, <1>3, <1>4, <1>5, <1>6, <1>7, RunHeld

\* tick_and_drain: the tick itself.
LEMMA TickHeld ==
  ASSUME WellFormed(tree), Held(inst), Tick
  PROVE  Held(inst') /\ (Tidy(tree) => Logged(inst'.log))
<1>1. PICK event : event = "TICK"
  OBVIOUS
<1>2. event \in Words
  <2>1. event # "INIT" /\ event # "TERMINATE"
    BY <1>1
  <2> QED BY <1>1, <2>1, NamesFacts DEF Names, Words
<1>3. PICK in \in World(event) : inst' = Outcome(inst, NodeTick([inst EXCEPT !.log = <<>>], in))
  BY <1>1 DEF Tick, Run
<1>4. /\ inst \in Insts /\ Len(inst.queue) <= QueueSize /\ inst.live \subseteq UserNodes
      /\ Sound(inst, 1)
  BY DEF Held
<1> QED BY <1>2, <1>3, <1>4, RunHeld

LEMMA NextHeld ==
  ASSUME WellFormed(tree), Held(inst), Next
  PROVE  tree' = tree /\ Held(inst') /\ (Tidy(tree) => Logged(inst'.log))
<1>1. CASE Arrive
  <2>1. Held(inst') /\ inst'.log = <<>>
    BY <1>1, ArriveHeld
  <2>2. tree' = tree
    BY <1>1 DEF Arrive
  <2> QED BY <2>1, <2>2, EmptyLog
<1>2. CASE Tick
  BY <1>2, TickHeld DEF Tick
<1>3. CASE Dispatch
  BY <1>3, DispatchHeld DEF Dispatch
<1>4. CASE Reset
  <2>1. inst.pass \in BOOLEAN
    BY DEF Held, Insts
  <2>2. PICK b : b = ~inst.pass
    OBVIOUS
  <2>3. inst' = [Create(tree) EXCEPT !.pass = b] /\ tree' = tree
    BY <1>4, <2>2 DEF Reset
  <2>4. Held(inst') /\ inst'.log = <<>>
    BY <2>2, <2>3, CreateHeld
  <2> QED BY <2>3, <2>4, EmptyLog
<1> QED BY <1>1, <1>2, <1>3, <1>4 DEF Next

LEMMA IInvInit ==
  ASSUME Init
  PROVE  IInv
<1>1. PICK k \in DOMAIN Trees : tree = Trees[k] /\ inst = Create(Trees[k])
  BY DEF Init
<1>2. WellFormed(tree)
  BY <1>1, TreesAssumption
<1>3. inst = [Create(tree) EXCEPT !.pass = FALSE]
  <2>0. PICK s : s = [Cleared EXCEPT !.active = TRUE]
    OBVIOUS
  <2>1. PICK f, v, p :
          f = [n \in DOMAIN tree.nodes |-> s] /\ v = tree.field /\ p = "PIPELINE_CONTINUE"
    OBVIOUS
  <2>2. PICK c : c = Create(tree)
    OBVIOUS
  <2>3. c = [node |-> f, field |-> v, queue |-> <<>>, draining |-> FALSE, res |-> p,
             log |-> <<>>, live |-> {}, dead |-> FALSE, pass |-> FALSE]
    <3>1. c = [node |-> [n \in DOMAIN tree.nodes |-> s],
               field |-> tree.field, queue |-> <<>>, draining |-> FALSE, res |-> "PIPELINE_CONTINUE",
               log |-> <<>>, live |-> {}, dead |-> FALSE, pass |-> FALSE]
      BY <2>0, <2>2 DEF Create
    <3> QED BY <2>1, <3>1, Zenon
  <2>4. [c EXCEPT !.pass = FALSE] = c
    <3>1. PICK b, j : b = FALSE /\ j = [c EXCEPT !.pass = b]
      OBVIOUS
    <3>2. c = [node |-> f, field |-> v, queue |-> <<>>, draining |-> FALSE, res |-> p,
               log |-> <<>>, live |-> {}, dead |-> FALSE, pass |-> FALSE]
      BY <2>3
    <3>3. j = [node |-> f, field |-> v, queue |-> <<>>, draining |-> FALSE, res |-> p,
               log |-> <<>>, live |-> {}, dead |-> FALSE, pass |-> b]
      BY <3>1, <3>2
    <3> QED BY <3>1, <3>2, <3>3, Zenon
  <2> QED BY <1>1, <2>2, <2>3, <2>4
<1>4. Held(inst)
  BY <1>2, <1>3, CreateHeld
<1> QED BY <1>1, <1>4 DEF IInv

LEMMA IInvStep ==
  ASSUME IInv, [Next]_vars
  PROVE  IInv'
<1>1. CASE Next
  <2>1. WellFormed(tree) /\ Held(inst)
    BY Formed DEF IInv
  <2>2. tree' = tree /\ Held(inst')
    BY <1>1, <2>1, NextHeld
  <2>3. Held(inst)'
    BY <2>2, TreeKept
  <2> QED BY <2>2, <2>3 DEF IInv
<1>2. CASE UNCHANGED vars
  <2>1. tree' = tree /\ inst' = inst
    BY <1>2 DEF vars
  <2>2. Held(inst')
    BY <2>1 DEF IInv
  <2>3. Held(inst)'
    BY <2>1, <2>2, TreeKept
  <2> QED BY <2>1, <2>3 DEF IInv
<1> QED BY <1>1, <1>2

-----------------------------------------------------------------------------
(* The theorems.                                                           *)

\* The invariant is inductive, whatever well-formed trees may be loaded and
\* whatever the world answers.
THEOREM Invariant == Spec => []IInv
<1>1. Init => IInv
  BY IInvInit
<1>2. IInv /\ [Next]_vars => IInv'
  BY IInvStep
<1> QED BY <1>1, <1>2, PTL DEF Spec

LEMMA IInvTypes == IInv => TypeOK
<1>1. SUFFICES ASSUME IInv PROVE TypeOK
  OBVIOUS
<1>2. Held(inst) /\ tree \in {Trees[k] : k \in DOMAIN Trees}
  BY <1>1 DEF IInv
<1>3. inst \in Insts /\ Len(inst.queue) <= QueueSize /\ inst.live \subseteq UserNodes
  BY <1>2 DEF Held
<1>4. /\ inst.node \in [Nodes -> NodeState]
      /\ inst.draining \in BOOLEAN /\ inst.dead \in BOOLEAN /\ inst.pass \in BOOLEAN
  BY <1>3 DEF Insts
<1> QED BY <1>2, <1>3, <1>4 DEF TypeOK, Nodes, NodeState

\* TypeOK: every call of every function, whatever its children are, leaves the
\* tree it was given, a state byte in a byte and the ring within its size.
THEOREM TypeCorrect == Spec => []TypeOK
BY Invariant, IInvTypes, PTL

LEMMA IInvLeaks ==
  ASSUME IInv, Tidy(tree)
  PROVE  NothingLeaks
<1>1. WellFormed(tree) /\ Held(inst)
  BY Formed DEF IInv
<1>2. /\ inst \in Insts /\ inst.live \subseteq UserNodes
      /\ \A m \in Nodes : Local(inst, m)
  BY <1>1, BelowRoot DEF Held, Sound
<1>3. DOMAIN inst.node = Nodes
  BY <1>2 DEF Insts
<1>4. ASSUME NEW n \in inst.live, NEW m \in Nodes, n \in Below(m)
      PROVE  inst.node[m].active /\ inst.node[m].init
  <2>1. Busy(inst, m)
    BY <1>4 DEF Busy
  <2> QED BY <1>2, <2>1 DEF Local
<1>5. ASSUME Fn(1) = "function_interface", inst.node[1].state = 2, NEW n \in inst.live PROVE FALSE
  <2>1. 1 \in Nodes /\ n \in Below(1) /\ Local(inst, 1)
    BY <1>1, <1>2, BelowRoot DEF UserNodes, Nodes
  <2>2. Busy(inst, 1)
    BY <2>1 DEF Busy
  <2>3. 1 \notin inst.live
    BY <1>2, <1>5 DEF UserNodes
  <2>4. PICK k \in DOMAIN Kids(1) : Busy(inst, Kids(1)[k])
    BY <1>1, <2>1, <2>2, <2>3, BusyCases
  <2>5. Reached(inst.node[1], 1, k)
    BY <2>1, <2>4 DEF Local, Narrow
  <2> QED BY <1>5, <2>5 DEF Reached
<1> QED BY <1>3, <1>4, <1>5 DEF NothingLeaks

LEMMA StepLogged ==
  ASSUME IInv, Tidy(tree), [Next]_vars
  PROVE  [Logged(inst'.log)]_vars
<1>1. CASE Next
  <2>1. WellFormed(tree) /\ Held(inst)
    BY Formed DEF IInv
  <2> QED BY <1>1, <2>1, NextHeld
<1>2. CASE UNCHANGED vars
  BY <1>2
<1> QED BY <1>1, <1>2

\* NothingLeaks: where no user function is under an se_event_dispatch, what a
\* user function holds can always be released: every function above it is
\* active and initialised, so that a TERMINATE to any of them comes through.
THEOREM NothingLeaksEver ==
  ASSUME \A k \in DOMAIN Trees : Tidy(Trees[k])
  PROVE  Spec => []NothingLeaks
<1>1. IInv => NothingLeaks
  <2>1. ASSUME IInv PROVE Tidy(tree)
    BY <2>1 DEF IInv
  <2> QED BY <2>1, IInvLeaks
<1> QED BY <1>1, Invariant, PTL

\* LifeCycle: under the same hypothesis, no call sequence of any tree initialises
\* a user function that has not been terminated, or ticks one that has not been
\* initialised: INIT, ticks, TERMINATE, and only then INIT again.
THEOREM LifeCycleHolds ==
  ASSUME \A k \in DOMAIN Trees : Tidy(Trees[k])
  PROVE  Spec => LifeCycle
<1>1. IInv /\ [Next]_vars => [Logged(inst'.log)]_vars
  <2>1. ASSUME IInv PROVE Tidy(tree)
    BY <2>1 DEF IInv
  <2> QED BY <2>1, StepLogged
<1>2. Spec => [][Logged(inst'.log)]_vars
  BY <1>1, Invariant, PTL DEF Spec
<1> QED BY <1>2 DEF LifeCycle, Logged
=============================================================================
