--------------------------- MODULE SkipListProofs ---------------------------
(***************************************************************************)
(* Proofs about SkipList for every set of keys and values, every number of *)
(* levels and every height of a node below MAX_LEVEL, and executions in    *)
(* which a node higher than level_ is only inserted while level_ is the    *)
(* number of levels in use (Bounded).                                      *)
(*                                                                         *)
(* The inductive invariant ListGood says: the nodes have the shape the     *)
(* code gives them (ShapeOK); on each level every node's successor is the  *)
(* next one on that level (LinksOK); level_ is the highest level in use or *)
(* the one above it (LevelsOK).  hasNode_ is a recursive function in the   *)
(* model: that it ends, for each level, at the last node before the key    *)
(* (PrevIs) is proved by showing that a function with those values solves  *)
(* its equation, and that a solution cannot differ from it at a last place.*)
(***************************************************************************)
EXTENDS SkipList, TLAPS, FiniteSetTheorems, WellFoundedInduction

\* The executions the theorems are about.
Bounded == ~ AnyHeight /\ MaxHeight < MAX_LEVEL

USE DEF header_, nil_, NULL

-----------------------------------------------------------------------------
(* Sets of nodes.                                                          *)

LEMMA MinExists ==
  ASSUME NEW S \in SUBSET Nat, S # {}
  PROVE  Min(S) \in S /\ \A y \in S : Min(S) <= y
<1> DEFINE Less == {ss \in Nat \X Nat : ss[1] < ss[2]}
<1>1. IsWellFoundedOn(Less, Nat)
  BY NatLessThanWellFounded, Zenon DEF OpToRel
<1>2. PICK x \in S : \A y \in S : ~ (<<y, x>> \in Less)
  BY <1>1, WFMin, Zenon
<1>3. x \in Nat /\ \A y \in S : y \in Nat /\ ~ (y < x)
  BY <1>2
<1>4. \A y \in S : x <= y
  BY <1>3
<1>5. QED BY <1>4, Zenon DEF Min

\* A set of numbers below a bound has a greatest.
LEMMA GreatestExists ==
  ASSUME NEW S \in SUBSET Nat, S # {}, NEW b \in Nat, \A x \in S : x <= b
  PROVE  \E x \in S : \A y \in S : y <= x
<1> DEFINE R == {b - x : x \in S}
<1>1. R \in SUBSET Nat /\ R # {}
  <2>1. \A x \in S : x \in Nat /\ b - x \in Nat
    OBVIOUS
  <2>2. QED BY <2>1
<1> HIDE DEF R
<1>2. Min(R) \in R /\ \A y \in R : Min(R) <= y
  BY <1>1, MinExists
<1>3. PICK x \in S : Min(R) = b - x
  BY <1>2 DEF R
<1>4. \A y \in S : b - x <= b - y
  BY <1>2, <1>3 DEF R
<1>5. \A y \in S : y <= x
  BY <1>4
<1>6. QED BY <1>5

LEMMA MaxIs ==
  ASSUME NEW S \in SUBSET Nat, S # {}, NEW b \in Nat, \A x \in S : x <= b
  PROVE  Max(S) \in S /\ \A y \in S : y <= Max(S)
<1>1. PICK x \in S : \A y \in S : y <= x
  BY GreatestExists
<1>2. \A y \in S : x >= y
  BY <1>1
<1>3. Max(S) \in S /\ \A y \in S : Max(S) >= y
  BY <1>2, Zenon DEF Max
<1>4. QED BY <1>3

\* p is the last node of L before key.
IsPred(L, key, p) == p \in L /\ p < key /\ \A m \in L : m < key => m <= p

\* x is what node n of level L points to.
IsNext(L, n, x) ==
  \/ x \in L /\ n < x /\ \A m \in L : n < m => x <= m
  \/ x = nil_ /\ \A m \in L : ~ (n < m)

Pred(L, key) == CHOOSE p \in L : IsPred(L, key, p)

LEMMA PredExists ==
  ASSUME NEW L \in SUBSET Nat, header_ \in L, NEW key \in Nat \ {0}
  PROVE  IsPred(L, key, Pred(L, key)) /\ \A p : IsPred(L, key, p) => p = Pred(L, key)
<1> DEFINE S == {m \in L : m < key}
<1>1. S \in SUBSET Nat /\ S # {} /\ \A x \in S : x <= key
  <2>1. \A m \in L : m \in Nat
    OBVIOUS
  <2>2. \A m \in S : m \in Nat /\ m <= key
    BY <2>1
  <2>3. header_ \in S
    OBVIOUS
  <2> HIDE DEF S
  <2>4. QED BY <2>2, <2>3
<1>2. PICK p \in S : \A y \in S : y <= p
  <2> HIDE DEF S
  <2>1. QED BY <1>1, GreatestExists
<1>3. IsPred(L, key, p)
  BY <1>2 DEF IsPred
<1>4. IsPred(L, key, Pred(L, key))
  BY <1>3, Zenon DEF Pred
<1>5. ASSUME NEW q, IsPred(L, key, q) PROVE q = Pred(L, key)
  <2> DEFINE r == Pred(L, key)
  <2>1. q \in L /\ r \in L /\ q <= r /\ r <= q
    BY <1>4, <1>5 DEF IsPred
  <2> HIDE DEF r
  <2>2. q \in Nat /\ r \in Nat
    BY <2>1
  <2>3. q = r
    BY <2>1, <2>2
  <2>4. QED BY <2>3 DEF r
<1>6. QED BY <1>4, <1>5

\* The node before key on its level points to it, and to no key that is not there.
LEMMA NextIsKey ==
  ASSUME NEW L \in SUBSET Nat, NEW key \in Nat, NEW p, IsPred(L, key, p), NEW x, IsNext(L, p, x)
  PROVE  x = key <=> key \in L
<1>1. \A m \in L : m \in Nat
  OBVIOUS
<1>2. p \in L /\ p < key /\ \A m \in L : m < key => m <= p
  BY DEF IsPred
<1>3. ASSUME key \in L PROVE x = key
  <2>1. x \in L /\ p < x /\ x <= key
    BY <1>2, <1>3 DEF IsNext
  <2>2. ~ (x < key)
    BY <1>1, <1>2, <2>1
  <2>3. QED BY <1>1, <2>1, <2>2
<1>4. ASSUME x = key PROVE key \in L
  BY <1>4 DEF IsNext
<1>5. QED BY <1>3, <1>4

\* A search that stops at n has come to the node before key.
LEMMA StopsAtPred ==
  ASSUME NEW L \in SUBSET Nat, NEW key \in Nat, NEW n \in L, n < key, NEW x, IsNext(L, n, x),
         ~ (x # nil_ /\ x < key)
  PROVE  IsPred(L, key, n)
<1>1. \A m \in L : m \in Nat
  OBVIOUS
<1>2. ASSUME NEW m \in L, m < key PROVE m <= n
  <2>1. SUFFICES ASSUME n < m PROVE FALSE
    BY <1>1
  <2>2. x \in L /\ x <= m
    BY <2>1 DEF IsNext
  <2>3. QED BY <1>1, <1>2, <2>2
<1>3. QED BY <1>2 DEF IsPred

LEMMA LinkIn ==
  ASSUME NEW L \in SUBSET Nat, NEW key \in Nat \ L, NEW p, IsPred(L, key, p),
         NEW x, IsNext(L, p, x)
  PROVE  /\ IsNext(L \cup {key}, key, x) /\ IsNext(L \cup {key}, p, key)
         /\ \A n \in L \ {p} : \A y : IsNext(L, n, y) => IsNext(L \cup {key}, n, y)
<1>1. \A m \in L : m \in Nat
  OBVIOUS
<1>2. p \in L /\ p < key /\ \A m \in L : m < key => m <= p
  BY DEF IsPred
<1>3. \A m \in L : key < m <=> p < m
  BY <1>1, <1>2
<1>4. x \in L => key < x
  BY <1>1, <1>3 DEF IsNext
<1>5. IsNext(L \cup {key}, key, x)
  BY <1>1, <1>3, <1>4 DEF IsNext
<1>6. IsNext(L \cup {key}, p, key)
  BY <1>1, <1>2, <1>3 DEF IsNext
<1>7. ASSUME NEW n \in L \ {p}, NEW y, IsNext(L, n, y) PROVE IsNext(L \cup {key}, n, y)
  <2>1. CASE n < p
    <3>1. y \in L /\ n < y /\ y <= p /\ \A m \in L : n < m => y <= m
      BY <1>2, <1>7, <2>1 DEF IsNext
    <3>2. y <= key
      BY <1>1, <1>2, <3>1
    <3>3. QED BY <3>1, <3>2 DEF IsNext
  <2>2. CASE ~ (n < p)
    <3>1. ~ (n < key)
      BY <1>1, <1>2, <2>2
    <3>2. QED BY <1>7, <3>1 DEF IsNext
  <2>3. QED BY <2>1, <2>2
<1>8. QED BY <1>5, <1>6, <1>7

LEMMA LinkOut ==
  ASSUME NEW L \in SUBSET Nat, NEW key \in L, NEW p, IsPred(L, key, p),
         NEW x, IsNext(L, key, x)
  PROVE  /\ IsNext(L \ {key}, p, x)
         /\ \A n \in L \ {key, p} : \A y : IsNext(L, n, y) => IsNext(L \ {key}, n, y)
<1>1. \A m \in L : m \in Nat
  OBVIOUS
<1>2. p \in L /\ p < key /\ \A m \in L : m < key => m <= p
  BY DEF IsPred
<1>3. \A m \in L \ {key} : key < m <=> p < m
  BY <1>1, <1>2
<1>4. IsNext(L \ {key}, p, x)
  <2>1. x \in L => x # key /\ p < x
    BY <1>1, <1>2 DEF IsNext
  <2>2. QED BY <1>3, <2>1 DEF IsNext
<1>5. ASSUME NEW n \in L \ {key, p}, NEW y, IsNext(L, n, y) PROVE IsNext(L \ {key}, n, y)
  <2>1. CASE n < p
    <3>1. y \in L /\ y <= p
      BY <1>2, <1>5, <2>1 DEF IsNext
    <3>2. y # key
      BY <1>1, <1>2, <3>1
    <3>3. QED BY <1>1, <1>5, <3>1, <3>2 DEF IsNext
  <2>2. CASE ~ (n < p)
    <3>1. ~ (n < key)
      BY <1>1, <1>2, <2>2
    <3>2. y # key
      BY <1>1, <1>5, <3>1 DEF IsNext
    <3>3. QED BY <1>5, <3>2 DEF IsNext
  <2>3. QED BY <2>1, <2>2
<1>6. QED BY <1>4, <1>5

-----------------------------------------------------------------------------
(* The inductive invariant.                                                *)

\* The successors of a node of h levels.
Links(f, h) ==
  /\ f \in [0 .. h -> Keys \cup {nil_, NULL}]
  /\ f[h] = NULL
  /\ \A i \in 0 .. h - 1 : f[i] # NULL

ShapeOK(s) ==
  /\ s = [level_ |-> s.level_, forward_ |-> s.forward_, val_ |-> s.val_]
  /\ header_ \in DOMAIN s.forward_
  /\ DOMAIN s.forward_ \subseteq Keys \cup {header_}
  /\ s.val_ \in [DOMAIN s.forward_ \ {header_} -> Vals]
  /\ Links(s.forward_[header_], MAX_LEVEL)
  /\ \A n \in DOMAIN s.forward_ \ {header_} : \E h \in 1 .. MaxHeight : Links(s.forward_[n], h)

LinksOK(s) ==
  \A i \in 0 .. MAX_LEVEL - 1 : \A n \in OnLevel(s, i) :
    IsNext(OnLevel(s, i), n, s.forward_[n][i])

LevelsOK(s) ==
  /\ s.level_ \in 0 .. MaxHeight
  /\ \A i \in 0 .. MAX_LEVEL - 1 : OnLevel(s, i) # {header_} => i <= s.level_
  /\ s.level_ = 0 \/ OnLevel(s, s.level_ - 1) # {header_}

ListGood(s) == ShapeOK(s) /\ LinksOK(s) /\ LevelsOK(s)

LEMMA LinksOn ==
  ASSUME NEW f, NEW h \in Nat, Links(f, h), NEW i \in Nat
  PROVE  (i \in DOMAIN f /\ f[i] # NULL) <=> i < h
BY DEF Links

\* Each level is part of the one below, and the lowest has every node.
LEMMA Levels ==
  ASSUME NEW s, ShapeOK(s)
  PROVE  /\ \A i \in 0 .. MAX_LEVEL - 1 : OnLevel(s, i) \in SUBSET Nat /\ header_ \in OnLevel(s, i)
         /\ \A i, j \in Nat : i <= j => OnLevel(s, j) \subseteq OnLevel(s, i)
         /\ OnLevel(s, 0) = DOMAIN s.forward_
<1>1. MAX_LEVEL \in Nat \ {0} /\ MaxHeight \in 1 .. MAX_LEVEL /\ Keys \subseteq Nat \ {0}
  BY SkipListAssumption
<1>2. \A n \in DOMAIN s.forward_ : \E h \in Nat \ {0} : Links(s.forward_[n], h)
  BY <1>1 DEF ShapeOK
<1>3. \A i \in 0 .. MAX_LEVEL - 1 : header_ \in OnLevel(s, i)
  BY <1>1, LinksOn DEF ShapeOK, OnLevel
<1>4. DOMAIN s.forward_ \subseteq Nat
  BY <1>1 DEF ShapeOK
<1>5. \A i : OnLevel(s, i) \subseteq DOMAIN s.forward_
  BY DEF OnLevel
<1>6. ASSUME NEW i \in Nat, NEW j \in Nat, i <= j, NEW n \in OnLevel(s, j)
      PROVE  n \in OnLevel(s, i)
  <2>1. n \in DOMAIN s.forward_ /\ j \in DOMAIN s.forward_[n] /\ s.forward_[n][j] # NULL
    BY DEF OnLevel
  <2>2. PICK h \in Nat \ {0} : Links(s.forward_[n], h)
    BY <1>2, <2>1
  <2>3. j < h
    BY <2>1, <2>2, LinksOn
  <2>4. i < h
    BY <1>6, <2>3
  <2>5. i \in DOMAIN s.forward_[n] /\ s.forward_[n][i] # NULL
    BY <2>2, <2>4, LinksOn
  <2>6. QED BY <2>1, <2>5 DEF OnLevel
<1>7. ASSUME NEW n \in DOMAIN s.forward_ PROVE n \in OnLevel(s, 0)
  <2>1. PICK h \in Nat \ {0} : Links(s.forward_[n], h)
    BY <1>2
  <2>2. 0 \in DOMAIN s.forward_[n] /\ s.forward_[n][0] # NULL
    BY <2>1, LinksOn
  <2>3. QED BY <2>2 DEF OnLevel
<1>8. QED BY <1>3, <1>4, <1>5, <1>6, <1>7

\* The header points to nil_ on the levels that no node is on.
LEMMA HeadNil ==
  ASSUME NEW s, ShapeOK(s), LinksOK(s), NEW i \in 0 .. MAX_LEVEL - 1
  PROVE  s.forward_[header_][i] # nil_ <=> OnLevel(s, i) # {header_}
<1> DEFINE L == OnLevel(s, i)
<1>1. L \in SUBSET Nat /\ header_ \in L
  BY Levels
<1>2. IsNext(L, header_, s.forward_[header_][i])
  BY <1>1 DEF LinksOK
<1> HIDE DEF L
<1>3. QED BY <1>1, <1>2 DEF IsNext, L

-----------------------------------------------------------------------------
(* The search.                                                             *)

\* f is what Walk computes.
Walks(s, i, key, f) ==
  f = [n \in OnLevel(s, i) |->
         IF s.forward_[n][i] # nil_ /\ s.forward_[n][i] < key THEN f[s.forward_[n][i]] ELSE n]

LEMMA WalkSolves ==
  ASSUME NEW s, NEW i, NEW key, NEW g, Walks(s, i, key, g)
  PROVE  Walks(s, i, key, Walk(s, i, key))
<1> DEFINE w == CHOOSE f : Walks(s, i, key, f)
<1>1. Walk(s, i, key) = w
  BY DEF Walk, Walks
<1>2. QED BY <1>1

\* From any node before key the walk ends at the last node before key.
LEMMA WalkEnds ==
  ASSUME NEW s, ShapeOK(s), LinksOK(s), NEW i \in 0 .. MAX_LEVEL - 1, NEW key \in Nat \ {0},
         NEW n \in OnLevel(s, i), n < key
  PROVE  Walk(s, i, key)[n] = Pred(OnLevel(s, i), key)
<1> DEFINE L == OnLevel(s, i)
           next(x) == s.forward_[x][i]
           goes(x) == next(x) # nil_ /\ next(x) < key
           last == Pred(L, key)
           g == [x \in L |-> IF x < key THEN last ELSE x]
           w == Walk(s, i, key)
<1>1. L \in SUBSET Nat /\ header_ \in L
  BY Levels
<1>2. \A x \in L : IsNext(L, x, next(x))
  BY DEF LinksOK
<1> HIDE DEF L
<1>3. ASSUME NEW x \in L, x < key, ~ goes(x) PROVE x = last
  BY <1>1, <1>2, <1>3, StopsAtPred, PredExists
<1>4. ASSUME NEW x \in L, goes(x) PROVE next(x) \in L /\ x < next(x) /\ next(x) < key /\ x < key
  BY <1>1, <1>2, <1>4 DEF IsNext
<1> HIDE DEF last, next
<1>5. Walks(s, i, key, g)
  <2>1. \A x \in L : g[x] = IF goes(x) THEN g[next(x)] ELSE x
    BY <1>3, <1>4
  <2>2. g = [x \in L |-> IF goes(x) THEN g[next(x)] ELSE x]
    BY <2>1
  <2>3. QED BY <2>2 DEF Walks, L, next
<1>6. w = [x \in L |-> IF goes(x) THEN w[next(x)] ELSE x]
  <2>1. Walks(s, i, key, w)
    <3> HIDE DEF g
    <3>1. QED BY <1>5, WalkSolves
  <2>2. QED BY <2>1 DEF Walks, L, next
<1> HIDE DEF w, goes
<1> DEFINE Bad == {x \in L : x < key /\ w[x] # last}
<1>7. Bad = {}
  <2>1. SUFFICES ASSUME Bad # {} PROVE FALSE
    OBVIOUS
  <2>2. Bad \in SUBSET Nat /\ \A x \in Bad : x <= key
    <3>1. \A x \in L : x \in Nat
      BY <1>1
    <3>2. QED BY <3>1
  <2>3. PICK x \in Bad : \A y \in Bad : y <= x
    <3> HIDE DEF Bad
    <3>1. QED BY <2>1, <2>2, GreatestExists
  <2>4. CASE goes(x)
    <3>1. next(x) \in L /\ x < next(x) /\ next(x) < key /\ w[x] = w[next(x)]
      BY <1>4, <1>6, <2>4
    <3>2. next(x) \in Bad
      BY <2>3, <3>1
    <3>3. next(x) <= x /\ x \in Nat /\ next(x) \in Nat
      BY <1>1, <2>2, <2>3, <3>1, <3>2
    <3>4. QED BY <3>1, <3>3
  <2>5. CASE ~ goes(x)
    BY <1>3, <1>6, <2>3, <2>5
  <2>6. QED BY <2>4, <2>5
<1>8. QED BY <1>7 DEF L, w, last

\* f is what Prev computes.
Descends(s, key, f) ==
  f = [i \in 0 .. s.level_ |->
         Walk(s, i, key)[IF i = s.level_ THEN header_ ELSE f[i + 1]]]

LEMMA PrevSolves ==
  ASSUME NEW s, NEW key, NEW g, Descends(s, key, g)
  PROVE  Descends(s, key, Prev(s, key))
<1> DEFINE w == CHOOSE f : Descends(s, key, f)
<1>1. Prev(s, key) = w
  BY DEF Prev, Descends
<1>2. QED BY <1>1

\* hasNode_ finds, on each level from level_ down, the last node before key.
LEMMA PrevIs ==
  ASSUME NEW s, ListGood(s), Bounded, NEW key \in Nat \ {0}, NEW i \in 0 .. s.level_
  PROVE  Prev(s, key)[i] = Pred(OnLevel(s, i), key)
<1> DEFINE pred(j) == Pred(OnLevel(s, j), key)
           top == s.level_
           g == [j \in 0 .. top |-> pred(j)]
           w == Prev(s, key)
<1>1. ShapeOK(s) /\ LinksOK(s) /\ top \in Nat /\ 0 .. top \subseteq 0 .. MAX_LEVEL - 1
  BY SkipListAssumption DEF ListGood, LevelsOK, Bounded
<1> HIDE DEF top
<1>2. ASSUME NEW j \in 0 .. top PROVE Walk(s, j, key)[header_] = pred(j)
  <2>1. header_ \in OnLevel(s, j) /\ header_ < key
    BY <1>1, Levels
  <2>2. QED BY <1>1, <2>1, WalkEnds
<1>3. ASSUME NEW j \in 0 .. top, j # top PROVE Walk(s, j, key)[pred(j + 1)] = pred(j)
  <2>1. j + 1 \in 0 .. top /\ j \in Nat /\ j <= j + 1
    BY <1>1, <1>3
  <2>2. OnLevel(s, j + 1) \in SUBSET Nat /\ header_ \in OnLevel(s, j + 1)
        /\ OnLevel(s, j + 1) \subseteq OnLevel(s, j)
    BY <1>1, <2>1, Levels
  <2>3. pred(j + 1) \in OnLevel(s, j + 1) /\ pred(j + 1) < key
    BY <2>2, PredExists DEF IsPred
  <2> HIDE DEF pred
  <2>4. QED BY <1>1, <2>2, <2>3, WalkEnds DEF pred
<1> HIDE DEF pred
<1>4. Descends(s, key, g)
  <2>1. \A j \in 0 .. top : g[j] = Walk(s, j, key)[IF j = top THEN header_ ELSE g[j + 1]]
    <3>1. SUFFICES ASSUME NEW j \in 0 .. top
                   PROVE  pred(j) = Walk(s, j, key)[IF j = top THEN header_ ELSE g[j + 1]]
      OBVIOUS
    <3>2. CASE j = top
      BY <1>2, <3>2
    <3>3. CASE j # top
      <4>1. g[j + 1] = pred(j + 1)
        BY <1>1, <3>3
      <4>2. QED BY <1>3, <3>3, <4>1
    <3>4. QED BY <3>2, <3>3
  <2>2. g = [j \in 0 .. top |-> Walk(s, j, key)[IF j = top THEN header_ ELSE g[j + 1]]]
    BY <2>1
  <2>3. QED BY <2>2 DEF Descends, top
<1>5. \A j \in 0 .. top : w[j] = Walk(s, j, key)[IF j = top THEN header_ ELSE w[j + 1]]
  <2>1. Descends(s, key, w)
    <3> HIDE DEF g
    <3>1. QED BY <1>4, PrevSolves
  <2> HIDE DEF w
  <2>2. w = [j \in 0 .. top |-> Walk(s, j, key)[IF j = top THEN header_ ELSE w[j + 1]]]
    BY <2>1 DEF Descends, top
  <2>3. QED BY <2>2
<1> HIDE DEF w
<1> DEFINE Bad == {j \in 0 .. top : w[j] # pred(j)}
<1>6. Bad = {}
  <2>1. SUFFICES ASSUME Bad # {} PROVE FALSE
    OBVIOUS
  <2>2. Bad \in SUBSET Nat /\ \A x \in Bad : x <= top
    BY <1>1
  <2>3. PICK j \in Bad : \A y \in Bad : y <= j
    <3> HIDE DEF Bad
    <3>1. QED BY <1>1, <2>1, <2>2, GreatestExists
  <2>4. CASE j = top
    BY <1>2, <1>5, <2>3, <2>4
  <2>5. CASE j # top
    <3>1. j + 1 \in 0 .. top /\ j + 1 \notin Bad
      BY <1>1, <2>3, <2>5
    <3>2. w[j + 1] = pred(j + 1)
      BY <3>1
    <3>3. QED BY <1>3, <1>5, <2>3, <2>5, <3>2
  <2>6. QED BY <2>4, <2>5
<1>7. QED BY <1>6 DEF top, w, pred

\* A search finds exactly the keys that are nodes.
LEMMA Found ==
  ASSUME NEW s, ListGood(s), Bounded, NEW key \in Nat \ {0}
  PROVE  HasNode(s, key) <=> key \in DOMAIN s.forward_
<1> DEFINE L == OnLevel(s, 0)
           p == Pred(L, key)
<1>1. 0 \in 0 .. s.level_ /\ 0 \in 0 .. MAX_LEVEL - 1 /\ ShapeOK(s) /\ LinksOK(s)
  BY SkipListAssumption DEF ListGood, LevelsOK
<1>2. Prev(s, key)[0] = p
  BY <1>1, PrevIs
<1>3. L \in SUBSET Nat /\ header_ \in L /\ L = DOMAIN s.forward_
  BY <1>1, Levels
<1>4. \A n \in L : IsNext(L, n, s.forward_[n][0])
  BY <1>1 DEF LinksOK
<1> HIDE DEF L
<1>5. IsPred(L, key, p)
  BY <1>3, PredExists
<1> HIDE DEF p
<1>6. IsNext(L, p, s.forward_[p][0])
  BY <1>4, <1>5 DEF IsPred
<1>7. s.forward_[p][0] = key <=> key \in L
  BY <1>3, <1>5, <1>6, NextIsKey
<1>8. QED BY <1>2, <1>3, <1>7 DEF HasNode

-----------------------------------------------------------------------------
(* Insert and Delete.                                                      *)

\* The nodes Insert links the new node after, and the list it makes.
Before(s, key, level) ==
  LET found == Prev(s, key)
  IN  [i \in 0 .. level - 1 |-> IF i < s.level_ THEN found[i] ELSE header_]

Linked(s, key, prev, level) ==
  [n \in DOMAIN s.forward_ \cup {key} |->
     IF n = key THEN NewNode(s, prev, level)
     ELSE [i \in DOMAIN s.forward_[n] |->
             IF i < level /\ prev[i] = n THEN key ELSE s.forward_[n][i]]]

\* The guard of InsertKey: no level from level_ up is in use if the node gets there.
Reaches(s, level) ==
  level <= s.level_ \/ \A i \in 0 .. MAX_LEVEL - 1 : i >= s.level_ => OnLevel(s, i) = {header_}

LEMMA BeforeIs ==
  ASSUME NEW s, ListGood(s), Bounded, NEW key \in Keys, NEW level \in 1 .. MaxHeight,
         Reaches(s, level), NEW i \in 0 .. level - 1
  PROVE  /\ Before(s, key, level)[i] = Pred(OnLevel(s, i), key)
         /\ IsPred(OnLevel(s, i), key, Pred(OnLevel(s, i), key))
<1>1. /\ i \in 0 .. MAX_LEVEL - 1 /\ i \in Nat /\ key \in Nat \ {0}
      /\ ShapeOK(s) /\ s.level_ \in Nat
  BY SkipListAssumption DEF Bounded, ListGood, LevelsOK
<1>2. OnLevel(s, i) \in SUBSET Nat /\ header_ \in OnLevel(s, i)
  BY <1>1, Levels
<1>3. IsPred(OnLevel(s, i), key, Pred(OnLevel(s, i), key))
      /\ \A p : IsPred(OnLevel(s, i), key, p) => p = Pred(OnLevel(s, i), key)
  BY <1>1, <1>2, PredExists
<1>4. CASE i < s.level_
  <2>1. Before(s, key, level)[i] = Prev(s, key)[i]
    BY <1>4 DEF Before
  <2>2. i \in 0 .. s.level_
    BY <1>1, <1>4
  <2>3. QED BY <1>1, <1>3, <2>1, <2>2, PrevIs
<1>5. CASE ~ (i < s.level_)
  <2>1. Before(s, key, level)[i] = header_
    BY <1>5 DEF Before
  <2>2. OnLevel(s, i) = {header_}
    BY <1>1, <1>5 DEF Reaches
  <2>3. IsPred(OnLevel(s, i), key, header_)
    BY <1>1, <2>2 DEF IsPred
  <2>4. QED BY <1>3, <2>1, <2>3
<1>6. QED BY <1>4, <1>5

\* What Insert of a new key does to the levels and the links.
LEMMA LinkedIs ==
  ASSUME NEW s, ListGood(s), NEW key \in Keys, key \notin DOMAIN s.forward_,
         NEW level \in 1 .. MaxHeight, NEW prev,
         \A i \in 0 .. level - 1 : IsPred(OnLevel(s, i), key, prev[i]),
         NEW t, t.forward_ = Linked(s, key, prev, level)
  PROVE  /\ \A n \in DOMAIN s.forward_ : \A h \in Nat :
              Links(s.forward_[n], h) => Links(t.forward_[n], h)
         /\ MaxHeight < MAX_LEVEL => Links(t.forward_[key], level)
         /\ \A i \in Nat : OnLevel(t, i) = IF i < level THEN OnLevel(s, i) \cup {key}
                                           ELSE OnLevel(s, i)
         /\ \A i \in Nat : \A n \in OnLevel(s, i) :
              t.forward_[n][i] = IF i < level /\ prev[i] = n THEN key ELSE s.forward_[n][i]
         /\ \A i \in 0 .. level - 1 : t.forward_[key][i] = s.forward_[prev[i]][i]
<1> DEFINE link(n, i) == IF i < level /\ prev[i] = n THEN key ELSE s.forward_[n][i]
<1>1. /\ level \in Nat \ {0} /\ level <= MaxHeight /\ level <= MAX_LEVEL
      /\ Keys \subseteq Nat \ {0} /\ MAX_LEVEL \in Nat /\ ShapeOK(s) /\ LinksOK(s)
  BY SkipListAssumption DEF ListGood
<1>2. /\ DOMAIN t.forward_ = DOMAIN s.forward_ \cup {key}
      /\ t.forward_[key] = [i \in 0 .. level |-> IF i < level THEN s.forward_[prev[i]][i] ELSE NULL]
      /\ \A n \in DOMAIN s.forward_ :
           t.forward_[n] = [i \in DOMAIN s.forward_[n] |-> link(n, i)]
  BY DEF Linked, NewNode
<1> HIDE DEF link
<1>3. ASSUME NEW i \in 0 .. level - 1
      PROVE  prev[i] \in OnLevel(s, i) /\ s.forward_[prev[i]][i] \in Keys \cup {nil_}
  <2>1. prev[i] \in OnLevel(s, i) /\ i \in 0 .. MAX_LEVEL - 1
    BY <1>1 DEF IsPred
  <2>2. IsNext(OnLevel(s, i), prev[i], s.forward_[prev[i]][i])
    BY <1>1, <2>1 DEF LinksOK
  <2>3. OnLevel(s, i) \subseteq Keys \cup {header_}
    BY <1>1 DEF ShapeOK, OnLevel
  <2>4. OnLevel(s, i) \in SUBSET Nat
    BY <1>1, <2>1, Levels
  <2>5. s.forward_[prev[i]][i] # header_
    <3>1. prev[i] \in Nat
      BY <2>1, <2>4
    <3>2. QED BY <2>2, <3>1 DEF IsNext
  <2>6. QED BY <2>1, <2>2, <2>3, <2>5 DEF IsNext
<1>4. ASSUME NEW n \in DOMAIN s.forward_, NEW h \in Nat, Links(s.forward_[n], h)
      PROVE  Links(t.forward_[n], h)
  <2>1. /\ DOMAIN s.forward_[n] = 0 .. h /\ s.forward_[n][h] = NULL
        /\ \A i \in 0 .. h : s.forward_[n][i] \in Keys \cup {nil_, NULL}
        /\ \A i \in 0 .. h - 1 : s.forward_[n][i] # NULL
    BY <1>4 DEF Links
  <2>2. ~ (h < level /\ prev[h] = n)
    <3>1. SUFFICES ASSUME h < level, prev[h] = n PROVE FALSE
      OBVIOUS
    <3>2. n \in OnLevel(s, h)
      BY <1>3, <3>1
    <3>3. QED BY <2>1, <3>2 DEF OnLevel
  <2>3. key # NULL /\ key \in Keys
    BY <1>1
  <2>4. \A i \in 0 .. h : t.forward_[n][i] = link(n, i)
    <3>1. t.forward_[n] = [i \in DOMAIN s.forward_[n] |-> link(n, i)]
      BY <1>2, Zenon
    <3>2. t.forward_[n] = [i \in 0 .. h |-> link(n, i)]
      BY <2>1, <3>1, Zenon
    <3>3. QED BY <3>2, Zenon
  <2>5. DOMAIN t.forward_[n] = 0 .. h /\ t.forward_[n] = [i \in 0 .. h |-> t.forward_[n][i]]
    BY <1>2, <2>1
  <2>6. t.forward_[n][h] = NULL
    BY <2>1, <2>2, <2>4 DEF link
  <2>7. \A i \in 0 .. h : t.forward_[n][i] \in Keys \cup {nil_, NULL}
    BY <2>1, <2>3, <2>4 DEF link
  <2>8. \A i \in 0 .. h - 1 : t.forward_[n][i] # NULL
    BY <2>1, <2>3, <2>4 DEF link
  <2>9. t.forward_[n] \in [0 .. h -> Keys \cup {nil_, NULL}]
    BY <2>5, <2>7
  <2>10. QED BY <2>6, <2>8, <2>9 DEF Links
<1>5. Links(t.forward_[key], level)
  <2>1. \A i \in 0 .. level - 1 : s.forward_[prev[i]][i] \in Keys \cup {nil_, NULL}
                                  /\ s.forward_[prev[i]][i] # NULL
    BY <1>1, <1>3
  <2>2. QED BY <1>1, <1>2, <2>1 DEF Links
<1>6. ASSUME NEW i \in Nat, NEW n \in DOMAIN s.forward_
      PROVE  n \in OnLevel(t, i) <=> n \in OnLevel(s, i)
  <2>1. PICK h \in Nat : Links(s.forward_[n], h)
    BY <1>1, SkipListAssumption DEF ShapeOK
  <2>2. Links(t.forward_[n], h)
    BY <1>4, <2>1
  <2>3. /\ (i \in DOMAIN s.forward_[n] /\ s.forward_[n][i] # NULL) <=> i < h
        /\ (i \in DOMAIN t.forward_[n] /\ t.forward_[n][i] # NULL) <=> i < h
    BY <2>1, <2>2, LinksOn
  <2>4. QED BY <1>2, <2>3 DEF OnLevel
<1>7. ASSUME NEW i \in Nat PROVE key \in OnLevel(t, i) <=> i < level
  <2>1. (i \in DOMAIN t.forward_[key] /\ t.forward_[key][i] # NULL) <=> i < level
    BY <1>1, <1>5, LinksOn
  <2>2. QED BY <1>2, <2>1 DEF OnLevel
<1>8. ASSUME NEW i \in Nat
      PROVE  OnLevel(t, i) = IF i < level THEN OnLevel(s, i) \cup {key} ELSE OnLevel(s, i)
  <2>1. OnLevel(t, i) \subseteq DOMAIN s.forward_ \cup {key} /\ OnLevel(s, i) \subseteq DOMAIN s.forward_
    BY <1>2 DEF OnLevel
  <2>2. QED BY <1>6, <1>7, <2>1
<1>9. ASSUME NEW i \in Nat, NEW n \in OnLevel(s, i)
      PROVE  t.forward_[n][i] = IF i < level /\ prev[i] = n THEN key ELSE s.forward_[n][i]
  <2>1. n \in DOMAIN s.forward_ /\ i \in DOMAIN s.forward_[n]
    BY DEF OnLevel
  <2>2. t.forward_[n] = [j \in DOMAIN s.forward_[n] |-> link(n, j)]
    BY <1>2, <2>1, Zenon
  <2>3. t.forward_[n][i] = link(n, i)
    BY <2>1, <2>2, Zenon
  <2>4. QED BY <2>3, Zenon DEF link
<1>10. \A i \in 0 .. level - 1 : t.forward_[key][i] = s.forward_[prev[i]][i]
  BY <1>1, <1>2
<1>11. QED BY <1>4, <1>5, <1>8, <1>9, <1>10

LEMMA InsertGood ==
  ASSUME NEW s, ListGood(s), Bounded, NEW key \in Keys, NEW val \in Vals,
         NEW level \in 1 .. MaxHeight, Reaches(s, level)
  PROVE  /\ ListGood(Insert(s, key, val, level))
         /\ Insert(s, key, val, level).val_
              = [x \in DOMAIN s.val_ \cup {key} |-> IF x \in DOMAIN s.val_ THEN s.val_[x] ELSE val]
<1> DEFINE t == Insert(s, key, val, level)
           prev == Before(s, key, level)
           higher == IF level > s.level_ THEN level ELSE s.level_
           vals == [n \in DOMAIN s.val_ \cup {key} |-> IF n = key THEN val ELSE s.val_[n]]
<1>1. /\ ShapeOK(s) /\ LinksOK(s) /\ LevelsOK(s)
      /\ level \in Nat \ {0} /\ s.level_ \in Nat /\ key \in Nat \ {0}
      /\ MaxHeight \in Nat /\ MAX_LEVEL \in Nat /\ MaxHeight < MAX_LEVEL
  BY SkipListAssumption DEF ListGood, LevelsOK, Bounded
<1>2. HasNode(s, key) <=> key \in DOMAIN s.forward_
  BY <1>1, Found
<1>3. s.val_ \in [DOMAIN s.forward_ \ {header_} -> Vals]
      /\ s = [level_ |-> s.level_, forward_ |-> s.forward_, val_ |-> s.val_]
  BY <1>1 DEF ShapeOK
<1>4. CASE HasNode(s, key)
  <2>1. key \in DOMAIN s.val_
    BY <1>1, <1>2, <1>3, <1>4
  <2>2. t = [s EXCEPT !.val_[key] = s.val_[key]]
    BY <1>4 DEF Insert, FoundVal
  <2>3. t = s
    BY <1>3, <2>1, <2>2
  <2>4. s.val_ = [x \in DOMAIN s.val_ \cup {key} |-> IF x \in DOMAIN s.val_ THEN s.val_[x] ELSE val]
    BY <1>3, <2>1
  <2>5. QED BY <2>3, <2>4
<1>5. CASE ~ HasNode(s, key)
  <2>1. t = [level_ |-> higher, forward_ |-> Linked(s, key, prev, level), val_ |-> vals]
    BY <1>5 DEF Insert, Before, Linked
  <2>2. \A i \in 0 .. level - 1 : IsPred(OnLevel(s, i), key, prev[i])
    BY BeforeIs
  <2> HIDE DEF t, prev
  <2>3. t.forward_ = Linked(s, key, prev, level) /\ t.level_ = higher /\ t.val_ = vals
        /\ t = [level_ |-> t.level_, forward_ |-> t.forward_, val_ |-> t.val_]
    BY <2>1
  <2>4. key \notin DOMAIN s.forward_
    BY <1>2, <1>5
  <2>5. /\ \A n \in DOMAIN s.forward_ : \A h \in Nat :
              Links(s.forward_[n], h) => Links(t.forward_[n], h)
        /\ Links(t.forward_[key], level)
        /\ \A i \in Nat : OnLevel(t, i) = IF i < level THEN OnLevel(s, i) \cup {key}
                                          ELSE OnLevel(s, i)
        /\ \A i \in Nat : \A n \in OnLevel(s, i) :
             t.forward_[n][i] = IF i < level /\ prev[i] = n THEN key ELSE s.forward_[n][i]
        /\ \A i \in 0 .. level - 1 : t.forward_[key][i] = s.forward_[prev[i]][i]
    BY <1>1, <2>2, <2>3, <2>4, LinkedIs
  <2>6. DOMAIN t.forward_ = DOMAIN s.forward_ \cup {key}
    BY <2>3 DEF Linked
  <2>7. vals \in [(DOMAIN s.forward_ \cup {key}) \ {header_} -> Vals]
        /\ vals = [x \in DOMAIN s.val_ \cup {key} |-> IF x \in DOMAIN s.val_ THEN s.val_[x] ELSE val]
    BY <1>1, <1>3, <2>4
  <2> HIDE DEF higher, vals
  <2>8. ShapeOK(t)
    <3>1. header_ \in DOMAIN t.forward_ /\ DOMAIN t.forward_ \subseteq Keys \cup {header_}
      BY <1>1, <2>6 DEF ShapeOK
    <3>2. Links(t.forward_[header_], MAX_LEVEL)
      BY <1>1, <2>5 DEF ShapeOK
    <3>3. ASSUME NEW n \in DOMAIN t.forward_ \ {header_}
          PROVE  \E h \in 1 .. MaxHeight : Links(t.forward_[n], h)
      <4>1. CASE n = key
        BY <2>5, <4>1
      <4>2. CASE n # key
        <5>1. PICK h \in 1 .. MaxHeight : Links(s.forward_[n], h)
          BY <1>1, <2>6, <4>2 DEF ShapeOK
        <5>2. QED BY <2>5, <2>6, <4>2, <5>1
      <4>3. QED BY <4>1, <4>2
    <3>4. QED BY <2>3, <2>6, <2>7, <3>1, <3>2, <3>3 DEF ShapeOK
  <2>9. LinksOK(t)
    <3>1. SUFFICES ASSUME NEW i \in 0 .. MAX_LEVEL - 1, NEW n \in OnLevel(t, i)
                   PROVE  IsNext(OnLevel(t, i), n, t.forward_[n][i])
      BY DEF LinksOK
    <3> DEFINE L == OnLevel(s, i)
    <3>2. L \in SUBSET Nat /\ \A m \in L : IsNext(L, m, s.forward_[m][i])
      BY <1>1, Levels DEF LinksOK
    <3>3. key \notin L
      BY <2>4 DEF OnLevel
    <3>4. CASE i < level
      <4>1. OnLevel(t, i) = L \cup {key} /\ i \in 0 .. level - 1
        BY <1>1, <2>5, <3>4
      <4>2. IsPred(L, key, prev[i]) /\ prev[i] \in L
        BY <2>2, <4>1 DEF IsPred
      <4>3. /\ t.forward_[key][i] = s.forward_[prev[i]][i]
            /\ t.forward_[prev[i]][i] = key
            /\ \A m \in L \ {prev[i]} : t.forward_[m][i] = s.forward_[m][i]
        BY <2>5, <3>4, <4>1, <4>2
      <4> HIDE DEF L
      <4>4. /\ IsNext(L \cup {key}, key, s.forward_[prev[i]][i])
            /\ IsNext(L \cup {key}, prev[i], key)
            /\ \A m \in L \ {prev[i]} : \A y : IsNext(L, m, y) => IsNext(L \cup {key}, m, y)
        BY <1>1, <3>2, <3>3, <4>2, LinkIn
      <4>5. QED BY <3>2, <4>1, <4>3, <4>4
    <3>5. CASE ~ (i < level)
      <4>1. OnLevel(t, i) = L /\ t.forward_[n][i] = s.forward_[n][i]
        BY <2>5, <3>5
      <4>2. QED BY <3>2, <4>1
    <3>6. QED BY <3>4, <3>5
  <2>10. LevelsOK(t)
    <3>1. t.level_ \in 0 .. MaxHeight /\ s.level_ <= t.level_ /\ level <= t.level_
          /\ (t.level_ = level \/ t.level_ = s.level_)
      BY <1>1, <2>3 DEF LevelsOK, higher
    <3>2. ASSUME NEW i \in 0 .. MAX_LEVEL - 1, OnLevel(t, i) # {header_} PROVE i <= t.level_
      <4>1. CASE i < level
        BY <1>1, <3>1, <4>1
      <4>2. CASE ~ (i < level)
        <5>1. OnLevel(s, i) # {header_}
          BY <2>5, <3>2, <4>2
        <5>2. i <= s.level_
          BY <1>1, <5>1 DEF LevelsOK
        <5>3. QED BY <1>1, <3>1, <5>2
      <4>3. QED BY <4>1, <4>2
    <3>3. t.level_ = 0 \/ OnLevel(t, t.level_ - 1) # {header_}
      <4>1. CASE t.level_ = level
        <5>1. key \in OnLevel(t, level - 1)
          BY <1>1, <2>5
        <5>2. QED BY <1>1, <4>1, <5>1
      <4>2. CASE t.level_ = s.level_ /\ s.level_ # 0
        <5>1. OnLevel(s, s.level_ - 1) # {header_} /\ s.level_ - 1 \in Nat
              /\ s.level_ - 1 \in 0 .. MAX_LEVEL - 1
          BY <1>1, <4>2 DEF LevelsOK
        <5>2. header_ \in OnLevel(s, s.level_ - 1)
          BY <1>1, <5>1, Levels
        <5>3. OnLevel(s, s.level_ - 1) \subseteq OnLevel(t, s.level_ - 1)
          BY <2>5, <5>1
        <5>4. QED BY <4>2, <5>1, <5>2, <5>3
      <4>3. QED BY <3>1, <4>1, <4>2
    <3>4. QED BY <3>1, <3>2, <3>3 DEF LevelsOK
  <2>11. QED BY <2>3, <2>7, <2>8, <2>9, <2>10 DEF ListGood, t
<1>6. QED BY <1>4, <1>5

\* The list Delete makes.
Cut(s, key, prev, unlinked) ==
  [n \in DOMAIN s.forward_ \ {key} |->
     [i \in DOMAIN s.forward_[n] |->
        IF i \in unlinked /\ prev[i] = n THEN s.forward_[key][i] ELSE s.forward_[n][i]]]

\* hasNode_ gives Delete the node before key on each level that key is on, and
\* Delete's loop stops at the first level that it is not on.
LEMMA UnlinkedIs ==
  ASSUME NEW s, ListGood(s), Bounded, NEW key \in Keys, key \in DOMAIN s.forward_
  PROVE  \A i \in Nat : /\ i \in UnlinkedLevels(s, Prev(s, key), key) <=> key \in OnLevel(s, i)
                        /\ key \in OnLevel(s, i) => IsPred(OnLevel(s, i), key, Prev(s, key)[i])
<1> DEFINE prev == Prev(s, key)
<1>1. /\ ShapeOK(s) /\ LinksOK(s) /\ LevelsOK(s) /\ key \in Nat \ {0}
      /\ s.level_ \in Nat /\ 0 .. s.level_ \subseteq 0 .. MAX_LEVEL - 1
  BY SkipListAssumption DEF ListGood, LevelsOK, Bounded
<1>2. ASSUME NEW j \in 0 .. s.level_ PROVE prev[j] = Pred(OnLevel(s, j), key)
  BY <1>1, PrevIs
<1> HIDE DEF prev
<1>3. ASSUME NEW j \in 0 .. s.level_
      PROVE  /\ IsPred(OnLevel(s, j), key, prev[j])
             /\ s.forward_[prev[j]][j] = key <=> key \in OnLevel(s, j)
  <2>1. OnLevel(s, j) \in SUBSET Nat /\ header_ \in OnLevel(s, j)
    BY <1>1, Levels
  <2>2. IsPred(OnLevel(s, j), key, prev[j])
    BY <1>1, <1>2, <2>1, PredExists
  <2>3. IsNext(OnLevel(s, j), prev[j], s.forward_[prev[j]][j])
    BY <1>1, <2>2 DEF LinksOK, IsPred
  <2>4. QED BY <1>1, <2>1, <2>2, <2>3, NextIsKey
<1>4. ASSUME NEW i \in Nat, key \in OnLevel(s, i) PROVE i \in 0 .. s.level_
  <2>1. key \in DOMAIN s.forward_ /\ i \in DOMAIN s.forward_[key] /\ s.forward_[key][i] # NULL
    BY <1>4 DEF OnLevel
  <2>2. PICK h \in 1 .. MaxHeight : Links(s.forward_[key], h)
    BY <1>1 DEF ShapeOK
  <2>3. h \in Nat /\ h < MAX_LEVEL /\ MAX_LEVEL \in Nat
    BY <2>2, SkipListAssumption DEF Bounded
  <2>4. i < h
    BY <2>1, <2>2, <2>3, LinksOn
  <2>5. i \in 0 .. MAX_LEVEL - 1
    BY <2>3, <2>4
  <2>6. OnLevel(s, i) # {header_}
    BY <1>1, <1>4
  <2>7. QED BY <1>1, <2>5, <2>6 DEF LevelsOK
<1>5. ASSUME NEW i \in Nat, i \in UnlinkedLevels(s, prev, key) PROVE key \in OnLevel(s, i)
  <2>1. i \in 0 .. s.level_ /\ s.forward_[prev[i]][i] = key
    BY <1>5 DEF UnlinkedLevels
  <2>2. QED BY <1>3, <2>1
<1>6. ASSUME NEW i \in Nat, key \in OnLevel(s, i) PROVE i \in UnlinkedLevels(s, prev, key)
  <2>1. i \in 0 .. s.level_
    BY <1>4, <1>6
  <2>2. ASSUME NEW j \in 0 .. i PROVE s.forward_[prev[j]][j] = key
    <3>1. j \in 0 .. s.level_ /\ j \in Nat /\ j <= i
      BY <1>1, <2>1
    <3>2. key \in OnLevel(s, j)
      BY <1>1, <1>6, <3>1, Levels
    <3>3. QED BY <1>3, <3>1, <3>2
  <2>3. QED BY <2>1, <2>2 DEF UnlinkedLevels
<1>7. QED BY <1>3, <1>4, <1>5, <1>6 DEF prev

\* What Delete of a node does to the levels and the links.
LEMMA CutIs ==
  ASSUME NEW s, ListGood(s), NEW key \in Keys, key \in DOMAIN s.forward_, NEW prev, NEW unlinked,
         \A i \in Nat : /\ i \in unlinked <=> key \in OnLevel(s, i)
                        /\ key \in OnLevel(s, i) => IsPred(OnLevel(s, i), key, prev[i]),
         NEW t, t.forward_ = Cut(s, key, prev, unlinked)
  PROVE  /\ \A n \in DOMAIN s.forward_ \ {key} : \A h \in Nat :
              Links(s.forward_[n], h) => Links(t.forward_[n], h)
         /\ \A i \in Nat : OnLevel(t, i) = OnLevel(s, i) \ {key}
         /\ \A i \in Nat : \A n \in OnLevel(s, i) \ {key} :
              t.forward_[n][i] = IF i \in unlinked /\ prev[i] = n THEN s.forward_[key][i]
                                 ELSE s.forward_[n][i]
<1> DEFINE link(n, i) == IF i \in unlinked /\ prev[i] = n THEN s.forward_[key][i]
                         ELSE s.forward_[n][i]
<1>1. /\ Keys \subseteq Nat \ {0} /\ MAX_LEVEL \in Nat /\ ShapeOK(s) /\ LinksOK(s)
  BY SkipListAssumption DEF ListGood
<1>2. /\ DOMAIN t.forward_ = DOMAIN s.forward_ \ {key}
      /\ \A n \in DOMAIN s.forward_ \ {key} :
           t.forward_[n] = [i \in DOMAIN s.forward_[n] |-> link(n, i)]
  BY DEF Cut
<1> HIDE DEF link
<1>3. ASSUME NEW i \in Nat, i \in unlinked
      PROVE  /\ prev[i] \in OnLevel(s, i) /\ s.forward_[key][i] \in Keys \cup {nil_, NULL}
             /\ s.forward_[key][i] # NULL
  <2>1. key \in OnLevel(s, i) /\ prev[i] \in OnLevel(s, i)
    BY <1>3 DEF IsPred
  <2>2. i \in DOMAIN s.forward_[key] /\ s.forward_[key][i] # NULL
    BY <2>1 DEF OnLevel
  <2>3. PICK h \in 1 .. MaxHeight : Links(s.forward_[key], h)
    BY <1>1 DEF ShapeOK
  <2>4. QED BY <2>1, <2>2, <2>3 DEF Links
<1>4. ASSUME NEW n \in DOMAIN s.forward_ \ {key}, NEW h \in Nat, Links(s.forward_[n], h)
      PROVE  Links(t.forward_[n], h)
  <2>1. /\ DOMAIN s.forward_[n] = 0 .. h /\ s.forward_[n][h] = NULL
        /\ \A i \in 0 .. h : s.forward_[n][i] \in Keys \cup {nil_, NULL}
        /\ \A i \in 0 .. h - 1 : s.forward_[n][i] # NULL
    BY <1>4 DEF Links
  <2>2. ~ (h \in unlinked /\ prev[h] = n)
    <3>1. SUFFICES ASSUME h \in unlinked, prev[h] = n PROVE FALSE
      OBVIOUS
    <3>2. n \in OnLevel(s, h)
      BY <1>3, <3>1
    <3>3. QED BY <2>1, <3>2 DEF OnLevel
  <2>3. \A i \in 0 .. h : i \in Nat
    OBVIOUS
  <2>4. \A i \in 0 .. h : t.forward_[n][i] = link(n, i)
    <3>1. t.forward_[n] = [i \in DOMAIN s.forward_[n] |-> link(n, i)]
      BY <1>2, Zenon
    <3>2. t.forward_[n] = [i \in 0 .. h |-> link(n, i)]
      BY <2>1, <3>1, Zenon
    <3>3. QED BY <3>2, Zenon
  <2>5. DOMAIN t.forward_[n] = 0 .. h /\ t.forward_[n] = [i \in 0 .. h |-> t.forward_[n][i]]
    BY <1>2, <2>1
  <2>6. t.forward_[n][h] = NULL
    BY <2>1, <2>2, <2>4 DEF link
  <2>7. \A i \in 0 .. h : t.forward_[n][i] \in Keys \cup {nil_, NULL}
    BY <1>3, <2>1, <2>3, <2>4 DEF link
  <2>8. \A i \in 0 .. h - 1 : t.forward_[n][i] # NULL
    <3>1. ASSUME NEW i \in 0 .. h - 1 PROVE t.forward_[n][i] # NULL
      <4>1. i \in 0 .. h /\ i \in Nat
        OBVIOUS
      <4>2. t.forward_[n][i] = link(n, i)
        BY <2>4, <4>1
      <4>3. link(n, i) # NULL
        BY <1>3, <2>1, <4>1 DEF link
      <4>4. QED BY <4>2, <4>3
    <3>2. QED BY <3>1
  <2>9. t.forward_[n] \in [0 .. h -> Keys \cup {nil_, NULL}]
    BY <2>5, <2>7
  <2>10. QED BY <2>6, <2>8, <2>9 DEF Links
<1>5. ASSUME NEW i \in Nat, NEW n \in DOMAIN s.forward_ \ {key}
      PROVE  n \in OnLevel(t, i) <=> n \in OnLevel(s, i)
  <2>1. PICK h \in Nat : Links(s.forward_[n], h)
    BY <1>1, SkipListAssumption DEF ShapeOK
  <2>2. Links(t.forward_[n], h)
    BY <1>4, <2>1
  <2>3. /\ (i \in DOMAIN s.forward_[n] /\ s.forward_[n][i] # NULL) <=> i < h
        /\ (i \in DOMAIN t.forward_[n] /\ t.forward_[n][i] # NULL) <=> i < h
    BY <2>1, <2>2, LinksOn
  <2>4. QED BY <1>2, <2>3 DEF OnLevel
<1>6. ASSUME NEW i \in Nat PROVE OnLevel(t, i) = OnLevel(s, i) \ {key}
  <2>1. OnLevel(t, i) \subseteq DOMAIN s.forward_ \ {key} /\ OnLevel(s, i) \subseteq DOMAIN s.forward_
    BY <1>2 DEF OnLevel
  <2>2. QED BY <1>5, <2>1
<1>7. ASSUME NEW i \in Nat, NEW n \in OnLevel(s, i) \ {key}
      PROVE  t.forward_[n][i] = IF i \in unlinked /\ prev[i] = n THEN s.forward_[key][i]
                                ELSE s.forward_[n][i]
  <2>1. n \in DOMAIN s.forward_ \ {key} /\ i \in DOMAIN s.forward_[n]
    BY DEF OnLevel
  <2>2. t.forward_[n] = [j \in DOMAIN s.forward_[n] |-> link(n, j)]
    BY <1>2, <2>1, Zenon
  <2>3. t.forward_[n][i] = link(n, i)
    BY <2>1, <2>2, Zenon
  <2>4. QED BY <2>3, Zenon DEF link
<1>8. QED BY <1>4, <1>6, <1>7

LEMMA DeleteGood ==
  ASSUME NEW s, ListGood(s), Bounded, NEW key \in Keys
  PROVE  /\ ListGood(Delete(s, key))
         /\ Delete(s, key).val_ = [x \in DOMAIN s.val_ \ {key} |-> s.val_[x]]
<1> DEFINE t == Delete(s, key)
           prev == Prev(s, key)
           unlinked == UnlinkedLevels(s, prev, key)
           vals == [n \in DOMAIN s.val_ \ {key} |-> s.val_[n]]
<1>1. /\ ShapeOK(s) /\ LinksOK(s) /\ LevelsOK(s)
      /\ s.level_ \in Nat /\ key \in Nat \ {0}
      /\ MaxHeight \in Nat /\ MAX_LEVEL \in Nat /\ MaxHeight < MAX_LEVEL
  BY SkipListAssumption DEF ListGood, LevelsOK, Bounded
<1>2. HasNode(s, key) <=> key \in DOMAIN s.forward_
  BY <1>1, Found
<1>3. s.val_ \in [DOMAIN s.forward_ \ {header_} -> Vals]
  BY <1>1 DEF ShapeOK
<1>4. CASE ~ HasNode(s, key)
  <2>1. t = s
    BY <1>4 DEF Delete
  <2>2. s.val_ = vals
    BY <1>2, <1>3, <1>4
  <2>3. QED BY <2>1, <2>2
<1>5. CASE HasNode(s, key)
  <2> DEFINE lowered == LoweredLevel(s.level_, Cut(s, key, prev, unlinked)[header_])
  <2>1. t = [level_ |-> lowered, forward_ |-> Cut(s, key, prev, unlinked), val_ |-> vals]
    BY <1>5, Zenon DEF Delete, Cut
  <2>2. key \in DOMAIN s.forward_
    BY <1>2, <1>5
  <2>3. \A i \in Nat : /\ i \in unlinked <=> key \in OnLevel(s, i)
                       /\ key \in OnLevel(s, i) => IsPred(OnLevel(s, i), key, prev[i])
    BY <2>2, UnlinkedIs
  <2> HIDE DEF t, prev, unlinked, lowered
  <2>4. t.forward_ = Cut(s, key, prev, unlinked) /\ t.level_ = lowered /\ t.val_ = vals
        /\ t = [level_ |-> t.level_, forward_ |-> t.forward_, val_ |-> t.val_]
    BY <2>1
  <2>5. /\ \A n \in DOMAIN s.forward_ \ {key} : \A h \in Nat :
              Links(s.forward_[n], h) => Links(t.forward_[n], h)
        /\ \A i \in Nat : OnLevel(t, i) = OnLevel(s, i) \ {key}
        /\ \A i \in Nat : \A n \in OnLevel(s, i) \ {key} :
             t.forward_[n][i] = IF i \in unlinked /\ prev[i] = n THEN s.forward_[key][i]
                                ELSE s.forward_[n][i]
    BY <2>2, <2>3, <2>4, CutIs
  <2>6. DOMAIN t.forward_ = DOMAIN s.forward_ \ {key}
    BY <2>4 DEF Cut
  <2>7. vals \in [(DOMAIN s.forward_ \ {key}) \ {header_} -> Vals]
    BY <1>3
  <2> HIDE DEF vals
  <2>8. ShapeOK(t)
    <3>1. header_ \in DOMAIN t.forward_ /\ DOMAIN t.forward_ \subseteq Keys \cup {header_}
      BY <1>1, <2>6 DEF ShapeOK
    <3>2. Links(t.forward_[header_], MAX_LEVEL)
      BY <1>1, <2>5 DEF ShapeOK
    <3>3. ASSUME NEW n \in DOMAIN t.forward_ \ {header_}
          PROVE  \E h \in 1 .. MaxHeight : Links(t.forward_[n], h)
      <4>1. PICK h \in 1 .. MaxHeight : Links(s.forward_[n], h)
        BY <1>1, <2>6 DEF ShapeOK
      <4>2. QED BY <2>5, <2>6, <4>1
    <3>4. QED BY <2>4, <2>6, <2>7, <3>1, <3>2, <3>3 DEF ShapeOK
  <2>9. LinksOK(t)
    <3>1. SUFFICES ASSUME NEW i \in 0 .. MAX_LEVEL - 1, NEW n \in OnLevel(t, i)
                   PROVE  IsNext(OnLevel(t, i), n, t.forward_[n][i])
      BY DEF LinksOK
    <3> DEFINE L == OnLevel(s, i)
    <3>2. L \in SUBSET Nat /\ \A m \in L : IsNext(L, m, s.forward_[m][i])
      BY <1>1, Levels DEF LinksOK
    <3>3. OnLevel(t, i) = L \ {key} /\ n \in L \ {key} /\ i \in Nat
      BY <2>5
    <3>4. t.forward_[n][i] = IF i \in unlinked /\ prev[i] = n THEN s.forward_[key][i]
                             ELSE s.forward_[n][i]
      BY <2>5, <3>3
    <3>5. i \in unlinked <=> key \in L
      BY <2>3, <3>3
    <3>6. CASE i \in unlinked
      <4>1. key \in L /\ IsPred(L, key, prev[i])
        BY <2>3, <3>3, <3>6
      <4> HIDE DEF L
      <4>2. IsNext(L, key, s.forward_[key][i])
        BY <3>2, <4>1
      <4>3. /\ IsNext(L \ {key}, prev[i], s.forward_[key][i])
            /\ \A m \in L \ {key, prev[i]} : \A y : IsNext(L, m, y) => IsNext(L \ {key}, m, y)
        BY <1>1, <3>2, <4>1, <4>2, LinkOut
      <4>4. QED BY <3>2, <3>3, <3>4, <3>6, <4>3
    <3>7. CASE i \notin unlinked
      <4>1. L \ {key} = L
        BY <3>5, <3>7
      <4>2. QED BY <3>2, <3>3, <3>4, <3>7, <4>1
    <3>8. QED BY <3>6, <3>7
  <2>10. LevelsOK(t)
    <3> DEFINE used == {i \in 0 .. s.level_ : t.forward_[header_][i] # nil_}
    <3>1. t.level_ = Max({0} \cup used)
      BY <2>4 DEF lowered, LoweredLevel
    <3>2. 0 .. s.level_ \subseteq 0 .. MAX_LEVEL - 1 /\ s.level_ <= MaxHeight
      BY <1>1 DEF LevelsOK
    <3>3. \A i \in 0 .. s.level_ : i \in used <=> OnLevel(t, i) # {header_}
      BY <2>8, <2>9, <3>2, HeadNil
    <3>4. ({0} \cup used) \in SUBSET Nat /\ \A x \in {0} \cup used : x <= s.level_
      BY <1>1
    <3> HIDE DEF used
    <3>5. t.level_ \in {0} \cup used /\ \A y \in {0} \cup used : y <= t.level_
      <4> DEFINE S == {0} \cup used
      <4>1. S \in SUBSET Nat /\ S # {} /\ \A x \in S : x <= s.level_
        BY <3>4
      <4> HIDE DEF S
      <4>2. Max(S) \in S /\ \A y \in S : y <= Max(S)
        BY <1>1, <4>1, MaxIs
      <4>3. QED BY <3>1, <4>2 DEF S
    <3>6. t.level_ \in 0 .. MaxHeight /\ t.level_ \in 0 .. s.level_
      BY <1>1, <3>2, <3>4, <3>5
    <3>7. ASSUME NEW i \in 0 .. MAX_LEVEL - 1, OnLevel(t, i) # {header_} PROVE i <= t.level_
      <4>1. OnLevel(t, i) = OnLevel(s, i) \ {key} /\ header_ \in OnLevel(s, i)
        BY <1>1, <2>5, Levels
      <4>2. OnLevel(s, i) # {header_}
        BY <1>1, <3>7, <4>1
      <4>3. i \in 0 .. s.level_
        BY <1>1, <4>2 DEF LevelsOK
      <4>4. QED BY <3>3, <3>5, <3>7, <4>3
    <3>8. ASSUME t.level_ # 0 PROVE OnLevel(t, t.level_ - 1) # {header_}
      <4>1. OnLevel(t, t.level_) # {header_}
        BY <3>3, <3>5, <3>6, <3>8
      <4>2. t.level_ \in Nat /\ t.level_ - 1 \in Nat /\ t.level_ - 1 <= t.level_
            /\ t.level_ \in 0 .. MAX_LEVEL - 1
        BY <3>2, <3>6, <3>8
      <4>3. header_ \in OnLevel(t, t.level_) /\ OnLevel(t, t.level_) \subseteq OnLevel(t, t.level_ - 1)
        BY <2>8, <4>2, Levels
      <4>4. QED BY <4>1, <4>3
    <3>9. QED BY <3>6, <3>7, <3>8 DEF LevelsOK
  <2>11. QED BY <2>4, <2>8, <2>9, <2>10 DEF ListGood, t, vals
<1>6. QED BY <1>4, <1>5

-----------------------------------------------------------------------------
(* Every step keeps the invariant.                                         *)

\* The levels in use are the lowest ones, up to level_ or the one below it.
LEMMA TopIs ==
  ASSUME ListGood(list_), Bounded
  PROVE  /\ list_.level_ \in Nat
         /\ Top = IF OnLevel(list_, list_.level_) # {header_} THEN list_.level_ + 1
                  ELSE list_.level_
<1> DEFINE used == {i \in 0 .. MAX_LEVEL - 1 : list_.forward_[header_][i] \notin {nil_, NULL}}
           l == list_.level_
<1>1. /\ ShapeOK(list_) /\ LinksOK(list_) /\ LevelsOK(list_)
      /\ l \in Nat /\ l \in 0 .. MAX_LEVEL - 1 /\ MAX_LEVEL \in Nat
  BY SkipListAssumption DEF ListGood, LevelsOK, Bounded
<1>2. \A i \in 0 .. MAX_LEVEL - 1 : i \in used <=> OnLevel(list_, i) # {header_}
  <2>1. \A i \in 0 .. MAX_LEVEL - 1 : list_.forward_[header_][i] # NULL
    BY <1>1, Levels DEF OnLevel
  <2>2. \A i \in 0 .. MAX_LEVEL - 1 : list_.forward_[header_][i] # nil_ <=> OnLevel(list_, i) # {header_}
    BY <1>1, HeadNil
  <2>3. QED BY <2>1, <2>2
<1>3. used \subseteq 0 .. MAX_LEVEL - 1
  OBVIOUS
<1>4. Top = Cardinality(used)
  BY DEF Top
<1> HIDE DEF used, l
<1>5. \A i \in used : i \in 0 .. l
  BY <1>1, <1>2, <1>3 DEF LevelsOK, l
<1>6. ASSUME NEW j \in used, NEW i \in 0 .. j PROVE i \in used
  <2>1. i \in Nat /\ j \in Nat /\ i <= j /\ i \in 0 .. MAX_LEVEL - 1 /\ j \in 0 .. MAX_LEVEL - 1
    BY <1>1, <1>3
  <2>2. OnLevel(list_, j) # {header_} /\ header_ \in OnLevel(list_, j)
        /\ OnLevel(list_, j) \subseteq OnLevel(list_, i)
    BY <1>1, <1>2, <2>1, Levels
  <2>3. QED BY <1>2, <2>1, <2>2
<1>7. l = 0 \/ l - 1 \in used
  <2>1. l = 0 \/ OnLevel(list_, l - 1) # {header_}
    BY <1>1 DEF LevelsOK, l
  <2>2. QED BY <1>1, <1>2, <2>1
<1>8. CASE l \in used
  <2>1. used = 0 .. l
    BY <1>5, <1>6, <1>8
  <2>2. Cardinality(used) = l + 1
    BY <1>1, <2>1, FS_Interval
  <2>3. QED BY <1>1, <1>2, <1>4, <1>8, <2>2 DEF l
<1>9. CASE l \notin used
  <2>1. \A i \in used : i \in 0 .. l - 1
    BY <1>1, <1>5, <1>9
  <2>2. \A i \in 0 .. l - 1 : i \in used
    BY <1>1, <1>6, <1>7
  <2>3. used = 0 .. l - 1
    BY <2>1, <2>2
  <2>4. Cardinality(used) = l
    BY <1>1, <2>3, FS_Interval
  <2>5. QED BY <1>1, <1>2, <1>4, <1>9, <2>4 DEF l
<1>10. QED BY <1>8, <1>9

LEMMA GuardReaches ==
  ASSUME ListGood(list_), Bounded, NEW level,
         AnyHeight \/ level <= list_.level_ \/ list_.level_ = Top
  PROVE  Reaches(list_, level)
<1>1. /\ list_.level_ \in Nat /\ ShapeOK(list_)
      /\ Top = IF OnLevel(list_, list_.level_) # {header_} THEN list_.level_ + 1 ELSE list_.level_
  BY TopIs DEF ListGood
<1>2. CASE level <= list_.level_
  BY <1>2 DEF Reaches
<1>3. CASE list_.level_ = Top
  <2>1. OnLevel(list_, list_.level_) = {header_}
    BY <1>1, <1>3
  <2>2. ASSUME NEW i \in 0 .. MAX_LEVEL - 1, i >= list_.level_ PROVE OnLevel(list_, i) = {header_}
    <3>1. header_ \in OnLevel(list_, i) /\ OnLevel(list_, i) \subseteq OnLevel(list_, list_.level_)
      BY <1>1, <2>2, Levels
    <3>2. QED BY <2>1, <3>1
  <2>3. QED BY <2>2 DEF Reaches
<1>4. QED BY <1>2, <1>3 DEF Bounded

LEMMA InitGood == Init => ListGood(list_) /\ list_.val_ = <<>>
<1> SUFFICES ASSUME Init PROVE ListGood(list_) /\ list_.val_ = <<>>
  OBVIOUS
<1> DEFINE head == [i \in 0 .. MAX_LEVEL |-> IF i < MAX_LEVEL THEN nil_ ELSE NULL]
<1>1. MAX_LEVEL \in Nat \ {0} /\ MaxHeight \in 1 .. MAX_LEVEL
  BY SkipListAssumption
<1>2. list_ = [level_ |-> 0, forward_ |-> [n \in {header_} |-> head], val_ |-> <<>>]
  BY DEF Init
<1>3. Links(head, MAX_LEVEL)
  BY <1>1 DEF Links
<1> HIDE DEF head
<1>4. /\ list_.level_ = 0 /\ list_.val_ = <<>> /\ DOMAIN list_.forward_ = {header_}
      /\ list_.forward_[header_] = head
      /\ list_ = [level_ |-> list_.level_, forward_ |-> list_.forward_, val_ |-> list_.val_]
  BY <1>2
<1>5. <<>> \in [{} -> Vals]
  OBVIOUS
<1>6. ShapeOK(list_)
  BY <1>3, <1>4, <1>5 DEF ShapeOK
<1>7. \A i \in 0 .. MAX_LEVEL - 1 : OnLevel(list_, i) = {header_} /\ head[i] = nil_
  <2>1. ASSUME NEW i \in 0 .. MAX_LEVEL - 1 PROVE OnLevel(list_, i) = {header_} /\ head[i] = nil_
    <3>1. OnLevel(list_, i) \subseteq {header_} /\ header_ \in OnLevel(list_, i)
      BY <1>4, <1>6, Levels DEF OnLevel
    <3>2. head[i] = nil_
      BY <1>1 DEF head
    <3>3. QED BY <3>1, <3>2
  <2>2. QED BY <2>1
<1>8. LinksOK(list_)
  BY <1>4, <1>7 DEF LinksOK, IsNext
<1>9. LevelsOK(list_)
  BY <1>1, <1>4, <1>7 DEF LevelsOK
<1>10. QED BY <1>4, <1>6, <1>8, <1>9 DEF ListGood

\* The nodes' values are the map that KeyMap speaks of.
LEMMA MapIs ==
  ASSUME NEW s, ListGood(s), Bounded
  PROVE  [key \in {k \in Keys : HasNode(s, k)} |-> s.val_[key]] = s.val_
<1>1. s.val_ \in [DOMAIN s.forward_ \ {header_} -> Vals]
      /\ DOMAIN s.forward_ \subseteq Keys \cup {header_}
  BY DEF ListGood, ShapeOK
<1>2. \A k \in Keys : k \in Nat \ {0}
  BY SkipListAssumption
<1>3. {k \in Keys : HasNode(s, k)} = DOMAIN s.forward_ \ {header_}
  BY <1>1, <1>2, Found
<1>4. QED BY <1>1, <1>3

\* A call keeps the invariant and changes the values as KeyMap allows.
LEMMA NextGood ==
  ASSUME ListGood(list_), Bounded, Next
  PROVE  /\ ListGood(list_')
         /\ \/ \E key \in Keys, val \in Vals :
                 list_'.val_ = [x \in DOMAIN list_.val_ \cup {key} |->
                                  IF x \in DOMAIN list_.val_ THEN list_.val_[x] ELSE val]
            \/ \E key \in Keys : list_'.val_ = [x \in DOMAIN list_.val_ \ {key} |-> list_.val_[x]]
<1>1. ASSUME NEW key \in Keys, NEW val \in Vals, NEW level \in 1 .. MaxHeight,
             InsertKey(key, val, level)
      PROVE  /\ ListGood(list_')
             /\ list_'.val_ = [x \in DOMAIN list_.val_ \cup {key} |->
                                 IF x \in DOMAIN list_.val_ THEN list_.val_[x] ELSE val]
  <2>1. list_' = Insert(list_, key, val, level) /\ Reaches(list_, level)
    BY <1>1, GuardReaches DEF InsertKey
  <2>2. /\ ListGood(Insert(list_, key, val, level))
        /\ Insert(list_, key, val, level).val_
             = [x \in DOMAIN list_.val_ \cup {key} |-> IF x \in DOMAIN list_.val_ THEN list_.val_[x] ELSE val]
    BY <2>1, InsertGood
  <2>3. QED BY <2>1, <2>2
<1>2. ASSUME NEW key \in Keys, DeleteKey(key)
      PROVE  ListGood(list_') /\ list_'.val_ = [x \in DOMAIN list_.val_ \ {key} |-> list_.val_[x]]
  <2>1. list_' = Delete(list_, key)
    BY <1>2 DEF DeleteKey
  <2>2. /\ ListGood(Delete(list_, key))
        /\ Delete(list_, key).val_ = [x \in DOMAIN list_.val_ \ {key} |-> list_.val_[x]]
    BY DeleteGood
  <2>3. QED BY <2>1, <2>2
<1>3. QED BY <1>1, <1>2 DEF Next

THEOREM AlwaysGood == Bounded => (Spec => []ListGood(list_))
<1> SUFFICES ASSUME Bounded PROVE Spec => []ListGood(list_)
  OBVIOUS
<1>1. Init => ListGood(list_)
  BY InitGood
<1>2. ListGood(list_) /\ [Next]_list_ => ListGood(list_)'
  <2>1. CASE Next
    BY <2>1, NextGood
  <2>2. CASE UNCHANGED list_
    BY <2>2
  <2>3. QED BY <2>1, <2>2
<1>3. QED BY <1>1, <1>2, PTL DEF Spec

-----------------------------------------------------------------------------
(* The theorems.                                                           *)

\* The successors of a node, and their number, from its shape.
LEMMA HeightIs ==
  ASSUME ListGood(list_), NEW n \in DOMAIN list_.forward_
  PROVE  \E h \in 1 .. MAX_LEVEL : Links(list_.forward_[n], h) /\ Height(n) = h
<1>1. PICK h \in 1 .. MAX_LEVEL : Links(list_.forward_[n], h)
  BY SkipListAssumption DEF ListGood, ShapeOK
<1>2. Cardinality(0 .. h) = h + 1
  BY FS_Interval
<1>3. Height(n) = h
  BY <1>1, <1>2 DEF Height, Links
<1>4. QED BY <1>1, <1>3

\* The list is well formed: no successor is read that was never set, every node
\* has at least one level, and nothing points outside the list's keys.
THEOREM TypeCorrect == Bounded => (Spec => []TypeOK)
<1> SUFFICES ASSUME Bounded PROVE Spec => []TypeOK
  OBVIOUS
<1>1. ListGood(list_) => TypeOK
  <2>1. SUFFICES ASSUME ListGood(list_) PROVE TypeOK
    OBVIOUS
  <2>2. /\ list_.level_ \in 0 .. MAX_LEVEL
        /\ Nodes \subseteq Keys /\ list_.val_ \in [Nodes -> Vals]
    BY <2>1, SkipListAssumption DEF ListGood, ShapeOK, LevelsOK, Nodes
  <2>3. ASSUME NEW n \in DOMAIN list_.forward_
        PROVE  /\ \E level \in 1 .. MAX_LEVEL : DOMAIN list_.forward_[n] = 0 .. level
               /\ list_.forward_[n][Height(n)] = NULL
               /\ \A i \in 0 .. Height(n) - 1 : list_.forward_[n][i] \in Keys \cup {nil_}
    <3>1. PICK h \in 1 .. MAX_LEVEL : Links(list_.forward_[n], h) /\ Height(n) = h
      BY <2>1, HeightIs
    <3>2. QED BY <3>1 DEF Links
  <2>4. QED BY <2>2, <2>3 DEF TypeOK
<1>2. Spec => []ListGood(list_)
  BY AlwaysGood
<1>3. QED BY <1>1, <1>2, PTL

\* On every level every node points to the next higher node of that level.
THEOREM LevelsSorted == Bounded => (Spec => []LevelsLinked)
<1> SUFFICES ASSUME Bounded PROVE Spec => []LevelsLinked
  OBVIOUS
<1>1. ListGood(list_) => LevelsLinked
  <2>1. SUFFICES ASSUME ListGood(list_), NEW i \in 0 .. MAX_LEVEL - 1,
                        NEW n \in {header_} \cup {m \in Nodes : i < Height(m)}
                 PROVE  LET after == {m \in Nodes : i < Height(m) /\ n < m}
                        IN  list_.forward_[n][i] = IF after = {} THEN nil_ ELSE Min(after)
    BY DEF LevelsLinked
  <2> DEFINE L == OnLevel(list_, i)
             after == {m \in Nodes : i < Height(m) /\ n < m}
             x == list_.forward_[n][i]
  <2>2. L \in SUBSET Nat /\ header_ \in L
    BY <2>1, Levels DEF ListGood
  <2>3. ASSUME NEW m \in Nodes PROVE m \in L <=> i < Height(m)
    <3>1. PICK h \in 1 .. MAX_LEVEL : Links(list_.forward_[m], h) /\ Height(m) = h
      BY <2>1, HeightIs DEF Nodes
    <3>2. QED BY <3>1, LinksOn DEF OnLevel, Nodes
  <2>4. L \subseteq Nodes \cup {header_}
    BY DEF OnLevel, Nodes
  <2>5. n \in L
    BY <2>2, <2>3
  <2>6. IsNext(L, n, x)
    BY <2>1, <2>5 DEF ListGood, LinksOK
  <2>7. after = {m \in L : n < m}
    <3>1. \A m \in L : n < m => m # header_
      BY <2>2, <2>5
    <3>2. QED BY <2>3, <2>4, <3>1 DEF Nodes
  <2> HIDE DEF L, after, x
  <2>8. CASE after = {}
    <3>1. x = nil_
      BY <2>6, <2>7, <2>8 DEF IsNext
    <3>2. QED BY <2>8, <3>1 DEF x, after
  <2>9. CASE after # {}
    <3>1. x \in after /\ \A m \in after : x <= m
      BY <2>6, <2>7, <2>9 DEF IsNext
    <3>2. after \in SUBSET Nat
      BY <2>2, <2>7
    <3>3. Min(after) \in after /\ \A m \in after : Min(after) <= m
      BY <2>9, <3>2, MinExists
    <3>4. x \in Nat /\ Min(after) \in Nat /\ x <= Min(after) /\ Min(after) <= x
      BY <3>1, <3>2, <3>3
    <3>5. x = Min(after)
      BY <3>4
    <3>6. QED BY <2>9, <3>5 DEF x, after
  <2>10. QED BY <2>8, <2>9 DEF after, x
<1>2. Spec => []ListGood(list_)
  BY AlwaysGood
<1>3. QED BY <1>1, <1>2, PTL

\* Whatever was inserted and deleted, a search starts on the highest level in
\* use or on the one above it.
THEOREM StartsNearTop == Bounded => (Spec => []LevelNearTop)
<1> SUFFICES ASSUME Bounded PROVE Spec => []LevelNearTop
  OBVIOUS
<1>1. ListGood(list_) => LevelNearTop
  BY TopIs DEF LevelNearTop
<1>2. Spec => []ListGood(list_)
  BY AlwaysGood
<1>3. QED BY <1>1, <1>2, PTL

\* A node that was inserted and not deleted is found.
THEOREM NodesAreFound == Bounded => (Spec => []InsertedIsFound)
<1> SUFFICES ASSUME Bounded PROVE Spec => []InsertedIsFound
  OBVIOUS
<1>1. ListGood(list_) => InsertedIsFound
  BY Found, SkipListAssumption DEF InsertedIsFound, ListGood, ShapeOK, Nodes
<1>2. Spec => []ListGood(list_)
  BY AlwaysGood
<1>3. QED BY <1>1, <1>2, PTL

\* A search follows no successor that is not set, on any level.
THEOREM SearchesDefined == Bounded => (Spec => []SearchStaysOnLevels)
<1> SUFFICES ASSUME Bounded PROVE Spec => []SearchStaysOnLevels
  OBVIOUS
<1>1. ListGood(list_) => SearchStaysOnLevels
  <2>1. SUFFICES ASSUME ListGood(list_) PROVE SearchStaysOnLevels
    OBVIOUS
  <2>2. /\ ShapeOK(list_) /\ list_.level_ \in 0 .. list_.level_
        /\ 0 .. list_.level_ \subseteq 0 .. MAX_LEVEL - 1
    BY <2>1, SkipListAssumption DEF ListGood, LevelsOK, Bounded
  <2>3. \A i \in 0 .. list_.level_ : OnLevel(list_, i) \in SUBSET Nat /\ header_ \in OnLevel(list_, i)
    BY <2>2, Levels
  <2>4. ASSUME NEW key \in Keys, NEW i \in 0 .. list_.level_
        PROVE  Prev(list_, key)[i] \in OnLevel(list_, i)
    <3>1. key \in Nat \ {0}
      BY SkipListAssumption
    <3>2. Prev(list_, key)[i] = Pred(OnLevel(list_, i), key)
      BY <2>1, <3>1, PrevIs
    <3>3. IsPred(OnLevel(list_, i), key, Pred(OnLevel(list_, i), key))
      BY <2>3, <3>1, PredExists
    <3>4. QED BY <3>2, <3>3 DEF IsPred
  <2>5. QED BY <2>2, <2>3, <2>4 DEF SearchStaysOnLevels
<1>2. Spec => []ListGood(list_)
  BY AlwaysGood
<1>3. QED BY <1>1, <1>2, PTL

\* What Search finds is the map of the inserts and deletes so far, in which the
\* first value of a key is the one it keeps.
THEOREM Implements == Bounded => (Spec => ImplementsKeyMap)
<1> SUFFICES ASSUME Bounded PROVE Spec => ImplementsKeyMap
  OBVIOUS
<1> DEFINE map == [key \in {k \in Keys : HasNode(list_, k)} |-> list_.val_[key]]
<1>1. Init => M!Init
  BY InitGood, MapIs DEF M!Init
<1>2. ListGood(list_) /\ [Next]_list_ => [M!Next(Keys, Vals)]_list_
  <2>1. SUFFICES ASSUME ListGood(list_), Next PROVE M!Next(Keys, Vals)
    OBVIOUS
  <2>2. ListGood(list_')
        /\ (\/ \E key \in Keys, val \in Vals :
                 list_'.val_ = [x \in DOMAIN list_.val_ \cup {key} |->
                                  IF x \in DOMAIN list_.val_ THEN list_.val_[x] ELSE val]
            \/ \E key \in Keys : list_'.val_ = [x \in DOMAIN list_.val_ \ {key} |-> list_.val_[x]])
    BY <2>1, NextGood
  <2>3. map = list_.val_
    BY <2>1, MapIs
  <2>4. [key \in {k \in Keys : HasNode(list_', k)} |-> list_'.val_[key]] = list_'.val_
    BY <2>1, <2>2, MapIs
  <2>5. map' = list_'.val_
    BY <2>4
  <2> DEFINE grown(m, key, val) == [x \in DOMAIN m \cup {key} |-> IF x \in DOMAIN m THEN m[x] ELSE val]
             shrunk(m, key) == [x \in DOMAIN m \ {key} |-> m[x]]
  <2>6. (\E key \in Keys, val \in Vals : list_'.val_ = grown(list_.val_, key, val))
        \/ (\E key \in Keys : list_'.val_ = shrunk(list_.val_, key))
    BY <2>2
  <2> HIDE DEF map, grown, shrunk
  <2>7. ASSUME NEW key \in Keys, NEW val \in Vals, list_'.val_ = grown(list_.val_, key, val)
        PROVE  M!Next(Keys, Vals)
    <3>1. map' = grown(map, key, val)
      BY <2>3, <2>5, <2>7
    <3>2. M!Insert(key, val)
      BY <3>1, Zenon DEF M!Insert, map, grown
    <3>3. QED BY <3>2 DEF M!Next
  <2>8. ASSUME NEW key \in Keys, list_'.val_ = shrunk(list_.val_, key) PROVE M!Next(Keys, Vals)
    <3>1. map' = shrunk(map, key)
      BY <2>3, <2>5, <2>8
    <3>2. M!Delete(key)
      BY <3>1, Zenon DEF M!Delete, map, shrunk
    <3>3. QED BY <3>2 DEF M!Next
  <2>9. QED BY <2>6, <2>7, <2>8
<1>3. Spec => []ListGood(list_)
  BY AlwaysGood
<1>4. QED BY <1>1, <1>2, <1>3, PTL DEF Spec, ImplementsKeyMap
=============================================================================
