---------------------------- MODULE NotifQueueProofs ---------------------------
(***************************************************************************)
(* What holds of RDIPriorityQueue for arrays of any length, and of the     *)
(* queue of a proxy for any number of events, policies, limits and widths. *)
(***************************************************************************)
EXTENDS NotifQueue, FiniteSetTheorems, SequenceTheorems, WellFoundedInduction, TLAPS

--------------------------------------------------------------------------------
(* Numbers and recursion *)

Below == {p \in Nat \X Nat : p[1] < p[2]}

\* A set of numbers has a least one.
LEMMA Least ==
  ASSUME NEW S \in SUBSET Nat, S # {}
  PROVE  \E x \in S : \A y \in S : x <= y
<1>1. IsWellFoundedOn(Below, Nat)
  BY NatLessThanWellFounded DEF OpToRel, Below
<1>2. PICK x \in S : \A y \in S : <<y, x>> \notin Below
  BY <1>1, WFMin
<1>3. \A y \in S : ~ (y < x)
  BY <1>2 DEF Below
<1> QED BY <1>3

\* A function may be given by its first value and the step from one value to the next.
Stepped(f, V, first, step, m) ==
  f \in [0..m -> V] /\ f[0] = first /\ \A n \in 1..m : f[n] = step[<<f[n - 1], n>>]

LEMMA OneMoreStep ==
  ASSUME NEW N \in Nat, NEW m \in 1..N, NEW V, NEW first \in V, NEW step \in [V \X (1..N) -> V],
         NEW f, Stepped(f, V, first, step, m - 1)
  PROVE  \E g : Stepped(g, V, first, step, m)
<1> DEFINE v == step[<<f[m - 1], m>>]
           g == [n \in 0..m |-> IF n = m THEN v ELSE f[n]]
<1>1. /\ f \in [0..(m - 1) -> V] /\ f[0] = first
      /\ \A n \in 1..(m - 1) : f[n] = step[<<f[n - 1], n>>]
  BY DEF Stepped
<1>2. m - 1 \in 0..(m - 1) /\ 0 \in 0..(m - 1)
  OBVIOUS
<1>3. v \in V
  BY <1>1, <1>2
<1>4. g[m] = v /\ \A n \in 0..(m - 1) : g[n] = f[n]
  <2> HIDE DEF v
  <2>1. m \in 0..m /\ \A n \in 0..(m - 1) : n \in 0..m /\ n # m
    OBVIOUS
  <2> QED BY <2>1
<1>5. g \in [0..m -> V]
  <2> HIDE DEF v
  <2>1. \A n \in 0..m : n = m \/ n \in 0..(m - 1)
    OBVIOUS
  <2> QED BY <1>1, <1>3, <2>1
<1>6. v = step[<<f[m - 1], m>>]
  OBVIOUS
<1> HIDE DEF g, v
<1>7. ASSUME NEW n \in 1..m PROVE g[n] = step[<<g[n - 1], n>>]
  <2>1. n - 1 \in 0..(m - 1)
    OBVIOUS
  <2>2. g[n - 1] = f[n - 1]
    BY <1>4, <2>1
  <2>3. CASE n = m
    BY <1>4, <1>6, <2>2, <2>3
  <2>4. CASE n # m
    <3>1. n \in 1..(m - 1) /\ n \in 0..(m - 1)
      BY <2>4
    <3> QED BY <1>1, <1>4, <2>2, <3>1
  <2> QED BY <2>3, <2>4
<1>8. g[0] = first
  BY <1>1, <1>2, <1>4
<1> QED BY <1>5, <1>7, <1>8 DEF Stepped

LEMMA StepByStep ==
  ASSUME NEW N \in Nat, NEW V, NEW first \in V, NEW step \in [V \X (1..N) -> V]
  PROVE  \E f : Stepped(f, V, first, step, N)
<1> DEFINE Bad == {m \in 0..N : ~ \E f : Stepped(f, V, first, step, m)}
<1>a. \A m \in 0..N : m \in Bad \/ \E f : Stepped(f, V, first, step, m)
  OBVIOUS
<1>b. Bad \in SUBSET (0..N)
  OBVIOUS
<1>c. \A m \in Bad : ~ \E f : Stepped(f, V, first, step, m)
  OBVIOUS
<1> HIDE DEF Bad
<1>1. SUFFICES ASSUME Bad # {} PROVE FALSE
  BY <1>a
<1>2. PICK m \in Bad : \A k \in Bad : m <= k
  <2>1. Bad \in SUBSET Nat
    BY <1>b
  <2> QED BY <1>1, <2>1, Least
<1>3. m # 0
  <2> DEFINE f == [n \in 0..0 |-> first]
  <2>1. f \in [0..0 -> V] /\ f[0] = first /\ 1..0 = {}
    OBVIOUS
  <2> HIDE DEF f
  <2>2. Stepped(f, V, first, step, 0)
    BY <2>1 DEF Stepped
  <2> QED BY <1>c, <2>2
<1>4. m \in 1..N /\ m - 1 \in 0..N /\ m - 1 \notin Bad
  BY <1>2, <1>3, <1>b
<1>5. PICK f : Stepped(f, V, first, step, m - 1)
  BY <1>4, <1>a
<1>6. \E g : Stepped(g, V, first, step, m)
  BY <1>4, <1>5, OneMoreStep
<1> QED BY <1>6, <1>c

--------------------------------------------------------------------------------
(* Ways through an array.  From each index a way goes on to another one, or    *)
(* stops when next is 0; rank falls along the way.                             *)

Ways(path, next, N) ==
  path = [i \in 1..N |-> {i} \cup IF next[i] # 0 THEN path[next[i]] ELSE {}]

\* There are such ways: the least sets that contain where they start and where they go on to.
LEMMA WaysExist ==
  ASSUME NEW N \in Nat, NEW next \in [1..N -> 0..N]
  PROVE  \E path : Ways(path, next, N)
<1> DEFINE Closed(S, i) == i \in S /\ \A k \in S : next[k] # 0 => next[k] \in S
           path == [i \in 1..N |-> {j \in 1..N : \A S \in SUBSET (1..N) : Closed(S, i) => j \in S}]
<1>1. ASSUME NEW i \in 1..N
      PROVE  path[i] = {i} \cup IF next[i] # 0 THEN path[next[i]] ELSE {}
  <2>1. i \in path[i]
    OBVIOUS
  <2>2. ASSUME next[i] # 0, NEW j \in path[next[i]]
        PROVE  j \in path[i]
    <3>1. next[i] \in 1..N
      BY <2>2
    <3>2. \A S \in SUBSET (1..N) : Closed(S, i) => Closed(S, next[i])
      BY <2>2
    <3> QED BY <2>2, <3>1, <3>2
  <2>3. ASSUME NEW j \in path[i]
        PROVE  j = i \/ (next[i] # 0 /\ j \in path[next[i]])
    <3>1. CASE next[i] = 0
      <4>1. Closed({i}, i) /\ {i} \in SUBSET (1..N)
        BY <3>1
      <4> QED BY <2>3, <4>1
    <3>2. CASE next[i] # 0
      <4> DEFINE T == {i} \cup path[next[i]]
      <4>1. next[i] \in 1..N
        BY <3>2
      <4>2. T \in SUBSET (1..N)
        BY <4>1
      <4>3. next[i] \in T
        BY <4>1
      <4>4. ASSUME NEW k \in path[next[i]], next[k] # 0
            PROVE  next[k] \in path[next[i]]
        <5>1. next[k] \in 1..N /\ k \in 1..N
          BY <4>1, <4>4
        <5>2. ASSUME NEW S \in SUBSET (1..N), Closed(S, next[i])
              PROVE  next[k] \in S
          <6>1. k \in S
            BY <4>1, <4>4, <5>2
          <6> QED BY <4>4, <5>2, <6>1
        <5> QED BY <4>1, <5>1, <5>2
      <4>5. Closed(T, i)
        BY <4>3, <4>4
      <4>6. j \in T
        BY <2>3, <4>2, <4>5
      <4> QED BY <3>2, <4>6
    <3> QED BY <3>1, <3>2
  <2> HIDE DEF path
  <2> QED BY <2>1, <2>2, <2>3
<1>2. path = [i \in 1..N |-> {i} \cup IF next[i] # 0 THEN path[next[i]] ELSE {}]
  <2>1. path = [i \in 1..N |-> path[i]]
    OBVIOUS
  <2> HIDE DEF path
  <2> QED BY <1>1, <2>1
<1> QED BY <1>2 DEF Ways

\* Where a way from s goes: it starts at s, goes on as next says, comes to each index from
\* one other, and stops at one index, which is the last.
Leads(P, next, rank, N, s) ==
  /\ s \in P /\ P \subseteq 1..N
  /\ \A j \in P : next[j] # 0 => next[j] \in P
  /\ \A j \in P : j # s => \E k \in P : next[k] = j
  /\ \A j \in P : rank[j] <= rank[s]
  /\ \A j, k \in P : next[j] = next[k] => j = k
  /\ \E j \in P : next[j] = 0
  /\ \A j, k \in P : next[j] = 0 => rank[j] <= rank[k]

LEMMA WaysLead ==
  ASSUME NEW N \in Nat, NEW next \in [1..N -> 0..N], NEW rank \in [1..N -> Nat],
         \A i \in 1..N : next[i] # 0 => rank[next[i]] < rank[i],
         NEW path, Ways(path, next, N), NEW s \in 1..N
  PROVE  Leads(path[s], next, rank, N, s)
<1> DEFINE Bad == {rank[i] : i \in {k \in 1..N : ~Leads(path[k], next, rank, N, k)}}
<1>1. SUFFICES ASSUME Bad # {} PROVE FALSE
  OBVIOUS
<1>2. PICK r \in Bad : \A x \in Bad : r <= x
  <2>1. Bad \in SUBSET Nat
    OBVIOUS
  <2> HIDE DEF Bad
  <2> QED BY <1>1, <2>1, Least
<1>3. PICK i \in 1..N : r = rank[i] /\ ~Leads(path[i], next, rank, N, i)
  OBVIOUS
<1>4. \A k \in 1..N : rank[k] < rank[i] => Leads(path[k], next, rank, N, k)
  <2> SUFFICES ASSUME NEW k \in 1..N, rank[k] < rank[i], ~Leads(path[k], next, rank, N, k)
               PROVE  FALSE
    OBVIOUS
  <2>1. rank[k] \in Bad
    OBVIOUS
  <2> HIDE DEF Bad
  <2>2. rank[i] <= rank[k]
    BY <1>2, <1>3, <2>1
  <2> QED BY <2>2
<1>5. path[i] = {i} \cup IF next[i] # 0 THEN path[next[i]] ELSE {}
  BY DEF Ways
<1> HIDE DEF Bad
<1>6. CASE next[i] = 0
  <2>1. path[i] = {i}
    BY <1>5, <1>6
  <2> QED BY <1>3, <1>6, <2>1 DEF Leads
<1>7. CASE next[i] # 0
  <2> DEFINE m == next[i]
  <2>1. m \in 1..N /\ rank[m] < rank[i]
    BY <1>7
  <2>2. Leads(path[m], next, rank, N, m)
    BY <1>4, <2>1
  <2>3. path[i] = {i} \cup path[m]
    BY <1>5, <1>7
  <2>4. \A j \in path[m] : j \in 1..N /\ rank[j] < rank[i] /\ j # i
    BY <2>1, <2>2 DEF Leads
  <2>5. \A k \in path[m] : next[k] # m
    <3> SUFFICES ASSUME NEW k \in path[m], next[k] = m PROVE FALSE
      OBVIOUS
    <3>1. rank[m] < rank[k] /\ rank[k] <= rank[m] /\ rank[k] \in Nat /\ rank[m] \in Nat
      BY <2>1, <2>2, <2>4 DEF Leads
    <3> QED BY <3>1
  <2> HIDE DEF m
  <2>6. m = next[i] /\ m # 0
    BY <1>7 DEF m
  <2>7. i \in path[i] /\ path[i] \subseteq 1..N
    BY <2>3, <2>4
  <2>8. \A j \in path[i] : next[j] # 0 => next[j] \in path[i]
    BY <2>2, <2>3, <2>6 DEF Leads
  <2>9. \A j \in path[i] : j # i => \E k \in path[i] : next[k] = j
    BY <2>2, <2>3, <2>6 DEF Leads
  <2>10. \A j \in path[i] : rank[j] <= rank[i]
    BY <2>3, <2>4
  <2>11. \A j, k \in path[i] : next[j] = next[k] => j = k
    BY <2>2, <2>3, <2>5, <2>6 DEF Leads
  <2>12. \E j \in path[i] : next[j] = 0
    BY <2>2, <2>3 DEF Leads
  <2>13. \A j, k \in path[i] : next[j] = 0 => rank[j] <= rank[k]
    <3> SUFFICES ASSUME NEW j \in path[i], NEW k \in path[i], next[j] = 0 PROVE rank[j] <= rank[k]
      OBVIOUS
    <3>1. j \in path[m]
      BY <2>3, <2>6
    <3>2. CASE k \in path[m]
      BY <2>2, <3>1, <3>2 DEF Leads
    <3>3. CASE k = i
      BY <2>10, <3>3
    <3> QED BY <2>3, <3>2, <3>3
  <2> QED BY <1>3, <2>7, <2>8, <2>9, <2>10, <2>11, <2>12, <2>13 DEF Leads
<1> QED BY <1>6, <1>7

--------------------------------------------------------------------------------
(* Insertion                                                                    *)

\* r has the elements of s in another order.
Rearranges(f, n) ==
  /\ f \in [1..n -> 1..n]
  /\ \A i, j \in 1..n : f[i] = f[j] => i = j
  /\ \A k \in 1..n : \E i \in 1..n : f[i] = k
Rearranged(r, s) ==
  /\ Len(r) = Len(s)
  /\ \E f : Rearranges(f, Len(s)) /\ \A i \in 1..Len(s) : r[i] = s[f[i]]

Keys(D) == \A d \in D : d.pri \in Int /\ d.sec \in Int

LEMMA Indexes ==
  /\ \A i \in Nat : Left(i) \in Nat /\ Right(i) \in Nat /\ Left(i) >= i /\ Right(i) = Left(i) + 1
  /\ \A i \in Nat \ {0} : Left(i) > i /\ Parent(Left(i)) = i /\ Parent(Right(i)) = i
  /\ \A i \in Nat : i > 1 => /\ Parent(i) \in 1..(i - 1)
                             /\ i = Left(Parent(i)) \/ i = Right(Parent(i))
  /\ Parent(1) = 0
BY DEF Left, Right, Parent

\* Keys are compared as numbers are, with the lowest or the highest first.
LEMMA Comparing ==
  ASSUME NEW lowest \in BOOLEAN, NEW a \in Int, NEW b \in Int
  PROVE  /\ Before(lowest, a, b) => ~Before(lowest, b, a)
         /\ \A c \in Int : ~Before(lowest, a, b) /\ ~Before(lowest, b, c) => ~Before(lowest, a, c)
<1>1. CASE lowest
  BY <1>1 DEF Before
<1>2. CASE ~lowest
  BY <1>2 DEF Before
<1> QED BY <1>1, <1>2

\* Where the entries on the way up come from.
UpFrom(q, lowest, entry) ==
  [i \in 1..(Len(q) + 1) |-> IF Rises(q, lowest, entry, i) THEN Parent(i) ELSE 0]

LEMMA UpFromIs ==
  ASSUME NEW D, NEW q \in Seq(D), NEW lowest, NEW entry
  PROVE  /\ Len(q) + 1 \in Nat \ {0} /\ UpFrom(q, lowest, entry) \in [1..(Len(q) + 1) -> 0..Len(q)]
         /\ \A i \in 1..(Len(q) + 1) :
              /\ UpFrom(q, lowest, entry)[i] # 0 <=> Rises(q, lowest, entry, i)
              /\ UpFrom(q, lowest, entry)[i] # 0 =>
                   i > 1 /\ UpFrom(q, lowest, entry)[i] = Parent(i) /\ Parent(i) \in 1..Len(q) /\ Parent(i) < i
<1>1. Len(q) \in Nat
  OBVIOUS
<1>2. ASSUME NEW i \in 1..(Len(q) + 1), Rises(q, lowest, entry, i)
      PROVE  i > 1 /\ Parent(i) \in 1..Len(q) /\ Parent(i) < i
  <2>1. i > 1
    BY <1>2 DEF Rises
  <2>2. Parent(i) \in 1..(i - 1)
    BY <2>1, Indexes
  <2> QED BY <1>1, <2>1, <2>2
<1> QED BY <1>1, <1>2 DEF UpFrom

LEMMA WayUpLeads ==
  ASSUME NEW D, NEW q \in Seq(D), NEW lowest, NEW entry
  PROVE  Leads(WayUp(q, lowest, entry), UpFrom(q, lowest, entry), [i \in 1..(Len(q) + 1) |-> i],
               Len(q) + 1, Len(q) + 1)
<1> DEFINE n == Len(q) + 1
           next == UpFrom(q, lowest, entry)
           rank == [i \in 1..n |-> i]
           IsPath(p) == p = [i \in 1..(Len(q) + 1) |->
                               {i} \cup IF Rises(q, lowest, entry, i) THEN p[Parent(i)] ELSE {}]
           path == CHOOSE p : IsPath(p)
<1>1. /\ n \in Nat \ {0} /\ next \in [1..n -> 0..n] /\ rank \in [1..n -> Nat] /\ n \in 1..n
      /\ \A i \in 1..n : next[i] # 0 => rank[next[i]] < rank[i]
  <2>1. Len(q) \in Nat
    OBVIOUS
  <2>2. next \in [1..n -> 0..n]
    BY <2>1, UpFromIs
  <2>3. ASSUME NEW i \in 1..n, next[i] # 0
        PROVE  rank[next[i]] < rank[i]
    <3>1. next[i] = Parent(i) /\ Parent(i) \in 1..Len(q) /\ Parent(i) < i
      BY <2>3, UpFromIs
    <3> QED BY <2>1, <3>1
  <2>4. n \in Nat \ {0} /\ rank \in [1..n -> Nat] /\ n \in 1..n
    BY <2>1
  <2> QED BY <2>2, <2>3, <2>4
<1>2. ASSUME NEW p
      PROVE  Ways(p, next, n) <=> IsPath(p)
  <2>1. \A i \in 1..n : (IF next[i] # 0 THEN p[next[i]] ELSE {})
                          = (IF Rises(q, lowest, entry, i) THEN p[Parent(i)] ELSE {})
    BY UpFromIs
  <2> HIDE DEF next
  <2>2. [i \in 1..n |-> {i} \cup IF next[i] # 0 THEN p[next[i]] ELSE {}]
          = [i \in 1..n |-> {i} \cup IF Rises(q, lowest, entry, i) THEN p[Parent(i)] ELSE {}]
    BY <2>1
  <2> QED BY <2>2 DEF Ways
<1> HIDE DEF next, rank, n
<1>3. \E p : Ways(p, next, n)
  BY <1>1, WaysExist
<1>4. \E p : IsPath(p)
  BY <1>2, <1>3
<1>5. IsPath(path)
  <2> HIDE DEF IsPath
  <2> QED BY <1>4
<1>6. Ways(path, next, n)
  BY <1>2, <1>5
<1>7. WayUp(q, lowest, entry) = path[n]
  BY DEF WayUp, n
<1> HIDE DEF path
<1>8. Leads(path[n], next, rank, n, n)
  BY <1>1, <1>6, WaysLead
<1> QED BY <1>7, <1>8 DEF next, rank, n

\* An entry is on the way of another one exactly if it moves up, or stays, where that rises.
LEMMA WayUpIs ==
  ASSUME NEW D, NEW q \in Seq(D), NEW lowest, NEW entry, NEW P, P = WayUp(q, lowest, entry),
         NEW n, n = Len(q) + 1
  PROVE  /\ n \in P /\ P \subseteq 1..n
         /\ \A i \in P : Parent(i) \in P <=> Rises(q, lowest, entry, i)
         /\ \A i \in P : Rises(q, lowest, entry, i) => i > 1 /\ Parent(i) \in 1..Len(q)
         /\ \A i \in P : i # n => \E c \in P : Rises(q, lowest, entry, c) /\ Parent(c) = i
         /\ \A i, j \in P : Rises(q, lowest, entry, i) /\ Rises(q, lowest, entry, j) /\ Parent(i) = Parent(j) => i = j
         /\ \A i, j \in P : ~Rises(q, lowest, entry, i) /\ ~Rises(q, lowest, entry, j) => i = j
         /\ \E i \in P : ~Rises(q, lowest, entry, i)
<1> DEFINE next == UpFrom(q, lowest, entry)
           rank == [i \in 1..n |-> i]
<1>1. Leads(P, next, rank, n, n)
  BY WayUpLeads
<1>a. n \in Nat
  OBVIOUS
<1>b. ASSUME NEW i \in 1..n
      PROVE  /\ next[i] # 0 <=> Rises(q, lowest, entry, i)
             /\ Rises(q, lowest, entry, i) => i > 1 /\ next[i] = Parent(i) /\ Parent(i) \in 1..Len(q) /\ Parent(i) < i
  BY UpFromIs
<1>3. \A i \in 1..n : rank[i] = i
  OBVIOUS
<1> HIDE DEF next, rank
<1>4. n \in P /\ P \subseteq 1..n
  BY <1>1 DEF Leads
<1>2. ASSUME NEW i \in P
      PROVE  /\ i \in Nat /\ i \in 1..n
             /\ next[i] = 0 => ~Rises(q, lowest, entry, i)
             /\ ~Rises(q, lowest, entry, i) => next[i] = 0
             /\ Rises(q, lowest, entry, i) => i > 1 /\ next[i] = Parent(i) /\ Parent(i) \in 1..Len(q) /\ Parent(i) < i
  BY <1>4, <1>b
<1>5. ASSUME NEW i \in P
      PROVE  Parent(i) \in P <=> Rises(q, lowest, entry, i)
  <2>1. CASE Rises(q, lowest, entry, i)
    BY <1>1, <1>2, <1>4, <2>1 DEF Leads
  <2>2. CASE ~Rises(q, lowest, entry, i)
    <3>1. next[i] = 0 /\ i \in 1..n
      BY <1>2, <1>4, <2>2
    <3>2. \A k \in P : i <= k
      BY <1>1, <1>3, <1>4, <3>1 DEF Leads
    <3>3. Parent(i) < i
      <4>1. i \in Nat \ {0}
        BY <1>2, <3>1
      <4>2. CASE i = 1
        BY <4>2, Indexes
      <4>3. CASE i # 1
        <5>1. i > 1
          BY <4>1, <4>3
        <5>2. Parent(i) \in 1..(i - 1)
          BY <4>1, <5>1, Indexes
        <5> QED BY <4>1, <5>2
      <4> QED BY <4>2, <4>3
    <3> QED BY <1>2, <1>4, <2>2, <3>1, <3>2, <3>3
  <2> QED BY <2>1, <2>2
<1>6. \A i \in P : Rises(q, lowest, entry, i) => i > 1 /\ Parent(i) \in 1..Len(q)
  BY <1>2, <1>4
<1>7. \A i \in P : i # n => \E c \in P : Rises(q, lowest, entry, c) /\ Parent(c) = i
  <2> SUFFICES ASSUME NEW i \in P, i # n
               PROVE  \E c \in P : Rises(q, lowest, entry, c) /\ Parent(c) = i
    OBVIOUS
  <2>1. PICK c \in P : next[c] = i
    BY <1>1 DEF Leads
  <2>2. i # 0 /\ c \in 1..n
    BY <1>4
  <2> QED BY <1>2, <2>1, <2>2
<1>8. \A i, j \in P : Rises(q, lowest, entry, i) /\ Rises(q, lowest, entry, j) /\ Parent(i) = Parent(j) => i = j
  <2> SUFFICES ASSUME NEW i \in P, NEW j \in P, Rises(q, lowest, entry, i), Rises(q, lowest, entry, j),
                      Parent(i) = Parent(j)
               PROVE  i = j
    OBVIOUS
  <2>1. next[i] = next[j]
    BY <1>2, <1>4
  <2> QED BY <1>1, <2>1 DEF Leads
<1>9. \A i, j \in P : ~Rises(q, lowest, entry, i) /\ ~Rises(q, lowest, entry, j) => i = j
  <2> SUFFICES ASSUME NEW i \in P, NEW j \in P, ~Rises(q, lowest, entry, i), ~Rises(q, lowest, entry, j)
               PROVE  i = j
    OBVIOUS
  <2>1. next[i] = next[j]
    BY <1>2, <1>4
  <2> QED BY <1>1, <2>1 DEF Leads
<1>10. \E i \in P : ~Rises(q, lowest, entry, i)
  <2>1. PICK i \in P : next[i] = 0
    BY <1>1 DEF Leads
  <2> QED BY <1>2, <1>4, <2>1
<1> QED BY <1>4, <1>5, <1>6, <1>7, <1>8, <1>9, <1>10

\* What insert() makes of an array.
LEMMA InsertedIs ==
  ASSUME NEW D, Keys(D), NEW q \in Seq(D), NEW lowest \in BOOLEAN, NEW entry \in D,
         NEW r, r = Inserted(q, lowest, entry)
  PROVE  /\ r \in Seq(D) /\ Len(r) = Len(q) + 1
         /\ Rearranged(r, Append(q, entry))
         /\ HeapOrdered(q, lowest) => HeapOrdered(r, lowest)
<1> DEFINE n == Len(q) + 1
           P == WayUp(q, lowest, entry)
           Up(i) == Rises(q, lowest, entry, i)
           f == [i \in 1..n |-> IF i \notin P THEN i ELSE IF Up(i) THEN Parent(i) ELSE n]
<1>0. n \in Nat \ {0} /\ Len(q) \in Nat /\ n = Len(q) + 1
  OBVIOUS
<1>1. /\ n \in P /\ P \subseteq 1..n
      /\ \A i \in P : Parent(i) \in P <=> Up(i)
      /\ \A i \in P : Up(i) => i > 1 /\ Parent(i) \in 1..Len(q)
      /\ \A i \in P : i # n => \E c \in P : Up(c) /\ Parent(c) = i
      /\ \A i, j \in P : Up(i) /\ Up(j) /\ Parent(i) = Parent(j) => i = j
      /\ \A i, j \in P : ~Up(i) /\ ~Up(j) => i = j
      /\ \E i \in P : ~Up(i)
  BY WayUpIs
<1>2. r = [i \in 1..n |-> IF i \notin P THEN q[i] ELSE IF Parent(i) \in P THEN q[Parent(i)] ELSE entry]
  BY DEF Inserted
<1>3. \A i \in 1..n : /\ i \notin P => r[i] = q[i] /\ i \in 1..Len(q)
                      /\ i \in P /\ Up(i) => r[i] = q[Parent(i)] /\ Parent(i) \in 1..Len(q)
                      /\ i \in P /\ ~Up(i) => r[i] = entry
  <2> HIDE DEF P, Up, n
  <2>1. \A i \in 1..n : i # n => i \in 1..Len(q)
    BY <1>0
  <2> QED BY <1>1, <1>2, <2>1
<1>4. r \in Seq(D) /\ Len(r) = n
  <2>1. \A i \in 1..Len(q) : q[i] \in D
    OBVIOUS
  <2> HIDE DEF P, Up, n
  <2>2. \A i \in 1..n : r[i] \in D
    BY <1>3, <2>1
  <2>3. r \in [1..n -> D]
    BY <1>2, <2>2
  <2> QED BY <1>0, <2>3
<1>5. \A i \in 1..n : /\ i \notin P => f[i] = i
                      /\ i \in P /\ Up(i) => f[i] = Parent(i)
                      /\ i \in P /\ ~Up(i) => f[i] = n
  <2> HIDE DEF P, Up, n
  <2> QED OBVIOUS
<1>6. f \in [1..n -> 1..n]
  <2> HIDE DEF P, Up, n
  <2>1. 1..Len(q) \subseteq 1..n /\ n \in 1..n
    BY <1>0
  <2> QED BY <1>1, <2>1
<1> HIDE DEF f, P, Up, n
<1>7. \A i, j \in 1..n : f[i] = f[j] => i = j
  <2> SUFFICES ASSUME NEW i \in 1..n, NEW j \in 1..n, f[i] = f[j] PROVE i = j
    OBVIOUS
  <2>0. n \notin 1..Len(q)
    BY <1>0
  <2>1. CASE i \notin P /\ j \notin P
    BY <1>5, <2>1
  <2>2. CASE i \in P /\ j \in P
    <3>1. CASE Up(i) /\ Up(j)
      BY <1>1, <1>5, <2>2, <3>1
    <3>2. CASE ~Up(i) /\ ~Up(j)
      BY <1>1, <2>2, <3>2
    <3>3. CASE Up(i) /\ ~Up(j)
      BY <1>1, <1>5, <2>0, <2>2, <3>3
    <3>4. CASE ~Up(i) /\ Up(j)
      BY <1>1, <1>5, <2>0, <2>2, <3>4
    <3> QED BY <3>1, <3>2, <3>3, <3>4
  <2>3. CASE i \notin P /\ j \in P
    <3>1. f[j] \in P
      BY <1>1, <1>5, <2>3
    <3> QED BY <1>5, <2>3, <3>1
  <2>4. CASE i \in P /\ j \notin P
    <3>1. f[i] \in P
      BY <1>1, <1>5, <2>4
    <3> QED BY <1>5, <2>4, <3>1
  <2> QED BY <2>1, <2>2, <2>3, <2>4
<1>8. \A k \in 1..n : \E i \in 1..n : f[i] = k
  <2> SUFFICES ASSUME NEW k \in 1..n PROVE \E i \in 1..n : f[i] = k
    OBVIOUS
  <2>1. CASE k \notin P
    BY <1>5, <2>1
  <2>2. CASE k \in P /\ k # n
    <3>1. PICK c \in P : Up(c) /\ Parent(c) = k
      BY <1>1, <2>2
    <3>2. c \in 1..n
      BY <1>1
    <3> QED BY <1>5, <3>1, <3>2
  <2>3. CASE k = n
    <3>1. PICK i \in P : ~Up(i)
      BY <1>1
    <3>2. i \in 1..n
      BY <1>1
    <3> QED BY <1>5, <2>3, <3>1, <3>2
  <2> QED BY <2>1, <2>2, <2>3
<1>9. Rearranged(r, Append(q, entry))
  <2> DEFINE s == Append(q, entry)
  <2>1. Len(s) = n /\ s[n] = entry /\ \A i \in 1..Len(q) : s[i] = q[i]
    BY DEF n
  <2> HIDE DEF s
  <2>2. \A i \in 1..n : r[i] = s[f[i]]
    <3> SUFFICES ASSUME NEW i \in 1..n PROVE r[i] = s[f[i]]
      OBVIOUS
    <3>1. CASE i \notin P
      BY <1>3, <1>5, <2>1, <3>1
    <3>2. CASE i \in P /\ Up(i)
      BY <1>3, <1>5, <2>1, <3>2
    <3>3. CASE i \in P /\ ~Up(i)
      BY <1>3, <1>5, <2>1, <3>3
    <3> QED BY <3>1, <3>2, <3>3
  <2>3. Rearranges(f, n)
    BY <1>6, <1>7, <1>8 DEF Rearranges
  <2>4. Len(r) = Len(s) /\ Rearranges(f, Len(s)) /\ \A i \in 1..Len(s) : r[i] = s[f[i]]
    BY <1>4, <2>1, <2>2, <2>3
  <2> QED BY <2>4 DEF Rearranged, s
<1>10. ASSUME HeapOrdered(q, lowest)
       PROVE  HeapOrdered(r, lowest)
  <2> SUFFICES ASSUME NEW i \in 2..n
               PROVE  ~Before(lowest, r[i].pri, r[Parent(i)].pri)
    BY <1>4 DEF HeapOrdered
  <2> DEFINE p == Parent(i)
  <2>1. i \in 1..n /\ p \in 1..n /\ p < i /\ p # n
    <3>1. i \in Nat /\ i > 1 /\ i <= n
      BY <1>0
    <3>2. p \in 1..(i - 1)
      BY <3>1, Indexes
    <3> QED BY <1>0, <3>1, <3>2
  <2> HIDE DEF p
  <2>2. /\ \A k \in 1..Len(q) : q[k].pri \in Int
        /\ entry.pri \in Int
    BY DEF Keys
  <2>3. \A k \in 2..Len(q) : ~Before(lowest, q[k].pri, q[Parent(k)].pri)
    BY <1>10 DEF HeapOrdered
  <2>4. \A k \in 1..n : Up(k) => Before(lowest, entry.pri, q[Parent(k)].pri)
    BY DEF Up, Rises
  <2>5. \A k \in 1..n : k > 1 /\ ~Up(k) => ~Before(lowest, entry.pri, q[Parent(k)].pri)
    BY DEF Up, Rises
  <2>6. \A k \in P : k > 1 /\ Parent(k) \in P => Up(k)
    BY <1>1
  <2>7. CASE i \notin P /\ p \notin P
    <3>1. r[i] = q[i] /\ r[p] = q[p] /\ i \in 2..Len(q)
      BY <1>3, <2>1, <2>7
    <3> QED BY <2>3, <3>1 DEF p
  <2>8. CASE i \notin P /\ p \in P
    <3>1. r[i] = q[i] /\ i \in 2..Len(q) /\ i \in 1..Len(q)
      BY <1>3, <2>1, <2>8
    <3>2. ~Before(lowest, q[i].pri, q[p].pri) /\ p \in 1..Len(q)
      BY <2>1, <2>3, <3>1, <1>0 DEF p
    <3>3. CASE Up(p)
      <4>1. r[p] = q[Parent(p)] /\ Parent(p) \in 1..Len(q) /\ p > 1
        BY <1>1, <1>3, <2>1, <2>8, <3>3
      <4>2. ~Before(lowest, q[p].pri, q[Parent(p)].pri)
        <5>1. p \in 2..Len(q)
          BY <1>0, <3>2, <4>1
        <5> QED BY <2>3, <5>1
      <4>3. q[i].pri \in Int /\ q[p].pri \in Int /\ q[Parent(p)].pri \in Int
        BY <2>2, <3>1, <3>2, <4>1
      <4>4. ~Before(lowest, q[i].pri, q[Parent(p)].pri)
        BY <3>2, <4>2, <4>3, Comparing
      <4> QED BY <3>1, <4>1, <4>4 DEF p
    <3>4. CASE ~Up(p)
      <4>1. r[p] = entry
        BY <1>3, <2>1, <2>8, <3>4
      <4>2. PICK c \in P : Up(c) /\ Parent(c) = p
        BY <1>1, <2>1, <2>8
      <4>3. Before(lowest, entry.pri, q[p].pri)
        BY <1>1, <2>4, <4>2
      <4>4. q[i].pri \in Int /\ q[p].pri \in Int /\ entry.pri \in Int
        BY <2>2, <3>1, <3>2
      <4>5. ~Before(lowest, q[p].pri, entry.pri)
        BY <4>3, <4>4, Comparing
      <4>6. ~Before(lowest, q[i].pri, entry.pri)
        BY <3>2, <4>4, <4>5, Comparing
      <4> QED BY <3>1, <4>1, <4>6 DEF p
    <3> QED BY <3>3, <3>4
  <2>9. CASE i \in P /\ Up(i)
    <3>1. r[i] = q[p] /\ p \in 1..Len(q) /\ p \in P
      BY <1>1, <1>3, <2>1, <2>9 DEF p
    <3>2. CASE Up(p)
      <4>1. r[p] = q[Parent(p)] /\ p \in 2..Len(q)
        BY <1>1, <1>3, <2>1, <3>1, <3>2, <1>0
      <4> QED BY <2>3, <3>1, <4>1 DEF p
    <3>3. CASE ~Up(p)
      <4>1. r[p] = entry
        BY <1>3, <2>1, <3>1, <3>3
      <4>2. Before(lowest, entry.pri, q[p].pri)
        BY <2>1, <2>4, <2>9 DEF p
      <4>3. ~Before(lowest, q[p].pri, entry.pri)
        BY <2>2, <3>1, <4>2, Comparing
      <4> QED BY <3>1, <4>1, <4>3 DEF p
    <3> QED BY <3>2, <3>3
  <2>10. CASE i \in P /\ ~Up(i)
    <3>1. r[i] = entry /\ p \notin P
      BY <1>1, <1>3, <2>1, <2>10 DEF p
    <3>2. r[p] = q[p]
      BY <1>3, <2>1, <3>1
    <3>3. ~Before(lowest, entry.pri, q[p].pri)
      BY <2>1, <2>5, <2>10, <1>0 DEF p
    <3> QED BY <3>1, <3>2, <3>3 DEF p
  <2> QED BY <2>7, <2>8, <2>9, <2>10
<1> QED BY <1>4, <1>9, <1>10 DEF n

--------------------------------------------------------------------------------
(* Removal                                                                      *)

LEMMA ChildIs ==
  ASSUME NEW q, Len(q) \in Nat, NEW lowest, NEW i \in Nat \ {0}
  PROVE  /\ Child(q, lowest, i) \in Nat /\ Child(q, lowest, i) > i /\ Parent(Child(q, lowest, i)) = i
         /\ Left(i) < Len(q) => Child(q, lowest, i) < Len(q)
<1>1. CASE Child(q, lowest, i) = Left(i)
  BY <1>1, Indexes
<1>2. CASE Child(q, lowest, i) # Left(i)
  <2>1. Child(q, lowest, i) = Right(i) /\ Right(i) < Len(q)
    BY <1>2 DEF Child
  <2> QED BY <2>1, Indexes
<1> QED BY <1>1, <1>2

\* The child is one that no other child goes before.
LEMMA ChildBest ==
  ASSUME NEW D, Keys(D), NEW q \in Seq(D), NEW lowest \in BOOLEAN,
         NEW i \in Nat, i > 1, i < Len(q), NEW p, p = Parent(i)
  PROVE  /\ Left(p) < Len(q) /\ p \in 1..(Len(q) - 1)
         /\ ~Before(lowest, q[i].pri, q[Child(q, lowest, p)].pri)
<1>1. p \in 1..(i - 1) /\ (i = Left(p) \/ i = Right(p))
  BY Indexes
<1>2. p \in Nat \ {0} /\ Left(p) \in Nat /\ Right(p) = Left(p) + 1 /\ Left(p) > p
  <2>1. p \in Nat \ {0}
    BY <1>1
  <2> QED BY <2>1, Indexes
<1>3. Len(q) \in Nat /\ \A k \in 1..Len(q) : q[k].pri \in Int
  BY DEF Keys
<1>4. Left(p) < Len(q) /\ p \in 1..(Len(q) - 1) /\ Left(p) \in 1..Len(q)
  BY <1>1, <1>2, <1>3
<1>5. CASE i = Left(p)
  <2>1. Child(q, lowest, p) = Left(p) \/ (Child(q, lowest, p) = Right(p) /\ Right(p) < Len(q)
                                          /\ Before(lowest, q[Right(p)].pri, q[Left(p)].pri))
    BY DEF Child
  <2>2. CASE Child(q, lowest, p) = Left(p)
    <3>1. q[i].pri \in Int
      BY <1>3, <1>4, <1>5
    <3>2. ~Before(lowest, q[i].pri, q[i].pri)
      BY <3>1, Comparing
    <3> QED BY <1>4, <1>5, <2>2, <3>2
  <2>3. CASE Child(q, lowest, p) = Right(p) /\ Right(p) < Len(q) /\ Before(lowest, q[Right(p)].pri, q[Left(p)].pri)
    <3>1. q[Right(p)].pri \in Int /\ q[Left(p)].pri \in Int
      BY <1>2, <1>3, <1>4, <2>3
    <3>2. ~Before(lowest, q[Left(p)].pri, q[Right(p)].pri)
      BY <2>3, <3>1, Comparing
    <3> QED BY <1>4, <1>5, <2>3, <3>2
  <2> QED BY <2>1, <2>2, <2>3
<1>6. CASE i = Right(p)
  <2>1. q[Right(p)].pri \in Int /\ q[Left(p)].pri \in Int
    BY <1>2, <1>3, <1>4, <1>6
  <2>2. CASE Before(lowest, q[Right(p)].pri, q[Left(p)].pri)
    <3>1. Child(q, lowest, p) = Right(p)
      BY <1>6, <2>2 DEF Child
    <3>2. ~Before(lowest, q[i].pri, q[i].pri)
      BY <1>6, <2>1, Comparing
    <3> QED BY <1>4, <1>6, <3>1, <3>2
  <2>3. CASE ~Before(lowest, q[Right(p)].pri, q[Left(p)].pri)
    <3>1. Child(q, lowest, p) = Left(p)
      BY <2>3 DEF Child
    <3> QED BY <1>4, <1>6, <2>3, <3>1
  <2> QED BY <2>2, <2>3
<1> QED BY <1>1, <1>4, <1>5, <1>6

\* Where the entries on the way down come from.
DownFrom(q, lowest) ==
  [i \in 1..(Len(q) - 1) |-> IF Sinks(q, lowest, i) THEN Child(q, lowest, i) ELSE 0]

LEMMA DownFromIs ==
  ASSUME NEW D, NEW q \in Seq(D), Len(q) > 0, NEW lowest
  PROVE  /\ Len(q) - 1 \in Nat /\ DownFrom(q, lowest) \in [1..(Len(q) - 1) -> 0..(Len(q) - 1)]
         /\ \A i \in 1..(Len(q) - 1) :
              /\ DownFrom(q, lowest)[i] # 0 <=> Sinks(q, lowest, i)
              /\ DownFrom(q, lowest)[i] # 0 =>
                   /\ DownFrom(q, lowest)[i] = Child(q, lowest, i) /\ Child(q, lowest, i) \in 1..(Len(q) - 1)
                   /\ Child(q, lowest, i) > i
<1>1. Len(q) \in Nat /\ Len(q) - 1 \in Nat
  OBVIOUS
<1>2. ASSUME NEW i \in 1..(Len(q) - 1), Sinks(q, lowest, i)
      PROVE  Child(q, lowest, i) \in 1..(Len(q) - 1) /\ Child(q, lowest, i) > i
  <2>1. Left(i) < Len(q) /\ i \in Nat \ {0}
    BY <1>2 DEF Sinks
  <2>2. Child(q, lowest, i) \in Nat /\ Child(q, lowest, i) > i /\ Child(q, lowest, i) < Len(q)
    BY <1>1, <2>1, ChildIs
  <2> QED BY <1>1, <2>1, <2>2
<1> QED BY <1>1, <1>2 DEF DownFrom

LEMMA WayDownLeads ==
  ASSUME NEW D, NEW q \in Seq(D), NEW lowest, NEW idx \in 1..(Len(q) - 1)
  PROVE  Leads(WayDown(q, lowest, idx), DownFrom(q, lowest),
               [i \in 1..(Len(q) - 1) |-> Len(q) - i], Len(q) - 1, idx)
<1> DEFINE n == Len(q) - 1
           next == DownFrom(q, lowest)
           rank == [i \in 1..n |-> Len(q) - i]
           IsPath(p) == p = [i \in 1..(Len(q) - 1) |->
                               {i} \cup IF Sinks(q, lowest, i) THEN p[Child(q, lowest, i)] ELSE {}]
           path == CHOOSE p : IsPath(p)
<1>0. Len(q) \in Nat /\ Len(q) > 0 /\ idx # Len(q)
  OBVIOUS
<1>1. /\ n \in Nat /\ next \in [1..n -> 0..n] /\ rank \in [1..n -> Nat] /\ idx \in 1..n
      /\ \A i \in 1..n : next[i] # 0 => rank[next[i]] < rank[i]
  <2>1. next \in [1..n -> 0..n]
    BY <1>0, DownFromIs
  <2>2. ASSUME NEW i \in 1..n, next[i] # 0
        PROVE  rank[next[i]] < rank[i]
    <3>1. next[i] = Child(q, lowest, i) /\ Child(q, lowest, i) \in 1..n /\ Child(q, lowest, i) > i
      BY <1>0, <2>2, DownFromIs
    <3> QED BY <1>0, <3>1
  <2>3. n \in Nat /\ idx \in 1..n
    BY <1>0
  <2>4. rank \in [1..n -> Nat]
    BY <1>0
  <2> QED BY <2>1, <2>2, <2>3, <2>4
<1>2. ASSUME NEW p
      PROVE  Ways(p, next, n) <=> IsPath(p)
  <2>1. \A i \in 1..n : (IF next[i] # 0 THEN p[next[i]] ELSE {})
                          = (IF Sinks(q, lowest, i) THEN p[Child(q, lowest, i)] ELSE {})
    BY <1>0, DownFromIs
  <2> HIDE DEF next
  <2>2. [i \in 1..n |-> {i} \cup IF next[i] # 0 THEN p[next[i]] ELSE {}]
          = [i \in 1..n |-> {i} \cup IF Sinks(q, lowest, i) THEN p[Child(q, lowest, i)] ELSE {}]
    BY <2>1
  <2> QED BY <2>2 DEF Ways
<1> HIDE DEF next, rank, n
<1>3. \E p : Ways(p, next, n)
  BY <1>1, WaysExist
<1>4. \E p : IsPath(p)
  BY <1>2, <1>3
<1>5. IsPath(path)
  <2> HIDE DEF IsPath
  <2> QED BY <1>4
<1>6. Ways(path, next, n)
  BY <1>2, <1>5
<1>7. WayDown(q, lowest, idx) = path[idx]
  BY <1>0 DEF WayDown
<1> HIDE DEF path
<1>8. Leads(path[idx], next, rank, n, idx)
  BY <1>1, <1>6, WaysLead
<1> QED BY <1>7, <1>8 DEF next, rank, n

LEMMA WayDownIs ==
  ASSUME NEW D, NEW q \in Seq(D), NEW lowest, NEW n, n = Len(q) - 1, NEW idx \in 1..n,
         NEW P, P = WayDown(q, lowest, idx)
  PROVE  /\ idx \in P /\ P \subseteq 1..n
         /\ \A i \in P : Child(q, lowest, i) \in P <=> Sinks(q, lowest, i)
         /\ \A i \in P : Sinks(q, lowest, i) => Child(q, lowest, i) \in 1..n
         /\ \A i \in P : i # idx => \E p \in P : Sinks(q, lowest, p) /\ Child(q, lowest, p) = i
         /\ \A i, j \in P : ~Sinks(q, lowest, i) /\ ~Sinks(q, lowest, j) => i = j
         /\ \E i \in P : ~Sinks(q, lowest, i)
<1> DEFINE next == DownFrom(q, lowest)
           rank == [i \in 1..n |-> Len(q) - i]
<1>a. Len(q) \in Nat /\ Len(q) > 0 /\ n \in Nat
  OBVIOUS
<1>1. Leads(P, next, rank, n, idx)
  BY WayDownLeads
<1>b. ASSUME NEW i \in 1..n
      PROVE  /\ next[i] # 0 <=> Sinks(q, lowest, i)
             /\ Sinks(q, lowest, i) => next[i] = Child(q, lowest, i) /\ Child(q, lowest, i) \in 1..n /\ Child(q, lowest, i) > i
  BY <1>a, DownFromIs
<1>3. \A i \in 1..n : rank[i] = Len(q) - i
  OBVIOUS
<1> HIDE DEF next, rank
<1>4. idx \in P /\ P \subseteq 1..n
  BY <1>1 DEF Leads
<1>2. ASSUME NEW i \in P
      PROVE  /\ i \in Nat \ {0} /\ i \in 1..n
             /\ next[i] = 0 => ~Sinks(q, lowest, i)
             /\ ~Sinks(q, lowest, i) => next[i] = 0
             /\ Sinks(q, lowest, i) => next[i] = Child(q, lowest, i) /\ Child(q, lowest, i) \in 1..n /\ Child(q, lowest, i) > i
  BY <1>4, <1>b
<1>5. ASSUME NEW i \in P
      PROVE  Child(q, lowest, i) \in P <=> Sinks(q, lowest, i)
  <2>1. CASE Sinks(q, lowest, i)
    <3>1. next[i] = Child(q, lowest, i) /\ next[i] # 0
      BY <1>2, <2>1
    <3>2. next[i] \in P
      BY <1>1, <3>1 DEF Leads
    <3> QED BY <2>1, <3>1, <3>2
  <2>2. CASE ~Sinks(q, lowest, i)
    <3>1. next[i] = 0 /\ i \in 1..n
      BY <1>2, <1>4, <2>2
    <3>2. \A k \in P : k <= i
      <4> SUFFICES ASSUME NEW k \in P PROVE k <= i
        OBVIOUS
      <4>1. rank[i] <= rank[k] /\ k \in 1..n
        BY <1>1, <1>4, <3>1 DEF Leads
      <4> QED BY <1>3, <1>a, <3>1, <4>1
    <3>3. i \in Nat \ {0}
      BY <1>2
    <3>4. Child(q, lowest, i) \in Nat /\ Child(q, lowest, i) > i
      BY <1>a, <3>3, ChildIs
    <3> QED BY <1>a, <2>2, <3>2, <3>3, <3>4
  <2> QED BY <2>1, <2>2
<1>6. \A i \in P : Sinks(q, lowest, i) => Child(q, lowest, i) \in 1..n
  BY <1>2, <1>4
<1>7. \A i \in P : i # idx => \E p \in P : Sinks(q, lowest, p) /\ Child(q, lowest, p) = i
  <2> SUFFICES ASSUME NEW i \in P, i # idx
               PROVE  \E p \in P : Sinks(q, lowest, p) /\ Child(q, lowest, p) = i
    OBVIOUS
  <2>1. PICK p \in P : next[p] = i
    BY <1>1 DEF Leads
  <2>2. i # 0 /\ p \in 1..n
    BY <1>4
  <2> QED BY <1>2, <2>1, <2>2
<1>9. \A i, j \in P : ~Sinks(q, lowest, i) /\ ~Sinks(q, lowest, j) => i = j
  <2> SUFFICES ASSUME NEW i \in P, NEW j \in P, ~Sinks(q, lowest, i), ~Sinks(q, lowest, j)
               PROVE  i = j
    OBVIOUS
  <2>1. next[i] = next[j]
    BY <1>2, <1>4
  <2> QED BY <1>1, <2>1 DEF Leads
<1>10. \E i \in P : ~Sinks(q, lowest, i)
  <2>1. PICK i \in P : next[i] = 0
    BY <1>1 DEF Leads
  <2> QED BY <1>2, <1>4, <2>1
<1> QED BY <1>4, <1>5, <1>6, <1>7, <1>9, <1>10

\* What _remove() makes of an array, and which entry it takes out of it.
LEMMA RemovedIs ==
  ASSUME NEW D, Keys(D), NEW q \in Seq(D), NEW lowest \in BOOLEAN, NEW idx \in 1..Len(q),
         NEW r, r = Removed(q, lowest, idx)
  PROVE  /\ r \in Seq(D) /\ Len(r) = Len(q) - 1
         /\ Rearranged(Append(r, q[idx]), q)
         /\ HeapOrdered(q, lowest) /\ idx = 1 => HeapOrdered(r, lowest)
<1> DEFINE m == Len(q)
           n == Len(q) - 1
           P == WayDown(q, lowest, idx)
           Down(i) == Sinks(q, lowest, i)
           C(i) == Child(q, lowest, i)
           f == [i \in 1..m |-> IF i = m THEN idx ELSE IF i \notin P THEN i ELSE IF Down(i) THEN C(i) ELSE m]
<1>0. m \in Nat \ {0} /\ m = Len(q) /\ n \in Nat /\ n = m - 1 /\ idx \in 1..m
  OBVIOUS
<1>1. /\ P \subseteq 1..n
      /\ idx # m => idx \in P
      /\ idx = m => P = {}
      /\ \A i \in P : C(i) \in P <=> Down(i)
      /\ \A i \in P : Down(i) => C(i) \in 1..n
      /\ \A i \in P : i # idx => \E p \in P : Down(p) /\ C(p) = i
      /\ \A i, j \in P : ~Down(i) /\ ~Down(j) => i = j
      /\ P # {} => \E i \in P : ~Down(i)
  <2>1. CASE idx = m
    <3>1. P = {}
      BY <2>1 DEF WayDown
    <3> QED BY <2>1, <3>1
  <2>2. CASE idx # m
    <3>1. idx \in 1..n
      BY <1>0, <2>2
    <3> QED BY <2>2, <3>1, WayDownIs
  <2> QED BY <2>1, <2>2
<1>2. r = [i \in 1..n |-> IF i \notin P THEN q[i] ELSE IF C(i) \in P THEN q[C(i)] ELSE q[m]]
  BY DEF Removed
<1>c. \A i \in Nat \ {0} : /\ C(i) \in Nat /\ C(i) > i /\ Parent(C(i)) = i
                           /\ Left(i) < m => C(i) < m
  BY <1>0, ChildIs
<1> HIDE DEF P, Down, C, n, m
<1>3. \A i \in 1..n : /\ i \notin P => r[i] = q[i]
                      /\ i \in P /\ Down(i) => r[i] = q[C(i)] /\ C(i) \in 1..n
                      /\ i \in P /\ ~Down(i) => r[i] = q[m]
  BY <1>1, <1>2
<1>k. \A i \in 1..n : i \in 1..m /\ i # m
  BY <1>0
<1>4. r \in Seq(D) /\ Len(r) = n
  <2>1. \A i \in 1..m : q[i] \in D
    BY DEF m
  <2>2. m \in 1..m
    BY <1>0
  <2>3. \A i \in 1..n : r[i] \in D
    BY <1>3, <1>k, <2>1, <2>2
  <2>4. r \in [1..n -> D]
    BY <1>2, <2>3
  <2> QED BY <1>0, <2>4
<1>5. /\ f[m] = idx
      /\ \A i \in 1..n : /\ i \notin P => f[i] = i
                         /\ i \in P /\ Down(i) => f[i] = C(i)
                         /\ i \in P /\ ~Down(i) => f[i] = m
  <2>1. m \in 1..m
    BY <1>0
  <2>2. f[m] = idx
    BY <2>1
  <2>3. ASSUME NEW i \in 1..n
        PROVE  f[i] = IF i \notin P THEN i ELSE IF Down(i) THEN C(i) ELSE m
    BY <1>k
  <2> QED BY <2>2, <2>3
<1>6. f \in [1..m -> 1..m]
  <2>1. \A i \in 1..m : i = m \/ i \in 1..n
    BY <1>0
  <2>2. m \in 1..m
    BY <1>0
  <2> QED BY <1>0, <1>1, <1>k, <2>1, <2>2
<1> HIDE DEF f
<1>7. \A i, j \in 1..m : f[i] = f[j] => i = j
  <2>a. \A i \in 1..m : i = m \/ i \in 1..n
    BY <1>0
  <2>b. \A i \in 1..n : i \in Nat \ {0}
    BY <1>0
  <2>1. ASSUME NEW i \in 1..n, NEW j \in 1..n, f[i] = f[j]
        PROVE  i = j
    <3>1. CASE i \notin P /\ j \notin P
      BY <1>5, <2>1, <3>1
    <3>2. CASE i \in P /\ j \in P
      <4>1. CASE Down(i) /\ Down(j)
        <5>1. C(i) = C(j) /\ i \in Nat \ {0} /\ j \in Nat \ {0}
          BY <1>5, <2>1, <2>b, <3>2, <4>1
        <5> QED BY <1>c, <5>1
      <4>2. CASE ~Down(i) /\ ~Down(j)
        BY <1>1, <3>2, <4>2
      <4>3. CASE Down(i) /\ ~Down(j)
        <5>1. f[i] \in 1..n /\ f[j] = m
          BY <1>1, <1>5, <3>2, <4>3
        <5> QED BY <1>k, <2>1, <5>1
      <4>4. CASE ~Down(i) /\ Down(j)
        <5>1. f[j] \in 1..n /\ f[i] = m
          BY <1>1, <1>5, <3>2, <4>4
        <5> QED BY <1>k, <2>1, <5>1
      <4> QED BY <4>1, <4>2, <4>3, <4>4
    <3>3. CASE i \notin P /\ j \in P
      <4>1. f[i] = i /\ (f[j] \in P \/ f[j] = m)
        BY <1>1, <1>5, <3>3
      <4> QED BY <1>k, <2>1, <3>3, <4>1
    <3>4. CASE i \in P /\ j \notin P
      <4>1. f[j] = j /\ (f[i] \in P \/ f[i] = m)
        BY <1>1, <1>5, <3>4
      <4> QED BY <1>k, <2>1, <3>4, <4>1
    <3> QED BY <3>1, <3>2, <3>3, <3>4
  <2>2. ASSUME NEW i \in 1..n
        PROVE  f[i] # idx
    <3>1. CASE idx = m
      <4>1. f[i] = i
        BY <1>1, <1>5, <3>1
      <4> QED BY <1>k, <3>1, <4>1
    <3>2. CASE idx # m
      <4>1. idx \in P /\ idx \in 1..n /\ idx \in Nat \ {0}
        BY <1>0, <1>1, <3>2
      <4>2. CASE i \notin P
        BY <1>5, <4>1, <4>2
      <4>3. CASE i \in P /\ ~Down(i)
        BY <1>5, <3>2, <4>3
      <4>4. CASE i \in P /\ Down(i)
        <5>1. f[i] = C(i)
          BY <1>5, <4>4
        <5> SUFFICES ASSUME C(i) = idx PROVE FALSE
          BY <5>1
        \* The way starts at idx, and each index on it is below the one before.
        <5>2. \A k \in P : idx <= k
          <6> DEFINE B == {k \in P : k < idx}
          <6>1. SUFFICES ASSUME B # {} PROVE FALSE
            BY <1>0, <1>1, <4>1
          <6>2. B \in SUBSET Nat
            <7>1. \A k \in P : k \in Nat
              BY <1>1, <2>b
            <7> QED BY <7>1
          <6> HIDE DEF B
          <6>3. PICK k \in B : \A x \in B : k <= x
            BY <6>1, <6>2, Least
          <6>4. k \in P /\ k < idx
            BY DEF B
          <6>5. PICK p \in P : Down(p) /\ C(p) = k
            BY <1>1, <4>1, <6>4
          <6>6. p \in Nat \ {0} /\ p < k
            BY <1>1, <1>c, <2>b, <6>5
          <6>7. p \in B
            BY <4>1, <6>2, <6>4, <6>6 DEF B
          <6> QED BY <6>2, <6>3, <6>6, <6>7
        <5>3. i \in Nat \ {0} /\ C(i) > i
          BY <1>c, <2>b
        <5> QED BY <4>1, <4>4, <5>2, <5>3
      <4> QED BY <4>2, <4>3, <4>4
    <3> QED BY <3>1, <3>2
  <2> QED BY <1>5, <2>1, <2>2, <2>a
<1>8. \A k \in 1..m : \E i \in 1..m : f[i] = k
  <2> SUFFICES ASSUME NEW k \in 1..m PROVE \E i \in 1..m : f[i] = k
    OBVIOUS
  <2>0. m \in 1..m
    BY <1>0
  <2>1. CASE k = idx
    BY <1>5, <2>0, <2>1
  <2>2. CASE k \notin P /\ k # m
    <3>1. k \in 1..n
      BY <1>0, <2>2
    <3> QED BY <1>5, <2>2, <3>1
  <2>3. CASE k \in P /\ k # idx
    <3>1. PICK p \in P : Down(p) /\ C(p) = k
      BY <1>1, <2>3
    <3>2. p \in 1..n
      BY <1>1
    <3> QED BY <1>5, <1>k, <3>1, <3>2
  <2>4. CASE k = m /\ k # idx
    <3>1. P # {}
      BY <1>1, <2>4
    <3>2. PICK i \in P : ~Down(i)
      BY <1>1, <3>1
    <3>3. i \in 1..n
      BY <1>1
    <3> QED BY <1>5, <1>k, <2>4, <3>2, <3>3
  <2> QED BY <2>1, <2>2, <2>3, <2>4
<1>9. Rearranged(Append(r, q[idx]), q)
  <2> DEFINE s == Append(r, q[idx])
  <2>1. Len(s) = m /\ s[m] = q[idx] /\ \A i \in 1..n : s[i] = r[i]
    BY <1>0, <1>4
  <2> HIDE DEF s
  <2>2. \A i \in 1..m : s[i] = q[f[i]]
    <3> SUFFICES ASSUME NEW i \in 1..m PROVE s[i] = q[f[i]]
      OBVIOUS
    <3>1. CASE i = m
      BY <1>5, <2>1, <3>1
    <3>2. CASE i # m
      <4>1. i \in 1..n
        BY <1>0, <3>2
      <4>2. CASE i \notin P
        BY <1>3, <1>5, <2>1, <4>1, <4>2
      <4>3. CASE i \in P /\ Down(i)
        BY <1>3, <1>5, <2>1, <4>1, <4>3
      <4>4. CASE i \in P /\ ~Down(i)
        BY <1>3, <1>5, <2>1, <4>1, <4>4
      <4> QED BY <4>2, <4>3, <4>4
    <3> QED BY <3>1, <3>2
  <2>3. Rearranges(f, m)
    BY <1>6, <1>7, <1>8 DEF Rearranges
  <2> QED BY <2>1, <2>2, <2>3 DEF Rearranged, s, m
<1>10. ASSUME HeapOrdered(q, lowest), idx = 1
       PROVE  HeapOrdered(r, lowest)
  <2> SUFFICES ASSUME NEW i \in 2..n
               PROVE  ~Before(lowest, r[i].pri, r[Parent(i)].pri)
    BY <1>4 DEF HeapOrdered
  <2> DEFINE p == Parent(i)
  <2>1. i \in 1..n /\ i \in Nat /\ i > 1 /\ i < m
    BY <1>0
  <2>2. p \in 1..n /\ p < i /\ p \in Nat \ {0}
    <3>1. p \in 1..(i - 1)
      BY <2>1, Indexes
    <3> QED BY <1>0, <2>1, <3>1
  <2>3. /\ \A k \in 1..m : q[k].pri \in Int
        /\ \A k \in 2..m : ~Before(lowest, q[k].pri, q[Parent(k)].pri)
        /\ m \in 1..m
    BY <1>0, <1>10 DEF Keys, HeapOrdered, m
  <2>4. Left(p) < m /\ ~Before(lowest, q[i].pri, q[C(p)].pri)
    BY <2>1, ChildBest DEF C, m
  <2> HIDE DEF p
  <2>5. \A k \in 1..n : Left(k) < m => (Down(k) <=> Before(lowest, q[C(k)].pri, q[m].pri))
    BY DEF Down, Sinks, C, m
  <2>6. C(p) \in 1..m
    <3>1. C(p) \in Nat /\ C(p) > p /\ C(p) < m
      BY <1>c, <2>2, <2>4
    <3> QED BY <1>0, <2>2, <3>1
  <2>7. CASE i \notin P /\ p \notin P
    <3>1. r[i] = q[i] /\ r[p] = q[p] /\ i \in 2..m
      BY <1>0, <1>3, <2>1, <2>2, <2>7
    <3> QED BY <2>3, <3>1 DEF p
  <2>8. CASE i \notin P /\ p \in P
    <3>1. r[i] = q[i]
      BY <1>3, <2>1, <2>8
    <3>2. CASE Down(p)
      <4>1. r[p] = q[C(p)]
        BY <1>3, <2>2, <2>8, <3>2
      <4> QED BY <2>4, <3>1, <4>1 DEF p
    <3>3. CASE ~Down(p)
      <4>1. r[p] = q[m]
        BY <1>3, <2>2, <2>8, <3>3
      <4>2. ~Before(lowest, q[C(p)].pri, q[m].pri)
        BY <2>2, <2>4, <2>5, <3>3
      <4>3. q[i].pri \in Int /\ q[C(p)].pri \in Int /\ q[m].pri \in Int
        BY <1>k, <2>1, <2>3, <2>6
      <4>4. ~Before(lowest, q[i].pri, q[m].pri)
        BY <2>4, <4>2, <4>3, Comparing
      <4> QED BY <3>1, <4>1, <4>4 DEF p
    <3> QED BY <3>2, <3>3
  <2>9. CASE i \in P
    <3>1. PICK k \in P : Down(k) /\ C(k) = i
      BY <1>1, <1>10, <2>1, <2>9
    <3>2. k \in 1..n /\ k \in Nat \ {0}
      BY <1>0, <1>1
    <3>3. k = p
      BY <1>c, <3>1, <3>2 DEF p
    <3>4. r[p] = q[i] /\ C(p) = i /\ p \in P /\ Down(p)
      BY <1>3, <3>1, <3>2, <3>3
    <3>5. CASE Down(i)
      <4>1. r[i] = q[C(i)] /\ C(i) \in 1..n
        BY <1>3, <2>1, <2>9, <3>5
      <4>2. i \in Nat \ {0}
        BY <2>1
      <4>3. C(i) > i /\ Parent(C(i)) = i
        BY <1>c, <4>2
      <4>4. C(i) \in 2..m
        BY <1>0, <2>1, <4>1, <4>3
      <4>5. ~Before(lowest, q[C(i)].pri, q[i].pri)
        BY <2>3, <4>3, <4>4
      <4> QED BY <3>4, <4>1, <4>5 DEF p
    <3>6. CASE ~Down(i)
      <4>1. r[i] = q[m]
        BY <1>3, <2>1, <2>9, <3>6
      <4>2. Before(lowest, q[i].pri, q[m].pri)
        BY <2>2, <2>4, <2>5, <3>4
      <4>3. ~Before(lowest, q[m].pri, q[i].pri)
        BY <1>k, <2>1, <2>3, <4>2, Comparing
      <4> QED BY <3>4, <4>1, <4>3 DEF p
    <3> QED BY <3>5, <3>6
  <2> QED BY <2>7, <2>8, <2>9
<1> QED BY <1>4, <1>9, <1>10 DEF n

--------------------------------------------------------------------------------
(* What the array holds                                                         *)

\* What holds of 0 and, with n, of n + 1, holds up to N.
LEMMA Upwards ==
  ASSUME NEW N \in Nat, NEW S, 0 \in S, \A n \in 0..(N - 1) : n \in S => n + 1 \in S
  PROVE  \A n \in 0..N : n \in S
<1> DEFINE Bad == {n \in 0..N : n \notin S}
<1>1. SUFFICES ASSUME Bad # {} PROVE FALSE
  OBVIOUS
<1>2. Bad \in SUBSET Nat
  OBVIOUS
<1>3. PICK m \in Bad : \A k \in Bad : m <= k
  <2> HIDE DEF Bad
  <2> QED BY <1>1, <1>2, Least
<1>4. m # 0 /\ m \in 0..N
  OBVIOUS
<1>5. m - 1 \in 0..(N - 1) /\ m - 1 \in 0..N
  BY <1>4
<1>6. m - 1 \in S
  BY <1>3, <1>5
<1>7. m \in S
  BY <1>4, <1>5, <1>6
<1> QED BY <1>7

Events(q) == {q[i].event : i \in DOMAIN q}
UniqueIn(q) == \A i, j \in DOMAIN q : q[i].event = q[j].event => i = j
KeyedBy(q, p, at) == \A i \in DOMAIN q : q[i] = Entry(p, q[i].event, at[q[i].event])
Entries(at) == [event : DOMAIN at, pri : ULongLong, sec : ULongLong]

\* An array as the queue keeps it: each event once, with the keys the policies give it,
\* and a heap while both policies agree.
Sound(q, p, at) ==
  /\ q \in Seq(Entries(at))
  /\ UniqueIn(q) /\ KeyedBy(q, p, at)
  /\ p.order = p.discard => HeapOrdered(q, LowestFirst(p.order))

Fit(p) ==
  /\ p.order \in {"Fifo", "Priority", "Deadline"} /\ p.discard \in {"Fifo", "Priority", "Deadline", "Lifo"}
  /\ p.timeout \in ULongLong /\ p.priority \in Short
Carried == UNION {w.attributes : w \in Workloads}

LEMMA EntriesKeys == \A at : Keys(Entries(at))
BY BoundsAssumption DEF Keys, Entries, ULongLong

LEMMA SortValueType ==
  ASSUME NEW p, Fit(p), NEW a \in Carried, NEW order
  PROVE  SortValue(p, order, a) \in ULongLong
<1>1. /\ a.stamp \in ULongLong /\ a.timeout \subseteq ULongLong /\ a.priority \subseteq Short
      /\ ULongLongs \in Nat \ {0}
  BY AttributesAssumption, BoundsAssumption DEF Carried
<1>2. HeaderOr(a.timeout, p.timeout) \in ULongLong /\ HeaderOr(a.priority, p.priority) \in Int
  <2>1. HeaderOr(a.priority, p.priority) \in Short
    BY <1>1 DEF HeaderOr, Fit
  <2> QED BY <1>1, <2>1 DEF HeaderOr, Fit, Short
<1>3. \A n \in Int : Unsigned(n) \in ULongLong
  BY <1>1 DEF Unsigned, ULongLong
<1>4. a.stamp + HeaderOr(a.timeout, p.timeout) \in Int
  BY <1>1, <1>2 DEF ULongLong
<1>5. CASE order = "Fifo"
  BY <1>1, <1>5 DEF SortValue
<1>6. CASE order = "Deadline"
  BY <1>3, <1>4, <1>6 DEF SortValue
<1>7. CASE order \notin {"Fifo", "Deadline"}
  BY <1>2, <1>3, <1>7 DEF SortValue
<1> QED BY <1>5, <1>6, <1>7

LEMMA EntryType ==
  ASSUME NEW p, Fit(p), NEW at \in Seq(Carried), NEW e \in DOMAIN at
  PROVE  /\ Entry(p, e, at[e]) \in Entries(at)
         /\ Entry(p, e, at[e]).event = e
         /\ Entry(p, e, at[e]).pri = SortValue(p, p.order, at[e])
         /\ Entry(p, e, at[e]).sec = SortValue(p, p.discard, at[e])
<1>1. at[e] \in Carried
  OBVIOUS
<1>2. SortValue(p, p.order, at[e]) \in ULongLong /\ SortValue(p, p.discard, at[e]) \in ULongLong
  BY <1>1, SortValueType
<1> QED BY <1>2 DEF Entry, Entries

\* Rearranging changes neither what an array holds nor that it holds it once.
LEMMA RearrangedHolds ==
  ASSUME NEW D, NEW r \in Seq(D), NEW s \in Seq(D), Rearranged(r, s)
  PROVE  /\ Len(r) = Len(s) /\ Events(r) = Events(s)
         /\ UniqueIn(s) => UniqueIn(r)
         /\ \A i \in DOMAIN r : \E j \in DOMAIN s : r[i] = s[j]
         /\ \A j \in DOMAIN s : \E i \in DOMAIN r : r[i] = s[j]
<1>1. Len(r) = Len(s) /\ DOMAIN r = 1..Len(s) /\ DOMAIN s = 1..Len(s)
  BY DEF Rearranged
<1>2. PICK f : Rearranges(f, Len(s)) /\ \A i \in 1..Len(s) : r[i] = s[f[i]]
  BY DEF Rearranged
<1>3. \A i \in DOMAIN r : \E j \in DOMAIN s : r[i] = s[j]
  BY <1>1, <1>2 DEF Rearranges
<1>4. \A j \in DOMAIN s : \E i \in DOMAIN r : r[i] = s[j]
  <2> SUFFICES ASSUME NEW j \in 1..Len(s) PROVE \E i \in 1..Len(s) : r[i] = s[j]
    BY <1>1
  <2>1. PICK i \in 1..Len(s) : f[i] = j
    BY <1>2 DEF Rearranges
  <2> QED BY <1>2, <2>1
<1>5. Events(r) = Events(s)
  BY <1>3, <1>4 DEF Events
<1>6. UniqueIn(s) => UniqueIn(r)
  <2> SUFFICES ASSUME UniqueIn(s), NEW i \in 1..Len(s), NEW j \in 1..Len(s), r[i].event = r[j].event
               PROVE  i = j
    BY <1>1 DEF UniqueIn
  <2>1. f[i] \in 1..Len(s) /\ f[j] \in 1..Len(s) /\ r[i] = s[f[i]] /\ r[j] = s[f[j]]
    BY <1>2 DEF Rearranges
  <2>2. f[i] = f[j]
    BY <1>1, <2>1 DEF UniqueIn
  <2> QED BY <1>2, <2>2 DEF Rearranges
<1> QED BY <1>1, <1>3, <1>4, <1>5, <1>6

\* What an array without or with one more event holds.
LEMMA WithOneMore ==
  ASSUME NEW D, NEW r \in Seq(D), NEW d \in D
  PROVE  /\ Events(Append(r, d)) = Events(r) \cup {d.event}
         /\ \A i \in DOMAIN r : i \in DOMAIN Append(r, d) /\ Append(r, d)[i] = r[i]
         /\ UniqueIn(Append(r, d)) <=> UniqueIn(r) /\ d.event \notin Events(r)
<1> DEFINE s == Append(r, d)
           n == Len(r) + 1
<1>1. /\ Len(r) \in Nat /\ n \in Nat \ {0} /\ DOMAIN r = 1..Len(r) /\ DOMAIN s = 1..n /\ s[n] = d
      /\ \A i \in DOMAIN r : s[i] = r[i]
  OBVIOUS
<1>2. 1..n = 1..Len(r) \cup {n} /\ n \notin 1..Len(r)
  BY <1>1
<1> HIDE DEF s, n
<1>3. Events(s) = Events(r) \cup {d.event}
  BY <1>1, <1>2 DEF Events
<1>4. UniqueIn(s) <=> UniqueIn(r) /\ d.event \notin Events(r)
  BY <1>1, <1>2 DEF UniqueIn, Events
<1> QED BY <1>1, <1>2, <1>3, <1>4 DEF s

\* The root of a heap: no other entry goes before it.
LEMMA RootFirst ==
  ASSUME NEW D, Keys(D), NEW q \in Seq(D), NEW lowest \in BOOLEAN, HeapOrdered(q, lowest)
  PROVE  \A i \in DOMAIN q : ~Before(lowest, q[i].pri, q[1].pri)
<1> DEFINE Bad == {i \in 1..Len(q) : Before(lowest, q[i].pri, q[1].pri)}
<1>0. Len(q) \in Nat /\ \A i \in 1..Len(q) : q[i].pri \in Int
  BY DEF Keys
<1>1. SUFFICES ASSUME Bad # {} PROVE FALSE
  OBVIOUS
<1>2. Bad \in SUBSET Nat
  OBVIOUS
<1>3. PICK i \in Bad : \A k \in Bad : i <= k
  <2> HIDE DEF Bad
  <2> QED BY <1>1, <1>2, Least
<1>4. i \in 1..Len(q) /\ Before(lowest, q[i].pri, q[1].pri) /\ 1 \in 1..Len(q) /\ i \in Nat
  BY <1>0
<1>5. i # 1
  <2>1. q[1].pri \in Int
    BY <1>0, <1>4
  <2>2. ~Before(lowest, q[1].pri, q[1].pri)
    BY <2>1, Comparing
  <2> QED BY <1>4, <2>2
<1> DEFINE p == Parent(i)
<1>6. p \in 1..Len(q) /\ p < i /\ i \in 2..Len(q)
  <2>1. i > 1
    BY <1>4, <1>5
  <2>2. p \in 1..(i - 1)
    BY <1>4, <2>1, Indexes
  <2> QED BY <1>0, <1>4, <2>1, <2>2
<1>7. ~Before(lowest, q[i].pri, q[p].pri)
  BY <1>6 DEF HeapOrdered
<1> HIDE DEF p
<1>8. ~Before(lowest, q[p].pri, q[1].pri)
  <2>1. p \notin Bad
    BY <1>2, <1>3, <1>4, <1>6
  <2> QED BY <1>6, <2>1
<1>9. ~Before(lowest, q[i].pri, q[1].pri)
  BY <1>0, <1>4, <1>6, <1>7, <1>8, Comparing
<1> QED BY <1>4, <1>9


\* An event that comes in is added to what the array holds.
LEMMA InsertSound ==
  ASSUME NEW p, Fit(p), NEW at \in Seq(Carried), NEW q, Sound(q, p, at),
         NEW e \in DOMAIN at, e \notin Events(q),
         NEW r, r = Inserted(q, LowestFirst(p.order), Entry(p, e, at[e]))
  PROVE  Sound(r, p, at) /\ Len(r) = Len(q) + 1 /\ Events(r) = Events(q) \cup {e}
<1> DEFINE D == Entries(at)
           d == Entry(p, e, at[e])
           s == Append(q, d)
           lowest == LowestFirst(p.order)
<1>1. /\ q \in Seq(D) /\ UniqueIn(q) /\ KeyedBy(q, p, at)
      /\ p.order = p.discard => HeapOrdered(q, lowest)
  BY DEF Sound
<1>2. Keys(D) /\ lowest \in BOOLEAN /\ d \in D /\ d.event = e
  BY EntriesKeys, EntryType DEF LowestFirst
<1>3. d = Entry(p, d.event, at[d.event])
  BY <1>2
<1>r. r = Inserted(q, lowest, d)
  OBVIOUS
<1> HIDE DEF D, d, lowest
<1>4. /\ r \in Seq(D) /\ Len(r) = Len(q) + 1 /\ Rearranged(r, s)
      /\ HeapOrdered(q, lowest) => HeapOrdered(r, lowest)
  BY <1>1, <1>2, <1>r, InsertedIs
<1>5. s \in Seq(D) /\ Events(s) = Events(q) \cup {e} /\ UniqueIn(s)
  BY <1>1, <1>2, WithOneMore
<1>s. \A j \in DOMAIN s : (j \in DOMAIN q /\ s[j] = q[j]) \/ s[j] = d
  BY <1>1, <1>2
<1> HIDE DEF s
<1>6. Events(r) = Events(s) /\ UniqueIn(r) /\ \A i \in DOMAIN r : \E j \in DOMAIN s : r[i] = s[j]
  BY <1>4, <1>5, RearrangedHolds
<1>7. \A j \in DOMAIN s : s[j] = Entry(p, s[j].event, at[s[j].event])
  <2> SUFFICES ASSUME NEW j \in DOMAIN s PROVE s[j] = Entry(p, s[j].event, at[s[j].event])
    OBVIOUS
  <2> QED BY <1>1, <1>3, <1>s DEF KeyedBy
<1>8. KeyedBy(r, p, at)
  BY <1>6, <1>7 DEF KeyedBy
<1> QED BY <1>1, <1>4, <1>5, <1>6, <1>8 DEF Sound, D, lowest

\* What is known of the events so far stays so when another one comes.
LEMMA AppendSound ==
  ASSUME NEW p, NEW at \in Seq(Carried), NEW a \in Carried, NEW q, Sound(q, p, at)
  PROVE  Sound(q, p, Append(at, a)) /\ Len(at) + 1 \notin Events(q)
<1> DEFINE more == Append(at, a)
<1>1. Len(at) \in Nat /\ DOMAIN at = 1..Len(at) /\ DOMAIN more = 1..(Len(at) + 1)
      /\ \A e \in DOMAIN at : e \in DOMAIN more /\ more[e] = at[e]
  OBVIOUS
<1>2. q \in Seq(Entries(at)) /\ \A i \in DOMAIN q : q[i].event \in DOMAIN at
  <2>1. q \in Seq(Entries(at))
    BY DEF Sound
  <2>2. \A i \in DOMAIN q : q[i] \in Entries(at)
    BY <2>1
  <2> QED BY <2>1, <2>2 DEF Entries
<1> HIDE DEF more
<1>3. q \in Seq(Entries(more))
  <2>1. Entries(at) \subseteq Entries(more)
    BY <1>1 DEF Entries
  <2>2. Len(q) \in Nat /\ q \in [1..Len(q) -> Entries(at)]
    BY <1>2
  <2>3. q \in [1..Len(q) -> Entries(more)]
    BY <2>1, <2>2
  <2> QED BY <2>2, <2>3
<1>4. KeyedBy(q, p, more)
  BY <1>1, <1>2 DEF Sound, KeyedBy
<1>5. Len(at) + 1 \notin Events(q)
  BY <1>1, <1>2 DEF Events
<1> QED BY <1>3, <1>4, <1>5 DEF Sound, more

\* An entry that is removed leaves the others as they are.
LEMMA RemoveSound ==
  ASSUME NEW p, Fit(p), NEW at, NEW q, Sound(q, p, at), NEW idx \in DOMAIN q,
         p.order = p.discard => idx = 1,
         NEW r, r = Removed(q, LowestFirst(p.order), idx)
  PROVE  /\ Sound(r, p, at) /\ Len(r) = Len(q) - 1
         /\ Events(q) = Events(r) \cup {q[idx].event} /\ q[idx].event \notin Events(r)
<1> DEFINE D == Entries(at)
           d == q[idx]
           s == Append(r, d)
           lowest == LowestFirst(p.order)
<1>1. /\ q \in Seq(D) /\ UniqueIn(q) /\ KeyedBy(q, p, at)
      /\ p.order = p.discard => HeapOrdered(q, lowest)
  BY DEF Sound
<1>2. Keys(D) /\ lowest \in BOOLEAN /\ d \in D /\ idx \in 1..Len(q)
  BY <1>1, EntriesKeys DEF LowestFirst
<1> HIDE DEF D, lowest
<1>4. /\ r \in Seq(D) /\ Len(r) = Len(q) - 1 /\ Rearranged(s, q)
      /\ HeapOrdered(q, lowest) /\ idx = 1 => HeapOrdered(r, lowest)
  BY <1>1, <1>2, RemovedIs DEF lowest
<1> HIDE DEF d
<1>5. /\ s \in Seq(D) /\ Events(s) = Events(r) \cup {d.event}
      /\ UniqueIn(s) <=> UniqueIn(r) /\ d.event \notin Events(r)
      /\ \A i \in DOMAIN r : i \in DOMAIN s /\ s[i] = r[i]
  BY <1>2, <1>4, WithOneMore
<1> HIDE DEF s
<1>6. Events(s) = Events(q) /\ UniqueIn(s) /\ \A i \in DOMAIN s : \E j \in DOMAIN q : s[i] = q[j]
  <2>1. s \in Seq(D) /\ q \in Seq(D) /\ Rearranged(s, q) /\ UniqueIn(q)
    BY <1>1, <1>4, <1>5
  <2> QED BY <2>1, RearrangedHolds
<1>8. KeyedBy(r, p, at)
  BY <1>1, <1>5, <1>6 DEF KeyedBy
<1> QED BY <1>1, <1>4, <1>5, <1>6, <1>8 DEF Sound, D, d, lowest

\* The linear search finds an entry whose secondary key no other goes before.
LEMMA SecHeadIs ==
  ASSUME NEW at, NEW q \in Seq(Entries(at)), q # <<>>, NEW lowest \in BOOLEAN
  PROVE  /\ SecHead(q, lowest) \in DOMAIN q
         /\ \A j \in DOMAIN q : ~Before(lowest, q[j].sec, q[SecHead(q, lowest)].sec)
<1> DEFINE key == [i \in DOMAIN q |-> IF lowest THEN q[i].sec ELSE ULongLongs - q[i].sec]
           Best(i) == \A j \in DOMAIN q : ~Before(lowest, q[j].sec, q[i].sec)
           First(i) == \A j \in 1..(i - 1) : Before(lowest, q[i].sec, q[j].sec)
<1>1. /\ DOMAIN q = 1..Len(q) /\ Len(q) \in Nat \ {0}
      /\ ULongLongs \in Nat /\ \A i \in DOMAIN q : q[i].sec \in 0..(ULongLongs - 1)
  <2>1. DOMAIN q = 1..Len(q) /\ Len(q) \in Nat \ {0} /\ \A i \in DOMAIN q : q[i] \in Entries(at)
    OBVIOUS
  <2> QED BY <2>1, BoundsAssumption DEF Entries, ULongLong
<1>2. \A i \in DOMAIN q : key[i] \in Nat
  BY <1>1
<1>3. \A i, j \in DOMAIN q : Before(lowest, q[i].sec, q[j].sec) <=> key[i] < key[j]
  <2>1. CASE lowest
    BY <1>1, <2>1 DEF Before
  <2>2. CASE ~lowest
    BY <1>1, <2>2 DEF Before
  <2> QED BY <2>1, <2>2
<1> HIDE DEF key
<1>4. PICK b \in DOMAIN q : \A j \in DOMAIN q : key[b] <= key[j]
  <2> DEFINE K == {key[i] : i \in DOMAIN q}
  <2>1. K \in SUBSET Nat /\ 1 \in DOMAIN q
    BY <1>1, <1>2
  <2>2. K # {} /\ \A j \in DOMAIN q : key[j] \in K
    BY <2>1
  <2>3. \A x \in K : \E i \in DOMAIN q : x = key[i]
    OBVIOUS
  <2> HIDE DEF K
  <2>4. PICK x \in K : \A y \in K : x <= y
    BY <2>1, <2>2, Least
  <2> QED BY <2>2, <2>3, <2>4
<1>5. PICK i \in DOMAIN q : key[i] = key[b] /\ \A j \in DOMAIN q : key[j] = key[b] => i <= j
  <2> DEFINE I == {i \in DOMAIN q : key[i] = key[b]}
  <2>1. I \in SUBSET Nat /\ b \in I
    BY <1>1
  <2>2. \A j \in DOMAIN q : j \in I <=> key[j] = key[b]
    OBVIOUS
  <2>3. I \subseteq DOMAIN q
    OBVIOUS
  <2> HIDE DEF I
  <2>4. PICK i \in I : \A j \in I : i <= j
    BY <2>1, Least
  <2> QED BY <2>2, <2>3, <2>4
<1>6. Best(i)
  <2> SUFFICES ASSUME NEW j \in DOMAIN q PROVE ~(key[j] < key[i])
    BY <1>3
  <2> QED BY <1>2, <1>4, <1>5
<1>7. First(i)
  <2> SUFFICES ASSUME NEW j \in 1..(i - 1) PROVE key[i] < key[j] /\ j \in DOMAIN q
    BY <1>3
  <2>1. j \in DOMAIN q /\ j < i
    BY <1>1
  <2>2. key[j] # key[b] /\ key[b] <= key[j] /\ key[i] = key[b]
    BY <1>1, <1>4, <1>5, <2>1
  <2>3. key[j] \in Nat /\ key[b] \in Nat
    BY <1>2, <2>1
  <2> QED BY <2>1, <2>2, <2>3
<1> HIDE DEF Best, First
<1>8. \E k \in DOMAIN q : Best(k) /\ First(k)
  BY <1>6, <1>7
<1>9. SecHead(q, lowest) = CHOOSE k \in DOMAIN q : Best(k) /\ First(k)
  BY DEF SecHead, Best, First
<1>10. SecHead(q, lowest) \in DOMAIN q /\ Best(SecHead(q, lowest))
  BY <1>8, <1>9
<1> QED BY <1>10 DEF Best

--------------------------------------------------------------------------------
(* Taking out, discarding and rebuilding                                        *)

\* Event d goes before event e under one of the policies in force, with the attributes at.
Sooner(order, at, d, e) ==
  Before(LowestFirst(order), SortValue(policy, order, at[d]), SortValue(policy, order, at[e]))

\* The event that is delivered next: no other goes before it while both policies agree.
LEMMA RemovePriSound ==
  ASSUME Fit(policy), NEW at, NEW q, q # <<>>, Sound(q, policy, at)
  PROVE  /\ q[1].event \in Events(q)
         /\ Len(RemovePriHead(q)) = Len(q) - 1
         /\ Events(q) = Events(RemovePriHead(q)) \cup {q[1].event}
         /\ q[1].event \notin Events(RemovePriHead(q))
         /\ Sound(RemovePriHead(q), policy, at)
         /\ policy.order = policy.discard =>
              \A d \in Events(q) : ~Sooner(policy.order, at, d, q[1].event)
<1>1. q \in Seq(Entries(at)) /\ 1 \in DOMAIN q
  BY DEF Sound
<1>2. q[1].event \in Events(q)
  BY <1>1 DEF Events
<1>3. /\ Sound(RemovePriHead(q), policy, at) /\ Len(RemovePriHead(q)) = Len(q) - 1
      /\ Events(q) = Events(RemovePriHead(q)) \cup {q[1].event}
      /\ q[1].event \notin Events(RemovePriHead(q))
  BY <1>1, RemoveSound DEF RemovePriHead
<1>4. ASSUME policy.order = policy.discard, NEW d \in Events(q)
      PROVE  ~Sooner(policy.order, at, d, q[1].event)
  <2>1. PICK i \in DOMAIN q : d = q[i].event
    BY DEF Events
  <2>2. HeapOrdered(q, LowestFirst(policy.order)) /\ KeyedBy(q, policy, at)
    BY <1>4 DEF Sound
  <2>3. Keys(Entries(at)) /\ LowestFirst(policy.order) \in BOOLEAN
    BY EntriesKeys DEF LowestFirst
  <2>4. ~Before(LowestFirst(policy.order), q[i].pri, q[1].pri)
    BY <1>1, <2>2, <2>3, RootFirst
  <2>5. /\ q[i].pri = SortValue(policy, policy.order, at[d])
        /\ q[1].pri = SortValue(policy, policy.order, at[q[1].event])
    <3>1. q[i] = Entry(policy, q[i].event, at[q[i].event]) /\ q[1] = Entry(policy, q[1].event, at[q[1].event])
      BY <1>1, <2>2 DEF KeyedBy
    <3> QED BY <2>1, <3>1 DEF Entry
  <2> QED BY <2>4, <2>5 DEF Sooner
<1> QED BY <1>2, <1>3, <1>4

\* What is discarded is an event that no other goes before under the discard policy.
LEMMA RemoveSecSound ==
  ASSUME Fit(policy), NEW at, NEW q, q # <<>>, Sound(q, policy, at)
  PROVE  \E e \in Events(q) :
           /\ Sound(RemoveSecHead(q), policy, at)
           /\ Len(RemoveSecHead(q)) = Len(q) - 1
           /\ Events(q) = Events(RemoveSecHead(q)) \cup {e} /\ e \notin Events(RemoveSecHead(q))
           /\ \A d \in Events(q) : ~Sooner(policy.discard, at, d, e)
<1>1. CASE policy.order = policy.discard
  <2>1. RemoveSecHead(q) = RemovePriHead(q)
    BY <1>1 DEF RemoveSecHead
  <2>2. /\ q[1].event \in Events(q)
        /\ Sound(RemoveSecHead(q), policy, at)
        /\ Len(RemoveSecHead(q)) = Len(q) - 1
        /\ Events(q) = Events(RemoveSecHead(q)) \cup {q[1].event}
        /\ q[1].event \notin Events(RemoveSecHead(q))
    <3>1. /\ q[1].event \in Events(q) /\ Sound(RemovePriHead(q), policy, at)
          /\ Len(RemovePriHead(q)) = Len(q) - 1
          /\ Events(q) = Events(RemovePriHead(q)) \cup {q[1].event}
          /\ q[1].event \notin Events(RemovePriHead(q))
      BY RemovePriSound
    <3> QED BY <2>1, <3>1
  <2>3. \A d \in Events(q) : ~Sooner(policy.order, at, d, q[1].event)
    BY <1>1, RemovePriSound
  <2> QED BY <1>1, <2>2, <2>3
<1>2. CASE policy.order # policy.discard
  <2> DEFINE lowest == LowestFirst(policy.discard)
             idx == SecHead(q, lowest)
             e == q[idx].event
  <2>1. q \in Seq(Entries(at)) /\ KeyedBy(q, policy, at) /\ lowest \in BOOLEAN
    BY DEF Sound, LowestFirst
  <2>2. RemoveSecHead(q) = Removed(q, LowestFirst(policy.order), idx)
    BY <1>2 DEF RemoveSecHead
  <2> HIDE DEF lowest
  <2>3. idx \in DOMAIN q /\ \A j \in DOMAIN q : ~Before(lowest, q[j].sec, q[idx].sec)
    BY <2>1, SecHeadIs
  <2> HIDE DEF idx
  <2>4. /\ Sound(RemoveSecHead(q), policy, at) /\ Len(RemoveSecHead(q)) = Len(q) - 1
        /\ Events(q) = Events(RemoveSecHead(q)) \cup {e} /\ e \notin Events(RemoveSecHead(q))
    BY <1>2, <2>2, <2>3, RemoveSound
  <2>5. ASSUME NEW d \in Events(q)
        PROVE  ~Sooner(policy.discard, at, d, e)
    <3>1. PICK i \in DOMAIN q : d = q[i].event
      BY DEF Events
    <3>2. q[i] = Entry(policy, q[i].event, at[q[i].event]) /\ q[idx] = Entry(policy, e, at[e])
      BY <2>1, <2>3 DEF KeyedBy
    <3>3. /\ q[i].sec = SortValue(policy, policy.discard, at[d])
          /\ q[idx].sec = SortValue(policy, policy.discard, at[e])
      BY <3>1, <3>2 DEF Entry
    <3> QED BY <2>3, <3>1, <3>3 DEF Sooner, lowest
  <2>6. e \in Events(q)
    BY <2>3 DEF Events
  <2> QED BY <2>4, <2>5, <2>6
<1> QED BY <1>1, <1>2

\* An array holds as many events as it is long.
LEMMA EventsCounted ==
  ASSUME NEW D, NEW q \in Seq(D), UniqueIn(q)
  PROVE  IsFiniteSet(Events(q)) /\ Cardinality(Events(q)) = Len(q)
<1> DEFINE n == Len(q)
           f == [i \in 1..n |-> q[i].event]
<1>1. n \in Nat /\ DOMAIN q = 1..n
  OBVIOUS
<1>2. IsFiniteSet(1..n) /\ Cardinality(1..n) = n
  <2>1. 1 \in Int /\ n \in Int /\ (1 > n \/ n - 1 + 1 = n)
    BY <1>1
  <2> QED BY <1>1, <2>1, FS_Interval
<1>3. f \in Bijection(1..n, Events(q))
  <2>1. f \in [1..n -> Events(q)]
    BY <1>1 DEF Events
  <2>2. \A i, j \in 1..n : f[i] = f[j] => i = j
    BY <1>1 DEF UniqueIn
  <2>3. \A e \in Events(q) : \E i \in 1..n : f[i] = e
    BY <1>1 DEF Events
  <2> HIDE DEF f
  <2> QED BY <2>1, <2>2, <2>3 DEF Bijection, Injection, Surjection, IsInjective
<1> HIDE DEF f, n
<1>4. ExistsBijection(1..n, Events(q))
  BY <1>3 DEF ExistsBijection
<1>5. IsFiniteSet(Events(q)) /\ Cardinality(Events(q)) = Cardinality(1..n)
  BY <1>2, <1>4, FS_Bijection
<1> QED BY <1>2, <1>5 DEF n

\* What is left of an array after discarding: nothing that stays goes before what went.
Rests(q, at) ==
  {s \in Seq(Entries(at)) :
     /\ Sound(s, policy, at) /\ Events(s) \subseteq Events(q)
     /\ \A e \in Events(q) \ Events(s), d \in Events(s) : ~Sooner(policy.discard, at, d, e)}

LEMMA RemovedFromNone ==
  ASSUME NEW lowest, NEW idx
  PROVE  Removed(<<>>, lowest, idx) = <<>>
<1>1. Len(<<>>) = 0 /\ 1..(Len(<<>>) - 1) = {}
  OBVIOUS
<1>2. Removed(<<>>, lowest, idx) \in Seq({}) /\ Len(Removed(<<>>, lowest, idx)) = 0
  <2> DEFINE path == WayDown(<<>>, lowest, idx)
             value(i) == IF i \notin path THEN <<>>[i]
                         ELSE IF Child(<<>>, lowest, i) \in path THEN <<>>[Child(<<>>, lowest, i)] ELSE <<>>[0]
  <2>1. Removed(<<>>, lowest, idx) = [i \in 1..(Len(<<>>) - 1) |-> value(i)]
    BY <1>1 DEF Removed
  <2> HIDE DEF value
  <2>2. Removed(<<>>, lowest, idx) \in [1..0 -> {}]
    BY <1>1, <2>1
  <2> QED BY <2>2
<1> QED BY <1>2

LEMMA DiscardStep ==
  ASSUME Fit(policy), NEW at, NEW q, NEW s \in Rests(q, at)
  PROVE  /\ RemoveSecHead(s) \in Rests(q, at)
         /\ s # <<>> => Len(RemoveSecHead(s)) = Len(s) - 1
<1>0. /\ Sound(s, policy, at) /\ Events(s) \subseteq Events(q)
      /\ \A e \in Events(q) \ Events(s), d \in Events(s) : ~Sooner(policy.discard, at, d, e)
  BY DEF Rests
<1>1. CASE s = <<>>
  <2>1. RemoveSecHead(s) = s
    BY <1>1, RemovedFromNone DEF RemoveSecHead, RemovePriHead
  <2> QED BY <1>1, <2>1
<1>2. CASE s # <<>>
  <2> DEFINE r == RemoveSecHead(s)
  <2>1. PICK e \in Events(s) :
          /\ Sound(r, policy, at) /\ Len(r) = Len(s) - 1
          /\ Events(s) = Events(r) \cup {e} /\ e \notin Events(r)
          /\ \A d \in Events(s) : ~Sooner(policy.discard, at, d, e)
    BY <1>0, <1>2, RemoveSecSound
  <2> HIDE DEF r
  <2>2. r \in Seq(Entries(at)) /\ Events(r) \subseteq Events(q)
    BY <1>0, <2>1 DEF Sound
  <2>3. \A g \in Events(q) \ Events(r), d \in Events(r) : ~Sooner(policy.discard, at, d, g)
    BY <1>0, <2>1
  <2>4. r \in Rests(q, at)
    BY <2>1, <2>2, <2>3 DEF Rests
  <2> QED BY <2>1, <2>4 DEF r
<1> QED BY <1>1, <1>2

\* Discarding stops right under the limit.
LEMMA DiscardedIs ==
  ASSUME Fit(policy), NEW at, NEW q, Sound(q, policy, at), qos.max \in Nat
  PROVE  /\ Discarded(q) \in Rests(q, at)
         /\ qos.max = 0 \/ Len(q) < qos.max => Discarded(q) = q
         /\ ~(qos.max = 0 \/ Len(q) < qos.max) => Len(Discarded(q)) = qos.max - 1
<1> DEFINE N == Len(q)
           V == Rests(q, at)
           step == [x \in V \X (1..N) |-> RemoveSecHead(x[1])]
           IsRest(f) == f = [n \in 0..Len(q) |-> IF n = 0 THEN q ELSE RemoveSecHead(f[n - 1])]
           rest == CHOOSE f : IsRest(f)
<1>0. q \in Seq(Entries(at)) /\ N \in Nat
  BY DEF Sound
<1>1. q \in V
  BY <1>0 DEF Rests
<1>2. \A s \in V : RemoveSecHead(s) \in V /\ (s # <<>> => Len(RemoveSecHead(s)) = Len(s) - 1)
  BY DiscardStep
<1>v. \A s \in V : s \in Seq(Entries(at))
  BY DEF Rests
<1>3. step \in [V \X (1..N) -> V] /\ \A s \in V, n \in 1..N : step[<<s, n>>] = RemoveSecHead(s)
  <2> HIDE DEF V
  <2>1. \A x \in V \X (1..N) : x[1] \in V
    OBVIOUS
  <2>2. step \in [V \X (1..N) -> V]
    BY <1>2, <2>1
  <2>3. ASSUME NEW s \in V, NEW n \in 1..N PROVE step[<<s, n>>] = RemoveSecHead(s)
    <3>1. <<s, n>> \in V \X (1..N) /\ <<s, n>>[1] = s
      OBVIOUS
    <3> QED BY <3>1
  <2> QED BY <2>2, <2>3
<1> HIDE DEF V, step
<1>4. PICK f : Stepped(f, V, q, step, N)
  BY <1>0, <1>1, <1>3, StepByStep
<1>5. IsRest(f)
  <2>1. f \in [0..N -> V] /\ f[0] = q /\ \A n \in 1..N : f[n] = step[<<f[n - 1], n>>]
    BY <1>4 DEF Stepped
  <2>2. ASSUME NEW n \in 0..N
        PROVE  f[n] = IF n = 0 THEN q ELSE RemoveSecHead(f[n - 1])
    <3>1. CASE n = 0
      BY <2>1, <3>1
    <3>2. CASE n # 0
      <4>1. n \in 1..N /\ n - 1 \in 0..N
        BY <1>0, <3>2
      <4> QED BY <1>3, <2>1, <3>2, <4>1
    <3> QED BY <3>1, <3>2
  <2>3. f = [n \in 0..N |-> f[n]]
    BY <2>1
  <2> QED BY <2>2, <2>3
<1>6. IsRest(rest)
  <2> HIDE DEF IsRest
  <2> QED BY <1>5
<1>7. /\ rest[0] = q
      /\ \A n \in 0..(N - 1) : rest[n + 1] = RemoveSecHead(rest[n])
  <2>1. \A n \in 0..N : rest[n] = IF n = 0 THEN q ELSE RemoveSecHead(rest[n - 1])
    <3> HIDE DEF rest
    <3> QED BY <1>6
  <2> HIDE DEF rest
  <2>2. 0 \in 0..N
    BY <1>0
  <2>3. \A n \in 0..(N - 1) : n + 1 \in 0..N /\ n + 1 # 0 /\ (n + 1) - 1 = n
    BY <1>0
  <2> QED BY <2>1, <2>2, <2>3
<1>8. Discarded(q) = IF qos.max = 0 \/ Len(q) < qos.max THEN q ELSE rest[Len(q) - qos.max + 1]
  BY DEF Discarded
<1> HIDE DEF rest
<1>9. ASSUME NEW n \in 0..N
      PROVE  rest[n] \in V /\ Len(rest[n]) = N - n
  <2> DEFINE S == {k \in 0..N : rest[k] \in V /\ Len(rest[k]) = N - k}
  <2>1. 0 \in S
    BY <1>0, <1>1, <1>7
  <2>2. ASSUME NEW k \in 0..(N - 1), k \in S
        PROVE  k + 1 \in S
    <3>1. rest[k] \in V /\ Len(rest[k]) = N - k /\ k < N
      BY <1>0, <2>2
    <3>2. rest[k] # <<>>
      BY <1>0, <3>1
    <3>3. rest[k + 1] \in V /\ Len(rest[k + 1]) = Len(rest[k]) - 1
      BY <1>2, <1>7, <3>1, <3>2
    <3>4. k + 1 \in 0..N /\ (N - k) - 1 = N - (k + 1)
      BY <1>0
    <3> QED BY <3>1, <3>3, <3>4
  <2>3. \A k \in S : rest[k] \in V /\ Len(rest[k]) = N - k
    OBVIOUS
  <2> HIDE DEF S
  <2>4. n \in S
    BY <1>0, <2>1, <2>2, Upwards
  <2> QED BY <2>3, <2>4
<1>10. CASE qos.max = 0 \/ Len(q) < qos.max
  BY <1>1, <1>8, <1>10 DEF V
<1>11. CASE ~(qos.max = 0 \/ Len(q) < qos.max)
  <2> DEFINE n == Len(q) - qos.max + 1
  <2>1. n \in 0..N /\ N - n = qos.max - 1
    BY <1>0, <1>11
  <2>2. Discarded(q) = rest[n]
    BY <1>8, <1>11
  <2> HIDE DEF n
  <2>3. rest[n] \in V /\ Len(rest[n]) = N - n
    BY <1>9, <2>1
  <2> QED BY <1>11, <2>1, <2>2, <2>3 DEF V
<1> QED BY <1>10, <1>11

\* The queue that is rebuilt for policies p holds the same events, keyed and ordered by p.
LEMMA RebuiltIs ==
  ASSUME NEW p, Fit(p), NEW p0, Sound(heap, p0, attr), attr \in Seq(Carried)
  PROVE  Sound(Rebuilt(p), p, attr) /\ Events(Rebuilt(p)) = Events(heap)
<1> DEFINE N == Len(heap)
           D == Entries(attr)
           V == Seq(D)
           lowest == LowestFirst(p.order)
           new(n) == Entry(p, heap[n].event, attr[heap[n].event])
           step == [x \in V \X (1..N) |-> Inserted(x[1], lowest, new(x[2]))]
           IsBuilt(f) == f = [n \in 0..Len(heap) |->
                                IF n = 0 THEN <<>> ELSE Inserted(f[n - 1], lowest, new(n))]
           built == CHOOSE f : IsBuilt(f)
<1>0. N \in Nat /\ DOMAIN heap = 1..N /\ UniqueIn(heap)
  BY DEF Sound
<1>1. <<>> \in V
  OBVIOUS
<1>2. \A n \in 1..N : heap[n].event \in DOMAIN attr
  <2>1. \A n \in 1..N : heap[n] \in Entries(attr)
    BY DEF Sound
  <2> QED BY <2>1 DEF Entries
<1>3. \A n \in 1..N : new(n) \in D
  BY <1>2, EntryType
<1>4. Keys(D) /\ lowest \in BOOLEAN
  BY EntriesKeys DEF LowestFirst
<1> HIDE DEF D, new, lowest
<1>5. \A s \in V, n \in 1..N : Inserted(s, lowest, new(n)) \in V
  BY <1>3, <1>4, InsertedIs
<1> HIDE DEF V
<1>6. step \in [V \X (1..N) -> V] /\ \A s \in V, n \in 1..N : step[<<s, n>>] = Inserted(s, lowest, new(n))
  <2>1. \A x \in V \X (1..N) : x[1] \in V /\ x[2] \in 1..N
    OBVIOUS
  <2>2. step \in [V \X (1..N) -> V]
    BY <1>5, <2>1
  <2>3. ASSUME NEW s \in V, NEW n \in 1..N PROVE step[<<s, n>>] = Inserted(s, lowest, new(n))
    <3>1. <<s, n>> \in V \X (1..N) /\ <<s, n>>[1] = s /\ <<s, n>>[2] = n
      OBVIOUS
    <3> QED BY <3>1
  <2> QED BY <2>2, <2>3
<1> HIDE DEF step
<1>7. PICK f : Stepped(f, V, <<>>, step, N)
  BY <1>0, <1>1, <1>6, StepByStep
<1>8. IsBuilt(f)
  <2>1. f \in [0..N -> V] /\ f[0] = <<>> /\ \A n \in 1..N : f[n] = step[<<f[n - 1], n>>]
    BY <1>7 DEF Stepped
  <2>2. ASSUME NEW n \in 0..N
        PROVE  f[n] = IF n = 0 THEN <<>> ELSE Inserted(f[n - 1], lowest, new(n))
    <3>1. CASE n = 0
      BY <2>1, <3>1
    <3>2. CASE n # 0
      <4>1. n \in 1..N /\ n - 1 \in 0..N
        BY <1>0, <3>2
      <4> QED BY <1>6, <2>1, <3>2, <4>1
    <3> QED BY <3>1, <3>2
  <2>3. f = [n \in 0..N |-> f[n]]
    BY <2>1
  <2> QED BY <2>2, <2>3
<1>9. IsBuilt(built)
  <2> HIDE DEF IsBuilt
  <2> QED BY <1>8
<1>10. /\ built[0] = <<>>
       /\ \A n \in 0..(N - 1) : built[n + 1] = Inserted(built[n], lowest, new(n + 1))
  <2>1. \A n \in 0..N : built[n] = IF n = 0 THEN <<>> ELSE Inserted(built[n - 1], lowest, new(n))
    <3> HIDE DEF built
    <3> QED BY <1>9
  <2> HIDE DEF built
  <2>2. 0 \in 0..N
    BY <1>0
  <2>3. \A n \in 0..(N - 1) : n + 1 \in 0..N /\ n + 1 # 0 /\ (n + 1) - 1 = n
    BY <1>0
  <2> QED BY <2>1, <2>2, <2>3
<1>11. Rebuilt(p) = built[N]
  BY DEF Rebuilt, lowest, new
<1> HIDE DEF built
<1>12. Sound(built[N], p, attr) /\ Events(built[N]) = Events(heap)
  <2> DEFINE First(n) == {heap[i].event : i \in 1..n}
             S == {n \in 0..N : Sound(built[n], p, attr) /\ Events(built[n]) = First(n)}
  <2>1. 0 \in S
    <3>1. Sound(<<>>, p, attr) /\ Events(<<>>) = {}
      BY DEF Sound, UniqueIn, KeyedBy, Events, HeapOrdered
    <3>2. 1..0 = {} /\ First(0) = {}
      OBVIOUS
    <3> HIDE DEF First
    <3>3. Sound(built[0], p, attr) /\ Events(built[0]) = First(0)
      BY <1>10, <3>1, <3>2
    <3> QED BY <1>0, <3>3
  <2>2. ASSUME NEW n \in 0..(N - 1), n \in S
        PROVE  n + 1 \in S
    <3>1. Sound(built[n], p, attr) /\ Events(built[n]) = First(n) /\ n \in Nat
      BY <1>0, <2>2
    <3>2. n + 1 \in 1..N /\ n + 1 \in 0..N /\ \A i \in 1..n : i \in 1..N /\ i # n + 1
      BY <1>0
    <3> DEFINE e == heap[n + 1].event
    <3>3. e \notin First(n) /\ First(n + 1) = First(n) \cup {e}
      <4>1. 1..(n + 1) = 1..n \cup {n + 1}
        BY <3>1
      <4>2. \A i \in 1..n : heap[i].event # e
        BY <1>0, <3>2 DEF UniqueIn
      <4> QED BY <4>1, <4>2
    <3>4. e \in DOMAIN attr /\ new(n + 1) = Entry(p, e, attr[e])
      BY <1>2, <3>2 DEF new
    <3> HIDE DEF e, First
    <3>5. built[n + 1] = Inserted(built[n], LowestFirst(p.order), Entry(p, e, attr[e]))
      BY <1>10, <3>4 DEF lowest
    <3>6. Sound(built[n + 1], p, attr) /\ Events(built[n + 1]) = Events(built[n]) \cup {e}
      BY <3>1, <3>3, <3>4, <3>5, InsertSound
    <3> QED BY <3>1, <3>2, <3>3, <3>6
  <2>3. \A n \in S : Sound(built[n], p, attr) /\ Events(built[n]) = First(n)
    OBVIOUS
  <2>5. First(N) = Events(heap)
    BY <1>0 DEF Events
  <2> HIDE DEF S, First
  <2>4. N \in S
    <3>1. N \in 0..N
      BY <1>0
    <3> QED BY <1>0, <2>1, <2>2, <3>1, Upwards
  <2> QED BY <2>3, <2>4, <2>5
<1> QED BY <1>11, <1>12

--------------------------------------------------------------------------------
(* The queue                                                                    *)

Inv == TypeOK /\ Sound(heap, policy, attr)

\* What a workload may set and carry is what the keys need.
LEMMA PoliciesFit ==
  ASSUME work \in Workloads
  PROVE  /\ \A p \in Policies : Fit(p)
         /\ \A s \in work.qos : Copied(s) \in Policies /\ s.max \in Nat
         /\ AtBirth \in Policies
         /\ work.attributes \subseteq Carried
<1>1. \A s \in work.qos :
        /\ s.order \in {"Any", "Fifo", "Priority", "Deadline"}
        /\ s.discard \in {"Any", "Fifo", "Priority", "Deadline", "Lifo"}
        /\ s.timeout \in ULongLong /\ s.priority \in Short /\ s.max \in Nat
  BY QoSAssumption
<1>2. 0 \in ULongLong
  BY BoundsAssumption DEF ULongLong
<1>3. \A p \in Policies : Fit(p)
  <2>1. 0 \in Short
    BY BoundsAssumption DEF Short
  <2> QED BY <1>1, <1>2, <2>1 DEF Policies, Fit
<1>4. ASSUME NEW s \in work.qos
      PROVE  Copied(s) \in Policies /\ s.max \in Nat
  <2>1. Known(s.order) \in {"Fifo", "Priority", "Deadline"}
    BY <1>1 DEF Known
  <2>2. Known(s.discard) \in {"Fifo", "Priority", "Deadline", "Lifo"}
    BY <1>1 DEF Known
  <2> QED BY <1>1, <2>1, <2>2 DEF Copied, Policies
<1>5. AtBirth \in Policies
  BY DEF AtBirth, Policies
<1>6. work.attributes \subseteq Carried
  BY DEF Carried
<1> QED BY <1>3, <1>4, <1>5, <1>6

LEMMA Fitting ==
  ASSUME Inv
  PROVE  /\ Fit(policy) /\ attr \in Seq(Carried) /\ qos.max \in Nat
         /\ Copied(qos) \in Policies /\ Fit(Copied(qos))
<1>1. work \in Workloads /\ policy \in Policies /\ qos \in work.qos /\ attr \in Seq(work.attributes)
  BY DEF Inv, TypeOK
<1>2. attr \in Seq(Carried)
  <2>1. work.attributes \subseteq Carried
    BY <1>1, PoliciesFit
  <2>2. attr \in [1..Len(attr) -> work.attributes] /\ Len(attr) \in Nat
    BY <1>1
  <2>3. attr \in [1..Len(attr) -> Carried]
    BY <2>1, <2>2
  <2> QED BY <2>2, <2>3
<1> QED BY <1>1, <1>2, PoliciesFit

\* An event is added to what discarding leaves.
LEMMA Added ==
  ASSUME Inv, AddEvent
  PROVE  \E s \in Rests(heap, attr) :
           /\ Sound(heap', policy, attr') /\ Len(heap') = Len(s) + 1
           /\ Events(heap') = Events(s) \cup {Len(attr')} /\ Len(attr') \notin Events(heap)
           /\ qos.max = 0 \/ Len(heap) < qos.max => s = heap
           /\ ~(qos.max = 0 \/ Len(heap) < qos.max) => Len(s) = qos.max - 1
<1>1. PICK a \in work.attributes :
        attr' = Append(attr, a) /\ heap' = Insert(Discarded(heap), Len(attr) + 1, a)
  BY DEF AddEvent
<1>2. /\ Fit(policy) /\ attr \in Seq(Carried) /\ qos.max \in Nat /\ a \in Carried
      /\ Sound(heap, policy, attr)
  BY Fitting, PoliciesFit DEF Inv, TypeOK
<1> DEFINE s == Discarded(heap)
           e == Len(attr) + 1
<1>3. /\ s \in Rests(heap, attr)
      /\ qos.max = 0 \/ Len(heap) < qos.max => s = heap
      /\ ~(qos.max = 0 \/ Len(heap) < qos.max) => Len(s) = qos.max - 1
  BY <1>2, DiscardedIs
<1> HIDE DEF s
<1>4. Sound(s, policy, attr)
  BY <1>3 DEF Rests
<1>5. Sound(s, policy, Append(attr, a)) /\ e \notin Events(s)
  BY <1>2, <1>4, AppendSound
<1>6. e \notin Events(heap)
  BY <1>2, AppendSound
<1>7. /\ attr' \in Seq(Carried) /\ e \in DOMAIN attr' /\ attr'[e] = a /\ Len(attr') = e
  BY <1>1, <1>2
<1>8. heap' = Inserted(s, LowestFirst(policy.order), Entry(policy, e, attr'[e]))
  BY <1>1, <1>7 DEF Insert, s
<1> HIDE DEF e
<1>9. Sound(heap', policy, attr') /\ Len(heap') = Len(s) + 1 /\ Events(heap') = Events(s) \cup {e}
  <2>1. Sound(s, policy, attr')
    BY <1>1, <1>5
  <2> QED BY <1>2, <1>5, <1>7, <1>8, <2>1, InsertSound
<1> QED BY <1>3, <1>6, <1>7, <1>9

\* Init establishes the invariant, and every step keeps it.
LEMMA InitInv == Init => Inv
<1> SUFFICES ASSUME Init PROVE Inv
  OBVIOUS
<1>1. work \in Workloads /\ qos \in work.qos /\ heap = <<>> /\ attr = <<>> /\ changing = FALSE
  BY DEF Init
<1>2. policy \in Policies
  BY <1>1, PoliciesFit DEF Init
<1>3. work.events \in Nat
  BY <1>1, BoundsAssumption
<1>4. TypeOK
  <2>1. attr \in Seq(work.attributes) /\ Len(attr) <= work.events
    BY <1>1, <1>3
  <2>2. heap \in Seq([event : DOMAIN attr, pri : ULongLong, sec : ULongLong])
    BY <1>1
  <2> QED BY <1>1, <1>2, <2>1, <2>2 DEF TypeOK
<1>5. Sound(<<>>, policy, attr)
  BY DEF Sound, UniqueIn, KeyedBy, HeapOrdered
<1> QED BY <1>1, <1>4, <1>5 DEF Inv

LEMMA NextInv == Inv /\ [Next]_vars => Inv'
<1> SUFFICES ASSUME Inv, [Next]_vars PROVE Inv'
  OBVIOUS
<1>0. /\ work \in Workloads /\ qos \in work.qos /\ policy \in Policies /\ changing \in BOOLEAN
      /\ attr \in Seq(work.attributes) /\ Len(attr) <= work.events /\ work.events \in Nat
      /\ Sound(heap, policy, attr)
  BY BoundsAssumption DEF Inv, TypeOK
<1>p. work' = work => Policies' = Policies
  BY DEF Policies
<1> SUFFICES
      /\ work' = work /\ qos' \in work.qos /\ policy' \in Policies /\ changing' \in BOOLEAN
      /\ attr' \in Seq(work.attributes) /\ Len(attr') <= work.events
      /\ Sound(heap', policy', attr')
  BY <1>0, <1>p DEF Inv, TypeOK, Sound, Entries
<1>1. CASE AddEvent
  <2>1. PICK a \in work.attributes :
          Len(attr) < work.events /\ attr' = Append(attr, a) /\ UNCHANGED <<work, qos, policy, changing>>
    BY <1>1 DEF AddEvent
  <2>2. attr' \in Seq(work.attributes) /\ Len(attr') <= work.events
    BY <1>0, <2>1
  <2>3. Sound(heap', policy, attr')
    BY <1>1, Added
  <2> QED BY <1>0, <2>1, <2>2, <2>3
<1>2. CASE TakeEvent
  <2>1. heap # <<>> /\ heap' = RemovePriHead(heap) /\ UNCHANGED <<work, qos, policy, changing, attr>>
    BY <1>2 DEF TakeEvent
  <2>2. Sound(heap', policy, attr)
    BY <1>0, <2>1, Fitting, RemovePriSound
  <2> QED BY <1>0, <2>1, <2>2
<1>3. CASE ClearQueue
  <2>1. heap' = <<>> /\ UNCHANGED <<work, qos, policy, changing, attr>>
    BY <1>3 DEF ClearQueue
  <2>2. Sound(<<>>, policy, attr)
    BY DEF Sound, UniqueIn, KeyedBy, HeapOrdered
  <2> QED BY <1>0, <2>1, <2>2
<1>4. CASE SetQoS
  BY <1>0, <1>4 DEF SetQoS
<1>5. CASE QosChanged
  <2>1. policy' = Copied(qos) /\ changing' = FALSE /\ UNCHANGED <<work, qos, attr>>
    BY <1>5 DEF QosChanged
  <2>2. Fit(policy') /\ policy' \in Policies
    BY <2>1, Fitting
  <2>3. CASE policy' = policy
    <3>1. heap' = heap
      BY <1>5, <2>3 DEF QosChanged
    <3> QED BY <1>0, <2>1, <2>2, <2>3, <3>1
  <2>4. CASE policy' # policy
    <3>1. heap' = Rebuilt(policy')
      BY <1>5, <2>4 DEF QosChanged
    <3>2. Sound(Rebuilt(policy'), policy', attr)
      BY <1>0, <2>2, Fitting, RebuiltIs
    <3> QED BY <1>0, <2>1, <2>2, <3>1, <3>2
  <2> QED BY <2>3, <2>4
<1>6. CASE UNCHANGED vars
  BY <1>0, <1>6 DEF vars
<1> QED BY <1>1, <1>2, <1>3, <1>4, <1>5, <1>6 DEF Next

\* Every reachable array holds each of its events once, with the keys that the policies
\* in force and the attributes of the event give it, and is a heap while both policies agree.
THEOREM Invariance == Spec => []Inv
<1> QED BY InitInv, NextInv, PTL DEF Spec

\* RDINotifQueue and RDIPriorityQueue keep what their types and loops promise.
THEOREM TypeCorrect == Spec => []TypeOK
<1>1. Inv => TypeOK
  BY DEF Inv
<1> QED BY <1>1, Invariance, PTL

\* While both policies agree the array of RDIPriorityQueue is a heap, for arrays of any
\* length, whatever was added, discarded, delivered and rebuilt before.
THEOREM Ordered == Spec => []OrderedWhenPoliciesAgree
<1>1. Inv => OrderedWhenPoliciesAgree
  BY DEF Inv, Sound, OrderedWhenPoliciesAgree
<1> QED BY <1>1, Invariance, PTL

LEMMA Remainder ==
  ASSUME NEW k \in Int, k > 0, NEW n \in Int, 0 <= n, n < k
  PROVE  n % k = n
OBVIOUS

\* What goes before by what the events carry goes before by the keys of the queue.
LEMMA KeysFollow ==
  ASSUME Fit(policy), attr \in Seq(Carried), NEW d \in DOMAIN attr, NEW e \in DOMAIN attr,
         NEW order, GoesBefore(order, d, e)
  PROVE  Sooner(order, attr, d, e)
<1>1. /\ attr[d] \in Carried /\ attr[e] \in Carried
      /\ \A a \in Carried : a.stamp \in ULongLong /\ a.timeout \subseteq ULongLong /\ a.priority \subseteq Short
      /\ ULongLongs \in Nat \ {0}
  BY AttributesAssumption, BoundsAssumption DEF Carried
<1>2. \A n \in ULongLong : Unsigned(n) = n
  <2> SUFFICES ASSUME NEW n \in ULongLong PROVE n % ULongLongs = n
    BY DEF Unsigned
  <2>1. ULongLongs \in Int /\ ULongLongs > 0 /\ n \in Int /\ 0 <= n /\ n < ULongLongs
    BY <1>1 DEF ULongLong
  <2> QED BY <2>1, Remainder
<1>3. CASE order = "Fifo"
  BY <1>3 DEF GoesBefore, Sooner, SortValue, LowestFirst, Before
<1>4. CASE order = "Deadline"
  <2>1. Due(d) < Due(e) /\ Due(e) \in ULongLong
    BY <1>4 DEF GoesBefore
  <2>2. Due(d) \in Nat
    BY <1>1 DEF Due, HeaderOr, Fit, ULongLong
  <2>3. Due(d) \in ULongLong
    BY <1>1, <2>1, <2>2 DEF ULongLong
  <2>4. SortValue(policy, order, attr[d]) = Due(d) /\ SortValue(policy, order, attr[e]) = Due(e)
    BY <1>2, <1>4, <2>1, <2>3 DEF SortValue, Due
  <2> QED BY <1>4, <2>1, <2>4 DEF Sooner, LowestFirst, Before
<1>5. CASE order = "Priority"
  <2>1. Priority(d) > Priority(e) /\ Priority(e) \in ULongLong
    BY <1>5 DEF GoesBefore
  <2>2. Priority(d) \in Short
    BY <1>1 DEF Priority, HeaderOr, Fit
  <2>3. Priority(d) \in ULongLong
    BY <1>1, <2>1, <2>2 DEF ULongLong, Short
  <2>4. SortValue(policy, order, attr[d]) = Priority(d) /\ SortValue(policy, order, attr[e]) = Priority(e)
    BY <1>2, <1>5, <2>1, <2>3 DEF SortValue, Priority
  <2> QED BY <1>5, <2>1, <2>4 DEF Sooner, LowestFirst, Before
<1> QED BY <1>3, <1>4, <1>5 DEF GoesBefore

LEMMA EventsAreKnown ==
  ASSUME NEW q, NEW at, q \in Seq(Entries(at)), NEW e \in Events(q)
  PROVE  e \in DOMAIN at
<1>1. PICK i \in 1..Len(q) : e = q[i].event
  BY DEF Events
<1>2. q[i] \in Entries(at)
  BY <1>1
<1> QED BY <1>1, <1>2 DEF Entries

\* While both policies agree no delivery leaves behind an event that goes before the one
\* it took by its stamp, by when it is due, or by a priority that is not negative.
THEOREM Delivers == Spec => DeliversFirst
<1>1. ASSUME Inv, Next, ~Adding, policy.order = policy.discard, NEW e \in Gone, NEW d \in Queued'
      PROVE  ~GoesBefore(policy.order, d, e)
  <2>0. Fit(policy) /\ attr \in Seq(Carried) /\ Fit(Copied(qos)) /\ Sound(heap, policy, attr)
    BY <1>1, Fitting DEF Inv
  <2>1. e \in Events(heap) /\ e \notin Events(heap') /\ d \in Events(heap')
    BY <1>1 DEF Gone, Queued, Events
  <2>2. CASE AddEvent
    <3>1. PICK a \in work.attributes : attr' = Append(attr, a)
      BY <2>2 DEF AddEvent
    <3>2. Len(attr') # Len(attr)
      BY <2>0, <3>1
    <3> QED BY <1>1, <3>2 DEF Adding
  <2>3. CASE TakeEvent
    <3>1. heap # <<>> /\ heap' = RemovePriHead(heap)
      BY <2>3 DEF TakeEvent
    <3>2. /\ Events(heap) = Events(RemovePriHead(heap)) \cup {heap[1].event}
          /\ \A g \in Events(heap) : ~Sooner(policy.order, attr, g, heap[1].event)
      BY <1>1, <2>0, <3>1, RemovePriSound
    <3>3. attr' = attr /\ e = heap[1].event /\ d \in Events(heap)
      BY <2>1, <2>3, <3>1, <3>2 DEF TakeEvent
    <3>4. d \in DOMAIN attr /\ e \in DOMAIN attr
      BY <2>0, <2>1, <3>3, EventsAreKnown DEF Sound
    <3> QED BY <2>0, <3>2, <3>3, <3>4, KeysFollow
  <2>4. CASE ClearQueue
    <3>1. heap' = <<>>
      BY <2>4 DEF ClearQueue
    <3> QED BY <2>1, <3>1 DEF Events
  <2>5. CASE SetQoS
    BY <2>1, <2>5 DEF SetQoS
  <2>6. CASE QosChanged
    <3>1. heap' = heap \/ heap' = Rebuilt(Copied(qos))
      BY <2>6 DEF QosChanged
    <3>2. CASE heap' = Rebuilt(Copied(qos))
      <4>1. Events(heap') = Events(heap)
        BY <2>0, <3>2, RebuiltIs
      <4> QED BY <2>1, <4>1
    <3> QED BY <2>1, <3>1, <3>2
  <2> QED BY <1>1, <2>2, <2>3, <2>4, <2>5, <2>6 DEF Next
<1>2. Inv /\ [Next]_vars =>
        [~Adding /\ policy.order = policy.discard =>
           \A e \in Gone, d \in Queued' : ~GoesBefore(policy.order, d, e)]_vars
  BY <1>1
<1> QED BY <1>2, Invariance, PTL DEF Spec, DeliversFirst

\* A full queue makes room by discarding events that no other goes before, by stamp, by
\* when they are due, or by priority, as the discard policy says; under LifoOrder, which
\* the code has no case for, in no order that is claimed.  It discards as many as the
\* limit in force asks for, and takes the new event in.
THEOREM Discards == Spec => DiscardsFirst
<1>1. ASSUME Inv, Next, Adding
      PROVE  /\ \A e \in Gone, d \in Queued' \cap Queued : ~GoesBefore(policy.discard, d, e)
             /\ Gone # {} => Cardinality(Queued') = qos.max
             /\ Len(attr') \in Queued'
  <2>1. AddEvent
    BY <1>1 DEF Next, Adding, TakeEvent, ClearQueue, SetQoS, QosChanged
  <2>2. PICK s \in Rests(heap, attr) :
          /\ Sound(heap', policy, attr') /\ Len(heap') = Len(s) + 1
          /\ Events(heap') = Events(s) \cup {Len(attr')} /\ Len(attr') \notin Events(heap)
          /\ qos.max = 0 \/ Len(heap) < qos.max => s = heap
          /\ ~(qos.max = 0 \/ Len(heap) < qos.max) => Len(s) = qos.max - 1
    BY <1>1, <2>1, Added
  <2>3. Queued = Events(heap) /\ Queued' = Events(heap')
    BY DEF Queued, Events
  <2>4. \A e \in Gone, d \in Queued' \cap Queued : ~GoesBefore(policy.discard, d, e)
    <3> SUFFICES ASSUME NEW e \in Gone, NEW d \in Queued' \cap Queued
                 PROVE  ~GoesBefore(policy.discard, d, e)
      OBVIOUS
    <3>1. e \in Events(heap) \ Events(s) /\ d \in Events(s) /\ d \in Events(heap)
      BY <2>2, <2>3 DEF Gone
    <3>2. ~Sooner(policy.discard, attr, d, e)
      BY <2>2, <3>1 DEF Rests
    <3>3. Fit(policy) /\ attr \in Seq(Carried) /\ heap \in Seq(Entries(attr))
      BY <1>1, Fitting DEF Inv, Sound
    <3>4. d \in DOMAIN attr /\ e \in DOMAIN attr
      BY <3>1, <3>3, EventsAreKnown
    <3> QED BY <3>2, <3>3, <3>4, KeysFollow
  <2>5. ASSUME Gone # {}
        PROVE  Cardinality(Queued') = qos.max
    <3>1. s # heap
      BY <2>2, <2>3, <2>5 DEF Gone
    <3>2. Len(heap') = (qos.max - 1) + 1 /\ qos.max \in Nat
      BY <1>1, <2>2, <3>1, Fitting
    <3>3. heap' \in Seq(Entries(attr')) /\ UniqueIn(heap')
      BY <2>2 DEF Sound
    <3>4. Cardinality(Events(heap')) = Len(heap')
      BY <3>3, EventsCounted
    <3> QED BY <2>3, <3>2, <3>4
  <2>6. Len(attr') \in Queued'
    BY <2>2, <2>3
  <2> QED BY <2>4, <2>5, <2>6
<1>2. Inv /\ [Next]_vars =>
        [Adding =>
           /\ \A e \in Gone, d \in Queued' \cap Queued : ~GoesBefore(policy.discard, d, e)
           /\ Gone # {} => Cardinality(Queued') = qos.max
           /\ Len(attr') \in Queued']_vars
  BY <1>1
<1> QED BY <1>2, Invariance, PTL DEF Spec, DiscardsFirst

\* After an event is added the queue is within MaxEventsPerConsumer as it stands then,
\* however far the limit was lowered since the event before.
THEOREM Within == Spec => WithinLimit
<1>1. ASSUME Inv, Next, Adding
      PROVE  qos.max = 0 \/ Len(heap') <= qos.max
  <2>1. AddEvent
    BY <1>1 DEF Next, Adding, TakeEvent, ClearQueue, SetQoS, QosChanged
  <2>2. PICK s \in Rests(heap, attr) :
          /\ Len(heap') = Len(s) + 1
          /\ qos.max = 0 \/ Len(heap) < qos.max => s = heap
          /\ ~(qos.max = 0 \/ Len(heap) < qos.max) => Len(s) = qos.max - 1
    BY <1>1, <2>1, Added
  <2>3. qos.max \in Nat /\ Len(heap) \in Nat
    BY <1>1, Fitting DEF Inv, Sound
  <2> QED BY <2>2, <2>3
<1>2. Inv /\ [Next]_vars => [Adding => qos.max = 0 \/ Len(heap') <= qos.max]_vars
  BY <1>1
<1> QED BY <1>2, Invariance, PTL DEF Spec, WithinLimit
================================================================================
