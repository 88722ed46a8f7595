--------------------------- MODULE ChangePoolProofs ---------------------------
(***************************************************************************)
(* The pool that tells clients of changes, for any number of proxies,      *)
(* workers, changes and registrations.                                     *)
(***************************************************************************)
EXTENDS ChangePool, FiniteSetTheorems, SequenceTheorems, WellFoundedInduction, TLAPS

--------------------------------------------------------------------------------
(* The inductive invariant                                                  *)

\* Every node that is not freed waits in an entry that exists, and so does every
\* node in use or not deleted.
Placed ==
  /\ head <= tail
  /\ \A n \in NodeIds : at[n] # 0 => n \in Nodes /\ head <= at[n] /\ at[n] <= tail
  /\ \A n \in Nodes : n \notin deled \/ n \in used => at[n] # 0

\* The counters of the pool are those of its nodes.
Counted ==
  /\ nproxies = Cardinality(Nodes \ deled)
  /\ ndeleted = Cardinality({n \in deled : at[n] # 0})

\* A proxy has one registration at most, and only while it wants to be told.
Single == \A m, n \in Nodes \ deled : node[m] = node[n] => m = n
Wanted ==
  terminate \/ \A n \in Nodes \ deled : pxstate[node[n]] = "Connected" /\ node[n] \notin off

\* The nodes in use are those the workers have, one each; an entry counts the
\* workers that use it, and a proxy those that call its client.
UsersOf(k) == {w \in Workers : pc[w] \in Busy /\ found[w] = k}
Senders(p) == {w \in Workers : pc[w] = "sending" /\ node[mine[w]] = p}
Held ==
  /\ \A w \in Workers : pc[w] \in Busy =>
       mine[w] \in used /\ head <= found[w] /\ found[w] < tail
  /\ \A v, w \in Workers : pc[v] \in Busy /\ pc[w] \in Busy /\ mine[v] = mine[w] => v = w
  /\ \A n \in used : \E w \in Workers : pc[w] \in Busy /\ mine[w] = n
  /\ \A k \in Entries : users[k] = Cardinality(UsersOf(k))
  /\ \A p \in Proxies : inuse[p] = Cardinality(Senders(p))
  /\ \A w \in Workers : pc[w] = "sending" => pxstate[node[mine[w]]] # "disposed"

\* A client was told of all changes before the entry its node waits in, or, while
\* a worker has the node, of all before the one it sends.
Told ==
  /\ \A n \in Nodes \ (deled \cup used) : last[n] = at[n] - 1
  /\ \A w \in Workers : pc[w] \in Busy =>
       /\ at[mine[w]] = found[w] + 1
       /\ pc[w] # "done" => last[mine[w]] = found[w] - 1
       /\ pc[w] = "done" /\ w \notin invalid /\ mine[w] \notin deled => last[mine[w]] = found[w]

Inv == TypeOK /\ Placed /\ Counted /\ Single /\ Wanted /\ Held /\ Told

--------------------------------------------------------------------------------
(* Numbers and sets                                                         *)

Below == {ss \in Nat \X Nat : ss[1] < ss[2]}
LEMMA Least ==
  ASSUME NEW S \in SUBSET Nat, S # {}
  PROVE  \E x \in S : \A y \in S : x <= y
<1>1. IsWellFoundedOn(Below, Nat)
  BY NatLessThanWellFounded DEF OpToRel, Below
<1>2. PICK x \in S : \A y \in S : <<y, x>> \notin Below
  BY <1>1, WFMin
<1>3. \A y \in S : ~ (y < x)
  BY <1>2 DEF Below
<1> QED BY <1>3

\* The workers that do something are as many as a counter of workers may count.
LEMMA SomeWorkers ==
  ASSUME NEW T \in SUBSET Workers
  PROVE  IsFiniteSet(T) /\ Cardinality(T) \in 0..Cardinality(Workers)
BY FS_Subset, FS_CardinalityType, ChangePoolAssumption

LEMMA OneMore ==
  ASSUME NEW T \in SUBSET Workers, NEW w \in Workers \ T
  PROVE  Cardinality(T \cup {w}) = Cardinality(T) + 1
BY FS_AddElement, SomeWorkers

LEMMA OneLess ==
  ASSUME NEW T \in SUBSET Workers, NEW w \in T
  PROVE  Cardinality(T \ {w}) = Cardinality(T) - 1 /\ Cardinality(T) > 0
<1>1. IsFiniteSet(T) /\ Cardinality(T) \in Nat /\ Cardinality(T \ {w}) \in Nat
  BY SomeWorkers, FS_Subset, FS_CardinalityType
<1>2. Cardinality(T \ {w}) = Cardinality(T) - 1
  BY <1>1, FS_RemoveElement
<1> QED BY <1>1, <1>2

\* So it is with nodes.
LEMMA SomeNodes ==
  ASSUME NEW T \in SUBSET NodeIds
  PROVE  IsFiniteSet(T) /\ Cardinality(T) \in 0..MaxNodes
<1>1. IsFiniteSet(NodeIds) /\ Cardinality(NodeIds) = MaxNodes
  BY FS_Interval, ChangePoolAssumption DEF NodeIds
<1> QED BY <1>1, FS_Subset, FS_CardinalityType

--------------------------------------------------------------------------------
(* The operations of the pool                                               *)

Pools == [head : Entries, users : [Entries -> Int], node : Seq(Proxies),
          at : [NodeIds -> 0..(MaxChanges + 1)], used : SUBSET NodeIds,
          deled : SUBSET NodeIds, nproxies : Int, ndeleted : Int]

\* The parts of the invariant that are about the pool, of a pool s.
Sound(s) ==
  /\ s \in Pools
  /\ s.used \subseteq 1..Len(s.node) /\ s.deled \subseteq 1..Len(s.node)
  /\ s.head <= tail
  /\ \A n \in NodeIds : s.at[n] # 0 => n \in 1..Len(s.node) /\ s.head <= s.at[n] /\ s.at[n] <= tail
  /\ \A n \in 1..Len(s.node) : n \notin s.deled \/ n \in s.used => s.at[n] # 0
  /\ s.nproxies = Cardinality(1..Len(s.node) \ s.deled)
  /\ s.ndeleted = Cardinality({n \in s.deled : s.at[n] # 0})
  /\ \A m, n \in 1..Len(s.node) \ s.deled : s.node[m] = s.node[n] => m = n
  /\ Len(s.node) <= MaxNodes

\* What an operation that makes r of s leaves alone: who uses what, the places of
\* nodes that are in use or registered, and the entries in use.
Keeps(s, r) ==
  /\ r.users = s.users /\ r.used = s.used
  /\ Len(s.node) <= Len(r.node) /\ \A n \in 1..Len(s.node) : r.node[n] = s.node[n]
  /\ s.deled \subseteq r.deled /\ r.deled \subseteq 1..Len(s.node)
  /\ \A n \in 1..Len(s.node) : n \in s.used \/ n \notin r.deled => r.at[n] = s.at[n]
  /\ \A n \in (Len(s.node) + 1)..Len(r.node) : r.at[n] = tail
  /\ s.head <= r.head /\ r.head <= tail
  /\ \A k \in Entries : s.head <= k /\ k < tail /\ s.users[k] # 0 => r.head <= k

LEMMA NewHeadIs ==
  ASSUME TypeOK, NEW s \in Pools, s.head <= tail
  PROVE  /\ NewHead(s) \in s.head..tail
         /\ \A j \in s.head..(NewHead(s) - 1) : Unneeded(s, j)
<1> DEFINE S == {k \in s.head..tail : k = tail \/ ~Unneeded(s, k)}
<1>1. s.head \in Nat /\ tail \in Nat
  BY ChangePoolAssumption DEF Pools, TypeOK, Entries
<1>2. S \in SUBSET Nat /\ S # {}
  BY <1>1
<1>3. PICK k \in S : \A j \in S : k <= j
  BY <1>2, Least
<1>4. \A j \in s.head..(k - 1) : Unneeded(s, j)
  BY <1>1, <1>3
<1>5. \E i \in s.head..tail :
        (\A j \in s.head..(i - 1) : Unneeded(s, j)) /\ (i = tail \/ ~Unneeded(s, i))
  BY <1>3, <1>4
<1> QED BY <1>5 DEF NewHead

\* What it is to set fields of a pool.
Rearranged(s, A, d) == [s EXCEPT !.at = A, !.ndeleted = d]
LEMMA RearrangedIs ==
  ASSUME NEW s \in Pools, NEW A \in [NodeIds -> 0..(MaxChanges + 1)], NEW d \in Int,
         NEW r, r = Rearranged(s, A, d)
  PROVE  /\ r \in Pools /\ r.head = s.head /\ r.users = s.users /\ r.node = s.node /\ r.at = A
         /\ r.used = s.used /\ r.deled = s.deled /\ r.nproxies = s.nproxies /\ r.ndeleted = d
BY DEF Pools, Rearranged

Marked(s, D, p, d) == [s EXCEPT !.deled = D, !.nproxies = p, !.ndeleted = d]
LEMMA MarkedIs ==
  ASSUME NEW s \in Pools, NEW D \in SUBSET NodeIds, NEW p \in Int, NEW d \in Int,
         NEW r, r = Marked(s, D, p, d)
  PROVE  /\ r \in Pools /\ r.head = s.head /\ r.users = s.users /\ r.node = s.node /\ r.at = s.at
         /\ r.used = s.used /\ r.deled = D /\ r.nproxies = p /\ r.ndeleted = d
BY DEF Pools, Marked

\* What _gcollect() does to the pool.
LEMMA GcollectKeeps ==
  ASSUME TypeOK, NEW s, Sound(s)
  PROVE  /\ Sound(Gcollect(s)) /\ Keeps(s, Gcollect(s))
         /\ Gcollect(s).node = s.node /\ Gcollect(s).deled = s.deled
<1> DEFINE gone == {n \in Collectable(s) : s.at[n] # 0}
           fewer == [n \in NodeIds |-> IF n \in gone THEN 0 ELSE s.at[n]]
           kept == [s EXCEPT !.at = fewer, !.ndeleted = @ - Cardinality(gone)]
           r == [kept EXCEPT !.head = NewHead(kept)]
<1>1. r = Gcollect(s)
  BY DEF Gcollect
<1>2. s \in Pools
  BY DEF Sound
<1>3. gone \in SUBSET NodeIds /\ Cardinality(gone) \in Int
  BY <1>2, SomeNodes DEF Collectable, Pools
<1>4. fewer \in [NodeIds -> 0..(MaxChanges + 1)]
  BY <1>2, ChangePoolAssumption DEF Pools
<1>5. /\ kept \in Pools /\ kept.head = s.head /\ kept.users = s.users /\ kept.node = s.node
      /\ kept.at = fewer /\ kept.used = s.used /\ kept.deled = s.deled
      /\ kept.nproxies = s.nproxies /\ kept.ndeleted = s.ndeleted - Cardinality(gone)
  <2> DEFINE c == Cardinality(gone)
  <2>1. c \in Int /\ fewer \in [NodeIds -> 0..(MaxChanges + 1)]
    BY <1>3, <1>4
  <2> HIDE DEF gone, fewer, c
  <2>2. s.ndeleted - c \in Int
    BY <1>2, <2>1 DEF Pools
  <2>3. kept = Rearranged(s, fewer, s.ndeleted - c)
    BY DEF Rearranged, c
  <2> HIDE DEF kept
  <2> QED BY <1>2, <2>1, <2>2, <2>3, RearrangedIs DEF c
<1>6. /\ NewHead(kept) \in s.head..tail
      /\ \A j \in s.head..(NewHead(kept) - 1) : Unneeded(kept, j)
  <2>1. kept.head <= tail
    BY <1>5 DEF Sound
  <2> HIDE DEF kept
  <2> QED BY <2>1, <1>5, NewHeadIs
<1>7. /\ r \in Pools /\ r.head = NewHead(kept) /\ r.users = s.users /\ r.node = s.node
      /\ r.at = fewer /\ r.used = s.used /\ r.deled = s.deled
      /\ r.nproxies = s.nproxies /\ r.ndeleted = s.ndeleted - Cardinality(gone)
  <2> HIDE DEF kept, gone, fewer
  <2>1. NewHead(kept) \in Entries
    <3>1. s.head \in 1..(MaxChanges + 1) /\ tail \in 1..(MaxChanges + 1)
      BY <1>2 DEF TypeOK, Entries, Pools
    <3>2. NewHead(kept) \in s.head..tail
      BY <1>6
    <3> QED BY <3>1, <3>2, ChangePoolAssumption DEF Entries
  <2> QED BY <2>1, <1>5 DEF Pools
<1>8. \A n \in NodeIds : fewer[n] = IF n \in gone THEN 0 ELSE s.at[n]
  OBVIOUS
<1>9. \A j \in s.head..(NewHead(kept) - 1) : s.users[j] = 0 /\ \A n \in NodeIds : fewer[n] # j
  BY <1>5, <1>6 DEF Unneeded
<1>10. /\ \A n \in gone : n \in s.deled /\ n \notin s.used /\ s.at[n] # 0
       /\ \A n \in NodeIds : n \notin gone => fewer[n] = s.at[n]
       /\ \A n \in NodeIds : n \in gone => fewer[n] = 0
       /\ \A n \in NodeIds : n \in s.used \/ n \notin s.deled => n \notin gone
  BY <1>8 DEF Collectable
<1> DEFINE h == NewHead(kept)
<1>11. h \in Int /\ s.head \in Int /\ tail \in Int /\ s.head <= h /\ h <= tail
  <2> HIDE DEF kept
  <2> QED BY <1>2, <1>6, ChangePoolAssumption DEF TypeOK, Entries, Pools
<1>12. \A n \in NodeIds : fewer[n] # 0 =>
         n \in 1..Len(s.node) /\ h <= fewer[n] /\ fewer[n] <= tail
  <2> SUFFICES ASSUME NEW n \in NodeIds, fewer[n] # 0
               PROVE  n \in 1..Len(s.node) /\ h <= fewer[n] /\ fewer[n] <= tail
    OBVIOUS
  <2>1. fewer[n] = s.at[n]
    BY <1>8
  <2>2. n \in 1..Len(s.node) /\ s.head <= fewer[n] /\ fewer[n] <= tail /\ fewer[n] \in Int
    BY <2>1, <1>4 DEF Sound
  <2>3. fewer[n] \notin s.head..(h - 1)
    BY <1>9
  <2> HIDE DEF fewer, h
  <2> QED BY <2>2, <2>3, <1>11
<1>13. \A n \in 1..Len(s.node) : n \notin s.deled \/ n \in s.used =>
         fewer[n] = s.at[n] /\ s.at[n] # 0
  <2>1. \A n \in 1..Len(s.node) : n \in NodeIds
    BY <1>2, ChangePoolAssumption DEF Sound, NodeIds, Pools
  <2> QED BY <2>1, <1>10 DEF Sound
<1>14. s.ndeleted - Cardinality(gone) = Cardinality({n \in s.deled : fewer[n] # 0})
  <2> DEFINE before == {n \in s.deled : s.at[n] # 0}
             after == {n \in s.deled : fewer[n] # 0}
  <2>1. before \in SUBSET NodeIds /\ gone \in SUBSET NodeIds /\ s.ndeleted = Cardinality(before)
    BY <1>2, <1>3 DEF Pools, Sound
  <2>2. IsFiniteSet(before) /\ IsFiniteSet(gone)
    BY <2>1, SomeNodes
  <2>3. before \cap gone = gone /\ after = before \ gone
    BY <1>2, <1>8, <1>10 DEF Pools
  <2>4. Cardinality(before \ gone) = Cardinality(before) - Cardinality(before \cap gone)
    <3> HIDE DEF before, gone
    <3> QED BY <2>2, FS_Difference
  <2> HIDE DEF before, after, gone, fewer
  <2>5. s.ndeleted - Cardinality(gone) = Cardinality(after)
    BY <2>1, <2>3, <2>4
  <2> QED BY <2>5 DEF after
<1>15. Sound(r)
  <2> HIDE DEF r, fewer, gone, h
  <2>1. r \in Pools /\ r.used \subseteq 1..Len(r.node) /\ r.deled \subseteq 1..Len(r.node)
    BY <1>2, <1>7 DEF Sound
  <2>2. r.head = h /\ r.at = fewer /\ r.used = s.used /\ r.deled = s.deled /\ r.node = s.node
    BY <1>7 DEF h
  <2> HIDE DEF h
  <2>3. \A n \in NodeIds : r.at[n] # 0 => n \in 1..Len(r.node) /\ r.head <= r.at[n] /\ r.at[n] <= tail
    BY <1>12, <2>2
  <2>4. \A n \in 1..Len(r.node) : n \notin r.deled \/ n \in r.used => r.at[n] # 0
    BY <1>13, <2>2
  <2>5. r.nproxies = Cardinality(1..Len(r.node) \ r.deled)
    BY <1>7, <2>2 DEF Sound
  <2>6. r.ndeleted = Cardinality({n \in r.deled : r.at[n] # 0})
    BY <1>7, <1>14, <2>2
  <2>7. /\ \A m, n \in 1..Len(r.node) \ r.deled : r.node[m] = r.node[n] => m = n
        /\ Len(r.node) <= MaxNodes
    BY <2>2 DEF Sound
  <2> QED BY <1>11, <2>1, <2>2, <2>3, <2>4, <2>5, <2>6, <2>7 DEF Sound
<1>16. Keeps(s, r)
  <2> HIDE DEF r, fewer, gone, kept
  <2>1. s.node \in Seq(Proxies) /\ s.deled \subseteq 1..Len(s.node) /\ s.used \subseteq 1..Len(s.node)
    BY <1>2 DEF Sound, Pools
  <2>2. \A k \in Entries : s.head <= k /\ k < tail /\ s.users[k] # 0 => h <= k
    BY <1>9, <1>11 DEF Entries
  <2>3. (Len(s.node) + 1)..Len(s.node) = {}
    BY <2>1
  <2> HIDE DEF h
  <2> QED BY <2>1, <2>2, <2>3, <1>7, <1>11, <1>13 DEF Keeps, h
<1> HIDE DEF r
<1> QED BY <1>1, <1>7, <1>15, <1>16

\* Marking a node, and collecting if need be.
LEMMA DeleteKeeps ==
  ASSUME TypeOK, NEW s, Sound(s), NEW n \in 1..Len(s.node) \ s.deled
  PROVE  /\ Sound(Delete(s, n)) /\ Keeps(s, Delete(s, n))
         /\ Delete(s, n).node = s.node /\ Delete(s, n).deled = s.deled \cup {n}
<1> DEFINE d == [s EXCEPT !.deled = @ \cup {n}, !.nproxies = @ - 1, !.ndeleted = @ + 1]
<1>1. s \in Pools /\ n \in NodeIds
  BY ChangePoolAssumption DEF Sound, Pools, NodeIds
<1>2. /\ d \in Pools /\ d.head = s.head /\ d.users = s.users /\ d.node = s.node
      /\ d.at = s.at /\ d.used = s.used /\ d.deled = s.deled \cup {n}
      /\ d.nproxies = s.nproxies - 1 /\ d.ndeleted = s.ndeleted + 1
  <2>1. s.deled \cup {n} \in SUBSET NodeIds /\ s.nproxies - 1 \in Int /\ s.ndeleted + 1 \in Int
    BY <1>1 DEF Pools
  <2>2. d = Marked(s, s.deled \cup {n}, s.nproxies - 1, s.ndeleted + 1)
    BY DEF Marked
  <2> HIDE DEF d
  <2> QED BY <1>1, <2>1, <2>2, MarkedIs
<1>3. s.nproxies - 1 = Cardinality(1..Len(s.node) \ (s.deled \cup {n}))
  <2> DEFINE live == 1..Len(s.node) \ s.deled
  <2>1. live \in SUBSET NodeIds /\ n \in live /\ s.nproxies = Cardinality(live)
    BY <1>1, ChangePoolAssumption DEF Sound, Pools, NodeIds
  <2>2. IsFiniteSet(live) /\ Cardinality(live) \in Int
    BY <2>1, SomeNodes
  <2>3. Cardinality(live \ {n}) = Cardinality(live) - 1
    BY <2>1, <2>2, FS_RemoveElement
  <2>4. 1..Len(s.node) \ (s.deled \cup {n}) = live \ {n}
    OBVIOUS
  <2> QED BY <2>1, <2>3, <2>4
<1>4. s.ndeleted + 1 = Cardinality({m \in s.deled \cup {n} : s.at[m] # 0})
  <2> DEFINE waiting == {m \in s.deled : s.at[m] # 0}
  <2>1. waiting \in SUBSET NodeIds /\ n \notin waiting /\ s.ndeleted = Cardinality(waiting)
    BY <1>1 DEF Sound, Pools
  <2>2. IsFiniteSet(waiting) /\ Cardinality(waiting) \in Int
    BY <2>1, SomeNodes
  <2>3. Cardinality(waiting \cup {n}) = Cardinality(waiting) + 1
    BY <2>1, <2>2, FS_AddElement
  <2>4. s.at[n] # 0
    BY DEF Sound
  <2>5. {m \in s.deled \cup {n} : s.at[m] # 0} = waiting \cup {n}
    BY <2>4
  <2> QED BY <2>1, <2>3, <2>5
<1>5. Sound(d)
  <2> HIDE DEF d
  <2> QED BY <1>1, <1>2, <1>3, <1>4 DEF Sound
<1>6. Keeps(s, d)
  <2> HIDE DEF d
  <2>1. s.node \in Seq(Proxies) /\ (Len(s.node) + 1)..Len(s.node) = {} /\ s.head <= tail
    BY <1>1 DEF Sound, Pools
  <2>2. s.deled \cup {n} \subseteq 1..Len(s.node)
    BY DEF Sound
  <2> QED BY <1>1, <1>2, <2>1, <2>2 DEF Keeps, Pools, Entries
<1>7. /\ Sound(Gcollect(d)) /\ Keeps(d, Gcollect(d))
      /\ Gcollect(d).node = s.node /\ Gcollect(d).deled = s.deled \cup {n}
  <2> HIDE DEF d
  <2> QED BY <1>2, <1>5, GcollectKeeps
<1>8. Keeps(s, Gcollect(d))
  <2>1. \A k \in Entries : s.head <= k /\ k < tail /\ s.users[k] # 0 => Gcollect(d).head <= k
    <3> HIDE DEF d
    <3> QED BY <1>2, <1>7 DEF Keeps
  <2>2. s.head <= Gcollect(d).head /\ Gcollect(d).head <= tail
    <3> HIDE DEF d
    <3> QED BY <1>2, <1>7 DEF Keeps
  <2> HIDE DEF d
  <2> QED BY <1>2, <1>6, <1>7, <2>1, <2>2 DEF Keeps
<1>9. Delete(s, n) = IF d.ndeleted >= GcAt THEN Gcollect(d) ELSE d
  BY DEF Delete
<1> HIDE DEF d
<1> QED BY <1>2, <1>5, <1>6, <1>7, <1>8, <1>9

\* A new registration of a proxy that has none.
Extended(s, q, A, c) == [s EXCEPT !.node = q, !.at = A, !.nproxies = c]
LEMMA ExtendedIs ==
  ASSUME NEW s \in Pools, NEW q \in Seq(Proxies), NEW A \in [NodeIds -> 0..(MaxChanges + 1)],
         NEW c \in Int, NEW r, r = Extended(s, q, A, c)
  PROVE  /\ r \in Pools /\ r.head = s.head /\ r.users = s.users /\ r.node = q /\ r.at = A
         /\ r.used = s.used /\ r.deled = s.deled /\ r.nproxies = c /\ r.ndeleted = s.ndeleted
BY DEF Pools, Extended

\* Nothing done to the pool is one of the things done to it.
LEMMA NothingKeeps ==
  ASSUME NEW s, Sound(s)
  PROVE  Keeps(s, s)
<1>1. s.node \in Seq(Proxies) /\ (Len(s.node) + 1)..Len(s.node) = {} /\ s.head \in Int
  BY DEF Sound, Pools, Entries
<1> QED BY <1>1 DEF Sound, Keeps, Pools, Entries

LEMMA InsertProxyKeeps ==
  ASSUME TypeOK, NEW s, Sound(s), NEW p \in Proxies, terminate \/ LiveNodes(s, p) = {},
         Len(InsertProxy(s, p).node) <= MaxNodes
  PROVE  /\ Sound(InsertProxy(s, p)) /\ Keeps(s, InsertProxy(s, p))
         /\ InsertProxy(s, p).deled = s.deled
         /\ \A n \in 1..Len(InsertProxy(s, p).node) :
              terminate \/ n \in 1..Len(s.node) \/ InsertProxy(s, p).node[n] = p
<1> DEFINE new == Len(s.node) + 1
           A == [s.at EXCEPT ![new] = tail]
           q == Append(s.node, p)
           r == [s EXCEPT !.node = Append(@, p), !.at = [@ EXCEPT ![Len(s.node) + 1] = tail],
                          !.nproxies = @ + 1]
<1>0. CASE terminate
  <2>1. InsertProxy(s, p) = s
    BY <1>0 DEF InsertProxy
  <2> QED BY <1>0, <2>1, NothingKeeps
<1>1. CASE ~terminate
  <2>1. InsertProxy(s, p) = r /\ LiveNodes(s, p) = {}
    BY <1>1 DEF InsertProxy
  <2>2. s \in Pools /\ s.node \in Seq(Proxies) /\ Len(s.node) \in Nat /\ s.nproxies + 1 \in Int
    BY DEF Sound, Pools
  <2>3. /\ q \in Seq(Proxies) /\ Len(q) = new /\ q[new] = p
        /\ \A n \in 1..Len(s.node) : q[n] = s.node[n]
    BY <2>2
  <2>4. A \in [NodeIds -> 0..(MaxChanges + 1)]
    <3>1. tail \in 0..(MaxChanges + 1)
      BY ChangePoolAssumption DEF TypeOK, Entries
    <3> QED BY <2>2, <3>1 DEF Pools
  <2>5. /\ r \in Pools /\ r.head = s.head /\ r.users = s.users /\ r.node = q /\ r.at = A
        /\ r.used = s.used /\ r.deled = s.deled /\ r.nproxies = s.nproxies + 1
        /\ r.ndeleted = s.ndeleted
    <3>1. r = Extended(s, q, A, s.nproxies + 1)
      BY DEF Extended
    <3> HIDE DEF r, q, A
    <3> QED BY <3>1, <2>2, <2>3, <2>4, ExtendedIs
  <2>6. new <= MaxNodes /\ new \in NodeIds
    <3> HIDE DEF r, q
    <3> QED BY <2>1, <2>2, <2>3, <2>5, ChangePoolAssumption DEF NodeIds
  <2>7. /\ A[new] = tail
        /\ \A n \in NodeIds : n # new => A[n] = s.at[n]
        /\ new \notin s.deled /\ new \notin s.used /\ s.at[new] = 0
    <3>1. new \notin 1..Len(s.node)
      BY <2>2
    <3>2. new \notin s.deled /\ new \notin s.used /\ s.at[new] = 0
      BY <3>1, <2>6 DEF Sound
    <3> QED BY <2>2, <2>6, <3>2 DEF Pools
  <2>8. s.nproxies + 1 = Cardinality(1..new \ s.deled)
    <3> DEFINE live == 1..Len(s.node) \ s.deled
    <3>1. live \in SUBSET NodeIds /\ new \notin live /\ s.nproxies = Cardinality(live)
      BY <2>2, <2>6, ChangePoolAssumption DEF Sound, NodeIds
    <3>2. IsFiniteSet(live) /\ Cardinality(live) \in Int
      BY <3>1, SomeNodes
    <3>3. Cardinality(live \cup {new}) = Cardinality(live) + 1
      BY <3>1, <3>2, FS_AddElement
    <3>4. 1..new \ s.deled = live \cup {new}
      BY <2>2, <2>7
    <3> QED BY <3>1, <3>3, <3>4
  <2>9. {n \in s.deled : A[n] # 0} = {n \in s.deled : s.at[n] # 0}
    BY <2>2, <2>7 DEF Pools
  <2>10. \A n \in 1..Len(s.node) : n \in NodeIds /\ n # new
    BY <2>2, <2>6, ChangePoolAssumption DEF NodeIds
  <2>11. \A m, n \in 1..new \ s.deled : q[m] = q[n] => m = n
    <3>1. \A n \in 1..Len(s.node) \ s.deled : s.node[n] # p
      BY <2>1, <2>2 DEF LiveNodes
    <3>2. \A n \in 1..new \ s.deled : n = new \/ n \in 1..Len(s.node) \ s.deled
      BY <2>2
    <3> HIDE DEF new, q
    <3> QED BY <3>1, <3>2, <2>3 DEF Sound
  <2>12. s.head <= tail /\ tail # 0 /\ tail \in Int /\ s.head \in Int
    BY <2>2, ChangePoolAssumption DEF TypeOK, Entries, Sound, Pools
  <2>13. \A n \in NodeIds : A[n] # 0 => n \in 1..new /\ s.head <= A[n] /\ A[n] <= tail
    <3> SUFFICES ASSUME NEW n \in NodeIds, A[n] # 0
                 PROVE  n \in 1..new /\ s.head <= A[n] /\ A[n] <= tail
      OBVIOUS
    <3>1. CASE n = new
      BY <3>1, <2>2, <2>7, <2>12
    <3>2. CASE n # new
      <4>1. A[n] = s.at[n]
        BY <3>2, <2>7
      <4> HIDE DEF A
      <4> QED BY <4>1, <2>2 DEF Sound
    <3> QED BY <3>1, <3>2
  <2>14. \A n \in 1..new : n \notin s.deled \/ n \in s.used => A[n] # 0
    <3>1. \A n \in 1..new : n = new \/ n \in 1..Len(s.node)
      BY <2>2
    <3> HIDE DEF A, new
    <3> QED BY <3>1, <2>7, <2>10, <2>12 DEF Sound
  <2>15. Sound(r)
    <3>1. s.used \subseteq 1..new /\ s.deled \subseteq 1..new
      BY <2>2 DEF Sound
    <3> HIDE DEF r, q, A, new
    <3> QED BY <3>1, <2>3, <2>5, <2>6, <2>8, <2>9, <2>11, <2>12, <2>13, <2>14 DEF Sound
  <2>16. Keeps(s, r)
    <3>1. s.deled \subseteq 1..Len(s.node)
      BY DEF Sound
    <3>2. (Len(s.node) + 1)..Len(q) = {new} /\ Len(s.node) <= Len(q)
      BY <2>2, <2>3
    <3>3. \A k \in Entries : s.head <= k => s.head <= k
      OBVIOUS
    <3>4. s.head <= s.head
      BY <2>12
    <3> HIDE DEF r, q, A, new
    <3> QED BY <3>1, <3>2, <3>4, <2>3, <2>5, <2>7, <2>10, <2>12 DEF Keeps
  <2>17. \A n \in 1..Len(r.node) : n \in 1..Len(s.node) \/ r.node[n] = p
    <3>1. \A n \in 1..new : n = new \/ n \in 1..Len(s.node)
      BY <2>2
    <3> HIDE DEF r, q, new
    <3> QED BY <3>1, <2>3, <2>5
  <2> HIDE DEF r
  <2> QED BY <2>1, <2>5, <2>15, <2>16, <2>17
<1> QED BY <1>0, <1>1

LEMMA RemoveProxyKeeps ==
  ASSUME TypeOK, NEW s, Sound(s), NEW p \in Proxies
  PROVE  /\ Sound(RemoveProxy(s, p)) /\ Keeps(s, RemoveProxy(s, p))
         /\ RemoveProxy(s, p).node = s.node
         /\ terminate \/ LiveNodes(RemoveProxy(s, p), p) = {}
<1>1. CASE terminate \/ LiveNodes(s, p) = {}
  <2>1. RemoveProxy(s, p) = s
    BY <1>1 DEF RemoveProxy
  <2> QED BY <1>1, <2>1, NothingKeeps
<1>2. CASE ~(terminate \/ LiveNodes(s, p) = {})
  <2>1. PICK n \in LiveNodes(s, p) : n = CHOOSE m \in LiveNodes(s, p) : TRUE
    BY <1>2
  <2>2. RemoveProxy(s, p) = Delete(s, n)
    BY <1>2, <2>1 DEF RemoveProxy
  <2>3. n \in 1..Len(s.node) \ s.deled /\ s.node[n] = p /\ DOMAIN s.node = 1..Len(s.node)
    BY <2>1 DEF LiveNodes, Sound, Pools
  <2>4. /\ Sound(Delete(s, n)) /\ Keeps(s, Delete(s, n))
        /\ Delete(s, n).node = s.node /\ Delete(s, n).deled = s.deled \cup {n}
    BY <2>3, DeleteKeeps
  <2>5. LiveNodes(Delete(s, n), p) = {}
    BY <2>3, <2>4 DEF LiveNodes, Sound
  <2> QED BY <2>2, <2>4, <2>5
<1> QED BY <1>1, <1>2

LEMMA KeepsBoth ==
  ASSUME TypeOK, NEW s, NEW r, NEW t, Sound(s), Sound(r), Sound(t),
         Keeps(s, r), Keeps(r, t), r.node = s.node
  PROVE  Keeps(s, t)
<1>1. /\ s.head \in Int /\ r.head \in Int /\ t.head \in Int
      /\ s.node \in Seq(Proxies)
  BY DEF Sound, Pools, Entries
<1>2. s.head <= t.head /\ t.head <= tail
  BY <1>1 DEF Keeps
<1>3. \A k \in Entries : s.head <= k /\ k < tail /\ s.users[k] # 0 => t.head <= k
  BY DEF Keeps
<1> QED BY <1>1, <1>2, <1>3 DEF Keeps

--------------------------------------------------------------------------------
(* The steps                                                                *)

LEMMA PoolIs ==
  /\ Pool.head = head /\ Pool.users = users /\ Pool.node = node /\ Pool.at = at
  /\ Pool.used = used /\ Pool.deled = deled
  /\ Pool.nproxies = nproxies /\ Pool.ndeleted = ndeleted
BY DEF Pool

LEMMA Numbers ==
  ASSUME TypeOK
  PROVE  /\ Cardinality(Workers) \in Nat /\ MaxNodes \in Nat /\ MaxChanges \in Nat
         /\ head \in Int /\ tail \in Int /\ Len(node) \in Nat
         /\ Nodes \in SUBSET NodeIds
         /\ \A w \in Workers : found[w] \in Int /\ mine[w] \in Int
<1>1. Cardinality(Workers) \in Nat
  BY FS_CardinalityType, ChangePoolAssumption
<1> QED BY <1>1, ChangePoolAssumption DEF TypeOK, Entries, Nodes, NodeIds

LEMMA PoolSound ==
  ASSUME Inv
  PROVE  Sound(Pool)
<1>1. TypeOK
  BY DEF Inv
<1>2. Pool \in Pools
  <2>1. users \in [Entries -> Int] /\ used \in SUBSET NodeIds /\ deled \in SUBSET NodeIds
    BY <1>1, Numbers DEF TypeOK
  <2> QED BY <1>1, <2>1, Numbers DEF Pool, Pools, TypeOK
<1> QED BY <1>1, <1>2, PoolIs DEF Inv, Sound, TypeOK, Placed, Counted, Single, Nodes

\* The node of a busy worker is one that exists, and its entry is in use.
LEMMA BusyWorker ==
  ASSUME Inv, NEW w \in Workers, pc[w] \in Busy
  PROVE  /\ mine[w] \in Nodes /\ mine[w] \in NodeIds /\ node[mine[w]] \in Proxies
         /\ found[w] \in Entries /\ users[found[w]] > 0
<1>1. TypeOK /\ Held /\ Placed
  BY DEF Inv
<1>2. mine[w] \in Nodes /\ mine[w] \in NodeIds /\ node[mine[w]] \in Proxies
  <2>1. mine[w] \in Nodes
    BY <1>1 DEF Held, TypeOK
  <2>2. mine[w] \in NodeIds
    BY <1>1, <2>1, Numbers
  <2>3. node[mine[w]] \in Proxies
    BY <1>1, <2>1 DEF TypeOK, Nodes
  <2> QED BY <2>1, <2>2, <2>3
<1>3. found[w] \in Entries
  <2>1. head <= found[w]
    BY <1>1 DEF Held
  <2>2. found[w] \in 0..MaxChanges
    BY <1>1 DEF TypeOK
  <2>3. head \in 1..(MaxChanges + 1)
    BY <1>1 DEF TypeOK, Entries
  <2> QED BY <2>1, <2>2, <2>3, ChangePoolAssumption DEF Entries
<1>4. w \in UsersOf(found[w]) /\ UsersOf(found[w]) \in SUBSET Workers
  BY DEF UsersOf
<1>5. Cardinality(UsersOf(found[w])) > 0
  BY <1>4, OneLess
<1> QED BY <1>1, <1>2, <1>3, <1>5 DEF Held

\* What a call on a proxy may do to the pool leaves the workers theirs.
LEMMA RegisteredKeeps ==
  ASSUME Inv, NEW s, Sound(s), Keeps(Pool, s), Registered(s),
         UNCHANGED <<tail, terminate, inuse, workerVars>>,
         pxstate' \in [Proxies -> {"NotConnected", "Connected", "Exception", "Disconnected", "disposed"}],
         off' \subseteq Proxies,
         \A p \in Proxies : pxstate'[p] = "disposed" => pxstate[p] = "disposed"
  PROVE  TypeOK' /\ Placed' /\ Counted' /\ Single' /\ Held' /\ Told'
<1>1. TypeOK /\ Held /\ Placed /\ Told
  BY DEF Inv
<1>2. /\ head' = s.head /\ users' = s.users /\ node' = s.node /\ at' = s.at /\ used' = s.used
      /\ deled' = s.deled /\ nproxies' = s.nproxies /\ ndeleted' = s.ndeleted
      /\ tail' = tail /\ terminate' = terminate /\ inuse' = inuse
      /\ pc' = pc /\ mine' = mine /\ found' = found /\ invalid' = invalid
      /\ calls < MaxCalls /\ calls' = calls + 1
      /\ last' = [n \in NodeIds |-> IF n \in Len(node) + 1 .. Len(s.node) THEN Changes ELSE last[n]]
  BY DEF Registered, SetPool, workerVars
<1>3. /\ users' = users /\ used' = used /\ Len(node) <= Len(node')
      /\ \A n \in Nodes : node'[n] = node[n]
      /\ deled \subseteq deled' /\ deled' \subseteq Nodes
      /\ \A n \in Nodes : n \in used \/ n \notin deled' => at'[n] = at[n]
      /\ \A n \in (Len(node) + 1)..Len(node') : at'[n] = tail
      /\ head <= head' /\ head' <= tail
      /\ \A k \in Entries : head <= k /\ k < tail /\ users[k] # 0 => head' <= k
  BY <1>2, PoolIs DEF Keeps, Nodes
<1>4. /\ node' \in Seq(Proxies) /\ Len(node') \in Nat /\ Len(node') <= MaxNodes
      /\ head' \in Entries /\ at' \in [NodeIds -> 0..(MaxChanges + 1)]
      /\ deled' \subseteq 1..Len(node') /\ used' \subseteq 1..Len(node')
  BY <1>2 DEF Sound, Pools
<1>5. 1..Len(node') \subseteq NodeIds /\ \A n \in Nodes : n \in NodeIds
  BY <1>1, <1>4, Numbers DEF NodeIds
<1>6. Placed' /\ Counted' /\ Single'
  BY <1>2 DEF Sound, Placed, Counted, Single, Nodes, NodeIds
<1>7. nproxies' \in 0..MaxNodes /\ ndeleted' \in 0..MaxNodes
  <2>1. 1..Len(node') \ deled' \in SUBSET NodeIds /\ {n \in deled' : at'[n] # 0} \in SUBSET NodeIds
    BY <1>4, <1>5
  <2>2. nproxies' = Cardinality(1..Len(node') \ deled') /\ ndeleted' = Cardinality({n \in deled' : at'[n] # 0})
    BY <1>6 DEF Counted, Nodes
  <2> QED BY <2>1, <2>2, SomeNodes
<1>8. last' \in [NodeIds -> 0..MaxChanges]
  <2>1. Changes \in 0..MaxChanges
    BY <1>1, Numbers DEF TypeOK, Entries, Changes
  <2>2. last \in [NodeIds -> 0..MaxChanges]
    BY <1>1 DEF TypeOK
  <2> QED BY <1>2, <2>1, <2>2
<1>9. TypeOK'
  <2>1. calls' \in 0..MaxCalls
    BY <1>1, <1>2, ChangePoolAssumption DEF TypeOK
  <2> QED BY <1>1, <1>2, <1>3, <1>4, <1>7, <1>8, <2>1 DEF TypeOK, Nodes
<1>10. \A w \in Workers : pc[w] \in Busy =>
         /\ node'[mine[w]] = node[mine[w]] /\ at'[mine[w]] = at[mine[w]]
         /\ last'[mine[w]] = last[mine[w]] /\ mine[w] \in used
  <2> SUFFICES ASSUME NEW w \in Workers, pc[w] \in Busy
               PROVE  /\ node'[mine[w]] = node[mine[w]] /\ at'[mine[w]] = at[mine[w]]
                      /\ last'[mine[w]] = last[mine[w]] /\ mine[w] \in used
    OBVIOUS
  <2>1. mine[w] \in Nodes /\ mine[w] \in used
    BY <1>1, BusyWorker DEF Held
  <2>2. mine[w] \notin Len(node) + 1 .. Len(s.node)
    BY <1>1, <2>1, Numbers DEF Nodes
  <2> QED BY <1>2, <1>3, <1>5, <2>1, <2>2
<1>11. Held'
  <2>1. \A w \in Workers : pc'[w] \in Busy =>
          mine'[w] \in used' /\ head' <= found'[w] /\ found'[w] < tail'
    <3> SUFFICES ASSUME NEW w \in Workers, pc[w] \in Busy
                 PROVE  mine[w] \in used /\ head' <= found[w] /\ found[w] < tail
      BY <1>2, <1>3
    <3>1. mine[w] \in used /\ head <= found[w] /\ found[w] < tail
      BY <1>1 DEF Held
    <3>2. found[w] \in Entries /\ users[found[w]] # 0
      BY <1>1, BusyWorker DEF TypeOK
    <3> QED BY <1>3, <3>1, <3>2
  <2>2. \A v, w \in Workers : pc'[v] \in Busy /\ pc'[w] \in Busy /\ mine'[v] = mine'[w] => v = w
    BY <1>1, <1>2 DEF Held
  <2>3. \A n \in used' : \E w \in Workers : pc'[w] \in Busy /\ mine'[w] = n
    BY <1>1, <1>2, <1>3 DEF Held
  <2>4. \A k \in Entries : users'[k] = Cardinality(UsersOf(k)')
    <3>1. \A k \in Entries : UsersOf(k)' = UsersOf(k)
      BY <1>2 DEF UsersOf
    <3> QED BY <1>1, <1>3, <3>1 DEF Held
  <2>5. \A p \in Proxies : inuse'[p] = Cardinality(Senders(p)')
    <3>1. \A p \in Proxies : Senders(p)' = Senders(p)
      BY <1>2, <1>10 DEF Senders, Busy
    <3> QED BY <1>1, <1>2, <3>1 DEF Held
  <2>6. \A w \in Workers : pc'[w] = "sending" => pxstate'[node'[mine'[w]]] # "disposed"
    <3> SUFFICES ASSUME NEW w \in Workers, pc[w] = "sending"
                 PROVE  pxstate'[node[mine[w]]] # "disposed"
      BY <1>2, <1>10 DEF Busy
    <3>1. pc[w] \in Busy
      BY DEF Busy
    <3>2. node[mine[w]] \in Proxies /\ pxstate[node[mine[w]]] # "disposed"
      BY <1>1, <3>1, BusyWorker DEF Held
    <3> QED BY <3>2
  <2> QED BY <2>1, <2>2, <2>3, <2>4, <2>5, <2>6 DEF Held
<1>12. Told'
  <2>1. \A n \in (1..Len(node')) \ (deled' \cup used') : last'[n] = at'[n] - 1
    <3> SUFFICES ASSUME NEW n \in (1..Len(node')) \ (deled' \cup used')
                 PROVE  last'[n] = at'[n] - 1
      OBVIOUS
    <3>1. n \in NodeIds
      BY <1>5
    <3>2. CASE n \in Nodes
      <4>1. n \notin Len(node) + 1 .. Len(s.node)
        BY <1>1, <3>2, Numbers DEF Nodes
      <4>2. last[n] = at[n] - 1
        BY <1>1, <1>3, <3>2 DEF Told
      <4> QED BY <1>2, <1>3, <3>1, <3>2, <4>1, <4>2
    <3>3. CASE n \notin Nodes
      <4>1. n \in Len(node) + 1 .. Len(node')
        BY <1>1, <1>4, <3>3, Numbers DEF Nodes
      <4> QED BY <1>2, <1>3, <3>1, <4>1 DEF Changes
    <3> QED BY <3>2, <3>3
  <2>2. \A w \in Workers : pc'[w] \in Busy =>
          /\ at'[mine'[w]] = found'[w] + 1
          /\ pc'[w] # "done" => last'[mine'[w]] = found'[w] - 1
          /\ pc'[w] = "done" /\ w \notin invalid' /\ mine'[w] \notin deled' => last'[mine'[w]] = found'[w]
    BY <1>1, <1>2, <1>3, <1>10 DEF Told
  <2> QED BY <2>1, <2>2 DEF Told, Nodes
<1> QED BY <1>6, <1>9, <1>11, <1>12

\* Calls on proxies.
LEMMA ConnectKeeps ==
  ASSUME Inv, NEW p \in Proxies, Connect(p)
  PROVE  Inv'
<1> DEFINE s == IF p \in off THEN Pool ELSE InsertProxy(Pool, p)
<1>1. TypeOK /\ Wanted /\ Sound(Pool)
  BY PoolSound DEF Inv
<1>2. /\ pxstate[p] = "NotConnected" /\ pxstate' = [pxstate EXCEPT ![p] = "Connected"]
      /\ Registered(s) /\ UNCHANGED <<tail, terminate, inuse, workerVars>> /\ off' = off
  BY DEF Connect
<1>3. terminate \/ LiveNodes(Pool, p) = {}
  <2> SUFFICES ASSUME ~terminate, NEW n \in LiveNodes(Pool, p)
               PROVE  FALSE
    OBVIOUS
  <2>1. node \in Seq(Proxies)
    BY <1>1 DEF TypeOK
  <2>2. n \in Nodes \ deled /\ node[n] = p
    BY <2>1, PoolIs, LenProperties DEF LiveNodes, Nodes
  <2> QED BY <1>1, <1>2, <2>2 DEF Wanted
<1>4. /\ Sound(s) /\ Keeps(Pool, s) /\ s.deled = deled
      /\ \A n \in 1..Len(s.node) : terminate \/ n \in 1..Len(node) \/ (s.node[n] = p /\ p \notin off)
  <2>1. CASE p \in off
    BY <1>1, <2>1, NothingKeeps, PoolIs
  <2>2. CASE p \notin off
    <3>1. s = InsertProxy(Pool, p) /\ Len(s.node) <= MaxNodes
      BY <1>2, <2>2 DEF Registered
    <3> HIDE DEF s
    <3> QED BY <1>1, <1>3, <2>2, <3>1, InsertProxyKeeps, PoolIs
  <2> QED BY <2>1, <2>2
<1>5. /\ pxstate' \in [Proxies -> {"NotConnected", "Connected", "Exception", "Disconnected", "disposed"}]
      /\ off' \subseteq Proxies
      /\ \A q \in Proxies : pxstate'[q] = "disposed" => pxstate[q] = "disposed"
  BY <1>1, <1>2 DEF TypeOK
<1>6. TypeOK' /\ Placed' /\ Counted' /\ Single' /\ Held' /\ Told'
  <2> HIDE DEF s
  <2> QED BY <1>2, <1>4, <1>5, RegisteredKeeps
<1>7. Wanted'
  <2> SUFFICES ASSUME ~terminate, NEW n \in Nodes' \ deled'
               PROVE  pxstate'[node'[n]] = "Connected" /\ node'[n] \notin off
    BY <1>2 DEF Wanted
  <2>1. node' = s.node /\ deled' = s.deled
    BY <1>2 DEF Registered, SetPool
  <2>2. n \in 1..Len(s.node) /\ n \notin deled
    BY <1>4, <2>1 DEF Nodes
  <2> HIDE DEF s
  <2>3. CASE n \in Nodes
    <3>1. s.node[n] = node[n] /\ node[n] \in Proxies
      BY <1>1, <1>4, <2>3, PoolIs DEF Keeps, Nodes, TypeOK
    <3> QED BY <1>1, <1>2, <2>1, <2>2, <2>3, <3>1 DEF Wanted, TypeOK
  <2>4. CASE n \notin Nodes
    BY <1>1, <1>2, <1>4, <2>1, <2>2, <2>4 DEF Nodes, TypeOK
  <2> QED BY <2>3, <2>4
<1> QED BY <1>6, <1>7 DEF Inv

LEMMA EnableUpdatesKeeps ==
  ASSUME Inv, NEW p \in Proxies, EnableUpdates(p)
  PROVE  Inv'
<1> DEFINE r == IF p \in off THEN Pool ELSE RemoveProxy(Pool, p)
           s == IF pxstate[p] = "Connected" THEN InsertProxy(r, p) ELSE Pool
<1>1. TypeOK /\ Wanted /\ Sound(Pool)
  BY PoolSound DEF Inv
<1>2. /\ Registered(s) /\ off' = off \ {p} /\ pxstate' = pxstate
      /\ UNCHANGED <<tail, terminate, inuse, workerVars>>
  BY DEF EnableUpdates, Reenabled
<1>3. terminate \/ (pxstate[p] = "Connected" /\ p \notin off) \/ LiveNodes(Pool, p) = {}
  BY <1>1, PoolIs DEF Wanted, LiveNodes, Nodes, TypeOK
<1>4. Sound(r) /\ Keeps(Pool, r) /\ r.node = node
  <2>1. CASE p \in off
    BY <1>1, <2>1, NothingKeeps, PoolIs
  <2>2. CASE p \notin off
    BY <1>1, <2>2, RemoveProxyKeeps, PoolIs
  <2> QED BY <2>1, <2>2
<1>5. terminate \/ pxstate[p] # "Connected" \/ LiveNodes(r, p) = {}
  BY <1>1, <1>3, RemoveProxyKeeps
<1>6. /\ Sound(s) /\ Keeps(Pool, s) /\ deled \subseteq s.deled
      /\ \A n \in 1..Len(s.node) :
           terminate \/ n \in 1..Len(node) \/ (s.node[n] = p /\ pxstate[p] = "Connected")
  <2>1. CASE pxstate[p] # "Connected"
    BY <1>1, <2>1, NothingKeeps, PoolIs
  <2>2. CASE pxstate[p] = "Connected"
    <3>1. s = InsertProxy(r, p) /\ Len(s.node) <= MaxNodes
      BY <1>2, <2>2 DEF Registered
    <3> HIDE DEF s, r
    <3>2. /\ Sound(s) /\ Keeps(r, s) /\ s.deled = r.deled
          /\ \A n \in 1..Len(s.node) : terminate \/ n \in 1..Len(r.node) \/ s.node[n] = p
      BY <1>1, <1>4, <1>5, <2>2, <3>1, InsertProxyKeeps
    <3>3. Keeps(Pool, s)
      BY <1>1, <1>4, <3>2, KeepsBoth, PoolIs
    <3> QED BY <1>4, <2>2, <3>2, <3>3, PoolIs DEF Keeps
  <2> QED BY <2>1, <2>2
<1>7. /\ pxstate' \in [Proxies -> {"NotConnected", "Connected", "Exception", "Disconnected", "disposed"}]
      /\ off' \subseteq Proxies
      /\ \A q \in Proxies : pxstate'[q] = "disposed" => pxstate[q] = "disposed"
  BY <1>1, <1>2 DEF TypeOK
<1>8. TypeOK' /\ Placed' /\ Counted' /\ Single' /\ Held' /\ Told'
  <2> HIDE DEF s
  <2> QED BY <1>2, <1>6, <1>7, RegisteredKeeps
<1>9. Wanted'
  <2> SUFFICES ASSUME ~terminate, NEW n \in Nodes' \ deled'
               PROVE  pxstate[node'[n]] = "Connected" /\ node'[n] \notin off \ {p}
    BY <1>2 DEF Wanted
  <2>1. node' = s.node /\ deled' = s.deled
    BY <1>2 DEF Registered, SetPool
  <2> HIDE DEF s
  <2>2. n \in 1..Len(s.node) /\ n \notin deled
    BY <1>6, <2>1 DEF Nodes
  <2>3. CASE n \in Nodes
    <3>1. s.node[n] = node[n]
      BY <1>6, <2>3, PoolIs DEF Keeps, Nodes
    <3> QED BY <1>1, <2>1, <2>2, <2>3, <3>1 DEF Wanted
  <2>4. CASE n \notin Nodes
    BY <1>6, <2>1, <2>2, <2>4 DEF Nodes
  <2> QED BY <2>3, <2>4
<1> QED BY <1>8, <1>9 DEF Inv

\* A proxy that leaves the pool, because it asks to, fails or is disconnected.
LEMMA LeavingKeeps ==
  ASSUME Inv, NEW p \in Proxies, NEW s, Registered(s),
         s = Pool \/ s = RemoveProxy(Pool, p), terminate \/ LiveNodes(s, p) = {},
         UNCHANGED <<tail, terminate, inuse, workerVars>>,
         pxstate' \in [Proxies -> {"NotConnected", "Connected", "Exception", "Disconnected", "disposed"}],
         off' \subseteq Proxies,
         \A q \in Proxies : pxstate'[q] = "disposed" => pxstate[q] = "disposed",
         \A q \in Proxies \ {p} : pxstate'[q] = pxstate[q] /\ (q \in off' <=> q \in off)
  PROVE  Inv'
<1>1. TypeOK /\ Wanted /\ Sound(Pool)
  BY PoolSound DEF Inv
<1>2. Sound(s) /\ Keeps(Pool, s) /\ s.node = node
  BY <1>1, NothingKeeps, RemoveProxyKeeps, PoolIs
<1>3. TypeOK' /\ Placed' /\ Counted' /\ Single' /\ Held' /\ Told'
  BY <1>2, RegisteredKeeps
<1>4. Wanted'
  <2> SUFFICES ASSUME ~terminate, NEW n \in Nodes' \ deled'
               PROVE  pxstate'[node'[n]] = "Connected" /\ node'[n] \notin off'
    BY DEF Wanted
  <2>1. node' = node /\ deled' = s.deled
    BY <1>2 DEF Registered, SetPool
  <2>2. n \in Nodes /\ n \notin deled /\ n \notin s.deled /\ node[n] \in Proxies
    BY <1>1, <1>2, <2>1, PoolIs DEF Nodes, Keeps, TypeOK
  <2>3. node[n] # p
    BY <1>1, <1>2, <2>2 DEF LiveNodes, Nodes, TypeOK
  <2> QED BY <1>1, <2>1, <2>2, <2>3 DEF Wanted
<1> QED BY <1>3, <1>4 DEF Inv

LEMMA LeaversKeep ==
  ASSUME Inv, NEW p \in Proxies, DisableUpdates(p) \/ Fail(p) \/ Disconnect(p)
  PROVE  Inv'
<1>1. TypeOK /\ Wanted /\ Sound(Pool)
  BY PoolSound DEF Inv
<1>2. terminate \/ (pxstate[p] = "Connected" /\ p \notin off) \/ LiveNodes(Pool, p) = {}
  BY <1>1, PoolIs DEF Wanted, LiveNodes, Nodes, TypeOK
<1>3. terminate \/ LiveNodes(RemoveProxy(Pool, p), p) = {}
  BY <1>1, RemoveProxyKeeps
<1>4. CASE DisableUpdates(p)
  <2> DEFINE s == IF pxstate[p] = "Connected" THEN RemoveProxy(Pool, p) ELSE Pool
  <2>1. /\ Registered(s) /\ off' = off \cup {p} /\ pxstate' = pxstate
        /\ UNCHANGED <<tail, terminate, inuse, workerVars>>
    BY <1>4 DEF DisableUpdates
  <2>2. (s = Pool \/ s = RemoveProxy(Pool, p)) /\ (terminate \/ LiveNodes(s, p) = {})
    BY <1>2, <1>3
  <2>3. /\ pxstate' \in [Proxies -> {"NotConnected", "Connected", "Exception", "Disconnected", "disposed"}]
        /\ off' \subseteq Proxies
        /\ \A q \in Proxies : pxstate'[q] = "disposed" => pxstate[q] = "disposed"
        /\ \A q \in Proxies \ {p} : pxstate'[q] = pxstate[q] /\ (q \in off' <=> q \in off)
    BY <1>1, <2>1 DEF TypeOK
  <2> HIDE DEF s
  <2> QED BY <2>1, <2>2, <2>3, LeavingKeeps
<1>5. CASE Fail(p) \/ Disconnect(p)
  <2> DEFINE s == IF pxstate[p] = "Connected" /\ p \notin off THEN RemoveProxy(Pool, p) ELSE Pool
  <2>1. /\ Registered(s) /\ off' = off
        /\ pxstate' = [pxstate EXCEPT ![p] = "Exception"] \/ pxstate' = [pxstate EXCEPT ![p] = "Disconnected"]
        /\ UNCHANGED <<tail, terminate, inuse, workerVars>>
    BY <1>5 DEF Fail, Disconnect, Unregister
  <2>2. (s = Pool \/ s = RemoveProxy(Pool, p)) /\ (terminate \/ LiveNodes(s, p) = {})
    BY <1>2, <1>3
  <2>3. /\ pxstate' \in [Proxies -> {"NotConnected", "Connected", "Exception", "Disconnected", "disposed"}]
        /\ off' \subseteq Proxies
        /\ \A q \in Proxies : pxstate'[q] = "disposed" => pxstate[q] = "disposed"
        /\ \A q \in Proxies \ {p} : pxstate'[q] = pxstate[q] /\ (q \in off' <=> q \in off)
    BY <1>1, <2>1 DEF TypeOK
  <2> HIDE DEF s
  <2> QED BY <2>1, <2>2, <2>3, LeavingKeeps
<1> QED BY <1>4, <1>5

\* Steps that leave the pool and its nodes alone, and the workers what they have.
LEMMA OthersKeep ==
  ASSUME Inv, UNCHANGED <<head, users, nodeVars, inuse, mine, found, invalid, last, calls>>,
         tail' \in Entries, tail <= tail', terminate' \in BOOLEAN, terminate => terminate',
         pc' \in [Workers -> {"idle", "wait", "exit"} \cup Busy],
         \A w \in Workers : (pc'[w] \in Busy \/ pc[w] \in Busy) => pc'[w] = pc[w],
         pxstate' \in [Proxies -> {"NotConnected", "Connected", "Exception", "Disconnected", "disposed"}],
         off' = off,
         \A p \in Proxies : pxstate[p] = "Connected" => pxstate'[p] = "Connected",
         \A p \in Proxies : pxstate'[p] = "disposed" => pxstate[p] = "disposed" \/ inuse[p] = 0
  PROVE  Inv'
<1>1. TypeOK /\ Placed /\ Counted /\ Single /\ Wanted /\ Held /\ Told
  BY DEF Inv
<1>2. /\ head' = head /\ users' = users /\ node' = node /\ at' = at /\ used' = used
      /\ deled' = deled /\ nproxies' = nproxies /\ ndeleted' = ndeleted
      /\ inuse' = inuse /\ mine' = mine /\ found' = found /\ invalid' = invalid
      /\ last' = last /\ calls' = calls /\ Nodes' = Nodes
  BY DEF nodeVars, Nodes
<1>3. /\ tail \in Int /\ tail' \in Int /\ head \in Int /\ \A w \in Workers : found[w] \in Int
      /\ \A n \in NodeIds : at[n] \in Int
  BY <1>1, Numbers DEF TypeOK, Entries
<1>4. TypeOK'
  BY <1>1, <1>2 DEF TypeOK
<1>5. Placed'
  BY <1>1, <1>2, <1>3 DEF Placed
<1>6. Counted' /\ Single'
  BY <1>1, <1>2 DEF Counted, Single
<1>7. Wanted'
  BY <1>1, <1>2 DEF Wanted, TypeOK, Nodes
<1>8. Held'
  <2>1. \A w \in Workers : pc'[w] \in Busy =>
          pc[w] \in Busy /\ mine'[w] \in used' /\ head' <= found'[w] /\ found'[w] < tail'
    BY <1>1, <1>2, <1>3 DEF Held
  <2>2. \A v, w \in Workers : pc'[v] \in Busy /\ pc'[w] \in Busy /\ mine'[v] = mine'[w] => v = w
    BY <1>1, <1>2 DEF Held
  <2>3. \A n \in used' : \E w \in Workers : pc'[w] \in Busy /\ mine'[w] = n
    BY <1>1, <1>2 DEF Held
  <2>4. \A k : UsersOf(k)' = UsersOf(k)
    BY <1>2 DEF UsersOf
  <2>5. \A p : Senders(p)' = Senders(p)
    BY <1>2 DEF Senders, Busy
  <2>6. \A w \in Workers : pc'[w] = "sending" => pxstate'[node'[mine'[w]]] # "disposed"
    <3> SUFFICES ASSUME NEW w \in Workers, pc[w] = "sending"
                 PROVE  pxstate'[node[mine[w]]] # "disposed"
      BY <1>2 DEF Busy
    <3>1. pc[w] \in Busy
      BY DEF Busy
    <3>2. PICK p \in Proxies : p = node[mine[w]]
      BY <3>1, BusyWorker
    <3>3. w \in Senders(p) /\ Senders(p) \in SUBSET Workers /\ pxstate[p] # "disposed"
      BY <1>1, <3>2 DEF Senders, Held
    <3>4. Cardinality(Senders(p)) > 0
      BY <3>3, OneLess
    <3>5. inuse[p] = Cardinality(Senders(p))
      BY <1>1 DEF Held
    <3> QED BY <3>2, <3>3, <3>4, <3>5
  <2>7. \A k \in Entries : users'[k] = Cardinality(UsersOf(k)')
    BY <1>1, <1>2, <2>4 DEF Held
  <2>8. \A p \in Proxies : inuse'[p] = Cardinality(Senders(p)')
    BY <1>1, <1>2, <2>5 DEF Held
  <2> QED BY <2>1, <2>2, <2>3, <2>6, <2>7, <2>8 DEF Held
<1>9. Told'
  BY <1>1, <1>2 DEF Told
<1> QED BY <1>4, <1>5, <1>6, <1>7, <1>8, <1>9 DEF Inv

LEMMA SmallStepsKeep ==
  ASSUME Inv,
         \/ InsertChange \/ Destroy \/ UNCHANGED vars
         \/ \E w \in Workers : Quit(w) \/ Wait(w)
         \/ \E p \in Proxies : Dispose(p)
  PROVE  Inv'
<1>1. TypeOK
  BY DEF Inv
<1> DEFINE Pcs == {"idle", "wait", "exit"} \cup Busy
           Same == \A w \in Workers : (pc'[w] \in Busy \/ pc[w] \in Busy) => pc'[w] = pc[w]
<1>2. Broadcast => pc' \in [Workers -> Pcs] /\ Same
  BY <1>1 DEF Broadcast, TypeOK, Busy
<1>3. CASE InsertChange
  <2>1. tail' \in Entries /\ tail <= tail'
    <3>1. tail - 1 < MaxChanges /\ tail' = tail + 1
      BY <1>3 DEF InsertChange, Changes
    <3>2. tail \in 1..(MaxChanges + 1)
      BY <1>1 DEF TypeOK, Entries
    <3> QED BY <3>1, <3>2, ChangePoolAssumption DEF Entries
  <2>2. /\ UNCHANGED <<head, users, nodeVars, inuse, mine, found, invalid, last, calls>>
        /\ terminate' = terminate /\ pxstate' = pxstate /\ off' = off /\ Broadcast
    BY <1>3 DEF InsertChange, proxyVars
  <2>3. terminate' \in BOOLEAN /\ pxstate' \in [Proxies -> {"NotConnected", "Connected", "Exception",
                                                           "Disconnected", "disposed"}]
    BY <1>1, <2>2 DEF TypeOK
  <2>4. pc' \in [Workers -> Pcs] /\ Same
    BY <1>2, <2>2
  <2> QED BY <2>1, <2>2, <2>3, <2>4, OthersKeep
<1>4. CASE Destroy
  <2>1. tail' = tail /\ tail <= tail /\ terminate' = TRUE
    BY <1>1, <1>4, Numbers DEF Destroy
  <2> QED BY <1>1, <1>2, <1>4, <2>1, OthersKeep DEF Destroy, TypeOK, proxyVars
<1>5. CASE UNCHANGED vars
  <2>1. tail' = tail /\ tail <= tail
    BY <1>1, <1>5, Numbers DEF vars, poolVars
  <2> QED BY <1>1, <1>5, <2>1, OthersKeep DEF vars, poolVars, proxyVars, workerVars, TypeOK
<1>6. ASSUME NEW w \in Workers, Quit(w) \/ Wait(w)
      PROVE  Inv'
  <2>1. tail' = tail /\ tail <= tail /\ UNCHANGED <<head, users, nodeVars, terminate, proxyVars>>
    BY <1>1, <1>6, Numbers DEF Quit, Wait, poolVars
  <2>2. pc' \in [Workers -> Pcs] /\ Same
    BY <1>1, <1>6 DEF Quit, Wait, TypeOK, Busy
  <2> QED BY <1>1, <1>6, <2>1, <2>2, OthersKeep DEF Quit, Wait, TypeOK, proxyVars
<1>7. ASSUME NEW p \in Proxies, Dispose(p)
      PROVE  Inv'
  <2>1. /\ tail' = tail /\ tail <= tail /\ UNCHANGED <<head, users, nodeVars, terminate>>
        /\ pxstate[p] = "Disconnected" /\ inuse[p] = 0
        /\ pxstate' = [pxstate EXCEPT ![p] = "disposed"]
        /\ UNCHANGED <<off, inuse, pc, mine, found, invalid, last, calls>>
    BY <1>1, <1>7, Numbers DEF Dispose, poolVars, workerVars
  <2>2. /\ pxstate' \in [Proxies -> {"NotConnected", "Connected", "Exception", "Disconnected", "disposed"}]
        /\ \A q \in Proxies : pxstate[q] = "Connected" => pxstate'[q] = "Connected"
        /\ \A q \in Proxies : pxstate'[q] = "disposed" => pxstate[q] = "disposed" \/ inuse[q] = 0
    BY <1>1, <2>1 DEF TypeOK
  <2> QED BY <1>1, <2>1, <2>2, OthersKeep DEF TypeOK
<1> QED BY <1>3, <1>4, <1>5, <1>6, <1>7

\* The steps of a worker that has a node, before it gives it back.
LEMMA LookKeeps ==
  ASSUME Inv, NEW w \in Workers, Look(w)
  PROVE  Inv'
<1>1. TypeOK /\ Placed /\ Counted /\ Single /\ Wanted /\ Held /\ Told
  BY DEF Inv
<1>2. /\ pc[w] = "picked" /\ UNCHANGED <<poolVars, proxyVars, mine, found, invalid, last, calls>>
      /\ pc' = [pc EXCEPT ![w] = IF mine[w] \in deled THEN "done" ELSE "calling"]
  BY DEF Look
<1>3. /\ head' = head /\ tail' = tail /\ users' = users /\ node' = node /\ at' = at /\ used' = used
      /\ deled' = deled /\ nproxies' = nproxies /\ ndeleted' = ndeleted /\ terminate' = terminate
      /\ pxstate' = pxstate /\ off' = off /\ inuse' = inuse
      /\ mine' = mine /\ found' = found /\ invalid' = invalid /\ last' = last /\ calls' = calls
      /\ Nodes' = Nodes
  BY <1>2 DEF poolVars, nodeVars, proxyVars, Nodes
<1>4. /\ pc' \in [Workers -> {"idle", "wait", "exit"} \cup Busy]
      /\ \A v \in Workers : v # w => pc'[v] = pc[v]
      /\ pc'[w] = "calling" \/ (pc'[w] = "done" /\ mine[w] \in deled)
  BY <1>1, <1>2 DEF TypeOK, Busy
<1>5. \A v \in Workers : (pc'[v] \in Busy <=> pc[v] \in Busy) /\ (pc'[v] = "sending" <=> pc[v] = "sending")
  BY <1>2, <1>4 DEF Busy
<1>6. TypeOK'
  BY <1>1, <1>3, <1>4 DEF TypeOK
<1>7. Placed' /\ Counted' /\ Single' /\ Wanted'
  BY <1>1, <1>3 DEF Placed, Counted, Single, Wanted
<1>8. Held'
  <2>1. \A k : UsersOf(k)' = UsersOf(k)
    BY <1>3, <1>5 DEF UsersOf
  <2>2. \A p : Senders(p)' = Senders(p)
    BY <1>3, <1>5 DEF Senders
  <2> QED BY <1>1, <1>3, <1>5, <2>1, <2>2 DEF Held
<1>9. Told'
  <2>1. \A v \in Workers : pc'[v] \in Busy =>
          /\ at[mine[v]] = found[v] + 1
          /\ pc'[v] # "done" => last[mine[v]] = found[v] - 1
          /\ pc'[v] = "done" /\ v \notin invalid /\ mine[v] \notin deled => last[mine[v]] = found[v]
    <3> SUFFICES ASSUME NEW v \in Workers, pc'[v] \in Busy
                 PROVE  /\ at[mine[v]] = found[v] + 1
                        /\ pc'[v] # "done" => last[mine[v]] = found[v] - 1
                        /\ pc'[v] = "done" /\ v \notin invalid /\ mine[v] \notin deled =>
                             last[mine[v]] = found[v]
      OBVIOUS
    <3>1. CASE v = w
      BY <1>1, <1>2, <1>4, <1>5, <3>1 DEF Told
    <3>2. CASE v # w
      BY <1>1, <1>4, <3>2 DEF Told
    <3> QED BY <3>1, <3>2
  <2> QED BY <1>1, <1>3, <2>1 DEF Told
<1> QED BY <1>6, <1>7, <1>8, <1>9 DEF Inv

LEMMA SendOfferChangeKeeps ==
  ASSUME Inv, NEW w \in Workers, SendOfferChange(w)
  PROVE  Inv'
<1>1. TypeOK /\ Placed /\ Counted /\ Single /\ Wanted /\ Held /\ Told
  BY DEF Inv
<1>2. pc[w] = "calling" /\ pc[w] \in Busy
  BY DEF SendOfferChange, Busy
<1>3. PICK p \in Proxies : p = node[mine[w]]
  BY <1>2, BusyWorker
<1>4. PICK send \in BOOLEAN : send = (pxstate[p] = "Connected" /\ p \notin off)
  OBVIOUS
<1>5. /\ pc' = [pc EXCEPT ![w] = IF send THEN "sending" ELSE "done"]
      /\ inuse' = [inuse EXCEPT ![p] = IF send THEN @ + 1 ELSE @]
      /\ invalid' = IF send THEN invalid \ {w} ELSE invalid \cup {w}
      /\ UNCHANGED <<poolVars, pxstate, off, mine, found, last, calls>>
  BY <1>3, <1>4 DEF SendOfferChange
<1>6. /\ head' = head /\ tail' = tail /\ users' = users /\ node' = node /\ at' = at /\ used' = used
      /\ deled' = deled /\ nproxies' = nproxies /\ ndeleted' = ndeleted /\ terminate' = terminate
      /\ pxstate' = pxstate /\ off' = off
      /\ mine' = mine /\ found' = found /\ last' = last /\ calls' = calls
      /\ Nodes' = Nodes
  BY <1>5 DEF poolVars, nodeVars, Nodes
<1>7. /\ pc' \in [Workers -> {"idle", "wait", "exit"} \cup Busy]
      /\ \A v \in Workers : v # w => pc'[v] = pc[v]
      /\ pc'[w] = IF send THEN "sending" ELSE "done"
  BY <1>1, <1>5 DEF TypeOK, Busy
<1>8. \A v \in Workers : pc'[v] \in Busy <=> pc[v] \in Busy
  BY <1>2, <1>7 DEF Busy
<1>9. \A q \in Proxies : Senders(q)' = IF send /\ q = p THEN Senders(q) \cup {w} ELSE Senders(q)
  BY <1>2, <1>3, <1>6, <1>7 DEF Senders
<1>10. \A q \in Proxies : inuse'[q] = Cardinality(Senders(q)')
  <2> SUFFICES ASSUME NEW q \in Proxies
               PROVE  inuse'[q] = Cardinality(Senders(q)')
    OBVIOUS
  <2>1. inuse[q] = Cardinality(Senders(q)) /\ Senders(q) \in SUBSET Workers /\ w \notin Senders(q)
    BY <1>1, <1>2 DEF Held, Senders
  <2>2. Cardinality(Senders(q) \cup {w}) = Cardinality(Senders(q)) + 1
    BY <2>1, OneMore
  <2>3. inuse'[q] = IF send /\ q = p THEN inuse[q] + 1 ELSE inuse[q]
    BY <1>1, <1>5 DEF TypeOK
  <2> QED BY <1>9, <2>1, <2>2, <2>3
<1>11. inuse' \in [Proxies -> 0..Cardinality(Workers)]
  <2>1. \A q \in Proxies : inuse'[q] \in 0..Cardinality(Workers)
    <3> SUFFICES ASSUME NEW q \in Proxies PROVE inuse'[q] \in 0..Cardinality(Workers)
      OBVIOUS
    <3>1. Senders(q)' \in SUBSET Workers
      BY DEF Senders
    <3> QED BY <1>10, <3>1, SomeWorkers
  <2>2. inuse' = [q \in Proxies |-> inuse'[q]]
    BY <1>1, <1>5 DEF TypeOK
  <2> QED BY <2>1, <2>2
<1>12. TypeOK'
  <2>1. invalid' \subseteq Workers
    BY <1>1, <1>5 DEF TypeOK
  <2> QED BY <1>1, <1>6, <1>7, <1>11, <2>1 DEF TypeOK
<1>13. Placed' /\ Counted' /\ Single' /\ Wanted'
  BY <1>1, <1>6 DEF Placed, Counted, Single, Wanted
<1>14. Held'
  <2>1. \A k : UsersOf(k)' = UsersOf(k)
    BY <1>6, <1>8 DEF UsersOf
  <2>2. \A v \in Workers : pc'[v] = "sending" => pxstate[node[mine[v]]] # "disposed"
    BY <1>1, <1>3, <1>4, <1>7 DEF Held
  <2> QED BY <1>1, <1>6, <1>8, <1>10, <2>1, <2>2 DEF Held
<1>15. Told'
  <2>1. \A v \in Workers : pc'[v] \in Busy =>
          /\ at[mine[v]] = found[v] + 1
          /\ pc'[v] # "done" => last[mine[v]] = found[v] - 1
          /\ pc'[v] = "done" /\ v \notin invalid' /\ mine[v] \notin deled => last[mine[v]] = found[v]
    <3> SUFFICES ASSUME NEW v \in Workers, pc'[v] \in Busy
                 PROVE  /\ at[mine[v]] = found[v] + 1
                        /\ pc'[v] # "done" => last[mine[v]] = found[v] - 1
                        /\ pc'[v] = "done" /\ v \notin invalid' /\ mine[v] \notin deled =>
                             last[mine[v]] = found[v]
      OBVIOUS
    <3>1. CASE v = w
      <4>1. ~send => w \in invalid'
        BY <1>5
      <4> QED BY <1>1, <1>2, <1>7, <3>1, <4>1 DEF Told
    <3>2. CASE v # w
      <4>1. v \in invalid' <=> v \in invalid
        BY <1>5, <3>2
      <4> QED BY <1>1, <1>7, <1>8, <3>2, <4>1 DEF Told
    <3> QED BY <3>1, <3>2
  <2> QED BY <1>1, <1>6, <2>1 DEF Told
<1> QED BY <1>12, <1>13, <1>14, <1>15 DEF Inv

LEMMA DeliverKeeps ==
  ASSUME Inv, NEW w \in Workers, Deliver(w)
  PROVE  Inv' /\ \A n \in Nodes : last'[n] # last[n] => last'[n] = last[n] + 1
<1>1. TypeOK /\ Placed /\ Counted /\ Single /\ Wanted /\ Held /\ Told
  BY DEF Inv
<1>2. pc[w] = "sending" /\ pc[w] \in Busy
  BY DEF Deliver, Busy
<1>3. PICK n \in NodeIds : n = mine[w] /\ n \in used /\ node[n] \in Proxies
  BY <1>1, <1>2, BusyWorker DEF Held
<1>4. PICK p \in Proxies : p = node[n]
  BY <1>3
<1>5. /\ pc' = [pc EXCEPT ![w] = "done"]
      /\ last' = [last EXCEPT ![n] = found[w]]
      /\ inuse' = [inuse EXCEPT ![p] = @ - 1]
      /\ invalid' \in {invalid \ {w}, invalid \cup {w}}
      /\ UNCHANGED <<poolVars, pxstate, off, mine, found, calls>>
  BY <1>3, <1>4 DEF Deliver
<1>6. /\ head' = head /\ tail' = tail /\ users' = users /\ node' = node /\ at' = at /\ used' = used
      /\ deled' = deled /\ nproxies' = nproxies /\ ndeleted' = ndeleted /\ terminate' = terminate
      /\ pxstate' = pxstate /\ off' = off
      /\ mine' = mine /\ found' = found /\ calls' = calls
      /\ Nodes' = Nodes
  BY <1>5 DEF poolVars, nodeVars, Nodes
<1>7. /\ pc' \in [Workers -> {"idle", "wait", "exit"} \cup Busy]
      /\ \A v \in Workers : v # w => pc'[v] = pc[v]
      /\ pc'[w] = "done"
  BY <1>1, <1>5 DEF TypeOK, Busy
<1>8. \A v \in Workers : pc'[v] \in Busy <=> pc[v] \in Busy
  BY <1>2, <1>7 DEF Busy
<1>9. \A q \in Proxies : Senders(q)' = IF q = p THEN Senders(q) \ {w} ELSE Senders(q)
  BY <1>2, <1>3, <1>4, <1>6, <1>7 DEF Senders
<1>10. \A q \in Proxies : inuse'[q] = Cardinality(Senders(q)')
  <2> SUFFICES ASSUME NEW q \in Proxies
               PROVE  inuse'[q] = Cardinality(Senders(q)')
    OBVIOUS
  <2>1. inuse[q] = Cardinality(Senders(q)) /\ Senders(q) \in SUBSET Workers
    BY <1>1 DEF Held, Senders
  <2>2. q = p => Cardinality(Senders(q) \ {w}) = Cardinality(Senders(q)) - 1
    <3>1. w \in Senders(p)
      BY <1>2, <1>3, <1>4 DEF Senders
    <3> QED BY <2>1, <3>1, OneLess
  <2>3. inuse'[q] = IF q = p THEN inuse[q] - 1 ELSE inuse[q]
    BY <1>1, <1>5 DEF TypeOK
  <2> QED BY <1>9, <2>1, <2>2, <2>3
<1>11. inuse' \in [Proxies -> 0..Cardinality(Workers)]
  <2>1. \A q \in Proxies : inuse'[q] \in 0..Cardinality(Workers)
    <3> SUFFICES ASSUME NEW q \in Proxies PROVE inuse'[q] \in 0..Cardinality(Workers)
      OBVIOUS
    <3>1. Senders(q)' \in SUBSET Workers
      BY DEF Senders
    <3> QED BY <1>10, <3>1, SomeWorkers
  <2>2. inuse' = [q \in Proxies |-> inuse'[q]]
    BY <1>1, <1>5 DEF TypeOK
  <2> QED BY <2>1, <2>2
<1>12. TypeOK'
  <2>1. invalid' \subseteq Workers /\ last' \in [NodeIds -> 0..MaxChanges]
    BY <1>1, <1>5 DEF TypeOK
  <2> QED BY <1>1, <1>6, <1>7, <1>11, <2>1 DEF TypeOK
<1>13. Placed' /\ Counted' /\ Single' /\ Wanted'
  BY <1>1, <1>6 DEF Placed, Counted, Single, Wanted
<1>14. Held'
  <2>1. \A k : UsersOf(k)' = UsersOf(k)
    BY <1>6, <1>8 DEF UsersOf
  <2>2. \A v \in Workers : pc'[v] = "sending" => pxstate[node[mine[v]]] # "disposed"
    BY <1>1, <1>7 DEF Held
  <2> QED BY <1>1, <1>6, <1>8, <1>10, <2>1, <2>2 DEF Held
<1>15. last[n] = found[w] - 1 /\ last'[n] = found[w] /\ \A m \in NodeIds \ {n} : last'[m] = last[m]
  BY <1>1, <1>2, <1>3, <1>5 DEF Told, TypeOK
<1>16. Told'
  <2>1. \A v \in Workers : pc'[v] \in Busy =>
          /\ at[mine[v]] = found[v] + 1
          /\ pc'[v] # "done" => last'[mine[v]] = found[v] - 1
          /\ pc'[v] = "done" /\ v \notin invalid' /\ mine[v] \notin deled => last'[mine[v]] = found[v]
    <3> SUFFICES ASSUME NEW v \in Workers, pc'[v] \in Busy
                 PROVE  /\ at[mine[v]] = found[v] + 1
                        /\ pc'[v] # "done" => last'[mine[v]] = found[v] - 1
                        /\ pc'[v] = "done" /\ v \notin invalid' /\ mine[v] \notin deled =>
                             last'[mine[v]] = found[v]
      OBVIOUS
    <3>0. pc[v] \in Busy /\ mine[v] \in NodeIds
      BY <1>8, BusyWorker
    <3>1. CASE v = w
      BY <1>1, <1>2, <1>3, <1>7, <1>15, <3>1 DEF Told
    <3>2. CASE v # w
      <4>1. v \in invalid' <=> v \in invalid
        BY <1>5, <3>2
      <4>2. mine[v] # n
        BY <1>1, <1>2, <1>3, <3>0, <3>2 DEF Held
      <4>3. last'[mine[v]] = last[mine[v]] /\ pc'[v] = pc[v]
        BY <1>7, <1>15, <3>0, <3>2, <4>2
      <4> QED BY <1>1, <3>0, <4>1, <4>3 DEF Told
    <3> QED BY <3>1, <3>2
  <2>2. \A m \in Nodes \ (deled \cup used) : last'[m] = at[m] - 1
    <3>1. \A m \in Nodes \ (deled \cup used) : m # n /\ m \in NodeIds
      BY <1>1, <1>3, Numbers
    <3> QED BY <1>1, <1>15, <3>1 DEF Told
  <2> QED BY <1>6, <2>1, <2>2 DEF Told
<1>17. found[w] \in Int /\ Nodes \subseteq NodeIds
  BY <1>1, Numbers
<1> QED BY <1>12, <1>13, <1>14, <1>15, <1>16, <1>17 DEF Inv

LEMMA PickKeeps ==
  ASSUME Inv, NEW w \in Workers, Pick(w)
  PROVE  Inv'
<1>1. TypeOK /\ Placed /\ Counted /\ Single /\ Wanted /\ Held /\ Told
  BY DEF Inv
<1>2. PICK n \in Pending :
        /\ at' = [at EXCEPT ![n] = at[n] + 1] /\ users' = [users EXCEPT ![at[n]] = @ + 1]
        /\ used' = used \cup {n} /\ mine' = [mine EXCEPT ![w] = n]
        /\ found' = [found EXCEPT ![w] = at[n]]
  BY DEF Pick
<1>3. /\ pc[w] = "idle" /\ pc' = [pc EXCEPT ![w] = "picked"] /\ invalid' = invalid \ {w}
      /\ UNCHANGED <<head, tail, node, deled, nproxies, ndeleted, terminate, proxyVars, last, calls>>
  BY DEF Pick
<1>4. /\ n \in Nodes /\ n \in NodeIds /\ n \notin deled /\ n \notin used /\ at[n] < tail
  BY <1>1, <1>2, Numbers DEF Pending, Available
<1>5. PICK k \in Entries : k = at[n]
  BY <1>1, <1>4, Numbers DEF Placed, TypeOK, Entries
<1>6. /\ head <= k /\ k < tail /\ k > 0 /\ last[n] = k - 1 /\ k <= MaxChanges /\ k \in Int /\ tail \in Int
  <2>1. head <= k /\ last[n] = k - 1
    BY <1>1, <1>4, <1>5 DEF Placed, Told
  <2>2. tail \in Int /\ tail <= MaxChanges + 1 /\ MaxChanges \in Nat
    BY <1>1, Numbers DEF TypeOK, Entries
  <2> QED BY <1>4, <1>5, <2>1, <2>2 DEF Entries
<1>7. /\ head' = head /\ tail' = tail /\ node' = node /\ deled' = deled
      /\ nproxies' = nproxies /\ ndeleted' = ndeleted /\ terminate' = terminate
      /\ pxstate' = pxstate /\ off' = off /\ inuse' = inuse /\ last' = last /\ calls' = calls
      /\ Nodes' = Nodes
  BY <1>3 DEF proxyVars, Nodes
<1>8. /\ at' \in [NodeIds -> 0..(MaxChanges + 1)] /\ at'[n] = k + 1
      /\ \A m \in NodeIds \ {n} : at'[m] = at[m]
  <2>1. k + 1 \in 0..(MaxChanges + 1)
    BY <1>6, Numbers, <1>1 DEF Entries
  <2>2. at \in [NodeIds -> 0..(MaxChanges + 1)] /\ at' = [at EXCEPT ![n] = k + 1]
    BY <1>1, <1>2, <1>5 DEF TypeOK
  <2> QED BY <1>4, <2>1, <2>2
<1>9. /\ mine' \in [Workers -> 0..MaxNodes] /\ mine'[w] = n
      /\ found' \in [Workers -> 0..MaxChanges] /\ found'[w] = k
      /\ \A v \in Workers \ {w} : mine'[v] = mine[v] /\ found'[v] = found[v]
  <2>1. n \in 0..MaxNodes /\ k \in 0..MaxChanges
    BY <1>1, <1>4, <1>6, Numbers DEF NodeIds, Entries
  <2> QED BY <1>1, <1>2, <1>5, <2>1 DEF TypeOK
<1>10. /\ pc' \in [Workers -> {"idle", "wait", "exit"} \cup Busy] /\ pc'[w] = "picked"
       /\ \A v \in Workers \ {w} : pc'[v] = pc[v]
  BY <1>1, <1>3 DEF TypeOK, Busy
<1>11. \A v \in Workers : pc'[v] \in Busy <=> pc[v] \in Busy \/ v = w
  BY <1>10 DEF Busy
<1>12. pc[w] \notin Busy
  BY <1>3 DEF Busy
<1>13. \A j \in Entries : UsersOf(j)' = IF j = k THEN UsersOf(j) \cup {w} ELSE UsersOf(j)
  BY <1>9, <1>11, <1>12 DEF UsersOf
<1>14. \A j \in Entries : users'[j] = Cardinality(UsersOf(j)')
  <2> SUFFICES ASSUME NEW j \in Entries
               PROVE  users'[j] = Cardinality(UsersOf(j)')
    OBVIOUS
  <2>1. users[j] = Cardinality(UsersOf(j)) /\ UsersOf(j) \in SUBSET Workers /\ w \notin UsersOf(j)
    BY <1>1, <1>12 DEF Held, UsersOf
  <2>2. Cardinality(UsersOf(j) \cup {w}) = Cardinality(UsersOf(j)) + 1
    BY <2>1, OneMore
  <2>3. users'[j] = IF j = k THEN users[j] + 1 ELSE users[j]
    BY <1>1, <1>2, <1>5 DEF TypeOK
  <2> QED BY <1>13, <2>1, <2>2, <2>3
<1>15. users' \in [Entries -> 0..Cardinality(Workers)]
  <2>1. \A j \in Entries : users'[j] \in 0..Cardinality(Workers)
    <3> SUFFICES ASSUME NEW j \in Entries PROVE users'[j] \in 0..Cardinality(Workers)
      OBVIOUS
    <3>1. UsersOf(j)' \in SUBSET Workers
      BY DEF UsersOf
    <3> QED BY <1>14, <3>1, SomeWorkers
  <2>2. users' = [j \in Entries |-> users'[j]]
    BY <1>1, <1>2 DEF TypeOK
  <2> QED BY <2>1, <2>2
<1>16. TypeOK'
  <2>1. used' \subseteq Nodes /\ invalid' \subseteq Workers
    BY <1>1, <1>2, <1>3, <1>4 DEF TypeOK
  <2> QED BY <1>1, <1>7, <1>8, <1>9, <1>10, <1>15, <2>1 DEF TypeOK
<1>17. Placed'
  <2>1. \A m \in NodeIds : at'[m] # 0 => m \in Nodes /\ head <= at'[m] /\ at'[m] <= tail
    <3> SUFFICES ASSUME NEW m \in NodeIds, at'[m] # 0
                 PROVE  m \in Nodes /\ head <= at'[m] /\ at'[m] <= tail
      OBVIOUS
    <3>1. CASE m = n
      BY <1>1, <1>4, <1>6, <1>8, <3>1, Numbers
    <3>2. CASE m # n
      BY <1>1, <1>8, <3>2 DEF Placed
    <3> QED BY <3>1, <3>2
  <2>2. \A m \in Nodes : m \notin deled \/ m \in used' => at'[m] # 0
    <3> SUFFICES ASSUME NEW m \in Nodes, m \notin deled \/ m \in used'
                 PROVE  at'[m] # 0
      OBVIOUS
    <3>1. CASE m = n
      BY <1>6, <1>8, <3>1
    <3>2. CASE m # n
      <4>1. m \in NodeIds /\ (m \notin deled \/ m \in used)
        BY <1>1, <1>2, <3>2, Numbers
      <4> QED BY <1>1, <1>8, <3>2, <4>1 DEF Placed
    <3> QED BY <3>1, <3>2
  <2> QED BY <1>1, <1>7, <2>1, <2>2 DEF Placed
<1>18. Counted' /\ Single' /\ Wanted'
  <2>1. \A m \in deled : m \in NodeIds /\ m # n
    BY <1>1, <1>4, Numbers DEF TypeOK
  <2>2. {m \in deled : at'[m] # 0} = {m \in deled : at[m] # 0}
    BY <1>8, <2>1
  <2> QED BY <1>1, <1>7, <2>2 DEF Counted, Single, Wanted
<1>19. Held'
  <2>1. \A v \in Workers : pc'[v] \in Busy => mine'[v] \in used' /\ head <= found'[v] /\ found'[v] < tail
    BY <1>1, <1>2, <1>6, <1>9, <1>11 DEF Held
  <2>2. \A u, v \in Workers : pc'[u] \in Busy /\ pc'[v] \in Busy /\ mine'[u] = mine'[v] => u = v
    BY <1>1, <1>4, <1>9, <1>11 DEF Held
  <2>3. \A m \in used' : \E v \in Workers : pc'[v] \in Busy /\ mine'[v] = m
    <3> SUFFICES ASSUME NEW m \in used' PROVE \E v \in Workers : pc'[v] \in Busy /\ mine'[v] = m
      OBVIOUS
    <3>1. CASE m = n
      BY <1>9, <1>11, <3>1
    <3>2. CASE m # n
      <4>1. PICK v \in Workers : pc[v] \in Busy /\ mine[v] = m
        BY <1>1, <1>2, <3>2 DEF Held
      <4> QED BY <1>9, <1>11, <1>12, <4>1
    <3> QED BY <3>1, <3>2
  <2>4. \A p \in Proxies : Senders(p)' = Senders(p)
    BY <1>3, <1>7, <1>9, <1>10 DEF Senders
  <2>5. \A v \in Workers : pc'[v] = "sending" => pxstate[node[mine'[v]]] # "disposed"
    BY <1>1, <1>9, <1>10 DEF Held
  <2>6. \A p \in Proxies : inuse[p] = Cardinality(Senders(p)')
    BY <1>1, <2>4 DEF Held
  <2> QED BY <1>7, <1>14, <2>1, <2>2, <2>3, <2>5, <2>6 DEF Held
<1>20. Told'
  <2>1. \A m \in Nodes \ (deled \cup used') : last[m] = at'[m] - 1
    <3>1. \A m \in Nodes \ (deled \cup used') : m \in NodeIds /\ m # n /\ m \notin used
      BY <1>1, <1>2, Numbers
    <3> QED BY <1>1, <1>8, <3>1 DEF Told
  <2>2. \A v \in Workers : pc'[v] \in Busy =>
          /\ at'[mine'[v]] = found'[v] + 1
          /\ pc'[v] # "done" => last[mine'[v]] = found'[v] - 1
          /\ pc'[v] = "done" /\ v \notin invalid' /\ mine'[v] \notin deled => last[mine'[v]] = found'[v]
    <3> SUFFICES ASSUME NEW v \in Workers, pc'[v] \in Busy
                 PROVE  /\ at'[mine'[v]] = found'[v] + 1
                        /\ pc'[v] # "done" => last[mine'[v]] = found'[v] - 1
                        /\ pc'[v] = "done" /\ v \notin invalid' /\ mine'[v] \notin deled =>
                             last[mine'[v]] = found'[v]
      OBVIOUS
    <3>1. CASE v = w
      BY <1>6, <1>8, <1>9, <1>10, <3>1
    <3>2. CASE v # w
      <4>1. pc[v] \in Busy /\ pc'[v] = pc[v] /\ mine'[v] = mine[v] /\ found'[v] = found[v]
        BY <1>9, <1>10, <1>11, <3>2
      <4>2. mine[v] \in NodeIds \ {n} /\ (v \in invalid' <=> v \in invalid)
        BY <1>1, <1>3, <1>4, <3>2, <4>1, BusyWorker DEF Held
      <4> QED BY <1>1, <1>8, <4>1, <4>2 DEF Told
    <3> QED BY <3>1, <3>2
  <2> QED BY <1>7, <2>1, <2>2 DEF Told
<1> QED BY <1>16, <1>17, <1>18, <1>19, <1>20 DEF Inv

\* A worker gives its node and its entry back.
Returned(s, u, d) == [s EXCEPT !.users = u, !.used = d]
LEMMA ReturnedIs ==
  ASSUME NEW s \in Pools, NEW u \in [Entries -> Int], NEW d \in SUBSET NodeIds,
         NEW r, r = Returned(s, u, d)
  PROVE  /\ r \in Pools /\ r.head = s.head /\ r.users = u /\ r.node = s.node /\ r.at = s.at
         /\ r.used = d /\ r.deled = s.deled /\ r.nproxies = s.nproxies /\ r.ndeleted = s.ndeleted
BY DEF Pools, Returned

LEMMA ReleasedIs ==
  ASSUME Inv, NEW w \in Workers, pc[w] = "done"
  PROVE  /\ Sound(Released(w))
         /\ Released(w).head = head /\ Released(w).users = [users EXCEPT ![found[w]] = @ - 1]
         /\ Released(w).node = node /\ Released(w).at = at /\ Released(w).used = used \ {mine[w]}
         /\ Released(w).deled = deled
<1>1. TypeOK /\ Sound(Pool) /\ pc[w] \in Busy
  BY PoolSound DEF Inv, Busy
<1> DEFINE u == [users EXCEPT ![found[w]] = @ - 1]
           d == Pool.used \ {mine[w]}
<1>2. Released(w) = Returned(Pool, u, d)
  BY DEF Released, Returned
<1>3. users \in [Entries -> Int] /\ found[w] \in Entries /\ Pool.used \in SUBSET NodeIds
  <2>1. found[w] \in Entries
    BY <1>1, BusyWorker
  <2> QED BY <1>1, <2>1, PoolIs DEF Sound, Pools
<1>4. u \in [Entries -> Int] /\ d \in SUBSET NodeIds
  BY <1>3
<1>5. /\ Released(w) \in Pools /\ Released(w).head = head /\ Released(w).users = u
      /\ Released(w).node = node /\ Released(w).at = at /\ Released(w).used = d
      /\ Released(w).deled = deled /\ Released(w).nproxies = nproxies
      /\ Released(w).ndeleted = ndeleted
  <2> HIDE DEF u, d
  <2>1. Pool \in Pools
    BY <1>1 DEF Sound
  <2> QED BY <1>2, <1>4, <2>1, PoolIs, ReturnedIs
<1>6. Sound(Released(w))
  <2>1. d \subseteq used
    BY PoolIs
  <2> HIDE DEF u, d
  <2> QED BY <1>1, <1>5, <2>1, PoolIs DEF Sound
<1>7. u = [users EXCEPT ![found[w]] = @ - 1] /\ d = used \ {mine[w]}
  BY PoolIs
<1> QED BY <1>5, <1>6, <1>7

LEMMA FinishKeeps ==
  ASSUME Inv, NEW w \in Workers, Finish(w)
  PROVE  Inv'
<1> DEFINE r == Released(w)
           s == IF w \in invalid /\ mine[w] \notin deled THEN Delete(r, mine[w]) ELSE r
<1>1. TypeOK /\ Placed /\ Counted /\ Single /\ Wanted /\ Held /\ Told
  BY DEF Inv
<1>2. /\ pc[w] = "done" /\ pc[w] \in Busy /\ SetPool(s)
      /\ mine' = [mine EXCEPT ![w] = 0] /\ found' = [found EXCEPT ![w] = 0]
      /\ invalid' = invalid \ {w} /\ UNCHANGED <<tail, terminate, proxyVars, last, calls>>
  BY DEF Finish, Busy
<1>3. PICK n \in NodeIds : n = mine[w] /\ n \in Nodes /\ n \in used
  BY <1>1, <1>2, BusyWorker DEF Held
<1>4. PICK k \in Entries : k = found[w] /\ k < tail /\ head <= k
  BY <1>1, <1>2, BusyWorker DEF Held
<1>5. /\ Sound(r) /\ r.head = head /\ r.users = [users EXCEPT ![k] = @ - 1]
      /\ r.node = node /\ r.at = at /\ r.used = used \ {n} /\ r.deled = deled
  BY <1>2, <1>3, <1>4, ReleasedIs
<1>6. /\ Sound(s) /\ Keeps(r, s) /\ s.node = node
      /\ s.deled = deled \/ s.deled = deled \cup {n}
      /\ w \in invalid => n \in s.deled
  <2> HIDE DEF r
  <2>1. CASE w \in invalid /\ n \notin deled
    <3>1. s = Delete(r, n) /\ n \in 1..Len(r.node) \ r.deled
      BY <1>3, <1>5, <2>1 DEF Nodes
    <3> HIDE DEF s
    <3> QED BY <1>1, <1>5, <3>1, DeleteKeeps
  <2>2. CASE ~(w \in invalid /\ n \notin deled)
    <3>1. s = r
      BY <1>3, <2>2
    <3> HIDE DEF s
    <3> QED BY <1>5, <2>2, <3>1, NothingKeeps
  <2> QED BY <2>1, <2>2
<1>7. /\ head' = s.head /\ users' = s.users /\ node' = s.node /\ at' = s.at /\ used' = s.used
      /\ deled' = s.deled /\ nproxies' = s.nproxies /\ ndeleted' = s.ndeleted
      /\ tail' = tail /\ terminate' = terminate /\ pxstate' = pxstate /\ off' = off /\ inuse' = inuse
      /\ last' = last /\ calls' = calls
  BY <1>2 DEF SetPool, proxyVars
<1> HIDE DEF r, s
<1>8. /\ node' = node /\ Nodes' = Nodes /\ used' = used \ {n}
      /\ users' = [users EXCEPT ![k] = @ - 1] /\ deled' \in SUBSET Nodes
      /\ deled \subseteq deled' /\ (deled' = deled \/ deled' = deled \cup {n})
      /\ head <= head' /\ head' <= tail /\ head' \in Entries
      /\ at' \in [NodeIds -> 0..(MaxChanges + 1)]
      /\ \A m \in Nodes : m \in used' \/ m \notin deled' => at'[m] = at[m]
      /\ \A j \in Entries : head <= j /\ j < tail /\ users'[j] # 0 => head' <= j
  <2>1. \A j \in Entries : head <= j /\ j < tail /\ users'[j] # 0 => head' <= j
    BY <1>5, <1>6, <1>7 DEF Keeps
  <2>2. head <= head' /\ head' <= tail /\ used' = used \ {n} /\ users' = [users EXCEPT ![k] = @ - 1]
    BY <1>5, <1>6, <1>7 DEF Keeps
  <2>3. \A m \in Nodes : m \in used' \/ m \notin deled' => at'[m] = at[m]
    BY <1>5, <1>6, <1>7, <2>2 DEF Keeps, Nodes
  <2>4. head' \in Entries /\ at' \in [NodeIds -> 0..(MaxChanges + 1)] /\ deled' \subseteq Nodes
    BY <1>6, <1>7 DEF Sound, Pools, Nodes
  <2> QED BY <1>6, <1>7, <2>1, <2>2, <2>3, <2>4 DEF Nodes
<1>9. Placed' /\ Counted' /\ Single'
  BY <1>6, <1>7 DEF Sound, Placed, Counted, Single, Nodes
<1>10. Wanted'
  BY <1>1, <1>7, <1>8 DEF Wanted
<1>11. /\ pc' \in [Workers -> {"idle", "wait", "exit"} \cup Busy]
       /\ pc'[w] \notin Busy
       /\ \A v \in Workers \ {w} : (pc'[v] \in Busy \/ pc[v] \in Busy) => pc'[v] = pc[v]
  <2>1. CASE pc' = [pc EXCEPT ![w] = "idle"]
    BY <1>1, <2>1 DEF TypeOK, Busy
  <2>2. ASSUME NEW v \in Workers, pc[v] = "wait", pc' = [pc EXCEPT ![w] = "idle", ![v] = "idle"]
        PROVE  <1>11
    <3>1. pc[v] \notin Busy
      BY <2>2 DEF Busy
    <3> QED BY <1>1, <2>2, <3>1 DEF TypeOK, Busy
  <2> QED BY <2>1, <2>2 DEF Finish
<1>12. /\ mine' \in [Workers -> 0..MaxNodes] /\ found' \in [Workers -> 0..MaxChanges]
       /\ \A v \in Workers \ {w} : mine'[v] = mine[v] /\ found'[v] = found[v]
       /\ \A v \in Workers \ {w} : v \in invalid' <=> v \in invalid
  <2>1. 0 \in 0..MaxNodes /\ 0 \in 0..MaxChanges
    BY ChangePoolAssumption
  <2>2. mine \in [Workers -> 0..MaxNodes] /\ found \in [Workers -> 0..MaxChanges]
    BY <1>1 DEF TypeOK
  <2> QED BY <1>2, <2>1, <2>2
<1>13. \A j \in Entries : UsersOf(j)' = IF j = k THEN UsersOf(j) \ {w} ELSE UsersOf(j)
  <2> SUFFICES ASSUME NEW j \in Entries, NEW v \in Workers
               PROVE  pc'[v] \in Busy /\ found'[v] = j <=>
                        pc[v] \in Busy /\ found[v] = j /\ ~(j = k /\ v = w)
    BY DEF UsersOf
  <2>1. CASE v = w
    BY <1>4, <1>11, <2>1
  <2>2. CASE v # w
    BY <1>11, <1>12, <2>2
  <2> QED BY <2>1, <2>2
<1>14. \A j \in Entries : users'[j] = Cardinality(UsersOf(j)')
  <2> SUFFICES ASSUME NEW j \in Entries
               PROVE  users'[j] = Cardinality(UsersOf(j)')
    OBVIOUS
  <2>1. users[j] = Cardinality(UsersOf(j)) /\ UsersOf(j) \in SUBSET Workers
    BY <1>1 DEF Held, UsersOf
  <2>2. j = k => Cardinality(UsersOf(j) \ {w}) = Cardinality(UsersOf(j)) - 1
    <3>1. w \in UsersOf(k)
      BY <1>2, <1>4 DEF UsersOf
    <3> QED BY <2>1, <3>1, OneLess
  <2>3. users'[j] = IF j = k THEN users[j] - 1 ELSE users[j]
    BY <1>1, <1>8 DEF TypeOK
  <2> QED BY <1>13, <2>1, <2>2, <2>3
<1>15. users' \in [Entries -> 0..Cardinality(Workers)]
  <2>1. \A j \in Entries : users'[j] \in 0..Cardinality(Workers)
    <3> SUFFICES ASSUME NEW j \in Entries PROVE users'[j] \in 0..Cardinality(Workers)
      OBVIOUS
    <3>1. UsersOf(j)' \in SUBSET Workers
      BY DEF UsersOf
    <3> QED BY <1>14, <3>1, SomeWorkers
  <2>2. users' = [j \in Entries |-> users'[j]]
    BY <1>1, <1>8 DEF TypeOK
  <2> QED BY <2>1, <2>2
<1>16. nproxies' \in 0..MaxNodes /\ ndeleted' \in 0..MaxNodes
  <2>1. Nodes \ deled' \in SUBSET NodeIds /\ {m \in deled' : at'[m] # 0} \in SUBSET NodeIds
    BY <1>1, <1>8, Numbers
  <2>2. nproxies' = Cardinality(Nodes \ deled') /\ ndeleted' = Cardinality({m \in deled' : at'[m] # 0})
    BY <1>8, <1>9 DEF Counted
  <2> QED BY <2>1, <2>2, SomeNodes
<1>17. TypeOK'
  <2>1. used' \subseteq Nodes /\ invalid' \subseteq Workers
    BY <1>1, <1>2, <1>8 DEF TypeOK
  <2> QED BY <1>1, <1>7, <1>8, <1>11, <1>12, <1>15, <1>16, <2>1 DEF TypeOK
<1>18. \A v \in Workers : pc'[v] \in Busy =>
         /\ v # w /\ pc[v] \in Busy /\ pc'[v] = pc[v] /\ mine'[v] = mine[v] /\ found'[v] = found[v]
         /\ mine[v] \in used' /\ at'[mine[v]] = at[mine[v]]
  <2> SUFFICES ASSUME NEW v \in Workers, pc'[v] \in Busy
               PROVE  /\ v # w /\ pc[v] \in Busy /\ pc'[v] = pc[v]
                      /\ mine'[v] = mine[v] /\ found'[v] = found[v]
                      /\ mine[v] \in used' /\ at'[mine[v]] = at[mine[v]]
    OBVIOUS
  <2>1. v # w /\ pc[v] \in Busy /\ pc'[v] = pc[v] /\ mine'[v] = mine[v] /\ found'[v] = found[v]
    BY <1>11, <1>12
  <2>2. mine[v] \in used /\ mine[v] # n /\ mine[v] \in Nodes
    BY <1>1, <1>2, <1>3, <2>1, BusyWorker DEF Held
  <2> QED BY <1>8, <2>1, <2>2
<1>19. Held'
  <2>1. \A v \in Workers : pc'[v] \in Busy => mine'[v] \in used' /\ head' <= found'[v] /\ found'[v] < tail
    <3> SUFFICES ASSUME NEW v \in Workers, pc'[v] \in Busy
                 PROVE  mine[v] \in used' /\ head' <= found[v] /\ found[v] < tail
      BY <1>18
    <3>1. pc[v] \in Busy /\ found[v] \in Entries /\ head <= found[v] /\ found[v] < tail
      BY <1>1, <1>18, BusyWorker DEF Held
    <3>2. PICK j \in Entries : j = found[v]
      BY <3>1
    <3>3. v \in UsersOf(j)' /\ UsersOf(j)' \in SUBSET Workers
      BY <1>18, <3>2 DEF UsersOf
    <3>4. users'[j] # 0
      <4>1. PICK T \in SUBSET Workers : T = UsersOf(j)'
        BY <3>3
      <4>2. Cardinality(T) > 0
        BY <3>3, <4>1, OneLess
      <4> QED BY <1>14, <4>1, <4>2
    <3> QED BY <1>8, <1>18, <3>1, <3>2, <3>4
  <2>2. \A u, v \in Workers : pc'[u] \in Busy /\ pc'[v] \in Busy /\ mine'[u] = mine'[v] => u = v
    BY <1>1, <1>18 DEF Held
  <2>3. \A m \in used' : \E v \in Workers : pc'[v] \in Busy /\ mine'[v] = m
    <3> SUFFICES ASSUME NEW m \in used' PROVE \E v \in Workers : pc'[v] \in Busy /\ mine'[v] = m
      OBVIOUS
    <3>1. PICK v \in Workers : pc[v] \in Busy /\ mine[v] = m
      BY <1>1, <1>8 DEF Held
    <3>2. v # w
      BY <1>3, <1>8, <3>1
    <3> QED BY <1>11, <1>12, <3>1, <3>2
  <2>4. \A p \in Proxies : Senders(p)' = Senders(p)
    <3> SUFFICES ASSUME NEW p \in Proxies, NEW v \in Workers
                 PROVE  pc'[v] = "sending" /\ node'[mine'[v]] = p <=>
                          pc[v] = "sending" /\ node[mine[v]] = p
      BY DEF Senders
    <3>1. CASE v = w
      BY <1>2, <1>11, <3>1 DEF Busy
    <3>2. CASE v # w
      <4>1. mine'[v] = mine[v] /\ (pc'[v] = "sending" <=> pc[v] = "sending")
        BY <1>11, <1>12, <3>2 DEF Busy
      <4> QED BY <1>8, <4>1
    <3> QED BY <3>1, <3>2
  <2>5. \A p \in Proxies : inuse[p] = Cardinality(Senders(p)')
    BY <1>1, <2>4 DEF Held
  <2>6. \A v \in Workers : pc'[v] = "sending" => pxstate[node[mine'[v]]] # "disposed"
    <3>1. \A v \in Workers : pc'[v] = "sending" => pc'[v] \in Busy
      BY DEF Busy
    <3> QED BY <1>1, <1>18, <3>1 DEF Held
  <2> QED BY <1>7, <1>8, <1>14, <2>1, <2>2, <2>3, <2>5, <2>6 DEF Held
<1>20. Told'
  <2>1. \A m \in Nodes \ (deled' \cup used') : last[m] = at'[m] - 1
    <3> SUFFICES ASSUME NEW m \in Nodes \ (deled' \cup used')
                 PROVE  last[m] = at'[m] - 1
      OBVIOUS
    <3>1. at'[m] = at[m] /\ m \notin deled
      BY <1>8
    <3>2. CASE m = n
      <4>1. w \notin invalid
        BY <1>6, <1>7, <3>2
      <4>2. at[n] = found[w] + 1 /\ last[n] = found[w] /\ found[w] \in Int
        BY <1>1, <1>2, <1>3, <3>1, <3>2, <4>1, Numbers DEF Told
      <4> QED BY <3>1, <3>2, <4>2
    <3>3. CASE m # n
      BY <1>1, <1>8, <3>1, <3>3 DEF Told
    <3> QED BY <3>2, <3>3
  <2>2. \A v \in Workers : pc'[v] \in Busy =>
          /\ at'[mine'[v]] = found'[v] + 1
          /\ pc'[v] # "done" => last[mine'[v]] = found'[v] - 1
          /\ pc'[v] = "done" /\ v \notin invalid' /\ mine'[v] \notin deled' => last[mine'[v]] = found'[v]
    BY <1>1, <1>8, <1>12, <1>18 DEF Told
  <2> QED BY <1>7, <1>8, <2>1, <2>2 DEF Told
<1> QED BY <1>9, <1>10, <1>17, <1>19, <1>20 DEF Inv

--------------------------------------------------------------------------------
(* The theorems                                                             *)

LEMMA InitInv == Init => Inv
<1> SUFFICES ASSUME Init PROVE Inv
  OBVIOUS
<1>1. Nodes = {} /\ Cardinality({}) = 0 /\ Cardinality(Workers) \in Nat
  BY FS_EmptySet, FS_CardinalityType, ChangePoolAssumption DEF Init, Nodes
<1>2. TypeOK
  <2>1. 1 \in Entries /\ 0 \in 0..Cardinality(Workers) /\ 0 \in 0..(MaxChanges + 1)
    BY <1>1, ChangePoolAssumption DEF Entries
  <2>2. 0 \in 0..MaxNodes /\ 0 \in 0..MaxChanges /\ 0 \in 0..MaxCalls
    BY ChangePoolAssumption
  <2>3. node \in Seq(Proxies) /\ Len(node) <= MaxNodes
    BY ChangePoolAssumption DEF Init
  <2>4. /\ users \in [Entries -> 0..Cardinality(Workers)] /\ at \in [NodeIds -> 0..(MaxChanges + 1)]
        /\ inuse \in [Proxies -> 0..Cardinality(Workers)] /\ last \in [NodeIds -> 0..MaxChanges]
        /\ mine \in [Workers -> 0..MaxNodes] /\ found \in [Workers -> 0..MaxChanges]
    BY <2>1, <2>2 DEF Init
  <2> QED BY <2>1, <2>2, <2>3, <2>4 DEF Init, TypeOK
<1>3. \A k : UsersOf(k) = {}
  BY DEF Init, UsersOf, Busy
<1>4. \A p : Senders(p) = {}
  BY DEF Init, Senders
<1>5. Placed /\ Single /\ Wanted
  BY <1>1 DEF Init, Placed, Single, Wanted
<1>6. Counted
  BY <1>1 DEF Init, Counted
<1>7. Held
  BY <1>1, <1>3, <1>4 DEF Init, Held, Busy
<1>8. Told
  BY <1>1 DEF Init, Told, Busy
<1> QED BY <1>2, <1>5, <1>6, <1>7, <1>8 DEF Inv

LEMMA StepInv == Inv /\ [Next]_vars => Inv'
<1> SUFFICES ASSUME Inv, [Next]_vars PROVE Inv'
  OBVIOUS
<1>1. CASE InsertChange \/ Destroy \/ UNCHANGED vars
  BY <1>1, SmallStepsKeep
<1>2. ASSUME NEW w \in Workers, Worker(w) PROVE Inv'
  BY <1>2, SmallStepsKeep, PickKeeps, LookKeeps, SendOfferChangeKeeps, DeliverKeeps, FinishKeeps
  DEF Worker
<1>3. ASSUME NEW p \in Proxies, Proxy(p) PROVE Inv'
  BY <1>3, SmallStepsKeep, ConnectKeeps, EnableUpdatesKeeps, LeaversKeep DEF Proxy
<1> QED BY <1>1, <1>2, <1>3 DEF Next

\* Every reachable state of the pool satisfies the inductive invariant, and so
\* its type invariant.
THEOREM Invariance == Spec => []Inv
BY InitInv, StepInv, PTL DEF Spec

THEOREM TypeCorrect == Spec => []TypeOK
<1>1. Inv => TypeOK
  BY DEF Inv
<1> QED BY <1>1, Invariance, PTL

\* A proxy is registered once at most, while it is connected and wants to be
\* told, and _nproxies and _ndeleted count the nodes they are meant to count.
THEOREM RegisteredOnce == Spec => []OneRegistration
<1>1. Inv => OneRegistration
  <2> SUFFICES ASSUME Inv PROVE OneRegistration
    OBVIOUS
  <2>1. Placed /\ Counted /\ Single /\ Wanted
    BY DEF Inv
  <2> QED BY <2>1 DEF OneRegistration, Placed, Counted, Single, Wanted
<1> QED BY <1>1, Invariance, PTL

\* _gcollect() frees neither a node nor an entry that a worker uses outside of
\* the mutex, and two workers never have the same node.
THEOREM InUseStays == Spec => []InUseKept
<1>1. Inv => InUseKept
  <2> SUFFICES ASSUME Inv PROVE InUseKept
    OBVIOUS
  <2>1. Placed /\ Held /\ TypeOK
    BY DEF Inv
  <2>2. \A w \in Workers : pc[w] \in Busy => mine[w] \in Nodes /\ users[found[w]] > 0
    BY BusyWorker
  <2> QED BY <2>1, <2>2 DEF InUseKept, Placed, Held
<1> QED BY <1>1, Invariance, PTL

\* The wait for the inuse count of a proxy keeps it until the last call of its
\* client has returned.
THEOREM DisposalWaits == Spec => []NoCallAfterDisposal
<1>1. Inv => NoCallAfterDisposal
  BY DEF Inv, Held, NoCallAfterDisposal
<1> QED BY <1>1, Invariance, PTL

\* A client is told of every change after its registration, in order and once,
\* whichever workers make the calls.
THEOREM ToldInOrder == Spec => InOrder
<1> DEFINE A == \A n \in Nodes : last'[n] # last[n] => last'[n] = last[n] + 1
<1>1. Inv /\ [Next]_vars => A
  <2> SUFFICES ASSUME Inv, [Next]_vars PROVE A
    OBVIOUS
  <2>1. TypeOK /\ Nodes \subseteq NodeIds
    BY Numbers DEF Inv
  <2>2. CASE last' = last
    BY <2>2
  <2>3. ASSUME NEW w \in Workers, Deliver(w) PROVE A
    BY <2>3, DeliverKeeps
  <2>4. ASSUME NEW s, Registered(s) PROVE A
    <3>1. \A n \in Nodes : n \in NodeIds /\ n \notin Len(node) + 1 .. Len(s.node)
      BY <2>1, Numbers DEF Nodes
    <3>2. \A n \in NodeIds : last'[n] = IF n \in Len(node) + 1 .. Len(s.node) THEN Changes ELSE last[n]
      BY <2>4 DEF Registered
    <3> QED BY <3>1, <3>2
  <2>5. CASE InsertChange \/ Destroy \/ UNCHANGED vars
    BY <2>2, <2>5 DEF InsertChange, Destroy, vars
  <2>6. ASSUME NEW w \in Workers, Worker(w) PROVE A
    BY <2>2, <2>3, <2>6 DEF Worker, Quit, Wait, Pick, Look, SendOfferChange, Finish
  <2>7. ASSUME NEW p \in Proxies, Proxy(p) PROVE A
    <3>1. CASE Dispose(p)
      BY <2>2, <3>1 DEF Dispose
    <3>2. CASE ~Dispose(p)
      <4>1. \E s : Registered(s)
        BY <2>7, <3>2 DEF Proxy, Connect, EnableUpdates, DisableUpdates, Fail, Disconnect, Unregister
      <4> QED BY <2>4, <4>1
    <3> QED BY <3>1, <3>2
  <2> QED BY <2>5, <2>6, <2>7 DEF Next
<1> HIDE DEF A
<1>2. Spec => [][A]_vars
  BY <1>1, Invariance, PTL DEF Spec
<1> QED BY <1>2 DEF InOrder, A
================================================================================
