--------------------------- MODULE PushSuppliersProofs ---------------------------
(***************************************************************************)
(* Pushing for any number of proxies, workers and events, with every size  *)
(* of batches, limit of queues and number of deleted entries to collect.   *)
(***************************************************************************)
EXTENDS PushSuppliers, FiniteSetTheorems, SequenceTheorems, WellFoundedInduction, TLAPS

--------------------------------------------------------------------------------
(* The inductive invariant                                                  *)

Busy == {"took", "call", "push", "done", "invalid"}

\* Workers serve the proxies of a pool and own threads those without one; only
\* a worker that looks for a proxy holds the lock, and finds one in the list.
Roles ==
  /\ \A w \in Workers : /\ at[w] # "exit" /\ (at[w] # "none" => pooled)
                        /\ at[w] \in Busy => mine[w] \in Proxies
  /\ \A p \in Proxies : /\ at[p] \in {"none", "scan", "wait", "push", "exit"}
                        /\ at[p] # "none" => ~pooled /\ pxstate[p] # "none"
  /\ IF lock = None THEN turn = 0
     ELSE pooled /\ at[lock] = "scan" /\ entries # {} /\ turn \in 1..2

\* The entries in use are those that workers have, one each.
Shared ==
  /\ \A w \in Workers : at[w] \in Busy => mine[w] \in inuse
  /\ \A v, w \in Workers : at[v] \in Busy /\ at[w] \in Busy /\ mine[v] = mine[w] => v = w
  /\ \A p \in inuse : p \in entries /\ \E w \in Workers : at[w] \in Busy /\ mine[w] = p

\* What was pushed, what is being pushed and what is queued for a proxy are its
\* events in the order in which they came.
Rising(s) == \A i, j \in DOMAIN s : i < j => s[i] < s[j]
Before(s, r) == \A i \in DOMAIN s : \A j \in DOMAIN r : s[i] < r[j]
UpTo(s, n) == \A i \in DOMAIN s : s[i] <= n
InLine(p) ==
  /\ Rising(pushed[p]) /\ Rising(queue[p]) /\ Before(pushed[p], queue[p])
  /\ UpTo(pushed[p], sent[p]) /\ UpTo(queue[p], sent[p])
Between(t) ==
  LET p == Served(t)
  IN  /\ Rising(batch[t]) /\ UpTo(batch[t], sent[p])
      /\ Before(pushed[p], batch[t]) /\ Before(batch[t], queue[p])
Ordered ==
  /\ \A p \in Proxies : InLine(p)
  /\ \A t \in Threads : at[t] = "push" => Between(t)

\* An event has one reference from every proxy that has it queued or is being
\* served with it.
InHand(p, e) == \E t \in Pushing(p) : e \in ToSet(batch[t])
Holders(e) == {p \in Proxies : e \in ToSet(queue[p]) \/ InHand(p, e)}
RefsExact == \A e \in Events : refs[e] = Cardinality(Holders(e))

Inv == TypeOK /\ Roles /\ Shared /\ EntriesKept /\ NoPushAfterDisposal /\ Ordered /\ RefsExact

--------------------------------------------------------------------------------
(* Sequences of events                                                      *)

LEMMA EventsAreNumbers == Events \in SUBSET Nat
BY PushAssumption DEF Events

\* The empty sequence satisfies everything.
LEMMA Nothing ==
  ASSUME NEW s, NEW n
  PROVE  /\ <<>> \in Seq(Events) /\ Len(<<>>) = 0 /\ ToSet(<<>>) = {}
         /\ Rising(<<>>) /\ UpTo(<<>>, n) /\ Before(<<>>, s) /\ Before(s, <<>>)
<1>1. DOMAIN <<>> = {}
  OBVIOUS
<1> QED BY <1>1, EmptySeq DEF Rising, UpTo, Before, ToSet

\* A sequence cut in two.
LEMMA Cut ==
  ASSUME NEW s \in Seq(Events), NEW n \in 0..Len(s), Rising(s)
  PROVE  LET a == SubSeq(s, 1, n)  b == SubSeq(s, n + 1, Len(s)) IN
         /\ a \in Seq(Events) /\ b \in Seq(Events) /\ Len(b) <= Len(s)
         /\ Rising(a) /\ Rising(b) /\ Before(a, b)
         /\ \A r : Before(r, s) => Before(r, a) /\ Before(r, b)
         /\ \A k \in Nat : UpTo(s, k) => UpTo(a, k) /\ UpTo(b, k)
         /\ ToSet(s) = ToSet(a) \cup ToSet(b)
<1> DEFINE a == SubSeq(s, 1, n)
           b == SubSeq(s, n + 1, Len(s))
<1>1. Len(s) \in Nat /\ n \in Nat /\ DOMAIN s = 1..Len(s) /\ \A i \in 1..Len(s) : s[i] \in Events
  BY LenProperties
<1>2. a \in Seq(Events) /\ Len(a) = n /\ \A i \in 1..n : a[i] = s[i]
  BY <1>1, SubSeqProperties
<1>3. b \in Seq(Events) /\ Len(b) = Len(s) - n /\ \A i \in 1..(Len(s) - n) : b[i] = s[n + i]
  <2>1. n + 1 \in Int /\ Len(s) \in Int /\ \A i \in (n + 1)..Len(s) : s[i] \in Events
    BY <1>1
  <2>2. /\ b \in Seq(Events)
        /\ Len(b) = IF n + 1 <= Len(s) THEN (Len(s) - (n + 1)) + 1 ELSE 0
        /\ \A i \in 1..((Len(s) - (n + 1)) + 1) : b[i] = s[(n + 1) + (i - 1)]
    BY <2>1, SubSeqProperties
  <2>3. \A i \in 1..(Len(s) - n) : i \in 1..((Len(s) - (n + 1)) + 1) /\ (n + 1) + (i - 1) = n + i
    BY <1>1
  <2>4. (n + 1 <= Len(s) => (Len(s) - (n + 1)) + 1 = Len(s) - n) /\ (~(n + 1 <= Len(s)) => Len(s) - n = 0)
    <3> DEFINE L == Len(s)
    <3>1. L \in Nat /\ n \in Nat /\ n <= L
      BY <1>1
    <3> HIDE DEF L
    <3>2. (n + 1 <= L => (L - (n + 1)) + 1 = L - n) /\ (~(n + 1 <= L) => L - n = 0)
      BY <3>1
    <3> QED BY <3>2 DEF L
  <2> QED BY <2>2, <2>3, <2>4
<1>4. DOMAIN a = 1..n /\ DOMAIN b = 1..(Len(s) - n)
  BY <1>2, <1>3, LenProperties
<1> HIDE DEF a, b
<1>5. /\ \A i \in DOMAIN a : i \in DOMAIN s /\ i <= n /\ a[i] = s[i]
      /\ \A i \in DOMAIN b : i \in Nat /\ n + i \in DOMAIN s /\ n + i > n /\ b[i] = s[n + i]
  BY <1>1, <1>2, <1>3, <1>4
<1>6. /\ Rising(a) /\ Rising(b) /\ Before(a, b)
      /\ \A r : Before(r, s) => Before(r, a) /\ Before(r, b)
      /\ \A k \in Nat : UpTo(s, k) => UpTo(a, k) /\ UpTo(b, k)
  <2>1. Rising(a)
    BY <1>5, <1>1 DEF Rising
  <2>2. Rising(b)
    <3>1. \A i, j \in DOMAIN b : i < j => n + i < n + j
      BY <1>5, <1>1
    <3> QED BY <3>1, <1>5 DEF Rising
  <2>3. Before(a, b)
    <3>1. \A i \in DOMAIN a, j \in DOMAIN b : i < n + j
      BY <1>5, <1>1, <1>4
    <3> QED BY <3>1, <1>5 DEF Before, Rising
  <2>4. \A r : Before(r, s) => Before(r, a) /\ Before(r, b)
    BY <1>5 DEF Before
  <2>5. \A k \in Nat : UpTo(s, k) => UpTo(a, k) /\ UpTo(b, k)
    BY <1>5 DEF UpTo
  <2> QED BY <2>1, <2>2, <2>3, <2>4, <2>5
<1>7. ToSet(a) \cup ToSet(b) \subseteq ToSet(s)
  BY <1>5 DEF ToSet
<1>8. ASSUME NEW i \in DOMAIN s
      PROVE  s[i] \in ToSet(a) \cup ToSet(b)
  <2>1. CASE i <= n
    BY <2>1, <1>1, <1>2, <1>4 DEF ToSet
  <2>2. CASE i > n
    <3>1. i - n \in DOMAIN b /\ b[i - n] = s[i]
      BY <2>2, <1>1, <1>3, <1>4
    <3> QED BY <3>1 DEF ToSet
  <2> QED BY <2>1, <2>2, <1>1
<1>9. ToSet(s) = ToSet(a) \cup ToSet(b)
  BY <1>7, <1>8 DEF ToSet
<1>10. Len(b) <= Len(s)
  BY <1>1, <1>3
<1> QED BY <1>2, <1>3, <1>6, <1>9, <1>10 DEF a, b

\* One sequence after another.
LEMMA Joined ==
  ASSUME NEW s \in Seq(Events), NEW r \in Seq(Events), Rising(s), Rising(r), Before(s, r)
  PROVE  /\ s \o r \in Seq(Events) /\ Len(s \o r) = Len(s) + Len(r) /\ Rising(s \o r)
         /\ \A u : Before(s, u) /\ Before(r, u) => Before(s \o r, u)
         /\ \A u : Before(u, s) /\ Before(u, r) => Before(u, s \o r)
         /\ \A k \in Nat : UpTo(s, k) /\ UpTo(r, k) => UpTo(s \o r, k)
         /\ ToSet(s \o r) = ToSet(s) \cup ToSet(r)
<1> DEFINE b == s \o r
<1>1. /\ Len(s) \in Nat /\ DOMAIN s = 1..Len(s) /\ \A i \in 1..Len(s) : s[i] \in Events
      /\ Len(r) \in Nat /\ DOMAIN r = 1..Len(r) /\ \A i \in 1..Len(r) : r[i] \in Events
  BY LenProperties
<1>2. /\ b \in Seq(Events) /\ Len(b) = Len(s) + Len(r)
      /\ \A i \in 1..Len(b) : b[i] = IF i <= Len(s) THEN s[i] ELSE r[i - Len(s)]
  BY ConcatProperties
<1>3. DOMAIN b = 1..Len(b)
  BY <1>2, LenProperties
<1> HIDE DEF b
<1>4. \A i \in DOMAIN b : \/ i \in DOMAIN s /\ b[i] = s[i]
                          \/ i > Len(s) /\ i - Len(s) \in DOMAIN r /\ b[i] = r[i - Len(s)]
  BY <1>1, <1>2, <1>3
<1>5. Rising(b)
  <2> SUFFICES ASSUME NEW i \in DOMAIN b, NEW j \in DOMAIN b, i < j
               PROVE  b[i] < b[j]
    BY DEF Rising
  <2>1. i \in 1..Len(b) /\ j \in 1..Len(b)
    BY <1>3
  <2>2. CASE j <= Len(s)
    BY <2>1, <2>2, <1>1, <1>2 DEF Rising
  <2>3. CASE i > Len(s)
    <3>1. i - Len(s) \in DOMAIN r /\ j - Len(s) \in DOMAIN r /\ i - Len(s) < j - Len(s)
      BY <2>1, <2>3, <1>1, <1>2
    <3>2. b[i] = r[i - Len(s)] /\ b[j] = r[j - Len(s)]
      BY <2>1, <2>3, <1>1, <1>2
    <3> QED BY <3>1, <3>2 DEF Rising
  <2>4. CASE i <= Len(s) /\ j > Len(s)
    <3>1. b[i] = s[i] /\ i \in DOMAIN s
      BY <2>1, <2>4, <1>1, <1>2
    <3>2. b[j] = r[j - Len(s)] /\ j - Len(s) \in DOMAIN r
      BY <2>1, <2>4, <1>1, <1>2
    <3> QED BY <3>1, <3>2 DEF Before
  <2> QED BY <2>1, <2>2, <2>3, <2>4, <1>1
<1>6. \A u : Before(s, u) /\ Before(r, u) => Before(b, u)
  BY <1>4 DEF Before
<1>7. \A u : Before(u, s) /\ Before(u, r) => Before(u, b)
  BY <1>4 DEF Before
<1>8. \A k \in Nat : UpTo(s, k) /\ UpTo(r, k) => UpTo(b, k)
  BY <1>4 DEF UpTo
<1>9. ToSet(b) \subseteq ToSet(s) \cup ToSet(r)
  BY <1>4 DEF ToSet
<1>10. \A i \in DOMAIN s : i \in DOMAIN b /\ b[i] = s[i]
  BY <1>1, <1>2, <1>3
<1>11. \A i \in DOMAIN r : Len(s) + i \in DOMAIN b /\ b[Len(s) + i] = r[i]
  <2> TAKE i \in DOMAIN r
  <2>1. Len(s) + i \in 1..Len(b) /\ Len(s) + i > Len(s) /\ (Len(s) + i) - Len(s) = i
    BY <1>1, <1>2
  <2> QED BY <2>1, <1>2, <1>3
<1>12. ToSet(s) \subseteq ToSet(b)
  BY <1>10 DEF ToSet
<1>13. ToSet(r) \subseteq ToSet(b)
  BY <1>11 DEF ToSet
<1>14. ToSet(b) = ToSet(s) \cup ToSet(r)
  BY <1>9, <1>12, <1>13
<1> QED BY <1>1, <1>2, <1>5, <1>6, <1>7, <1>8, <1>14 DEF b

\* A sequence without one of its elements.
LEMMA Dropped ==
  ASSUME NEW s \in Seq(Events), NEW i \in DOMAIN s, Rising(s)
  PROVE  LET d == RemoveAt(s, i) IN
         /\ d \in Seq(Events) /\ Len(d) = Len(s) - 1 /\ Rising(d)
         /\ \A r : Before(r, s) => Before(r, d)
         /\ \A k \in Nat : UpTo(s, k) => UpTo(d, k)
         /\ ToSet(d) = ToSet(s) \ {s[i]}
<1> DEFINE a == SubSeq(s, 1, i - 1)
           b == SubSeq(s, i + 1, Len(s))
           c == SubSeq(s, i, Len(s))
<1>1. Len(s) \in Nat /\ DOMAIN s = 1..Len(s) /\ i \in 1..Len(s) /\ \A j \in 1..Len(s) : s[j] \in Nat
  BY LenProperties, EventsAreNumbers
<1>2. i - 1 \in 0..Len(s) /\ (i - 1) + 1 = i /\ i \in 0..Len(s)
  BY <1>1
<1>3. /\ a \in Seq(Events) /\ c \in Seq(Events) /\ Rising(a) /\ Before(a, c)
      /\ \A r : Before(r, s) => Before(r, a)
      /\ \A k \in Nat : UpTo(s, k) => UpTo(a, k)
      /\ ToSet(s) = ToSet(a) \cup ToSet(c)
  BY <1>2, Cut
<1>4. /\ b \in Seq(Events) /\ Rising(b)
      /\ \A r : Before(r, s) => Before(r, b)
      /\ \A k \in Nat : UpTo(s, k) => UpTo(b, k)
  BY <1>2, Cut
<1>5. /\ Len(a) = i - 1 /\ \A j \in 1..(i - 1) : a[j] = s[j]
      /\ Len(b) = Len(s) - i /\ \A j \in 1..(Len(s) - i) : b[j] = s[i + j]
  <2>1. Len(a) = i - 1 /\ \A j \in 1..(i - 1) : a[j] = s[j]
    BY <1>1, SubSeqProperties
  <2>2. Len(b) = Len(s) - i /\ \A j \in 1..(Len(s) - i) : b[j] = s[i + j]
    BY <1>1, SubSeqProperties
  <2> QED BY <2>1, <2>2
<1>6. DOMAIN a = 1..(i - 1) /\ DOMAIN b = 1..(Len(s) - i)
  BY <1>3, <1>4, <1>5, LenProperties
<1> HIDE DEF a, b, c
<1>7. /\ \A j \in DOMAIN a : j \in DOMAIN s /\ j < i /\ a[j] = s[j]
      /\ \A j \in DOMAIN b : j \in Nat /\ i + j \in DOMAIN s /\ i < i + j /\ b[j] = s[i + j]
  BY <1>1, <1>5, <1>6
<1>8. Before(a, b)
  <2>1. \A j \in DOMAIN a, k \in DOMAIN b : j < i + k
    BY <1>7, <1>1, <1>6
  <2> QED BY <2>1, <1>7 DEF Before, Rising
<1>9. ToSet(a) \cup ToSet(b) \subseteq ToSet(s) \ {s[i]}
  <2>1. \A j \in DOMAIN a : a[j] < s[i]
    BY <1>1, <1>7 DEF Rising
  <2>2. \A j \in DOMAIN b : s[i] < b[j]
    BY <1>1, <1>7 DEF Rising
  <2>3. ToSet(a) \subseteq ToSet(s) \ {s[i]}
    BY <2>1, <1>1, <1>7 DEF ToSet
  <2>4. ToSet(b) \subseteq ToSet(s) \ {s[i]}
    BY <2>2, <1>1, <1>7 DEF ToSet
  <2> QED BY <2>3, <2>4
<1>10. ASSUME NEW j \in DOMAIN s, j # i
      PROVE  s[j] \in ToSet(a) \cup ToSet(b)
  <2>1. CASE j < i
    <3>1. j \in DOMAIN a /\ a[j] = s[j]
      BY <2>1, <1>1, <1>5, <1>6
    <3> QED BY <3>1 DEF ToSet
  <2>2. CASE j > i
    <3>1. j - i \in 1..(Len(s) - i) /\ i + (j - i) = j
      BY <2>2, <1>1
    <3>2. j - i \in DOMAIN b /\ b[j - i] = s[j]
      BY <3>1, <1>7, <1>6
    <3> QED BY <3>2 DEF ToSet
  <2> QED BY <2>1, <2>2, <1>1, <1>10
<1>11. ToSet(s) \ {s[i]} \subseteq ToSet(a) \cup ToSet(b)
  BY <1>10 DEF ToSet
<1>12. ToSet(a) \cup ToSet(b) = ToSet(s) \ {s[i]}
  BY <1>9, <1>11
<1>13. /\ a \o b \in Seq(Events) /\ Len(a \o b) = Len(a) + Len(b) /\ Rising(a \o b)
       /\ \A u : Before(u, a) /\ Before(u, b) => Before(u, a \o b)
       /\ \A k \in Nat : UpTo(a, k) /\ UpTo(b, k) => UpTo(a \o b, k)
       /\ ToSet(a \o b) = ToSet(a) \cup ToSet(b)
  BY <1>3, <1>4, <1>8, Joined
<1>14. RemoveAt(s, i) = a \o b
  BY DEF RemoveAt, a, b
<1>15. Len(a \o b) = Len(s) - 1
  BY <1>1, <1>5, <1>13
<1>16. \A r : Before(r, s) => Before(r, a \o b)
  BY <1>3, <1>4, <1>13
<1>17. \A k \in Nat : UpTo(s, k) => UpTo(a \o b, k)
  BY <1>3, <1>4, <1>13
<1> QED BY <1>12, <1>13, <1>14, <1>15, <1>16, <1>17

\* A sequence with a later event.
LEMMA Added ==
  ASSUME NEW s \in Seq(Events), NEW n \in Nat, n + 1 \in Events, Rising(s), UpTo(s, n)
  PROVE  LET d == Append(s, n + 1) IN
         /\ d \in Seq(Events) /\ Len(d) = Len(s) + 1 /\ Rising(d) /\ UpTo(d, n + 1)
         /\ \A r \in Seq(Events) : Before(r, s) /\ UpTo(r, n) => Before(r, d)
         /\ ToSet(d) = ToSet(s) \cup {n + 1}
<1> DEFINE d == Append(s, n + 1)
<1>1. Len(s) \in Nat /\ DOMAIN s = 1..Len(s) /\ \A i \in 1..Len(s) : s[i] \in Nat
  BY LenProperties, EventsAreNumbers
<1>2. /\ d \in Seq(Events) /\ Len(d) = Len(s) + 1
      /\ \A i \in 1..Len(s) : d[i] = s[i]
      /\ d[Len(s) + 1] = n + 1
  BY AppendProperties
<1>3. DOMAIN d = 1..(Len(s) + 1)
  BY <1>2, LenProperties
<1> HIDE DEF d
<1>4. Rising(d)
  BY <1>1, <1>2, <1>3 DEF Rising, UpTo
<1>5. UpTo(d, n + 1)
  BY <1>1, <1>2, <1>3 DEF UpTo
<1>6. ASSUME NEW r \in Seq(Events), Before(r, s), UpTo(r, n)
      PROVE  Before(r, d)
  <2>1. \A i \in DOMAIN r : r[i] \in Nat
    BY LenProperties, EventsAreNumbers
  <2> QED BY <2>1, <1>1, <1>2, <1>3, <1>6 DEF Before, UpTo
<1>7. ToSet(d) = ToSet(s) \cup {n + 1}
  <2>1. ToSet(s) \subseteq ToSet(d)
    BY <1>1, <1>2, <1>3 DEF ToSet
  <2>2. n + 1 \in ToSet(d)
    <3>1. Len(s) + 1 \in DOMAIN d
      BY <1>1, <1>3
    <3> QED BY <3>1, <1>2 DEF ToSet
  <2>3. ToSet(d) \subseteq ToSet(s) \cup {n + 1}
    BY <1>1, <1>2, <1>3 DEF ToSet
  <2> QED BY <2>1, <2>2, <2>3
<1> QED BY <1>2, <1>4, <1>5, <1>6, <1>7 DEF d

--------------------------------------------------------------------------------
(* The list of the pool                                                     *)

Below == {ss \in Nat \X Nat : ss[1] < ss[2]}
LEMMA Least ==
  ASSUME NEW S \in SUBSET Nat, S # {}
  PROVE  \E x \in S : \A y \in S : x <= y
<1>1. IsWellFoundedOn(Below, Nat)
  BY NatLessThanWellFounded DEF OpToRel, Below
<1>2. PICK x \in S : \A y \in S : <<y, x>> \notin Below
  BY <1>1, WFMin
<1>3. \A y \in S : ~ (y < x)
  BY <1>2 DEF Below
<1> QED BY <1>3

LEMMA OldestIsIn ==
  ASSUME TypeOK, NEW S \in SUBSET Proxies, S # {}
  PROVE  Oldest(S) \in S
<1> DEFINE N == {born[p] : p \in S}
<1>1. N \in SUBSET Nat /\ N # {}
  BY DEF TypeOK
<1>2. PICK x \in N : \A y \in N : x <= y
  BY <1>1, Least
<1>3. PICK p \in S : born[p] = x
  OBVIOUS
<1>4. \A q \in S : born[p] <= born[q]
  BY <1>2, <1>3
<1> QED BY <1>4 DEF Oldest

LEMMA NewestIsIn ==
  ASSUME TypeOK, NEW S \in SUBSET Proxies, S # {}
  PROVE  Newest(S) \in S
<1> DEFINE N == {made - born[p] : p \in S}
<1>1. \A p \in S : made - born[p] \in Nat /\ born[p] \in Nat /\ made \in Nat
  BY DEF TypeOK
<1>2. N \in SUBSET Nat /\ N # {}
  BY <1>1
<1>3. PICK x \in N : \A y \in N : x <= y
  BY <1>2, Least
<1>4. PICK p \in S : made - born[p] = x
  OBVIOUS
<1>5. \A q \in S : made - born[p] <= made - born[q]
  BY <1>3, <1>4
<1>6. \A q \in S : born[q] <= born[p]
  BY <1>1, <1>5
<1> QED BY <1>6 DEF Newest

\* The entry that is looked at next is in the list, and so is the last one served
\* after a collection.
LEMMA FollowingIsIn ==
  ASSUME TypeOK, entries # {}
  PROVE  Following \in entries
<1>1. CASE AtEnd
  BY <1>1, NewestIsIn DEF Following, TypeOK
<1>2. CASE ~AtEnd
  <2> DEFINE S == {p \in entries : born[p] < born[last]}
  <2>1. last \in Proxies /\ born \in [Proxies -> 0..made] /\ made \in Nat /\ entries \subseteq Proxies
    BY <1>2 DEF AtEnd, TypeOK
  <2>2. PICK p \in entries : ~(born[last] <= born[p])
    BY <1>2 DEF AtEnd
  <2>3. born[p] < born[last]
    BY <2>1, <2>2
  <2>4. S # {} /\ S \in SUBSET Proxies
    BY <2>1, <2>3
  <2>5. Newest(S) \in S
    BY <2>4, NewestIsIn
  <2> QED BY <2>5, <1>2 DEF Following
<1> QED BY <1>1, <1>2

LEMMA LastKeptIsIn ==
  ASSUME TypeOK, NEW dead
  PROVE  LastKept(dead) \in Kept(dead) \cup {None}
<1> DEFINE S == {p \in Kept(dead) : born[last] <= born[p]}
<1>1. S \in SUBSET Proxies
  BY DEF Kept, TypeOK
<1>2. S # {} => Oldest(S) \in S
  BY <1>1, OldestIsIn
<1> HIDE DEF S
<1>3. S \subseteq Kept(dead)
  BY DEF S
<1>4. LastKept(dead) \in {None, Oldest(S)} /\ (S = {} => LastKept(dead) = None)
  BY DEF LastKept, S
<1> QED BY <1>2, <1>3, <1>4

--------------------------------------------------------------------------------
(* Types                                                                    *)

LEMMA OwnWorkers == Workers \cap Proxies = {} /\ Threads = Workers \cup Proxies /\ IsFiniteSet(Proxies)
BY PushAssumption DEF Threads

\* A signal wakes threads that wait, and no other.
LEMMA SignalIs ==
  ASSUME TypeOK, NEW T \in SUBSET Waiting, Signal(T)
  PROVE  /\ at' \in [Threads -> {"none", "scan", "wait", "took", "call", "push", "done", "invalid", "exit"}]
         /\ timed' \subseteq timed
         /\ \A t \in Threads : at'[t] = at[t] \/ (at[t] = "wait" /\ at'[t] = "scan")
<1>1. CASE T = {}
  BY <1>1 DEF Signal, TypeOK
<1>2. CASE T # {}
  <2>1. PICK t \in T : at' = [at EXCEPT ![t] = "scan"] /\ timed' = timed \ {t}
    BY <1>2 DEF Signal
  <2>2. t \in Threads /\ at[t] = "wait"
    BY DEF Waiting
  <2> QED BY <2>1, <2>2 DEF TypeOK
<1> QED BY <1>1, <1>2

LEMMA SignalPushIs ==
  ASSUME TypeOK, NEW p \in Proxies, SignalPush(p)
  PROVE  /\ at' \in [Threads -> {"none", "scan", "wait", "took", "call", "push", "done", "invalid", "exit"}]
         /\ timed' \subseteq timed
         /\ \A t \in Threads : at'[t] = at[t] \/ (at[t] = "wait" /\ at'[t] = "scan")
<1>1. Waiting \in SUBSET Waiting /\ Waiting \cap {p} \in SUBSET Waiting
  OBVIOUS
<1>2. CASE pooled
  <2>1. Signal(Waiting)
    BY <1>2 DEF SignalPush
  <2> QED BY <2>1, <1>1, SignalIs
<1>3. CASE ~pooled
  <2>1. Signal(Waiting \cap {p})
    BY <1>3 DEF SignalPush
  <2> QED BY <2>1, <1>1, SignalIs
<1> QED BY <1>2, <1>3

\* What is taken of a queue.
LEMMA TakeIs ==
  ASSUME TypeOK, Ordered, NEW p \in Proxies, NEW t \in Threads, Take(t, p), Ready(p)
  PROVE  \E n \in 0..Len(queue[p]) :
           /\ at' = [at EXCEPT ![t] = "push"]
           /\ batch' = [batch EXCEPT ![t] = SubSeq(queue[p], 1, n)]
           /\ queue' = [queue EXCEPT ![p] = SubSeq(queue[p], n + 1, Len(queue[p]))]
<1>1. queue[p] \in Seq(Events) /\ Len(queue[p]) \in Nat /\ Batch[p] \in Nat
  BY LenProperties, PushAssumption DEF TypeOK
<1>2. (IF Full(p) THEN Batch[p] ELSE Len(queue[p])) \in 0..Len(queue[p])
  BY <1>1 DEF Full
<1> QED BY <1>2 DEF Take, TypeOK

\* An event comes to a queue, which becomes r and the event, without the events of D.
Admitted(p, e, r, D) ==
  /\ r \in Seq(Events) /\ D \in SUBSET Events
  /\ queue' = [queue EXCEPT ![p] = Append(r, e)]
  /\ Rising(r) /\ UpTo(r, sent[p])
  /\ \A s : Before(s, queue[p]) => Before(s, r)
  /\ Len(r) <= Len(queue[p]) /\ (MaxLength > 0 => Len(r) < MaxLength)
  /\ ToSet(r) = ToSet(queue[p]) \ D /\ D \subseteq ToSet(queue[p]) /\ e \notin D
  /\ refs' \in [Events -> Int]
  /\ \A f \in Events : refs'[f] = IF f = e THEN refs[f] + 1
                                  ELSE IF f \in D THEN refs[f] - 1 ELSE refs[f]

LEMMA AdmitIs ==
  ASSUME TypeOK, Ordered, NEW p \in Proxies, NEW e, e = sent[p] + 1, e \in Events, Admit(p, e)
  PROVE  \E r, D : Admitted(p, e, r, D)
<1>1. /\ queue[p] \in Seq(Events) /\ Rising(queue[p]) /\ UpTo(queue[p], sent[p]) /\ sent[p] \in Nat
      /\ Len(queue[p]) \in Nat /\ DOMAIN queue[p] = 1..Len(queue[p]) /\ MaxLength \in Nat
      /\ MaxLength > 0 => Len(queue[p]) <= MaxLength
      /\ queue \in [Proxies -> Seq(Events)] /\ refs \in [Events -> Nat]
  BY LenProperties, PushAssumption DEF TypeOK, Ordered, InLine
<1>2. CASE MaxLength > 0 /\ Len(queue[p]) >= MaxLength
  <2>1. PICK i \in DOMAIN queue[p] :
          /\ queue' = [queue EXCEPT ![p] = Append(RemoveAt(queue[p], i), e)]
          /\ refs' = [Without(queue[p][i]) EXCEPT ![e] = @ + 1]
    BY <1>1, <1>2 DEF Admit
  <2> DEFINE d == queue[p][i]
             r == RemoveAt(queue[p], i)
  <2>2. d \in Events /\ d <= sent[p] /\ d \in Nat /\ d \in ToSet(queue[p])
    BY <1>1, EventsAreNumbers, ElementOfSeq DEF UpTo, ToSet
  <2>3. d # e /\ e \in Nat
    BY <2>2, <1>1
  <2>4. /\ r \in Seq(Events) /\ Len(r) = Len(queue[p]) - 1 /\ Rising(r)
        /\ \A s : Before(s, queue[p]) => Before(s, r)
        /\ \A k \in Nat : UpTo(queue[p], k) => UpTo(r, k)
        /\ ToSet(r) = ToSet(queue[p]) \ {d}
    BY <1>1, Dropped
  <2>5. /\ refs' \in [Events -> Int]
        /\ \A f \in Events : refs'[f] = IF f = e THEN refs[f] + 1
                                        ELSE IF f \in {d} THEN refs[f] - 1 ELSE refs[f]
    <3>1. refs \in [Events -> Int]
      BY <1>1
    <3>2. Without(d) \in [Events -> Int] /\ Without(d)[d] = refs[d] - 1
          /\ \A f \in Events \ {d} : Without(d)[f] = refs[f]
      BY <3>1, <2>2 DEF Without
    <3>3. refs' = [Without(d) EXCEPT ![e] = Without(d)[e] + 1]
      BY <2>1
    <3> HIDE DEF d
    <3>4. e \in Events /\ Without(d)[e] = refs[e]
      BY <1>1, <2>3, <3>2
    <3> QED BY <3>1, <3>2, <3>3, <3>4, <2>3
  <2>6. Len(r) <= Len(queue[p]) /\ (MaxLength > 0 => Len(r) < MaxLength)
    BY <2>4, <1>1
  <2>7. queue' = [queue EXCEPT ![p] = Append(r, e)]
    BY <2>1
  <2>8. {d} \in SUBSET Events /\ {d} \subseteq ToSet(queue[p]) /\ e \notin {d}
    BY <2>2, <2>3
  <2> HIDE DEF d, r
  <2>9. Admitted(p, e, r, {d})
    BY <2>4, <2>5, <2>6, <2>7, <2>8, <1>1 DEF Admitted
  <2> QED BY <2>9
<1>3. CASE ~(MaxLength > 0 /\ Len(queue[p]) >= MaxLength)
  <2>1. queue' = [queue EXCEPT ![p] = Append(queue[p], e)] /\ refs' = [refs EXCEPT ![e] = @ + 1]
    BY <1>1, <1>3 DEF Admit
  <2>2. /\ refs' \in [Events -> Int]
        /\ \A f \in Events : refs'[f] = IF f = e THEN refs[f] + 1
                                        ELSE IF f \in {} THEN refs[f] - 1 ELSE refs[f]
    BY <2>1, <1>1
  <2>3. Len(queue[p]) <= Len(queue[p]) /\ (MaxLength > 0 => Len(queue[p]) < MaxLength)
    BY <1>1, <1>3
  <2>4. ToSet(queue[p]) = ToSet(queue[p]) \ {} /\ {} \in SUBSET Events
    OBVIOUS
  <2>5. Admitted(p, e, queue[p], {})
    BY <2>1, <2>2, <2>3, <2>4, <1>1 DEF Admitted
  <2> QED BY <2>5
<1> QED BY <1>2, <1>3

\* What a proxy that is alone does to the pool.
LEMMA AloneIs ==
  ASSUME TypeOK, EntriesKept, NEW p \in Proxies, Alone(p)
  PROVE  /\ deled' \subseteq Proxies /\ ndeleted' \in Nat
         /\ entries' \subseteq entries /\ entries \cap inuse \subseteq entries'
         /\ last' # None => last' \in entries'
         /\ last' \in Proxies \cup {None}
         /\ entries' # entries => lock = None
<1>1. CASE p \notin entries
  BY <1>1 DEF Alone, TypeOK, EntriesKept
<1>2. CASE p \in entries
  <2> DEFINE dead == deled \cup {p}
  <2>1. lock = None /\ RemoveFromPool(p)
    BY <1>2 DEF Alone
  <2>2. Kept(dead) \subseteq entries /\ entries \cap inuse \subseteq Kept(dead) /\ dead \subseteq Proxies
    BY DEF Kept, TypeOK
  <2>3. LastKept(dead) \in Kept(dead) \cup {None}
    BY LastKeptIsIn
  <2>4. IsFiniteSet(Kept(dead) \cap dead)
    <3>1. Kept(dead) \cap dead \subseteq Proxies
      BY <2>2
    <3> QED BY <3>1, FS_Subset, OwnWorkers
  <2>5. Cardinality(Kept(dead) \cap dead) \in Nat
    BY <2>4, FS_CardinalityType
  <2>6. deled' = dead
    BY <2>1 DEF RemoveFromPool
  <2>7. \/ entries' = Kept(dead) /\ last' = LastKept(dead) /\ ndeleted' = Cardinality(Kept(dead) \cap dead)
        \/ UNCHANGED <<entries, last>> /\ ndeleted' = ndeleted + 1
    BY <2>1 DEF RemoveFromPool
  <2> HIDE DEF dead
  <2>8. entries \subseteq Proxies /\ ndeleted \in Nat /\ (last # None => last \in entries)
    BY DEF TypeOK, EntriesKept
  <2> QED BY <2>1, <2>2, <2>3, <2>5, <2>6, <2>7, <2>8
<1> QED BY <1>1, <1>2

LEMMA ServedIs ==
  ASSUME TypeOK, Roles, NEW t \in Threads, at[t] = "push"
  PROVE  Served(t) \in Proxies
BY OwnWorkers DEF Served, Roles, Busy

\* What happens to the threads.
LEMMA FinishIs ==
  ASSUME TypeOK, NEW t \in Threads, Finish(t)
  PROVE  /\ at[t] = "push" /\ mine' = mine
         /\ at'[t] \in {"scan", "done", "invalid"} /\ \A u \in Threads \ {t} : at'[u] = at[u]
         /\ pxstate' = pxstate \/ pxstate' = [pxstate EXCEPT ![Served(t)] = "Exception"]
<1>1. at[t] = "push" /\ mine' = mine
  BY DEF Finish
<1>2. pxstate' = pxstate \/ pxstate' = [pxstate EXCEPT ![Served(t)] = "Exception"]
  BY DEF Finish
<1>3. \/ at' = [at EXCEPT ![t] = IF t \in Proxies THEN "scan" ELSE "done"]
      \/ at' = [at EXCEPT ![t] = IF t \in Proxies THEN "scan" ELSE "invalid"]
  BY DEF Finish
<1>4. at \in [Threads -> {"none", "scan", "wait", "took", "call", "push", "done", "invalid", "exit"}]
  BY DEF TypeOK
<1>5. at'[t] \in {"scan", "done", "invalid"} /\ \A u \in Threads \ {t} : at'[u] = at[u]
  BY <1>3, <1>4
<1> QED BY <1>1, <1>2, <1>5

LEMMA LookIs ==
  ASSUME TypeOK, Roles, NEW w \in Workers, Look(w)
  PROVE  /\ at[w] = "scan" /\ at'[w] \in {"scan", "took", "wait"}
         /\ \A t \in Threads \ {w} : at'[t] = at[t] /\ (t \in Workers => mine'[t] = mine[t])
<1>1. at[w] = "scan" /\ w \in Threads
  BY OwnWorkers, PushAssumption DEF Look, Roles
<1>2. at' = at \/ at' = [at EXCEPT ![w] = "took"] \/ at' = [at EXCEPT ![w] = "wait"]
  BY DEF Look
<1>3. mine' = mine \/ mine' = [mine EXCEPT ![w] = Following]
  BY DEF Look
<1>4. /\ at \in [Threads -> {"none", "scan", "wait", "took", "call", "push", "done", "invalid", "exit"}]
      /\ mine \in [Workers -> Proxies \cup {None}]
  BY DEF TypeOK
<1> QED BY <1>1, <1>2, <1>3, <1>4

LEMMA LeaveIs ==
  ASSUME TypeOK, NEW w \in Workers, Leave(w)
  PROVE  /\ at[w] \in {"done", "invalid"} /\ at'[w] = "scan"
         /\ \A t \in Threads \ {w} : at'[t] = at[t] /\ (t \in Workers => mine'[t] = mine[t])
BY OwnWorkers DEF Leave, TypeOK

\* What clients and the channel do begins no push.
LEMMA StartsNoPush ==
  ASSUME TypeOK, NEW p \in Proxies,
         Create(p) \/ Connect(p) \/ Suspend(p) \/ Resume(p) \/ AddEvent(p) \/ Tick(p) \/ Disconnect(p)
  PROVE  \A t \in Threads : /\ at'[t] = "push" => at[t] = "push"
                            /\ at[t] = "push" => at'[t] = "push" \/ (t = p /\ Create(p) /\ ~pooled)
<1>1. Waiting \in SUBSET Waiting /\ Waiting \cap {p} \in SUBSET Waiting
  OBVIOUS
<1>2. CASE Connect(p) \/ Suspend(p) \/ Tick(p)
  BY <1>2 DEF Connect, Suspend, Tick, threads
<1>3. CASE Resume(p) \/ AddEvent(p) \/ Disconnect(p)
  <2>1. SignalPush(p) \/ at' = at \/ Signal(Waiting \cap {p})
    BY <1>3 DEF Resume, AddEvent, Disconnect
  <2>2. \A t \in Threads : at'[t] = at[t] \/ (at[t] = "wait" /\ at'[t] = "scan")
    BY <1>1, <2>1, SignalIs, SignalPushIs
  <2> QED BY <2>2
<1>4. CASE Create(p) /\ pooled
  <2>1. Signal(Waiting)
    BY <1>4 DEF Create
  <2>2. \A t \in Threads : at'[t] = at[t] \/ (at[t] = "wait" /\ at'[t] = "scan")
    BY <1>1, <2>1, SignalIs
  <2> QED BY <2>2
<1>5. CASE Create(p) /\ ~pooled
  BY <1>5, OwnWorkers DEF Create, TypeOK
<1> QED BY <1>2, <1>3, <1>4, <1>5

\* An event that comes is one of the events.
LEMMA OfferedEvent ==
  ASSUME TypeOK, NEW p \in Proxies, AddEvent(p)
  PROVE  sent[p] + 1 \in Events
<1>1. sent[p] \in Nat /\ LastEvent[p] \in Nat /\ sent[p] < LastEvent[p]
  BY PushAssumption DEF AddEvent, TypeOK
<1>2. sent[p] + 1 \in 1..LastEvent[p]
  BY <1>1
<1> QED BY <1>2 DEF Events

\* All types but that of the references, whose counts are never negative because
\* they are exact.
LEMMA TypesNext ==
  ASSUME Inv, Next, refs' \in [Events -> Nat]
  PROVE  TypeOK'
<1> USE PushAssumption, OwnWorkers
<1>0. TypeOK /\ Roles /\ Shared /\ EntriesKept /\ Ordered
  BY DEF Inv
<1> USE DEF pool, threads
<1>1. ASSUME NEW p \in Proxies, Create(p)
      PROVE  TypeOK'
  <2>1. CASE pooled
    <3>1. Waiting \in SUBSET Waiting /\ Signal(Waiting)
      BY <1>1, <2>1 DEF Create
    <3>2. /\ at' \in [Threads -> {"none", "scan", "wait", "took", "call", "push", "done", "invalid", "exit"}]
          /\ timed' \subseteq timed
      BY <1>0, <3>1, SignalIs
    <3>3. made' = made + 1 /\ born' = [born EXCEPT ![p] = made + 1] /\ entries' = entries \cup {p}
      BY <1>1, <2>1 DEF Create
    <3>4. made' \in Nat /\ born' \in [Proxies -> 0..made'] /\ entries' \subseteq Proxies
      <4>1. made \in Nat /\ born \in [Proxies -> 0..made] /\ entries \subseteq Proxies
        BY <1>0 DEF TypeOK
      <4>2. made + 1 \in 0..(made + 1) /\ 0..made \subseteq 0..(made + 1)
        BY <4>1
      <4> QED BY <3>3, <4>1, <4>2
    <3>5. /\ UNCHANGED <<channel, queue, active, passed, sent, refs, deled, inuse, last, ndeleted, mine, lock,
                        turn, batch, pushed>>
          /\ pxstate' = [pxstate EXCEPT ![p] = "NotConnected"]
      BY <1>1, <2>1 DEF Create
    <3> QED BY <1>0, <3>2, <3>4, <3>5 DEF TypeOK
  <2>2. CASE ~pooled
    <3>1. /\ UNCHANGED <<channel, queue, active, passed, sent, refs, pool, mine, timed, batch, pushed>>
          /\ pxstate' = [pxstate EXCEPT ![p] = "NotConnected"] /\ at' = [at EXCEPT ![p] = "scan"]
      BY <1>1, <2>2 DEF Create
    <3>2. /\ pxstate' \in [Proxies -> {"none", "NotConnected", "Connected", "Exception", "Disconnected",
                                       "alone", "disposed"}]
          /\ at' \in [Threads -> {"none", "scan", "wait", "took", "call", "push", "done", "invalid", "exit"}]
      BY <1>0, <3>1 DEF TypeOK
    <3> QED BY <1>0, <3>1, <3>2 DEF TypeOK
  <2> QED BY <2>1, <2>2
<1>2. ASSUME NEW p \in Proxies, Connect(p) \/ Suspend(p) \/ Tick(p)
      PROVE  TypeOK'
  <2>1. /\ UNCHANGED <<channel, queue, sent, refs, pool, threads, pushed>>
        /\ active' \in {active, active \cup {p}, active \ {p}} /\ passed' \in {passed, passed \cup {p}}
        /\ pxstate' = pxstate \/ pxstate' = [pxstate EXCEPT ![p] = "Connected"]
    BY <1>2 DEF Connect, Suspend, Tick
  <2>2. /\ active' \subseteq Proxies /\ passed' \subseteq Proxies
        /\ pxstate' \in [Proxies -> {"none", "NotConnected", "Connected", "Exception", "Disconnected",
                                     "alone", "disposed"}]
    <3>1. active \subseteq Proxies /\ passed \subseteq Proxies
      BY <1>0 DEF TypeOK
    <3>2. pxstate' \in [Proxies -> {"none", "NotConnected", "Connected", "Exception", "Disconnected",
                                   "alone", "disposed"}]
      BY <1>0, <2>1 DEF TypeOK
    <3>3. active' \subseteq Proxies /\ passed' \subseteq Proxies
      BY <2>1, <3>1
    <3> QED BY <3>2, <3>3
  <2> QED BY <1>0, <2>1, <2>2 DEF TypeOK
<1>3. ASSUME NEW p \in Proxies, Resume(p)
      PROVE  TypeOK'
  <2>1. SignalPush(p)
    BY <1>3 DEF Resume
  <2>2. /\ at' \in [Threads -> {"none", "scan", "wait", "took", "call", "push", "done", "invalid", "exit"}]
        /\ timed' \subseteq timed
    BY <1>0, <2>1, SignalPushIs
  <2>3. /\ UNCHANGED <<channel, pxstate, queue, passed, sent, refs, pool, mine, batch, pushed>>
        /\ active' = active \cup {p}
    BY <1>3 DEF Resume
  <2>4. active' \subseteq Proxies
    BY <1>0, <2>3 DEF TypeOK
  <2> QED BY <1>0, <2>2, <2>3, <2>4 DEF TypeOK
<1>4. ASSUME NEW p \in Proxies, AddEvent(p)
      PROVE  TypeOK'
  <2>1. sent[p] + 1 \in Events /\ sent' = [sent EXCEPT ![p] = @ + 1] /\ sent[p] + 1 \in 0..LastEvent[p]
    <3>1. sent[p] \in Nat /\ LastEvent[p] \in Nat /\ sent[p] < LastEvent[p]
      BY <1>0, <1>4 DEF AddEvent, TypeOK
    <3>2. sent' = [sent EXCEPT ![p] = @ + 1]
      BY <1>4 DEF AddEvent
    <3>3. sent[p] + 1 \in 1..LastEvent[p]
      BY <3>1
    <3> QED BY <3>1, <3>2, <3>3 DEF Events
  <2>2. sent' \in [Proxies -> Nat] /\ \A q \in Proxies : sent'[q] \in 0..LastEvent[q]
    <3>0. sent \in [Proxies -> Nat] /\ sent[p] \in Nat
      BY <1>0 DEF TypeOK
    <3>1. sent[p] + 1 \in Nat /\ sent \in [Proxies -> Nat]
      BY <3>0
    <3>2. sent' \in [Proxies -> Nat] /\ sent'[p] = sent[p] + 1 /\ \A q \in Proxies \ {p} : sent'[q] = sent[q]
      BY <2>1, <3>1
    <3>3. \A q \in Proxies : sent[q] \in 0..LastEvent[q]
      BY <1>0 DEF TypeOK
    <3> QED BY <2>1, <3>2, <3>3
  <2>3. CASE pxstate[p] = "Connected"
    <3>1. SignalPush(p) /\ Admit(p, sent[p] + 1)
      BY <1>4, <2>3 DEF AddEvent
    <3>2. /\ at' \in [Threads -> {"none", "scan", "wait", "took", "call", "push", "done", "invalid", "exit"}]
          /\ timed' \subseteq timed
      BY <1>0, <3>1, SignalPushIs
    <3>3. /\ queue' \in [Proxies -> Seq(Events)]
          /\ \A q \in Proxies : MaxLength > 0 => Len(queue'[q]) <= MaxLength
      <4>1. PICK r, D : Admitted(p, sent[p] + 1, r, D)
        BY <1>0, <2>1, <3>1, AdmitIs
      <4>4. /\ r \in Seq(Events) /\ queue' = [queue EXCEPT ![p] = Append(r, sent[p] + 1)]
            /\ Len(r) <= Len(queue[p]) /\ (MaxLength > 0 => Len(r) < MaxLength)
        BY <4>1 DEF Admitted
      <4>2. Append(r, sent[p] + 1) \in Seq(Events) /\ Len(Append(r, sent[p] + 1)) = Len(r) + 1 /\ Len(r) \in Nat
        BY <2>1, <4>4, AppendProperties, LenProperties
      <4>3. MaxLength > 0 => Len(Append(r, sent[p] + 1)) <= MaxLength
        BY <4>4, <4>2
      <4> QED BY <1>0, <4>4, <4>2, <4>3 DEF TypeOK
    <3> QED BY <1>0, <1>4, <2>2, <3>2, <3>3 DEF AddEvent, TypeOK
  <2>4. CASE pxstate[p] # "Connected"
    BY <1>0, <1>4, <2>2, <2>4 DEF AddEvent, TypeOK
  <2> QED BY <2>3, <2>4
<1>5. ASSUME NEW p \in Proxies, Disconnect(p)
      PROVE  TypeOK'
  <2>1. Waiting \cap {p} \in SUBSET Waiting /\ Signal(Waiting \cap {p})
    BY <1>5 DEF Disconnect
  <2>2. /\ at' \in [Threads -> {"none", "scan", "wait", "took", "call", "push", "done", "invalid", "exit"}]
        /\ timed' \subseteq timed
    BY <1>0, <2>1, SignalIs
  <2> QED BY <1>0, <1>5, <2>2 DEF Disconnect, TypeOK
<1>6. ASSUME NEW p \in Proxies, Alone(p)
      PROVE  TypeOK'
  <2>1. entries' \subseteq Proxies /\ deled' \subseteq Proxies /\ last' \in Proxies \cup {None} /\ ndeleted' \in Nat
    BY <1>0, <1>6, AloneIs DEF TypeOK
  <2> QED BY <1>0, <1>6, <2>1 DEF Alone, TypeOK
<1>7. ASSUME NEW p \in Proxies, Dispose(p)
      PROVE  TypeOK'
  BY <1>0, <1>7, Nothing DEF Dispose, TypeOK
<1>8. ASSUME NEW t \in Threads, NEW p \in Proxies, Take(t, p), Ready(p),
             PushEvent(t) \/ PushOwn(t)
      PROVE  TypeOK'
  <2>1. PICK n \in 0..Len(queue[p]) :
           /\ at' = [at EXCEPT ![t] = "push"]
           /\ batch' = [batch EXCEPT ![t] = SubSeq(queue[p], 1, n)]
           /\ queue' = [queue EXCEPT ![p] = SubSeq(queue[p], n + 1, Len(queue[p]))]
    BY <1>0, <1>8, TakeIs
  <2>2. /\ queue[p] \in Seq(Events) /\ Rising(queue[p]) /\ Len(queue[p]) \in Nat
    BY <1>0, LenProperties DEF TypeOK, Ordered, InLine
  <2>3. /\ SubSeq(queue[p], 1, n) \in Seq(Events)
        /\ SubSeq(queue[p], n + 1, Len(queue[p])) \in Seq(Events)
        /\ Len(SubSeq(queue[p], n + 1, Len(queue[p]))) <= Len(queue[p])
    BY <2>2, Cut
  <2>4. Len(SubSeq(queue[p], n + 1, Len(queue[p]))) \in Nat
    BY <2>3, LenProperties
  <2>5. /\ queue' \in [Proxies -> Seq(Events)]
        /\ \A q \in Proxies : MaxLength > 0 => Len(queue'[q]) <= MaxLength
    BY <1>0, <2>1, <2>2, <2>3, <2>4 DEF TypeOK
  <2>6. batch' \in [Threads -> Seq(Events)]
    BY <1>0, <2>1, <2>3 DEF TypeOK
  <2>7. /\ at' \in [Threads -> {"none", "scan", "wait", "took", "call", "push", "done", "invalid", "exit"}]
    BY <1>0, <2>1 DEF TypeOK
  <2>8. /\ UNCHANGED <<channel, pxstate, active, sent, refs, pool, mine, pushed>>
        /\ timed' \subseteq Threads /\ passed' \subseteq Proxies
    BY <1>0, <1>8 DEF PushEvent, PushOwn, TypeOK
  <2> QED BY <1>0, <2>5, <2>6, <2>7, <2>8 DEF TypeOK
<1>9. ASSUME NEW p \in Proxies, PushOwn(p)
      PROVE  TypeOK'
  <2>1. CASE Ready(p) /\ Take(p, p)
    BY <1>8, <1>9, <2>1
  <2>2. CASE ~(Ready(p) /\ Take(p, p))
    BY <1>0, <1>9, <2>2 DEF PushOwn, TypeOK
  <2> QED BY <2>1, <2>2
<1>10. ASSUME NEW w \in Workers, PushEvent(w)
      PROVE  TypeOK'
  <2>1. mine[w] \in Proxies
    BY <1>0, <1>10 DEF PushEvent, Roles, Busy
  <2>2. CASE Ready(mine[w]) /\ Take(w, mine[w])
    BY <1>8, <1>10, <2>1, <2>2
  <2>3. CASE ~(Ready(mine[w]) /\ Take(w, mine[w]))
    BY <1>0, <1>10, <2>3 DEF PushEvent, TypeOK
  <2> QED BY <2>2, <2>3
<1>11. ASSUME NEW t \in Threads, TimedWake(t)
      PROVE  TypeOK'
  BY <1>0, <1>11 DEF TimedWake, TypeOK
<1>12. ASSUME NEW t \in Threads, Finish(t)
      PROVE  TypeOK'
  <2> DEFINE p == Served(t)
  <2>1. p \in Proxies /\ Rising(pushed[p]) /\ Rising(batch[t]) /\ Before(pushed[p], batch[t])
    BY <1>0, <1>12, ServedIs DEF Finish, Ordered, InLine, Between
  <2>2. pushed[p] \in Seq(Events) /\ batch[t] \in Seq(Events)
    BY <1>0, <2>1 DEF TypeOK
  <2>3. pushed[p] \o batch[t] \in Seq(Events)
    BY <2>1, <2>2, Joined
  <2>4. <<>> \in Seq(Events) /\ Len(<<>>) = 0
    BY Nothing
  <2> HIDE DEF p
  <2>5. pushed' \in [Proxies -> Seq(Events)]
    <3>1. pushed' = pushed \/ pushed' = [pushed EXCEPT ![p] = @ \o batch[t]]
      BY <1>12 DEF Finish, p
    <3>2. pushed \in [Proxies -> Seq(Events)]
      BY <1>0 DEF TypeOK
    <3> DEFINE z == pushed[p] \o batch[t]
    <3>3. z \in Seq(Events) /\ (pushed' = pushed \/ pushed' = [pushed EXCEPT ![p] = z])
      BY <2>3, <3>1
    <3> HIDE DEF z
    <3> QED BY <2>1, <3>2, <3>3
  <2>6. batch' \in [Threads -> Seq(Events)]
    BY <1>0, <1>12, <2>4 DEF Finish, TypeOK
  <2>7. /\ queue' \in [Proxies -> Seq(Events)]
        /\ \A q \in Proxies : MaxLength > 0 => Len(queue'[q]) <= MaxLength
    <3>1. queue' = queue \/ queue' = [queue EXCEPT ![p] = <<>>]
      BY <1>12 DEF Finish, p
    <3> DEFINE z == <<>>
    <3>2. z \in Seq(Events) /\ Len(z) = 0
      BY <2>4
    <3>3. queue' = queue \/ queue' = [queue EXCEPT ![p] = z]
      BY <3>1
    <3> HIDE DEF z
    <3>4. /\ queue \in [Proxies -> Seq(Events)] /\ MaxLength \in Nat
          /\ \A q \in Proxies : MaxLength > 0 => Len(queue[q]) <= MaxLength
      BY <1>0 DEF TypeOK
    <3>5. queue' \in [Proxies -> Seq(Events)] /\ \A q \in Proxies : queue'[q] = queue[q] \/ queue'[q] = z
      <4>1. queue \in [Proxies -> Seq(Events)] /\ z \in Seq(Events) /\ p \in Proxies
        BY <2>1, <3>2, <3>4
      <4>2. CASE queue' = queue
        BY <4>1, <4>2
      <4>3. CASE queue' = [queue EXCEPT ![p] = z]
        BY <4>1, <4>3
      <4> QED BY <3>3, <4>2, <4>3
    <3> QED BY <3>2, <3>4, <3>5
  <2>8. /\ at' \in [Threads -> {"none", "scan", "wait", "took", "call", "push", "done", "invalid", "exit"}]
    BY <1>0, <1>12 DEF Finish, TypeOK
  <2>9. pxstate' \in [Proxies -> {"none", "NotConnected", "Connected", "Exception", "Disconnected",
                                  "alone", "disposed"}] /\ passed' \subseteq Proxies
    BY <1>0, <1>12 DEF Finish, TypeOK
  <2>10. UNCHANGED <<channel, active, sent, pool, mine, timed>>
    BY <1>12 DEF Finish
  <2> QED BY <1>0, <2>5, <2>6, <2>7, <2>8, <2>9, <2>10 DEF TypeOK
<1>13. ASSUME NEW w \in Workers, Enter(w)
      PROVE  TypeOK'
  <2>1. /\ UNCHANGED <<channel, pxstate, queue, active, passed, sent, refs, entries, deled, inuse, made, born,
                 last, ndeleted, mine, batch, timed, pushed>>
        /\ lock' \in Workers \cup {None} /\ turn' \in 0..2
    BY <1>0, <1>13 DEF Enter, TypeOK
  <2>2. at' \in [Threads -> {"none", "scan", "wait", "took", "call", "push", "done", "invalid", "exit"}]
    <3>1. at \in [Threads -> {"none", "scan", "wait", "took", "call", "push", "done", "invalid", "exit"}]
      BY <1>0 DEF TypeOK
    <3>2. at' = at \/ at' = [at EXCEPT ![w] = "wait"]
      BY <1>13 DEF Enter
    <3> QED BY <3>1, <3>2
  <2> QED BY <1>0, <2>1, <2>2 DEF TypeOK
<1>14. ASSUME NEW w \in Workers, Look(w)
      PROVE  TypeOK'
  <2>1. Following \in Proxies /\ turn \in 1..2
    BY <1>0, <1>14, FollowingIsIn DEF Look, Roles, TypeOK
  <2>2. (IF AtEnd THEN turn + 1 ELSE turn) \in 1..3
    BY <2>1
  <2>3. UNCHANGED <<channel, pxstate, queue, active, passed, sent, refs, entries, deled, made, born,
                 ndeleted, batch, pushed>> /\ last' \in Proxies
    BY <1>14, <2>1 DEF Look
  <2>4. at' \in [Threads -> {"none", "scan", "wait", "took", "call", "push", "done", "invalid", "exit"}]
    BY <1>0, <1>14 DEF Look, TypeOK
  <2>5. lock' \in Workers \cup {None} /\ turn' \in 0..2
    BY <1>0, <1>14, <2>2 DEF Look, TypeOK
  <2>6. inuse' \subseteq Proxies /\ timed' \subseteq Threads
    BY <1>0, <1>14, <2>1 DEF Look, TypeOK
  <2>7. mine' \in [Workers -> Proxies \cup {None}]
    <3>1. mine' = mine \/ mine' = [mine EXCEPT ![w] = Following]
      BY <1>14 DEF Look
    <3>2. mine \in [Workers -> Proxies \cup {None}]
      BY <1>0 DEF TypeOK
    <3> QED BY <2>1, <3>1, <3>2
  <2> QED BY <1>0, <2>3, <2>4, <2>5, <2>6, <2>7 DEF TypeOK
<1>15. ASSUME NEW w \in Workers, CheckDeleted(w)
      PROVE  TypeOK'
  BY <1>0, <1>15 DEF CheckDeleted, TypeOK
<1>16. ASSUME NEW w \in Workers, Leave(w)
      PROVE  TypeOK'
  <2>1. mine[w] \in Proxies
    BY <1>0, <1>16 DEF Leave, Roles, Busy
  <2>2. /\ UNCHANGED <<channel, pxstate, queue, active, passed, sent, refs, entries, made, born, last, lock,
                 turn, batch, timed, pushed>>
        /\ deled' \subseteq Proxies /\ inuse' \subseteq Proxies /\ ndeleted' \in Nat
    <3>1. /\ deled' = deled \/ deled' = deled \cup {mine[w]}
          /\ inuse' = inuse \ {mine[w]} /\ ndeleted' \in {ndeleted, ndeleted + 1}
      BY <1>16 DEF Leave
    <3>2. deled \subseteq Proxies /\ inuse \subseteq Proxies /\ ndeleted \in Nat
      BY <1>0 DEF TypeOK
    <3>3. deled' \subseteq Proxies /\ inuse' \subseteq Proxies /\ ndeleted' \in Nat
      BY <2>1, <3>1, <3>2
    <3> QED BY <1>16, <3>3 DEF Leave
  <2>3. at' \in [Threads -> {"none", "scan", "wait", "took", "call", "push", "done", "invalid", "exit"}]
    BY <1>0, <1>16 DEF Leave, TypeOK
  <2>4. mine' \in [Workers -> Proxies \cup {None}]
    BY <1>0, <1>16 DEF Leave, TypeOK
  <2> QED BY <1>0, <2>2, <2>3, <2>4 DEF TypeOK
<1> QED
  BY <1>1, <1>2, <1>3, <1>4, <1>5, <1>6, <1>7, <1>9, <1>10, <1>11, <1>12, <1>13, <1>14, <1>15, <1>16
  DEF Next, Steps

--------------------------------------------------------------------------------
(* Who does what                                                            *)

LEMMA RolesNext ==
  ASSUME Inv, Next, TypeOK'
  PROVE  Roles'
<1> USE OwnWorkers, PushAssumption DEF pool, threads
<1>0. TypeOK /\ Roles /\ Shared /\ EntriesKept
  BY DEF Inv
<1>a. ASSUME UNCHANGED <<channel, entries, mine, lock, turn>>,
             \A t \in Threads : at'[t] = at[t] \/ (at[t] = "wait" /\ at'[t] = "scan"),
             \A q \in Proxies : pxstate'[q] = "none" => pxstate[q] = "none"
      PROVE  Roles'
  <2>1. lock # None => lock \in Threads /\ at'[lock] = "scan"
    BY <1>0, <1>a DEF Roles, TypeOK
  <2>2. \A w \in Workers : /\ at'[w] # "exit" /\ (at'[w] # "none" => pooled)
                           /\ at'[w] \in Busy => mine[w] \in Proxies
    BY <1>0, <1>a DEF Roles, Busy
  <2>3. \A q \in Proxies : /\ at'[q] \in {"none", "scan", "wait", "push", "exit"}
                           /\ at'[q] # "none" => ~pooled /\ pxstate'[q] # "none"
    BY <1>0, <1>a DEF Roles
  <2> QED BY <1>0, <1>a, <2>1, <2>2, <2>3 DEF Roles, pooled
<1>1. ASSUME NEW p \in Proxies, Create(p)
      PROVE  Roles'
  <2>1. CASE pooled
    <3>1. Waiting \in SUBSET Waiting /\ Signal(Waiting) /\ lock = None
      BY <1>1, <2>1 DEF Create
    <3>2. \A t \in Threads : at'[t] = at[t] \/ (at[t] = "wait" /\ at'[t] = "scan")
      BY <1>0, <3>1, SignalIs
    <3>3. /\ UNCHANGED <<channel, mine, lock, turn>>
          /\ \A q \in Proxies : pxstate'[q] = "none" => pxstate[q] = "none"
      BY <1>0, <1>1 DEF Create, TypeOK
    <3> QED BY <1>0, <2>1, <3>1, <3>2, <3>3 DEF Roles, Busy, pooled
  <2>2. CASE ~pooled
    <3>1. /\ UNCHANGED <<channel, mine, lock, turn, entries>> /\ lock = None
          /\ at'[p] = "scan" /\ \A t \in Threads \ {p} : at'[t] = at[t]
          /\ pxstate'[p] # "none" /\ \A q \in Proxies \ {p} : pxstate'[q] = pxstate[q]
      BY <1>0, <1>1, <2>2 DEF Create, TypeOK, Roles
    <3> QED BY <1>0, <2>2, <3>1 DEF Roles, Busy, pooled
  <2> QED BY <2>1, <2>2
<1>2. ASSUME NEW p \in Proxies, Connect(p) \/ Suspend(p) \/ Tick(p) \/ Dispose(p)
      PROVE  Roles'
  <2>1. /\ UNCHANGED <<channel, entries, mine, lock, turn, at>>
        /\ \A q \in Proxies : pxstate'[q] = "none" => pxstate[q] = "none"
    <3>1. CASE Connect(p)
      BY <1>0, <3>1 DEF Connect, TypeOK
    <3>2. CASE Suspend(p)
      BY <1>0, <3>2 DEF Suspend
    <3>3. CASE Tick(p)
      BY <1>0, <3>3 DEF Tick
    <3>4. CASE Dispose(p)
      BY <1>0, <3>4 DEF Dispose, TypeOK
    <3> QED BY <1>2, <3>1, <3>2, <3>3, <3>4
  <2> QED BY <1>a, <2>1
<1>3. ASSUME NEW p \in Proxies, Resume(p) \/ AddEvent(p) \/ Disconnect(p)
      PROVE  Roles'
  <2>1. /\ UNCHANGED <<channel, entries, mine, lock, turn>>
        /\ \A q \in Proxies : pxstate'[q] = "none" => pxstate[q] = "none"
    <3>1. CASE Resume(p)
      BY <3>1 DEF Resume
    <3>2. CASE AddEvent(p)
      BY <3>2 DEF AddEvent
    <3>3. CASE Disconnect(p)
      BY <1>0, <3>3 DEF Disconnect, TypeOK
    <3> QED BY <1>3, <3>1, <3>2, <3>3
  <2>2. \/ SignalPush(p) \/ at' = at \/ Signal(Waiting \cap {p})
    BY <1>3 DEF Resume, AddEvent, Disconnect
  <2>3. Waiting \cap {p} \in SUBSET Waiting
    OBVIOUS
  <2>4. \A t \in Threads : at'[t] = at[t] \/ (at[t] = "wait" /\ at'[t] = "scan")
    BY <1>0, <2>2, <2>3, SignalIs, SignalPushIs
  <2> QED BY <1>a, <2>1, <2>4
<1>4. ASSUME NEW p \in Proxies, Alone(p)
      PROVE  Roles'
  <2>1. /\ UNCHANGED <<channel, mine, lock, turn, at>>
        /\ \A q \in Proxies : pxstate'[q] = "none" => pxstate[q] = "none"
    BY <1>0, <1>4 DEF Alone, TypeOK
  <2>2. entries' # entries => lock = None
    BY <1>0, <1>4, AloneIs
  <2> QED BY <1>0, <2>1, <2>2 DEF Roles, pooled
<1>5. ASSUME NEW p \in Proxies, PushOwn(p)
      PROVE  Roles'
  <2>1. /\ UNCHANGED <<channel, entries, mine, lock, turn, pxstate>>
        /\ at[p] = "scan" /\ at'[p] \in {"exit", "push", "wait"} /\ \A t \in Threads \ {p} : at'[t] = at[t]
    BY <1>0, <1>5 DEF PushOwn, Take, TypeOK
  <2>2. lock # None => lock \in Threads \ {p}
    BY <1>0 DEF TypeOK
  <2> QED BY <1>0, <2>1, <2>2 DEF Roles, pooled, Busy
<1>6. ASSUME NEW w \in Workers, PushEvent(w) \/ CheckDeleted(w)
      PROVE  Roles'
  <2>1. /\ UNCHANGED <<channel, entries, mine, lock, turn, pxstate>>
        /\ at[w] \in Busy /\ at'[w] \in Busy /\ \A t \in Threads \ {w} : at'[t] = at[t]
    BY <1>0, <1>6 DEF PushEvent, CheckDeleted, Take, TypeOK, Busy
  <2>2. lock # None => lock \in Threads \ {w}
    BY <1>0, <2>1 DEF TypeOK, Roles, Busy
  <2>3. at'[w] # "exit" /\ at[w] # "none"
    BY <2>1 DEF Busy
  <2> QED BY <1>0, <2>1, <2>2, <2>3 DEF Roles, pooled
<1>7. ASSUME NEW t \in Threads, TimedWake(t)
      PROVE  Roles'
  <2>1. /\ UNCHANGED <<channel, entries, mine, lock, turn, pxstate>>
        /\ \A u \in Threads : at'[u] = at[u] \/ (at[u] = "wait" /\ at'[u] = "scan")
    BY <1>0, <1>7 DEF TimedWake, TypeOK
  <2> QED BY <1>a, <2>1
<1>8. ASSUME NEW t \in Threads, Finish(t)
      PROVE  Roles'
  <2>1. /\ UNCHANGED <<channel, entries, mine, lock, turn>> /\ at[t] = "push"
        /\ \A u \in Threads \ {t} : at'[u] = at[u]
        /\ IF t \in Proxies THEN at'[t] = "scan" ELSE at'[t] \in {"done", "invalid"}
    <3>1. UNCHANGED <<channel, entries, mine, lock, turn>> /\ at[t] = "push"
      BY <1>8 DEF Finish
    <3>2. \/ at' = [at EXCEPT ![t] = IF t \in Proxies THEN "scan" ELSE "done"]
          \/ at' = [at EXCEPT ![t] = IF t \in Proxies THEN "scan" ELSE "invalid"]
      BY <1>8 DEF Finish
    <3>3. at \in [Threads -> {"none", "scan", "wait", "took", "call", "push", "done", "invalid", "exit"}]
      BY <1>0 DEF TypeOK
    <3> QED BY <3>1, <3>2, <3>3
  <2>2. \A q \in Proxies : pxstate'[q] = "none" => pxstate[q] = "none"
    <3>1. pxstate' = pxstate \/ pxstate' = [pxstate EXCEPT ![Served(t)] = "Exception"]
      BY <1>8 DEF Finish
    <3> QED BY <1>0, <3>1 DEF TypeOK
  <2>3. lock # None => lock \in Threads \ {t}
    BY <1>0, <2>1 DEF TypeOK, Roles
  <2> QED BY <1>0, <2>1, <2>2, <2>3 DEF Roles, pooled, Busy
<1>9. ASSUME NEW w \in Workers, Enter(w)
      PROVE  Roles'
  <2>1. UNCHANGED <<channel, entries, mine, pxstate>> /\ at[w] = "scan" /\ lock = None /\ w # None
    BY <1>0, <1>9 DEF Enter
  <2>2. \/ UNCHANGED <<lock, turn>> /\ at'[w] = "wait" /\ \A t \in Threads \ {w} : at'[t] = at[t]
        \/ lock' = w /\ turn' = 1 /\ at' = at /\ entries # {}
    BY <1>0, <1>9 DEF Enter, TypeOK
  <2> QED BY <1>0, <2>1, <2>2 DEF Roles, pooled, Busy
<1>10. ASSUME NEW w \in Workers, Look(w)
      PROVE  Roles'
  <2>1. /\ UNCHANGED <<channel, entries, pxstate>> /\ lock = w /\ w # None /\ at[w] = "scan"
        /\ pooled /\ entries # {} /\ turn \in 1..2
    BY <1>0, <1>10 DEF Look, Roles
  <2>2. Following \in Proxies
    BY <1>0, <2>1, FollowingIsIn DEF TypeOK
  <2>3. \/ /\ at'[w] = "took" /\ mine'[w] \in Proxies /\ lock' = None /\ turn' = 0
           /\ \A v \in Workers \ {w} : mine'[v] = mine[v]
           /\ \A t \in Threads \ {w} : at'[t] = at[t]
        \/ /\ lock' = w /\ turn' \in 1..2 /\ UNCHANGED <<at, mine>>
        \/ /\ at'[w] = "wait" /\ lock' = None /\ turn' = 0 /\ mine' = mine
           /\ \A t \in Threads \ {w} : at'[t] = at[t]
    <3>1. /\ at \in [Threads -> {"none", "scan", "wait", "took", "call", "push", "done", "invalid", "exit"}]
          /\ mine \in [Workers -> Proxies \cup {None}]
      BY <1>0 DEF TypeOK
    <3>2. (IF AtEnd THEN turn + 1 ELSE turn) \in 1..3
      BY <2>1
    <3> QED BY <1>10, <2>1, <2>2, <3>1, <3>2 DEF Look
  <2> QED BY <1>0, <2>1, <2>3 DEF Roles, pooled, Busy
<1>11. ASSUME NEW w \in Workers, Leave(w)
      PROVE  Roles'
  <2>1. /\ UNCHANGED <<channel, entries, pxstate, lock, turn>> /\ at[w] \in {"done", "invalid"} /\ at'[w] = "scan"
        /\ \A t \in Threads \ {w} : at'[t] = at[t]
    BY <1>0, <1>11 DEF Leave, TypeOK
  <2>2. lock # None => lock \in Threads \ {w}
    BY <1>0, <2>1 DEF TypeOK, Roles
  <2>3. \A v \in Workers \ {w} : mine'[v] = mine[v]
    BY <1>0, <1>11 DEF Leave, TypeOK
  <2> QED BY <1>0, <2>1, <2>2, <2>3 DEF Roles, pooled, Busy
<1> QED
  BY <1>1, <1>2, <1>3, <1>4, <1>5, <1>6, <1>7, <1>8, <1>9, <1>10, <1>11 DEF Next, Steps

--------------------------------------------------------------------------------
(* Entries in use                                                           *)

LEMMA SharedNext ==
  ASSUME Inv, Next, TypeOK'
  PROVE  Shared' /\ EntriesKept'
<1> USE OwnWorkers, PushAssumption DEF pool, threads
<1>0. TypeOK /\ Roles /\ Shared /\ EntriesKept
  BY DEF Inv
<1>a. ASSUME UNCHANGED <<mine, inuse>>,
             \A w \in Workers : at'[w] \in Busy <=> at[w] \in Busy,
             entries \cap inuse \subseteq entries', last' # None => last' \in entries'
      PROVE  Shared' /\ EntriesKept'
  <2>1. Shared'
    <3>1. \A p \in inuse : p \in entries' /\ \E w \in Workers : at'[w] \in Busy /\ mine[w] = p
      BY <1>0, <1>a DEF Shared
    <3> QED BY <1>0, <1>a, <3>1 DEF Shared
  <2>2. \A w \in Workers : at'[w] \in Busy => mine'[w] \in entries'
    BY <2>1 DEF Shared
  <2> QED BY <1>a, <2>1, <2>2 DEF EntriesKept, Busy
<1>b. ASSUME \A t \in Threads : at'[t] = at[t] \/ (at[t] = "wait" /\ at'[t] = "scan")
      PROVE  \A w \in Workers : at'[w] \in Busy <=> at[w] \in Busy
  BY <1>b DEF Busy
<1>c. entries \cap inuse \subseteq entries /\ (last # None => last \in entries)
  BY <1>0 DEF EntriesKept
<1>1. ASSUME NEW p \in Proxies, Create(p)
      PROVE  Shared' /\ EntriesKept'
  <2>1. UNCHANGED <<mine, inuse, last>> /\ entries \subseteq entries'
    BY <1>1 DEF Create
  <2>2. CASE pooled
    <3>1. Waiting \in SUBSET Waiting /\ Signal(Waiting)
      BY <1>1, <2>2 DEF Create
    <3>2. \A t \in Threads : at'[t] = at[t] \/ (at[t] = "wait" /\ at'[t] = "scan")
      BY <1>0, <3>1, SignalIs
    <3>3. \A w \in Workers : at'[w] \in Busy <=> at[w] \in Busy
      BY <3>2, <1>b
    <3> QED BY <1>a, <1>c, <2>1, <3>3
  <2>3. CASE ~pooled
    <3>1. \A w \in Workers : at'[w] = at[w]
      BY <1>0, <1>1, <2>3 DEF Create, TypeOK
    <3> QED BY <1>a, <1>c, <2>1, <3>1
  <2> QED BY <2>2, <2>3
<1>2. ASSUME NEW p \in Proxies, Connect(p) \/ Suspend(p) \/ Tick(p) \/ Dispose(p)
      PROVE  Shared' /\ EntriesKept'
  <2>1. UNCHANGED <<entries, mine, inuse, last, at>>
    BY <1>2 DEF Connect, Suspend, Tick, Dispose
  <2> QED BY <1>a, <1>c, <2>1
<1>3. ASSUME NEW p \in Proxies, Resume(p) \/ AddEvent(p) \/ Disconnect(p)
      PROVE  Shared' /\ EntriesKept'
  <2>1. UNCHANGED <<entries, mine, inuse, last>>
    BY <1>3 DEF Resume, AddEvent, Disconnect
  <2>2. \/ SignalPush(p) \/ at' = at \/ Signal(Waiting \cap {p})
    BY <1>3 DEF Resume, AddEvent, Disconnect
  <2>3. Waiting \cap {p} \in SUBSET Waiting
    OBVIOUS
  <2>4. \A t \in Threads : at'[t] = at[t] \/ (at[t] = "wait" /\ at'[t] = "scan")
    BY <1>0, <2>2, <2>3, SignalIs, SignalPushIs
  <2>5. \A w \in Workers : at'[w] \in Busy <=> at[w] \in Busy
    BY <2>4, <1>b
  <2> QED BY <1>a, <1>c, <2>1, <2>5
<1>4. ASSUME NEW p \in Proxies, Alone(p)
      PROVE  Shared' /\ EntriesKept'
  <2>1. UNCHANGED <<mine, inuse, at>>
    BY <1>4 DEF Alone
  <2>2. entries \cap inuse \subseteq entries' /\ (last' # None => last' \in entries')
    BY <1>0, <1>4, AloneIs
  <2> QED BY <1>a, <2>1, <2>2
<1>5. ASSUME NEW p \in Proxies, PushOwn(p)
      PROVE  Shared' /\ EntriesKept'
  <2>1. UNCHANGED <<entries, mine, inuse, last>> /\ \A w \in Workers : at'[w] = at[w]
    BY <1>0, <1>5 DEF PushOwn, Take, TypeOK
  <2> QED BY <1>a, <1>c, <2>1
<1>6. ASSUME NEW w \in Workers, PushEvent(w) \/ CheckDeleted(w)
      PROVE  Shared' /\ EntriesKept'
  <2>1. UNCHANGED <<entries, mine, inuse, last>>
    BY <1>6 DEF PushEvent, CheckDeleted
  <2>2. at[w] \in Busy /\ at'[w] \in Busy /\ \A t \in Threads \ {w} : at'[t] = at[t]
    BY <1>0, <1>6 DEF PushEvent, CheckDeleted, Take, TypeOK, Busy
  <2> QED BY <1>a, <1>c, <2>1, <2>2
<1>7. ASSUME NEW t \in Threads, TimedWake(t)
      PROVE  Shared' /\ EntriesKept'
  <2>1. /\ UNCHANGED <<entries, mine, inuse, last>>
        /\ \A u \in Threads : at'[u] = at[u] \/ (at[u] = "wait" /\ at'[u] = "scan")
    BY <1>0, <1>7 DEF TimedWake, TypeOK
  <2>2. \A w \in Workers : at'[w] \in Busy <=> at[w] \in Busy
    BY <2>1, <1>b
  <2> QED BY <1>a, <1>c, <2>1, <2>2
<1>8. ASSUME NEW t \in Threads, Finish(t)
      PROVE  Shared' /\ EntriesKept'
  <2>1. UNCHANGED <<entries, mine, inuse, last>> /\ at[t] = "push"
    BY <1>8 DEF Finish
  <2>2. \/ at' = [at EXCEPT ![t] = IF t \in Proxies THEN "scan" ELSE "done"]
        \/ at' = [at EXCEPT ![t] = IF t \in Proxies THEN "scan" ELSE "invalid"]
    BY <1>8 DEF Finish
  <2>3. \A w \in Workers : at'[w] \in Busy <=> at[w] \in Busy
    <3>1. at \in [Threads -> {"none", "scan", "wait", "took", "call", "push", "done", "invalid", "exit"}]
      BY <1>0 DEF TypeOK
    <3>2. \A u \in Threads \ {t} : at'[u] = at[u]
      BY <2>2, <3>1
    <3>3. t \in Workers => at'[t] \in {"done", "invalid"}
      BY <2>2, <3>1
    <3> QED BY <2>1, <3>2, <3>3 DEF Busy
  <2> QED BY <1>a, <1>c, <2>1, <2>3
<1>9. ASSUME NEW w \in Workers, Enter(w)
      PROVE  Shared' /\ EntriesKept'
  <2>1. UNCHANGED <<entries, mine, inuse, last>>
    BY <1>9 DEF Enter
  <2>2. \A v \in Workers : at'[v] \in Busy <=> at[v] \in Busy
    BY <1>0, <1>9 DEF Enter, TypeOK, Busy
  <2> QED BY <1>a, <1>c, <2>1, <2>2
<1>10. ASSUME NEW w \in Workers, Look(w)
      PROVE  Shared' /\ EntriesKept'
  <2>1. at[w] = "scan" /\ entries # {} /\ w # None /\ at[w] \notin Busy
    BY <1>0, <1>10 DEF Look, Roles, Busy
  <2>2. Following \in entries /\ UNCHANGED entries /\ last' = Following
    BY <1>0, <1>10, <2>1, FollowingIsIn DEF Look
  <2>3. CASE Available(Following)
    <3>1. /\ at' = [at EXCEPT ![w] = "took"] /\ mine' = [mine EXCEPT ![w] = Following]
          /\ inuse' = inuse \cup {Following} /\ Following \notin inuse
      BY <1>10, <2>3 DEF Look, Available
    <3>2. /\ at'[w] = "took" /\ mine'[w] = Following
          /\ \A v \in Workers \ {w} : at'[v] = at[v] /\ mine'[v] = mine[v]
      BY <1>0, <3>1 DEF TypeOK
    <3>3. at'[w] \in Busy
      BY <3>2 DEF Busy
    <3>4. Shared'
      <4>1. \A v \in Workers : at'[v] \in Busy => mine'[v] \in inuse'
        BY <1>0, <3>1, <3>2 DEF Shared
      <4>2. \A u, v \in Workers : at'[u] \in Busy /\ at'[v] \in Busy /\ mine'[u] = mine'[v] => u = v
        BY <1>0, <3>1, <3>2 DEF Shared
      <4>3. \A p \in inuse : p \in entries /\ \E v \in Workers : at[v] \in Busy /\ mine[v] = p
        BY <1>0 DEF Shared
      <4>4. \A p \in inuse : \E v \in Workers : at'[v] \in Busy /\ mine'[v] = p
        BY <4>3, <3>2, <2>1
      <4>5. \A p \in inuse' : p \in entries'
        BY <2>2, <3>1, <4>3
      <4>6. \A p \in inuse' : \E v \in Workers : at'[v] \in Busy /\ mine'[v] = p
        BY <3>1, <3>2, <3>3, <4>4
      <4> QED BY <4>1, <4>2, <4>5, <4>6 DEF Shared
    <3>5. \A v \in Workers : at'[v] \in Busy => mine'[v] \in entries'
      BY <3>4 DEF Shared
    <3> QED BY <2>2, <3>4, <3>5 DEF EntriesKept, Busy
  <2>4. CASE ~Available(Following)
    <3>1. UNCHANGED <<mine, inuse>> /\ (at' = at \/ at' = [at EXCEPT ![w] = "wait"])
      BY <1>10, <2>4 DEF Look
    <3>2. \A v \in Workers : at'[v] \in Busy <=> at[v] \in Busy
      <4>1. DOMAIN at = Threads /\ w \in Threads
        BY <1>0 DEF TypeOK, Threads
      <4>2. at'[w] \notin Busy /\ \A v \in Workers \ {w} : at'[v] = at[v]
        BY <2>1, <3>1, <4>1 DEF Busy
      <4> QED BY <2>1, <4>2
    <3> QED BY <1>a, <1>c, <2>2, <3>1, <3>2
  <2> QED BY <2>3, <2>4
<1>11. ASSUME NEW w \in Workers, Leave(w)
      PROVE  Shared' /\ EntriesKept'
  <2>1. UNCHANGED <<entries, last>> /\ inuse' = inuse \ {mine[w]} /\ at[w] \in Busy
    BY <1>11 DEF Leave, Busy
  <2>2. /\ at'[w] = "scan" /\ at'[w] \notin Busy
        /\ \A v \in Workers \ {w} : at'[v] = at[v] /\ mine'[v] = mine[v]
    BY <1>0, <1>11 DEF Leave, TypeOK, Busy
  <2>3. Shared'
    <3>1. \A v \in Workers : at'[v] \in Busy => mine'[v] \in inuse'
      BY <1>0, <2>1, <2>2 DEF Shared
    <3>2. \A u, v \in Workers : at'[u] \in Busy /\ at'[v] \in Busy /\ mine'[u] = mine'[v] => u = v
      BY <1>0, <2>1, <2>2 DEF Shared
    <3>3. \A p \in inuse : p \in entries /\ \E v \in Workers : at[v] \in Busy /\ mine[v] = p
      BY <1>0 DEF Shared
    <3>4. \A p \in inuse' : \E v \in Workers : at'[v] \in Busy /\ mine'[v] = p
      BY <2>1, <2>2, <3>3
    <3> QED BY <2>1, <3>1, <3>2, <3>3, <3>4 DEF Shared
  <2>4. \A v \in Workers : at'[v] \in Busy => mine'[v] \in entries'
    BY <2>3 DEF Shared
  <2> QED BY <1>c, <2>1, <2>3, <2>4 DEF EntriesKept, Busy
<1> QED
  BY <1>1, <1>2, <1>3, <1>4, <1>5, <1>6, <1>7, <1>8, <1>9, <1>10, <1>11 DEF Next, Steps

--------------------------------------------------------------------------------
(* One call at a time                                                       *)

\* One thread at most pushes for a proxy.
LEMMA OnePusher ==
  ASSUME TypeOK, Roles, Shared, NEW t \in Threads, NEW u \in Threads,
         at[t] = "push", at[u] = "push", Served(t) = Served(u)
  PROVE  t = u
<1>1. CASE t \in Proxies
  <2>1. ~pooled /\ u \notin Workers
    BY <1>1 DEF Roles
  <2> QED BY <1>1, <2>1, OwnWorkers DEF Served
<1>2. CASE t \in Workers
  <2>1. pooled /\ u \notin Proxies
    BY <1>2 DEF Roles
  <2> QED BY <1>2, <2>1, OwnWorkers DEF Served, Shared, Busy
<1> QED BY <1>1, <1>2, OwnWorkers

\* A step that starts no push for a proxy that another thread may dispose of.
LEMMA DisposalNext ==
  ASSUME Inv, Next, TypeOK'
  PROVE  NoPushAfterDisposal'
<1> USE OwnWorkers DEF pool, threads
<1>0. TypeOK /\ Roles /\ Shared /\ NoPushAfterDisposal
  BY DEF Inv
<1> DEFINE Gone == {"alone", "disposed"}
<1>i. \A t \in Threads : at[t] = "push" => Served(t) \in Proxies /\ pxstate[Served(t)] \notin Gone
  BY <1>0, ServedIs DEF NoPushAfterDisposal, Pushing
<1>a. ASSUME \A t \in Threads : at'[t] = "push" => /\ at[t] = "push" \/ pxstate[Served(t)] = "Connected"
                                                   /\ Served(t)' = Served(t),
             \A p \in Proxies : pxstate'[p] \in Gone => pxstate[p] \in Gone \/ Pushing(p) = {},
             (\A t \in Threads : at'[t] = "push" => at[t] = "push") \/ pxstate' = pxstate
      PROVE  NoPushAfterDisposal'
  <2> SUFFICES ASSUME NEW p \in Proxies, NEW t \in Pushing(p)'
               PROVE  pxstate'[p] \notin Gone
    BY DEF NoPushAfterDisposal
  <2>1. t \in Threads /\ at'[t] = "push" /\ Served(t) = p
    BY <1>a DEF Pushing
  <2>2. CASE at[t] = "push"
    <3>1. t \in Pushing(p) /\ pxstate[p] \notin Gone
      BY <2>1, <2>2, <1>i DEF Pushing
    <3> QED BY <1>a, <3>1
  <2>3. CASE at[t] # "push"
    BY <1>a, <2>1, <2>3
  <2> QED BY <2>2, <2>3
<1>1. ASSUME NEW p \in Proxies,
             Create(p) \/ Connect(p) \/ Suspend(p) \/ Resume(p) \/ AddEvent(p) \/ Tick(p) \/ Disconnect(p)
      PROVE  NoPushAfterDisposal'
  <2>1. mine' = mine
    BY <1>1 DEF Create, Connect, Suspend, Resume, AddEvent, Tick, Disconnect
  <2>2. \A q \in Proxies : pxstate'[q] \in Gone => pxstate[q] \in Gone
    BY <1>0, <1>1 DEF Create, Connect, Suspend, Resume, AddEvent, Tick, Disconnect, TypeOK
  <2>3. \A t \in Threads : at'[t] = "push" => at[t] = "push"
    BY <1>0, <1>1, StartsNoPush
  <2> QED BY <1>a, <2>1, <2>2, <2>3 DEF Served
<1>2. ASSUME NEW p \in Proxies, Alone(p) \/ Dispose(p)
      PROVE  NoPushAfterDisposal'
  <2>1. UNCHANGED <<mine, at>>
    BY <1>2 DEF Alone, Dispose
  <2>2. \A q \in Proxies : pxstate'[q] \in Gone => pxstate[q] \in Gone \/ Pushing(q) = {}
    BY <1>0, <1>2 DEF Alone, Dispose, Bumped, TypeOK
  <2> QED BY <1>a, <2>1, <2>2 DEF Served
<1>3. ASSUME NEW p \in Proxies, PushOwn(p)
      PROVE  NoPushAfterDisposal'
  <2>1. UNCHANGED <<mine, pxstate>> /\ (at'[p] = "push" => Ready(p)) /\ \A t \in Threads \ {p} : at'[t] = at[t]
    BY <1>0, <1>3 DEF PushOwn, Take, TypeOK
  <2>2. Ready(p) => pxstate[Served(p)] = "Connected"
    BY DEF Ready, Served
  <2> QED BY <1>a, <2>1, <2>2 DEF Served
<1>4. ASSUME NEW w \in Workers, PushEvent(w) \/ CheckDeleted(w) \/ Enter(w)
      PROVE  NoPushAfterDisposal'
  <2>1. UNCHANGED <<mine, pxstate>> /\ (at'[w] = "push" => Ready(mine[w]))
        /\ \A t \in Threads \ {w} : at'[t] = at[t]
    BY <1>0, <1>4 DEF PushEvent, CheckDeleted, Enter, Take, TypeOK
  <2>2. Ready(mine[w]) => pxstate[Served(w)] = "Connected"
    BY DEF Ready, Served
  <2> QED BY <1>a, <2>1, <2>2 DEF Served
<1>5. ASSUME NEW t \in Threads, TimedWake(t)
      PROVE  NoPushAfterDisposal'
  <2>1. UNCHANGED <<mine, pxstate>> /\ \A u \in Threads : at'[u] = "push" => at[u] = "push"
    BY <1>0, <1>5 DEF TimedWake, TypeOK
  <2> QED BY <1>a, <2>1 DEF Served
<1>6. ASSUME NEW t \in Threads, Finish(t)
      PROVE  NoPushAfterDisposal'
  <2>1. mine' = mine /\ \A q \in Proxies : pxstate'[q] \in Gone => pxstate[q] \in Gone
    <3>1. mine' = mine /\ (pxstate' = pxstate \/ pxstate' = [pxstate EXCEPT ![Served(t)] = "Exception"])
      BY <1>0, <1>6, FinishIs
    <3>2. pxstate \in [Proxies -> {"none", "NotConnected", "Connected", "Exception", "Disconnected",
                                  "alone", "disposed"}]
      BY <1>0 DEF TypeOK
    <3> QED BY <3>1, <3>2
  <2>2. \A u \in Threads : at'[u] = "push" => at[u] = "push"
    BY <1>0, <1>6, FinishIs DEF TypeOK
  <2> QED BY <1>a, <2>1, <2>2 DEF Served
<1>7. ASSUME NEW w \in Workers, Look(w) \/ Leave(w)
      PROVE  NoPushAfterDisposal'
  <2>1. pxstate' = pxstate /\ at[w] # "push"
    BY <1>0, <1>7, LookIs, LeaveIs DEF Look, Leave
  <2>2. at'[w] # "push" /\ \A t \in Threads \ {w} : at'[t] = at[t] /\ (t \in Workers => mine'[t] = mine[t])
    BY <1>0, <1>7, LookIs, LeaveIs
  <2> QED BY <1>a, <2>1, <2>2 DEF Served
<1> QED
  BY <1>1, <1>2, <1>3, <1>4, <1>5, <1>6, <1>7 DEF Next, Steps

--------------------------------------------------------------------------------
(* The order of events                                                      *)

\* Steps that touch no event and start or end no push.
Still ==
  /\ UNCHANGED <<queue, batch, pushed, sent, refs>>
  /\ \A t \in Threads : at'[t] = "push" <=> at[t] = "push"
  /\ \A t \in Threads : at[t] = "push" => Served(t)' = Served(t)

\* A step that takes events of p for a push by t.
Takes(t, p) ==
  /\ Take(t, p) /\ Ready(p) /\ Served(t) = p
  /\ at[t] = IF t \in Proxies THEN "scan" ELSE "call"
  /\ UNCHANGED <<pxstate, mine, pushed, sent, refs>>

LEMMA WhatSteps ==
  ASSUME Inv, Next
  PROVE  \/ Still
         \/ \E p \in Proxies : AddEvent(p) \/ Dispose(p)
         \/ \E t \in Threads, p \in Proxies : Takes(t, p)
         \/ \E t \in Threads : Finish(t)
<1> USE OwnWorkers DEF pool, threads
<1>0. TypeOK /\ Roles
  BY DEF Inv
<1>1. ASSUME NEW p \in Proxies, Create(p) \/ Connect(p) \/ Suspend(p) \/ Resume(p) \/ Tick(p) \/ Disconnect(p)
      PROVE  Still
  <2>1. UNCHANGED <<queue, batch, pushed, sent, refs, mine>>
    BY <1>1 DEF Create, Connect, Suspend, Resume, Tick, Disconnect
  <2>2. Create(p) => at[p] = "none"
    BY <1>0 DEF Create, Roles
  <2>3. \A t \in Threads : at'[t] = "push" <=> at[t] = "push"
    BY <1>0, <1>1, <2>2, StartsNoPush
  <2> QED BY <2>1, <2>3 DEF Still, Served
<1>2. ASSUME NEW p \in Proxies, Alone(p)
      PROVE  Still
  BY <1>2 DEF Alone, Still, Served
<1>3. ASSUME NEW p \in Proxies, PushOwn(p)
      PROVE  Still \/ Takes(p, p)
  <2>1. UNCHANGED <<pxstate, mine, pushed, sent, refs>> /\ at[p] = "scan" /\ Served(p) = p
    BY <1>3 DEF PushOwn, Served
  <2>2. \/ Take(p, p) /\ Ready(p)
        \/ UNCHANGED <<queue, batch>> /\ \E x \in {"exit", "wait"} : at' = [at EXCEPT ![p] = x]
    BY <1>3 DEF PushOwn
  <2>3. CASE Take(p, p) /\ Ready(p)
    BY <2>1, <2>3 DEF Takes
  <2>4. CASE UNCHANGED <<queue, batch>> /\ \E x \in {"exit", "wait"} : at' = [at EXCEPT ![p] = x]
    <3>1. \A t \in Threads : at'[t] = "push" <=> at[t] = "push"
      BY <1>0, <2>1, <2>4 DEF TypeOK
    <3> QED BY <2>1, <2>4, <3>1 DEF Still, Served
  <2> QED BY <2>2, <2>3, <2>4
<1>4. ASSUME NEW w \in Workers, PushEvent(w)
      PROVE  Still \/ (mine[w] \in Proxies /\ Takes(w, mine[w]))
  <2>1. UNCHANGED <<pxstate, mine, pushed, sent, refs>> /\ at[w] = "call" /\ Served(w) = mine[w]
    BY <1>4 DEF PushEvent, Served
  <2>2. mine[w] \in Proxies
    BY <1>0, <2>1 DEF Roles, Busy
  <2>3. \/ Take(w, mine[w]) /\ Ready(mine[w])
        \/ UNCHANGED <<queue, batch>> /\ \E x \in {"done", "invalid"} : at' = [at EXCEPT ![w] = x]
    BY <1>4 DEF PushEvent
  <2>4. CASE Take(w, mine[w]) /\ Ready(mine[w])
    BY <2>1, <2>2, <2>4 DEF Takes
  <2>5. CASE UNCHANGED <<queue, batch>> /\ \E x \in {"done", "invalid"} : at' = [at EXCEPT ![w] = x]
    <3>1. \A t \in Threads : at'[t] = "push" <=> at[t] = "push"
      BY <1>0, <2>1, <2>5 DEF TypeOK
    <3> QED BY <2>1, <2>5, <3>1 DEF Still, Served
  <2> QED BY <2>3, <2>4, <2>5
<1>5. ASSUME NEW t \in Threads, TimedWake(t)
      PROVE  Still
  <2>1. UNCHANGED <<queue, batch, pushed, sent, refs, mine>>
    BY <1>5 DEF TimedWake
  <2>2. \A u \in Threads : at'[u] = "push" <=> at[u] = "push"
    BY <1>0, <1>5 DEF TimedWake, TypeOK
  <2> QED BY <2>1, <2>2 DEF Still, Served
<1>6. ASSUME NEW w \in Workers, Enter(w) \/ CheckDeleted(w)
      PROVE  Still
  <2>1. UNCHANGED <<queue, batch, pushed, sent, refs, mine>>
    BY <1>6 DEF Enter, CheckDeleted
  <2>2. \A u \in Threads : at'[u] = "push" <=> at[u] = "push"
    BY <1>0, <1>6 DEF Enter, CheckDeleted, TypeOK
  <2> QED BY <2>1, <2>2 DEF Still, Served
<1>7. ASSUME NEW w \in Workers, Look(w) \/ Leave(w)
      PROVE  Still
  <2>1. UNCHANGED <<queue, batch, pushed, sent, refs>>
    BY <1>7 DEF Look, Leave
  <2>2. /\ at[w] # "push" /\ at'[w] # "push"
        /\ \A t \in Threads \ {w} : at'[t] = at[t] /\ (t \in Workers => mine'[t] = mine[t])
    BY <1>0, <1>7, LookIs, LeaveIs
  <2> QED BY <2>1, <2>2 DEF Still, Served
<1> QED
  BY <1>1, <1>2, <1>3, <1>4, <1>5, <1>6, <1>7 DEF Next, Steps

\* What a step that takes events does.
LEMMA TakesIs ==
  ASSUME Inv, NEW p \in Proxies, NEW t \in Threads, Takes(t, p)
  PROVE  /\ batch'[t] \in Seq(Events) /\ queue'[p] \in Seq(Events)
         /\ Rising(batch'[t]) /\ Rising(queue'[p]) /\ Before(batch'[t], queue'[p])
         /\ \A r : Before(r, queue[p]) => Before(r, batch'[t]) /\ Before(r, queue'[p])
         /\ \A k \in Nat : UpTo(queue[p], k) => UpTo(batch'[t], k) /\ UpTo(queue'[p], k)
         /\ ToSet(queue[p]) = ToSet(batch'[t]) \cup ToSet(queue'[p])
         /\ at'[t] = "push"
         /\ \A u \in Threads \ {t} : at'[u] = at[u] /\ batch'[u] = batch[u]
         /\ \A q \in Proxies \ {p} : queue'[q] = queue[q]
         /\ \A u \in Threads : at[u] = "push" => Served(u) # p
<1> USE OwnWorkers
<1>0. TypeOK /\ Roles /\ Shared /\ Ordered
  BY DEF Inv
<1>1. PICK n \in 0..Len(queue[p]) :
        /\ at' = [at EXCEPT ![t] = "push"]
        /\ batch' = [batch EXCEPT ![t] = SubSeq(queue[p], 1, n)]
        /\ queue' = [queue EXCEPT ![p] = SubSeq(queue[p], n + 1, Len(queue[p]))]
  BY <1>0, TakeIs DEF Takes
<1>2. queue[p] \in Seq(Events) /\ Rising(queue[p])
  BY <1>0 DEF TypeOK, Ordered, InLine
<1> DEFINE a == SubSeq(queue[p], 1, n)
           b == SubSeq(queue[p], n + 1, Len(queue[p]))
<1>3. /\ a \in Seq(Events) /\ b \in Seq(Events)
      /\ Rising(a) /\ Rising(b) /\ Before(a, b)
      /\ \A r : Before(r, queue[p]) => Before(r, a) /\ Before(r, b)
      /\ \A k \in Nat : UpTo(queue[p], k) => UpTo(a, k) /\ UpTo(b, k)
      /\ ToSet(queue[p]) = ToSet(a) \cup ToSet(b)
  BY <1>2, Cut
<1>4. batch' = [batch EXCEPT ![t] = a] /\ queue' = [queue EXCEPT ![p] = b]
  BY <1>1
<1> HIDE DEF a, b
<1>5. /\ batch'[t] = a /\ queue'[p] = b /\ at'[t] = "push"
      /\ \A u \in Threads \ {t} : at'[u] = at[u] /\ batch'[u] = batch[u]
      /\ \A q \in Proxies \ {p} : queue'[q] = queue[q]
  BY <1>0, <1>1, <1>4 DEF TypeOK
<1>6. \A u \in Threads : at[u] = "push" => Served(u) # p
  <2> SUFFICES ASSUME NEW u \in Threads, at[u] = "push", Served(u) = p
               PROVE  FALSE
    OBVIOUS
  <2>1. CASE t \in Proxies
    <3>1. ~pooled /\ u \in Proxies /\ t = u
      BY <1>0, <2>1 DEF Takes, Roles, Served
    <3> QED BY <2>1, <3>1 DEF Takes
  <2>2. CASE t \in Workers
    <3>1. pooled /\ u \in Workers /\ at[t] = "call" /\ mine[t] = mine[u]
      BY <1>0, <2>2 DEF Takes, Roles, Served
    <3>2. t = u
      BY <1>0, <2>2, <3>1 DEF Shared, Busy
    <3> QED BY <3>1, <3>2
  <2> QED BY <2>1, <2>2
<1> QED BY <1>3, <1>5, <1>6

LEMMA OrderedNext ==
  ASSUME Inv, Next
  PROVE  Ordered'
<1> USE OwnWorkers DEF pool, threads
<1>0. TypeOK /\ Roles /\ Shared /\ Ordered /\ NoPushAfterDisposal
  BY DEF Inv
<1>i. /\ \A p \in Proxies : /\ InLine(p) /\ queue[p] \in Seq(Events) /\ pushed[p] \in Seq(Events)
                            /\ sent[p] \in Nat
      /\ \A t \in Threads : batch[t] \in Seq(Events)
      /\ \A t \in Threads : at[t] = "push" => Between(t) /\ Served(t) \in Proxies
  BY <1>0, ServedIs DEF TypeOK, Ordered
<1>1. CASE Still
  <2>1. \A p \in Proxies : InLine(p)'
    BY <1>1, <1>i DEF Still, InLine
  <2>2. \A t \in Threads : at'[t] = "push" => Between(t)'
    BY <1>1, <1>i DEF Still, Between
  <2> QED BY <2>1, <2>2 DEF Ordered
<1>2. ASSUME NEW p \in Proxies, AddEvent(p)
      PROVE  Ordered'
  <2>1. /\ sent'[p] = sent[p] + 1 /\ \A q \in Proxies \ {p} : sent'[q] = sent[q]
        /\ UNCHANGED <<batch, pushed, mine>>
    BY <1>0, <1>2 DEF AddEvent, TypeOK
  <2>2. \A t \in Threads : at'[t] = "push" => at[t] = "push"
    BY <1>0, <1>2, StartsNoPush
  <2>3. \A s \in Seq(Events), q \in Proxies : UpTo(s, sent[q]) => UpTo(s, sent'[q])
    <3>1. \A s \in Seq(Events) : \A i \in DOMAIN s : s[i] \in Nat
      BY EventsAreNumbers, LenProperties, ElementOfSeq
    <3>2. \A q \in Proxies : sent[q] \in Nat /\ sent'[q] \in Nat /\ sent[q] <= sent'[q]
      BY <1>i, <2>1
    <3> QED BY <3>1, <3>2 DEF UpTo
  <2>4. CASE pxstate[p] # "Connected"
    <3>1. queue' = queue
      BY <1>2, <2>4 DEF AddEvent
    <3>2. \A q \in Proxies : InLine(q)'
      BY <1>i, <2>1, <2>3, <3>1 DEF InLine
    <3>3. \A t \in Threads : at'[t] = "push" => Between(t)'
      BY <1>i, <2>1, <2>2, <2>3, <3>1 DEF Between, Served
    <3> QED BY <3>2, <3>3 DEF Ordered
  <2>5. CASE pxstate[p] = "Connected"
    <3>1. sent[p] + 1 \in Events /\ Admit(p, sent[p] + 1)
      BY <1>0, <1>2, <2>5, OfferedEvent DEF AddEvent
    <3>8. PICK r, D : Admitted(p, sent[p] + 1, r, D)
      BY <1>0, <3>1, AdmitIs
    <3>2. /\ r \in Seq(Events) /\ queue' = [queue EXCEPT ![p] = Append(r, sent[p] + 1)]
          /\ Rising(r) /\ UpTo(r, sent[p]) /\ \A s : Before(s, queue[p]) => Before(s, r)
      BY <3>8 DEF Admitted
    <3> DEFINE d == Append(r, sent[p] + 1)
    <3>3. /\ d \in Seq(Events) /\ Rising(d) /\ UpTo(d, sent[p] + 1)
          /\ \A s \in Seq(Events) : Before(s, r) /\ UpTo(s, sent[p]) => Before(s, d)
      BY <1>i, <3>1, <3>2, Added
    <3>4. queue'[p] = d /\ \A q \in Proxies \ {p} : queue'[q] = queue[q]
      BY <1>0, <3>2 DEF TypeOK
    <3> HIDE DEF d
    <3>5. \A s \in Seq(Events) : Before(s, queue[p]) /\ UpTo(s, sent[p]) => Before(s, d)
      BY <3>2, <3>3
    <3>6. ASSUME NEW q \in Proxies
          PROVE  InLine(q)'
      <4>1. CASE q = p
        BY <4>1, <1>i, <2>1, <2>3, <3>3, <3>4, <3>5 DEF InLine
      <4>2. CASE q # p
        BY <4>2, <1>i, <2>1, <3>4 DEF InLine
      <4> QED BY <4>1, <4>2
    <3>7. ASSUME NEW t \in Threads, at'[t] = "push"
          PROVE  Between(t)'
      <4>1. Between(t) /\ Served(t) \in Proxies /\ Served(t)' = Served(t) /\ batch[t] \in Seq(Events)
        BY <1>i, <2>1, <2>2, <3>7 DEF Served
      <4>2. CASE Served(t) = p
        BY <4>1, <4>2, <2>1, <2>3, <3>4, <3>5 DEF Between
      <4>3. CASE Served(t) # p
        BY <4>1, <4>3, <2>1, <3>4 DEF Between
      <4> QED BY <4>2, <4>3
    <3> QED BY <3>6, <3>7 DEF Ordered
  <2> QED BY <2>4, <2>5
<1>3. ASSUME NEW p \in Proxies, Dispose(p)
      PROVE  Ordered'
  <2>1. /\ UNCHANGED <<at, batch, mine, sent, pushed>>
        /\ queue'[p] = <<>> /\ \A q \in Proxies \ {p} : queue'[q] = queue[q]
    BY <1>0, <1>3 DEF Dispose, TypeOK
  <2>2. Rising(queue'[p]) /\ UpTo(queue'[p], sent[p]) /\ \A s : Before(s, queue'[p])
    BY <2>1, Nothing
  <2>3. \A q \in Proxies : InLine(q)'
    BY <1>i, <2>1, <2>2 DEF InLine
  <2>4. \A t \in Threads : at'[t] = "push" => Between(t)'
    BY <1>i, <2>1, <2>2 DEF Between, Served
  <2> QED BY <2>3, <2>4 DEF Ordered
<1>4. ASSUME NEW t \in Threads, NEW p \in Proxies, Takes(t, p)
      PROVE  Ordered'
  <2>1. /\ Rising(batch'[t]) /\ Rising(queue'[p]) /\ Before(batch'[t], queue'[p])
        /\ \A r : Before(r, queue[p]) => Before(r, batch'[t]) /\ Before(r, queue'[p])
        /\ \A k \in Nat : UpTo(queue[p], k) => UpTo(batch'[t], k) /\ UpTo(queue'[p], k)
        /\ \A u \in Threads \ {t} : at'[u] = at[u] /\ batch'[u] = batch[u]
        /\ \A q \in Proxies \ {p} : queue'[q] = queue[q]
        /\ \A u \in Threads : at[u] = "push" => Served(u) # p
    BY <1>4, TakesIs
  <2>2. UNCHANGED <<mine, sent, pushed>> /\ Served(t) = p
    BY <1>4 DEF Takes
  <2>3. ASSUME NEW q \in Proxies
        PROVE  InLine(q)'
    BY <1>i, <2>1, <2>2 DEF InLine
  <2>4. ASSUME NEW u \in Threads, at'[u] = "push"
        PROVE  Between(u)'
    <3>1. CASE u = t
      BY <1>i, <2>1, <2>2, <3>1 DEF Between, InLine, Served
    <3>2. CASE u # t
      <4>1. at[u] = "push" /\ Served(u) \in Proxies \ {p} /\ Between(u) /\ Served(u)' = Served(u)
        BY <1>i, <2>1, <2>2, <2>4, <3>2 DEF Served
      <4> QED BY <2>1, <2>2, <3>2, <4>1 DEF Between
    <3> QED BY <3>1, <3>2
  <2> QED BY <2>3, <2>4 DEF Ordered
<1>5. ASSUME NEW t \in Threads, Finish(t)
      PROVE  Ordered'
  <2> DEFINE p == Served(t)
  <2>1. /\ at[t] = "push" /\ mine' = mine /\ at'[t] # "push" /\ \A u \in Threads \ {t} : at'[u] = at[u]
    BY <1>0, <1>5, FinishIs
  <2>2. p \in Proxies /\ Between(t)
    BY <1>i, <2>1
  <2>3. /\ sent' = sent /\ \A u \in Threads \ {t} : batch'[u] = batch[u]
    BY <1>0, <1>5 DEF Finish, TypeOK
  <2>4. (pushed' = pushed \/ pushed' = [pushed EXCEPT ![p] = @ \o batch[t]])
        /\ (queue' = queue \/ queue' = [queue EXCEPT ![p] = <<>>])
    BY <1>5 DEF Finish
  <2> DEFINE j == pushed[p] \o batch[t]
  <2>5. /\ Rising(j)
        /\ \A u : Before(pushed[p], u) /\ Before(batch[t], u) => Before(j, u)
        /\ \A k \in Nat : UpTo(pushed[p], k) /\ UpTo(batch[t], k) => UpTo(j, k)
    BY <1>i, <2>2, Joined DEF InLine, Between
  <2>6. Rising(<<>>) /\ UpTo(<<>>, sent[p]) /\ \A s : Before(s, <<>>)
    BY Nothing
  <2> HIDE DEF j
  <2>7. /\ pushed'[p] \in {pushed[p], j} /\ \A q \in Proxies \ {p} : pushed'[q] = pushed[q]
        /\ queue'[p] \in {queue[p], <<>>} /\ \A q \in Proxies \ {p} : queue'[q] = queue[q]
    <3>1. pushed' = pushed \/ pushed' = [pushed EXCEPT ![p] = j]
      BY <2>4 DEF j
    <3>2. pushed \in [Proxies -> Seq(Events)] /\ queue \in [Proxies -> Seq(Events)]
      BY <1>0 DEF TypeOK
    <3>3. queue'[p] \in {queue[p], <<>>} /\ \A q \in Proxies \ {p} : queue'[q] = queue[q]
      BY <2>2, <2>4, <3>2
    <3>4. pushed'[p] \in {pushed[p], j} /\ \A q \in Proxies \ {p} : pushed'[q] = pushed[q]
      BY <2>2, <3>1, <3>2
    <3> QED BY <3>3, <3>4
  <2>8. /\ Rising(pushed'[p]) /\ UpTo(pushed'[p], sent[p]) /\ Before(pushed'[p], queue[p])
        /\ Rising(queue'[p]) /\ UpTo(queue'[p], sent[p])
        /\ \A s : Before(s, queue[p]) => Before(s, queue'[p])
    BY <1>i, <2>2, <2>5, <2>6, <2>7 DEF InLine, Between
  <2>9. ASSUME NEW q \in Proxies
        PROVE  InLine(q)'
    <3>1. CASE q = p
      BY <2>3, <2>8, <3>1 DEF InLine
    <3>2. CASE q # p
      BY <1>i, <2>3, <2>7, <3>2 DEF InLine
    <3> QED BY <3>1, <3>2
  <2>10. ASSUME NEW u \in Threads, at'[u] = "push"
         PROVE  Between(u)'
    <3>1. u # t /\ at[u] = "push" /\ Served(u)' = Served(u) /\ Between(u)
      BY <1>i, <2>1, <2>10 DEF Served
    <3>2. Served(u) \in Proxies \ {p}
      BY <1>0, <1>i, <2>1, <3>1, OnePusher
    <3> QED BY <2>3, <2>7, <3>1, <3>2 DEF Between
  <2> QED BY <2>9, <2>10 DEF Ordered
<1> QED BY <1>1, <1>2, <1>3, <1>4, <1>5, WhatSteps

--------------------------------------------------------------------------------
(* References                                                               *)

\* If the same proxies hold an event, or one more, or one less, the count of its
\* references follows.
LEMMA HoldersFinite ==
  ASSUME NEW e
  PROVE  IsFiniteSet(Holders(e)) /\ Cardinality(Holders(e)) \in Nat
<1>1. Holders(e) \subseteq Proxies
  BY DEF Holders
<1> QED BY <1>1, OwnWorkers, FS_Subset, FS_CardinalityType

\* A step after which p holds no event of D any more, and all else is held as
\* before.
LEMMA Given ==
  ASSUME RefsExact, NEW p \in Proxies, NEW D,
         \A e \in Events : refs'[e] = IF e \in D THEN refs[e] - 1 ELSE refs[e],
         \A e \in Events : /\ e \in D => p \in Holders(e) /\ Holders(e)' = Holders(e) \ {p}
                           /\ e \notin D => Holders(e)' = Holders(e)
  PROVE  RefsExact'
<1> SUFFICES ASSUME NEW e \in Events
             PROVE  refs'[e] = Cardinality(Holders(e)')
  BY DEF RefsExact
<1> DEFINE H == Holders(e)
<1>1. IsFiniteSet(H) /\ Cardinality(H) \in Nat /\ refs[e] = Cardinality(H)
  BY HoldersFinite DEF RefsExact
<1>2. CASE e \in D
  <2>1. p \in H /\ Holders(e)' = H \ {p} /\ refs'[e] = refs[e] - 1
    BY <1>2
  <2> HIDE DEF H
  <2>2. Cardinality(H \ {p}) = Cardinality(H) - 1
    BY <1>1, <2>1, FS_RemoveElement
  <2> QED BY <1>1, <2>1, <2>2
<1>3. CASE e \notin D
  BY <1>1, <1>3
<1> QED BY <1>2, <1>3

LEMMA RefsNext ==
  ASSUME Inv, Next
  PROVE  RefsExact' /\ refs' \in [Events -> Nat]
<1> USE OwnWorkers DEF pool, threads
<1>0. TypeOK /\ Roles /\ Shared /\ Ordered /\ NoPushAfterDisposal /\ RefsExact
  BY DEF Inv
<1>i. /\ \A p \in Proxies : /\ InLine(p) /\ queue[p] \in Seq(Events) /\ sent[p] \in Nat
      /\ \A t \in Threads : batch[t] \in Seq(Events)
      /\ \A t \in Threads : at[t] = "push" => Between(t) /\ Served(t) \in Proxies
      /\ refs \in [Events -> Nat]
  BY <1>0, ServedIs DEF TypeOK, Ordered
<1>a. ASSUME refs' \in [Events -> Int], RefsExact'
      PROVE  refs' \in [Events -> Nat]
  <2>1. \A e \in Events : refs'[e] = Cardinality(Holders(e)')
    BY <1>a DEF RefsExact
  <2>2. \A e \in Events : Cardinality(Holders(e)') \in Nat
    <3> SUFFICES ASSUME NEW e \in Events
                 PROVE  Cardinality(Holders(e)') \in Nat
      OBVIOUS
    <3>1. Holders(e)' \subseteq Proxies
      BY DEF Holders
    <3> QED BY <3>1, FS_Subset, FS_CardinalityType
  <2> QED BY <1>a, <2>1, <2>2
<1>1. CASE Still
  <2>1. \A p \in Proxies, e \in Events : InHand(p, e)' <=> InHand(p, e)
    BY <1>1 DEF Still, InHand, Pushing
  <2>2. \A e \in Events : Holders(e)' = Holders(e)
    BY <1>1, <2>1 DEF Still, Holders
  <2> QED BY <1>0, <1>1, <1>i, <2>2 DEF Still, RefsExact
<1>2. ASSUME NEW p \in Proxies, AddEvent(p)
      PROVE  RefsExact' /\ refs' \in [Events -> Nat]
  <2>1. UNCHANGED <<batch, mine>> /\ \A t \in Threads : at'[t] = "push" <=> at[t] = "push"
    <3>1. ~Create(p)
      BY <1>2 DEF AddEvent, Create
    <3> QED BY <1>0, <1>2, <3>1, StartsNoPush DEF AddEvent
  <2>2. \A q \in Proxies, e \in Events : InHand(q, e)' <=> InHand(q, e)
    BY <2>1 DEF InHand, Pushing, Served
  <2>3. CASE pxstate[p] # "Connected"
    <3>1. queue' = queue /\ refs' = refs
      BY <1>2, <2>3 DEF AddEvent
    <3>2. \A e \in Events : Holders(e)' = Holders(e)
      BY <2>2, <3>1 DEF Holders
    <3> QED BY <1>0, <1>i, <3>1, <3>2 DEF RefsExact
  <2>4. CASE pxstate[p] = "Connected"
    <3> DEFINE n == sent[p] + 1
    <3>1. n \in Events /\ Admit(p, n)
      BY <1>0, <1>2, <2>4, OfferedEvent DEF AddEvent
    <3>0. n = sent[p] + 1
      OBVIOUS
    <3> HIDE DEF n
    <3>7. PICK r, D : Admitted(p, n, r, D)
      BY <1>0, <3>0, <3>1, AdmitIs
    <3>2. /\ r \in Seq(Events) /\ queue' = [queue EXCEPT ![p] = Append(r, n)]
          /\ Rising(r) /\ UpTo(r, sent[p])
          /\ ToSet(r) = ToSet(queue[p]) \ D /\ D \subseteq ToSet(queue[p]) /\ n \notin D
          /\ refs' \in [Events -> Int]
          /\ \A f \in Events : refs'[f] = IF f = n THEN refs[f] + 1
                                          ELSE IF f \in D THEN refs[f] - 1 ELSE refs[f]
      BY <3>7 DEF Admitted
    <3>3. ToSet(queue'[p]) = (ToSet(queue[p]) \ D) \cup {n} /\ \A q \in Proxies \ {p} : queue'[q] = queue[q]
      <4>1. ToSet(Append(r, n)) = ToSet(r) \cup {n}
        BY <1>i, <3>0, <3>1, <3>2, Added
      <4>2. queue'[p] = Append(r, n) /\ \A q \in Proxies \ {p} : queue'[q] = queue[q]
        BY <1>0, <3>2 DEF TypeOK
      <4> QED BY <3>2, <4>1, <4>2
    <3>4. n \notin ToSet(queue[p]) /\ ~InHand(p, n) /\ \A e \in D : ~InHand(p, e)
      <4>1. n \notin ToSet(queue[p])
        BY <1>i, <3>0 DEF InLine, UpTo, ToSet
      <4>2. ~InHand(p, n)
        BY <1>i, <3>0 DEF InHand, Pushing, Between, UpTo, ToSet
      <4>3. ASSUME NEW e \in D, InHand(p, e)
            PROVE  FALSE
        <5>1. PICK t \in Threads : at[t] = "push" /\ Served(t) = p /\ e \in ToSet(batch[t])
          BY <4>3 DEF InHand, Pushing
        <5>2. Before(batch[t], queue[p]) /\ e \in ToSet(queue[p])
          BY <1>i, <3>2, <5>1 DEF Between
        <5>3. PICK i \in DOMAIN batch[t], j \in DOMAIN queue[p] : e = batch[t][i] /\ e = queue[p][j]
          BY <5>1, <5>2 DEF ToSet
        <5>4. e < e
          BY <5>2, <5>3 DEF Before
        <5>5. batch[t] \in Seq(Events)
          BY <1>i
        <5>6. e \in Events
          <6>1. PICK k \in DOMAIN batch[t] : e = batch[t][k]
            BY <5>3
          <6>2. \A m \in DOMAIN batch[t] : batch[t][m] \in Events
            BY <5>5, LenProperties, ElementOfSeq
          <6> QED BY <6>1, <6>2
        <5> QED BY <5>4, <5>6, EventsAreNumbers
      <4> QED BY <4>1, <4>2, <4>3
    <3>5. ASSUME NEW e \in Events
          PROVE  refs'[e] = Cardinality(Holders(e)')
      <4> DEFINE H == Holders(e)
      <4>1. IsFiniteSet(H) /\ Cardinality(H) \in Nat /\ refs[e] = Cardinality(H)
        BY <1>0, HoldersFinite DEF RefsExact
      <4>2. CASE e = n
        <5>1. p \notin H /\ Holders(e)' = H \cup {p}
          BY <2>2, <3>3, <3>4, <4>2 DEF Holders
        <5> HIDE DEF H
        <5>2. Cardinality(H \cup {p}) = Cardinality(H) + 1
          BY <4>1, <5>1, FS_AddElement
        <5> QED BY <3>2, <4>1, <4>2, <5>1, <5>2
      <4>3. CASE e # n /\ e \in D
        <5>1. p \in H /\ Holders(e)' = H \ {p}
          BY <2>2, <3>2, <3>3, <3>4, <4>3 DEF Holders
        <5> HIDE DEF H
        <5>2. Cardinality(H \ {p}) = Cardinality(H) - 1
          BY <4>1, <5>1, FS_RemoveElement
        <5> QED BY <3>2, <4>1, <4>3, <5>1, <5>2
      <4>4. CASE e # n /\ e \notin D
        <5>1. Holders(e)' = H
          BY <2>2, <3>3, <4>4 DEF Holders
        <5> QED BY <3>2, <4>1, <4>4, <5>1
      <4> QED BY <4>2, <4>3, <4>4
    <3>6. RefsExact'
      BY <3>5 DEF RefsExact
    <3> QED BY <1>a, <3>2, <3>6
  <2> QED BY <2>3, <2>4
<1>3. ASSUME NEW p \in Proxies, Dispose(p)
      PROVE  RefsExact' /\ refs' \in [Events -> Nat]
  <2>1. /\ UNCHANGED <<at, batch, mine>> /\ refs' = Released(queue[p]) /\ pxstate[p] = "alone"
        /\ queue'[p] = <<>> /\ \A q \in Proxies \ {p} : queue'[q] = queue[q]
    BY <1>0, <1>3 DEF Dispose, TypeOK
  <2>2. Pushing(p) = {}
    BY <1>0, <2>1 DEF NoPushAfterDisposal
  <2>3. \A q \in Proxies, e \in Events : InHand(q, e)' <=> InHand(q, e)
    BY <2>1 DEF InHand, Pushing, Served
  <2>4. \A e : ~InHand(p, e)
    BY <2>2 DEF InHand
  <2>5. ToSet(queue'[p]) = {}
    BY <2>1, Nothing
  <2> DEFINE D == ToSet(queue[p])
  <2>6. \A e \in Events : /\ e \in D => p \in Holders(e) /\ Holders(e)' = Holders(e) \ {p}
                          /\ e \notin D => Holders(e)' = Holders(e)
    BY <2>1, <2>3, <2>4, <2>5 DEF Holders
  <2>7. refs' \in [Events -> Int] /\ \A e \in Events : refs'[e] = IF e \in D THEN refs[e] - 1 ELSE refs[e]
    BY <1>i, <2>1 DEF Released
  <2> HIDE DEF D
  <2>8. RefsExact'
    BY <1>0, <2>6, <2>7, Given
  <2> QED BY <1>a, <2>7, <2>8
<1>4. ASSUME NEW t \in Threads, NEW p \in Proxies, Takes(t, p)
      PROVE  RefsExact' /\ refs' \in [Events -> Nat]
  <2>1. /\ ToSet(queue[p]) = ToSet(batch'[t]) \cup ToSet(queue'[p]) /\ at'[t] = "push"
        /\ \A u \in Threads \ {t} : at'[u] = at[u] /\ batch'[u] = batch[u]
        /\ \A q \in Proxies \ {p} : queue'[q] = queue[q]
        /\ \A u \in Threads : at[u] = "push" => Served(u) # p
    BY <1>4, TakesIs
  <2>2. mine' = mine /\ refs' = refs /\ Served(t) = p /\ at[t] # "push"
    BY <1>4 DEF Takes
  <2>3. \A q \in Proxies \ {p}, e \in Events : InHand(q, e)' <=> InHand(q, e)
    BY <2>1, <2>2 DEF InHand, Pushing, Served
  <2>4. \A e \in Events : ~InHand(p, e) /\ (InHand(p, e)' <=> e \in ToSet(batch'[t]))
    BY <2>1, <2>2 DEF InHand, Pushing, Served
  <2>5. \A e \in Events : Holders(e)' = Holders(e)
    BY <2>1, <2>3, <2>4 DEF Holders
  <2> QED BY <1>0, <1>i, <2>2, <2>5 DEF RefsExact
<1>5. ASSUME NEW t \in Threads, Finish(t)
      PROVE  RefsExact' /\ refs' \in [Events -> Nat]
  <2>1. /\ at[t] = "push" /\ mine' = mine /\ at'[t] # "push" /\ \A u \in Threads \ {t} : at'[u] = at[u]
    BY <1>0, <1>5, FinishIs
  <2>2. PICK p \in Proxies : p = Served(t)
    BY <1>i, <2>1
  <2>3. \A u \in Threads \ {t} : batch'[u] = batch[u]
    BY <1>0, <1>5 DEF Finish, TypeOK
  <2>4. \A u \in Threads : at[u] = "push" /\ u # t => Served(u) # p
    BY <1>0, <2>1, <2>2, OnePusher
  <2>5. \A q \in Proxies \ {p}, e \in Events : InHand(q, e)' <=> InHand(q, e)
    BY <2>1, <2>2, <2>3 DEF InHand, Pushing, Served
  <2>6. \A e \in Events : ~InHand(p, e)' /\ (InHand(p, e) <=> e \in ToSet(batch[t]))
    BY <2>1, <2>2, <2>4 DEF InHand, Pushing, Served
  <2>7. \A e \in ToSet(batch[t]) : e \notin ToSet(queue[p])
    <3> SUFFICES ASSUME NEW e \in ToSet(batch[t]), e \in ToSet(queue[p])
                 PROVE  FALSE
      OBVIOUS
    <3>1. Before(batch[t], queue[p]) /\ e \in Nat
      <4>1. \A i \in DOMAIN batch[t] : batch[t][i] \in Nat
        <5>1. batch[t] \in Seq(Events)
          BY <1>i
        <5>2. \A i \in DOMAIN batch[t] : batch[t][i] \in Events
          BY <5>1, LenProperties, ElementOfSeq
        <5> QED BY <5>2, EventsAreNumbers
      <4> QED BY <1>i, <2>1, <2>2, <4>1 DEF Between, ToSet
    <3>2. e < e
      BY <3>1 DEF Before, ToSet
    <3> QED BY <3>1, <3>2
  <2>8. \/ queue' = queue /\ refs' = Released(batch[t])
        \/ queue' = [queue EXCEPT ![p] = <<>>] /\ refs' = Released(batch[t] \o queue[p])
    BY <1>5, <2>2 DEF Finish
  <2> DEFINE B == ToSet(batch[t])
             Q == ToSet(queue[p])
             Gives(D) == /\ refs' \in [Events -> Int]
                         /\ \A e \in Events : refs'[e] = IF e \in D THEN refs[e] - 1 ELSE refs[e]
                         /\ B \subseteq D /\ D \subseteq B \cup Q /\ ToSet(queue'[p]) = Q \ D
                         /\ \A q \in Proxies \ {p} : queue'[q] = queue[q]
  <2>9. ASSUME queue' = queue, refs' = Released(batch[t])
        PROVE  \E D : Gives(D)
    <3>1. Q = Q \ B
      BY <2>7
    <3>2. Gives(B)
      BY <1>i, <2>9, <3>1 DEF Released
    <3> HIDE DEF Gives
    <3> QED BY <3>2
  <2>10. ASSUME queue' = [queue EXCEPT ![p] = <<>>], refs' = Released(batch[t] \o queue[p])
         PROVE  \E D : Gives(D)
    <3>1. ToSet(batch[t] \o queue[p]) = B \cup Q
      BY <1>i, <2>1, <2>2, Joined DEF Between, InLine
    <3>2. ToSet(queue'[p]) = {} /\ \A q \in Proxies \ {p} : queue'[q] = queue[q]
      BY <1>0, <2>2, <2>10, Nothing DEF TypeOK
    <3>3. Gives(B \cup Q)
      BY <1>i, <2>10, <3>1, <3>2 DEF Released
    <3> HIDE DEF Gives
    <3> QED BY <3>3
  <2>11. PICK D : Gives(D)
    <3> HIDE DEF Gives
    <3> QED BY <2>8, <2>9, <2>10
  <2>12. ASSUME NEW e \in Events
         PROVE  /\ e \in D => p \in Holders(e) /\ Holders(e)' = Holders(e) \ {p}
                /\ e \notin D => Holders(e)' = Holders(e)
    <3>1. \A q \in Proxies \ {p} : q \in Holders(e)' <=> q \in Holders(e)
      BY <2>5, <2>11 DEF Holders
    <3>2. p \in Holders(e)' <=> e \in Q \ D
      BY <2>2, <2>6, <2>11 DEF Holders
    <3>3. p \in Holders(e) <=> e \in B \cup Q
      BY <2>2, <2>6 DEF Holders
    <3>4. Holders(e) \subseteq Proxies /\ Holders(e)' \subseteq Proxies
      BY DEF Holders
    <3>5. B \subseteq D /\ D \subseteq B \cup Q
      BY <2>11
    <3> HIDE DEF B, Q
    <3> QED BY <3>1, <3>2, <3>3, <3>4, <3>5
  <2>13. /\ refs' \in [Events -> Int]
         /\ \A e \in Events : refs'[e] = IF e \in D THEN refs[e] - 1 ELSE refs[e]
    BY <2>11
  <2> HIDE DEF Gives
  <2>14. RefsExact'
    BY <1>0, <2>2, <2>12, <2>13, Given
  <2> QED BY <1>a, <2>13, <2>14
<1> QED BY <1>1, <1>2, <1>3, <1>4, <1>5, WhatSteps

--------------------------------------------------------------------------------
(* Theorems                                                                 *)

LEMMA InvInit == Init => Inv
<1> SUFFICES ASSUME Init
             PROVE  Inv
  OBVIOUS
<1> USE OwnWorkers, PushAssumption
<1>1. TypeOK
  <2>1. /\ <<>> \in Seq(Events) /\ Len(<<>>) = 0
        /\ queue = [p \in Proxies |-> <<>>] /\ pushed = [p \in Proxies |-> <<>>]
        /\ batch = [t \in Threads |-> <<>>]
    BY Nothing DEF Init
  <2>2. /\ queue \in [Proxies -> Seq(Events)] /\ pushed \in [Proxies -> Seq(Events)]
        /\ batch \in [Threads -> Seq(Events)] /\ \A p \in Proxies : Len(queue[p]) = 0
    BY <2>1
  <2>3. at \in [Threads -> {"none", "scan", "wait", "took", "call", "push", "done", "invalid", "exit"}]
    BY DEF Init
  <2>4. \A p \in Proxies : /\ sent[p] \in 0..LastEvent[p]
                           /\ MaxLength > 0 => Len(queue[p]) <= MaxLength
    BY <2>2 DEF Init
  <2>5. /\ channel \in Channels
        /\ pxstate \in [Proxies -> {"none", "NotConnected", "Connected", "Exception", "Disconnected",
                                    "alone", "disposed"}]
        /\ active \subseteq Proxies /\ passed \subseteq Proxies
        /\ sent \in [Proxies -> Nat] /\ refs \in [Events -> Nat]
    BY DEF Init
  <2>6. /\ entries \subseteq Proxies /\ deled \subseteq Proxies /\ inuse \subseteq Proxies
        /\ made \in Nat /\ born \in [Proxies -> 0..made]
        /\ last \in Proxies \cup {None} /\ ndeleted \in Nat
        /\ lock \in Workers \cup {None} /\ turn \in 0..2
        /\ mine \in [Workers -> Proxies \cup {None}] /\ timed \subseteq Threads
    BY DEF Init
  <2> QED BY <2>2, <2>3, <2>4, <2>5, <2>6 DEF TypeOK
<1>2. \A t \in Threads : at[t] \in {"none", "scan"} /\ (at[t] = "scan" => t \in channel.pool)
  BY DEF Init
<1>3. Roles
  <2>1. channel.pool \subseteq Workers
    BY DEF Init
  <2> QED BY <1>2, <2>1 DEF Init, Roles, Busy, pooled
<1>4. Shared /\ EntriesKept /\ NoPushAfterDisposal
  BY <1>2 DEF Init, Shared, EntriesKept, NoPushAfterDisposal, Pushing, Busy
<1>5. Ordered
  <2>1. \A p \in Proxies : pushed[p] = <<>> /\ queue[p] = <<>>
    BY DEF Init
  <2> QED BY <1>2, <2>1, Nothing DEF Ordered, InLine
<1>6. RefsExact
  <2>1. \A p \in Proxies : ToSet(queue[p]) = {}
    BY Nothing DEF Init
  <2>2. \A e : Holders(e) = {}
    BY <1>2, <2>1 DEF Holders, InHand, Pushing
  <2> QED BY <2>2, FS_EmptySet DEF Init, RefsExact
<1> QED BY <1>1, <1>3, <1>4, <1>5, <1>6 DEF Inv

LEMMA InvNext == Inv /\ [Next]_vars => Inv'
<1> SUFFICES ASSUME Inv, [Next]_vars
             PROVE  Inv'
  OBVIOUS
<1>1. CASE Next
  <2>1. RefsExact' /\ refs' \in [Events -> Nat]
    BY <1>1, RefsNext
  <2>2. TypeOK'
    BY <1>1, <2>1, TypesNext
  <2>3. Roles' /\ Shared' /\ EntriesKept' /\ NoPushAfterDisposal' /\ Ordered'
    BY <1>1, <2>2, RolesNext, SharedNext, DisposalNext, OrderedNext
  <2> QED BY <2>1, <2>2, <2>3 DEF Inv
<1>2. CASE UNCHANGED vars
  <2>1. UNCHANGED <<channel, pxstate, queue, active, passed, sent, refs, entries, deled, inuse, made, born,
                    last, ndeleted, lock, turn, at, mine, batch, timed, pushed>>
    BY <1>2 DEF vars, pool, threads
  <2>2. /\ TypeOK' /\ Roles' /\ Shared'
        /\ EntriesKept' /\ NoPushAfterDisposal'
    <3>1. TypeOK'
      BY <2>1 DEF Inv, TypeOK
    <3>2. Roles'
      BY <2>1 DEF Inv, Roles, pooled
    <3>3. Shared' /\ EntriesKept'
      BY <2>1 DEF Inv, Shared, EntriesKept
    <3>4. NoPushAfterDisposal'
      BY <2>1 DEF Inv, NoPushAfterDisposal, Pushing, Served, pooled
    <3> QED BY <3>1, <3>2, <3>3, <3>4
  <2>3. Ordered'
    BY <2>1 DEF Inv, Ordered, InLine, Between, Served
  <2>4. RefsExact'
    BY <2>1 DEF Inv, RefsExact, Holders, InHand, Pushing, Served
  <2> QED BY <2>2, <2>3, <2>4 DEF Inv
<1> QED BY <1>1, <1>2

\* The inductive invariant: which threads serve which proxies, that a used entry has
\* one user and stays, that what was pushed comes before what is being pushed and
\* that before what is queued, and that references are counted.
THEOREM Invariance == Spec => []Inv
BY InvInit, InvNext, PTL DEF Spec

\* No variable leaves its type: queues stay within their limit, no count of
\* references and no turn of the list out of its range.
THEOREM TypeCorrect == Spec => []TypeOK
<1>1. Inv => TypeOK
  BY DEF Inv
<1> QED BY <1>1, Invariance, PTL

\* For any number of workers and proxies, a consumer gets its events in the order
\* in which they came, none twice (push_event() and _add_event()).
THEOREM PushedInOrder == Spec => []InOrder
<1>1. Inv => InOrder
  BY DEF Inv, Ordered, InLine, Rising, InOrder
<1> QED BY <1>1, Invariance, PTL

\* No collection (_gcollect()) frees the entry of a proxy that a worker serves without
\* the lock, or the one the pool remembers.
THEOREM UsedEntriesKept == Spec => []EntriesKept
<1>1. Inv => EntriesKept
  BY DEF Inv
<1> QED BY <1>1, Invariance, PTL

\* Nobody pushes for a proxy that was taken out of its admin or disposed of.
THEOREM DisposalWaits == Spec => []NoPushAfterDisposal
<1>1. Inv => NoPushAfterDisposal
  BY DEF Inv
<1> QED BY <1>1, Invariance, PTL

\* An event has exactly one reference for each proxy that has it queued or is being
\* served with it, whatever is dropped, pushed, cleared by a failure or disposed of.
THEOREM ReferencesExact == Spec => []RefsExact
<1>1. Inv => RefsExact
  BY DEF Inv
<1> QED BY <1>1, Invariance, PTL
===================
