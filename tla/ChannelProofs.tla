------------------------------ MODULE ChannelProofs ----------------------------
(***************************************************************************)
(* The two pools of threads of a channel.  The admin threads: what the     *)
(* operations of RDI_SafeList do to the elements of a list and to those    *)
(* its iterator is still to give, for lists of any length; and what holds  *)
(* of the groups of consumer admins for any number of groups, threads,     *)
(* admins and events.  The proxy threads: the hand-over to them, for any   *)
(* number of threads, admins and events.                                   *)
(***************************************************************************)
EXTENDS AdminGroups, ProxyDispatch, SequenceTheorems, FiniteSetTheorems, TLAPS

--------------------------------------------------------------------------------
(* The list *)

Record(S) == [elts : Seq(S), next : Nat, marker : BOOLEAN]

\* What every operation keeps: no element is twice in the list, and the
\* iterator is at an element or, before the null and in an empty list, at 0.
WellFormed(l, S) ==
  /\ l \in Record(S)
  /\ \A i, j \in 1..Len(l.elts) : l.elts[i] = l.elts[j] => i = j
  /\ l.next < Len(l.elts) \/ l.next = 0
  /\ l.marker => l.next = 0

\* The sequence without its i-th element.
LEMMA WithoutOne ==
  ASSUME NEW S, NEW s \in Seq(S), NEW i \in 1..Len(s)
  PROVE  /\ RemoveAt(s, i) \in Seq(S)
         /\ Len(RemoveAt(s, i)) = Len(s) - 1
         /\ \A j \in 1..(Len(s) - 1) : RemoveAt(s, i)[j] = IF j < i THEN s[j] ELSE s[j + 1]
<1> DEFINE a == SubSeq(s, 1, i - 1)
           b == SubSeq(s, i + 1, Len(s))
<1>1. Len(s) \in Nat
  BY LenProperties
<1>2. /\ a \in Seq(S) /\ Len(a) = i - 1
      /\ \A j \in 1..(i - 1) : a[j] = s[j]
  <2>1. \A j \in 1..(i - 1) : s[j] \in S
    BY <1>1, ElementOfSeq
  <2> QED
    BY <1>1, <2>1, SubSeqProperties
<1>3. /\ b \in Seq(S) /\ Len(b) = Len(s) - i
      /\ \A j \in 1..(Len(s) - i) : b[j] = s[i + j]
  <2>1. \A j \in (i + 1)..Len(s) : s[j] \in S
    BY <1>1, ElementOfSeq
  <2> QED
    BY <1>1, <2>1, SubSeqProperties
<1>4. RemoveAt(s, i) = a \o b
  BY DEF RemoveAt
<1> HIDE DEF a, b
<1>5. /\ a \o b \in Seq(S) /\ Len(a \o b) = Len(a) + Len(b)
      /\ \A j \in 1..(Len(a) + Len(b)) : (a \o b)[j] = IF j <= Len(a) THEN a[j] ELSE b[j - Len(a)]
  BY <1>2, <1>3, ConcatProperties
<1> QED
  BY <1>1, <1>2, <1>3, <1>4, <1>5

LEMMA AppendedOne ==
  ASSUME NEW S, NEW s \in Seq(S), NEW x \in S
  PROVE  /\ Append(s, x) \in Seq(S) /\ Len(Append(s, x)) = Len(s) + 1
         /\ \A j \in 1..(Len(s) + 1) : Append(s, x)[j] = IF j = Len(s) + 1 THEN x ELSE s[j]
BY AppendProperties, LenProperties

LEMMA DueAreMembers ==
  ASSUME NEW S, NEW l, WellFormed(l, S)
  PROVE  Due(l) \subseteq Members(l) /\ Members(l) \subseteq S
<1>1. l.elts \in Seq(S) /\ l.next \in Nat /\ Len(l.elts) \in Nat
  BY LenProperties DEF WellFormed, Record
<1>2. Members(l) \subseteq S
  BY <1>1, ElementOfSeq DEF Members
<1>3. \A i \in (l.next + 1)..Len(l.elts) : i \in 1..Len(l.elts)
  BY <1>1
<1> QED
  BY <1>2, <1>3 DEF Due, Members

LEMMA DrainedIsEmpty ==
  ASSUME NEW S
  PROVE  WellFormed(Drained, S) /\ Members(Drained) = {} /\ Due(Drained) = {}
<1>1. /\ Drained.elts = <<>> /\ Drained.next = 0 /\ Drained.marker = FALSE
      /\ <<>> \in Seq(S) /\ Len(<<>>) = 0
  BY EmptySeq DEF Drained
<1>2. Drained \in Record(S)
  BY <1>1 DEF Drained, Record
<1> QED
  BY <1>1, <1>2 DEF WellFormed, Members, Due

\* insert(): the element joins the list and the current iteration.
LEMMA InsertJoins ==
  ASSUME NEW S, NEW l, WellFormed(l, S), NEW x \in S, x \notin Members(l)
  PROVE  /\ WellFormed(ListInsert(l, x), S)
         /\ Members(ListInsert(l, x)) = Members(l) \cup {x}
         /\ Due(ListInsert(l, x)) = Due(l) \cup {x}
<1> DEFINE m == ListInsert(l, x)
<1>1. l \in Record(S) /\ l.elts \in Seq(S) /\ l.next \in Nat /\ l.marker \in BOOLEAN /\ Len(l.elts) \in Nat
  BY LenProperties DEF WellFormed, Record
<1>2. /\ m.elts \in Seq(S) /\ Len(m.elts) = Len(l.elts) + 1
      /\ \A j \in 1..(Len(l.elts) + 1) : m.elts[j] = IF j = Len(l.elts) + 1 THEN x ELSE l.elts[j]
  BY <1>1, AppendedOne DEF ListInsert
<1>3. /\ m.next = IF l.marker THEN Len(l.elts) ELSE l.next
      /\ m.marker = FALSE /\ m \in Record(S)
  BY <1>1, <1>2 DEF ListInsert, Record
<1> HIDE DEF m
<1>4. \A j \in 1..Len(l.elts) : l.elts[j] # x
  BY DEF Members
<1>5. WellFormed(m, S)
  <2>1. \A i, j \in 1..Len(m.elts) : m.elts[i] = m.elts[j] => i = j
    <3> SUFFICES ASSUME NEW i \in 1..(Len(l.elts) + 1), NEW j \in 1..(Len(l.elts) + 1),
                        m.elts[i] = m.elts[j]
                 PROVE  i = j
      BY <1>2
    <3>1. CASE i = Len(l.elts) + 1
      BY <3>1, <1>1, <1>2, <1>4
    <3>2. CASE j = Len(l.elts) + 1
      BY <3>2, <1>1, <1>2, <1>4
    <3>3. CASE i \in 1..Len(l.elts) /\ j \in 1..Len(l.elts)
      <4>1. l.elts[i] = l.elts[j]
        BY <3>3, <1>1, <1>2
      <4> QED
        BY <4>1, <3>3 DEF WellFormed
    <3> QED
      BY <3>1, <3>2, <3>3, <1>1
  <2>2. m.next < Len(m.elts)
    BY <1>1, <1>2, <1>3 DEF WellFormed
  <2> QED
    BY <1>3, <2>1, <2>2 DEF WellFormed
<1>6. Members(m) = Members(l) \cup {x}
  <2>1. ASSUME NEW y \in Members(m) PROVE y \in Members(l) \cup {x}
    BY <1>1, <1>2 DEF Members
  <2>2. Len(l.elts) + 1 \in 1..Len(m.elts) /\ m.elts[Len(l.elts) + 1] = x
    BY <1>1, <1>2
  <2>3. \A j \in 1..Len(l.elts) : j \in 1..Len(m.elts) /\ m.elts[j] = l.elts[j]
    BY <1>1, <1>2
  <2>4. ASSUME NEW y \in Members(l) \cup {x} PROVE y \in Members(m)
    BY <2>2, <2>3 DEF Members
  <2> QED
    BY <2>1, <2>4
<1>7. Due(m) = Due(l) \cup {x}
  <2>1. l.next <= Len(l.elts)
    BY <1>1 DEF WellFormed
  <2>2. CASE l.marker
    BY <2>2, <1>1, <1>2, <1>3 DEF Due
  <2>3. CASE ~l.marker
    <3>1. Due(l) = {l.elts[j] : j \in (l.next + 1)..Len(l.elts)}
      BY <2>3 DEF Due
    <3>2. Due(m) = {m.elts[j] : j \in (l.next + 1)..(Len(l.elts) + 1)}
      BY <2>3, <1>2, <1>3 DEF Due
    <3>3. \A j \in (l.next + 1)..Len(l.elts) : j \in (l.next + 1)..(Len(l.elts) + 1) /\ m.elts[j] = l.elts[j]
      BY <1>1, <1>2
    <3>4. Len(l.elts) + 1 \in (l.next + 1)..(Len(l.elts) + 1) /\ m.elts[Len(l.elts) + 1] = x
      BY <2>1, <1>1, <1>2
    <3>5. \A j \in (l.next + 1)..(Len(l.elts) + 1) :
            j \in (l.next + 1)..Len(l.elts) \/ j = Len(l.elts) + 1
      BY <1>1
    <3> QED
      BY <3>1, <3>2, <3>3, <3>4, <3>5
  <2> QED
    BY <2>2, <2>3
<1> QED
  BY <1>5, <1>6, <1>7 DEF m

\* remove(): the element leaves the list and the current iteration.
LEMMA RemoveLeaves ==
  ASSUME NEW S, NEW l, WellFormed(l, S), NEW x \in Members(l)
  PROVE  /\ WellFormed(ListRemove(l, x), S)
         /\ Members(ListRemove(l, x)) = Members(l) \ {x}
         /\ Due(ListRemove(l, x)) = Due(l) \ {x}
<1> DEFINE i == PositionOf(l, x)
           m == RemoveIdx(l, i)
<1>1. l \in Record(S) /\ l.elts \in Seq(S) /\ l.next \in Nat /\ l.marker \in BOOLEAN /\ Len(l.elts) \in Nat
  BY LenProperties DEF WellFormed, Record
<1>2. i \in 1..Len(l.elts) /\ l.elts[i] = x
  BY DEF PositionOf, Members
<1>3. ListRemove(l, x) = m
  BY DEF ListRemove
<1> HIDE DEF i
<1>4. /\ m.elts \in Seq(S) /\ Len(m.elts) = Len(l.elts) - 1
      /\ \A j \in 1..(Len(l.elts) - 1) : m.elts[j] = IF j < i THEN l.elts[j] ELSE l.elts[j + 1]
  BY <1>1, <1>2, WithoutOne DEF RemoveIdx
<1>5. /\ m.next = IF l.next >= i THEN l.next - 1 ELSE IF EndsIteration(l, i) THEN 0 ELSE l.next
      /\ m.marker = (l.marker \/ (EndsIteration(l, i) /\ Len(l.elts) > 1))
      /\ m \in Record(S)
  BY <1>1, <1>2, <1>4 DEF RemoveIdx, Record
<1> HIDE DEF m
<1>6. \A j \in 1..Len(l.elts) : l.elts[j] = x <=> j = i
  BY <1>2 DEF WellFormed
<1>7. WellFormed(m, S)
  <2>1. \A j, k \in 1..Len(m.elts) : m.elts[j] = m.elts[k] => j = k
    <3> SUFFICES ASSUME NEW j \in 1..(Len(l.elts) - 1), NEW k \in 1..(Len(l.elts) - 1),
                        m.elts[j] = m.elts[k]
                 PROVE  j = k
      BY <1>4
    <3> DEFINE was(n) == IF n < i THEN n ELSE n + 1
    <3>1. was(j) \in 1..Len(l.elts) /\ was(k) \in 1..Len(l.elts)
      BY <1>1, <1>2
    <3>2. m.elts[j] = l.elts[was(j)] /\ m.elts[k] = l.elts[was(k)]
      BY <1>4
    <3>3. was(j) = was(k)
      BY <3>1, <3>2 DEF WellFormed
    <3> QED
      BY <3>3, <1>1, <1>2
  <2>2. m.next < Len(m.elts) \/ m.next = 0
    BY <1>1, <1>2, <1>4, <1>5 DEF WellFormed, EndsIteration
  <2>3. m.marker => m.next = 0
    BY <1>1, <1>2, <1>4, <1>5 DEF WellFormed, EndsIteration
  <2> QED
    BY <1>5, <2>1, <2>2, <2>3 DEF WellFormed
<1>8. Members(m) = Members(l) \ {x}
  <2>1. ASSUME NEW y \in Members(m) PROVE y \in Members(l) \ {x}
    <3>1. PICK j \in 1..(Len(l.elts) - 1) : m.elts[j] = y
      BY <1>4 DEF Members
    <3>2. CASE j < i
      <4>1. j \in 1..Len(l.elts) /\ j # i /\ l.elts[j] = y
        BY <3>1, <3>2, <1>1, <1>2, <1>4
      <4> QED
        BY <4>1, <1>6 DEF Members
    <3>3. CASE j >= i
      <4>1. j + 1 \in 1..Len(l.elts) /\ j + 1 # i /\ l.elts[j + 1] = y
        BY <3>1, <3>3, <1>1, <1>2, <1>4
      <4> QED
        BY <4>1, <1>6 DEF Members
    <3> QED
      BY <3>1, <3>2, <3>3, <1>1, <1>2
  <2>2. ASSUME NEW y \in Members(l) \ {x} PROVE y \in Members(m)
    <3>1. PICK j \in 1..Len(l.elts) : l.elts[j] = y
      BY DEF Members
    <3>2. j # i
      BY <3>1, <1>2
    <3>3. CASE j < i
      <4>1. j \in 1..Len(m.elts) /\ m.elts[j] = y
        BY <3>1, <3>3, <1>1, <1>2, <1>4
      <4> QED
        BY <4>1 DEF Members
    <3>4. CASE j > i
      <4>1. j - 1 \in 1..Len(m.elts) /\ m.elts[j - 1] = y
        BY <3>1, <3>4, <1>1, <1>2, <1>4
      <4> QED
        BY <4>1 DEF Members
    <3> QED
      BY <3>2, <3>3, <3>4, <1>2
  <2> QED
    BY <2>1, <2>2
<1>9. Due(m) = Due(l) \ {x}
  <2>1. CASE l.marker
    BY <2>1, <1>5 DEF Due
  <2>2. CASE ~l.marker /\ m.marker
    <3>1. i = Len(l.elts) /\ l.next + 1 = i
      <4>1. EndsIteration(l, i)
        BY <2>2, <1>5
      <4> QED
        BY <4>1, <1>1, <1>2 DEF EndsIteration
    <3>2. Due(l) = {x}
      BY <2>2, <3>1, <1>1, <1>2 DEF Due
    <3> QED
      BY <2>2, <3>2 DEF Due
  <2>3. CASE ~m.marker
    <3>1. ~l.marker /\ (EndsIteration(l, i) => Len(l.elts) = 1)
      <4>1. ~l.marker /\ ~(EndsIteration(l, i) /\ Len(l.elts) > 1)
        BY <2>3, <1>5
      <4>2. Len(l.elts) \in Nat /\ Len(l.elts) # 0
        BY <1>1, <1>2
      <4>3. Len(l.elts) = 1 \/ Len(l.elts) > 1
        <5>1. \A n \in Nat : n # 0 => n = 1 \/ n > 1
          OBVIOUS
        <5> QED
          BY <5>1, <4>2, Zenon
      <4> QED
        BY <4>1, <4>3, Zenon
    <3>2. m.next = IF l.next >= i THEN l.next - 1 ELSE l.next
      BY <3>1, <1>1, <1>2, <1>5 DEF EndsIteration
    <3>3. ASSUME NEW y \in Due(m) PROVE y \in Due(l) \ {x}
      <4>1. PICK j \in (m.next + 1)..Len(m.elts) : m.elts[j] = y
        BY <2>3 DEF Due
      <4>2. j \in 1..(Len(l.elts) - 1) /\ j >= m.next + 1
        BY <4>1, <1>1, <1>2, <1>4, <1>5, <3>2
      <4>3. CASE j < i
        <5>1. j \in (l.next + 1)..Len(l.elts) /\ l.elts[j] = y
          BY <4>1, <4>2, <4>3, <3>2, <1>1, <1>2, <1>4
        <5> QED
          BY <5>1, <4>3, <1>1, <1>2, <1>6, <3>1 DEF Due
      <4>4. CASE j >= i
        <5>1. j + 1 \in (l.next + 1)..Len(l.elts) /\ l.elts[j + 1] = y
          BY <4>1, <4>2, <4>4, <3>2, <1>1, <1>2, <1>4
        <5>2. j + 1 \in 1..Len(l.elts) /\ j + 1 # i
          BY <4>2, <4>4, <1>1, <1>2
        <5> QED
          BY <5>1, <5>2, <1>6, <3>1 DEF Due
      <4> QED
        BY <4>2, <4>3, <4>4, <1>2
    <3>4. ASSUME NEW y \in Due(l) \ {x} PROVE y \in Due(m)
      <4>1. PICK j \in (l.next + 1)..Len(l.elts) : l.elts[j] = y
        BY <3>1 DEF Due
      <4>2. j \in 1..Len(l.elts) /\ j >= l.next + 1 /\ j # i
        BY <4>1, <1>1, <1>2
      <4>3. CASE j < i
        <5>1. j \in (m.next + 1)..Len(m.elts) /\ m.elts[j] = y
          BY <4>1, <4>2, <4>3, <3>2, <1>1, <1>2, <1>4
        <5> QED
          BY <5>1, <2>3 DEF Due
      <4>4. CASE j > i
        <5>1. j - 1 \in (m.next + 1)..Len(m.elts) /\ m.elts[j - 1] = y
          BY <4>1, <4>2, <4>4, <3>2, <1>1, <1>2, <1>4
        <5> QED
          BY <5>1, <2>3 DEF Due
      <4> QED
        BY <4>2, <4>3, <4>4, <1>2
    <3> QED
      BY <3>3, <3>4
  <2> QED
    BY <2>1, <2>2, <2>3, <1>5
<1> QED
  BY <1>3, <1>7, <1>8, <1>9

\* iter_next() that gives an element: one that was due, and now is not.
LEMMA IterNextGives ==
  ASSUME NEW S, NEW l, WellFormed(l, S), ~IterNull(l)
  PROVE  /\ IterHead(l) \in Due(l)
         /\ WellFormed(IterNext(l), S)
         /\ Members(IterNext(l)) = Members(l)
         /\ Due(IterNext(l)) = Due(l) \ {IterHead(l)}
<1> DEFINE m == IterNext(l)
           n == Len(l.elts)
           x == l.elts[l.next + 1]
<1>1. l \in Record(S) /\ l.elts \in Seq(S) /\ l.next \in Nat /\ n \in Nat
  BY LenProperties DEF WellFormed, Record
<1>2. ~l.marker /\ n > 0 /\ l.next < n
  BY <1>1, EmptySeq DEF WellFormed, IterNull
<1>3. /\ m.elts = l.elts
      /\ m.next = IF l.next + 1 = n THEN 0 ELSE l.next + 1
      /\ m.marker <=> l.next + 1 = n
      /\ m \in Record(S)
  <2>1. (l.next + 1) % n = IF l.next + 1 = n THEN 0 ELSE l.next + 1
    BY <1>1, <1>2
  <2>2. m = [elts |-> l.elts, next |-> (l.next + 1) % n, marker |-> (l.next + 1) % n = 0]
    BY <1>2 DEF IterNext, IterNull
  <2>3. /\ m.elts = l.elts /\ m.next = (l.next + 1) % n
        /\ m.marker = ((l.next + 1) % n = 0)
    BY <2>2
  <2>4. m.marker <=> l.next + 1 = n
    <3>1. m.marker <=> (l.next + 1) % n = 0
      BY <2>3, Zenon
    <3>2. (l.next + 1) % n = 0 <=> l.next + 1 = n
      BY <2>1, <1>1
    <3> HIDE DEF m
    <3> QED
      BY <3>1, <3>2
  <2>5. m \in Record(S)
    BY <2>1, <2>2, <1>1 DEF Record
  <2> QED
    BY <2>1, <2>3, <2>4, <2>5
<1> HIDE DEF m
<1>4. x \in Due(l)
  BY <1>1, <1>2 DEF Due
<1>5. WellFormed(m, S)
  BY <1>1, <1>2, <1>3 DEF WellFormed
<1>6. Members(m) = Members(l)
  BY <1>3 DEF Members
<1>7. Due(m) = Due(l) \ {x}
  <2>1. \A j \in (l.next + 1)..n : l.elts[j] = x <=> j = l.next + 1
    BY <1>1, <1>2 DEF WellFormed
  <2>2. Due(l) = {l.elts[j] : j \in (l.next + 1)..n}
    BY <1>2 DEF Due
  <2>3. CASE l.next + 1 = n
    <3>1. m.marker /\ \A j \in (l.next + 1)..n : j = l.next + 1
      BY <2>3, <1>1, <1>3
    <3> QED
      BY <2>1, <2>2, <3>1 DEF Due
  <2>4. CASE l.next + 1 # n
    <3>1. Due(m) = {l.elts[j] : j \in (l.next + 2)..n}
      BY <2>4, <1>1, <1>3 DEF Due
    <3>2. \A j \in (l.next + 1)..n : j = l.next + 1 \/ j \in (l.next + 2)..n
      BY <1>1
    <3>3. \A j \in (l.next + 2)..n : j \in (l.next + 1)..n /\ j # l.next + 1
      BY <1>1
    <3> QED
      BY <2>1, <2>2, <3>1, <3>2, <3>3
  <2> QED
    BY <2>3, <2>4
<1> QED
  BY <1>4, <1>5, <1>6, <1>7 DEF m, IterHead

\* iter_next() that gives the null: nobody was due, and now everybody is.
LEMMA IterNextEnds ==
  ASSUME NEW S, NEW l, WellFormed(l, S), IterNull(l)
  PROVE  /\ Due(l) = {}
         /\ WellFormed(IterNext(l), S)
         /\ Members(IterNext(l)) = Members(l)
         /\ Due(IterNext(l)) = Members(l)
<1>1. l \in Record(S) /\ l.elts \in Seq(S) /\ l.next \in Nat
  BY DEF WellFormed, Record
<1>2. CASE l.marker
  <2>1. IterNext(l) = [elts |-> l.elts, next |-> l.next, marker |-> FALSE]
    BY <1>2 DEF IterNext
  <2>2. /\ IterNext(l).elts = l.elts /\ IterNext(l).next = l.next
        /\ IterNext(l).marker = FALSE /\ IterNext(l) \in Record(S)
    BY <2>1, <1>1 DEF Record
  <2> QED
    BY <1>2, <2>2 DEF WellFormed, Members, Due
<1>3. CASE ~l.marker
  <2>1. l.elts = <<>> /\ IterNext(l) = l /\ Len(l.elts) = 0
    BY <1>3, EmptySeq DEF IterNull, IterNext
  <2>2. Due(l) = {} /\ Members(l) = {}
    BY <1>1, <2>1 DEF Due, Members
  <2> QED
    BY <2>1, <2>2
<1> QED
  BY <1>2, <1>3

--------------------------------------------------------------------------------
(* Ranges *)

Waiting == {t \in Threads : at[t] = "start"}

Types ==
  /\ nextgr \in Nat /\ rmgrps \in Nat /\ rmthrs \in Nat
  /\ lo \in [Threads -> Nat] /\ hi \in [Threads -> Nat]
  /\ at \in [Threads -> {"start", "top", "pass", "exit"}]
  /\ ev \in [Threads -> Nat] /\ ix \in [Threads -> Nat]
  /\ lists \in [Groups -> Record(Admins)]
  /\ serial \in Nat /\ announced \in Nat /\ shut \in BOOLEAN
  /\ got \in [Admins -> Nat] /\ done \in [Groups -> Nat]

\* The manager's numbers agree with the threads: what is given out is given to
\* them, and there is a group left for each one that has not asked yet.
Counts ==
  /\ nextgr + rmgrps = NumGroups
  /\ rmthrs = Cardinality(Waiting)
  /\ rmthrs <= rmgrps
  /\ rmthrs = 0 => rmgrps = 0
Ranges ==
  /\ \A t \in Threads : HasRange(t) => lo[t] <= hi[t] /\ hi[t] < nextgr
  /\ \A t, u \in Threads :
       HasRange(t) /\ HasRange(u) /\ t # u => hi[t] < lo[u] \/ hi[u] < lo[t]
  /\ \A g \in Groups : g < nextgr => \E t \in Threads : Serves(t, g)

LEMMA NumGroupsPositive == NumGroups \in Nat /\ NumGroups >= 1 /\ Groups \subseteq Nat /\ 0 \in Groups
<1>1. NumGroups \in Nat /\ Cardinality(Threads) \in Nat
  BY GroupsAssumption, FS_CardinalityType
<1>2. NumGroups >= 1
  BY <1>1, GroupsAssumption
<1> QED
  BY <1>1, <1>2 DEF Groups

\* An admin has one group, whatever its ID.
LEMMA GroupOfAdmin == \A a \in Nat : GroupOf(a) \in Groups
BY NumGroupsPositive DEF GroupOf, Groups

\* The slice of rmgrps \div rmthrs groups has a group for the thread, leaves one
\* for each other thread, and is all that is left for the last thread.
LEMMA SliceFits ==
  ASSUME NEW r \in Nat, NEW k \in Nat, 1 <= k, k <= r
  PROVE  /\ r \div k \in Nat /\ 1 <= r \div k /\ r \div k <= r
         /\ k - 1 <= r - r \div k
         /\ k = 1 => r \div k = r
<1> DEFINE s == r \div k
           m == r % k
<1>1. s \in Int /\ m \in 0..(k - 1) /\ r = k * s + m
  OBVIOUS
<1> HIDE DEF s, m
<1>2. s >= 1
  <2> SUFFICES ASSUME s <= 0 PROVE FALSE
    BY <1>1
  <2>1. k * s <= 0
    BY <1>1
  <2> QED
    BY <1>1, <2>1
<1>3. (k - 1) * (s - 1) >= 0
  BY <1>1, <1>2
<1>4. (k - 1) * (s - 1) = k * s - k - s + 1
  BY <1>1
<1>5. k - 1 <= r - s
  BY <1>1, <1>3, <1>4
<1>6. k = 1 => s = r
  BY <1>1
<1> QED
  BY <1>1, <1>2, <1>5, <1>6 DEF s

\* What a thread that has not asked yet finds: groups that nobody serves.
LEMMA SomeLeft ==
  ASSUME Types, Counts, NEW t \in Threads, at[t] = "start"
  PROVE  /\ 1 <= rmthrs /\ rmthrs <= rmgrps /\ nextgr < NumGroups
         /\ Cardinality(Waiting \ {t}) = rmthrs - 1
<1>1. IsFiniteSet(Waiting)
  BY GroupsAssumption, FS_Subset DEF Waiting
<1>2. t \in Waiting
  BY DEF Waiting
<1>3. /\ Cardinality(Waiting) \in Nat /\ Cardinality(Waiting) >= 1
      /\ Cardinality(Waiting \ {t}) = Cardinality(Waiting) - 1
  BY <1>1, <1>2, FS_CardinalityType, FS_RemoveElement, FS_EmptySet
<1> QED
  BY <1>3, NumGroupsPositive DEF Counts, Types

LEMMA RangesInit == Init => Counts /\ Ranges
<1> SUFFICES ASSUME Init PROVE Counts /\ Ranges
  OBVIOUS
<1>1. Waiting = Threads
  BY DEF Waiting, Init
<1>2. Counts
  <2>1. Cardinality(Threads) \in Nat
    BY GroupsAssumption, FS_CardinalityType
  <2> QED
    BY <1>1, <2>1, GroupsAssumption, NumGroupsPositive DEF Init, Counts
<1>3. Ranges
  BY NumGroupsPositive DEF Init, Ranges, HasRange, Groups
<1> QED
  BY <1>2, <1>3

\* A thread that asks is given groups from nextgr on, which nobody has.
LEMMA RangesAllocate ==
  ASSUME Types, Counts, Ranges, NEW t \in Threads, AllocateRange(t)
  PROVE  Counts' /\ Ranges'
<1> DEFINE s == Slice
<1>1. /\ 1 <= rmthrs /\ rmthrs <= rmgrps /\ nextgr < NumGroups
      /\ Cardinality(Waiting \ {t}) = rmthrs - 1
  BY SomeLeft DEF AllocateRange
<1>2. /\ s \in Nat /\ 1 <= s /\ s <= rmgrps /\ rmthrs - 1 <= rmgrps - s
      /\ rmthrs = 1 => s = rmgrps
  BY <1>1, SliceFits DEF Slice, Types
<1> HIDE DEF s
<1>3. /\ nextgr' = nextgr + s /\ rmgrps' = rmgrps - s /\ rmthrs' = rmthrs - 1
      /\ lo' = [lo EXCEPT ![t] = nextgr] /\ hi' = [hi EXCEPT ![t] = (nextgr + s) - 1]
      /\ at[t] = "start" /\ at' = [at EXCEPT ![t] = "top"]
  BY DEF AllocateRange, s
<1>4. Waiting' = Waiting \ {t}
  BY <1>3 DEF Waiting, Types
<1>5. Counts'
  BY <1>1, <1>2, <1>3, <1>4 DEF Counts, Types
<1>6. /\ lo'[t] = nextgr /\ hi'[t] = (nextgr + s) - 1 /\ HasRange(t)'
      /\ \A u \in Threads : u # t => /\ lo'[u] = lo[u] /\ hi'[u] = hi[u]
                                     /\ HasRange(u)' <=> HasRange(u)
  BY <1>3 DEF Types, HasRange
<1>7. \A u \in Threads : HasRange(u) => u # t
  BY <1>3 DEF HasRange
<1>8. Ranges'
  <2>1. \A u \in Threads : HasRange(u)' => lo'[u] <= hi'[u] /\ hi'[u] < nextgr'
    BY <1>2, <1>3, <1>6 DEF Ranges, Types
  <2>2. \A u, v \in Threads :
          HasRange(u)' /\ HasRange(v)' /\ u # v => hi'[u] < lo'[v] \/ hi'[v] < lo'[u]
    BY <1>2, <1>3, <1>6 DEF Ranges, Types
  <2>3. ASSUME NEW g \in Groups, g < nextgr' PROVE \E u \in Threads : Serves(u, g)'
    <3>1. CASE g < nextgr
      <4>1. PICK u \in Threads : Serves(u, g)
        BY <3>1 DEF Ranges
      <4>2. Serves(u, g)'
        BY <4>1, <1>6, <1>7 DEF Serves
      <4> QED
        BY <4>2
    <3>2. CASE g >= nextgr
      <4>1. Serves(t, g)'
        BY <3>2, <2>3, <1>2, <1>3, <1>6, NumGroupsPositive DEF Serves, Types
      <4> QED
        BY <4>1
    <3> QED
      BY <3>1, <3>2, NumGroupsPositive DEF Types
  <2> QED
    BY <2>1, <2>2, <2>3 DEF Ranges
<1> QED
  BY <1>5, <1>8

\* Nothing else touches the ranges, or sends a thread back to ask for one.
LEMMA AfterAllocation ==
  ASSUME Types, [Next]_vars, \A t \in Threads : ~AllocateRange(t)
  PROVE  /\ UNCHANGED alloc
         /\ \A t \in Threads : at'[t] = "start" <=> at[t] = "start"
<1>1. ASSUME NEW t \in Threads, NextEvent(t) \/ Visit(t) \/ EndOfGroup(t) \/ ThreadExit(t)
      PROVE  UNCHANGED alloc /\ at[t] \in {"top", "pass"}
             /\ \E w \in {"top", "pass", "exit"} : at' = [at EXCEPT ![t] = w]
  <2>1. CASE NextEvent(t)
    BY <2>1 DEF NextEvent
  <2>2. CASE Visit(t)
    <3>1. at' = at /\ at[t] = "pass" /\ UNCHANGED alloc
      BY <2>2 DEF Visit
    <3>2. at = [at EXCEPT ![t] = "pass"]
      BY <3>1 DEF Types
    <3> QED
      BY <3>1, <3>2
  <2>3. CASE EndOfGroup(t)
    BY <2>3 DEF EndOfGroup
  <2>4. CASE ThreadExit(t)
    BY <2>4 DEF ThreadExit
  <2> QED
    BY <1>1, <2>1, <2>2, <2>3, <2>4
<1>2. ASSUME \/ Announce \/ NewConsumerAdmin \/ NewSupplierAdmin \/ Shutdown \/ UNCHANGED vars
             \/ \E a \in Admins : Unregister(a)
      PROVE  UNCHANGED alloc /\ at' = at
  BY <1>2 DEF Announce, NewConsumerAdmin, NewSupplierAdmin, Shutdown, Unregister, vars, alloc, progress
<1>3. CASE \E t \in Threads : NextEvent(t) \/ Visit(t) \/ EndOfGroup(t) \/ ThreadExit(t)
  BY <1>1, <1>3 DEF Types
<1>4. CASE ~ \E t \in Threads : NextEvent(t) \/ Visit(t) \/ EndOfGroup(t) \/ ThreadExit(t)
  BY <1>2, <1>4 DEF Next, ThreadStep
<1> QED
  BY <1>3, <1>4

LEMMA RangesNext ==
  ASSUME Types, Counts, Ranges, [Next]_vars
  PROVE  Counts' /\ Ranges'
<1>1. CASE \E t \in Threads : AllocateRange(t)
  BY <1>1, RangesAllocate
<1>2. CASE \A t \in Threads : ~AllocateRange(t)
  <2>1. UNCHANGED <<nextgr, rmgrps, rmthrs, lo, hi>>
    BY <1>2, AfterAllocation DEF alloc
  <2>2. \A t \in Threads : HasRange(t)' <=> HasRange(t)
    BY <1>2, AfterAllocation DEF HasRange
  <2>3. Waiting' = Waiting
    BY <1>2, AfterAllocation DEF Waiting
  <2>4. Counts'
    BY <2>1, <2>3 DEF Counts
  <2>5. \A t \in Threads, g \in Groups : Serves(t, g)' <=> Serves(t, g)
    BY <2>1, <2>2 DEF Serves
  <2>6. Ranges'
    BY <2>1, <2>2, <2>5 DEF Ranges
  <2> QED
    BY <2>4, <2>6
<1> QED
  BY <1>1, <1>2

--------------------------------------------------------------------------------
(* The lists, and where the threads are *)

\* The lists are sound, every admin is in its own group, and the next ID is new.
ListsSound ==
  /\ \A g \in Groups : WellFormed(lists[g], Admins)
  /\ \A g \in Groups : \A a \in Members(lists[g]) : GroupOf(a) = g /\ a < serial
  /\ 1 <= serial /\ serial <= MaxSerial + 1

\* A group nobody is in the middle of is at the start of a round.
AtStart(g) == \A t \in Threads : at[t] \in {"pass", "exit"} => ix[t] # g
Turns ==
  /\ \A t \in Threads : at[t] = "start" => ev[t] = 0 /\ lo[t] = 0 /\ hi[t] = 0
  /\ \A t \in Threads : at[t] = "exit" => shut
  /\ \A t \in Threads : ix[t] <= NumGroups
  /\ \A t \in Threads : at[t] = "pass" => lo[t] <= ix[t] /\ ix[t] <= hi[t]
  /\ \A g \in Groups : AtStart(g) => Due(lists[g]) = Members(lists[g])
  /\ \A g \in Groups : g >= nextgr => done[g] = 0

\* A group is through with the event of its thread, or with the one before.
Behind(t, g) == done[g] < ev[t] /\ (done[g] = 0 \/ ev[t] = done[g] + 1)
Pace ==
  \A t \in Threads, g \in Groups : Serves(t, g) =>
    /\ at[t] = "top" => done[g] = ev[t]
    /\ at[t] = "pass" => IF g < ix[t] THEN done[g] = ev[t] ELSE Behind(t, g)

Inv == Types /\ Counts /\ Ranges /\ ListsSound /\ Turns /\ Pace /\ EveryoneInStep

LEMMA InvInit == Init => Inv
<1> SUFFICES ASSUME Init PROVE Inv
  OBVIOUS
<1>1. Counts /\ Ranges
  BY RangesInit
<1> DEFINE first == ListInsert(Drained, 0)
<1>2. 0 \in Admins /\ GroupOf(0) = 0
  BY NumGroupsPositive, LimitsAssumption DEF Admins, GroupOf
<1>3. WellFormed(first, Admins) /\ Members(first) = {0} /\ Due(first) = {0}
  BY <1>2, DrainedIsEmpty, InsertJoins
<1> HIDE DEF first
<1>4. \A g \in Groups : lists[g] = IF g = 0 THEN first ELSE Drained
  BY DEF Init, first
<1>5. \A g \in Groups : /\ WellFormed(lists[g], Admins) /\ Due(lists[g]) = Members(lists[g])
                        /\ \A a \in Members(lists[g]) : a = 0 /\ g = 0
  BY <1>3, <1>4, DrainedIsEmpty
<1>6. Types
  <2>1. lists \in [Groups -> Record(Admins)]
    <3>1. lists = [g \in Groups |-> IF g = 0 THEN first ELSE Drained]
      BY DEF Init, first
    <3>2. first \in Record(Admins) /\ Drained \in Record(Admins)
      BY <1>3, DrainedIsEmpty DEF WellFormed
    <3> QED
      BY <3>1, <3>2
  <2>2. Cardinality(Threads) \in Nat
    BY GroupsAssumption, FS_CardinalityType
  <2> QED
    BY <2>1, <2>2, NumGroupsPositive DEF Init, Types
<1>7. ListsSound
  BY <1>2, <1>5, LimitsAssumption DEF ListsSound, Init
<1>8. Turns
  BY <1>5, NumGroupsPositive DEF Init, Turns, AtStart
<1>9. Pace
  BY DEF Init, Pace, Serves, HasRange
<1>10. EveryoneInStep
  <2>1. \A g \in Groups : \A a \in Members(lists[g]) : a \in Due(lists[g]) /\ a \in Admins
    BY <1>2, <1>5
  <2> QED
    BY <2>1 DEF EveryoneInStep, Init
<1> QED
  BY <1>1, <1>6, <1>7, <1>8, <1>9, <1>10 DEF Inv

LEMMA OneServer ==
  ASSUME Types, Ranges, NEW g \in Groups, NEW t \in Threads, NEW u \in Threads,
         Serves(t, g), Serves(u, g)
  PROVE  t = u
<1>1. /\ g \in Nat /\ lo[t] \in Nat /\ hi[t] \in Nat /\ lo[u] \in Nat /\ hi[u] \in Nat
      /\ lo[t] <= g /\ g <= hi[t] /\ lo[u] <= g /\ g <= hi[u]
  BY NumGroupsPositive DEF Serves, Types
<1>2. t # u => hi[t] < lo[u] \/ hi[u] < lo[t]
  BY DEF Serves, Ranges
<1> QED
  BY <1>1, <1>2

\* The thread in the middle of a group serves it, and no other thread does.
LEMMA MidRound ==
  ASSUME Inv, NEW t \in Threads, at[t] = "pass"
  PROVE  /\ ix[t] \in Groups /\ Serves(t, ix[t])
         /\ \A u \in Threads : Serves(u, ix[t]) => u = t
<1>1. /\ HasRange(t) /\ lo[t] <= ix[t] /\ ix[t] <= hi[t] /\ hi[t] < nextgr /\ nextgr <= NumGroups
      /\ ix[t] \in Nat
  BY NumGroupsPositive DEF Inv, Turns, Ranges, Counts, Types, HasRange
<1>2. ix[t] \in Groups
  BY <1>1, NumGroupsPositive DEF Groups, Inv, Types
<1>3. Serves(t, ix[t])
  BY <1>1 DEF Serves
<1>4. \A u \in Threads : Serves(u, ix[t]) => u = t
  BY <1>2, <1>3, OneServer DEF Inv
<1> QED
  BY <1>2, <1>3, <1>4

\* What a visit does.
LEMMA VisitEffect ==
  ASSUME Inv, NEW t \in Threads, Visit(t)
  PROVE  /\ IterHead(lists[ix[t]]) \in Due(lists[ix[t]])
         /\ IterHead(lists[ix[t]]) \in Members(lists[ix[t]])
         /\ IterHead(lists[ix[t]]) \in Admins
         /\ WellFormed(lists'[ix[t]], Admins)
         /\ Members(lists'[ix[t]]) = Members(lists[ix[t]])
         /\ Due(lists'[ix[t]]) = Due(lists[ix[t]]) \ {IterHead(lists[ix[t]])}
         /\ lists' \in [Groups -> Record(Admins)]
         /\ \A g \in Groups : g # ix[t] => lists'[g] = lists[g]
         /\ got' = [got EXCEPT ![IterHead(lists[ix[t]])] = ev[t]]
<1> DEFINE l == lists[ix[t]]
<1>1. at[t] = "pass" /\ ~IterNull(l) /\ lists' = [lists EXCEPT ![ix[t]] = IterNext(l)]
  BY DEF Visit
<1>2. ix[t] \in Groups /\ WellFormed(l, Admins)
  BY <1>1, MidRound DEF Inv, ListsSound
<1>3. lists'[ix[t]] = IterNext(l) /\ \A g \in Groups : g # ix[t] => lists'[g] = lists[g]
  BY <1>1, <1>2 DEF Inv, Types
<1> HIDE DEF l
<1>4. /\ IterHead(l) \in Due(l) /\ WellFormed(IterNext(l), Admins)
      /\ Members(IterNext(l)) = Members(l) /\ Due(IterNext(l)) = Due(l) \ {IterHead(l)}
  BY <1>1, <1>2, IterNextGives
<1>5. IterHead(l) \in Members(l) /\ IterHead(l) \in Admins
  BY <1>2, <1>4, DueAreMembers
<1>6. IterNext(l) \in Record(Admins)
  BY <1>4 DEF WellFormed
<1>7. lists' \in [Groups -> Record(Admins)]
  BY <1>1, <1>2, <1>6 DEF Inv, Types
<1> QED
  BY <1>3, <1>4, <1>5, <1>7 DEF Visit, l

\* What the end of a group does.
LEMMA EndOfGroupEffect ==
  ASSUME Inv, NEW t \in Threads, EndOfGroup(t)
  PROVE  /\ Due(lists[ix[t]]) = {}
         /\ WellFormed(lists'[ix[t]], Admins)
         /\ Members(lists'[ix[t]]) = Members(lists[ix[t]])
         /\ Due(lists'[ix[t]]) = Members(lists[ix[t]])
         /\ lists' \in [Groups -> Record(Admins)]
         /\ \A g \in Groups : g # ix[t] => lists'[g] = lists[g]
<1> DEFINE l == lists[ix[t]]
<1>1. at[t] = "pass" /\ IterNull(l) /\ lists' = [lists EXCEPT ![ix[t]] = IterNext(l)]
  BY DEF EndOfGroup
<1>2. ix[t] \in Groups /\ WellFormed(l, Admins)
  BY <1>1, MidRound DEF Inv, ListsSound
<1>3. lists'[ix[t]] = IterNext(l) /\ \A g \in Groups : g # ix[t] => lists'[g] = lists[g]
  BY <1>1, <1>2 DEF Inv, Types
<1> HIDE DEF l
<1>4. /\ Due(l) = {} /\ WellFormed(IterNext(l), Admins)
      /\ Members(IterNext(l)) = Members(l) /\ Due(IterNext(l)) = Members(l)
  BY <1>1, <1>2, IterNextEnds
<1>5. IterNext(l) \in Record(Admins)
  BY <1>4 DEF WellFormed
<1>6. lists' \in [Groups -> Record(Admins)]
  BY <1>1, <1>2, <1>5 DEF Inv, Types
<1> QED
  BY <1>3, <1>4, <1>6 DEF l

\* What a new consumer admin does.
LEMMA NewConsumerAdminEffect ==
  ASSUME Inv, NewConsumerAdmin
  PROVE  LET g == GroupOf(serial) IN
         /\ serial \in Admins /\ g \in Groups
         /\ serial \notin Members(lists[g])
         /\ WellFormed(lists'[g], Admins)
         /\ Members(lists'[g]) = Members(lists[g]) \cup {serial}
         /\ Due(lists'[g]) = Due(lists[g]) \cup {serial}
         /\ lists' \in [Groups -> Record(Admins)]
         /\ \A h \in Groups : h # g => lists'[h] = lists[h]
<1> DEFINE g == GroupOf(serial)
           l == lists[g]
<1>1. serial \in Admins /\ g \in Groups
  BY GroupOfAdmin, LimitsAssumption DEF NewConsumerAdmin, Inv, Types, Admins
<1>2. WellFormed(l, Admins) /\ serial \notin Members(l)
  BY <1>1 DEF Inv, ListsSound, Types
<1>3. lists' = [lists EXCEPT ![g] = ListInsert(l, serial)]
  BY DEF NewConsumerAdmin
<1> HIDE DEF g
<1>4. lists'[g] = ListInsert(l, serial) /\ \A h \in Groups : h # g => lists'[h] = lists[h]
  BY <1>1, <1>3 DEF Inv, Types
<1> HIDE DEF l
<1>5. /\ WellFormed(ListInsert(l, serial), Admins)
      /\ Members(ListInsert(l, serial)) = Members(l) \cup {serial}
      /\ Due(ListInsert(l, serial)) = Due(l) \cup {serial}
  BY <1>1, <1>2, InsertJoins
<1>6. ListInsert(l, serial) \in Record(Admins)
  BY <1>5 DEF WellFormed
<1>7. lists' \in [Groups -> Record(Admins)]
  BY <1>1, <1>3, <1>6 DEF Inv, Types
<1> QED
  BY <1>1, <1>2, <1>4, <1>5, <1>7 DEF g, l

\* What the end of a consumer admin does.
LEMMA UnregisterEffect ==
  ASSUME Inv, NEW a \in Admins, Unregister(a)
  PROVE  LET g == GroupOf(a) IN
         /\ g \in Groups /\ a \in Members(lists[g])
         /\ WellFormed(lists'[g], Admins)
         /\ Members(lists'[g]) = Members(lists[g]) \ {a}
         /\ Due(lists'[g]) = Due(lists[g]) \ {a}
         /\ lists' \in [Groups -> Record(Admins)]
         /\ \A h \in Groups : h # g => lists'[h] = lists[h]
<1> DEFINE g == GroupOf(a)
           l == lists[g]
<1>1. g \in Groups
  BY GroupOfAdmin, LimitsAssumption DEF Admins
<1>2. WellFormed(l, Admins) /\ a \in Members(l)
  BY <1>1 DEF Inv, ListsSound, Unregister
<1>3. lists' = [lists EXCEPT ![g] = ListRemove(l, a)]
  BY DEF Unregister
<1> HIDE DEF g
<1>4. lists'[g] = ListRemove(l, a) /\ \A h \in Groups : h # g => lists'[h] = lists[h]
  BY <1>1, <1>3 DEF Inv, Types
<1> HIDE DEF l
<1>5. /\ WellFormed(ListRemove(l, a), Admins)
      /\ Members(ListRemove(l, a)) = Members(l) \ {a}
      /\ Due(ListRemove(l, a)) = Due(l) \ {a}
  BY <1>2, RemoveLeaves
<1>6. ListRemove(l, a) \in Record(Admins)
  BY <1>5 DEF WellFormed
<1>7. lists' \in [Groups -> Record(Admins)]
  BY <1>1, <1>3, <1>6 DEF Inv, Types
<1> QED
  BY <1>1, <1>2, <1>4, <1>5, <1>7 DEF g, l

--------------------------------------------------------------------------------
(* Every action keeps the invariant *)

LEMMA InvAllocate ==
  ASSUME Inv, NEW t \in Threads, AllocateRange(t), Counts', Ranges'
  PROVE  Inv'
<1>1. /\ at[t] = "start" /\ at' = [at EXCEPT ![t] = "top"]
      /\ lo' = [lo EXCEPT ![t] = nextgr] /\ hi' = [hi EXCEPT ![t] = nextgr' - 1]
      /\ nextgr' = nextgr + Slice /\ rmgrps' = rmgrps - Slice /\ rmthrs' = rmthrs - 1
      /\ UNCHANGED <<ev, ix, lists, serial, announced, shut, got, done>>
  BY DEF AllocateRange
<1>2. Slice \in Nat /\ 1 <= Slice /\ Slice <= rmgrps /\ 1 <= rmthrs
  BY <1>1, SomeLeft, SliceFits DEF Slice, Inv, Types
<1>3. /\ at'[t] = "top" /\ lo'[t] = nextgr
      /\ \A u \in Threads : u # t => at'[u] = at[u] /\ lo'[u] = lo[u] /\ hi'[u] = hi[u]
  BY <1>1 DEF Inv, Types
<1>4. Types'
  <2>1. nextgr' \in Nat /\ rmgrps' \in Nat /\ rmthrs' \in Nat /\ nextgr' - 1 \in Nat
    BY <1>1, <1>2 DEF Inv, Types
  <2>2. lo' \in [Threads -> Nat] /\ hi' \in [Threads -> Nat]
    BY <1>1, <2>1 DEF Inv, Types
  <2>3. at' \in [Threads -> {"start", "top", "pass", "exit"}]
    BY <1>1 DEF Inv, Types
  <2> QED
    BY <1>1, <2>1, <2>2, <2>3 DEF Inv, Types
<1>5. ListsSound'
  BY <1>1 DEF Inv, ListsSound
<1>6. Turns'
  <2>1. \A g \in Groups : AtStart(g)' => AtStart(g)
    BY <1>1, <1>3 DEF AtStart
  <2>2. \A g \in Groups : g >= nextgr' => g >= nextgr
    BY <1>1, <1>2, NumGroupsPositive DEF Inv, Types
  <2> QED
    BY <1>1, <1>3, <2>1, <2>2 DEF Inv, Turns
<1>7. \A u \in Threads, g \in Groups : u # t => (Serves(u, g)' <=> Serves(u, g))
  BY <1>3 DEF Serves, HasRange
<1>8. ~ \E g \in Groups : Serves(t, g)
  BY <1>1 DEF Serves, HasRange
<1>9. Pace'
  <2>1. ASSUME NEW g \in Groups, Serves(t, g)' PROVE done[g] = 0 /\ ev[t] = 0
    <3>1. g >= nextgr
      BY <2>1, <1>3, NumGroupsPositive DEF Serves, Inv, Types
    <3> QED
      BY <3>1, <1>1 DEF Inv, Turns
  <2> QED
    BY <1>1, <1>3, <1>7, <2>1 DEF Inv, Pace, Behind
<1>10. EveryoneInStep'
  <2>1. \A u \in Threads, g \in Groups : Serves(u, g) => Serves(u, g)'
    BY <1>7, <1>8
  <2> QED
    BY <1>1, <2>1 DEF Inv, EveryoneInStep
<1> QED
  BY <1>4, <1>5, <1>6, <1>9, <1>10 DEF Inv

LEMMA InvNextEvent ==
  ASSUME Inv, NEW t \in Threads, NextEvent(t), Counts', Ranges'
  PROVE  Inv'
<1>1. /\ at[t] = "top" /\ ev[t] < announced
      /\ ev' = [ev EXCEPT ![t] = IF ev[t] = 0 THEN announced ELSE ev[t] + 1]
      /\ at' = [at EXCEPT ![t] = "pass"] /\ ix' = [ix EXCEPT ![t] = lo[t]]
      /\ UNCHANGED <<nextgr, rmgrps, rmthrs, lo, hi, lists, serial, announced, shut, got, done>>
  BY DEF NextEvent, alloc
<1>2. /\ at'[t] = "pass" /\ ix'[t] = lo[t]
      /\ ev'[t] = (IF ev[t] = 0 THEN announced ELSE ev[t] + 1)
      /\ \A u \in Threads : u # t => at'[u] = at[u] /\ ix'[u] = ix[u] /\ ev'[u] = ev[u]
  BY <1>1 DEF Inv, Types
<1>3. Types'
  <2>1. ev' \in [Threads -> Nat] /\ ix' \in [Threads -> Nat]
    BY <1>1 DEF Inv, Types
  <2>2. at' \in [Threads -> {"start", "top", "pass", "exit"}]
    BY <1>1 DEF Inv, Types
  <2> QED
    BY <1>1, <2>1, <2>2 DEF Inv, Types
<1>4. ListsSound'
  BY <1>1 DEF Inv, ListsSound
<1>5. /\ HasRange(t) /\ lo[t] <= hi[t] /\ hi[t] < nextgr /\ nextgr <= NumGroups
      /\ lo[t] <= NumGroups
  BY <1>1, NumGroupsPositive DEF HasRange, Inv, Ranges, Counts, Types
<1>6. \A u \in Threads, g \in Groups : Serves(u, g)' <=> Serves(u, g)
  BY <1>1, <1>2 DEF Serves, HasRange
<1>7. Turns'
  <2>1. \A g \in Groups : AtStart(g)' => AtStart(g)
    BY <1>1, <1>2 DEF AtStart
  <2>2. \A u \in Threads : at'[u] = "start" => ev'[u] = 0 /\ lo'[u] = 0 /\ hi'[u] = 0
    BY <1>1, <1>2 DEF Inv, Turns
  <2>3. \A u \in Threads : at'[u] = "exit" => shut'
    BY <1>1, <1>2 DEF Inv, Turns
  <2>4. \A u \in Threads : ix'[u] <= NumGroups
    BY <1>2, <1>5 DEF Inv, Turns
  <2>5. \A u \in Threads : at'[u] = "pass" => lo'[u] <= ix'[u] /\ ix'[u] <= hi'[u]
    BY <1>1, <1>2, <1>5 DEF Inv, Turns, Types
  <2>6. \A g \in Groups : AtStart(g)' => Due(lists'[g]) = Members(lists'[g])
    BY <1>1, <2>1 DEF Inv, Turns
  <2>7. \A g \in Groups : g >= nextgr' => done'[g] = 0
    BY <1>1 DEF Inv, Turns
  <2> QED
    BY <2>2, <2>3, <2>4, <2>5, <2>6, <2>7 DEF Turns
<1>8. Pace'
  <2>1. ASSUME NEW g \in Groups, Serves(t, g)
        PROVE  ~(g < ix'[t]) /\ Behind(t, g)'
    <3>1. done[g] = ev[t] /\ lo[t] <= g
      BY <2>1, <1>1 DEF Inv, Pace, Serves
    <3>2. ~(g < ix'[t])
      BY <3>1, <1>2, NumGroupsPositive DEF Inv, Types
    <3>3. done'[g] < ev'[t] /\ (done'[g] = 0 \/ ev'[t] = done'[g] + 1)
      BY <3>1, <1>1, <1>2 DEF Inv, Types
    <3> QED
      BY <3>2, <3>3 DEF Behind
  <2>2. \A u \in Threads, g \in Groups : u # t => (Behind(u, g)' <=> Behind(u, g))
    BY <1>1, <1>2 DEF Behind
  <2> QED
    BY <1>1, <1>2, <1>6, <2>1, <2>2 DEF Inv, Pace
<1>9. EveryoneInStep'
  <2> SUFFICES ASSUME NEW g \in Groups, NEW a \in Members(lists[g])
               PROVE  IF a \in Due(lists[g]) THEN got[a] = done[g]
                        ELSE \E u \in Threads : Serves(u, g)' /\ got[a] = ev'[u]
    BY <1>1 DEF EveryoneInStep
  <2>1. CASE a \in Due(lists[g])
    BY <2>1 DEF Inv, EveryoneInStep
  <2>2. CASE a \notin Due(lists[g])
    <3>1. PICK u \in Threads : Serves(u, g) /\ got[a] = ev[u]
      BY <2>2 DEF Inv, EveryoneInStep
    <3>2. u # t
      <4>1. SUFFICES ASSUME u = t PROVE FALSE
        OBVIOUS
      <4>2. \A w \in Threads : w # t => ~Serves(w, g)
        BY <3>1, <4>1, OneServer DEF Inv
      <4>3. PICK w \in Threads : at[w] \in {"pass", "exit"} /\ ix[w] = g
        BY <2>2 DEF Inv, Turns, AtStart
      <4>4. CASE at[w] = "pass"
        BY <4>2, <4>3, <4>4, <1>1, MidRound
      <4>5. CASE at[w] = "exit"
        \* The channel is shut down: nobody goes for the next event.
        BY <4>3, <4>5 DEF Inv, Turns, NextEvent
      <4> QED
        BY <4>3, <4>4, <4>5
    <3> QED
      BY <2>2, <3>1, <3>2, <1>2, <1>6
  <2> QED
    BY <2>1, <2>2
<1> QED
  BY <1>3, <1>4, <1>7, <1>8, <1>9 DEF Inv

LEMMA InvVisit ==
  ASSUME Inv, NEW t \in Threads, Visit(t), Counts', Ranges'
  PROVE  Inv'
<1> DEFINE g == ix[t]
           a == IterHead(lists[g])
<1>1. /\ at[t] = "pass"
      /\ UNCHANGED <<nextgr, rmgrps, rmthrs, lo, hi, at, ev, ix, serial, announced, shut, done>>
  BY DEF Visit, alloc
<1>2. g \in Groups /\ Serves(t, g)
  BY <1>1, MidRound
<1>3. /\ a \in Due(lists[g]) /\ a \in Members(lists[g]) /\ a \in Admins
      /\ WellFormed(lists'[g], Admins)
      /\ Members(lists'[g]) = Members(lists[g])
      /\ Due(lists'[g]) = Due(lists[g]) \ {a}
      /\ lists' \in [Groups -> Record(Admins)]
      /\ \A h \in Groups : h # g => lists'[h] = lists[h]
      /\ got' = [got EXCEPT ![a] = ev[t]]
  BY VisitEffect
<1> HIDE DEF g, a
<1>4. got'[a] = ev[t] /\ \A b \in Admins : b # a => got'[b] = got[b]
  BY <1>3 DEF Inv, Types
<1>5. Types'
  <2>1. got' \in [Admins -> Nat]
    BY <1>3 DEF Inv, Types
  <2> QED
    BY <1>1, <1>3, <2>1 DEF Inv, Types
<1>6. \A h \in Groups : Members(lists'[h]) = Members(lists[h])
  BY <1>3
<1>7. ListsSound'
  BY <1>1, <1>3, <1>6 DEF Inv, ListsSound
<1>8. \A u \in Threads, h \in Groups : Serves(u, h)' <=> Serves(u, h)
  BY <1>1 DEF Serves, HasRange
<1>9. Turns'
  <2>1. \A h \in Groups : AtStart(h)' => AtStart(h) /\ h # g
    BY <1>1 DEF AtStart, g
  <2> QED
    BY <1>1, <1>3, <1>6, <2>1 DEF Inv, Turns
<1>10. Pace'
  BY <1>1, <1>8 DEF Inv, Pace, Behind
<1>11. EveryoneInStep'
  <2> SUFFICES ASSUME NEW h \in Groups, NEW b \in Members(lists[h])
               PROVE  IF b \in Due(lists'[h]) THEN got'[b] = done[h]
                        ELSE \E u \in Threads : Serves(u, h) /\ got'[b] = ev[u]
    BY <1>1, <1>6, <1>8 DEF EveryoneInStep
  <2>1. CASE b = a
    <3>1. h = g
      BY <2>1, <1>2, <1>3 DEF Inv, ListsSound
    <3> QED
      BY <2>1, <3>1, <1>2, <1>3, <1>4
  <2>2. CASE b # a
    <3>1. b \in Admins
      BY DueAreMembers DEF Inv, ListsSound
    <3>2. got'[b] = got[b] /\ (b \in Due(lists'[h]) <=> b \in Due(lists[h]))
      BY <2>2, <3>1, <1>3, <1>4
    <3> QED
      BY <3>2 DEF Inv, EveryoneInStep
  <2> QED
    BY <2>1, <2>2
<1> QED
  BY <1>5, <1>7, <1>9, <1>10, <1>11 DEF Inv

LEMMA InvEndOfGroup ==
  ASSUME Inv, NEW t \in Threads, EndOfGroup(t), Counts', Ranges'
  PROVE  Inv'
<1> DEFINE g == ix[t]
<1>1. /\ at[t] = "pass"
      /\ done' = [done EXCEPT ![g] = ev[t]] /\ ix' = [ix EXCEPT ![t] = g + 1]
      /\ at' = [at EXCEPT ![t] = IF g = hi[t] THEN "top" ELSE "pass"]
      /\ UNCHANGED <<nextgr, rmgrps, rmthrs, lo, hi, ev, serial, announced, shut, got>>
  BY DEF EndOfGroup, alloc
<1>2. /\ g \in Groups /\ g \in Nat /\ g < NumGroups /\ Serves(t, g)
      /\ lo[t] <= g /\ g <= hi[t] /\ lo[t] \in Nat /\ hi[t] \in Nat /\ hi[t] < nextgr /\ nextgr \in Nat
  <2>1. g \in Groups /\ Serves(t, g)
    BY <1>1, MidRound
  <2>2. g \in Nat /\ g < NumGroups /\ nextgr \in Nat /\ lo[t] \in Nat /\ hi[t] \in Nat
    BY <2>1, NumGroupsPositive DEF Inv, Types, Groups
  <2>3. HasRange(t) /\ lo[t] <= g /\ g <= hi[t]
    BY <2>1 DEF Serves
  <2>4. hi[t] < nextgr
    BY <2>3 DEF Inv, Ranges
  <2> QED
    BY <2>1, <2>2, <2>3, <2>4
<1>3. /\ Due(lists[g]) = {}
      /\ WellFormed(lists'[g], Admins)
      /\ Members(lists'[g]) = Members(lists[g])
      /\ Due(lists'[g]) = Members(lists[g])
      /\ lists' \in [Groups -> Record(Admins)]
      /\ \A h \in Groups : h # g => lists'[h] = lists[h]
  BY EndOfGroupEffect
<1>4. /\ ix'[t] = g + 1 /\ at'[t] = (IF g = hi[t] THEN "top" ELSE "pass")
      /\ \A u \in Threads : u # t => at'[u] = at[u] /\ ix'[u] = ix[u]
      /\ done'[g] = ev[t] /\ \A h \in Groups : h # g => done'[h] = done[h]
  BY <1>1, <1>2 DEF Inv, Types
<1>5. Types'
  <2>1. done' \in [Groups -> Nat] /\ ix' \in [Threads -> Nat]
    BY <1>1, <1>2 DEF Inv, Types
  <2>2. at' \in [Threads -> {"start", "top", "pass", "exit"}]
    BY <1>1 DEF Inv, Types
  <2> QED
    BY <1>1, <1>3, <2>1, <2>2 DEF Inv, Types
<1>6. \A h \in Groups : Members(lists'[h]) = Members(lists[h])
  BY <1>3
<1>7. ListsSound'
  BY <1>1, <1>3, <1>6 DEF Inv, ListsSound
<1>8. \A u \in Threads, h \in Groups : Serves(u, h)' <=> Serves(u, h)
  BY <1>1, <1>4 DEF Serves, HasRange
<1>9. Turns'
  <2>1. \A u \in Threads : at'[u] = "start" => ev'[u] = 0 /\ lo'[u] = 0 /\ hi'[u] = 0
    BY <1>1, <1>4 DEF Inv, Turns
  <2>2. \A u \in Threads : at'[u] = "exit" => shut'
    BY <1>1, <1>4 DEF Inv, Turns
  <2>3. \A u \in Threads : ix'[u] <= NumGroups
    BY <1>2, <1>4, NumGroupsPositive DEF Inv, Turns
  <2>4. \A u \in Threads : at'[u] = "pass" => lo'[u] <= ix'[u] /\ ix'[u] <= hi'[u]
    BY <1>1, <1>2, <1>4 DEF Inv, Turns
  <2>5. \A h \in Groups : AtStart(h)' => Due(lists'[h]) = Members(lists'[h])
    <3>1. \A h \in Groups : AtStart(h)' /\ h # g => AtStart(h)
      BY <1>4 DEF AtStart
    <3> QED
      BY <3>1, <1>3 DEF Inv, Turns
  <2>6. \A h \in Groups : h >= nextgr' => done'[h] = 0
    BY <1>1, <1>2, <1>4 DEF Inv, Turns
  <2> QED
    BY <2>1, <2>2, <2>3, <2>4, <2>5, <2>6 DEF Turns
<1> HIDE DEF g
<1>10. Pace'
  <2> SUFFICES ASSUME NEW u \in Threads, NEW h \in Groups, Serves(u, h)
               PROVE  /\ at'[u] = "top" => done'[h] = ev[u]
                      /\ at'[u] = "pass" => IF h < ix'[u] THEN done'[h] = ev[u] ELSE Behind(u, h)'
    BY <1>1, <1>8 DEF Pace
  <2>1. CASE u = t
    <3>1. h \in Nat /\ h <= hi[t]
      BY <2>1, NumGroupsPositive DEF Serves
    <3>2. IF h < g THEN done[h] = ev[t] ELSE Behind(t, h)
      BY <2>1, <1>1 DEF Inv, Pace, g
    <3>3. CASE h < g
      <4>1. h < g + 1 /\ h # g
        BY <3>1, <3>3, <1>2
      <4> QED
        BY <4>1, <3>2, <3>3, <2>1, <1>4
    <3>4. CASE h = g
      <4>1. h < g + 1
        BY <3>1, <3>4
      <4> QED
        BY <4>1, <3>4, <2>1, <1>4
    <3>5. CASE h > g
      <4>1. ~(h < g + 1) /\ h # g /\ g # hi[t]
        BY <3>1, <3>5, <1>2
      <4>2. ~(h < g)
        BY <3>1, <3>5, <1>2
      <4>3. Behind(t, h)'
        BY <4>1, <4>2, <3>2, <1>1, <1>4 DEF Behind
      <4> QED
        BY <4>1, <4>3, <2>1, <1>4
    <3> QED
      BY <3>1, <3>3, <3>4, <3>5, <1>2
  <2>2. CASE u # t
    <3>1. h # g
      BY <2>2, <1>2, OneServer DEF Inv
    <3>2. at'[u] = at[u] /\ ix'[u] = ix[u] /\ done'[h] = done[h] /\ (Behind(u, h)' <=> Behind(u, h))
      BY <2>2, <3>1, <1>1, <1>4 DEF Behind
    <3> QED
      BY <3>2 DEF Inv, Pace
  <2> QED
    BY <2>1, <2>2
<1>11. EveryoneInStep'
  <2> SUFFICES ASSUME NEW h \in Groups, NEW b \in Members(lists[h])
               PROVE  IF b \in Due(lists'[h]) THEN got[b] = done'[h]
                        ELSE \E u \in Threads : Serves(u, h) /\ got[b] = ev[u]
    BY <1>1, <1>6, <1>8 DEF EveryoneInStep
  <2>1. CASE h = g
    <3>1. PICK u \in Threads : Serves(u, g) /\ got[b] = ev[u]
      BY <2>1, <1>2, <1>3 DEF Inv, EveryoneInStep
    <3>2. u = t
      BY <3>1, <1>2, OneServer DEF Inv
    <3> QED
      BY <2>1, <3>1, <3>2, <1>3, <1>4
  <2>2. CASE h # g
    BY <2>2, <1>3, <1>4 DEF Inv, EveryoneInStep
  <2> QED
    BY <2>1, <2>2
<1> QED
  BY <1>5, <1>7, <1>9, <1>10, <1>11 DEF Inv

LEMMA InvThreadExit ==
  ASSUME Inv, NEW t \in Threads, ThreadExit(t), Counts', Ranges'
  PROVE  Inv'
<1>1. /\ at[t] \in {"top", "pass"} /\ shut /\ at' = [at EXCEPT ![t] = "exit"]
      /\ UNCHANGED <<nextgr, rmgrps, rmthrs, lo, hi, ev, ix, lists, serial, announced, shut, got, done>>
  BY DEF ThreadExit, alloc
<1>2. at'[t] = "exit" /\ \A u \in Threads : u # t => at'[u] = at[u]
  BY <1>1 DEF Inv, Types
<1>3. Types'
  <2>1. at' \in [Threads -> {"start", "top", "pass", "exit"}]
    BY <1>1 DEF Inv, Types
  <2> QED
    BY <1>1, <2>1 DEF Inv, Types
<1>4. ListsSound'
  BY <1>1 DEF Inv, ListsSound
<1>5. \A u \in Threads, h \in Groups : Serves(u, h)' <=> Serves(u, h)
  BY <1>1, <1>2 DEF Serves, HasRange
<1>6. Turns'
  <2>1. \A h \in Groups : AtStart(h)' => AtStart(h)
    BY <1>1, <1>2 DEF AtStart
  <2> QED
    BY <1>1, <1>2, <2>1 DEF Inv, Turns
<1>7. Pace'
  BY <1>1, <1>2, <1>5 DEF Inv, Pace, Behind
<1>8. EveryoneInStep'
  BY <1>1, <1>5 DEF Inv, EveryoneInStep
<1> QED
  BY <1>3, <1>4, <1>6, <1>7, <1>8 DEF Inv

LEMMA InvNewConsumerAdmin ==
  ASSUME Inv, NewConsumerAdmin, Counts', Ranges'
  PROVE  Inv'
<1> DEFINE g == GroupOf(serial)
<1>1. /\ serial <= MaxSerial /\ serial' = serial + 1 /\ got' = [got EXCEPT ![serial] = done[g]]
      /\ UNCHANGED <<nextgr, rmgrps, rmthrs, lo, hi, at, ev, ix, announced, shut, done>>
  BY DEF NewConsumerAdmin, alloc
<1>2. /\ serial \in Admins /\ g \in Groups
      /\ serial \notin Members(lists[g])
      /\ WellFormed(lists'[g], Admins)
      /\ Members(lists'[g]) = Members(lists[g]) \cup {serial}
      /\ Due(lists'[g]) = Due(lists[g]) \cup {serial}
      /\ lists' \in [Groups -> Record(Admins)]
      /\ \A h \in Groups : h # g => lists'[h] = lists[h]
  BY NewConsumerAdminEffect
<1>3. GroupOf(serial) = g
  OBVIOUS
<1> HIDE DEF g
<1>4. got'[serial] = done[g] /\ \A b \in Admins : b # serial => got'[b] = got[b]
  BY <1>1, <1>2 DEF Inv, Types
<1>5. Types'
  <2>1. got' \in [Admins -> Nat] /\ serial' \in Nat
    BY <1>1, <1>2 DEF Inv, Types
  <2> QED
    BY <1>1, <1>2, <2>1 DEF Inv, Types
<1>6. \A h \in Groups : \A b \in Members(lists[h]) : b \in Admins /\ b < serial /\ b # serial
  <2>1. \A h \in Groups : \A b \in Members(lists[h]) : b \in Admins /\ b < serial
    BY DueAreMembers DEF Inv, ListsSound
  <2> QED
    BY <2>1 DEF Inv, Types, Admins
<1>7. ListsSound'
  <2>1. \A h \in Groups : WellFormed(lists'[h], Admins)
    BY <1>2 DEF Inv, ListsSound
  <2>2. serial \in Nat /\ MaxSerial \in Nat /\ 1 <= serial'/\ serial' <= MaxSerial + 1
    BY <1>1, LimitsAssumption DEF Inv, Types, ListsSound
  <2>3. ASSUME NEW h \in Groups, NEW b \in Members(lists'[h])
        PROVE  GroupOf(b) = h /\ b < serial'
    <3>1. CASE b = serial /\ h = g
      BY <3>1, <2>2, <1>1, <1>3
    <3>2. CASE b \in Members(lists[h])
      <4>1. b \in Nat /\ b < serial
        BY <3>2, <1>6 DEF Admins
      <4> QED
        BY <3>2, <4>1, <2>2, <1>1 DEF Inv, ListsSound
    <3> QED
      BY <3>1, <3>2, <1>2
  <2> QED
    BY <2>1, <2>2, <2>3 DEF ListsSound
<1>8. \A u \in Threads, h \in Groups : Serves(u, h)' <=> Serves(u, h)
  BY <1>1 DEF Serves, HasRange
<1>9. Turns'
  <2>1. \A h \in Groups : AtStart(h)' <=> AtStart(h)
    BY <1>1 DEF AtStart
  <2>2. \A h \in Groups : AtStart(h)' => Due(lists'[h]) = Members(lists'[h])
    BY <1>2, <2>1 DEF Inv, Turns
  <2> QED
    BY <1>1, <2>2 DEF Inv, Turns
<1>10. Pace'
  BY <1>1, <1>8 DEF Inv, Pace, Behind
<1>11. EveryoneInStep'
  <2> SUFFICES ASSUME NEW h \in Groups, NEW b \in Members(lists'[h])
               PROVE  IF b \in Due(lists'[h]) THEN got'[b] = done[h]
                        ELSE \E u \in Threads : Serves(u, h) /\ got'[b] = ev[u]
    BY <1>1, <1>8 DEF EveryoneInStep
  <2>1. CASE b = serial /\ h = g
    BY <2>1, <1>2, <1>4
  <2>2. CASE b \in Members(lists[h])
    <3>1. got'[b] = got[b] /\ (b \in Due(lists'[h]) <=> b \in Due(lists[h]))
      BY <2>2, <1>2, <1>4, <1>6
    <3> QED
      BY <2>2, <3>1 DEF Inv, EveryoneInStep
  <2> QED
    BY <2>1, <2>2, <1>2
<1> QED
  BY <1>5, <1>7, <1>9, <1>10, <1>11 DEF Inv

LEMMA InvUnregister ==
  ASSUME Inv, NEW a \in Admins, Unregister(a), Counts', Ranges'
  PROVE  Inv'
<1> DEFINE g == GroupOf(a)
<1>1. UNCHANGED <<nextgr, rmgrps, rmthrs, lo, hi, at, ev, ix, serial, announced, shut, got, done>>
  BY DEF Unregister, alloc, progress
<1>2. /\ g \in Groups /\ a \in Members(lists[g])
      /\ WellFormed(lists'[g], Admins)
      /\ Members(lists'[g]) = Members(lists[g]) \ {a}
      /\ Due(lists'[g]) = Due(lists[g]) \ {a}
      /\ lists' \in [Groups -> Record(Admins)]
      /\ \A h \in Groups : h # g => lists'[h] = lists[h]
  BY UnregisterEffect
<1> HIDE DEF g
<1>3. Types'
  BY <1>1, <1>2 DEF Inv, Types
<1>4. \A h \in Groups : \A b \in Members(lists'[h]) :
        b \in Members(lists[h]) /\ (b \in Due(lists'[h]) <=> b \in Due(lists[h]))
  BY <1>2
<1>5. ListsSound'
  BY <1>1, <1>2, <1>4 DEF Inv, ListsSound
<1>6. \A u \in Threads, h \in Groups : Serves(u, h)' <=> Serves(u, h)
  BY <1>1 DEF Serves, HasRange
<1>7. Turns'
  <2>1. \A h \in Groups : AtStart(h)' <=> AtStart(h)
    BY <1>1 DEF AtStart
  <2>2. \A h \in Groups : AtStart(h)' => Due(lists'[h]) = Members(lists'[h])
    BY <1>2, <2>1 DEF Inv, Turns
  <2> QED
    BY <1>1, <2>2 DEF Inv, Turns
<1>8. Pace'
  BY <1>1, <1>6 DEF Inv, Pace, Behind
<1>9. EveryoneInStep'
  BY <1>1, <1>4, <1>6 DEF Inv, EveryoneInStep
<1> QED
  BY <1>3, <1>5, <1>7, <1>8, <1>9 DEF Inv

\* Announcing an event, a supplier admin, and the beginning of destroy().
LEMMA InvElsewhere ==
  ASSUME Inv, Announce \/ NewSupplierAdmin \/ Shutdown \/ UNCHANGED vars, Counts', Ranges'
  PROVE  Inv'
<1>1. UNCHANGED <<nextgr, rmgrps, rmthrs, lo, hi, at, ev, ix, lists, got, done>>
  BY DEF Announce, NewSupplierAdmin, Shutdown, alloc, progress, vars
<1>2. /\ announced' \in Nat /\ shut' \in BOOLEAN /\ serial' \in Nat
      /\ shut => shut'
      /\ serial <= serial' /\ serial' <= MaxSerial + 1 /\ 1 <= serial'
  <2>1. /\ announced \in Nat /\ shut \in BOOLEAN /\ serial \in Nat /\ MaxSerial \in Nat
        /\ serial <= MaxSerial + 1 /\ 1 <= serial
    BY LimitsAssumption DEF Inv, Types, ListsSound
  <2>2. CASE Announce
    BY <2>1, <2>2 DEF Announce
  <2>3. CASE NewSupplierAdmin
    BY <2>1, <2>3 DEF NewSupplierAdmin
  <2>4. CASE Shutdown
    BY <2>1, <2>4 DEF Shutdown
  <2>5. CASE UNCHANGED vars
    BY <2>1, <2>5 DEF vars
  <2> QED
    BY <2>2, <2>3, <2>4, <2>5
<1>3. Types'
  BY <1>1, <1>2 DEF Inv, Types
<1>4. ListsSound'
  <2>1. \A g \in Groups : \A a \in Members(lists[g]) : GroupOf(a) = g /\ a < serial'
    <3> SUFFICES ASSUME NEW g \in Groups, NEW a \in Members(lists[g]) PROVE a < serial'
      BY DEF Inv, ListsSound
    <3>1. a \in Admins /\ a < serial
      BY DueAreMembers DEF Inv, ListsSound
    <3> QED
      BY <3>1, <1>2 DEF Admins, Inv, Types
  <2> QED
    BY <2>1, <1>1, <1>2 DEF Inv, ListsSound
<1>5. \A t \in Threads, g \in Groups : Serves(t, g)' <=> Serves(t, g)
  BY <1>1 DEF Serves, HasRange
<1>6. Turns'
  <2>1. \A g \in Groups : AtStart(g)' <=> AtStart(g)
    BY <1>1 DEF AtStart
  <2> QED
    BY <2>1, <1>1, <1>2 DEF Inv, Turns
<1>7. Pace'
  BY <1>1, <1>5 DEF Inv, Pace, Behind
<1>8. EveryoneInStep'
  BY <1>1, <1>5 DEF Inv, EveryoneInStep
<1> QED
  BY <1>3, <1>4, <1>6, <1>7, <1>8 DEF Inv

LEMMA InvNext == Inv /\ [Next]_vars => Inv'
<1> SUFFICES ASSUME Inv, [Next]_vars PROVE Inv'
  OBVIOUS
<1>1. Counts' /\ Ranges'
  BY RangesNext DEF Inv
<1>2. ASSUME NEW t \in Threads, ThreadStep(t) PROVE Inv'
  BY <1>1, <1>2, InvAllocate, InvNextEvent, InvVisit, InvEndOfGroup, InvThreadExit DEF ThreadStep
<1>3. ASSUME NEW a \in Admins, Unregister(a) PROVE Inv'
  BY <1>1, <1>3, InvUnregister
<1>4. CASE NewConsumerAdmin
  BY <1>1, <1>4, InvNewConsumerAdmin
<1>5. CASE Announce \/ NewSupplierAdmin \/ Shutdown \/ UNCHANGED vars
  BY <1>1, <1>5, InvElsewhere
<1> QED
  BY <1>2, <1>3, <1>4, <1>5 DEF Next

THEOREM Invariance == Spec => []Inv
BY InvInit, InvNext, PTL DEF Spec

--------------------------------------------------------------------------------
(* What follows *)

\* No range, index or ID leaves its bounds.
THEOREM TypesCorrect == Spec => []TypeOK
<1>1. Inv => TypeOK
  <2> SUFFICES ASSUME Inv PROVE TypeOK
    OBVIOUS
  <2>1. nextgr \in 0..NumGroups /\ rmgrps \in 0..NumGroups
    BY NumGroupsPositive DEF Inv, Types, Counts
  <2>2. rmthrs \in 0..Cardinality(Threads)
    <3>1. Cardinality(Waiting) <= Cardinality(Threads) /\ Cardinality(Threads) \in Nat
      BY GroupsAssumption, FS_Subset, FS_CardinalityType DEF Waiting
    <3> QED
      BY <3>1 DEF Inv, Types, Counts
  <2>3. \A t \in Threads : lo[t] \in Groups /\ hi[t] \in Groups
    <3> SUFFICES ASSUME NEW t \in Threads PROVE lo[t] \in Groups /\ hi[t] \in Groups
      OBVIOUS
    <3>1. CASE at[t] = "start"
      BY <3>1, NumGroupsPositive DEF Inv, Turns
    <3>2. CASE at[t] # "start"
      <4>1. lo[t] <= hi[t] /\ hi[t] < nextgr
        BY <3>2 DEF Inv, Ranges, HasRange
      <4>2. lo[t] \in Nat /\ hi[t] \in Nat /\ nextgr \in Nat /\ nextgr <= NumGroups
        BY <2>1 DEF Inv, Types
      <4> QED
        BY <4>1, <4>2, NumGroupsPositive DEF Groups
    <3> QED
      BY <3>1, <3>2
  <2>4. lo \in [Threads -> Groups] /\ hi \in [Threads -> Groups]
    BY <2>3 DEF Inv, Types
  <2>5. ix \in [Threads -> 0..NumGroups]
    <3>1. \A t \in Threads : ix[t] \in 0..NumGroups
      BY NumGroupsPositive DEF Inv, Types, Turns
    <3> QED
      BY <3>1 DEF Inv, Types
  <2>6. serial \in 1..(MaxSerial + 1)
    BY LimitsAssumption DEF Inv, Types, ListsSound
  <2> QED
    BY <2>1, <2>2, <2>4, <2>5, <2>6 DEF TypeOK, Inv, Types, Record
<1> QED
  BY <1>1, Invariance, PTL

\* allocate_range(): however many groups and threads there are, and in whatever
\* order the threads ask, no group is served twice, and none is left over.
THEOREM RangesArePartition == Spec => []RangesPartition
<1>1. Inv => RangesPartition
  <2> SUFFICES ASSUME Inv PROVE RangesPartition
    OBVIOUS
  <2>1. \A t, u \in Threads, g \in Groups : Serves(t, g) /\ Serves(u, g) => t = u
    BY OneServer DEF Inv
  <2>2. \A g \in Groups : g < nextgr => \E t \in Threads : Serves(t, g)
    BY DEF Inv, Ranges
  <2>3. ASSUME \A t \in Threads : at[t] # "start" PROVE nextgr = NumGroups
    <3>1. Waiting = {}
      BY <2>3 DEF Waiting
    <3>2. rmthrs = 0
      BY <3>1, FS_EmptySet DEF Inv, Counts
    <3> QED
      BY <3>2, NumGroupsPositive DEF Inv, Counts, Types
  <2> QED
    BY <2>1, <2>2, <2>3 DEF RangesPartition
<1> QED
  BY <1>1, Invariance, PTL

\* allocate_range(): "Failed to allocated group range to work on" is never
\* reached, so no thread aborts the process.
THEOREM RangesForEveryone == Spec => []RangeForEach
<1>1. Inv => RangeForEach
  <2> SUFFICES ASSUME Inv, NEW t \in Threads, at[t] = "start" PROVE nextgr # NumGroups /\ rmthrs # 0
    BY DEF RangeForEach
  <2>1. 1 <= rmthrs /\ nextgr < NumGroups
    BY SomeLeft DEF Inv
  <2> QED
    BY <2>1, NumGroupsPositive DEF Inv, Types
<1> QED
  BY <1>1, Invariance, PTL

\* RDI_SafeList in admin_dispatch(): wherever a thread is in its round, those
\* its iterator is still to give have had the last event of their group, and
\* everybody else has had this one.
THEOREM GroupsInStep == Spec => []EveryoneInStep
<1>1. Inv => EveryoneInStep
  BY DEF Inv
<1> QED
  BY <1>1, Invariance, PTL

\* admin_dispatch(): a thread only goes for the next event when every admin of
\* its groups has had the one it is at.
THEOREM NobodyIsMissed == Spec => []NobodyMissed
<1>1. Inv => NobodyMissed
  <2> SUFFICES ASSUME Inv, NEW t \in Threads, at[t] = "top", NEW g \in lo[t]..hi[t]
               PROVE  done[g] = ev[t] /\ \A a \in Members(lists[g]) : got[a] = ev[t]
    BY DEF NobodyMissed
  <2>1. g \in Groups /\ Serves(t, g)
    <3>1. /\ HasRange(t) /\ hi[t] < nextgr /\ nextgr <= NumGroups
          /\ nextgr \in Nat /\ lo[t] \in Nat /\ hi[t] \in Nat
      BY NumGroupsPositive DEF HasRange, Inv, Ranges, Counts, Types
    <3> QED
      BY <3>1, NumGroupsPositive DEF Groups, Serves
  <2>2. done[g] = ev[t]
    BY <2>1 DEF Inv, Pace
  <2>3. ASSUME NEW a \in Members(lists[g]) PROVE got[a] = ev[t]
    <3>1. CASE a \in Due(lists[g])
      BY <3>1, <2>1, <2>2 DEF Inv, EveryoneInStep
    <3>2. CASE a \notin Due(lists[g])
      <4>1. PICK u \in Threads : Serves(u, g) /\ got[a] = ev[u]
        BY <3>2, <2>1 DEF Inv, EveryoneInStep
      <4> QED
        BY <4>1, <2>1, OneServer DEF Inv
    <3> QED
      BY <3>1, <3>2
  <2> QED
    BY <2>2, <2>3
<1> QED
  BY <1>1, Invariance, PTL

\* admin_dispatch(): whoever has had an event is given the next one next.
THEOREM NobodySkipsAnEvent == Spec => NoneSkipped
<1> DEFINE NextInTurn ==
      \A g \in Groups : \A a \in Members(lists[g]) :
        got'[a] # got[a] => got[a] = 0 \/ got'[a] = got[a] + 1
<1>1. Inv /\ [Next]_vars => NextInTurn
  <2> SUFFICES ASSUME Inv, [Next]_vars, NEW g \in Groups, NEW a \in Members(lists[g]), got'[a] # got[a]
               PROVE  got[a] = 0 \/ got'[a] = got[a] + 1
    OBVIOUS
  <2>1. a \in Admins /\ GroupOf(a) = g /\ a < serial
    BY DueAreMembers DEF Inv, ListsSound
  <2>2. ASSUME NEW t \in Threads, Visit(t) PROVE got[a] = 0 \/ got'[a] = got[a] + 1
    <3> DEFINE b == IterHead(lists[ix[t]])
    <3>1. /\ b \in Due(lists[ix[t]]) /\ b \in Members(lists[ix[t]]) /\ b \in Admins
          /\ got' = [got EXCEPT ![b] = ev[t]]
      BY <2>2, VisitEffect
    <3>2. at[t] = "pass" /\ ix[t] \in Groups /\ Serves(t, ix[t])
      BY <2>2, MidRound DEF Visit
    <3> HIDE DEF b
    <3>3. a = b /\ got'[a] = ev[t]
      BY <2>1, <3>1 DEF Inv, Types
    <3>4. ix[t] = g
      BY <2>1, <3>1, <3>2, <3>3 DEF Inv, ListsSound
    <3>5. got[a] = done[g]
      BY <3>1, <3>3, <3>4 DEF Inv, EveryoneInStep
    <3>6. Behind(t, g)
      <4>1. ~(g < ix[t])
        BY <3>4, NumGroupsPositive
      <4> QED
        BY <4>1, <3>2, <3>4 DEF Inv, Pace
    <3> QED
      BY <3>3, <3>5, <3>6 DEF Behind
  <2>3. CASE NewConsumerAdmin
    <3>1. got' = [got EXCEPT ![serial] = done[GroupOf(serial)]] /\ a # serial
      BY <2>1, <2>3 DEF NewConsumerAdmin, Inv, Types, Admins
    <3> QED
      BY <2>1, <3>1 DEF Inv, Types
  <2>4. \A t \in Threads : EndOfGroup(t) => got' = got
    BY DEF EndOfGroup
  <2>5. \A b \in Admins : Unregister(b) => got' = got
    BY DEF Unregister, progress
  <2>6. (\E t \in Threads : AllocateRange(t) \/ NextEvent(t) \/ ThreadExit(t))
          \/ Announce \/ NewSupplierAdmin \/ Shutdown \/ UNCHANGED vars => got' = got
    BY DEF AllocateRange, NextEvent, ThreadExit, Announce, NewSupplierAdmin, Shutdown, vars, alloc, progress
  <2> QED
    BY <2>2, <2>3, <2>4, <2>5, <2>6 DEF Next, ThreadStep
<1> QED
  BY <1>1, Invariance, PTL DEF Spec, NoneSkipped

--------------------------------------------------------------------------------
(* Every group implements the abstract rounds *)

LEMMA RoundsInit == Init => \A g \in Groups : Group(g)!Init
<1> SUFFICES ASSUME Init, NEW g \in Groups PROVE Group(g)!Init
  OBVIOUS
<1>1. Inv
  BY InvInit
<1>2. Members(lists[g]) \subseteq Admins
  BY <1>1, DueAreMembers DEF Inv, ListsSound
<1>3. AtStart(g) /\ done[g] = 0
  BY DEF Init, AtStart
<1>4. Due(lists[g]) = Members(lists[g])
  BY <1>1, <1>3 DEF Inv, Turns
<1> QED
  BY <1>2, <1>3, <1>4 DEF Group!Init

LEMMA RoundsNext ==
  ASSUME Inv, [Next]_vars, NEW g \in Groups
  PROVE  Group(g)!Next \/ UNCHANGED Group(g)!vars
<1>1. ASSUME UNCHANGED <<lists, done>> PROVE UNCHANGED Group(g)!vars
  BY <1>1 DEF Group!vars
<1>2. ASSUME lists'[g] = lists[g], done'[g] = done[g] PROVE UNCHANGED Group(g)!vars
  BY <1>2 DEF Group!vars
<1>3. ASSUME NEW t \in Threads, Visit(t) PROVE Group(g)!Next \/ UNCHANGED Group(g)!vars
  <2> DEFINE a == IterHead(lists[ix[t]])
  <2>1. /\ a \in Due(lists[ix[t]]) /\ a \in Admins
        /\ Members(lists'[ix[t]]) = Members(lists[ix[t]])
        /\ Due(lists'[ix[t]]) = Due(lists[ix[t]]) \ {a}
        /\ \A h \in Groups : h # ix[t] => lists'[h] = lists[h]
    BY <1>3, VisitEffect
  <2>2. done' = done
    BY <1>3 DEF Visit
  <2> HIDE DEF a
  <2>3. CASE g = ix[t]
    <3>1. Group(g)!Serve(a)
      BY <2>1, <2>2, <2>3 DEF Group!Serve
    <3> QED
      BY <3>1, <2>1 DEF Group!Next
  <2>4. CASE g # ix[t]
    BY <2>1, <2>2, <2>4, <1>2
  <2> QED
    BY <2>3, <2>4
<1>4. ASSUME NEW t \in Threads, EndOfGroup(t) PROVE Group(g)!Next \/ UNCHANGED Group(g)!vars
  <2>1. /\ Due(lists[ix[t]]) = {}
        /\ Members(lists'[ix[t]]) = Members(lists[ix[t]])
        /\ Due(lists'[ix[t]]) = Members(lists[ix[t]])
        /\ \A h \in Groups : h # ix[t] => lists'[h] = lists[h]
    BY <1>4, EndOfGroupEffect
  <2>2. at[t] = "pass" /\ done' = [done EXCEPT ![ix[t]] = ev[t]] /\ Serves(t, ix[t]) /\ ix[t] \in Groups
    BY <1>4, MidRound DEF EndOfGroup
  <2>3. CASE g = ix[t]
    <3>1. ~(g < ix[t])
      BY <2>3, NumGroupsPositive
    <3>2. done'[g] = ev[t] /\ ev[t] \in Nat
      BY <2>2, <2>3 DEF Inv, Types
    <3>3. done[g] < ev[t]
      BY <2>2, <2>3, <3>1 DEF Inv, Pace, Behind
    <3>4. Group(g)!EndRound
      BY <2>1, <2>3, <3>2, <3>3 DEF Group!EndRound, Inv, Types
    <3> QED
      BY <3>4 DEF Group!Next
  <2>4. CASE g # ix[t]
    <3>1. done'[g] = done[g]
      BY <2>2, <2>4 DEF Inv, Types
    <3> QED
      BY <2>1, <2>4, <3>1, <1>2
  <2> QED
    BY <2>3, <2>4
<1>5. CASE NewConsumerAdmin
  <2> DEFINE n == GroupOf(serial)
  <2>1. /\ serial \in Admins /\ serial \notin Members(lists[n])
        /\ Members(lists'[n]) = Members(lists[n]) \cup {serial}
        /\ Due(lists'[n]) = Due(lists[n]) \cup {serial}
        /\ \A h \in Groups : h # n => lists'[h] = lists[h]
    BY <1>5, NewConsumerAdminEffect
  <2>2. done' = done
    BY <1>5 DEF NewConsumerAdmin
  <2> HIDE DEF n
  <2>3. CASE g = n
    <3>1. Group(g)!Join(serial)
      BY <2>1, <2>2, <2>3 DEF Group!Join
    <3> QED
      BY <3>1, <2>1 DEF Group!Next
  <2>4. CASE g # n
    BY <2>1, <2>2, <2>4, <1>2
  <2> QED
    BY <2>3, <2>4
<1>6. ASSUME NEW a \in Admins, Unregister(a) PROVE Group(g)!Next \/ UNCHANGED Group(g)!vars
  <2> DEFINE n == GroupOf(a)
  <2>1. /\ a \in Members(lists[n])
        /\ Members(lists'[n]) = Members(lists[n]) \ {a}
        /\ Due(lists'[n]) = Due(lists[n]) \ {a}
        /\ \A h \in Groups : h # n => lists'[h] = lists[h]
    BY <1>6, UnregisterEffect
  <2>2. done' = done
    BY <1>6 DEF Unregister, progress
  <2> HIDE DEF n
  <2>3. CASE g = n
    <3>1. Group(g)!Leave(a)
      BY <2>1, <2>2, <2>3 DEF Group!Leave
    <3> QED
      BY <3>1, <1>6 DEF Group!Next
  <2>4. CASE g # n
    BY <2>1, <2>2, <2>4, <1>2
  <2> QED
    BY <2>3, <2>4
<1>7. (\E t \in Threads : AllocateRange(t) \/ NextEvent(t) \/ ThreadExit(t))
        \/ Announce \/ NewSupplierAdmin \/ Shutdown \/ UNCHANGED vars => UNCHANGED <<lists, done>>
  BY DEF AllocateRange, NextEvent, ThreadExit, Announce, NewSupplierAdmin, Shutdown, vars, alloc, progress
<1> QED
  BY <1>1, <1>3, <1>4, <1>5, <1>6, <1>7 DEF Next, ThreadStep

\* Every group, with its list, its iterator and the thread that serves it,
\* does what the abstract rounds allow, whoever comes and goes.
THEOREM GroupsImplementRounds == Spec => ImplementsRounds
<1> DEFINE Step == \A g \in Groups : Group(g)!Next \/ UNCHANGED Group(g)!vars
           Start == \A g \in Groups : Group(g)!Init
<1>1. Init => Start
  BY RoundsInit
<1>2. Inv /\ [Next]_vars => Step
  BY RoundsNext
<1>3. Spec => Start /\ [][Step]_vars
  <2> HIDE DEF Start, Step
  <2> QED
    BY <1>1, <1>2, Invariance, PTL DEF Spec
<1> QED
  BY <1>3 DEF ImplementsRounds, Start, Step

--------------------------------------------------------------------------------
(* The hand-over to the proxy threads: its inductive invariant *)

\* What a thread has in hand, and the locks it holds at each step.
Locked ==
  \A d \in ProxyThreads :
    /\ InHand(d) => pth[d].pxdis \in Dispatches
    /\ pth[d].at \in {"test", "sleepy", "lock"} => proxyLock = d
    /\ pth[d].at = "dispatch" =>
         adminLock[pth[d].pxdis.admin] = d /\ pth[d].pxdis.admin \in alive

\* An admin thread only works for its own admins, and on new events.
Handing ==
  \A t \in AdminThreads : ath[t] # Nothing =>
    /\ ath[t] \in Dispatches
    /\ ServerOf[ath[t].admin] = t /\ last[ath[t].admin] < ath[t].event

\* The events of an admin are in order in the queue, and they are newer than
\* what it was given.
QueueOrder ==
  /\ \A i, j \in DOMAIN proxyEvents :
       i < j /\ proxyEvents[i].admin = proxyEvents[j].admin =>
         proxyEvents[i].event < proxyEvents[j].event
  /\ \A i \in DOMAIN proxyEvents :
       /\ given[proxyEvents[i].admin] < proxyEvents[i].event
       /\ proxyEvents[i].event <= last[proxyEvents[i].admin]

\* What a proxy thread has in hand is older than what is in the queue, and what
\* it dispatches is older than what another thread waits for the admin with.
HandsFirst ==
  \A d \in ProxyThreads : InHand(d) =>
    /\ given[pth[d].pxdis.admin] < pth[d].pxdis.event
    /\ pth[d].pxdis.event <= last[pth[d].pxdis.admin]
    /\ \A i \in DOMAIN proxyEvents :
         proxyEvents[i].admin = pth[d].pxdis.admin => pth[d].pxdis.event < proxyEvents[i].event
    /\ \A x \in ProxyThreads :
         pth[d].at = "dispatch" /\ pth[x].at = "lock" /\ pth[x].pxdis.admin = pth[d].pxdis.admin =>
           pth[d].pxdis.event < pth[x].pxdis.event

Current == \A a \in ConsumerAdmins : given[a] <= last[a]

DispatchInv == DispatchTypeOK /\ Locked /\ Handing /\ QueueOrder /\ HandsFirst /\ Current

--------------------------------------------------------------------------------

\* Records and positions, for the provers.
LEMMA NothingElse ==
  /\ Nothing \notin Dispatches
  /\ \A p \in Dispatches : p.admin \in ConsumerAdmins /\ p.event \in 1..LastEvent
BY DispatchAssumption DEF Nothing, Dispatches

LEMMA Appended ==
  ASSUME DispatchTypeOK, NEW p \in Dispatches
  PROVE  /\ Append(proxyEvents, p) \in Seq(Dispatches)
         /\ Append(proxyEvents, p) # <<>>
         /\ DOMAIN Append(proxyEvents, p) = DOMAIN proxyEvents \cup {Len(proxyEvents) + 1}
         /\ \A i \in DOMAIN proxyEvents :
              i \in Nat /\ i < Len(proxyEvents) + 1 /\ Append(proxyEvents, p)[i] = proxyEvents[i]
         /\ Append(proxyEvents, p)[Len(proxyEvents) + 1] = p
         /\ Len(proxyEvents) + 1 \in Nat \ DOMAIN proxyEvents
<1>1. proxyEvents \in Seq(Dispatches)
  BY DEF DispatchTypeOK
<1> QED
  BY <1>1, AppendProperties, LenProperties

LEMMA HeadTaken ==
  ASSUME DispatchTypeOK, proxyEvents # <<>>
  PROVE  /\ Head(proxyEvents) = proxyEvents[1] /\ Head(proxyEvents) \in Dispatches
         /\ Tail(proxyEvents) \in Seq(Dispatches)
         /\ 1 \in DOMAIN proxyEvents
         /\ \A i \in DOMAIN proxyEvents :
              i \in Nat /\ (i = 1 \/ (1 < i /\ i - 1 \in DOMAIN Tail(proxyEvents)))
         /\ \A i \in DOMAIN Tail(proxyEvents) :
              /\ i \in Nat /\ i + 1 \in DOMAIN proxyEvents /\ 1 < i + 1
              /\ Tail(proxyEvents)[i] = proxyEvents[i + 1]
<1>1. /\ proxyEvents \in Seq(Dispatches)
      /\ Len(proxyEvents) \in Nat /\ DOMAIN proxyEvents = 1..Len(proxyEvents)
  BY LenProperties DEF DispatchTypeOK
<1>2. /\ Head(proxyEvents) \in Dispatches /\ Tail(proxyEvents) \in Seq(Dispatches)
      /\ Len(Tail(proxyEvents)) = Len(proxyEvents) - 1
      /\ \A i \in 1..Len(Tail(proxyEvents)) : Tail(proxyEvents)[i] = proxyEvents[i + 1]
  BY <1>1, HeadTailProperties
<1>3. DOMAIN Tail(proxyEvents) = 1..Len(Tail(proxyEvents))
  BY <1>2, LenProperties
<1>4. Len(proxyEvents) # 0
  BY <1>1, EmptySeq
<1> QED
  BY <1>1, <1>2, <1>3, <1>4

LEMMA MatchKeeps ==
  ASSUME DispatchInv, NEW t \in AdminThreads, NEW a \in ConsumerAdmins, Match(t, a)
  PROVE  DispatchInv'
<1> USE DispatchAssumption, NothingElse DEF DispatchInv, InHand
<1>1. DispatchTypeOK'
  <2>1. PICK e \in (last[a] + 1)..LastEvent : ath' = [ath EXCEPT ![t] = [admin |-> a, event |-> e]]
    BY DEF Match
  <2>2. [admin |-> a, event |-> e] \in Dispatches /\ last[a] < e
    BY DEF DispatchTypeOK, Dispatches
  <2> QED
    BY <2>1, <2>2 DEF DispatchTypeOK, Match
<1>2. Locked'
  BY DEF DispatchTypeOK, Locked, Match
<1>3. Handing'
  <2>1. PICK e \in (last[a] + 1)..LastEvent : ath' = [ath EXCEPT ![t] = [admin |-> a, event |-> e]]
    BY DEF Match
  <2>2. [admin |-> a, event |-> e] \in Dispatches /\ last[a] < e
    BY DEF DispatchTypeOK, Dispatches
  <2>3. [admin |-> a, event |-> e].admin = a /\ [admin |-> a, event |-> e].event = e
    OBVIOUS
  <2>4. ServerOf[a] = t /\ last' = last /\ ath \in [AdminThreads -> Dispatches \cup {Nothing}]
    BY DEF DispatchTypeOK, Match
  <2> QED
    BY <2>1, <2>2, <2>3, <2>4 DEF Handing
<1>4. QueueOrder'
  BY DEF DispatchTypeOK, QueueOrder, Match
<1>5. HandsFirst'
  BY DEF DispatchTypeOK, HandsFirst, Locked, Match
<1>6. Current'
  BY DEF DispatchTypeOK, Current, Match
<1> QED
  BY <1>1, <1>2, <1>3, <1>4, <1>5, <1>6

LEMMA HandOverKeeps ==
  ASSUME DispatchInv, NEW t \in AdminThreads, HandOver(t)
  PROVE  DispatchInv'
<1> USE DispatchAssumption, NothingElse DEF DispatchInv, InHand
<1>1. DispatchTypeOK'
  BY DEF DispatchTypeOK, Locked, HandOver, Awake, At, Steps
<1>2. Locked'
  BY DEF DispatchTypeOK, Locked, HandOver, Awake, At
<1>3. Handing'
  BY DEF DispatchTypeOK, Handing, HandOver, Awake, At
<1>4. QueueOrder'
  <2>1. /\ ath[t] \in Dispatches /\ ServerOf[ath[t].admin] = t
        /\ last[ath[t].admin] < ath[t].event
    BY DEF HandOver, Handing
  <2>2. /\ proxyEvents' = Append(proxyEvents, ath[t]) /\ given' = given
        /\ last' = [last EXCEPT ![ath[t].admin] = ath[t].event]
        /\ ath' = [ath EXCEPT ![t] = Nothing]
    BY DEF HandOver
  <2>3. /\ DOMAIN proxyEvents' = DOMAIN proxyEvents \cup {Len(proxyEvents) + 1}
        /\ \A i \in DOMAIN proxyEvents :
             /\ i \in Nat /\ i < Len(proxyEvents) + 1
             /\ proxyEvents'[i] = proxyEvents[i] /\ proxyEvents[i] \in Dispatches
        /\ proxyEvents'[Len(proxyEvents) + 1] = ath[t]
        /\ Len(proxyEvents) + 1 \in Nat
    BY <2>1, <2>2, Appended, ElementOfSeq, LenProperties DEF DispatchTypeOK
  <2>4. /\ last \in [ConsumerAdmins -> 0..LastEvent] /\ given \in [ConsumerAdmins -> 0..LastEvent]
    BY DEF DispatchTypeOK
  <2>5. /\ given[ath[t].admin] \in Nat /\ last[ath[t].admin] \in Nat
        /\ given[ath[t].admin] <= last[ath[t].admin]
    BY <2>1, <2>4 DEF Current
  <2>6. \A i \in DOMAIN proxyEvents' : i \in DOMAIN proxyEvents \/ i = Len(proxyEvents) + 1
    BY <2>3
  <2>7. \A i \in DOMAIN proxyEvents :
          /\ given[proxyEvents[i].admin] < proxyEvents[i].event
          /\ proxyEvents[i].event <= last[proxyEvents[i].admin]
    BY DEF QueueOrder
  <2>8. ASSUME NEW i \in DOMAIN proxyEvents', NEW j \in DOMAIN proxyEvents', i < j,
               proxyEvents'[i].admin = proxyEvents'[j].admin
        PROVE  proxyEvents'[i].event < proxyEvents'[j].event
    <3>1. i \in DOMAIN proxyEvents
      BY <2>3, <2>6, <2>8
    <3>2. CASE j \in DOMAIN proxyEvents
      BY <2>3, <2>8, <3>1, <3>2 DEF QueueOrder
    <3>3. CASE j = Len(proxyEvents) + 1
      BY <2>1, <2>3, <2>4, <2>7, <2>8, <3>1, <3>3
    <3> QED
      BY <2>6, <3>2, <3>3
  <2>9. ASSUME NEW i \in DOMAIN proxyEvents'
        PROVE  /\ given[proxyEvents'[i].admin] < proxyEvents'[i].event
               /\ proxyEvents'[i].event <= last'[proxyEvents'[i].admin]
    <3>1. CASE i \in DOMAIN proxyEvents
      BY <2>1, <2>2, <2>3, <2>4, <2>7, <3>1
    <3>2. CASE i = Len(proxyEvents) + 1
      BY <2>1, <2>2, <2>3, <2>4, <2>5, <3>2
    <3> QED
      BY <2>6, <3>1, <3>2
  <2> QED
    BY <2>2, <2>8, <2>9 DEF QueueOrder
<1>5. HandsFirst'
  <2>1. /\ ath[t] \in Dispatches /\ ServerOf[ath[t].admin] = t
        /\ last[ath[t].admin] < ath[t].event
    BY DEF HandOver, Handing
  <2>2. /\ proxyEvents' = Append(proxyEvents, ath[t]) /\ given' = given
        /\ last' = [last EXCEPT ![ath[t].admin] = ath[t].event]
        /\ ath' = [ath EXCEPT ![t] = Nothing]
    BY DEF HandOver
  <2>3. /\ DOMAIN proxyEvents' = DOMAIN proxyEvents \cup {Len(proxyEvents) + 1}
        /\ \A i \in DOMAIN proxyEvents :
             /\ i \in Nat /\ i < Len(proxyEvents) + 1
             /\ proxyEvents'[i] = proxyEvents[i] /\ proxyEvents[i] \in Dispatches
        /\ proxyEvents'[Len(proxyEvents) + 1] = ath[t]
        /\ Len(proxyEvents) + 1 \in Nat
    BY <2>1, <2>2, Appended, ElementOfSeq, LenProperties DEF DispatchTypeOK
  <2>4. /\ last \in [ConsumerAdmins -> 0..LastEvent] /\ given \in [ConsumerAdmins -> 0..LastEvent]
    BY DEF DispatchTypeOK
  <2>5. /\ pth \in [ProxyThreads -> [at : Steps, pxdis : Dispatches \cup {Nothing}]]
        /\ \A x \in ProxyThreads : InHand(x)' => InHand(x)
        /\ \A x \in ProxyThreads : InHand(x) => pth'[x] = pth[x] /\ pth[x].pxdis \in Dispatches
    BY DEF DispatchTypeOK, HandOver, Awake, At, Locked
  <2> SUFFICES ASSUME NEW d \in ProxyThreads, InHand(d)'
               PROVE  /\ given[pth[d].pxdis.admin] < pth[d].pxdis.event
                      /\ pth[d].pxdis.event <= last'[pth[d].pxdis.admin]
                      /\ \A i \in DOMAIN proxyEvents' :
                           proxyEvents'[i].admin = pth[d].pxdis.admin =>
                             pth[d].pxdis.event < proxyEvents'[i].event
                      /\ \A x \in ProxyThreads :
                           pth[d].at = "dispatch" /\ pth'[x].at = "lock"
                             /\ pth[x].pxdis.admin = pth[d].pxdis.admin =>
                               pth[d].pxdis.event < pth[x].pxdis.event
    BY <2>2, <2>5 DEF HandsFirst
  <2> QED
    BY <2>1, <2>2, <2>3, <2>4, <2>5 DEF HandsFirst
<1>6. Current'
  <2>1. /\ ath[t] \in Dispatches /\ ServerOf[ath[t].admin] = t
        /\ last[ath[t].admin] < ath[t].event
    BY DEF HandOver, Handing
  <2>2. /\ proxyEvents' = Append(proxyEvents, ath[t]) /\ given' = given
        /\ last' = [last EXCEPT ![ath[t].admin] = ath[t].event]
        /\ ath' = [ath EXCEPT ![t] = Nothing]
    BY DEF HandOver
  <2>3. /\ DOMAIN proxyEvents' = DOMAIN proxyEvents \cup {Len(proxyEvents) + 1}
        /\ \A i \in DOMAIN proxyEvents :
             /\ i \in Nat /\ i < Len(proxyEvents) + 1
             /\ proxyEvents'[i] = proxyEvents[i] /\ proxyEvents[i] \in Dispatches
        /\ proxyEvents'[Len(proxyEvents) + 1] = ath[t]
        /\ Len(proxyEvents) + 1 \in Nat
    BY <2>1, <2>2, Appended, ElementOfSeq, LenProperties DEF DispatchTypeOK
  <2>4. /\ last \in [ConsumerAdmins -> 0..LastEvent] /\ given \in [ConsumerAdmins -> 0..LastEvent]
    BY DEF DispatchTypeOK
  <2> QED
    BY <2>1, <2>2, <2>4 DEF Current
<1> QED
  BY <1>1, <1>2, <1>3, <1>4, <1>5, <1>6

LEMMA AdminExitKeeps ==
  ASSUME DispatchInv, NEW t \in AdminThreads, AdminExit(t)
  PROVE  DispatchInv'
<1> USE DispatchAssumption, NothingElse DEF DispatchInv, InHand
<1>1. DispatchTypeOK'
  BY DEF DispatchTypeOK, Locked, AdminExit, Steps
<1>2. Locked'
  BY DEF DispatchTypeOK, Locked, AdminExit
<1>3. Handing'
  BY DEF DispatchTypeOK, Handing, AdminExit
<1>4. QueueOrder'
  BY DEF DispatchTypeOK, QueueOrder, AdminExit
<1>5. HandsFirst'
  BY DEF DispatchTypeOK, HandsFirst, Locked, AdminExit
<1>6. Current'
  BY DEF DispatchTypeOK, Current, AdminExit
<1> QED
  BY <1>1, <1>2, <1>3, <1>4, <1>5, <1>6

LEMMA LockKeeps ==
  ASSUME DispatchInv, NEW d \in ProxyThreads, Lock(d)
  PROVE  DispatchInv'
<1> USE DispatchAssumption, NothingElse DEF DispatchInv, InHand
<1>1. DispatchTypeOK'
  BY DEF DispatchTypeOK, Lock, Steps
<1>2. Locked'
  BY DEF DispatchTypeOK, Locked, Lock
<1>3. Handing'
  BY DEF DispatchTypeOK, Handing, Lock
<1>4. QueueOrder'
  BY DEF DispatchTypeOK, QueueOrder, Lock
<1>5. HandsFirst'
  BY DEF DispatchTypeOK, HandsFirst, Locked, Lock
<1>6. Current'
  BY DEF DispatchTypeOK, Current, Lock
<1> QED
  BY <1>1, <1>2, <1>3, <1>4, <1>5, <1>6

LEMMA ExitKeeps ==
  ASSUME DispatchInv, NEW d \in ProxyThreads, Exit(d)
  PROVE  DispatchInv'
<1> USE DispatchAssumption, NothingElse DEF DispatchInv, InHand
<1>1. DispatchTypeOK'
  BY DEF DispatchTypeOK, Exit, Steps
<1>2. Locked'
  BY DEF DispatchTypeOK, Locked, Exit
<1>3. Handing'
  BY DEF DispatchTypeOK, Handing, Exit
<1>4. QueueOrder'
  BY DEF DispatchTypeOK, QueueOrder, Exit
<1>5. HandsFirst'
  BY DEF DispatchTypeOK, HandsFirst, Locked, Exit
<1>6. Current'
  BY DEF DispatchTypeOK, Current, Exit
<1> QED
  BY <1>1, <1>2, <1>3, <1>4, <1>5, <1>6

LEMMA FindEmptyKeeps ==
  ASSUME DispatchInv, NEW d \in ProxyThreads, FindEmpty(d)
  PROVE  DispatchInv'
<1> USE DispatchAssumption, NothingElse DEF DispatchInv, InHand
<1>1. DispatchTypeOK'
  BY DEF DispatchTypeOK, FindEmpty, Steps
<1>2. Locked'
  BY DEF DispatchTypeOK, Locked, FindEmpty
<1>3. Handing'
  BY DEF DispatchTypeOK, Handing, FindEmpty
<1>4. QueueOrder'
  BY DEF DispatchTypeOK, QueueOrder, FindEmpty
<1>5. HandsFirst'
  BY DEF DispatchTypeOK, HandsFirst, Locked, FindEmpty
<1>6. Current'
  BY DEF DispatchTypeOK, Current, FindEmpty
<1> QED
  BY <1>1, <1>2, <1>3, <1>4, <1>5, <1>6

LEMMA SleepKeeps ==
  ASSUME DispatchInv, NEW d \in ProxyThreads, Sleep(d)
  PROVE  DispatchInv'
<1> USE DispatchAssumption, NothingElse DEF DispatchInv, InHand
<1>1. DispatchTypeOK'
  BY DEF DispatchTypeOK, Sleep, Steps
<1>2. Locked'
  BY DEF DispatchTypeOK, Locked, Sleep
<1>3. Handing'
  BY DEF DispatchTypeOK, Handing, Sleep
<1>4. QueueOrder'
  BY DEF DispatchTypeOK, QueueOrder, Sleep
<1>5. HandsFirst'
  BY DEF DispatchTypeOK, HandsFirst, Locked, Sleep
<1>6. Current'
  BY DEF DispatchTypeOK, Current, Sleep
<1> QED
  BY <1>1, <1>2, <1>3, <1>4, <1>5, <1>6

LEMMA TakeHeadKeeps ==
  ASSUME DispatchInv, NEW d \in ProxyThreads, TakeHead(d)
  PROVE  DispatchInv'
<1> USE DispatchAssumption, NothingElse DEF DispatchInv, InHand
<1>1. DispatchTypeOK'
  BY DEF DispatchTypeOK, Locked, TakeHead, At, Steps
<1>2. Locked'
  BY DEF DispatchTypeOK, Locked, TakeHead, At
<1>3. Handing'
  BY DEF DispatchTypeOK, Handing, TakeHead, At
<1>4. QueueOrder'
  <2>1. /\ Head(proxyEvents) = proxyEvents[1] /\ proxyEvents[1] \in Dispatches
        /\ 1 \in DOMAIN proxyEvents
        /\ \A i \in DOMAIN Tail(proxyEvents) :
             /\ i \in Nat /\ i + 1 \in DOMAIN proxyEvents /\ 1 < i + 1
             /\ Tail(proxyEvents)[i] = proxyEvents[i + 1]
    BY HeadTaken DEF TakeHead
  <2>2. /\ proxyEvents' = Tail(proxyEvents) /\ given' = given /\ last' = last
        /\ pth' = [pth EXCEPT ![d] = [at |-> "lock", pxdis |-> proxyEvents[1]]]
        /\ pth[d].at = "test"
    BY <2>1 DEF TakeHead, At
  <2> QED
    BY <2>1, <2>2 DEF QueueOrder
<1>5. HandsFirst'
  <2>1. /\ Head(proxyEvents) = proxyEvents[1] /\ proxyEvents[1] \in Dispatches
        /\ 1 \in DOMAIN proxyEvents
        /\ \A i \in DOMAIN Tail(proxyEvents) :
             /\ i \in Nat /\ i + 1 \in DOMAIN proxyEvents /\ 1 < i + 1
             /\ Tail(proxyEvents)[i] = proxyEvents[i + 1]
    BY HeadTaken DEF TakeHead
  <2>2. /\ proxyEvents' = Tail(proxyEvents) /\ given' = given /\ last' = last
        /\ pth' = [pth EXCEPT ![d] = [at |-> "lock", pxdis |-> proxyEvents[1]]]
        /\ pth[d].at = "test"
    BY <2>1 DEF TakeHead, At
  <2>3. /\ pth \in [ProxyThreads -> [at : Steps, pxdis : Dispatches \cup {Nothing}]]
        /\ \A x \in ProxyThreads : pth[x].at = "lock" => x = d
    BY <2>2, DispatchAssumption DEF DispatchTypeOK, Locked
  <2>4. /\ pth'[d].pxdis = proxyEvents[1] /\ pth'[d].at = "lock"
        /\ \A x \in ProxyThreads \ {d} : pth'[x] = pth[x]
    BY <2>2, <2>3
  <2>5. /\ given[proxyEvents[1].admin] < proxyEvents[1].event
        /\ proxyEvents[1].event <= last[proxyEvents[1].admin]
        /\ \A i \in DOMAIN Tail(proxyEvents) :
             proxyEvents[i + 1].admin = proxyEvents[1].admin =>
               proxyEvents[1].event < proxyEvents[i + 1].event
    BY <2>1 DEF QueueOrder
  <2>6. \A x \in ProxyThreads \ {d} : InHand(x) =>
          /\ given[pth[x].pxdis.admin] < pth[x].pxdis.event
          /\ pth[x].pxdis.event <= last[pth[x].pxdis.admin]
          /\ \A i \in DOMAIN proxyEvents :
               proxyEvents[i].admin = pth[x].pxdis.admin =>
                 pth[x].pxdis.event < proxyEvents[i].event
    BY DEF HandsFirst
  <2> SUFFICES ASSUME NEW x \in ProxyThreads, InHand(x)'
               PROVE  /\ given[pth'[x].pxdis.admin] < pth'[x].pxdis.event
                      /\ pth'[x].pxdis.event <= last[pth'[x].pxdis.admin]
                      /\ \A i \in DOMAIN proxyEvents' :
                           proxyEvents'[i].admin = pth'[x].pxdis.admin =>
                             pth'[x].pxdis.event < proxyEvents'[i].event
                      /\ \A y \in ProxyThreads :
                           pth'[x].at = "dispatch" /\ pth'[y].at = "lock"
                             /\ pth'[y].pxdis.admin = pth'[x].pxdis.admin =>
                               pth'[x].pxdis.event < pth'[y].pxdis.event
    BY <2>2 DEF HandsFirst
  <2>7. CASE x = d
    BY <2>1, <2>2, <2>4, <2>5, <2>7
  <2>8. CASE x # d
    <3>1. InHand(x) /\ pth'[x] = pth[x]
      BY <2>4, <2>8
    <3>2. \A y \in ProxyThreads : pth'[y].at = "lock" => y = d
      BY <2>3, <2>4
    <3> QED
      BY <2>1, <2>2, <2>4, <2>6, <2>8, <3>1, <3>2
  <2> QED
    BY <2>7, <2>8
<1>6. Current'
  BY DEF DispatchTypeOK, Current, TakeHead, At
<1> QED
  BY <1>1, <1>2, <1>3, <1>4, <1>5, <1>6

LEMMA LockAdminKeeps ==
  ASSUME DispatchInv, NEW d \in ProxyThreads, LockAdmin(d)
  PROVE  DispatchInv'
<1> USE DispatchAssumption, NothingElse DEF DispatchInv, InHand
<1>1. DispatchTypeOK'
  <2>1. pth[d].pxdis.admin \in ConsumerAdmins /\ pth[d].at = "lock"
    BY DEF LockAdmin, Locked
  <2>2. pth' \in [ProxyThreads -> [at : Steps, pxdis : Dispatches \cup {Nothing}]]
    BY DEF LockAdmin, DispatchTypeOK, Steps
  <2>3. /\ adminLock' \in [ConsumerAdmins -> ProxyThreads \cup {None}]
        /\ proxyLock' \in ProxyThreads \cup {None}
    BY <2>1 DEF LockAdmin, DispatchTypeOK
  <2> QED
    BY <2>2, <2>3 DEF LockAdmin, DispatchTypeOK
<1>2. Locked'
  BY DEF DispatchTypeOK, Locked, LockAdmin
<1>3. Handing'
  BY DEF DispatchTypeOK, Handing, LockAdmin
<1>4. QueueOrder'
  BY DEF DispatchTypeOK, QueueOrder, LockAdmin
<1>5. HandsFirst'
  BY DEF DispatchTypeOK, HandsFirst, Locked, LockAdmin
<1>6. Current'
  BY DEF DispatchTypeOK, Current, LockAdmin
<1> QED
  BY <1>1, <1>2, <1>3, <1>4, <1>5, <1>6

LEMMA LoseAdminKeeps ==
  ASSUME DispatchInv, NEW d \in ProxyThreads, LoseAdmin(d)
  PROVE  DispatchInv'
<1> USE DispatchAssumption, NothingElse DEF DispatchInv, InHand
<1>1. DispatchTypeOK'
  BY DEF DispatchTypeOK, Locked, LoseAdmin, At, Steps
<1>2. Locked'
  BY DEF DispatchTypeOK, Locked, LoseAdmin, At
<1>3. Handing'
  BY DEF DispatchTypeOK, Handing, LoseAdmin, At
<1>4. QueueOrder'
  BY DEF DispatchTypeOK, QueueOrder, LoseAdmin, At
<1>5. HandsFirst'
  BY DEF DispatchTypeOK, HandsFirst, Locked, LoseAdmin, At
<1>6. Current'
  BY DEF DispatchTypeOK, Current, LoseAdmin, At
<1> QED
  BY <1>1, <1>2, <1>3, <1>4, <1>5, <1>6

LEMMA DispatchKeeps ==
  ASSUME DispatchInv, NEW d \in ProxyThreads, Dispatch(d)
  PROVE  DispatchInv'
<1> USE DispatchAssumption, NothingElse DEF DispatchInv, InHand
<1>1. DispatchTypeOK'
  BY DEF DispatchTypeOK, Locked, Dispatch, At, Steps
<1>2. Locked'
  BY DEF DispatchTypeOK, Locked, Dispatch, At
<1>3. Handing'
  BY DEF DispatchTypeOK, Handing, Dispatch, At
<1>4. QueueOrder'
  <2>1. /\ given' = [given EXCEPT ![pth[d].pxdis.admin] = pth[d].pxdis.event]
        /\ proxyEvents' = proxyEvents /\ last' = last /\ InHand(d)
    BY DEF Dispatch
  <2>2. \A i \in DOMAIN proxyEvents :
          proxyEvents[i].admin = pth[d].pxdis.admin => pth[d].pxdis.event < proxyEvents[i].event
    BY <2>1 DEF HandsFirst
  <2>3. \A i \in DOMAIN proxyEvents : proxyEvents[i] \in Dispatches
    BY ElementOfSeq, LenProperties DEF DispatchTypeOK
  <2> QED
    BY <2>1, <2>2, <2>3 DEF QueueOrder, DispatchTypeOK
<1>5. HandsFirst'
  BY DEF DispatchTypeOK, HandsFirst, Locked, Dispatch, At
<1>6. Current'
  <2>1. /\ given' = [given EXCEPT ![pth[d].pxdis.admin] = pth[d].pxdis.event]
        /\ last' = last /\ InHand(d)
    BY DEF Dispatch
  <2>2. pth[d].pxdis.event <= last[pth[d].pxdis.admin]
    BY <2>1 DEF HandsFirst
  <2> QED
    BY <2>1, <2>2 DEF Current, DispatchTypeOK
<1> QED
  BY <1>1, <1>2, <1>3, <1>4, <1>5, <1>6

LEMMA DestroyAdminKeeps ==
  ASSUME DispatchInv, NEW a \in ConsumerAdmins, DestroyAdmin(a)
  PROVE  DispatchInv'
<1> USE DispatchAssumption, NothingElse DEF DispatchInv, InHand
<1>1. DispatchTypeOK'
  BY DEF DispatchTypeOK, Locked, DestroyAdmin, Steps
<1>2. Locked'
  BY DEF DispatchTypeOK, Locked, DestroyAdmin
<1>3. Handing'
  BY DEF DispatchTypeOK, Handing, DestroyAdmin
<1>4. QueueOrder'
  BY DEF DispatchTypeOK, QueueOrder, DestroyAdmin
<1>5. HandsFirst'
  BY DEF DispatchTypeOK, HandsFirst, Locked, DestroyAdmin
<1>6. Current'
  BY DEF DispatchTypeOK, Current, DestroyAdmin
<1> QED
  BY <1>1, <1>2, <1>3, <1>4, <1>5, <1>6

LEMMA DispatchStarts ==
  ASSUME DispatchInit
  PROVE  DispatchInv
<1>1. DOMAIN proxyEvents = {} /\ proxyEvents \in Seq(Dispatches)
  BY DEF DispatchInit
<1> QED
  BY <1>1, DispatchAssumption
  DEF DispatchInit, DispatchInv, DispatchTypeOK, Locked, Handing, QueueOrder, HandsFirst, Current,
      InHand, At, Steps, Nothing

LEMMA DispatchGoesOn ==
  ASSUME DispatchInv, [DispatchNext]_dispatchVars
  PROVE  DispatchInv'
<1>1. CASE UNCHANGED dispatchVars
  BY <1>1 DEF dispatchVars, DispatchInv, DispatchTypeOK, Locked, Handing, QueueOrder, HandsFirst, Current, InHand
<1>2. ASSUME NEW t \in AdminThreads, AdminStep(t) PROVE DispatchInv'
  BY <1>2, HandOverKeeps, AdminExitKeeps DEF AdminStep
<1>3. ASSUME NEW t \in AdminThreads, NEW a \in ConsumerAdmins, Match(t, a) PROVE DispatchInv'
  BY <1>3, MatchKeeps
<1>4. ASSUME NEW d \in ProxyThreads, ProxyStep(d) PROVE DispatchInv'
  BY <1>4, LockKeeps, ExitKeeps, FindEmptyKeeps, SleepKeeps, TakeHeadKeeps, LockAdminKeeps,
     LoseAdminKeeps, DispatchKeeps DEF ProxyStep
<1>5. ASSUME NEW a \in ConsumerAdmins, DestroyAdmin(a) PROVE DispatchInv'
  BY <1>5, DestroyAdminKeeps
<1>6. CASE BeginShutdown \/ JoinThreads
  BY <1>6 DEF BeginShutdown, JoinThreads, DispatchInv, DispatchTypeOK, Locked, Handing, QueueOrder, HandsFirst, Current, InHand
<1>7. CASE Broadcast
  <2>1. /\ pth' = Awake /\ stage' = "told"
        /\ UNCHANGED <<ath, exited, proxyEvents, proxyLock, adminLock, alive, last, given>>
    BY <1>7 DEF Broadcast
  <2>2. /\ pth' \in [ProxyThreads -> [at : Steps, pxdis : Dispatches \cup {Nothing}]]
        /\ \A d \in ProxyThreads : pth'[d].at \notin {"top", "wait"} => pth'[d] = pth[d]
    BY <2>1 DEF Awake, At, Steps, DispatchInv, DispatchTypeOK
  <2>3. DispatchTypeOK'
    BY <2>1, <2>2 DEF DispatchInv, DispatchTypeOK
  <2>4. Locked'
    BY <2>1, <2>2 DEF DispatchInv, Locked, InHand
  <2>5. Handing' /\ QueueOrder' /\ Current'
    BY <2>1 DEF DispatchInv, Handing, QueueOrder, Current
  <2>6. HandsFirst'
    BY <2>1, <2>2 DEF DispatchInv, HandsFirst, InHand
  <2> QED
    BY <2>3, <2>4, <2>5, <2>6 DEF DispatchInv
<1> QED
  BY <1>1, <1>2, <1>3, <1>4, <1>5, <1>6, <1>7 DEF DispatchNext

\* The invariant of the hand-over in EventChannel_i holds in every state, for
\* any number of admins, admin threads and proxy threads.
THEOREM DispatchInvariance == DispatchSpec => []DispatchInv
BY DispatchStarts, DispatchGoesOn, PTL DEF DispatchSpec

\* The variables of admin_dispatch() and proxy_dispatch() keep their types.
THEOREM DispatchTypeCorrect == DispatchSpec => []DispatchTypeOK
<1>1. DispatchInv => DispatchTypeOK
  BY DEF DispatchInv
<1> QED
  BY <1>1, DispatchInvariance, PTL

--------------------------------------------------------------------------------
(* Delivery                                                                 *)

\* What is pending for an admin: given a step that leaves the queue and the
\* hands as they are.
LEMMA Same ==
  ASSUME NEW a \in ConsumerAdmins, UNCHANGED <<proxyEvents, last, given, alive>>,
         \A d \in ProxyThreads : /\ InHand(d)' <=> InHand(d)
                                 /\ InHand(d) => pth'[d].pxdis = pth[d].pxdis
  PROVE  UNCHANGED Delivered(a)!vars
<1>1. Pending(a)' = Pending(a)
  BY DEF Pending, Queued
<1> QED
  BY <1>1 DEF Delivered!vars

\* A thread is through with the event it has in hand: it was the oldest one,
\* and it is not pending any more.
LEMMA Through ==
  ASSUME DispatchInv, NEW d \in ProxyThreads, InHand(d), NEW p, p = pth[d].pxdis,
         proxyEvents' = proxyEvents, pth' = [pth EXCEPT ![d] = At("top", Nothing)],
         \A x \in ProxyThreads : pth[x].at = "dispatch" /\ pth[x].pxdis.admin = p.admin => x = d
  PROVE  /\ p \in Dispatches /\ p.event \in Pending(p.admin)
         /\ \A f \in Pending(p.admin) : p.event <= f
         /\ Pending(p.admin)' = Pending(p.admin) \ {p.event}
         /\ \A a \in ConsumerAdmins \ {p.admin} : Pending(a)' = Pending(a)
<1>1. p \in Dispatches /\ p.event \in Nat
  BY NothingElse DEF DispatchInv, Locked
<1>2. \A i \in DOMAIN proxyEvents : proxyEvents[i].admin = p.admin =>
        p.event < proxyEvents[i].event /\ proxyEvents[i].event \in Nat
  <2>1. \A i \in DOMAIN proxyEvents : proxyEvents[i] \in Dispatches
    BY ElementOfSeq, LenProperties DEF DispatchInv, DispatchTypeOK
  <2> QED
    BY <2>1, NothingElse DEF DispatchInv, HandsFirst
<1>3. \A x \in ProxyThreads \ {d} : InHand(x) /\ pth[x].pxdis.admin = p.admin =>
        p.event < pth[x].pxdis.event /\ pth[x].pxdis.event \in Nat
  <2> SUFFICES ASSUME NEW x \in ProxyThreads \ {d}, InHand(x), pth[x].pxdis.admin = p.admin
               PROVE  p.event < pth[x].pxdis.event /\ pth[x].pxdis.event \in Nat
    OBVIOUS
  <2>1. pth[x].at = "lock" /\ proxyLock = x /\ pth[x].pxdis \in Dispatches
    BY DEF DispatchInv, Locked, InHand
  <2>2. pth[d].at = "dispatch"
    BY <2>1 DEF DispatchInv, Locked, InHand
  <2> QED
    BY <2>1, <2>2, NothingElse DEF DispatchInv, HandsFirst, InHand
<1>4. p.event \in Pending(p.admin) /\ \A f \in Pending(p.admin) : p.event <= f
  BY <1>1, <1>2, <1>3 DEF Pending, Queued
<1>5. pth \in [ProxyThreads -> [at : Steps, pxdis : Dispatches \cup {Nothing}]]
  BY DEF DispatchInv, DispatchTypeOK
<1>6. \A x \in ProxyThreads : InHand(x)' <=> InHand(x) /\ x # d
  BY <1>5 DEF InHand, At
<1>7. \A x \in ProxyThreads \ {d} : pth'[x] = pth[x]
  BY <1>5
<1>8. Pending(p.admin)' = Pending(p.admin) \ {p.event}
  <2> DEFINE Q == {proxyEvents[i].event :
                     i \in {j \in DOMAIN proxyEvents : proxyEvents[j].admin = p.admin}}
             H(S) == {pth[x].pxdis.event :
                        x \in {y \in S : InHand(y) /\ pth[y].pxdis.admin = p.admin}}
  <2>1. Pending(p.admin) = Q \cup H(ProxyThreads)
    BY DEF Pending, Queued
  <2>2. Pending(p.admin)' = Q \cup H(ProxyThreads \ {d})
    BY <1>6, <1>7 DEF Pending, Queued
  <2>3. H(ProxyThreads) = H(ProxyThreads \ {d}) \cup {p.event}
    OBVIOUS
  <2>4. p.event \notin Q /\ p.event \notin H(ProxyThreads \ {d})
    BY <1>1, <1>2, <1>3
  <2> HIDE DEF Q, H
  <2> QED
    BY <2>1, <2>2, <2>3, <2>4
<1>9. ASSUME NEW a \in ConsumerAdmins \ {p.admin} PROVE Pending(a)' = Pending(a)
  BY <1>6, <1>7 DEF Pending, Queued
<1> QED
  BY <1>1, <1>4, <1>8, <1>9

LEMMA DeliveryInit ==
  ASSUME DispatchInit, NEW a \in ConsumerAdmins
  PROVE  Delivered(a)!Init
<1>1. Pending(a) = {}
  BY DEF DispatchInit, Pending, Queued, InHand, At
<1> QED
  BY <1>1 DEF DispatchInit, Delivered!Init

\* Each step is a step of Delivery for one admin at most.
LEMMA DeliveryNext ==
  ASSUME DispatchInv, [DispatchNext]_dispatchVars, NEW a \in ConsumerAdmins
  PROVE  Delivered(a)!Next \/ UNCHANGED Delivered(a)!vars
<1>1. pth \in [ProxyThreads -> [at : Steps, pxdis : Dispatches \cup {Nothing}]]
  BY DEF DispatchInv, DispatchTypeOK
<1>2. CASE UNCHANGED dispatchVars
  BY <1>2, Same DEF dispatchVars, InHand
<1>3. ASSUME NEW t \in AdminThreads, HandOver(t)
      PROVE  Delivered(a)!Next \/ UNCHANGED Delivered(a)!vars
  <2>1. /\ ath[t] \in Dispatches /\ ath[t].admin \in ConsumerAdmins /\ ath[t].event \in Nat
        /\ last[ath[t].admin] < ath[t].event
    BY <1>3, NothingElse DEF HandOver, DispatchInv, Handing
  <2>2. /\ proxyEvents' = Append(proxyEvents, ath[t])
        /\ last' = [last EXCEPT ![ath[t].admin] = ath[t].event]
        /\ given' = given /\ alive' = alive
    BY <1>3 DEF HandOver
  <2>3. /\ DOMAIN proxyEvents' = DOMAIN proxyEvents \cup {Len(proxyEvents) + 1}
        /\ \A i \in DOMAIN proxyEvents : proxyEvents'[i] = proxyEvents[i]
        /\ proxyEvents'[Len(proxyEvents) + 1] = ath[t]
    BY <2>1, <2>2, Appended DEF DispatchInv
  <2>4. \A d \in ProxyThreads : (InHand(d)' <=> InHand(d)) /\ (InHand(d) => pth'[d] = pth[d])
    BY <1>1, <1>3 DEF HandOver, Awake, At, InHand
  <2>5. CASE ath[t].admin = a
    <3>1. Pending(a)' = Pending(a) \cup {ath[t].event}
      BY <2>3, <2>4, <2>5 DEF Pending, Queued
    <3>2. last'[a] = ath[t].event /\ last'[a] > last[a] /\ last'[a] \in Nat
      BY <2>1, <2>2, <2>5 DEF DispatchInv, DispatchTypeOK
    <3>3. Delivered(a)!Put
      BY <2>2, <3>1, <3>2 DEF Delivered!Put
    <3> QED
      BY <3>3 DEF Delivered!Next
  <2>6. CASE ath[t].admin # a
    <3>1. Pending(a)' = Pending(a)
      BY <2>3, <2>4, <2>6 DEF Pending, Queued
    <3>2. last'[a] = last[a]
      BY <2>2, <2>6 DEF DispatchInv, DispatchTypeOK
    <3> QED
      BY <2>2, <3>1, <3>2 DEF Delivered!vars
  <2> QED
    BY <2>5, <2>6
<1>4. ASSUME NEW d \in ProxyThreads, TakeHead(d) PROVE UNCHANGED Delivered(a)!vars
  <2>1. /\ proxyEvents[1] = Head(proxyEvents) /\ 1 \in DOMAIN proxyEvents
        /\ \A i \in DOMAIN proxyEvents : i = 1 \/ i - 1 \in DOMAIN Tail(proxyEvents)
        /\ \A i \in DOMAIN Tail(proxyEvents) :
             /\ i \in Nat /\ i + 1 \in DOMAIN proxyEvents
             /\ Tail(proxyEvents)[i] = proxyEvents[i + 1]
    BY <1>4, HeadTaken DEF TakeHead, DispatchInv
  <2>2. /\ \A x \in ProxyThreads \ {d} : pth'[x] = pth[x]
        /\ pth'[d].at = "lock" /\ pth'[d].pxdis = proxyEvents[1] /\ pth[d].at = "test"
        /\ proxyEvents' = Tail(proxyEvents) /\ UNCHANGED <<last, given, alive>>
    BY <1>1, <1>4, <2>1 DEF TakeHead, At
  <2> DEFINE T == {i \in DOMAIN Tail(proxyEvents) : Tail(proxyEvents)[i].admin = a}
             Q == {proxyEvents[i].event : i \in Queued(a)}
             R == {Tail(proxyEvents)[i].event : i \in T}
             H == {pth[x].pxdis.event :
                     x \in {y \in ProxyThreads : InHand(y) /\ pth[y].pxdis.admin = a}}
             F == IF proxyEvents[1].admin = a THEN {proxyEvents[1].event} ELSE {}
  <2>3. Pending(a) = Q \cup H
    BY DEF Pending
  <2>4. Q = F \cup R
    <3>1. \A i \in DOMAIN proxyEvents : i \in Nat
      BY HeadTaken, <1>4 DEF TakeHead, DispatchInv
    <3>2. ASSUME NEW i \in Queued(a) PROVE proxyEvents[i].event \in F \cup R
      <4>1. i \in DOMAIN proxyEvents /\ i \in Nat /\ proxyEvents[i].admin = a
        BY <3>1, <3>2 DEF Queued
      <4>2. CASE i = 1
        BY <4>1, <4>2
      <4>3. CASE i # 1
        <5>1. i - 1 \in DOMAIN Tail(proxyEvents) /\ (i - 1) + 1 = i
          BY <2>1, <4>1, <4>3
        <5>2. Tail(proxyEvents)[i - 1] = proxyEvents[i]
          BY <2>1, <5>1
        <5> QED
          BY <4>1, <5>1, <5>2
      <4> QED
        BY <4>2, <4>3
    <3>3. R \subseteq Q
      BY <2>1 DEF Queued
    <3>4. F \subseteq Q
      BY <2>1 DEF Queued
    <3> QED
      BY <3>2, <3>3, <3>4
  <2>5. Pending(a)' = R \cup (H \cup F)
    <3>1. \A x \in ProxyThreads : InHand(x)' <=> (InHand(x) \/ x = d)
      BY <2>2 DEF InHand
    <3>2. {pth'[x].pxdis.event :
             x \in {y \in ProxyThreads : InHand(y)' /\ pth'[y].pxdis.admin = a}} = H \cup F
      BY <2>2, <3>1 DEF InHand
    <3> QED
      BY <2>2, <3>2 DEF Pending, Queued
  <2>6. Pending(a)' = Pending(a)
    <3> HIDE DEF Q, R, H, F
    <3> QED
      BY <2>3, <2>4, <2>5
  <2> QED
    BY <2>2, <2>6 DEF Delivered!vars
<1>5. ASSUME NEW d \in ProxyThreads, LoseAdmin(d)
      PROVE  Delivered(a)!Next \/ UNCHANGED Delivered(a)!vars
  <2>1. PICK p : p = pth[d].pxdis
    OBVIOUS
  <2>2. /\ InHand(d) /\ p.admin \notin alive
        /\ proxyEvents' = proxyEvents /\ UNCHANGED <<last, given, alive>>
        /\ pth' = [pth EXCEPT ![d] = At("top", Nothing)]
    BY <1>5, <2>1 DEF LoseAdmin, InHand
  <2>3. \A x \in ProxyThreads : pth[x].at = "dispatch" /\ pth[x].pxdis.admin = p.admin => x = d
    BY <2>2 DEF DispatchInv, Locked
  <2>4. /\ p \in Dispatches /\ p.event \in Pending(p.admin)
        /\ \A f \in Pending(p.admin) : p.event <= f
        /\ Pending(p.admin)' = Pending(p.admin) \ {p.event}
        /\ \A b \in ConsumerAdmins \ {p.admin} : Pending(b)' = Pending(b)
    BY <2>1, <2>2, <2>3, Through, Zenon
  <2>5. CASE p.admin = a
    <3>1. Delivered(a)!Drop(p.event)
      BY <2>2, <2>4, <2>5 DEF Delivered!Drop, Delivered!Oldest
    <3> QED
      BY <2>4, <2>5, <3>1 DEF Delivered!Next
  <2>6. CASE p.admin # a
    BY <2>2, <2>4, <2>6 DEF Delivered!vars
  <2> QED
    BY <2>5, <2>6
<1>6. ASSUME NEW d \in ProxyThreads, Dispatch(d)
      PROVE  Delivered(a)!Next \/ UNCHANGED Delivered(a)!vars
  <2>1. PICK p : p = pth[d].pxdis
    OBVIOUS
  <2>2. InHand(d) /\ proxyEvents' = proxyEvents /\ pth' = [pth EXCEPT ![d] = At("top", Nothing)]
    BY <1>6 DEF Dispatch, InHand
  <2>3. \A x \in ProxyThreads : pth[x].at = "dispatch" /\ pth[x].pxdis.admin = p.admin => x = d
    BY <1>6, <2>1 DEF Dispatch, DispatchInv, Locked
  <2>4. UNCHANGED <<last, alive>> /\ given' = [given EXCEPT ![p.admin] = p.event]
    BY <1>6, <2>1 DEF Dispatch
  <2>5. /\ p \in Dispatches /\ p.event \in Pending(p.admin)
        /\ \A f \in Pending(p.admin) : p.event <= f
        /\ Pending(p.admin)' = Pending(p.admin) \ {p.event}
        /\ \A b \in ConsumerAdmins \ {p.admin} : Pending(b)' = Pending(b)
    BY <2>1, <2>2, <2>3, Through, Zenon
  <2>6. CASE p.admin = a
    <3>1. given'[a] = p.event
      BY <2>4, <2>6 DEF DispatchInv, DispatchTypeOK
    <3>2. Delivered(a)!Give(p.event)
      BY <2>4, <2>5, <2>6, <3>1 DEF Delivered!Give, Delivered!Oldest
    <3> QED
      BY <2>5, <2>6, <3>2 DEF Delivered!Next
  <2>7. CASE p.admin # a
    <3>1. given'[a] = given[a]
      BY <2>4, <2>7 DEF DispatchInv, DispatchTypeOK
    <3> QED
      BY <2>4, <2>5, <2>7, <3>1 DEF Delivered!vars
  <2> QED
    BY <2>6, <2>7
<1>7. ASSUME NEW b \in ConsumerAdmins, DestroyAdmin(b)
      PROVE  Delivered(a)!Next \/ UNCHANGED Delivered(a)!vars
  <2>1. /\ UNCHANGED <<proxyEvents, pth, last, given>> /\ b \in alive /\ alive' = alive \ {b}
    BY <1>7 DEF DestroyAdmin
  <2>2. Pending(a)' = Pending(a)
    BY <2>1 DEF Pending, Queued, InHand
  <2>3. CASE b = a
    <3>1. Delivered(a)!Close
      BY <2>1, <2>2, <2>3 DEF Delivered!Close
    <3> QED
      BY <3>1 DEF Delivered!Next
  <2>4. CASE b # a
    BY <2>1, <2>2, <2>4 DEF Delivered!vars
  <2> QED
    BY <2>3, <2>4
<1>8. ASSUME NEW t \in AdminThreads, AdminExit(t) \/ \E b \in ConsumerAdmins : Match(t, b)
      PROVE  UNCHANGED Delivered(a)!vars
  BY <1>8, Same DEF AdminExit, Match, InHand
<1>9. ASSUME NEW d \in ProxyThreads,
             Lock(d) \/ Exit(d) \/ FindEmpty(d) \/ Sleep(d) \/ LockAdmin(d)
      PROVE  UNCHANGED Delivered(a)!vars
  <2>1. /\ \A x \in ProxyThreads : /\ InHand(x)' <=> InHand(x)
                                   /\ InHand(x) => pth'[x].pxdis = pth[x].pxdis
        /\ UNCHANGED <<proxyEvents, last, given, alive>>
    BY <1>1, <1>9 DEF Lock, Exit, FindEmpty, Sleep, LockAdmin, InHand
  <2> QED
    BY <2>1, Same
<1>10. CASE BeginShutdown \/ Broadcast \/ JoinThreads
  <2>1. /\ \A x \in ProxyThreads : /\ InHand(x)' <=> InHand(x)
                                   /\ InHand(x) => pth'[x].pxdis = pth[x].pxdis
        /\ UNCHANGED <<proxyEvents, last, given, alive>>
    BY <1>1, <1>10 DEF BeginShutdown, Broadcast, JoinThreads, Awake, At, InHand
  <2> QED
    BY <2>1, Same
<1> QED
  BY <1>2, <1>3, <1>4, <1>5, <1>6, <1>7, <1>8, <1>9, <1>10
  DEF DispatchNext, AdminStep, ProxyStep

\* Every consumer admin is given its events once and in order, by any number of
\* proxy threads that take them from one queue.
THEOREM DeliveryImplemented == DispatchSpec => ImplementsDelivery
<1> DEFINE Start == \A a \in ConsumerAdmins : Delivered(a)!Init
           Step  == \A a \in ConsumerAdmins : Delivered(a)!Next \/ UNCHANGED Delivered(a)!vars
<1>1. DispatchInit => Start
  BY DeliveryInit
<1>2. DispatchInv /\ [DispatchNext]_dispatchVars => Step
  BY DeliveryNext
<1>3. ImplementsDelivery <=> Start /\ [][Step]_dispatchVars
  BY DEF ImplementsDelivery
<1> HIDE DEF Start, Step
<1>4. DispatchSpec => Start /\ [][Step]_dispatchVars
  BY <1>1, <1>2, DispatchInvariance, PTL DEF DispatchSpec
<1> QED
  BY <1>3, <1>4
================================================================================
