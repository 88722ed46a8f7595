--------------------------- MODULE SubscriptionsProofs -------------------------
(***************************************************************************)
(* What holds of the tables of a filter, of subscriptions and of what is   *)
(* dispatched by them, for any number of clients, calls, constraints,      *)
(* event types and constraints that one call changes.                      *)
(***************************************************************************)
EXTENDS Subscriptions, FiniteSetTheorems, SequenceTheorems, WellFoundedInduction, TLAPS

--------------------------------------------------------------------------------
(* One element after the other *)

Below == {p \in Nat \X Nat : p[1] < p[2]}

\* A set of numbers has a least one.
LEMMA Least ==
  ASSUME NEW S \in SUBSET Nat, S # {}
  PROVE  \E x \in S : \A y \in S : x <= y
<1>1. IsWellFoundedOn(Below, Nat)
  BY NatLessThanWellFounded DEF OpToRel, Below
<1>2. PICK x \in S : \A y \in S : <<y, x>> \notin Below
  BY <1>1, WFMin
<1>3. \A y \in S : ~ (y < x)
  BY <1>2 DEF Below
<1> QED BY <1>3

\* What holds of 0 and, with n, of n + 1, holds up to N.
LEMMA Upwards ==
  ASSUME NEW N \in Nat, NEW S, 0 \in S, \A n \in 1..N : n - 1 \in S => n \in S
  PROVE  \A n \in 0..N : n \in S
<1> DEFINE Bad == {n \in 0..N : n \notin S}
<1>1. SUFFICES ASSUME Bad # {} PROVE FALSE
  OBVIOUS
<1>2. Bad \in SUBSET Nat
  OBVIOUS
<1>3. PICK m \in Bad : \A k \in Bad : m <= k
  <2> HIDE DEF Bad
  <2> QED BY <1>1, <1>2, Least
<1>4. m # 0 /\ m \in 0..N
  OBVIOUS
<1>5. m \in 1..N /\ m - 1 \in 0..N
  BY <1>4
<1>6. m - 1 \in S
  BY <1>3, <1>5
<1>7. m \in S
  BY <1>5, <1>6
<1> QED BY <1>7

\* f goes from first through the sets V[1], V[2] and so on by steps.
Stepped(f, V, first, step, m) ==
  /\ f = [n \in 0..m |-> f[n]] /\ f[0] = first
  /\ \A n \in 1..m : f[n] = step[<<f[n - 1], n>>]
  /\ \A n \in 0..m : f[n] \in V[n]

Leads(step, V, N) == \A n \in 1..N : \A v \in V[n - 1] : step[<<v, n>>] \in V[n]

LEMMA OneMoreStep ==
  ASSUME NEW N \in Nat, NEW m \in 1..N, NEW V, NEW first, NEW step, Leads(step, V, N),
         NEW f, Stepped(f, V, first, step, m - 1)
  PROVE  \E g : Stepped(g, V, first, step, m)
<1> DEFINE v == step[<<f[m - 1], m>>]
           g == [n \in 0..m |-> IF n = m THEN v ELSE f[n]]
<1>1. /\ f[0] = first
      /\ \A n \in 1..(m - 1) : f[n] = step[<<f[n - 1], n>>]
      /\ \A n \in 0..(m - 1) : f[n] \in V[n]
  BY DEF Stepped
<1>2. m - 1 \in 0..(m - 1) /\ 0 \in 0..(m - 1)
  OBVIOUS
<1>3. v \in V[m]
  BY <1>1, <1>2 DEF Leads
<1>4. g[m] = v /\ \A n \in 0..(m - 1) : g[n] = f[n]
  <2> HIDE DEF v
  <2>1. m \in 0..m /\ \A n \in 0..(m - 1) : n \in 0..m /\ n # m
    OBVIOUS
  <2> QED BY <2>1
<1>5. g = [n \in 0..m |-> g[n]]
  <2> HIDE DEF v
  <2> QED OBVIOUS
<1>6. v = step[<<f[m - 1], m>>]
  OBVIOUS
<1> HIDE DEF g, v
<1>7. ASSUME NEW n \in 1..m PROVE g[n] = step[<<g[n - 1], n>>]
  <2>1. n - 1 \in 0..(m - 1)
    OBVIOUS
  <2>2. g[n - 1] = f[n - 1]
    BY <1>4, <2>1
  <2>3. CASE n = m
    BY <1>4, <1>6, <2>2, <2>3
  <2>4. CASE n # m
    <3>1. n \in 1..(m - 1) /\ n \in 0..(m - 1)
      BY <2>4
    <3> QED BY <1>1, <1>4, <2>2, <3>1
  <2> QED BY <2>3, <2>4
<1>8. g[0] = first
  BY <1>1, <1>2, <1>4
<1>9. ASSUME NEW n \in 0..m PROVE g[n] \in V[n]
  <2>1. n = m \/ n \in 0..(m - 1)
    OBVIOUS
  <2> QED BY <1>1, <1>3, <1>4, <2>1
<1> QED BY <1>5, <1>7, <1>8, <1>9 DEF Stepped

LEMMA StepByStep ==
  ASSUME NEW N \in Nat, NEW V, NEW first \in V[0], NEW step, Leads(step, V, N)
  PROVE  \E f : Stepped(f, V, first, step, N)
<1> DEFINE Ways == {m \in 0..N : \E f : Stepped(f, V, first, step, m)}
<1>1. 0 \in Ways
  <2> DEFINE f == [n \in 0..0 |-> first]
  <2>1. f = [n \in 0..0 |-> f[n]] /\ f[0] = first /\ 1..0 = {} /\ 0..0 = {0}
    OBVIOUS
  <2> HIDE DEF f
  <2>2. Stepped(f, V, first, step, 0)
    BY <2>1 DEF Stepped
  <2> QED BY <2>2
<1>2. ASSUME NEW m \in 1..N, m - 1 \in Ways PROVE m \in Ways
  <2>1. PICK f : Stepped(f, V, first, step, m - 1)
    BY <1>2
  <2>2. \E g : Stepped(g, V, first, step, m)
    BY <2>1, OneMoreStep
  <2> QED BY <2>2
<1>3. \A m \in Ways : \E f : Stepped(f, V, first, step, m)
  OBVIOUS
<1> HIDE DEF Ways
<1>4. \A n \in 0..N : n \in Ways
  BY <1>1, <1>2, Upwards
<1>5. N \in 0..N
  OBVIOUS
<1> QED BY <1>3, <1>4, <1>5

\* What each operation on the tables does for one element leads through V[1],
\* V[2] and so on: then the operation for all elements ends in the last of them.
LEMMA AddTypes ==
  ASSUME NEW w, NEW s, Len(s) \in Nat, NEW V, w \in V[0],
         \A n \in 1..Len(s) : \A v \in V[n - 1] : AddType(v, s[n]) \in V[n]
  PROVE  OneByOne(AddType, w, s) \in V[Len(s)]
<1> DEFINE N == Len(s)
           W == UNION {V[n] : n \in 0..N}
           step == [x \in W \X (1..N) |-> AddType(x[1], s[x[2]])]
           IsFold(f) == f = [n \in 0..Len(s) |-> IF n = 0 THEN w ELSE AddType(f[n - 1], s[n])]
           fold == CHOOSE f : IsFold(f)
<1>1. ASSUME NEW n \in 1..N, NEW v \in V[n - 1]
      PROVE  step[<<v, n>>] = AddType(v, s[n]) /\ AddType(v, s[n]) \in V[n]
  <2>1. n - 1 \in 0..N
    OBVIOUS
  <2>2. v \in W
    BY <2>1
  <2> HIDE DEF W
  <2>3. <<v, n>> \in W \X (1..N) /\ <<v, n>>[1] = v /\ <<v, n>>[2] = n
    BY <2>2
  <2>4. step[<<v, n>>] = AddType(v, s[n])
    BY <2>3
  <2> QED BY <2>4
<1> HIDE DEF step
<1>2. Leads(step, V, N)
  BY <1>1 DEF Leads
<1>3. PICK f : Stepped(f, V, w, step, N)
  BY <1>2, StepByStep
<1>4. IsFold(f)
  <2>1. /\ f = [n \in 0..N |-> f[n]] /\ f[0] = w
        /\ \A n \in 1..N : f[n] = step[<<f[n - 1], n>>]
        /\ \A n \in 0..N : f[n] \in V[n]
    BY <1>3 DEF Stepped
  <2>2. ASSUME NEW n \in 0..N PROVE f[n] = IF n = 0 THEN w ELSE AddType(f[n - 1], s[n])
    <3>1. CASE n = 0
      BY <2>1, <3>1
    <3>2. CASE n # 0
      <4>1. n \in 1..N /\ n - 1 \in 0..N
        BY <3>2
      <4> QED BY <1>1, <2>1, <3>2, <4>1
    <3> QED BY <3>1, <3>2
  <2> QED BY <2>1, <2>2
<1>5. IsFold(fold)
  <2> HIDE DEF IsFold
  <2> QED BY <1>4
<1>6. \A n \in 0..N : fold[n] = IF n = 0 THEN w ELSE AddType(fold[n - 1], s[n])
  <2> HIDE DEF fold
  <2> QED BY <1>5
<1>7. OneByOne(AddType, w, s) = fold[N]
  BY DEF OneByOne
<1> HIDE DEF fold
<1> DEFINE S == {n \in 0..N : fold[n] \in V[n]}
<1>8. 0 \in S
  BY <1>6
<1>9. ASSUME NEW n \in 1..N, n - 1 \in S PROVE n \in S
  <2>1. n \in 0..N /\ n # 0 /\ fold[n - 1] \in V[n - 1]
    BY <1>9
  <2> QED BY <1>6, <2>1
<1>10. \A n \in S : fold[n] \in V[n]
  OBVIOUS
<1> HIDE DEF S
<1>11. N \in Nat
  OBVIOUS
<1> HIDE DEF N
<1>12. \A n \in 0..N : n \in S
  BY <1>8, <1>9, <1>11, Upwards
<1>13. N \in 0..N
  BY <1>11
<1> QED BY <1>7, <1>10, <1>12, <1>13 DEF N

LEMMA DropTypes ==
  ASSUME NEW w, NEW s, Len(s) \in Nat, NEW V, w \in V[0],
         \A n \in 1..Len(s) : \A v \in V[n - 1] : DropType(v, s[n]) \in V[n]
  PROVE  OneByOne(DropType, w, s) \in V[Len(s)]
<1> DEFINE N == Len(s)
           W == UNION {V[n] : n \in 0..N}
           step == [x \in W \X (1..N) |-> DropType(x[1], s[x[2]])]
           IsFold(f) == f = [n \in 0..Len(s) |-> IF n = 0 THEN w ELSE DropType(f[n - 1], s[n])]
           fold == CHOOSE f : IsFold(f)
<1>1. ASSUME NEW n \in 1..N, NEW v \in V[n - 1]
      PROVE  step[<<v, n>>] = DropType(v, s[n]) /\ DropType(v, s[n]) \in V[n]
  <2>1. n - 1 \in 0..N
    OBVIOUS
  <2>2. v \in W
    BY <2>1
  <2> HIDE DEF W
  <2>3. <<v, n>> \in W \X (1..N) /\ <<v, n>>[1] = v /\ <<v, n>>[2] = n
    BY <2>2
  <2>4. step[<<v, n>>] = DropType(v, s[n])
    BY <2>3
  <2> QED BY <2>4
<1> HIDE DEF step
<1>2. Leads(step, V, N)
  BY <1>1 DEF Leads
<1>3. PICK f : Stepped(f, V, w, step, N)
  BY <1>2, StepByStep
<1>4. IsFold(f)
  <2>1. /\ f = [n \in 0..N |-> f[n]] /\ f[0] = w
        /\ \A n \in 1..N : f[n] = step[<<f[n - 1], n>>]
        /\ \A n \in 0..N : f[n] \in V[n]
    BY <1>3 DEF Stepped
  <2>2. ASSUME NEW n \in 0..N PROVE f[n] = IF n = 0 THEN w ELSE DropType(f[n - 1], s[n])
    <3>1. CASE n = 0
      BY <2>1, <3>1
    <3>2. CASE n # 0
      <4>1. n \in 1..N /\ n - 1 \in 0..N
        BY <3>2
      <4> QED BY <1>1, <2>1, <3>2, <4>1
    <3> QED BY <3>1, <3>2
  <2> QED BY <2>1, <2>2
<1>5. IsFold(fold)
  <2> HIDE DEF IsFold
  <2> QED BY <1>4
<1>6. \A n \in 0..N : fold[n] = IF n = 0 THEN w ELSE DropType(fold[n - 1], s[n])
  <2> HIDE DEF fold
  <2> QED BY <1>5
<1>7. OneByOne(DropType, w, s) = fold[N]
  BY DEF OneByOne
<1> HIDE DEF fold
<1> DEFINE S == {n \in 0..N : fold[n] \in V[n]}
<1>8. 0 \in S
  BY <1>6
<1>9. ASSUME NEW n \in 1..N, n - 1 \in S PROVE n \in S
  <2>1. n \in 0..N /\ n # 0 /\ fold[n - 1] \in V[n - 1]
    BY <1>9
  <2> QED BY <1>6, <2>1
<1>10. \A n \in S : fold[n] \in V[n]
  OBVIOUS
<1> HIDE DEF S
<1>11. N \in Nat
  OBVIOUS
<1> HIDE DEF N
<1>12. \A n \in 0..N : n \in S
  BY <1>8, <1>9, <1>11, Upwards
<1>13. N \in 0..N
  BY <1>11
<1> QED BY <1>7, <1>10, <1>12, <1>13 DEF N

LEMMA UncoverTypes ==
  ASSUME NEW w, NEW s, Len(s) \in Nat, NEW V, w \in V[0],
         \A n \in 1..Len(s) : \A v \in V[n - 1] : Uncover(v, s[n]) \in V[n]
  PROVE  OneByOne(Uncover, w, s) \in V[Len(s)]
<1> DEFINE N == Len(s)
           W == UNION {V[n] : n \in 0..N}
           step == [x \in W \X (1..N) |-> Uncover(x[1], s[x[2]])]
           IsFold(f) == f = [n \in 0..Len(s) |-> IF n = 0 THEN w ELSE Uncover(f[n - 1], s[n])]
           fold == CHOOSE f : IsFold(f)
<1>1. ASSUME NEW n \in 1..N, NEW v \in V[n - 1]
      PROVE  step[<<v, n>>] = Uncover(v, s[n]) /\ Uncover(v, s[n]) \in V[n]
  <2>1. n - 1 \in 0..N
    OBVIOUS
  <2>2. v \in W
    BY <2>1
  <2> HIDE DEF W
  <2>3. <<v, n>> \in W \X (1..N) /\ <<v, n>>[1] = v /\ <<v, n>>[2] = n
    BY <2>2
  <2>4. step[<<v, n>>] = Uncover(v, s[n])
    BY <2>3
  <2> QED BY <2>4
<1> HIDE DEF step
<1>2. Leads(step, V, N)
  BY <1>1 DEF Leads
<1>3. PICK f : Stepped(f, V, w, step, N)
  BY <1>2, StepByStep
<1>4. IsFold(f)
  <2>1. /\ f = [n \in 0..N |-> f[n]] /\ f[0] = w
        /\ \A n \in 1..N : f[n] = step[<<f[n - 1], n>>]
        /\ \A n \in 0..N : f[n] \in V[n]
    BY <1>3 DEF Stepped
  <2>2. ASSUME NEW n \in 0..N PROVE f[n] = IF n = 0 THEN w ELSE Uncover(f[n - 1], s[n])
    <3>1. CASE n = 0
      BY <2>1, <3>1
    <3>2. CASE n # 0
      <4>1. n \in 1..N /\ n - 1 \in 0..N
        BY <3>2
      <4> QED BY <1>1, <2>1, <3>2, <4>1
    <3> QED BY <3>1, <3>2
  <2> QED BY <2>1, <2>2
<1>5. IsFold(fold)
  <2> HIDE DEF IsFold
  <2> QED BY <1>4
<1>6. \A n \in 0..N : fold[n] = IF n = 0 THEN w ELSE Uncover(fold[n - 1], s[n])
  <2> HIDE DEF fold
  <2> QED BY <1>5
<1>7. OneByOne(Uncover, w, s) = fold[N]
  BY DEF OneByOne
<1> HIDE DEF fold
<1> DEFINE S == {n \in 0..N : fold[n] \in V[n]}
<1>8. 0 \in S
  BY <1>6
<1>9. ASSUME NEW n \in 1..N, n - 1 \in S PROVE n \in S
  <2>1. n \in 0..N /\ n # 0 /\ fold[n - 1] \in V[n - 1]
    BY <1>9
  <2> QED BY <1>6, <2>1
<1>10. \A n \in S : fold[n] \in V[n]
  OBVIOUS
<1> HIDE DEF S
<1>11. N \in Nat
  OBVIOUS
<1> HIDE DEF N
<1>12. \A n \in 0..N : n \in S
  BY <1>8, <1>9, <1>11, Upwards
<1>13. N \in 0..N
  BY <1>11
<1> QED BY <1>7, <1>10, <1>12, <1>13 DEF N

LEMMA RemoveConstraints ==
  ASSUME NEW w, NEW s, Len(s) \in Nat, NEW V, w \in V[0],
         \A n \in 1..Len(s) : \A v \in V[n - 1] : RemoveConstraint(v, s[n]) \in V[n]
  PROVE  OneByOne(RemoveConstraint, w, s) \in V[Len(s)]
<1> DEFINE N == Len(s)
           W == UNION {V[n] : n \in 0..N}
           step == [x \in W \X (1..N) |-> RemoveConstraint(x[1], s[x[2]])]
           IsFold(f) == f = [n \in 0..Len(s) |-> IF n = 0 THEN w ELSE RemoveConstraint(f[n - 1], s[n])]
           fold == CHOOSE f : IsFold(f)
<1>1. ASSUME NEW n \in 1..N, NEW v \in V[n - 1]
      PROVE  step[<<v, n>>] = RemoveConstraint(v, s[n]) /\ RemoveConstraint(v, s[n]) \in V[n]
  <2>1. n - 1 \in 0..N
    OBVIOUS
  <2>2. v \in W
    BY <2>1
  <2> HIDE DEF W
  <2>3. <<v, n>> \in W \X (1..N) /\ <<v, n>>[1] = v /\ <<v, n>>[2] = n
    BY <2>2
  <2>4. step[<<v, n>>] = RemoveConstraint(v, s[n])
    BY <2>3
  <2> QED BY <2>4
<1> HIDE DEF step
<1>2. Leads(step, V, N)
  BY <1>1 DEF Leads
<1>3. PICK f : Stepped(f, V, w, step, N)
  BY <1>2, StepByStep
<1>4. IsFold(f)
  <2>1. /\ f = [n \in 0..N |-> f[n]] /\ f[0] = w
        /\ \A n \in 1..N : f[n] = step[<<f[n - 1], n>>]
        /\ \A n \in 0..N : f[n] \in V[n]
    BY <1>3 DEF Stepped
  <2>2. ASSUME NEW n \in 0..N PROVE f[n] = IF n = 0 THEN w ELSE RemoveConstraint(f[n - 1], s[n])
    <3>1. CASE n = 0
      BY <2>1, <3>1
    <3>2. CASE n # 0
      <4>1. n \in 1..N /\ n - 1 \in 0..N
        BY <3>2
      <4> QED BY <1>1, <2>1, <3>2, <4>1
    <3> QED BY <3>1, <3>2
  <2> QED BY <2>1, <2>2
<1>5. IsFold(fold)
  <2> HIDE DEF IsFold
  <2> QED BY <1>4
<1>6. \A n \in 0..N : fold[n] = IF n = 0 THEN w ELSE RemoveConstraint(fold[n - 1], s[n])
  <2> HIDE DEF fold
  <2> QED BY <1>5
<1>7. OneByOne(RemoveConstraint, w, s) = fold[N]
  BY DEF OneByOne
<1> HIDE DEF fold
<1> DEFINE S == {n \in 0..N : fold[n] \in V[n]}
<1>8. 0 \in S
  BY <1>6
<1>9. ASSUME NEW n \in 1..N, n - 1 \in S PROVE n \in S
  <2>1. n \in 0..N /\ n # 0 /\ fold[n - 1] \in V[n - 1]
    BY <1>9
  <2> QED BY <1>6, <2>1
<1>10. \A n \in S : fold[n] \in V[n]
  OBVIOUS
<1> HIDE DEF S
<1>11. N \in Nat
  OBVIOUS
<1> HIDE DEF N
<1>12. \A n \in 0..N : n \in S
  BY <1>8, <1>9, <1>11, Upwards
<1>13. N \in 0..N
  BY <1>11
<1> QED BY <1>7, <1>10, <1>12, <1>13 DEF N

LEMMA InstallConstraints ==
  ASSUME NEW w, NEW s, Len(s) \in Nat, NEW V, w \in V[0],
         \A n \in 1..Len(s) : \A v \in V[n - 1] : Install(v, s[n]) \in V[n]
  PROVE  OneByOne(Install, w, s) \in V[Len(s)]
<1> DEFINE N == Len(s)
           W == UNION {V[n] : n \in 0..N}
           step == [x \in W \X (1..N) |-> Install(x[1], s[x[2]])]
           IsFold(f) == f = [n \in 0..Len(s) |-> IF n = 0 THEN w ELSE Install(f[n - 1], s[n])]
           fold == CHOOSE f : IsFold(f)
<1>1. ASSUME NEW n \in 1..N, NEW v \in V[n - 1]
      PROVE  step[<<v, n>>] = Install(v, s[n]) /\ Install(v, s[n]) \in V[n]
  <2>1. n - 1 \in 0..N
    OBVIOUS
  <2>2. v \in W
    BY <2>1
  <2> HIDE DEF W
  <2>3. <<v, n>> \in W \X (1..N) /\ <<v, n>>[1] = v /\ <<v, n>>[2] = n
    BY <2>2
  <2>4. step[<<v, n>>] = Install(v, s[n])
    BY <2>3
  <2> QED BY <2>4
<1> HIDE DEF step
<1>2. Leads(step, V, N)
  BY <1>1 DEF Leads
<1>3. PICK f : Stepped(f, V, w, step, N)
  BY <1>2, StepByStep
<1>4. IsFold(f)
  <2>1. /\ f = [n \in 0..N |-> f[n]] /\ f[0] = w
        /\ \A n \in 1..N : f[n] = step[<<f[n - 1], n>>]
        /\ \A n \in 0..N : f[n] \in V[n]
    BY <1>3 DEF Stepped
  <2>2. ASSUME NEW n \in 0..N PROVE f[n] = IF n = 0 THEN w ELSE Install(f[n - 1], s[n])
    <3>1. CASE n = 0
      BY <2>1, <3>1
    <3>2. CASE n # 0
      <4>1. n \in 1..N /\ n - 1 \in 0..N
        BY <3>2
      <4> QED BY <1>1, <2>1, <3>2, <4>1
    <3> QED BY <3>1, <3>2
  <2> QED BY <2>1, <2>2
<1>5. IsFold(fold)
  <2> HIDE DEF IsFold
  <2> QED BY <1>4
<1>6. \A n \in 0..N : fold[n] = IF n = 0 THEN w ELSE Install(fold[n - 1], s[n])
  <2> HIDE DEF fold
  <2> QED BY <1>5
<1>7. OneByOne(Install, w, s) = fold[N]
  BY DEF OneByOne
<1> HIDE DEF fold
<1> DEFINE S == {n \in 0..N : fold[n] \in V[n]}
<1>8. 0 \in S
  BY <1>6
<1>9. ASSUME NEW n \in 1..N, n - 1 \in S PROVE n \in S
  <2>1. n \in 0..N /\ n # 0 /\ fold[n - 1] \in V[n - 1]
    BY <1>9
  <2> QED BY <1>6, <2>1
<1>10. \A n \in S : fold[n] \in V[n]
  OBVIOUS
<1> HIDE DEF S
<1>11. N \in Nat
  OBVIOUS
<1> HIDE DEF N
<1>12. \A n \in 0..N : n \in S
  BY <1>8, <1>9, <1>11, Upwards
<1>13. N \in 0..N
  BY <1>11
<1> QED BY <1>7, <1>10, <1>12, <1>13 DEF N

LEMMA ModifyEach ==
  ASSUME NEW w, NEW s, Len(s) \in Nat, NEW V, w \in V[0],
         \A n \in 1..Len(s) : \A v \in V[n - 1] : Modify(v, s[n]) \in V[n]
  PROVE  OneByOne(Modify, w, s) \in V[Len(s)]
<1> DEFINE N == Len(s)
           W == UNION {V[n] : n \in 0..N}
           step == [x \in W \X (1..N) |-> Modify(x[1], s[x[2]])]
           IsFold(f) == f = [n \in 0..Len(s) |-> IF n = 0 THEN w ELSE Modify(f[n - 1], s[n])]
           fold == CHOOSE f : IsFold(f)
<1>1. ASSUME NEW n \in 1..N, NEW v \in V[n - 1]
      PROVE  step[<<v, n>>] = Modify(v, s[n]) /\ Modify(v, s[n]) \in V[n]
  <2>1. n - 1 \in 0..N
    OBVIOUS
  <2>2. v \in W
    BY <2>1
  <2> HIDE DEF W
  <2>3. <<v, n>> \in W \X (1..N) /\ <<v, n>>[1] = v /\ <<v, n>>[2] = n
    BY <2>2
  <2>4. step[<<v, n>>] = Modify(v, s[n])
    BY <2>3
  <2> QED BY <2>4
<1> HIDE DEF step
<1>2. Leads(step, V, N)
  BY <1>1 DEF Leads
<1>3. PICK f : Stepped(f, V, w, step, N)
  BY <1>2, StepByStep
<1>4. IsFold(f)
  <2>1. /\ f = [n \in 0..N |-> f[n]] /\ f[0] = w
        /\ \A n \in 1..N : f[n] = step[<<f[n - 1], n>>]
        /\ \A n \in 0..N : f[n] \in V[n]
    BY <1>3 DEF Stepped
  <2>2. ASSUME NEW n \in 0..N PROVE f[n] = IF n = 0 THEN w ELSE Modify(f[n - 1], s[n])
    <3>1. CASE n = 0
      BY <2>1, <3>1
    <3>2. CASE n # 0
      <4>1. n \in 1..N /\ n - 1 \in 0..N
        BY <3>2
      <4> QED BY <1>1, <2>1, <3>2, <4>1
    <3> QED BY <3>1, <3>2
  <2> QED BY <2>1, <2>2
<1>5. IsFold(fold)
  <2> HIDE DEF IsFold
  <2> QED BY <1>4
<1>6. \A n \in 0..N : fold[n] = IF n = 0 THEN w ELSE Modify(fold[n - 1], s[n])
  <2> HIDE DEF fold
  <2> QED BY <1>5
<1>7. OneByOne(Modify, w, s) = fold[N]
  BY DEF OneByOne
<1> HIDE DEF fold
<1> DEFINE S == {n \in 0..N : fold[n] \in V[n]}
<1>8. 0 \in S
  BY <1>6
<1>9. ASSUME NEW n \in 1..N, n - 1 \in S PROVE n \in S
  <2>1. n \in 0..N /\ n # 0 /\ fold[n - 1] \in V[n - 1]
    BY <1>9
  <2> QED BY <1>6, <2>1
<1>10. \A n \in S : fold[n] \in V[n]
  OBVIOUS
<1> HIDE DEF S
<1>11. N \in Nat
  OBVIOUS
<1> HIDE DEF N
<1>12. \A n \in 0..N : n \in S
  BY <1>8, <1>9, <1>11, Upwards
<1>13. N \in 0..N
  BY <1>11
<1> QED BY <1>7, <1>10, <1>12, <1>13 DEF N

--------------------------------------------------------------------------------
(* The tables of a filter *)

Works == [cs : Seq(Constraint), all : [Types -> Nat], dom : SUBSET Types, add : [Types -> Nat],
          rem : [Types -> Nat], deltypes : [Types -> Nat], lost : Seq(Types)]

Covered(n, D) == \A ty \in Types : n[ty] > 0 => IsDominated(ty, D)
Present(n, D) == \A ty \in D : n[ty] > 0
Held(w) == \A ty \in Types : w.deltypes[ty] > 0 => w.all[ty] > 0 /\ ty \notin w.dom

LEMMA DominatesThrough ==
  ASSUME NEW t, NEW u, NEW v, Dominates(t, u), Dominates(u, v)
  PROVE  Dominates(t, v)
BY DEF Dominates

LEMMA DominatesItself == \A t : Dominates(t, t)
BY DEF Dominates

LEMMA BagTypes ==
  /\ Zero \in [Types -> Nat]
  /\ \A S : Count(S) \in [Types -> Nat] /\ \A ty \in Types : Count(S)[ty] = IF ty \in S THEN 1 ELSE 0
  /\ \A f, g \in [Types -> Nat] :
       Plus(f, g) \in [Types -> Nat] /\ \A ty \in Types : Plus(f, g)[ty] = f[ty] + g[ty]
  /\ \A ty \in Types : Zero[ty] = 0
<1>1. \A S : \A ty \in Types : (IF ty \in S THEN 1 ELSE 0) \in Nat
  OBVIOUS
<1> QED BY <1>1 DEF Zero, Count, Plus

LEMMA WorkFields ==
  ASSUME NEW w \in Works
  PROVE  /\ w.cs \in Seq(Constraint) /\ w.all \in [Types -> Nat] /\ w.dom \in SUBSET Types
         /\ w.add \in [Types -> Nat] /\ w.rem \in [Types -> Nat] /\ w.deltypes \in [Types -> Nat]
         /\ w.lost \in Seq(Types)
BY DEF Works

\* A type that is added is counted, and dominated afterwards like all others:
\* what it replaces it dominates, also what was replaced before.
LEMMA AddTypeSound ==
  ASSUME NEW w \in Works, NEW ty \in Types,
         Covered(w.all, w.dom), Present(w.all, w.dom), Held(w)
  PROVE  LET r == AddType(w, ty) IN
         /\ r \in Works /\ r.cs = w.cs /\ r.all = [w.all EXCEPT ![ty] = @ + 1]
         /\ Covered(r.all, r.dom) /\ Present(r.all, r.dom) /\ Held(r)
<1> DEFINE under == {t \in w.dom : Dominates(ty, t)}
           deltypes == Plus(w.deltypes, Count(under))
           counted == [w.all EXCEPT ![ty] = @ + 1]
           kept == {t \in w.dom : deltypes[t] = 0}
           r == AddType(w, ty)
<1>0. /\ w.cs \in Seq(Constraint) /\ w.all \in [Types -> Nat] /\ w.dom \in SUBSET Types
      /\ w.add \in [Types -> Nat] /\ w.rem \in [Types -> Nat] /\ w.deltypes \in [Types -> Nat]
      /\ w.lost \in Seq(Types)
  BY WorkFields
<1>1. /\ counted \in [Types -> Nat] /\ counted[ty] = w.all[ty] + 1
      /\ \A t \in Types : t # ty => counted[t] = w.all[t]
      /\ \A t \in Types : w.all[t] > 0 => counted[t] > 0
      /\ \A t \in Types : counted[t] > 0 => w.all[t] > 0 \/ t = ty
      /\ counted[ty] > 0
  BY <1>0
<1>2. /\ deltypes \in [Types -> Nat]
      /\ \A t \in Types : deltypes[t] = w.deltypes[t] + (IF t \in under THEN 1 ELSE 0)
  <2> HIDE DEF under
  <2>1. /\ Count(under) \in [Types -> Nat]
        /\ \A t \in Types : Count(under)[t] = IF t \in under THEN 1 ELSE 0
    BY BagTypes
  <2>2. /\ deltypes \in [Types -> Nat]
        /\ \A t \in Types : deltypes[t] = w.deltypes[t] + Count(under)[t]
    BY <1>0, <2>1, BagTypes
  <2> QED BY <2>1, <2>2
<1>3. /\ Plus(w.add, Count({ty})) \in [Types -> Nat]
      /\ Plus(w.rem, deltypes) \in [Types -> Nat]
  BY <1>0, <1>2, BagTypes
<1>4. under \subseteq w.dom /\ \A t \in under : Dominates(ty, t)
  OBVIOUS
<1> HIDE DEF counted, deltypes, under
<1>5. \A t \in w.dom : t \in kept \/ Dominates(ty, t)
  <2>1. \A t \in w.dom : w.deltypes[t] = 0
    BY <1>0 DEF Held
  <2> QED BY <1>0, <1>2, <1>4, <2>1
<1>6. CASE w.all[ty] > 0 \/ IsDominated(ty, w.dom)
  <2>1. r = [w EXCEPT !.all = counted]
    BY <1>6 DEF AddType, counted
  <2>2. /\ r \in Works /\ r.cs = w.cs /\ r.all = counted /\ r.dom = w.dom
        /\ r.deltypes = w.deltypes
    BY <1>1, <2>1 DEF Works
  <2>3. Covered(r.all, r.dom)
    BY <1>1, <1>6, <2>2 DEF Covered
  <2>4. Present(r.all, r.dom)
    BY <1>0, <1>1, <2>2 DEF Present
  <2>5. Held(r)
    BY <1>1, <2>2 DEF Held
  <2> QED BY <2>2, <2>3, <2>4, <2>5 DEF counted
<1>7. CASE ~(w.all[ty] > 0 \/ IsDominated(ty, w.dom))
  <2>1. r = [cs |-> w.cs, all |-> counted, dom |-> kept \cup {ty},
             add |-> Plus(w.add, Count({ty})), rem |-> Plus(w.rem, deltypes),
             deltypes |-> deltypes, lost |-> w.lost]
    BY <1>7 DEF AddType, counted, deltypes, under
  <2>2. /\ r \in Works /\ r.cs = w.cs /\ r.all = counted /\ r.dom = kept \cup {ty}
        /\ r.deltypes = deltypes
    <3>1. kept \cup {ty} \in SUBSET Types
      BY <1>0
    <3> HIDE DEF kept, r
    <3> QED BY <1>0, <1>1, <1>2, <1>3, <2>1, <3>1 DEF Works
  <2>3. Covered(r.all, r.dom)
    <3> SUFFICES ASSUME NEW u \in Types, counted[u] > 0 PROVE IsDominated(u, kept \cup {ty})
      BY <2>2 DEF Covered
    <3>1. CASE u = ty
      BY <3>1, DominatesItself DEF IsDominated
    <3>2. CASE u # ty
      <4>1. PICK d \in w.dom : Dominates(d, u)
        BY <1>1, <3>2 DEF Covered, IsDominated
      <4>2. CASE d \in kept
        BY <4>1, <4>2 DEF IsDominated
      <4>3. CASE Dominates(ty, d)
        BY <4>1, <4>3, DominatesThrough DEF IsDominated
      <4> QED BY <1>5, <4>2, <4>3
    <3> QED BY <3>1, <3>2
  <2>4. Present(r.all, r.dom)
    BY <1>0, <1>1, <2>2 DEF Present
  <2>5. Held(r)
    <3> SUFFICES ASSUME NEW t \in Types, deltypes[t] > 0
                 PROVE  counted[t] > 0 /\ t \notin kept \cup {ty}
      BY <2>2 DEF Held
    <3>1. CASE t \in under
      <4>1. t \in w.dom /\ w.all[t] > 0
        BY <1>4, <3>1 DEF Present
      <4> QED BY <1>1, <1>7, <4>1
    <3>2. CASE t \notin under
      <4>1. w.deltypes[t] > 0
        BY <1>0, <1>2, <3>2
      <4> QED BY <1>1, <1>7, <4>1 DEF Held
    <3> QED BY <3>1, <3>2
  <2> QED BY <2>2, <2>3, <2>4, <2>5 DEF counted
<1> QED BY <1>6, <1>7

\* A type that goes is counted one less; when it was the last, whoever was dominated by
\* it waits to be uncovered.
LEMMA DropTypeSound ==
  ASSUME NEW w \in Works, NEW ty \in Types, w.all[ty] > 0,
         Covered(w.all, w.dom \cup ToSet(w.lost)), Present(w.all, w.dom),
         \A t \in ToSet(w.lost) : w.all[t] = 0
  PROVE  LET r == DropType(w, ty) IN
         /\ r \in Works /\ r.cs = w.cs /\ r.all = [w.all EXCEPT ![ty] = @ - 1]
         /\ Covered(r.all, r.dom \cup ToSet(r.lost)) /\ Present(r.all, r.dom)
         /\ \A t \in ToSet(r.lost) : r.all[t] = 0
<1> DEFINE counted == [w.all EXCEPT ![ty] = @ - 1]
           r == DropType(w, ty)
<1>0. /\ w.cs \in Seq(Constraint) /\ w.all \in [Types -> Nat] /\ w.dom \in SUBSET Types
      /\ w.add \in [Types -> Nat] /\ w.rem \in [Types -> Nat] /\ w.deltypes \in [Types -> Nat]
      /\ w.lost \in Seq(Types)
  BY WorkFields
<1>1. /\ counted \in [Types -> Nat] /\ counted[ty] = w.all[ty] - 1
      /\ \A t \in Types : t # ty => counted[t] = w.all[t]
      /\ \A t \in Types : counted[t] > 0 => w.all[t] > 0
  <2>1. w.all[ty] - 1 \in Nat
    BY <1>0
  <2> QED BY <1>0, <2>1
<1>2. ToSet(w.lost) \subseteq Types /\ ty \notin ToSet(w.lost)
  <2>1. \A i \in DOMAIN w.lost : w.lost[i] \in Types
    BY <1>0
  <2>2. ToSet(w.lost) \subseteq Types
    BY <2>1 DEF ToSet
  <2> QED BY <2>2
<1> HIDE DEF counted
<1>3. Uncounted(w, ty) = [w EXCEPT !.all = counted]
  BY DEF Uncounted, counted
<1>4. CASE w.all[ty] = 1 /\ ty \in w.dom
  <2>1. r = [cs |-> w.cs, all |-> counted, dom |-> w.dom \ {ty}, add |-> w.add, rem |-> w.rem,
             deltypes |-> w.deltypes, lost |-> Append(w.lost, ty)]
    <3>1. r = WithoutDominant(Uncounted(w, ty), ty)
      BY <1>4 DEF DropType
    <3>2. /\ Uncounted(w, ty).cs = w.cs /\ Uncounted(w, ty).all = counted
          /\ Uncounted(w, ty).dom = w.dom /\ Uncounted(w, ty).add = w.add
          /\ Uncounted(w, ty).rem = w.rem /\ Uncounted(w, ty).deltypes = w.deltypes
          /\ Uncounted(w, ty).lost = w.lost
      BY <1>3 DEF Works
    <3> QED BY <3>1, <3>2 DEF WithoutDominant
  <2>2. Append(w.lost, ty) \in Seq(Types) /\ ToSet(Append(w.lost, ty)) = ToSet(w.lost) \cup {ty}
    <3>1. /\ Append(w.lost, ty) \in Seq(Types)
          /\ DOMAIN w.lost = 1..Len(w.lost) /\ Len(w.lost) \in Nat
          /\ DOMAIN Append(w.lost, ty) = 1..(Len(w.lost) + 1)
          /\ \A i \in 1..Len(w.lost) : Append(w.lost, ty)[i] = w.lost[i]
          /\ Append(w.lost, ty)[Len(w.lost) + 1] = ty
      BY <1>0, AppendProperties, LenProperties
    <3>2. 1..(Len(w.lost) + 1) = 1..Len(w.lost) \cup {Len(w.lost) + 1}
      BY <3>1
    <3> QED BY <3>1, <3>2 DEF ToSet
  <2>3. /\ r \in Works /\ r.cs = w.cs /\ r.all = counted /\ r.dom = w.dom \ {ty}
        /\ r.lost = Append(w.lost, ty)
    <3>1. w.dom \ {ty} \in SUBSET Types
      BY <1>0
    <3> HIDE DEF r
    <3> QED BY <1>0, <1>1, <2>1, <2>2, <3>1 DEF Works
  <2>4. r.dom \cup ToSet(r.lost) = w.dom \cup ToSet(w.lost)
    <3> HIDE DEF r
    <3> QED BY <1>4, <2>2, <2>3
  <2>5. Covered(r.all, r.dom \cup ToSet(r.lost))
    BY <1>1, <2>3, <2>4 DEF Covered
  <2>6. Present(r.all, r.dom)
    BY <1>0, <1>1, <2>3 DEF Present
  <2>7. \A t \in ToSet(r.lost) : r.all[t] = 0
    BY <1>0, <1>1, <1>2, <1>4, <2>2, <2>3
  <2> QED BY <2>3, <2>5, <2>6, <2>7 DEF counted
<1>5. CASE ~(w.all[ty] = 1 /\ ty \in w.dom)
  <2>1. r = [w EXCEPT !.all = counted]
    BY <1>3, <1>5 DEF DropType
  <2>2. r \in Works /\ r.cs = w.cs /\ r.all = counted /\ r.dom = w.dom /\ r.lost = w.lost
    BY <1>1, <2>1 DEF Works
  <2>3. Covered(r.all, r.dom \cup ToSet(r.lost))
    BY <1>1, <2>2 DEF Covered
  <2>4. Present(r.all, r.dom)
    <3>1. ASSUME NEW t \in w.dom PROVE counted[t] > 0
      <4>1. t \in Types /\ w.all[t] > 0 /\ w.all[t] \in Nat
        BY <1>0 DEF Present
      <4>2. CASE t = ty
        BY <1>1, <1>5, <4>1, <4>2
      <4>3. CASE t # ty
        BY <1>1, <4>1, <4>3
      <4> QED BY <4>2, <4>3
    <3> QED BY <2>2, <3>1 DEF Present
  <2>5. \A t \in ToSet(r.lost) : r.all[t] = 0
    BY <1>1, <1>2, <2>2
  <2> QED BY <2>2, <2>3, <2>4, <2>5 DEF counted
<1> QED BY <1>4, <1>5

\* What a lost type dominated is dominated again, by what comes to the fore or by itself.
LEMMA UncoverSound ==
  ASSUME NEW w \in Works, NEW ty \in Types, w.all[ty] = 0, NEW L,
         Covered(w.all, w.dom \cup {ty} \cup L), Present(w.all, w.dom)
  PROVE  LET r == Uncover(w, ty) IN
         /\ r \in Works /\ r.cs = w.cs /\ r.all = w.all
         /\ Covered(r.all, r.dom \cup L) /\ Present(r.all, r.dom)
<1> DEFINE named == {t \in Types : w.all[t] > 0}
           wild  == {t \in named : Wild(t)}
           plain == {t \in named \ wild : ~IsDominated(t, w.dom \cup wild)}
           more == Uncovered(w, ty)
           r == Uncover(w, ty)
<1>0. /\ w.cs \in Seq(Constraint) /\ w.all \in [Types -> Nat] /\ w.dom \in SUBSET Types
      /\ w.add \in [Types -> Nat] /\ w.rem \in [Types -> Nat] /\ w.deltypes \in [Types -> Nat]
      /\ w.lost \in Seq(Types)
  BY WorkFields
<1>1. more = CASE ty = <<"*", "*">> -> wild \cup plain
               [] ty # <<"*", "*">> /\ ty[1] = "*" -> {t \in named : t[2] = ty[2]}
               [] ty # <<"*", "*">> /\ ty[2] = "*" -> {t \in named : t[1] = ty[1]}
               [] OTHER -> {}
  BY DEF Uncovered
<1>2. ty = <<ty[1], ty[2]>> /\ \A u \in Types : u = <<u[1], u[2]>>
  BY DEF Types
<1>3. more \subseteq named /\ \A u \in named : Dominates(ty, u) => IsDominated(u, w.dom \cup more)
  <2>1. CASE ty = <<"*", "*">>
    <3>1. more = wild \cup plain
      BY <1>1, <2>1
    <3>2. ASSUME NEW u \in named PROVE IsDominated(u, w.dom \cup more)
      <4>1. CASE u \in wild \cup plain
        BY <3>1, <4>1, DominatesItself DEF IsDominated
      <4>2. CASE u \notin wild \cup plain
        <5>1. IsDominated(u, w.dom \cup wild)
          BY <4>2
        <5> QED BY <3>1, <5>1 DEF IsDominated
      <4> QED BY <4>1, <4>2
    <3> QED BY <3>1, <3>2
  <2>2. CASE ty # <<"*", "*">> /\ ty[1] = "*"
    <3>1. more = {t \in named : t[2] = ty[2]}
      <4>1. ty[2] # "*"
        BY <1>2, <2>2
      <4> QED BY <1>1, <2>2, <4>1
    <3>2. ty[2] # "*"
      BY <1>2, <2>2
    <3>3. \A u \in named : Dominates(ty, u) => u \in more
      BY <3>1, <3>2 DEF Dominates
    <3> HIDE DEF more
    <3> QED BY <3>1, <3>3, DominatesItself DEF IsDominated
  <2>3. CASE ty # <<"*", "*">> /\ ty[1] # "*" /\ ty[2] = "*"
    <3>1. more = {t \in named : t[1] = ty[1]}
      BY <1>1, <2>3
    <3>2. \A u \in named : Dominates(ty, u) => u \in more
      BY <3>1, <2>3 DEF Dominates
    <3> HIDE DEF more
    <3> QED BY <3>1, <3>2, DominatesItself DEF IsDominated
  <2>4. CASE ty[1] # "*" /\ ty[2] # "*"
    <3>1. more = {}
      BY <1>1, <2>4
    <3>2. \A u \in named : ~Dominates(ty, u)
      BY <1>2, <2>4 DEF Dominates
    <3> HIDE DEF more
    <3> QED BY <3>1, <3>2
  <2> QED BY <2>1, <2>2, <2>3, <2>4
<1> HIDE DEF wild, plain, more
<1>4. /\ Count(more) \in [Types -> Nat] /\ Count({ty}) \in [Types -> Nat]
      /\ Plus(w.add, Count(more)) \in [Types -> Nat]
      /\ Plus(w.rem, Count({ty})) \in [Types -> Nat]
  BY <1>0, BagTypes
<1>5. r = [cs |-> w.cs, all |-> w.all, dom |-> w.dom \cup more,
           add |-> Plus(w.add, Count(more)), rem |-> Plus(w.rem, Count({ty})),
           deltypes |-> w.deltypes, lost |-> w.lost]
  BY DEF Uncover, more
<1>6. r \in Works /\ r.cs = w.cs /\ r.all = w.all /\ r.dom = w.dom \cup more
  <2>1. w.dom \cup more \in SUBSET Types
    BY <1>0, <1>3
  <2> HIDE DEF r
  <2> QED BY <1>0, <1>4, <1>5, <2>1 DEF Works
<1>7. Covered(r.all, r.dom \cup L)
  <2> SUFFICES ASSUME NEW u \in named PROVE IsDominated(u, (w.dom \cup more) \cup L)
    BY <1>6 DEF Covered
  <2>1. PICK d \in w.dom \cup {ty} \cup L : Dominates(d, u)
    BY DEF Covered, IsDominated
  <2>2. CASE d \in w.dom \cup L
    BY <2>1, <2>2 DEF IsDominated
  <2>3. CASE d = ty
    BY <1>3, <2>1, <2>3 DEF IsDominated
  <2> QED BY <2>2, <2>3
<1>8. Present(r.all, r.dom)
  BY <1>3, <1>6 DEF Present
<1> QED BY <1>6, <1>7, <1>8

--------------------------------------------------------------------------------
(* How often a type is named *)

Counted(n, occurrences) ==
  \A ty \in Types : IsFiniteSet(occurrences[ty]) /\ n[ty] = Cardinality(occurrences[ty])

\* Where the first n types of a constraint name ty.
Upto(c, n, ty) == {c} \X {k \in 1..n : c.types[k] = ty}
NamedBy(C) == [ty \in Types |-> Named(C, ty)]
With(C, c, n) == [ty \in Types |-> Named(C, ty) \cup Upto(c, n, ty)]
Without(C, c, n) == [ty \in Types |-> Named(C, ty) \ Upto(c, n, ty)]

LEMMA NamedIs ==
  ASSUME NEW C, NEW ty
  PROVE  \A p : p \in Named(C, ty) <=>
                  \E c \in C : \E k \in DOMAIN c.types : c.types[k] = ty /\ p = <<c, k>>
BY DEF Named

LEMMA UptoIs ==
  ASSUME NEW c, NEW n, NEW ty
  PROVE  \A p : p \in Upto(c, n, ty) <=> \E k \in 1..n : c.types[k] = ty /\ p = <<c, k>>
BY DEF Upto

LEMMA UptoNext ==
  ASSUME NEW c, NEW n \in Nat \ {0}, NEW ty
  PROVE  \A p : p \in Upto(c, n, ty) <=>
                  p \in Upto(c, n - 1, ty) \/ (c.types[n] = ty /\ p = <<c, n>>)
<1>1. \A k : k \in 1..n <=> k \in 1..(n - 1) \/ k = n
  OBVIOUS
<1> QED BY <1>1, UptoIs

LEMMA UptoNew ==
  ASSUME NEW c, NEW n \in Nat \ {0}, NEW ty
  PROVE  <<c, n>> \notin Upto(c, n - 1, ty)
<1>1. n \notin 1..(n - 1)
  OBVIOUS
<1> QED BY <1>1 DEF Upto

LEMMA WithNone ==
  ASSUME NEW C, NEW c
  PROVE  \A ty \in Types : With(C, c, 0)[ty] = NamedBy(C)[ty] /\ Without(C, c, 0)[ty] = NamedBy(C)[ty]
<1>1. \A ty : Upto(c, 0, ty) = {}
  BY DEF Upto
<1> QED BY <1>1 DEF With, Without, NamedBy

LEMMA WithAll ==
  ASSUME NEW C, NEW c, Len(c.types) \in Nat, DOMAIN c.types = 1..Len(c.types)
  PROVE  \A ty \in Types : With(C, c, Len(c.types))[ty] = NamedBy(C \cup {c})[ty]
<1> TAKE ty \in Types
<1>1. \A p : p \in Upto(c, Len(c.types), ty) <=>
               \E k \in DOMAIN c.types : c.types[k] = ty /\ p = <<c, k>>
  BY UptoIs
<1>2. Named(C, ty) \cup Upto(c, Len(c.types), ty) = Named(C \cup {c}, ty)
  BY <1>1, NamedIs
<1> QED BY <1>2 DEF With, NamedBy

LEMMA WithoutAll ==
  ASSUME NEW C, NEW c, Len(c.types) \in Nat, DOMAIN c.types = 1..Len(c.types)
  PROVE  \A ty \in Types : Without(C, c, Len(c.types))[ty] = NamedBy(C \ {c})[ty]
<1> TAKE ty \in Types
<1>1. \A p : p \in Upto(c, Len(c.types), ty) <=>
               \E k \in DOMAIN c.types : c.types[k] = ty /\ p = <<c, k>>
  BY UptoIs
<1>2. \A p : p \in Named(C \ {c}, ty) => p \in Named(C, ty) /\ p \notin Upto(c, Len(c.types), ty)
  BY <1>1, NamedIs
<1>3. \A p : p \in Named(C, ty) /\ p \notin Upto(c, Len(c.types), ty) => p \in Named(C \ {c}, ty)
  BY <1>1, NamedIs
<1>4. Named(C, ty) \ Upto(c, Len(c.types), ty) = Named(C \ {c}, ty)
  BY <1>2, <1>3
<1> QED BY <1>4 DEF Without, NamedBy

\* The n-th type of a new constraint is counted one more, that of one that goes one less.
LEMMA CountedOneMore ==
  ASSUME NEW C, NEW c, c \notin C, NEW n \in Nat \ {0}, c.types[n] \in Types,
         NEW f \in [Types -> Nat], Counted(f, With(C, c, n - 1))
  PROVE  Counted([f EXCEPT ![c.types[n]] = @ + 1], With(C, c, n))
<1> DEFINE g == [f EXCEPT ![c.types[n]] = @ + 1]
<1>0. \A ty \in Types : g[ty] = IF ty = c.types[n] THEN f[ty] + 1 ELSE f[ty]
  OBVIOUS
<1> HIDE DEF g
<1> SUFFICES ASSUME NEW ty \in Types
             PROVE  /\ IsFiniteSet(Named(C, ty) \cup Upto(c, n, ty))
                    /\ g[ty] = Cardinality(Named(C, ty) \cup Upto(c, n, ty))
  BY DEF Counted, With, g
<1> DEFINE S == Named(C, ty) \cup Upto(c, n - 1, ty)
<1>u. \A p : p \in Upto(c, n, ty) <=>
                    p \in Upto(c, n - 1, ty) \/ (c.types[n] = ty /\ p = <<c, n>>)
  BY UptoNext
<1>1. IsFiniteSet(S) /\ f[ty] = Cardinality(S)
  BY DEF Counted, With
<1>2. <<c, n>> \notin S
  BY UptoNew, NamedIs
<1>3. CASE c.types[n] = ty
  <2>1. Named(C, ty) \cup Upto(c, n, ty) = S \cup {<<c, n>>}
    BY <1>3, <1>u
  <2> HIDE DEF S
  <2>2. IsFiniteSet(S \cup {<<c, n>>}) /\ Cardinality(S \cup {<<c, n>>}) = Cardinality(S) + 1
    BY <1>1, <1>2, FS_AddElement
  <2> QED BY <1>0, <1>1, <1>3, <2>1, <2>2
<1>4. CASE c.types[n] # ty
  BY <1>0, <1>1, <1>4, <1>u
<1> QED BY <1>3, <1>4

LEMMA CountedOneLess ==
  ASSUME NEW C, NEW c \in C, NEW n \in DOMAIN c.types, n \in Nat \ {0}, c.types[n] \in Types,
         NEW f \in [Types -> Nat], Counted(f, Without(C, c, n - 1))
  PROVE  f[c.types[n]] > 0 /\ Counted([f EXCEPT ![c.types[n]] = @ - 1], Without(C, c, n))
<1> DEFINE g == [f EXCEPT ![c.types[n]] = @ - 1]
           S(ty) == Named(C, ty) \ Upto(c, n - 1, ty)
<1>0. \A ty \in Types : g[ty] = IF ty = c.types[n] THEN f[ty] - 1 ELSE f[ty]
  OBVIOUS
<1>1. \A ty \in Types : IsFiniteSet(S(ty)) /\ f[ty] = Cardinality(S(ty))
  BY DEF Counted, Without
<1>2. <<c, n>> \in S(c.types[n])
  BY UptoNew, NamedIs
<1>u. ASSUME NEW ty
      PROVE  \A p : p \in Upto(c, n, ty) <=>
                           p \in Upto(c, n - 1, ty) \/ (c.types[n] = ty /\ p = <<c, n>>)
  BY UptoNext
<1> HIDE DEF g, S
<1>3. \A ty \in Types : c.types[n] = ty => Named(C, ty) \ Upto(c, n, ty) = S(ty) \ {<<c, n>>}
  BY <1>u DEF S
<1>4. \A ty \in Types : c.types[n] # ty => Named(C, ty) \ Upto(c, n, ty) = S(ty)
  BY <1>u DEF S
<1>5. f[c.types[n]] > 0
  <2> DEFINE T == S(c.types[n])
  <2>1. IsFiniteSet(T) /\ f[c.types[n]] = Cardinality(T) /\ T # {}
    BY <1>1, <1>2
  <2> HIDE DEF T
  <2>2. Cardinality(T) # 0
    BY <2>1, FS_EmptySet
  <2> QED BY <2>1, <2>2
<1>6. ASSUME NEW ty \in Types
      PROVE  /\ IsFiniteSet(Named(C, ty) \ Upto(c, n, ty))
             /\ g[ty] = Cardinality(Named(C, ty) \ Upto(c, n, ty))
  <2>1. CASE c.types[n] = ty
    <3>1. /\ IsFiniteSet(S(ty) \ {<<c, n>>})
          /\ Cardinality(S(ty) \ {<<c, n>>}) = Cardinality(S(ty)) - 1
      BY <1>1, <1>2, <2>1, FS_RemoveElement
    <3> QED BY <1>0, <1>1, <1>3, <2>1, <3>1
  <2>2. CASE c.types[n] # ty
    BY <1>0, <1>1, <1>4, <2>2
  <2> QED BY <2>1, <2>2
<1> QED BY <1>5, <1>6 DEF Counted, Without, g

--------------------------------------------------------------------------------
(* A constraint comes and goes *)

LEMMA ConstraintFields ==
  ASSUME NEW c \in Constraint
  PROVE  /\ c.id \in Nat /\ c.types \in Seq(Types)
         /\ Len(c.types) \in Nat /\ DOMAIN c.types = 1..Len(c.types)
         /\ \A n \in 1..Len(c.types) : c.types[n] \in Types
<1>1. c.id \in Nat /\ c.types \in Seq(Types)
  BY DEF Constraint
<1>2. Len(c.types) \in Nat /\ DOMAIN c.types = 1..Len(c.types)
  BY <1>1, LenProperties
<1> QED BY <1>1, <1>2, ElementOfSeq

\* Counts that agree with some occurrences agree with equal ones.
LEMMA CountedAlike ==
  ASSUME NEW f, NEW o, NEW p, Counted(f, o), \A ty \in Types : o[ty] = p[ty]
  PROVE  Counted(f, p)
BY DEF Counted

LEMMA UpdateTablesSound ==
  ASSUME NEW w \in Works, NEW C, NEW c \in Constraint, c \notin C,
         Counted(w.all, NamedBy(C)), Covered(w.all, w.dom), Present(w.all, w.dom)
  PROVE  LET r == UpdateTables(w, c.types) IN
         /\ r \in Works /\ r.cs = w.cs /\ Counted(r.all, NamedBy(C \cup {c}))
         /\ Covered(r.all, r.dom) /\ Present(r.all, r.dom)
<1> DEFINE N == Len(c.types)
           At(n) == {v \in Works : /\ v.cs = w.cs /\ Counted(v.all, With(C, c, n))
                                   /\ Covered(v.all, v.dom) /\ Present(v.all, v.dom) /\ Held(v)}
           V == [n \in 0..N |-> At(n)]
           first == [w EXCEPT !.deltypes = Zero]
           r == UpdateTables(w, c.types)
<1>0. /\ N \in Nat /\ DOMAIN c.types = 1..N
      /\ \A n \in 1..N : c.types[n] \in Types
  BY ConstraintFields
<1>1. first \in At(0)
  <2>1. first \in Works /\ first.cs = w.cs /\ first.all = w.all /\ first.dom = w.dom /\ first.deltypes = Zero
    BY BagTypes DEF Works
  <2> HIDE DEF first
  <2>2. Held(first)
    BY <2>1, BagTypes DEF Held
  <2>3. Counted(w.all, With(C, c, 0))
    BY WithNone, CountedAlike
  <2> QED BY <2>1, <2>2, <2>3
<1>2. ASSUME NEW n \in 1..N, NEW v \in At(n - 1)
      PROVE  AddType(v, c.types[n]) \in At(n)
  <2> DEFINE ty == c.types[n]
             u == AddType(v, ty)
  <2>1. /\ v \in Works /\ v.cs = w.cs /\ Counted(v.all, With(C, c, n - 1))
        /\ Covered(v.all, v.dom) /\ Present(v.all, v.dom) /\ Held(v)
    OBVIOUS
  <2>2. ty \in Types /\ n \in Nat \ {0} /\ v.all \in [Types -> Nat]
    BY <1>0, <2>1, WorkFields
  <2>3. Counted([v.all EXCEPT ![ty] = @ + 1], With(C, c, n))
    BY <2>1, <2>2, CountedOneMore
  <2> HIDE DEF ty
  <2>4. /\ u \in Works /\ u.cs = v.cs /\ u.all = [v.all EXCEPT ![ty] = @ + 1]
        /\ Covered(u.all, u.dom) /\ Present(u.all, u.dom) /\ Held(u)
    BY <2>1, <2>2, AddTypeSound
  <2> HIDE DEF u
  <2>5. u \in At(n)
    BY <2>1, <2>3, <2>4
  <2> QED BY <2>5 DEF u, ty
<1>3. r = OneByOne(AddType, first, c.types)
  BY DEF UpdateTables
<1> HIDE DEF At, first, r
<1>4. first \in V[0] /\ \A n \in 1..N : \A v \in V[n - 1] : AddType(v, c.types[n]) \in V[n]
  <2>1. 0 \in 0..N /\ \A n \in 1..N : n \in 0..N /\ n - 1 \in 0..N
    BY <1>0
  <2>2. \A n \in 0..N : V[n] = At(n)
    OBVIOUS
  <2> HIDE DEF V
  <2> QED BY <1>1, <1>2, <2>1, <2>2
<1>5. V[N] = At(N)
  BY <1>0
<1> HIDE DEF V
<1>6. OneByOne(AddType, first, c.types) \in V[Len(c.types)]
  BY <1>0, <1>4, AddTypes
<1>7. r \in At(N)
  BY <1>3, <1>5, <1>6
<1>8. /\ r \in Works /\ r.cs = w.cs /\ Counted(r.all, With(C, c, N))
      /\ Covered(r.all, r.dom) /\ Present(r.all, r.dom)
  BY <1>7 DEF At
<1>9. Counted(r.all, NamedBy(C \cup {c}))
  <2>1. \A ty \in Types : With(C, c, N)[ty] = NamedBy(C \cup {c})[ty]
    BY <1>0, WithAll
  <2> QED BY <1>8, <2>1 DEF Counted
<1> QED BY <1>8, <1>9 DEF r

\* All types of a constraint that goes are dropped, then what was lost is made up for.
LEMMA DropAllSound ==
  ASSUME NEW w \in Works, NEW C, NEW c \in C, c \in Constraint, w.lost = <<>>,
         Counted(w.all, NamedBy(C)), Covered(w.all, w.dom), Present(w.all, w.dom)
  PROVE  LET r == OneByOne(DropType, w, c.types) IN
         /\ r \in Works /\ r.cs = w.cs /\ Counted(r.all, NamedBy(C \ {c}))
         /\ Covered(r.all, r.dom \cup ToSet(r.lost)) /\ Present(r.all, r.dom)
         /\ \A t \in ToSet(r.lost) : r.all[t] = 0
<1> DEFINE N == Len(c.types)
           At(n) == {v \in Works : /\ v.cs = w.cs /\ Counted(v.all, Without(C, c, n))
                                   /\ Covered(v.all, v.dom \cup ToSet(v.lost)) /\ Present(v.all, v.dom)
                                   /\ \A t \in ToSet(v.lost) : v.all[t] = 0}
           V == [n \in 0..N |-> At(n)]
           r == OneByOne(DropType, w, c.types)
<1>0. /\ N \in Nat /\ DOMAIN c.types = 1..N
      /\ \A n \in 1..N : c.types[n] \in Types
  BY ConstraintFields
<1>1. w \in At(0)
  <2>1. ToSet(w.lost) = {}
    BY DEF ToSet
  <2>2. Counted(w.all, Without(C, c, 0))
    BY WithNone, CountedAlike
  <2> QED BY <2>1, <2>2
<1>2. ASSUME NEW n \in 1..N, NEW v \in At(n - 1)
      PROVE  DropType(v, c.types[n]) \in At(n)
  <2> DEFINE ty == c.types[n]
             u == DropType(v, ty)
  <2>1. /\ v \in Works /\ v.cs = w.cs /\ Counted(v.all, Without(C, c, n - 1))
        /\ Covered(v.all, v.dom \cup ToSet(v.lost)) /\ Present(v.all, v.dom)
        /\ \A t \in ToSet(v.lost) : v.all[t] = 0
    OBVIOUS
  <2>2. ty \in Types /\ n \in DOMAIN c.types /\ n \in Nat \ {0} /\ v.all \in [Types -> Nat]
    BY <1>0, <2>1, WorkFields
  <2>3. v.all[ty] > 0 /\ Counted([v.all EXCEPT ![ty] = @ - 1], Without(C, c, n))
    BY <2>1, <2>2, CountedOneLess
  <2> HIDE DEF ty
  <2>4. /\ u \in Works /\ u.cs = v.cs /\ u.all = [v.all EXCEPT ![ty] = @ - 1]
        /\ Covered(u.all, u.dom \cup ToSet(u.lost)) /\ Present(u.all, u.dom)
        /\ \A t \in ToSet(u.lost) : u.all[t] = 0
    BY <2>1, <2>2, <2>3, DropTypeSound
  <2> HIDE DEF u
  <2>5. u \in At(n)
    BY <2>1, <2>3, <2>4
  <2> QED BY <2>5 DEF u, ty
<1> HIDE DEF At, r
<1>4. w \in V[0] /\ \A n \in 1..N : \A v \in V[n - 1] : DropType(v, c.types[n]) \in V[n]
  <2>1. 0 \in 0..N /\ \A n \in 1..N : n \in 0..N /\ n - 1 \in 0..N
    BY <1>0
  <2>2. \A n \in 0..N : V[n] = At(n)
    OBVIOUS
  <2> HIDE DEF V
  <2> QED BY <1>1, <1>2, <2>1, <2>2
<1>5. V[N] = At(N)
  BY <1>0
<1> HIDE DEF V
<1>6. OneByOne(DropType, w, c.types) \in V[Len(c.types)]
  BY <1>0, <1>4, DropTypes
<1>7. r \in At(N)
  BY <1>5, <1>6 DEF r
<1>8. /\ r \in Works /\ r.cs = w.cs /\ Counted(r.all, Without(C, c, N))
      /\ Covered(r.all, r.dom \cup ToSet(r.lost)) /\ Present(r.all, r.dom)
      /\ \A t \in ToSet(r.lost) : r.all[t] = 0
  BY <1>7 DEF At
<1>9. Counted(r.all, NamedBy(C \ {c}))
  <2>1. \A ty \in Types : Without(C, c, N)[ty] = NamedBy(C \ {c})[ty]
    <3>1. Len(c.types) \in Nat /\ DOMAIN c.types = 1..Len(c.types)
      BY <1>0
    <3>2. \A ty \in Types : Without(C, c, Len(c.types))[ty] = NamedBy(C \ {c})[ty]
      BY ONLY <3>1, WithoutAll
    <3> QED BY <3>2
  <2> QED BY <1>8, <2>1 DEF Counted
<1> QED BY <1>8, <1>9 DEF r

LEMMA UncoverAllSound ==
  ASSUME NEW w \in Works, Covered(w.all, w.dom \cup ToSet(w.lost)), Present(w.all, w.dom),
         \A t \in ToSet(w.lost) : w.all[t] = 0
  PROVE  LET r == OneByOne(Uncover, w, w.lost) IN
         /\ r \in Works /\ r.cs = w.cs /\ r.all = w.all
         /\ Covered(r.all, r.dom) /\ Present(r.all, r.dom)
<1> DEFINE s == w.lost
           N == Len(s)
           Left(n) == {s[k] : k \in (n + 1)..N}
           At(n) == {v \in Works : /\ v.cs = w.cs /\ v.all = w.all
                                   /\ Covered(v.all, v.dom \cup Left(n)) /\ Present(v.all, v.dom)}
           V == [n \in 0..N |-> At(n)]
           r == OneByOne(Uncover, w, s)
<1>0. /\ N \in Nat /\ DOMAIN s = 1..N
      /\ \A n \in 1..N : s[n] \in Types /\ w.all[s[n]] = 0
  <2>1. s \in Seq(Types)
    BY WorkFields
  <2>2. N \in Nat /\ DOMAIN s = 1..N
    BY <2>1, LenProperties
  <2> QED BY <2>1, <2>2 DEF ToSet
<1>1. w \in At(0)
  <2>1. Left(0) = ToSet(w.lost)
    BY <1>0 DEF ToSet
  <2> QED BY <2>1
<1>2. ASSUME NEW n \in 1..N, NEW v \in At(n - 1)
      PROVE  Uncover(v, s[n]) \in At(n)
  <2> DEFINE ty == s[n]
             u == Uncover(v, ty)
             L == Left(n)
  <2>1. /\ v \in Works /\ v.cs = w.cs /\ v.all = w.all
        /\ Covered(v.all, v.dom \cup Left(n - 1)) /\ Present(v.all, v.dom)
    OBVIOUS
  <2>2. ty \in Types /\ v.all[ty] = 0
    BY <1>0, <2>1
  <2>3. Left(n - 1) = {ty} \cup L
    <3>1. \A k : k \in ((n - 1) + 1)..N <=> k = n \/ k \in (n + 1)..N
      BY <1>0
    <3> QED BY <3>1
  <2> HIDE DEF ty, L, Left
  <2>4. Covered(v.all, v.dom \cup {ty} \cup L)
    <3>1. v.dom \cup {ty} \cup L = v.dom \cup Left(n - 1)
      BY <2>3
    <3> QED BY <2>1, <3>1
  <2>5. /\ u \in Works /\ u.cs = v.cs /\ u.all = v.all
        /\ Covered(u.all, u.dom \cup L) /\ Present(u.all, u.dom)
    BY <2>1, <2>2, <2>4, UncoverSound
  <2> HIDE DEF u
  <2>6. u \in At(n)
    BY <2>1, <2>5 DEF L
  <2> QED BY <2>6 DEF u, ty
<1>3. Left(N) = {}
  BY <1>0
<1> HIDE DEF At, r, Left, s
<1>4. w \in V[0] /\ \A n \in 1..N : \A v \in V[n - 1] : Uncover(v, s[n]) \in V[n]
  <2>1. 0 \in 0..N /\ \A n \in 1..N : n \in 0..N /\ n - 1 \in 0..N
    BY <1>0
  <2>2. \A n \in 0..N : V[n] = At(n)
    OBVIOUS
  <2> HIDE DEF V
  <2> QED BY <1>1, <1>2, <2>1, <2>2
<1>5. V[N] = At(N)
  BY <1>0
<1> HIDE DEF V
<1>6. OneByOne(Uncover, w, s) \in V[Len(s)]
  BY <1>0, <1>4, UncoverTypes
<1>7. r \in At(N)
  BY <1>5, <1>6 DEF r
<1>8. r.dom \cup Left(N) = r.dom
  BY <1>3
<1> QED BY <1>7, <1>8 DEF At, r, s

IdsOf(cs) == {cs[i].id : i \in DOMAIN cs}
Distinct(cs) == \A i, j \in DOMAIN cs : cs[i].id = cs[j].id => i = j

\* The tables of a filter with the constraints it has.
Sound(w) ==
  /\ w \in Works /\ Distinct(w.cs)
  /\ Counted(w.all, NamedBy(ToSet(w.cs))) /\ Covered(w.all, w.dom) /\ Present(w.all, w.dom)

\* The sequence without its i-th element, where the last has moved.
LEMMA Moved ==
  ASSUME NEW cs \in Seq(Constraint), Distinct(cs), NEW i \in DOMAIN cs
  PROVE  LET rest == Front([cs EXCEPT ![i] = Last(cs)]) IN
         /\ rest \in Seq(Constraint) /\ Distinct(rest)
         /\ ToSet(rest) = ToSet(cs) \ {cs[i]} /\ IdsOf(rest) = IdsOf(cs) \ {cs[i].id}
<1> DEFINE N == Len(cs)
           moved == [cs EXCEPT ![i] = Last(cs)]
           rest == Front(moved)
<1>1. /\ N \in Nat /\ DOMAIN cs = 1..N /\ i \in 1..N /\ N >= 1
      /\ \A k \in 1..N : cs[k] \in Constraint
  BY LenProperties, ElementOfSeq
<1>n. N \in Nat /\ N >= 1 /\ i \in 1..N
  BY <1>1
<1>2. Last(cs) = cs[N] /\ cs[N] \in Constraint
  BY <1>1 DEF Last
<1>3. /\ moved \in Seq(Constraint) /\ Len(moved) = N
      /\ \A k \in 1..N : moved[k] = IF k = i THEN cs[N] ELSE cs[k]
  <2>1. moved \in [1..N -> Constraint] /\ \A k \in 1..N : moved[k] = IF k = i THEN cs[N] ELSE cs[k]
    BY <1>1, <1>2
  <2> HIDE DEF moved
  <2>2. moved \in Seq(Constraint)
    BY <1>1, <2>1, SeqDef
  <2> QED BY <1>1, <2>1, <2>2, LenProperties
<1> HIDE DEF moved, N
<1>4. /\ rest = SubSeq(moved, 1, N - 1) /\ rest \in Seq(Constraint) /\ Len(rest) = N - 1
      /\ \A k \in 1..(N - 1) : rest[k] = moved[k]
  <2>1. rest = SubSeq(moved, 1, N - 1)
    BY <1>3 DEF Front, N
  <2> HIDE DEF rest
  <2> QED BY <1>1, <1>3, <2>1, SubSeqProperties
<1> HIDE DEF rest
<1>5. /\ DOMAIN rest = 1..(N - 1)
      /\ \A k \in 1..(N - 1) : rest[k] = IF k = i THEN cs[N] ELSE cs[k]
  <2>1. \A k \in 1..(N - 1) : k \in 1..N
    BY <1>1
  <2> QED BY <1>3, <1>4, <2>1, LenProperties
<1>6. \A k \in 1..(N - 1) : k # i => cs[k].id # cs[i].id
  <2>1. \A k \in 1..(N - 1) : k \in 1..N
    BY <1>1
  <2> QED BY <1>1, <2>1 DEF Distinct
<1>7. ASSUME NEW k \in 1..(N - 1)
      PROVE  \E j \in 1..N : j # i /\ rest[k] = cs[j]
  <2>1. k \in 1..N /\ N \in 1..N /\ k # N
    BY <1>n
  <2> QED BY <1>5, <2>1
<1>8. ASSUME NEW j \in 1..N, j # i
      PROVE  \E k \in 1..(N - 1) : rest[k] = cs[j]
  <2>1. CASE j # N
    <3>1. j \in 1..(N - 1)
      BY <1>n, <2>1
    <3> QED BY <1>5, <1>8, <3>1
  <2>2. CASE j = N
    <3>1. i \in 1..(N - 1)
      BY <1>n, <1>8, <2>2
    <3> QED BY <1>5, <2>2, <3>1
  <2> QED BY <2>1, <2>2
<1>9. \A j \in 1..N : j # i => cs[j].id # cs[i].id
  BY <1>1 DEF Distinct
<1>10. Distinct(rest)
  <2> SUFFICES ASSUME NEW k \in 1..(N - 1), NEW l \in 1..(N - 1), rest[k].id = rest[l].id
               PROVE  k = l
    BY <1>5 DEF Distinct
  <2>1. k \in 1..N /\ l \in 1..N /\ N \in 1..N /\ k # N /\ l # N
    BY <1>n
  <2> QED BY <1>1, <1>5, <2>1 DEF Distinct
<1>11. ToSet(rest) = ToSet(cs) \ {cs[i]}
  <2>1. ToSet(rest) \subseteq ToSet(cs) \ {cs[i]}
    BY <1>1, <1>5, <1>7, <1>9 DEF ToSet
  <2>2. ToSet(cs) \ {cs[i]} \subseteq ToSet(rest)
    BY <1>1, <1>5, <1>8 DEF ToSet
  <2> QED BY <2>1, <2>2
<1>12. IdsOf(rest) = IdsOf(cs) \ {cs[i].id}
  <2>1. IdsOf(rest) \subseteq IdsOf(cs) \ {cs[i].id}
    BY <1>1, <1>5, <1>7, <1>9 DEF IdsOf
  <2>2. IdsOf(cs) \ {cs[i].id} \subseteq IdsOf(rest)
    BY <1>1, <1>5, <1>8 DEF IdsOf
  <2> QED BY <2>1, <2>2
<1> QED BY <1>4, <1>10, <1>11, <1>12 DEF rest, moved, N

LEMMA RemoveSound ==
  ASSUME NEW w, Sound(w), NEW id \in IdsOf(w.cs)
  PROVE  LET r == RemoveConstraint(w, id) IN
         Sound(r) /\ IdsOf(r.cs) = IdsOf(w.cs) \ {id}
<1> DEFINE i  == Position(w.cs, id)
           c  == w.cs[i]
           C  == ToSet(w.cs)
           w0 == [w EXCEPT !.lost = <<>>]
           w1 == OneByOne(DropType, w0, c.types)
           w2 == OneByOne(Uncover, w1, w1.lost)
           rest == Front([w.cs EXCEPT ![i] = Last(w.cs)])
           r  == RemoveConstraint(w, id)
<1>0. /\ w \in Works /\ Distinct(w.cs) /\ w.cs \in Seq(Constraint)
      /\ Counted(w.all, NamedBy(C)) /\ Covered(w.all, w.dom) /\ Present(w.all, w.dom)
  BY WorkFields DEF Sound
<1>1. i \in DOMAIN w.cs /\ c.id = id
  BY DEF IdsOf, Position
<1>2. c \in C /\ c \in Constraint
  BY <1>0, <1>1 DEF ToSet
<1>3. /\ w0 \in Works /\ w0.cs = w.cs /\ w0.all = w.all /\ w0.dom = w.dom /\ w0.lost = <<>>
  <2>1. <<>> \in Seq(Types)
    OBVIOUS
  <2> QED BY <1>0, <2>1 DEF Works
<1>r. r = [w2 EXCEPT !.cs = rest]
  BY DEF RemoveConstraint
<1> HIDE DEF i, w0, C, c
<1>4. /\ w1 \in Works /\ w1.cs = w.cs /\ Counted(w1.all, NamedBy(C \ {c}))
      /\ Covered(w1.all, w1.dom \cup ToSet(w1.lost)) /\ Present(w1.all, w1.dom)
      /\ \A t \in ToSet(w1.lost) : w1.all[t] = 0
  BY <1>0, <1>2, <1>3, DropAllSound
<1> HIDE DEF w1
<1>5. /\ w2 \in Works /\ w2.cs = w1.cs /\ w2.all = w1.all
      /\ Covered(w2.all, w2.dom) /\ Present(w2.all, w2.dom)
  BY <1>4, UncoverAllSound
<1>6. /\ rest \in Seq(Constraint) /\ Distinct(rest)
      /\ ToSet(rest) = C \ {c} /\ IdsOf(rest) = IdsOf(w.cs) \ {id}
  BY <1>0, <1>1, Moved DEF C, c
<1> HIDE DEF w2, rest, r
<1>7. r \in Works /\ r.cs = rest /\ r.all = w2.all /\ r.dom = w2.dom
  BY <1>5, <1>6, <1>r DEF Works
<1>8. Sound(r)
  BY <1>4, <1>5, <1>6, <1>7 DEF Sound
<1> QED BY <1>6, <1>7, <1>8 DEF r

LEMMA InstallSound ==
  ASSUME NEW w, Sound(w), NEW c \in Constraint, c.id \notin IdsOf(w.cs)
  PROVE  LET r == Install(w, c) IN
         Sound(r) /\ IdsOf(r.cs) = IdsOf(w.cs) \cup {c.id}
<1> DEFINE C  == ToSet(w.cs)
           N  == Len(w.cs)
           w1 == UpdateTables(w, c.types)
           longer == Append(w.cs, c)
           r  == Install(w, c)
<1>0. /\ w \in Works /\ Distinct(w.cs) /\ w.cs \in Seq(Constraint)
      /\ Counted(w.all, NamedBy(C)) /\ Covered(w.all, w.dom) /\ Present(w.all, w.dom)
  BY WorkFields DEF Sound
<1>1. c \notin C
  BY DEF ToSet, IdsOf
<1>2. /\ w1 \in Works /\ w1.cs = w.cs /\ Counted(w1.all, NamedBy(C \cup {c}))
      /\ Covered(w1.all, w1.dom) /\ Present(w1.all, w1.dom)
  BY <1>0, <1>1, UpdateTablesSound
<1>3. /\ N \in Nat /\ DOMAIN w.cs = 1..N
      /\ longer \in Seq(Constraint) /\ DOMAIN longer = 1..(N + 1)
      /\ \A k \in 1..N : longer[k] = w.cs[k]
      /\ longer[N + 1] = c
  BY <1>0, AppendProperties, LenProperties
<1>4. \A k \in 1..(N + 1) : k \in 1..N \/ k = N + 1
  BY <1>3
<1>5. \A k \in 1..N : k \in 1..(N + 1) /\ k # N + 1
  BY <1>3
<1>r. r = [w1 EXCEPT !.cs = longer]
  BY DEF Install
<1> HIDE DEF w1, longer, r
<1>6. ToSet(longer) = C \cup {c}
  <2>1. ToSet(longer) \subseteq C \cup {c}
    BY <1>3, <1>4 DEF ToSet
  <2>2. C \cup {c} \subseteq ToSet(longer)
    <3>1. N + 1 \in 1..(N + 1)
      BY <1>3
    <3> QED BY <1>3, <1>5, <3>1 DEF ToSet
  <2> QED BY <2>1, <2>2
<1>7. IdsOf(longer) = IdsOf(w.cs) \cup {c.id}
  <2>1. IdsOf(longer) \subseteq IdsOf(w.cs) \cup {c.id}
    BY <1>3, <1>4 DEF IdsOf
  <2>2. IdsOf(w.cs) \cup {c.id} \subseteq IdsOf(longer)
    <3>1. N + 1 \in 1..(N + 1)
      BY <1>3
    <3> QED BY <1>3, <1>5, <3>1 DEF IdsOf
  <2> QED BY <2>1, <2>2
<1>8. Distinct(longer)
  <2>1. \A k \in 1..N : longer[k].id # c.id
    BY <1>3 DEF IdsOf
  <2> QED BY <1>0, <1>3, <1>4, <2>1 DEF Distinct
<1>9. r \in Works /\ r.cs = longer /\ r.all = w1.all /\ r.dom = w1.dom
  BY <1>2, <1>3, <1>r DEF Works
<1>10. Sound(r)
  BY <1>2, <1>6, <1>8, <1>9 DEF Sound
<1> QED BY <1>7, <1>9, <1>10 DEF r

LEMMA ModifySound ==
  ASSUME NEW w, Sound(w), NEW c \in Constraint, c.id \in IdsOf(w.cs)
  PROVE  LET r == Modify(w, c) IN Sound(r) /\ IdsOf(r.cs) = IdsOf(w.cs)
<1> DEFINE w1 == RemoveConstraint(w, c.id)
<1>1. Sound(w1) /\ IdsOf(w1.cs) = IdsOf(w.cs) \ {c.id}
  BY RemoveSound
<1> HIDE DEF w1
<1>2. /\ Sound(Install(w1, c)) /\ IdsOf(Install(w1, c).cs) = IdsOf(w1.cs) \cup {c.id}
  BY <1>1, InstallSound
<1> QED BY <1>1, <1>2 DEF Modify, w1

--------------------------------------------------------------------------------
(* Many constraints, one after the other *)

Elements(s) == {s[k] : k \in 1..Len(s)}

\* The elements of s are in S, none of them twice.
Among(s, S) == \A n \in 1..Len(s) : s[n] \in S
Different(s) == \A m, n \in 1..Len(s) : s[m] = s[n] => m = n

LEMMA RemoveEachSound ==
  ASSUME NEW w, Sound(w), NEW s, Len(s) \in Nat, Among(s, IdsOf(w.cs)), Different(s)
  PROVE  LET r == OneByOne(RemoveConstraint, w, s) IN
         Sound(r) /\ IdsOf(r.cs) = IdsOf(w.cs) \ Elements(s)
<1> DEFINE N == Len(s)
           Gone(n) == {s[k] : k \in 1..n}
           At(n) == {v \in Works : Sound(v) /\ IdsOf(v.cs) = IdsOf(w.cs) \ Gone(n)}
           V == [n \in 0..N |-> At(n)]
           r == OneByOne(RemoveConstraint, w, s)
<1>1. w \in At(0)
  <2>1. Gone(0) = {} /\ w \in Works
    BY DEF Sound
  <2> HIDE DEF Gone
  <2> QED BY <2>1
<1>2. ASSUME NEW n \in 1..N, NEW v \in At(n - 1)
      PROVE  RemoveConstraint(v, s[n]) \in At(n)
  <2> DEFINE u == RemoveConstraint(v, s[n])
  <2>1. Sound(v) /\ IdsOf(v.cs) = IdsOf(w.cs) \ Gone(n - 1)
    OBVIOUS
  <2>2. s[n] \notin Gone(n - 1)
    <3>1. \A k \in 1..(n - 1) : k \in 1..N /\ k # n
      OBVIOUS
    <3> QED BY <3>1 DEF Different
  <2>3. Gone(n) = Gone(n - 1) \cup {s[n]}
    <3>1. \A k : k \in 1..n <=> k \in 1..(n - 1) \/ k = n
      OBVIOUS
    <3> QED BY <3>1
  <2> HIDE DEF Gone, u
  <2>4. s[n] \in IdsOf(v.cs)
    BY <2>1, <2>2 DEF Among
  <2>5. Sound(u) /\ IdsOf(u.cs) = IdsOf(v.cs) \ {s[n]}
    BY <2>1, <2>4, RemoveSound DEF u
  <2>6. IdsOf(u.cs) = IdsOf(w.cs) \ Gone(n)
    BY <2>1, <2>3, <2>5
  <2>7. u \in Works
    BY <2>5 DEF Sound
  <2>8. u \in At(n)
    BY <2>5, <2>6, <2>7
  <2> QED BY <2>8 DEF u
<1> HIDE DEF At, r, Gone
<1>4. w \in V[0] /\ \A n \in 1..N : \A v \in V[n - 1] : RemoveConstraint(v, s[n]) \in V[n]
  <2>1. 0 \in 0..N /\ \A n \in 1..N : n \in 0..N /\ n - 1 \in 0..N
    OBVIOUS
  <2>2. \A n \in 0..N : V[n] = At(n)
    OBVIOUS
  <2> HIDE DEF V
  <2> QED BY <1>1, <1>2, <2>1, <2>2
<1>5. V[N] = At(N)
  OBVIOUS
<1> HIDE DEF V
<1>6. OneByOne(RemoveConstraint, w, s) \in V[Len(s)]
  BY <1>4, RemoveConstraints
<1> QED BY <1>5, <1>6 DEF r, At, Gone, Elements

LEMMA InstallEachSound ==
  ASSUME NEW w, Sound(w), NEW s, Len(s) \in Nat,
         \A n \in 1..Len(s) : s[n] \in Constraint /\ s[n].id \notin IdsOf(w.cs),
         \A m, n \in 1..Len(s) : s[m].id = s[n].id => m = n
  PROVE  LET r == OneByOne(Install, w, s) IN
         Sound(r) /\ IdsOf(r.cs) = IdsOf(w.cs) \cup {s[k].id : k \in 1..Len(s)}
<1> DEFINE N == Len(s)
           New(n) == {s[k].id : k \in 1..n}
           At(n) == {v \in Works : Sound(v) /\ IdsOf(v.cs) = IdsOf(w.cs) \cup New(n)}
           V == [n \in 0..N |-> At(n)]
           r == OneByOne(Install, w, s)
<1>1. w \in At(0)
  <2>1. New(0) = {} /\ w \in Works
    BY DEF Sound
  <2> HIDE DEF New
  <2> QED BY <2>1
<1>2. ASSUME NEW n \in 1..N, NEW v \in At(n - 1)
      PROVE  Install(v, s[n]) \in At(n)
  <2> DEFINE u == Install(v, s[n])
  <2>1. Sound(v) /\ IdsOf(v.cs) = IdsOf(w.cs) \cup New(n - 1)
    OBVIOUS
  <2>2. s[n].id \notin New(n - 1)
    <3>1. \A k \in 1..(n - 1) : k \in 1..N /\ k # n
      OBVIOUS
    <3> QED BY <3>1
  <2>3. New(n) = New(n - 1) \cup {s[n].id}
    <3>1. \A k : k \in 1..n <=> k \in 1..(n - 1) \/ k = n
      OBVIOUS
    <3> QED BY <3>1
  <2> HIDE DEF New, u
  <2>4. s[n] \in Constraint /\ s[n].id \notin IdsOf(v.cs)
    BY <2>1, <2>2
  <2>5. Sound(u) /\ IdsOf(u.cs) = IdsOf(v.cs) \cup {s[n].id}
    BY <2>1, <2>4, InstallSound DEF u
  <2>6. IdsOf(u.cs) = IdsOf(w.cs) \cup New(n)
    BY <2>1, <2>3, <2>5
  <2>7. u \in Works
    BY <2>5 DEF Sound
  <2>8. u \in At(n)
    BY <2>5, <2>6, <2>7
  <2> QED BY <2>8 DEF u
<1> HIDE DEF At, r, New
<1>4. w \in V[0] /\ \A n \in 1..N : \A v \in V[n - 1] : Install(v, s[n]) \in V[n]
  <2>1. 0 \in 0..N /\ \A n \in 1..N : n \in 0..N /\ n - 1 \in 0..N
    OBVIOUS
  <2>2. \A n \in 0..N : V[n] = At(n)
    OBVIOUS
  <2> HIDE DEF V
  <2> QED BY <1>1, <1>2, <2>1, <2>2
<1>5. V[N] = At(N)
  OBVIOUS
<1> HIDE DEF V
<1>6. OneByOne(Install, w, s) \in V[Len(s)]
  BY <1>4, InstallConstraints
<1> QED BY <1>5, <1>6 DEF r, At, New

LEMMA ModifyEachSound ==
  ASSUME NEW w, Sound(w), NEW s, Len(s) \in Nat,
         \A n \in 1..Len(s) : s[n] \in Constraint /\ s[n].id \in IdsOf(w.cs)
  PROVE  LET r == OneByOne(Modify, w, s) IN Sound(r) /\ IdsOf(r.cs) = IdsOf(w.cs)
<1> DEFINE N == Len(s)
           Same == {v \in Works : Sound(v) /\ IdsOf(v.cs) = IdsOf(w.cs)}
           V == [n \in 0..N |-> Same]
           r == OneByOne(Modify, w, s)
<1>1. w \in Same
  BY DEF Sound
<1>2. ASSUME NEW n \in 1..N, NEW v \in Same
      PROVE  Modify(v, s[n]) \in Same
  <2>1. Sound(v) /\ IdsOf(v.cs) = IdsOf(w.cs) /\ s[n] \in Constraint /\ s[n].id \in IdsOf(v.cs)
    OBVIOUS
  <2>2. Sound(Modify(v, s[n])) /\ IdsOf(Modify(v, s[n]).cs) = IdsOf(v.cs)
    BY <2>1, ModifySound
  <2> QED BY <2>1, <2>2 DEF Sound
<1> HIDE DEF Same, r
<1>4. w \in V[0] /\ \A n \in 1..N : \A v \in V[n - 1] : Modify(v, s[n]) \in V[n]
  <2>1. 0 \in 0..N /\ \A n \in 1..N : n \in 0..N /\ n - 1 \in 0..N
    OBVIOUS
  <2>2. \A n \in 0..N : V[n] = Same
    OBVIOUS
  <2> HIDE DEF V
  <2> QED BY <1>1, <1>2, <2>1, <2>2
<1>5. V[N] = Same
  OBVIOUS
<1> HIDE DEF V
<1>6. OneByOne(Modify, w, s) \in V[Len(s)]
  BY <1>4, ModifyEach
<1> QED BY <1>5, <1>6 DEF r, Same

--------------------------------------------------------------------------------
(* The invariant *)

Maps == [Holders -> [{"filter", "none"} -> Bag]]
TablesSound == Sound(Work)
IdsUsed == IdsOf(constraints) \subseteq 1..ids

\* A holder has one node without a filter for each type it subscribed to.
Subscribed == \A h \in Holders, ty \in Types : tmap[h]["none"][ty] = Count(rqstypes[h])[ty]

Inv == TypeOK /\ TablesSound /\ IdsUsed /\ Subscribed

LEMMA LessIs == \A n, k \in Nat : Less(n, k) \in Nat
BY DEF Less

\* The nodes of one kind of a holder change, all others stay.
Updated(r, m, h, flt, add, rem) ==
  /\ r \in Maps
  /\ \A ty \in Types : r[h][flt][ty] = Less(m[h][flt][ty], rem[ty]) + add[ty]
  /\ \A g \in Holders, f \in {"filter", "none"} : g # h \/ f # flt => r[g][f] = m[g][f]

LEMMA UpdateIs ==
  ASSUME NEW m \in Maps, NEW h \in Holders, NEW flt \in {"filter", "none"},
         NEW add \in Bag, NEW rem \in Bag
  PROVE  Updated(Update(m, h, flt, add, rem), m, h, flt, add, rem)
<1> DEFINE new == [ty \in Types |-> Less(m[h][flt][ty], rem[ty]) + add[ty]]
<1>1. m[h] \in [{"filter", "none"} -> Bag] /\ m[h][flt] \in Bag
  BY DEF Maps
<1>2. new \in Bag /\ \A ty \in Types : new[ty] = Less(m[h][flt][ty], rem[ty]) + add[ty]
  <2>1. \A ty \in Types : Less(m[h][flt][ty], rem[ty]) \in Nat /\ add[ty] \in Nat
    BY <1>1, LessIs DEF Bag
  <2> QED BY <2>1 DEF Bag
<1>3. Update(m, h, flt, add, rem) = [m EXCEPT ![h][flt] = new]
  BY DEF Update
<1> HIDE DEF new
<1>4. [m EXCEPT ![h][flt] = new] \in Maps
  BY <1>1, <1>2 DEF Maps
<1> QED BY <1>1, <1>2, <1>3, <1>4 DEF Maps, Updated

LEMMA CleanedIs == \A f, g \in Bag : Cleaned(f, g) \in Bag
<1> TAKE f, g \in Bag
<1>1. \A ty \in Types : (IF g[ty] > 0 THEN 0 ELSE f[ty]) \in Nat
  BY DEF Bag
<1> QED BY <1>1 DEF Cleaned, Bag

LEMMA BagsAre == Zero \in Bag /\ \A S : Count(S) \in Bag
BY BagTypes DEF Bag

LEMMA WorkIs == TypeOK => Work \in Works
<1>1. Zero \in [Types -> Nat] /\ <<>> \in Seq(Types)
  BY BagTypes
<1> QED BY <1>1 DEF TypeOK, Work, Works, Bag

\* The calls a caller may be in.
LEMMA CallsAre ==
  /\ Idle \in Calls
  /\ \A to \in SUBSET Holders : \A add, rem \in Bag :
       [op |-> "notify", to |-> to, add |-> add, rem |-> rem] \in Calls
  /\ \A h \in Holders :
       /\ [op |-> "add", holder |-> h] \in Calls /\ [op |-> "remove", holder |-> h] \in Calls
       /\ \A add, rem \in Bag :
            /\ [op |-> "attached", holder |-> h, add |-> add, rem |-> rem] \in Calls
            /\ [op |-> "detached", holder |-> h, add |-> add, rem |-> rem] \in Calls
       /\ \A added, deled \in SUBSET Types :
            [op |-> "subscribe", holder |-> h, added |-> added, deled |-> deled] \in Calls
BY DEF Calls, Idle

LEMMA CallFields ==
  ASSUME NEW c \in Calls
  PROVE  /\ c.op = "notify" => c.to \in SUBSET Holders /\ c.add \in Bag /\ c.rem \in Bag
         /\ c.op \in {"add", "remove", "attached", "detached", "subscribe"} => c.holder \in Holders
         /\ c.op \in {"attached", "detached"} => c.add \in Bag /\ c.rem \in Bag
         /\ c.op = "subscribe" => c.added \in SUBSET Types /\ c.deled \in SUBSET Types
BY DEF Calls

LEMMA InitInv == ASSUME Init PROVE Inv
<1> USE DEF Init
<1>1. Zero \in Bag /\ \A ty \in Types : Zero[ty] = 0
  BY BagsAre, BagTypes
<1>2. TypeOK
  <2>1. constraints \in Seq(Constraint) /\ calls \in Nat /\ ids \in Nat
    OBVIOUS
  <2>2. tmap \in [Holders -> [{"filter", "none"} -> Bag]]
    BY <1>1
  <2>3. call \in [Callers -> Calls]
    BY CallsAre
  <2> QED BY <1>1, <2>1, <2>2, <2>3 DEF TypeOK
<1>3. TablesSound
  <2>1. Work \in Works
    BY <1>2, WorkIs
  <2>2. /\ Work.cs = <<>> /\ Work.all = Zero /\ Work.dom = {}
    BY DEF Work
  <2>3. DOMAIN <<>> = {} /\ ToSet(<<>>) = {}
    BY DEF ToSet
  <2>4. Counted(Zero, NamedBy({}))
    <3>1. \A ty \in Types : NamedBy({})[ty] = {}
      BY DEF NamedBy, Named
    <3> QED BY <1>1, <3>1, FS_EmptySet DEF Counted
  <2>5. Distinct(<<>>)
    BY <2>3 DEF Distinct
  <2>6. Covered(Zero, {}) /\ Present(Zero, {})
    BY <1>1 DEF Covered, Present
  <2> QED BY <2>1, <2>2, <2>3, <2>4, <2>5, <2>6 DEF TablesSound, Sound
<1>4. IdsUsed
  BY DEF IdsUsed, IdsOf
<1>5. Subscribed
  <2> SUFFICES ASSUME NEW h \in Holders, NEW ty \in Types
               PROVE  tmap[h]["none"][ty] = Count(rqstypes[h])[ty]
    BY DEF Subscribed
  <2>1. rqstypes[h] = {} /\ tmap[h]["none"] = Zero
    OBVIOUS
  <2> QED BY <1>1, <2>1, BagTypes
<1> QED BY <1>2, <1>3, <1>4, <1>5 DEF Inv

--------------------------------------------------------------------------------
(* Changes of constraints *)

\* The lists a call tells are bags, whatever it did to the tables.
LEMMA ChangeKeeps ==
  ASSUME Inv, NEW t \in Callers, NEW w, Sound(w), Change(t, w),
         ids' \in Nat, IdsOf(w.cs) \subseteq 1..ids', calls' \in Nat
  PROVE  Inv'
<1> DEFINE add == Cleaned(w.add, w.rem)
           rem == Cleaned(w.rem, w.add)
<1>w. /\ w \in Works /\ w.cs \in Seq(Constraint) /\ w.all \in Bag /\ w.dom \in SUBSET Types
      /\ w.add \in Bag /\ w.rem \in Bag
  BY WorkFields DEF Sound, Bag
<1>1. add \in Bag /\ rem \in Bag
  BY <1>w, CleanedIs
<1>2. /\ constraints' = w.cs /\ all' = w.all /\ dom' = w.dom
      /\ call' = [call EXCEPT ![t] =
            IF (add = Zero /\ rem = Zero) \/ callbacks = {} THEN Idle
            ELSE [op |-> "notify", to |-> callbacks, add |-> add, rem |-> rem]]
      /\ UNCHANGED <<callbacks, filters, rqstypes, tmap, channel, lock>>
  BY DEF Change
<1> HIDE DEF add, rem
<1>3. call' \in [Callers -> Calls]
  <2>1. call \in [Callers -> Calls] /\ callbacks \in SUBSET Holders
    BY DEF Inv, TypeOK
  <2>2. \A x \in Calls : [call EXCEPT ![t] = x] \in [Callers -> Calls]
    BY <2>1
  <2> QED BY <1>1, <1>2, <2>1, <2>2, CallsAre
<1>4. TypeOK'
  BY <1>w, <1>2, <1>3 DEF Inv, TypeOK
<1>5. TablesSound'
  <2> DEFINE v == Work'
  <2>1. v = [cs |-> w.cs, all |-> w.all, dom |-> w.dom, add |-> Zero, rem |-> Zero,
             deltypes |-> Zero, lost |-> <<>>]
    BY <1>2 DEF Work
  <2>2. v \in Works
    <3>1. Zero \in [Types -> Nat] /\ <<>> \in Seq(Types)
      BY BagTypes
    <3> QED BY <1>w, <2>1, <3>1 DEF Works, Bag
  <2>3. v.cs = w.cs /\ v.all = w.all /\ v.dom = w.dom
    BY <2>1
  <2> HIDE DEF v
  <2>4. Sound(v)
    BY <2>2, <2>3 DEF Sound
  <2> QED BY <2>4 DEF TablesSound, v
<1>6. IdsUsed'
  BY <1>2 DEF IdsUsed
<1>7. Subscribed'
  BY <1>2 DEF Inv, Subscribed
<1> QED BY <1>4, <1>5, <1>6, <1>7 DEF Inv

LEMMA WorkOfConstraints == Inv => Sound(Work) /\ Work.cs = constraints
BY DEF Inv, TablesSound, Work

\* New constraints have numbers no constraint had.
LEMMA AddKeeps ==
  ASSUME Inv, NEW t \in Callers, AddConstraints(t) PROVE Inv'
<1>1. calls' \in Nat
  BY DEF AddConstraints, Begin, Inv, TypeOK
<1>2. PICK n \in 1..MaxListed : \E lists \in [1..n -> TypeLists] :
        /\ ids' = ids + n
        /\ Change(t, OneByOne(Install, Work,
                     [i \in 1..n |-> [id |-> ids + i, types |-> lists[i]]]))
  BY DEF AddConstraints
<1>3. PICK lists \in [1..n -> TypeLists] :
        /\ ids' = ids + n
        /\ Change(t, OneByOne(Install, Work,
                     [i \in 1..n |-> [id |-> ids + i, types |-> lists[i]]]))
  BY <1>2
<1> DEFINE s == [i \in 1..n |-> [id |-> ids + i, types |-> lists[i]]]
           w == OneByOne(Install, Work, s)
<1>n. n \in Nat /\ ids \in Nat
  BY SubscriptionsAssumption DEF Inv, TypeOK
<1>4. \A i \in 1..n : s[i] \in Constraint /\ s[i].id = ids + i
  <2>1. \A i \in 1..n : ids + i \in Nat /\ lists[i] \in Seq(Types)
    BY <1>n, SubscriptionsAssumption
  <2> QED BY <2>1 DEF Constraint
<1>5. s \in Seq(Constraint) /\ Len(s) = n
  <2>1. s \in [1..n -> Constraint]
    BY <1>4
  <2> HIDE DEF s
  <2>2. s \in Seq(Constraint)
    BY <1>n, <2>1, SeqDef
  <2> QED BY <1>n, <2>1, <2>2, LenProperties
<1> HIDE DEF s
<1>6. Sound(Work) /\ Work.cs = constraints /\ IdsOf(constraints) \subseteq 1..ids
  BY WorkOfConstraints DEF Inv, IdsUsed
<1>7. /\ \A i \in 1..Len(s) : s[i] \in Constraint /\ s[i].id \notin IdsOf(Work.cs)
      /\ \A i, j \in 1..Len(s) : s[i].id = s[j].id => i = j
  <2>1. \A i \in 1..n : s[i].id \notin 1..ids
    BY <1>n, <1>4
  <2>2. \A i, j \in 1..n : s[i].id = s[j].id => i = j
    BY <1>n, <1>4
  <2> QED BY <1>4, <1>5, <1>6, <2>1, <2>2
<1>8. /\ Sound(w) /\ IdsOf(w.cs) = IdsOf(Work.cs) \cup {s[k].id : k \in 1..Len(s)}
  <2>1. Len(s) \in Nat
    BY <1>n, <1>5
  <2> QED BY <1>6, <1>7, <2>1, InstallEachSound
<1>9. IdsOf(w.cs) \subseteq 1..ids' /\ ids' \in Nat
  <2>1. \A k \in 1..n : s[k].id \in 1..(ids + n)
    BY <1>n, <1>4
  <2>2. 1..ids \subseteq 1..(ids + n) /\ ids + n \in Nat
    BY <1>n
  <2> HIDE DEF w
  <2> QED BY <1>3, <1>5, <1>6, <1>8, <2>1, <2>2
<1>10. Change(t, w)
  BY <1>3 DEF s
<1> HIDE DEF w
<1> QED BY <1>1, <1>8, <1>9, <1>10, ChangeKeeps

LEMMA InSomeOrder ==
  ASSUME NEW S, IsFiniteSet(S), NEW f \in SetToSeqs(S)
  PROVE  /\ Len(f) \in Nat /\ DOMAIN f = 1..Len(f)
         /\ \A n \in 1..Len(f) : f[n] \in S
         /\ \A m, n \in 1..Len(f) : f[m] = f[n] => m = n
<1> DEFINE N == Cardinality(S)
<1>1. N \in Nat
  BY FS_CardinalityType
<1>2. f \in [1..N -> S] /\ \A i, j \in 1..N : i # j => f[i] # f[j]
  BY DEF SetToSeqs
<1> HIDE DEF N
<1>3. f \in Seq(S)
  BY <1>1, <1>2, SeqDef
<1>4. Len(f) = N
  BY <1>1, <1>2, <1>3, LenProperties
<1> QED BY <1>1, <1>2, <1>4

\* What is changed is not among what is deleted first.
LEMMA ModifyKeeps ==
  ASSUME Inv, NEW t \in Callers, ModifyConstraints(t) PROVE Inv'
<1>1. calls' \in Nat /\ ids' = ids /\ ids \in Nat
  BY DEF ModifyConstraints, Begin, Inv, TypeOK
<1>2. PICK gone \in SUBSET IdsOf(constraints), changed \in SUBSET IdsOf(constraints) :
        /\ gone \cap changed = {}
        /\ \E dels \in SetToSeqs(gone), mods \in SetToSeqs(changed) :
           \E lists \in [DOMAIN mods -> TypeLists] :
             Change(t, OneByOne(Modify, OneByOne(RemoveConstraint, Work, dels),
                          [i \in DOMAIN mods |-> [id |-> mods[i], types |-> lists[i]]]))
  BY DEF ModifyConstraints, IdsOf
<1>3. PICK dels \in SetToSeqs(gone), mods \in SetToSeqs(changed) :
           \E lists \in [DOMAIN mods -> TypeLists] :
             Change(t, OneByOne(Modify, OneByOne(RemoveConstraint, Work, dels),
                          [i \in DOMAIN mods |-> [id |-> mods[i], types |-> lists[i]]]))
  BY <1>2
<1>4. PICK lists \in [DOMAIN mods -> TypeLists] :
             Change(t, OneByOne(Modify, OneByOne(RemoveConstraint, Work, dels),
                          [i \in DOMAIN mods |-> [id |-> mods[i], types |-> lists[i]]]))
  BY <1>3
<1> DEFINE u == OneByOne(RemoveConstraint, Work, dels)
           s == [i \in DOMAIN mods |-> [id |-> mods[i], types |-> lists[i]]]
           w == OneByOne(Modify, u, s)
<1>5. Sound(Work) /\ Work.cs = constraints /\ IdsOf(constraints) \subseteq 1..ids
  BY WorkOfConstraints DEF Inv, IdsUsed
<1>6. IsFiniteSet(gone) /\ IsFiniteSet(changed)
  <2>1. IsFiniteSet(1..ids)
    BY <1>1, FS_Interval
  <2>2. gone \subseteq 1..ids /\ changed \subseteq 1..ids
    BY <1>2, <1>5
  <2> QED BY <2>1, <2>2, FS_Subset
<1>7. /\ Len(dels) \in Nat /\ \A n \in 1..Len(dels) : dels[n] \in gone
      /\ \A m, n \in 1..Len(dels) : dels[m] = dels[n] => m = n
  BY <1>3, <1>6, InSomeOrder
<1>8. Sound(u) /\ IdsOf(u.cs) = IdsOf(Work.cs) \ Elements(dels)
  <2>1. \A n \in 1..Len(dels) : dels[n] \in IdsOf(Work.cs)
    BY <1>2, <1>5, <1>7
  <2>2. Among(dels, IdsOf(Work.cs)) /\ Different(dels)
    BY <1>7, <2>1 DEF Among, Different
  <2> QED BY <1>5, <1>7, <2>2, RemoveEachSound
<1> HIDE DEF u
<1>9. changed \subseteq IdsOf(u.cs)
  BY <1>2, <1>5, <1>7, <1>8 DEF Elements
<1>10. /\ Len(mods) \in Nat /\ DOMAIN mods = 1..Len(mods)
       /\ \A n \in 1..Len(mods) : mods[n] \in changed
  BY <1>3, <1>6, InSomeOrder
<1>11. \A i \in 1..Len(mods) : s[i] \in Constraint /\ s[i].id = mods[i]
  <2>1. \A i \in 1..Len(mods) : mods[i] \in Nat /\ lists[i] \in Seq(Types)
    <3>1. \A i \in 1..Len(mods) : mods[i] \in 1..ids
      BY <1>2, <1>5, <1>10
    <3>2. \A i \in 1..Len(mods) : lists[i] \in Seq(Types)
      BY <1>10, SubscriptionsAssumption
    <3> QED BY <1>1, <3>1, <3>2
  <2> QED BY <1>10, <2>1 DEF Constraint
<1>12. s \in Seq(Constraint) /\ Len(s) = Len(mods)
  <2> DEFINE N == Len(mods)
  <2>1. s \in [1..N -> Constraint] /\ N \in Nat
    BY <1>10, <1>11
  <2> HIDE DEF s, N
  <2>2. s \in Seq(Constraint)
    BY <2>1, SeqDef
  <2>3. Len(s) = N
    BY <2>1, <2>2, LenProperties
  <2> QED BY <2>2, <2>3 DEF N
<1> HIDE DEF s
<1>13. Sound(w) /\ IdsOf(w.cs) = IdsOf(u.cs)
  <2>1. /\ Len(s) \in Nat
        /\ \A n \in 1..Len(s) : s[n] \in Constraint /\ s[n].id \in IdsOf(u.cs)
    BY <1>9, <1>10, <1>11, <1>12
  <2> QED BY <1>8, <2>1, ModifyEachSound
<1>14. Change(t, w)
  BY <1>4 DEF u, s
<1> HIDE DEF w
<1>15. IdsOf(w.cs) \subseteq 1..ids' /\ ids' \in Nat
  BY <1>1, <1>5, <1>8, <1>13
<1> QED BY <1>1, <1>13, <1>14, <1>15, ChangeKeeps

LEMMA RemoveAllKeeps ==
  ASSUME Inv, NEW t \in Callers, RemoveAllConstraints(t) PROVE Inv'
<1>1. calls' \in Nat /\ ids' = ids /\ ids \in Nat
  BY DEF RemoveAllConstraints, Begin, Inv, TypeOK
<1> DEFINE s == [i \in DOMAIN constraints |-> constraints[i].id]
           w == OneByOne(RemoveConstraint, Work, s)
           N == Len(constraints)
<1>2. /\ Sound(Work) /\ Work.cs = constraints /\ IdsOf(constraints) \subseteq 1..ids
      /\ constraints \in Seq(Constraint) /\ Distinct(constraints)
  BY WorkOfConstraints DEF Inv, IdsUsed, TypeOK, Sound
<1>3. N \in Nat /\ DOMAIN constraints = 1..N
  BY <1>2, LenProperties
<1>4. s \in [1..N -> IdsOf(constraints)] /\ \A n \in 1..N : s[n] = constraints[n].id
  BY <1>3 DEF IdsOf
<1> HIDE DEF s, N
<1>5. s \in Seq(IdsOf(constraints))
  BY <1>3, <1>4, SeqDef
<1>6. Len(s) = N
  BY <1>3, <1>4, <1>5, LenProperties
<1>7. \A m, n \in 1..N : s[m] = s[n] => m = n
  BY <1>2, <1>3, <1>4 DEF Distinct
<1>8. Sound(w) /\ IdsOf(w.cs) = IdsOf(Work.cs) \ Elements(s)
  <2>1. Len(s) \in Nat /\ \A n \in 1..Len(s) : s[n] \in IdsOf(Work.cs)
    BY <1>2, <1>3, <1>4, <1>6
  <2>2. \A m, n \in 1..Len(s) : s[m] = s[n] => m = n
    BY <1>6, <1>7
  <2>3. Among(s, IdsOf(Work.cs)) /\ Different(s)
    BY <2>1, <2>2 DEF Among, Different
  <2> QED BY <1>2, <2>1, <2>3, RemoveEachSound
<1>9. Change(t, w)
  BY DEF RemoveAllConstraints, s
<1> HIDE DEF w
<1>10. IdsOf(w.cs) \subseteq 1..ids' /\ ids' \in Nat
  BY <1>1, <1>2, <1>8
<1> QED BY <1>1, <1>8, <1>9, <1>10, ChangeKeeps

--------------------------------------------------------------------------------
(* The other actions *)

\* Constraints and their tables stay as they are.
LEMMA TablesStay ==
  ASSUME Inv, UNCHANGED <<constraints, all, dom, ids>> PROVE TablesSound' /\ IdsUsed'
<1>1. Work' = Work
  BY DEF Work
<1> QED BY <1>1 DEF Inv, TablesSound, IdsUsed

\* Nodes with a filter say nothing of subscriptions.
LEMMA FilterNodes ==
  ASSUME Inv, NEW h \in Holders, NEW add \in Bag, NEW rem \in Bag,
         tmap' = Update(tmap, h, "filter", add, rem), rqstypes' = rqstypes
  PROVE  tmap' \in Maps /\ Subscribed'
<1>1. tmap \in Maps
  BY DEF Inv, TypeOK, Maps
<1>2. Updated(tmap', tmap, h, "filter", add, rem)
  BY <1>1, UpdateIs
<1>3. tmap' \in Maps /\ \A g \in Holders : tmap'[g]["none"] = tmap[g]["none"]
  BY <1>2 DEF Updated
<1> QED BY <1>3 DEF Inv, Subscribed

LEMMA CallOf ==
  ASSUME Inv, NEW t \in Callers
  PROVE  call[t] \in Calls /\ \A x \in Calls : [call EXCEPT ![t] = x] \in [Callers -> Calls]
BY DEF Inv, TypeOK

LEMMA PropagateKeeps ==
  ASSUME Inv, NEW t \in Callers, NEW h \in Holders, Propagate(t, h) PROVE Inv'
<1>1. /\ call[t].op = "notify"
      /\ tmap' = Update(tmap, h, "filter", call[t].add, call[t].rem)
      /\ call' = [call EXCEPT ![t] = IF call[t].to = {h} THEN Idle
                                        ELSE [op |-> "notify", to |-> call[t].to \ {h},
                                              add |-> call[t].add, rem |-> call[t].rem]]
      /\ UNCHANGED <<filterVars, filters, rqstypes, channel, lock, calls>>
  BY DEF Propagate
<1>2. call[t].to \in SUBSET Holders /\ call[t].add \in Bag /\ call[t].rem \in Bag
  BY <1>1, CallOf, CallFields
<1>3. tmap' \in Maps /\ Subscribed'
  BY <1>1, <1>2, FilterNodes
<1>4. call' \in [Callers -> Calls]
  <2>1. call[t].to \ {h} \in SUBSET Holders
    BY <1>2
  <2> QED BY <1>1, <1>2, <2>1, CallOf, CallsAre
<1>5. TypeOK'
  BY <1>1, <1>3, <1>4 DEF Inv, TypeOK, Maps, filterVars
<1> QED BY <1>1, <1>3, <1>5, TablesStay DEF Inv, filterVars

LEMMA TakeKeeps ==
  ASSUME Inv, NEW t \in Callers, NEW h \in Holders, NEW op \in {"add", "remove"},
         TakeChannel(t, h, op)
  PROVE  Inv'
<1>1. /\ calls' = calls + 1 /\ channel' = t
      /\ call' = [call EXCEPT ![t] = [op |-> op, holder |-> h]]
      /\ UNCHANGED <<filterVars, filters, rqstypes, tmap, lock>>
  BY DEF TakeChannel, Begin
<1>2. call' \in [Callers -> Calls]
  BY <1>1, CallOf, CallsAre
<1>3. TypeOK'
  BY <1>1, <1>2 DEF Inv, TypeOK, filterVars
<1>4. Subscribed'
  BY <1>1 DEF Inv, Subscribed
<1> QED BY <1>1, <1>3, <1>4, TablesStay DEF Inv, filterVars

\* The nodes of the subscription that is cancelled go with it.
LEMMA AttachKeeps ==
  ASSUME Inv, NEW t \in Callers, Attach(t) PROVE Inv'
<1> DEFINE h == call[t].holder
<1>1. /\ call[t].op = "add"
      /\ tmap' = Update(tmap, h, "none", Zero, Count(rqstypes[h]))
      /\ rqstypes' = [rqstypes EXCEPT ![h] = {}]
      /\ callbacks' = callbacks \cup {h}
      /\ call' = [call EXCEPT ![t] = [op |-> "attached", holder |-> h,
                                      add |-> Count(dom), rem |-> Zero]]
      /\ lock' = [lock EXCEPT ![h] = t]
      /\ UNCHANGED <<constraints, all, dom, ids, filters, channel, calls>>
  BY DEF Attach
<1>2. h \in Holders
  BY <1>1, CallOf, CallFields
<1>3. tmap \in Maps /\ Zero \in Bag /\ \A S : Count(S) \in Bag
  BY BagsAre DEF Inv, TypeOK, Maps
<1> HIDE DEF h
<1>4. /\ tmap' \in Maps
      /\ \A ty \in Types : tmap'[h]["none"][ty] =
              Less(tmap[h]["none"][ty], Count(rqstypes[h])[ty]) + Zero[ty]
      /\ \A g \in Holders : g # h => tmap'[g]["none"] = tmap[g]["none"]
  <2>1. Updated(tmap', tmap, h, "none", Zero, Count(rqstypes[h]))
    BY <1>1, <1>2, <1>3, UpdateIs
  <2> QED BY <2>1 DEF Updated
<1>5. Subscribed'
  <2> SUFFICES ASSUME NEW g \in Holders, NEW ty \in Types
               PROVE  tmap'[g]["none"][ty] = Count(rqstypes'[g])[ty]
    BY DEF Subscribed
  <2>1. tmap[g]["none"][ty] = Count(rqstypes[g])[ty]
    BY DEF Inv, Subscribed
  <2>2. CASE g = h
    <3>1. rqstypes'[g] = {} /\ Count({})[ty] = 0 /\ Zero[ty] = 0
      BY <1>1, <1>2, <2>2, BagTypes DEF Inv, TypeOK
    <3>2. tmap'[g]["none"][ty] = Less(Count(rqstypes[h])[ty], Count(rqstypes[h])[ty]) + 0
      BY <1>4, <2>1, <2>2, <3>1
    <3>3. Count(rqstypes[h])[ty] \in Nat
      BY <1>3 DEF Bag
    <3> QED BY <3>1, <3>2, <3>3 DEF Less
  <2>3. CASE g # h
    <3>1. rqstypes'[g] = rqstypes[g]
      BY <1>1, <2>3 DEF Inv, TypeOK
    <3> QED BY <1>4, <2>1, <2>3, <3>1
  <2> QED BY <2>2, <2>3
<1>6. call' \in [Callers -> Calls]
  BY <1>1, <1>2, <1>3, CallOf, CallsAre
<1>7. TypeOK'
  <2>1. /\ rqstypes' \in [Holders -> SUBSET Types] /\ callbacks' \subseteq Holders
        /\ lock' \in [Holders -> Callers \cup {None}]
    BY <1>1, <1>2 DEF Inv, TypeOK
  <2> QED BY <1>1, <1>4, <1>6, <2>1 DEF Inv, TypeOK, Maps
<1> QED BY <1>1, <1>5, <1>7, TablesStay DEF Inv

LEMMA DetachKeeps ==
  ASSUME Inv, NEW t \in Callers, Detach(t) PROVE Inv'
<1> DEFINE h == call[t].holder
<1>1. /\ call[t].op = "remove"
      /\ callbacks' = callbacks \ {h}
      /\ call' = [call EXCEPT ![t] = [op |-> "detached", holder |-> h,
                                      add |-> Zero, rem |-> Count(dom)]]
      /\ lock' = [lock EXCEPT ![h] = t]
      /\ UNCHANGED <<constraints, all, dom, ids, filters, rqstypes, tmap, channel, calls>>
  BY DEF Detach
<1>2. h \in Holders
  BY <1>1, CallOf, CallFields
<1> HIDE DEF h
<1>3. call' \in [Callers -> Calls]
  BY <1>1, <1>2, BagsAre, CallOf, CallsAre
<1>4. TypeOK'
  <2>1. callbacks' \subseteq Holders /\ lock' \in [Holders -> Callers \cup {None}]
    BY <1>1 DEF Inv, TypeOK
  <2> QED BY <1>1, <1>3, <2>1 DEF Inv, TypeOK
<1>5. Subscribed'
  BY <1>1 DEF Inv, Subscribed
<1> QED BY <1>1, <1>4, <1>5, TablesStay DEF Inv

LEMMA FinishKeeps ==
  ASSUME Inv, NEW t \in Callers, FinishFilter(t) PROVE Inv'
<1> DEFINE h == call[t].holder
<1>1. /\ call[t].op \in {"attached", "detached"}
      /\ tmap' = Update(tmap, h, "filter", call[t].add, call[t].rem)
      /\ filters' = IF call[t].op = "attached" THEN filters \cup {h} ELSE filters \ {h}
      /\ channel' = None /\ lock' = [lock EXCEPT ![h] = None]
      /\ call' = [call EXCEPT ![t] = Idle]
      /\ UNCHANGED <<filterVars, rqstypes, calls>>
  BY DEF FinishFilter
<1>2. h \in Holders /\ call[t].add \in Bag /\ call[t].rem \in Bag
  BY <1>1, CallOf, CallFields
<1> HIDE DEF h
<1>3. tmap' \in Maps /\ Subscribed'
  BY <1>1, <1>2, FilterNodes
<1>4. call' \in [Callers -> Calls]
  BY <1>1, CallOf, CallsAre
<1>5. TypeOK'
  <2>1. filters' \subseteq Holders /\ lock' \in [Holders -> Callers \cup {None}]
    BY <1>1, <1>2 DEF Inv, TypeOK
  <2> QED BY <1>1, <1>3, <1>4, <2>1 DEF Inv, TypeOK, Maps, filterVars
<1> QED BY <1>1, <1>3, <1>5, TablesStay DEF Inv, filterVars

LEMMA SubscriptionChangeKeeps ==
  ASSUME Inv, NEW t \in Callers, NEW h \in Holders, SubscriptionChange(t, h) PROVE Inv'
<1>1. PICK added \in Requests, deled \in Requests :
        call' = [call EXCEPT ![t] = [op |-> "subscribe", holder |-> h,
                                     added |-> added, deled |-> deled]]
  BY DEF SubscriptionChange
<1>2. /\ calls' = calls + 1
      /\ lock' = IF h = Admin THEN [lock EXCEPT ![h] = t] ELSE lock
      /\ UNCHANGED <<filterVars, filters, rqstypes, tmap, channel>>
  BY DEF SubscriptionChange, Begin
<1>3. call' \in [Callers -> Calls]
  <2>1. added \in SUBSET Types /\ deled \in SUBSET Types
    BY SubscriptionsAssumption
  <2> QED BY <1>1, <2>1, CallOf, CallsAre
<1>4. TypeOK'
  <2>1. lock' \in [Holders -> Callers \cup {None}]
    BY <1>2 DEF Inv, TypeOK
  <2> QED BY <1>2, <1>3, <2>1 DEF Inv, TypeOK, filterVars
<1>5. Subscribed'
  BY <1>2 DEF Inv, Subscribed
<1> QED BY <1>2, <1>4, <1>5, TablesStay DEF Inv, filterVars

\* A type that is added has a node already or gets one, a type that is given
\* up had one.
LEMMA SubscribeKeeps ==
  ASSUME Inv, NEW t \in Callers, Subscribe(t) PROVE Inv'
<1> DEFINE h     == call[t].holder
           old   == rqstypes[h]
           added == call[t].added
           toadd == added \ old
           todel == IF old = {} THEN {} ELSE (old \cap call[t].deled) \ added
           now   == (old \ todel) \cup added
<1>1. /\ call[t].op = "subscribe"
      /\ tmap' = Update(tmap, h, "none", Count(toadd), Count(todel))
      /\ rqstypes' = [rqstypes EXCEPT ![h] = now]
      /\ lock' = IF h = Admin THEN [lock EXCEPT ![h] = None] ELSE lock
      /\ call' = [call EXCEPT ![t] = Idle]
      /\ UNCHANGED <<filterVars, filters, channel, calls>>
  BY DEF Subscribe
<1>2. h \in Holders /\ added \in SUBSET Types
  BY <1>1, CallOf, CallFields
<1>3. tmap \in Maps /\ \A S : Count(S) \in Bag
  BY BagsAre DEF Inv, TypeOK, Maps
<1>4. old \in SUBSET Types
  BY <1>2 DEF Inv, TypeOK
<1>5. todel \subseteq old /\ todel \cap added = {}
  OBVIOUS
<1> HIDE DEF h, old, added, todel
<1>6. toadd = added \ old /\ now = (old \ todel) \cup added /\ now \in SUBSET Types
  BY <1>2, <1>4
<1> HIDE DEF toadd, now
<1>7. /\ tmap' \in Maps
      /\ \A ty \in Types : tmap'[h]["none"][ty] =
              Less(tmap[h]["none"][ty], Count(todel)[ty]) + Count(toadd)[ty]
      /\ \A g \in Holders : g # h => tmap'[g]["none"] = tmap[g]["none"]
  <2>1. Updated(tmap', tmap, h, "none", Count(toadd), Count(todel))
    BY <1>1, <1>2, <1>3, UpdateIs
  <2> QED BY <2>1 DEF Updated
<1>8. Subscribed'
  <2> SUFFICES ASSUME NEW g \in Holders, NEW ty \in Types
               PROVE  tmap'[g]["none"][ty] = Count(rqstypes'[g])[ty]
    BY DEF Subscribed
  <2>1. tmap[g]["none"][ty] = Count(rqstypes[g])[ty]
    BY DEF Inv, Subscribed
  <2>2. CASE g = h
    <3>1. rqstypes'[g] = now /\ rqstypes[g] = old
      BY <1>1, <1>2, <2>2 DEF Inv, TypeOK, old
    <3>2. tmap'[g]["none"][ty] = Less(Count(old)[ty], Count(todel)[ty]) + Count(toadd)[ty]
      BY <1>7, <2>1, <2>2, <3>1
    <3>3. \A S : Count(S)[ty] = IF ty \in S THEN 1 ELSE 0
      BY BagTypes
    <3>4. Less(Count(old)[ty], Count(todel)[ty]) = IF ty \in old \ todel THEN 1 ELSE 0
      BY <1>5, <3>3 DEF Less
    <3>5. Count(now)[ty] = (IF ty \in old \ todel THEN 1 ELSE 0) + Count(toadd)[ty]
      BY <1>5, <1>6, <3>3
    <3> QED BY <3>1, <3>2, <3>4, <3>5
  <2>3. CASE g # h
    <3>1. rqstypes'[g] = rqstypes[g]
      BY <1>1, <2>3 DEF Inv, TypeOK
    <3> QED BY <1>7, <2>1, <2>3, <3>1
  <2> QED BY <2>2, <2>3
<1>9. call' \in [Callers -> Calls]
  BY <1>1, CallOf, CallsAre
<1>10. TypeOK'
  <2>1. rqstypes' \in [Holders -> SUBSET Types] /\ lock' \in [Holders -> Callers \cup {None}]
    BY <1>1, <1>6 DEF Inv, TypeOK
  <2> QED BY <1>1, <1>7, <1>9, <2>1 DEF Inv, TypeOK, Maps, filterVars
<1> QED BY <1>1, <1>8, <1>10, TablesStay DEF Inv, filterVars

--------------------------------------------------------------------------------
(* Theorems *)

LEMMA StepInv == ASSUME Inv, [Next]_vars PROVE Inv'
<1>1. CASE UNCHANGED vars
  <2>1. UNCHANGED <<constraints, all, dom, callbacks, ids, filters, rqstypes, tmap, channel,
                    lock, call, calls>>
    BY <1>1 DEF vars, filterVars
  <2>2. TypeOK' /\ Subscribed'
    BY <2>1 DEF Inv, TypeOK, Subscribed
  <2> QED BY <2>1, <2>2, TablesStay DEF Inv
<1>2. CASE Next
  <2>1. PICK t \in Callers :
          \/ AddConstraints(t) \/ ModifyConstraints(t) \/ RemoveAllConstraints(t)
          \/ Attach(t) \/ Detach(t) \/ FinishFilter(t) \/ Subscribe(t)
          \/ \E h \in Holders :
               \/ Propagate(t, h)
               \/ AddFilter(t, h) \/ RemoveFilter(t, h) \/ SubscriptionChange(t, h)
    BY <1>2 DEF Next
  <2>2. CASE AddConstraints(t)
    BY <2>2, AddKeeps
  <2>3. CASE ModifyConstraints(t)
    BY <2>3, ModifyKeeps
  <2>4. CASE RemoveAllConstraints(t)
    BY <2>4, RemoveAllKeeps
  <2>5. CASE Attach(t)
    BY <2>5, AttachKeeps
  <2>6. CASE Detach(t)
    BY <2>6, DetachKeeps
  <2>7. CASE FinishFilter(t)
    BY <2>7, FinishKeeps
  <2>8. CASE Subscribe(t)
    BY <2>8, SubscribeKeeps
  <2>9. ASSUME NEW h \in Holders, Propagate(t, h) PROVE Inv'
    BY <2>9, PropagateKeeps
  <2>10. ASSUME NEW h \in Holders, AddFilter(t, h) \/ RemoveFilter(t, h) PROVE Inv'
    BY <2>10, TakeKeeps DEF AddFilter, RemoveFilter
  <2>11. ASSUME NEW h \in Holders, SubscriptionChange(t, h) PROVE Inv'
    BY <2>11, SubscriptionChangeKeeps
  <2> QED BY <2>1, <2>2, <2>3, <2>4, <2>5, <2>6, <2>7, <2>8, <2>9, <2>10, <2>11
<1> QED BY <1>1, <1>2

\* In every behaviour of clients that change constraints, filters and
\* subscriptions the tables of the filter fit its constraints, constraints
\* have different numbers that were given out, and the map has one node
\* without a filter for each type a holder subscribed to.
THEOREM Invariance == Spec => []Inv
<1>1. Init => Inv
  BY InitInv
<1>2. Inv /\ [Next]_vars => Inv'
  BY StepInv
<1> QED BY <1>1, <1>2, PTL DEF Spec

\* The counts of the tables and of the nodes of the map stay natural numbers,
\* and a caller is in one of the calls of the interface.
THEOREM TypeCorrect == Spec => []TypeOK
<1>1. Inv => TypeOK
  BY DEF Inv
<1> QED BY <1>1, Invariance, PTL

\* However constraints are added, changed and deleted (add_constraints(),
\* modify_constraints() and remove_all_constraints() of Filter_i), the tables
\* count how often the constraints name a type, and what a filter tells its
\* holders dominates whatever its constraints name.
THEOREM TablesAreExact == Spec => []TablesExact
<1>1. Inv => TablesExact
  <2> SUFFICES ASSUME Inv PROVE TablesExact
    OBVIOUS
  <2>1. /\ Counted(all, NamedBy(ToSet(constraints))) /\ Covered(all, dom) /\ Present(all, dom)
    BY DEF Inv, TablesSound, Sound, Work
  <2>2. \A ty \in Types : all[ty] = Cardinality(Named(ToSet(constraints), ty))
    BY <2>1 DEF Counted, NamedBy
  <2> QED BY <2>1, <2>2 DEF TablesExact, Covered, Present
<1> QED BY <1>1, Invariance, PTL

\* What a holder hits: a type it subscribed to, or a constraint its filter has
\* now, or the filter has none.
LEMMA HitsAsked ==
  ASSUME Inv, NEW h \in Holders, h \in filters, NEW e \in Events, Hits(h, e) > 0
  PROVE  Asks(h, e) \/ constraints = <<>>
<1> DEFINE under == {u \in Types : Dominates(u, e)}
           nodes(ty) == Nodes(h, "none", ty) \cup IF RdiMatch(e) THEN Nodes(h, "filter", ty) ELSE {}
           found == UNION {nodes(ty) : ty \in under}
<1>1. found # {}
  <2>1. SUFFICES ASSUME found = {} PROVE FALSE
    OBVIOUS
  <2>2. Cardinality(found) = 0
    BY <2>1, FS_EmptySet
  <2>3. Cardinality(found) > 0
    BY DEF Hits
  <2> HIDE DEF found
  <2> QED BY <2>2, <2>3
<1>2. PICK ty \in under : nodes(ty) # {}
  BY <1>1
<1>3. CASE RdiMatch(e)
  <2>1. CASE constraints = <<>>
    BY <2>1
  <2>2. CASE constraints # <<>>
    BY <1>3, <2>2 DEF RdiMatch, Asks, IsDominated
  <2> QED BY <2>1, <2>2
<1>4. CASE ~RdiMatch(e)
  <2>1. Nodes(h, "none", ty) # {}
    BY <1>2, <1>4
  <2>2. PICK n \in 1..tmap[h]["none"][ty] : TRUE
    BY <2>1 DEF Nodes
  <2>3. tmap[h]["none"][ty] = IF ty \in rqstypes[h] THEN 1 ELSE 0
    BY BagTypes DEF Inv, Subscribed
  <2>4. ty \in rqstypes[h]
    BY <2>2, <2>3
  <2> QED BY <2>4 DEF Asks, IsDominated
<1> QED BY <1>3, <1>4

\* dispatch_event() puts an event into the queue of a proxy only if those who
\* ask by a filter ask for it: the admin and the proxy, or one of them where
\* the admin was created with OR_OP.
THEOREM OnlyAskedEvents == Spec => []OnlyAsked
<1>1. Inv => OnlyAsked
  <2> SUFFICES ASSUME Inv, \A h \in Holders : HasFilters(h) => h \in filters,
                      NEW e \in Events, NEW or \in BOOLEAN, Copies(e, or) > 0
               PROVE  Accepted(LAMBDA h : Asks(h, e) \/ constraints = <<>>, or)
    BY DEF OnlyAsked
  <2> DEFINE Wants(h) == Asks(h, e) \/ constraints = <<>>
             asking == {h \in Holders : HasFilters(h)}
  <2>1. \A h \in Holders : HasFilters(h) /\ Hits(h, e) > 0 => Wants(h)
    BY HitsAsked
  <2>2. Admin \in Holders /\ Proxy \in Holders /\ \A h \in Holders : h = Admin \/ h = Proxy
    BY DEF Holders
  <2>3. ASSUME or PROVE asking = {} \/ \E h \in asking : Wants(h)
    <3>1. CASE ~HasFilters(Admin) /\ ~HasFilters(Proxy)
      BY <2>2, <3>1
    <3>2. CASE HasFilters(Admin) /\ Hits(Admin, e) > 0
      BY <2>1, <2>2, <3>2
    <3>3. CASE HasFilters(Proxy) /\ ~(HasFilters(Admin) /\ Hits(Admin, e) > 0)
      <4>1. MatchEvent(e, or) \in {"NoFilters", "OrFailed"}
        BY <2>3, <3>3 DEF MatchEvent
      <4>2. Hits(Proxy, e) > 0
        BY <3>3, <4>1 DEF Copies
      <4> QED BY <2>1, <2>2, <3>3, <4>2
    <3>4. CASE HasFilters(Admin) /\ ~(Hits(Admin, e) > 0) /\ ~HasFilters(Proxy)
      <4>1. MatchEvent(e, or) = "OrFailed"
        BY <2>3, <3>4 DEF MatchEvent
      <4>2. Copies(e, or) = 0
        BY <3>4, <4>1 DEF Copies
      <4> QED BY <4>2
    <3> QED BY <3>1, <3>2, <3>3, <3>4
  <2>4. ASSUME ~or PROVE \A h \in asking : Wants(h)
    <3>1. HasFilters(Admin) => Hits(Admin, e) > 0
      <4>1. SUFFICES ASSUME HasFilters(Admin), ~(Hits(Admin, e) > 0) PROVE FALSE
        OBVIOUS
      <4>2. MatchEvent(e, or) = "not matched"
        BY <2>4, <4>1 DEF MatchEvent
      <4>3. Copies(e, or) = 0
        BY <4>2 DEF Copies
      <4> QED BY <4>3
    <3>2. MatchEvent(e, or) \in {"NoFilters", "AndMatch"}
      BY <2>4, <3>1 DEF MatchEvent
    <3>3. HasFilters(Proxy) => Hits(Proxy, e) > 0
      BY <3>2 DEF Copies
    <3> QED BY <2>1, <2>2, <3>1, <3>3
  <2> QED BY <2>3, <2>4 DEF Accepted
<1> QED BY <1>1, Invariance, PTL

\* A holder without a filter hits an event of a type it subscribed to: it has a
\* node for the type, and a node without a filter matches.
LEMMA HitsSubscribed ==
  ASSUME Inv, NEW h \in Holders, NEW e \in Events, IsDominated(e, rqstypes[h])
  PROVE  Hits(h, e) > 0
<1> DEFINE under == {u \in Types : Dominates(u, e)}
           nodes(ty) == Nodes(h, "none", ty) \cup IF RdiMatch(e) THEN Nodes(h, "filter", ty) ELSE {}
           found == {nodes(ty) : ty \in under}
           four == {<<"*", "*">>, <<"*", e[2]>>, <<e[1], "*">>, <<e[1], e[2]>>}
           F(S) == {nodes(ty) : ty \in S}
<1>1. under \subseteq four
  BY DEF Types, Dominates
<1>2. \A ty \in under : IsFiniteSet(nodes(ty))
  <2> TAKE ty \in under
  <2>1. /\ tmap[h] \in [{"filter", "none"} -> Bag]
        /\ tmap[h]["none"] \in Bag /\ tmap[h]["filter"] \in Bag
    BY DEF Inv, TypeOK
  <2>2. tmap[h]["none"][ty] \in Nat /\ tmap[h]["filter"][ty] \in Nat
    BY <2>1 DEF Bag
  <2>3. ASSUME NEW n \in Nat, NEW x PROVE IsFiniteSet({x} \X (1..n))
    <3>1. IsFiniteSet({x})
      BY FS_Singleton
    <3>2. IsFiniteSet(1..n)
      BY FS_Interval
    <3> HIDE DEF nodes, under, found
    <3> QED BY <3>1, <3>2, FS_Product
  <2>4. IsFiniteSet(Nodes(h, "none", ty)) /\ IsFiniteSet(Nodes(h, "filter", ty))
    BY <2>2, <2>3 DEF Nodes
  <2>5. IsFiniteSet(Nodes(h, "none", ty) \cup Nodes(h, "filter", ty))
    BY <2>4, FS_Union
  <2> QED BY <2>4, <2>5
<1>3. IsFiniteSet(found)
  <2> DEFINE all4 == ({nodes(<<"*", "*">>)} \cup {nodes(<<"*", e[2]>>)})
                       \cup ({nodes(<<e[1], "*">>)} \cup {nodes(<<e[1], e[2]>>)})
  <2>1. IsFiniteSet(all4)
    <3>1. ASSUME NEW x, NEW y PROVE IsFiniteSet({x} \cup {y})
      BY FS_Singleton, FS_Union
    <3> HIDE DEF nodes
    <3> QED BY <3>1, FS_Union
  <2>2. found \subseteq all4
    <3> HIDE DEF nodes, under
    <3> QED BY <1>1
  <2> HIDE DEF found, all4
  <2> QED BY <2>1, <2>2, FS_Subset
<1>4. \A T \in found : IsFiniteSet(T)
  <2> HIDE DEF nodes, under
  <2> QED BY <1>2
<1>5. IsFiniteSet(UNION found)
  <2> HIDE DEF found
  <2> QED BY <1>3, <1>4, FS_UNION
<1>6. UNION found # {}
  <2>1. PICK ty \in rqstypes[h] : Dominates(ty, e)
    BY DEF IsDominated
  <2>2. ty \in Types
    BY <2>1 DEF Inv, TypeOK
  <2>3. tmap[h]["none"][ty] = 1
    BY <2>1, <2>2, BagTypes DEF Inv, Subscribed
  <2>4. <<<<"none", ty>>, 1>> \in Nodes(h, "none", ty)
    BY <2>3 DEF Nodes
  <2>5. ty \in under /\ nodes(ty) # {}
    BY <2>1, <2>2, <2>4
  <2> HIDE DEF nodes, under
  <2> QED BY <2>5
<1>7. Hits(h, e) = Cardinality(UNION found)
  BY DEF Hits
<1> HIDE DEF found
<1>8. Cardinality(UNION found) \in Nat /\ Cardinality(UNION found) # 0
  BY <1>5, <1>6, FS_CardinalityType, FS_EmptySet
<1> QED BY <1>7, <1>8

\* As long as neither the admin nor the proxy has a filter, an event they ask
\* for by their subscriptions is put into the queue of the proxy, whatever
\* subscription_change() did before and while other clients change the filter.
THEOREM SubscribersServed ==
  Spec => [](filters = {} =>
               \A e \in Events, or \in BOOLEAN :
                 Accepted(LAMBDA h : Asks(h, e), or) => Copies(e, or) > 0)
<1>1. Inv => (filters = {} =>
               \A e \in Events, or \in BOOLEAN :
                 Accepted(LAMBDA h : Asks(h, e), or) => Copies(e, or) > 0)
  <2> SUFFICES ASSUME Inv, filters = {}, NEW e \in Events, NEW or \in BOOLEAN,
                      Accepted(LAMBDA h : Asks(h, e), or)
               PROVE  Copies(e, or) > 0
    OBVIOUS
  <2>1. \A h \in Holders : Asks(h, e) => Hits(h, e) > 0
    BY HitsSubscribed DEF Asks
  <2>2. Admin \in Holders /\ Proxy \in Holders /\ \A h \in Holders : h = Admin \/ h = Proxy
    BY DEF Holders
  <2>3. CASE or
    <3>1. \/ ~HasFilters(Admin) /\ ~HasFilters(Proxy)
          \/ HasFilters(Admin) /\ Hits(Admin, e) > 0
          \/ HasFilters(Proxy) /\ Hits(Proxy, e) > 0
      BY <2>1, <2>2, <2>3 DEF Accepted
    <3>2. CASE ~HasFilters(Admin) /\ ~HasFilters(Proxy)
      BY <3>2 DEF Copies, MatchEvent
    <3>3. CASE HasFilters(Admin) /\ Hits(Admin, e) > 0
      BY <2>3, <3>3 DEF Copies, MatchEvent
    <3>4. CASE HasFilters(Proxy) /\ Hits(Proxy, e) > 0
      <4>1. MatchEvent(e, or) \in {"NoFilters", "OrMatch", "OrFailed"}
        BY <2>3 DEF MatchEvent
      <4>2. CASE MatchEvent(e, or) = "OrMatch"
        BY <4>2 DEF Copies
      <4>3. CASE MatchEvent(e, or) # "OrMatch"
        <5>1. Copies(e, or) = Hits(Proxy, e)
          BY <3>4, <4>1, <4>3 DEF Copies
        <5> QED BY <3>4, <5>1
      <4> QED BY <4>2, <4>3
    <3> QED BY <3>1, <3>2, <3>3, <3>4
  <2>4. CASE ~or
    <3>1. /\ HasFilters(Admin) => Hits(Admin, e) > 0
          /\ HasFilters(Proxy) => Hits(Proxy, e) > 0
      BY <2>1, <2>2, <2>4 DEF Accepted
    <3>2. MatchEvent(e, or) \in {"NoFilters", "AndMatch"}
      BY <2>4, <3>1 DEF MatchEvent
    <3>3. CASE HasFilters(Proxy)
      <4>1. Copies(e, or) = Hits(Proxy, e)
        BY <3>2, <3>3 DEF Copies
      <4> QED BY <3>1, <3>3, <4>1
    <3>4. CASE ~HasFilters(Proxy)
      <4>1. Copies(e, or) = 1
        BY <3>2, <3>4 DEF Copies
      <4> QED BY <4>1
    <3> QED BY <3>3, <3>4
  <2> QED BY <2>3, <2>4
<1> QED BY <1>1, Invariance, PTL
================================================================================
