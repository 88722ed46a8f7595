----------------------------- MODULE OffersProofs -----------------------------
(***************************************************************************)
(* What holds of offers for any number of proxies, admins, callers, calls  *)
(* and types.                                                              *)
(***************************************************************************)
EXTENDS Offers, FiniteSetTheorems, TLAPS

\* What one call is about to add to, or take from, the count of t at admin a and at
\* the channel. A disconnect takes what its proxy offers once it is alone.
AddsAt(r, a, t) == r.step = "admin" /\ r.op # "direct" /\ r.admin = a /\ t \in r.add
DelsAt(r, own, a, t) ==
  /\ r.admin = a
  /\ \/ r.step = "admin" /\ r.op # "direct" /\ t \in r.del
     \/ r.step = "alone" /\ r.op = "disconnect" /\ t \in own[r.proxy]
AddsOn(r, t) == r.step = "channel" /\ t \in r.add
DelsOn(r, t) == r.step = "channel" /\ t \in r.del

Adding(a, t)   == {c \in Callers : AddsAt(call[c], a, t)}
Deleting(a, t) == {c \in Callers : DelsAt(call[c], offered, a, t)}
ToAdd(t) == {c \in Callers : AddsOn(call[c], t)}
ToDel(t) == {c \in Callers : DelsOn(call[c], t)}

\* The proxies of an admin that offer t, and the admins that count it.
IsOffering(p, a, t) == AdminOf[p] = a /\ pxstate[p] = "Connected" /\ t \in offered[p]
Offering(a, t) == {p \in Proxies : IsOffering(p, a, t)}
Counting == {"live", "closing"}
IsCounting(a, t) == astate[a] \in Counting /\ counted[a][t] > 0
Having(t) == {a \in Admins : IsCounting(a, t)}

\* What each call is about, what follows from it for its proxy and its admin, and what
\* two calls cannot be about.
About(c) ==
  LET r == call[c] IN
  /\ r.step = "idle" <=> r.op = "none"
  /\ r.op # "none" => r.admin \in Admins
  /\ r.op \in {"offer", "fail", "disconnect"} => r.proxy \in Proxies /\ r.admin = AdminOf[r.proxy]
  /\ r.op = "disconnect" => pxstate[r.proxy] = "Disconnected"
  /\ r.step = "alone" => r.op \in {"disconnect", "destroy"}
  /\ r.step = "unregister" => r.op = "destroy"
  /\ r.op = "destroy" => \/ r.step \in {"alone", "unregister"} /\ astate[r.admin] = "closing"
                         \/ r.step \in {"channel", "proxies"} /\ astate[r.admin] = "revoked"
  /\ r.step = "proxies" => r.op = "destroy"
  /\ r.op = "direct" /\ r.step = "admin" =>
       r.add \cap r.del = {} /\ \A t \in r.del : direct[r.admin][t] > 0
SameMatter(r, s) ==
  /\ r.op = s.op
  /\ \/ r.op \in {"direct", "destroy"} /\ r.admin = s.admin
     \/ r.op = "disconnect" /\ r.proxy = s.proxy
Sane ==
  /\ \A c \in Callers : About(c)
  /\ \A c, d \in Callers : SameMatter(call[c], call[d]) => c = d
  /\ \A a \in Admins : astate[a] \in {"closing", "revoked"} =>
       \E c \in Callers : call[c].op = "destroy" /\ call[c].admin = a

AtAdmin(a, t) ==
  LET has == counted[a][t] + Cardinality(Adding(a, t))
      due == direct[a][t] + Cardinality(Offering(a, t)) + Cardinality(Deleting(a, t))
  IN  has >= due /\ (t \notin late => has = due)
AtChannel(t) ==
  LET has == offers[t] + Cardinality(ToAdd(t))
      due == Cardinality(Having(t)) + Cardinality(ToDel(t))
  IN  has >= due /\ (t \notin late => has = due)
AdminsExact == \A a \in Admins, t \in Types \ twice : astate[a] \in Counting => AtAdmin(a, t)
ChannelExact == ~shut => \A t \in Types \ twice : AtChannel(t)
ToldExact == told = {t \in Types : offers[t] > 0}

Inv == TypeOK /\ Sane /\ AdminsExact /\ ChannelExact /\ ToldExact

--------------------------------------------------------------------------------
(* Counting *)

One(P) == IF P THEN 1 ELSE 0

\* Two sets that differ in one element at most.
LEMMA Differ ==
  ASSUME NEW U, IsFiniteSet(U), NEW S \in SUBSET U, NEW T \in SUBSET U, NEW x \in U,
         \A y \in U \ {x} : y \in S <=> y \in T
  PROVE  /\ Cardinality(S) \in Nat /\ Cardinality(T) \in Nat
         /\ Cardinality(T) + One(x \in S) = Cardinality(S) + One(x \in T)
<1>1. IsFiniteSet(S) /\ IsFiniteSet(T)
  BY FS_Subset
<1>2. Cardinality(S) \in Nat /\ Cardinality(T) \in Nat
  BY <1>1, FS_CardinalityType
<1>3. CASE x \in S <=> x \in T
  <2>1. S = T
    BY <1>3
  <2> QED BY <1>2, <2>1 DEF One
<1>4. CASE x \in S /\ x \notin T
  <2>1. S = T \cup {x}
    BY <1>4
  <2>2. Cardinality(S) = Cardinality(T) + 1
    BY <1>1, <1>4, <2>1, FS_AddElement
  <2> QED BY <1>2, <1>4, <2>2 DEF One
<1>5. CASE x \notin S /\ x \in T
  <2>1. T = S \cup {x}
    BY <1>5
  <2>2. Cardinality(T) = Cardinality(S) + 1
    BY <1>1, <1>5, <2>1, FS_AddElement
  <2> QED BY <1>2, <1>5, <2>2 DEF One
<1> QED BY <1>3, <1>4, <1>5

\* What is counted when nothing is.
LEMMA NoneCounted ==
  ASSUME NEW U, NEW S \in SUBSET U, \A y \in U : y \notin S
  PROVE  Cardinality(S) = 0
<1>1. S = {}
  OBVIOUS
<1> QED BY <1>1, FS_EmptySet

\* The numbers the invariant is made of.
LEMMA Numbers ==
  ASSUME TypeOK, NEW a \in Admins, NEW t \in Types
  PROVE  /\ counted[a][t] \in Nat /\ direct[a][t] \in Nat /\ offers[t] \in Nat
         /\ Cardinality(Adding(a, t)) \in Nat /\ Cardinality(Deleting(a, t)) \in Nat
         /\ Cardinality(Offering(a, t)) \in Nat
<1>1. counted[a][t] \in Nat /\ direct[a][t] \in Nat /\ offers[t] \in Nat
  BY DEF TypeOK, Counts
<1>2. /\ Adding(a, t) \in SUBSET Callers /\ Deleting(a, t) \in SUBSET Callers
      /\ Offering(a, t) \in SUBSET Proxies
  BY DEF Adding, Deleting, Offering
<1> QED BY <1>1, <1>2, OffersAssumption, FS_Subset, FS_CardinalityType

LEMMA ChannelNumbers ==
  ASSUME NEW t \in Types
  PROVE  /\ Cardinality(ToAdd(t)) \in Nat /\ Cardinality(ToDel(t)) \in Nat
         /\ Cardinality(Having(t)) \in Nat
<1>1. ToAdd(t) \in SUBSET Callers /\ ToDel(t) \in SUBSET Callers /\ Having(t) \in SUBSET Admins
  BY DEF ToAdd, ToDel, Having
<1> QED BY <1>1, OffersAssumption, FS_Subset, FS_CardinalityType

LEMMA SizesNext ==
  ASSUME NEW t \in Types
  PROVE  /\ \A a \in Admins : /\ Cardinality(Adding(a, t))' \in Nat /\ Cardinality(Deleting(a, t))' \in Nat
                              /\ Cardinality(Offering(a, t))' \in Nat
         /\ Cardinality(Having(t))' \in Nat
         /\ Cardinality(ToAdd(t))' \in Nat /\ Cardinality(ToDel(t))' \in Nat
<1>1. /\ \A a \in Admins : /\ Adding(a, t)' \in SUBSET Callers /\ Deleting(a, t)' \in SUBSET Callers
                           /\ Offering(a, t)' \in SUBSET Proxies
      /\ ToAdd(t)' \in SUBSET Callers /\ ToDel(t)' \in SUBSET Callers /\ Having(t)' \in SUBSET Admins
  BY DEF Adding, Deleting, Offering, ToAdd, ToDel, Having
<1>2. /\ \A S \in SUBSET Callers : Cardinality(S) \in Nat
      /\ \A S \in SUBSET Proxies : Cardinality(S) \in Nat
      /\ \A S \in SUBSET Admins : Cardinality(S) \in Nat
  BY OffersAssumption, FS_Subset, FS_CardinalityType
<1> QED BY <1>1, <1>2

\* A step of one caller changes what is on its way to the admins and to the channel by its part.
LEMMA CallerMoves ==
  ASSUME NEW c \in Callers, \A d \in Callers \ {c} : call'[d] = call[d],
         Sane, \A p \in Proxies : pxstate[p] = "Disconnected" => offered'[p] = offered[p]
  PROVE  /\ \A a \in Admins, t \in Types :
              /\ Cardinality(Adding(a, t))' + One(AddsAt(call[c], a, t))
                   = Cardinality(Adding(a, t)) + One(AddsAt(call'[c], a, t))
              /\ Cardinality(Deleting(a, t))' + One(DelsAt(call[c], offered, a, t))
                   = Cardinality(Deleting(a, t)) + One(DelsAt(call'[c], offered', a, t))
         /\ \A t \in Types :
              /\ Cardinality(ToAdd(t))' + One(AddsOn(call[c], t)) = Cardinality(ToAdd(t)) + One(AddsOn(call'[c], t))
              /\ Cardinality(ToDel(t))' + One(DelsOn(call[c], t)) = Cardinality(ToDel(t)) + One(DelsOn(call'[c], t))
<1>f. IsFiniteSet(Callers)
  BY OffersAssumption
<1>1. ASSUME NEW a \in Admins, NEW t \in Types
      PROVE  Cardinality(Adding(a, t)') + One(AddsAt(call[c], a, t))
                   = Cardinality(Adding(a, t)) + One(AddsAt(call'[c], a, t))
  <2>1. Adding(a, t) \in SUBSET Callers /\ Adding(a, t)' \in SUBSET Callers
    BY DEF Adding
  <2>2. \A d \in Callers \ {c} : d \in Adding(a, t) <=> d \in Adding(a, t)'
    BY DEF Adding
  <2>3. c \in Adding(a, t) <=> AddsAt(call[c], a, t)
    BY DEF Adding
  <2>4. c \in Adding(a, t)' <=> AddsAt(call'[c], a, t)
    BY DEF Adding, AddsAt
  <2>5. Cardinality(Adding(a, t)') + One(c \in Adding(a, t)) = Cardinality(Adding(a, t)) + One(c \in Adding(a, t)')
    BY <1>f, <2>1, <2>2, Differ
  <2> QED BY <2>3, <2>4, <2>5 DEF One
<1>2. ASSUME NEW a \in Admins, NEW t \in Types
      PROVE  Cardinality(Deleting(a, t)') + One(DelsAt(call[c], offered, a, t))
                   = Cardinality(Deleting(a, t)) + One(DelsAt(call'[c], offered', a, t))
  <2>1. Deleting(a, t) \in SUBSET Callers /\ Deleting(a, t)' \in SUBSET Callers
    BY DEF Deleting
  <2>2. \A d \in Callers \ {c} : d \in Deleting(a, t) <=> d \in Deleting(a, t)'
    <3> SUFFICES ASSUME NEW d \in Callers \ {c}
                 PROVE  DelsAt(call[d], offered, a, t) <=> DelsAt(call'[d], offered', a, t)
      BY DEF Deleting, DelsAt
    <3>1. call'[d] = call[d]
      OBVIOUS
    <3>2. call[d].op = "disconnect" => offered'[call[d].proxy] = offered[call[d].proxy]
      BY DEF Sane, About
    <3> QED BY <3>1, <3>2 DEF DelsAt
  <2>3. c \in Deleting(a, t) <=> DelsAt(call[c], offered, a, t)
    BY DEF Deleting
  <2>4. c \in Deleting(a, t)' <=> DelsAt(call'[c], offered', a, t)
    BY DEF Deleting, DelsAt
  <2>5. Cardinality(Deleting(a, t)') + One(c \in Deleting(a, t))
          = Cardinality(Deleting(a, t)) + One(c \in Deleting(a, t)')
    BY <1>f, <2>1, <2>2, Differ
  <2> QED BY <2>3, <2>4, <2>5 DEF One
<1>3. ASSUME NEW t \in Types
      PROVE  Cardinality(ToAdd(t)') + One(AddsOn(call[c], t)) = Cardinality(ToAdd(t)) + One(AddsOn(call'[c], t))
  <2>1. ToAdd(t) \in SUBSET Callers /\ ToAdd(t)' \in SUBSET Callers
    BY DEF ToAdd
  <2>2. \A d \in Callers \ {c} : d \in ToAdd(t) <=> d \in ToAdd(t)'
    BY DEF ToAdd
  <2>3. (c \in ToAdd(t) <=> AddsOn(call[c], t)) /\ (c \in ToAdd(t)' <=> AddsOn(call'[c], t))
    BY DEF ToAdd, AddsOn
  <2>4. Cardinality(ToAdd(t)') + One(c \in ToAdd(t)) = Cardinality(ToAdd(t)) + One(c \in ToAdd(t)')
    BY <1>f, <2>1, <2>2, Differ
  <2> QED BY <2>3, <2>4 DEF One
<1>4. ASSUME NEW t \in Types
      PROVE  Cardinality(ToDel(t)') + One(DelsOn(call[c], t)) = Cardinality(ToDel(t)) + One(DelsOn(call'[c], t))
  <2>1. ToDel(t) \in SUBSET Callers /\ ToDel(t)' \in SUBSET Callers
    BY DEF ToDel
  <2>2. \A d \in Callers \ {c} : d \in ToDel(t) <=> d \in ToDel(t)'
    BY DEF ToDel
  <2>3. (c \in ToDel(t) <=> DelsOn(call[c], t)) /\ (c \in ToDel(t)' <=> DelsOn(call'[c], t))
    BY DEF ToDel, DelsOn
  <2>4. Cardinality(ToDel(t)') + One(c \in ToDel(t)) = Cardinality(ToDel(t)) + One(c \in ToDel(t)')
    BY <1>f, <2>1, <2>2, Differ
  <2> QED BY <2>3, <2>4 DEF One
<1> QED BY <1>1, <1>2, <1>3, <1>4

\* So does a step that is about one proxy, of what the proxies of an admin offer.
LEMMA ProxyMoves ==
  ASSUME NEW p \in Proxies,
         \A q \in Proxies \ {p} : offered'[q] = offered[q] /\ (pxstate'[q] = "Connected" <=> pxstate[q] = "Connected")
  PROVE  \A a \in Admins, t \in Types :
           Cardinality(Offering(a, t))' + One(IsOffering(p, a, t)) = Cardinality(Offering(a, t)) + One(IsOffering(p, a, t)')
<1> SUFFICES ASSUME NEW a \in Admins, NEW t \in Types
             PROVE  Cardinality(Offering(a, t)') + One(IsOffering(p, a, t))
                      = Cardinality(Offering(a, t)) + One(IsOffering(p, a, t)')
  OBVIOUS
<1>1. Offering(a, t) \in SUBSET Proxies /\ Offering(a, t)' \in SUBSET Proxies
  BY DEF Offering
<1>2. \A q \in Proxies \ {p} : q \in Offering(a, t) <=> q \in Offering(a, t)'
  BY DEF Offering, IsOffering
<1>3. (p \in Offering(a, t) <=> IsOffering(p, a, t)) /\ (p \in Offering(a, t)' <=> IsOffering(p, a, t)')
  BY DEF Offering
<1>4. Cardinality(Offering(a, t)') + One(p \in Offering(a, t)) = Cardinality(Offering(a, t)) + One(p \in Offering(a, t)')
  BY <1>1, <1>2, Differ, OffersAssumption
<1> QED BY <1>3, <1>4 DEF One

LEMMA AdminMoves ==
  ASSUME NEW a \in Admins,
         \A b \in Admins \ {a} : counted'[b] = counted[b] /\ (astate'[b] \in Counting <=> astate[b] \in Counting)
  PROVE  \A t \in Types :
           Cardinality(Having(t))' + One(IsCounting(a, t)) = Cardinality(Having(t)) + One(IsCounting(a, t)')
<1> SUFFICES ASSUME NEW t \in Types
             PROVE  Cardinality(Having(t)') + One(IsCounting(a, t)) = Cardinality(Having(t)) + One(IsCounting(a, t)')
  OBVIOUS
<1>1. Having(t) \in SUBSET Admins /\ Having(t)' \in SUBSET Admins
  BY DEF Having
<1>2. \A b \in Admins \ {a} : b \in Having(t) <=> b \in Having(t)'
  BY DEF Having, IsCounting
<1>3. (a \in Having(t) <=> IsCounting(a, t)) /\ (a \in Having(t)' <=> IsCounting(a, t)')
  BY DEF Having
<1>4. Cardinality(Having(t)') + One(a \in Having(t)) = Cardinality(Having(t)) + One(a \in Having(t)')
  BY <1>1, <1>2, Differ, OffersAssumption
<1> QED BY <1>3, <1>4 DEF One

--------------------------------------------------------------------------------
(* Calls *)

Calls == [op : {"none", "offer", "fail", "disconnect", "direct", "destroy"},
          step : {"idle", "alone", "unregister", "admin", "channel", "proxies"},
          proxy : Proxies \cup {None}, admin : Admins \cup {None},
          add : SUBSET Types, del : SUBSET Types]

\* What is left of a call and what becomes of it: nobody else's call changes.
Goes(c, r) == call' \in [Callers -> Calls] /\ call'[c] = r /\ \A d \in Callers \ {c} : call'[d] = call[d]

LEMMA ACall ==
  ASSUME TypeOK, NEW c \in Callers
  PROVE  /\ call \in [Callers -> Calls] /\ call[c] \in Calls
         /\ call[c].add \subseteq Types /\ call[c].del \subseteq Types
         /\ call[c].proxy \in Proxies \cup {None} /\ call[c].admin \in Admins \cup {None}
<1>1. call \in [Callers -> Calls]
  BY DEF TypeOK, Calls
<1>2. call[c] \in Calls
  BY <1>1
<1> QED BY <1>1, <1>2 DEF Calls

LEMMA Replaced ==
  ASSUME TypeOK, NEW c \in Callers, NEW r \in Calls, call' = [call EXCEPT ![c] = r]
  PROVE  Goes(c, r)
<1>1. call \in [Callers -> Calls]
  BY ACall
<1> QED BY <1>1 DEF Goes

LEMMA Begins ==
  ASSUME TypeOK, NEW c \in Callers,
         NEW op \in {"offer", "fail", "disconnect", "direct", "destroy"}, NEW step \in {"alone", "admin"},
         NEW p \in Proxies \cup {None}, NEW a \in Admins, NEW plus \in SUBSET Types, NEW minus \in SUBSET Types,
         Begin(c, op, step, p, a, plus, minus)
  PROVE  /\ calls' \in 0..MaxCalls
         /\ call[c].op = "none" /\ call[c].step = "idle"
         /\ Goes(c, [op |-> op, step |-> step, proxy |-> p, admin |-> a, add |-> plus, del |-> minus])
<1> DEFINE r == [op |-> op, step |-> step, proxy |-> p, admin |-> a, add |-> plus, del |-> minus]
<1>1. r \in Calls
  BY DEF Calls
<1>2. call' = [call EXCEPT ![c] = r] /\ call[c] = Idle /\ calls' = calls + 1 /\ calls < MaxCalls
  BY DEF Begin
<1>3. calls \in 0..MaxCalls
  BY DEF TypeOK
<1>4. calls' \in 0..MaxCalls
  BY <1>2, <1>3, OffersAssumption
<1>5. Idle.op = "none" /\ Idle.step = "idle"
  BY DEF Idle
<1> HIDE DEF r
<1>6. Goes(c, r)
  BY <1>1, <1>2, Replaced
<1> QED BY <1>2, <1>4, <1>5, <1>6 DEF r

LEMMA Passes ==
  ASSUME TypeOK, NEW c \in Callers, NEW step \in {"unregister", "admin", "channel", "proxies"},
         NEW plus \in SUBSET Types, NEW minus \in SUBSET Types, Pass(c, step, plus, minus)
  PROVE  Goes(c, [op |-> call[c].op, step |-> step, proxy |-> call[c].proxy, admin |-> call[c].admin,
                  add |-> plus, del |-> minus])
<1> DEFINE r == [op |-> call[c].op, step |-> step, proxy |-> call[c].proxy, admin |-> call[c].admin,
                 add |-> plus, del |-> minus]
<1>1. call \in [Callers -> Calls] /\ call[c] \in Calls
  BY ACall
<1>2. r \in Calls
  BY <1>1 DEF Calls
<1>3. call' = [call EXCEPT ![c] = r]
  BY <1>1 DEF Pass
<1> HIDE DEF r
<1>4. Goes(c, r)
  BY <1>2, <1>3, Replaced
<1> QED BY <1>4 DEF r

LEMMA Ends ==
  ASSUME TypeOK, NEW c \in Callers, call' = [call EXCEPT ![c] = Idle]
  PROVE  Goes(c, Idle)
<1>1. Idle \in Calls
  BY DEF Idle, Calls
<1> QED BY <1>1, Replaced

LEMMA Returns ==
  ASSUME TypeOK, Sane, NEW c \in Callers, Return(c)
  PROVE  /\ Goes(c, Idle)
         /\ pxstate' \in [Proxies -> {"Connected", "Exception", "Disconnected", "disposed"}]
         /\ \A p \in Proxies : \/ pxstate'[p] = pxstate[p]
                               \/ /\ call[c].op = "disconnect" /\ call[c].proxy = p
                                  /\ pxstate[p] = "Disconnected" /\ pxstate'[p] = "disposed"
<1>1. Goes(c, Idle)
  BY Ends DEF Return
<1>2. pxstate \in [Proxies -> {"Connected", "Exception", "Disconnected", "disposed"}]
  BY DEF TypeOK
<1>3. CASE call[c].op = "disconnect"
  <2>1. call[c].proxy \in Proxies /\ pxstate[call[c].proxy] = "Disconnected"
    BY <1>3 DEF Sane, About
  <2>2. pxstate' = [pxstate EXCEPT ![call[c].proxy] = "disposed"]
    BY <1>3 DEF Return
  <2> QED BY <1>1, <1>2, <1>3, <2>1, <2>2
<1>4. CASE call[c].op # "disconnect"
  <2>1. pxstate' = pxstate
    BY <1>4 DEF Return
  <2> QED BY <1>1, <1>2, <2>1
<1> QED BY <1>3, <1>4

\* What a count becomes.
LEMMA CountIs ==
  ASSUME NEW n \in Counts, NEW plus \in SUBSET Types, NEW minus \in SUBSET Types
  PROVE  /\ Count(n, plus, minus) \in Counts
         /\ \A t \in Types :
              LET m == n[t] + One(t \in plus) IN
              /\ Count(n, plus, minus)[t] = IF t \in minus /\ m > 0 THEN m - 1 ELSE m
              /\ t \in NewlyAdded(n, plus) <=> t \in plus /\ n[t] = 0
              /\ t \in Gone(n, plus, minus) <=> t \in minus /\ m = 1
              /\ t \in Unknown(n, plus, minus) <=> t \in minus /\ m = 0
         /\ NewlyAdded(n, plus) \in SUBSET Types /\ Gone(n, plus, minus) \in SUBSET Types
<1>1. \A t \in Types : n[t] \in Nat
  BY DEF Counts
<1>2. \A t \in Types : Added(n, plus)[t] = n[t] + One(t \in plus) /\ n[t] + One(t \in plus) \in Nat
  BY <1>1 DEF Added, One
<1> DEFINE m(t) == n[t] + One(t \in plus)
<1>3. \A t \in Types : Count(n, plus, minus)[t] = IF t \in minus /\ m(t) > 0 THEN m(t) - 1 ELSE m(t)
  BY <1>2 DEF Count
<1>4. \A t \in Types : (IF t \in minus /\ m(t) > 0 THEN m(t) - 1 ELSE m(t)) \in Nat
  BY <1>2
<1>5. Count(n, plus, minus) \in Counts
  <2>1. Count(n, plus, minus) = [t \in Types |-> Count(n, plus, minus)[t]]
    BY DEF Count
  <2> QED BY <1>3, <1>4, <2>1 DEF Counts
<1>6. \A t \in Types : t \in NewlyAdded(n, plus) <=> t \in plus /\ n[t] = 0
  BY DEF NewlyAdded
<1>7. \A t \in Types : t \in Gone(n, plus, minus) <=> t \in minus /\ m(t) = 1
  BY <1>2 DEF Gone
<1>8. \A t \in Types : t \in Unknown(n, plus, minus) <=> t \in minus /\ m(t) = 0
  BY <1>2 DEF Unknown
<1>9. NewlyAdded(n, plus) \in SUBSET Types /\ Gone(n, plus, minus) \in SUBSET Types
  BY DEF NewlyAdded, Gone
<1> QED BY <1>3, <1>5, <1>6, <1>7, <1>8, <1>9

--------------------------------------------------------------------------------
(* Each step keeps the counts *)

\* What has been noted stays noted.
Notes == twice \subseteq twice' /\ late \subseteq late'

\* A step that adds nothing to what is on its way to an admin, and takes nothing off it.
LEMMA AdminsKept ==
  ASSUME Inv, Notes, NEW c \in Callers, \A d \in Callers \ {c} : call'[d] = call[d],
         \A p \in Proxies : pxstate[p] = "Disconnected" => offered'[p] = offered[p],
         UNCHANGED <<counted, direct>>,
         \A a \in Admins : astate'[a] \in Counting =>
           /\ astate[a] \in Counting
           /\ \A t \in Types : /\ Offering(a, t)' = Offering(a, t)
                               /\ AddsAt(call'[c], a, t) <=> AddsAt(call[c], a, t)
                               /\ DelsAt(call'[c], offered', a, t) <=> DelsAt(call[c], offered, a, t)
  PROVE  AdminsExact'
<1> SUFFICES ASSUME NEW a \in Admins, NEW t \in Types, t \notin twice', astate'[a] \in Counting
             PROVE  AtAdmin(a, t)'
  BY DEF AdminsExact, Counting
<1>1. TypeOK /\ Sane /\ AdminsExact
  BY DEF Inv
<1>2. AtAdmin(a, t)
  BY <1>1 DEF AdminsExact, Notes
<1>3. /\ Cardinality(Adding(a, t))' + One(AddsAt(call[c], a, t))
           = Cardinality(Adding(a, t)) + One(AddsAt(call'[c], a, t))
      /\ Cardinality(Deleting(a, t))' + One(DelsAt(call[c], offered, a, t))
           = Cardinality(Deleting(a, t)) + One(DelsAt(call'[c], offered', a, t))
  BY <1>1, CallerMoves
<1>4. One(AddsAt(call[c], a, t)) = One(AddsAt(call'[c], a, t))
  BY DEF One
<1>5. One(DelsAt(call[c], offered, a, t)) = One(DelsAt(call'[c], offered', a, t))
  BY DEF One
<1>6. One(AddsAt(call[c], a, t)) \in Nat /\ One(DelsAt(call[c], offered, a, t)) \in Nat
  BY DEF One
<1>7. /\ Cardinality(Adding(a, t))' = Cardinality(Adding(a, t))
      /\ Cardinality(Deleting(a, t))' = Cardinality(Deleting(a, t))
  BY <1>1, <1>3, <1>4, <1>5, <1>6, Numbers, SizesNext
<1>8. Cardinality(Offering(a, t))' = Cardinality(Offering(a, t))
  OBVIOUS
<1>9. counted'[a][t] = counted[a][t] /\ direct'[a][t] = direct[a][t] /\ (t \notin late' => t \notin late)
  BY DEF Notes
<1> QED BY <1>2, <1>7, <1>8, <1>9 DEF AtAdmin

\* A step that does so neither at the channel nor to the counts of the admins.
LEMMA ChannelKept ==
  ASSUME Inv, Notes, NEW c \in Callers, \A d \in Callers \ {c} : call'[d] = call[d],
         \A p \in Proxies : pxstate[p] = "Disconnected" => offered'[p] = offered[p],
         UNCHANGED <<counted, offers>>, shut => shut',
         \A a \in Admins : astate'[a] \in Counting <=> astate[a] \in Counting,
         call[c].step # "channel", call'[c].step # "channel"
  PROVE  ChannelExact'
<1> SUFFICES ASSUME ~shut', NEW t \in Types, t \notin twice'
             PROVE  AtChannel(t)'
  BY DEF ChannelExact
<1>1. TypeOK /\ Sane /\ ChannelExact
  BY DEF Inv
<1>2. AtChannel(t)
  BY <1>1 DEF ChannelExact, Notes
<1>3. /\ Cardinality(ToAdd(t))' + One(AddsOn(call[c], t)) = Cardinality(ToAdd(t)) + One(AddsOn(call'[c], t))
      /\ Cardinality(ToDel(t))' + One(DelsOn(call[c], t)) = Cardinality(ToDel(t)) + One(DelsOn(call'[c], t))
  BY <1>1, CallerMoves
<1>4. /\ One(AddsOn(call[c], t)) = 0 /\ One(AddsOn(call'[c], t)) = 0
      /\ One(DelsOn(call[c], t)) = 0 /\ One(DelsOn(call'[c], t)) = 0
  BY DEF One, AddsOn, DelsOn
<1>5. Cardinality(ToAdd(t))' = Cardinality(ToAdd(t)) /\ Cardinality(ToDel(t))' = Cardinality(ToDel(t))
  BY <1>3, <1>4, ChannelNumbers, SizesNext
<1>6. Having(t)' = Having(t)
  BY DEF Having, IsCounting
<1>7. offers'[t] = offers[t] /\ (t \notin late' => t \notin late)
  BY DEF Notes
<1> QED BY <1>2, <1>5, <1>6, <1>7 DEF AtChannel

\* A call that begins has added and taken nothing yet, nor one that is over.
LEMMA NothingYet ==
  ASSUME NEW r, r.step = "idle"
  PROVE  \A own, a, t : ~AddsAt(r, a, t) /\ ~DelsAt(r, own, a, t) /\ ~AddsOn(r, t) /\ ~DelsOn(r, t)
BY DEF AddsAt, DelsAt, AddsOn, DelsOn

LEMMA OfferCounts ==
  ASSUME Inv, NEW c \in Callers, NEW p \in Proxies, NEW plus \in SUBSET Types, NEW minus \in SUBSET Types,
         OfferChange(c, p, plus, minus)
  PROVE  AdminsExact' /\ ChannelExact'
<1> DEFINE new == plus \ offered[p]
           old == minus \cap (offered[p] \cup plus)
           r == [op |-> "offer", step |-> "admin", proxy |-> p, admin |-> AdminOf[p], add |-> new, del |-> old]
<1>1. TypeOK /\ Sane /\ AdminsExact /\ ChannelExact
  BY DEF Inv
<1>2. AdminOf[p] \in Admins /\ new \in SUBSET Types /\ old \in SUBSET Types
  BY OffersAssumption
<1>3. call[c].step = "idle" /\ Goes(c, r)
  <2>1. Begin(c, "offer", "admin", p, AdminOf[p], new, old)
    BY DEF OfferChange
  <2> QED BY <1>1, <1>2, <2>1, Begins
<1>4. /\ pxstate[p] = "Connected" /\ offered' = [offered EXCEPT ![p] = (@ \cup plus) \ minus]
      /\ UNCHANGED <<pxstate, astate, counted, direct, shut, offers, told, twice, late>>
  BY DEF OfferChange
<1>5. offered \in [Proxies -> SUBSET Types]
  BY <1>1 DEF TypeOK
<1>6. offered'[p] = (offered[p] \cup plus) \ minus /\ \A q \in Proxies \ {p} : offered'[q] = offered[q]
  BY <1>4, <1>5
<1>7. \A d \in Callers \ {c} : call'[d] = call[d]
  BY <1>3 DEF Goes
<1>8. call'[c] = r
  BY <1>3 DEF Goes
<1>9. \A q \in Proxies : pxstate[q] = "Disconnected" => offered'[q] = offered[q]
  BY <1>4, <1>6
<1>10. r.step = "admin" /\ r.op = "offer" /\ r.admin = AdminOf[p] /\ r.add = new /\ r.del = old
  OBVIOUS
<1> HIDE DEF r
<1>11. ChannelExact'
  BY <1>3, <1>4, <1>7, <1>8, <1>9, <1>10, ChannelKept DEF Notes
<1>12. ASSUME NEW a \in Admins, NEW t \in Types \ twice, astate[a] \in Counting
       PROVE  AtAdmin(a, t)'
  <2>1. AtAdmin(a, t)
    BY <1>1, <1>12 DEF AdminsExact
  <2>2. /\ Cardinality(Adding(a, t))' + One(AddsAt(call[c], a, t)) = Cardinality(Adding(a, t)) + One(AddsAt(r, a, t))
        /\ Cardinality(Deleting(a, t))' + One(DelsAt(call[c], offered, a, t))
             = Cardinality(Deleting(a, t)) + One(DelsAt(r, offered', a, t))
    BY <1>1, <1>7, <1>8, <1>9, CallerMoves
  <2>3. One(AddsAt(call[c], a, t)) = 0 /\ One(DelsAt(call[c], offered, a, t)) = 0
    BY <1>3, NothingYet DEF One
  <2>4. /\ One(AddsAt(r, a, t)) = One(a = AdminOf[p] /\ t \in new)
        /\ One(DelsAt(r, offered', a, t)) = One(a = AdminOf[p] /\ t \in old)
    BY <1>10 DEF AddsAt, DelsAt, One
  <2>5. Cardinality(Offering(a, t))' + One(IsOffering(p, a, t)) = Cardinality(Offering(a, t)) + One(IsOffering(p, a, t)')
    BY <1>4, <1>6, ProxyMoves
  <2>6. One(IsOffering(p, a, t)) = One(a = AdminOf[p] /\ t \in offered[p])
    BY <1>4 DEF IsOffering, One
  <2>7. One(IsOffering(p, a, t)') = One(a = AdminOf[p] /\ t \in (offered[p] \cup plus) \ minus)
    BY <1>4, <1>6 DEF IsOffering, One
  <2>8. One(a = AdminOf[p] /\ t \in (offered[p] \cup plus) \ minus) + One(a = AdminOf[p] /\ t \in old)
          = One(a = AdminOf[p] /\ t \in offered[p]) + One(a = AdminOf[p] /\ t \in new)
    BY DEF One
  <2>9. /\ One(a = AdminOf[p] /\ t \in new) \in Nat /\ One(a = AdminOf[p] /\ t \in old) \in Nat
        /\ One(a = AdminOf[p] /\ t \in offered[p]) \in Nat
        /\ One(a = AdminOf[p] /\ t \in (offered[p] \cup plus) \ minus) \in Nat
    BY DEF One
  <2> HIDE DEF new, old
  <2> QED BY <1>1, <1>4, <2>1, <2>2, <2>3, <2>4, <2>5, <2>6, <2>7, <2>8, <2>9, Numbers, SizesNext DEF AtAdmin
<1>13. AdminsExact'
  BY <1>4, <1>12 DEF AdminsExact
<1> QED BY <1>11, <1>13

\* A failure: what the proxy offered is on its way to be taken off.
LEMMA FailCounts ==
  ASSUME Inv, NEW c \in Callers, NEW p \in Proxies, Fail(c, p)
  PROVE  AdminsExact' /\ ChannelExact'
<1> DEFINE r == [op |-> "fail", step |-> "admin", proxy |-> p, admin |-> AdminOf[p], add |-> {}, del |-> offered[p]]
<1>1. TypeOK /\ Sane /\ AdminsExact /\ ChannelExact
  BY DEF Inv
<1>2. AdminOf[p] \in Admins /\ offered[p] \in SUBSET Types
  BY <1>1, OffersAssumption DEF TypeOK
<1>3. /\ pxstate[p] = "Connected" /\ pxstate' = [pxstate EXCEPT ![p] = "Exception"]
      /\ UNCHANGED <<offered, astate, counted, direct, shut, offers, told, twice, late>>
  BY DEF Fail
<1>4. pxstate'[p] = "Exception" /\ \A q \in Proxies \ {p} : pxstate'[q] = pxstate[q]
  BY <1>1, <1>3 DEF TypeOK
<1>5. CASE offered[p] = {}
  <2>1. call' = call
    BY <1>5 DEF Fail
  <2>2. \A a \in Admins, t \in Types : Offering(a, t)' = Offering(a, t)
    BY <1>3, <1>4, <1>5 DEF Offering, IsOffering
  <2>3. AdminsExact'
    BY <1>1, <1>3, <2>1, <2>2 DEF AdminsExact, AtAdmin, Adding, Deleting, AddsAt, DelsAt
  <2>4. ChannelExact'
    BY <1>1, <1>3, <2>1 DEF ChannelExact, AtChannel, ToAdd, ToDel, Having, IsCounting, AddsOn,
       DelsOn
  <2> QED BY <2>3, <2>4
<1>6. CASE offered[p] # {}
  <2>1. Begin(c, "fail", "admin", p, AdminOf[p], {}, offered[p])
    BY <1>6 DEF Fail
  <2>2. call[c].step = "idle" /\ Goes(c, r)
    BY <1>1, <1>2, <2>1, Begins
  <2>3. call'[c] = r /\ \A d \in Callers \ {c} : call'[d] = call[d]
    BY <2>2 DEF Goes
  <2>4. r.step = "admin" /\ r.op = "fail" /\ r.admin = AdminOf[p] /\ r.add = {} /\ r.del = offered[p]
    OBVIOUS
  <2> HIDE DEF r
  <2>5. ChannelExact'
    BY <1>3, <2>2, <2>3, <2>4, ChannelKept DEF Notes
  <2>6. ASSUME NEW a \in Admins, NEW t \in Types \ twice, astate[a] \in Counting
        PROVE  AtAdmin(a, t)'
    <3>1. AtAdmin(a, t)
      BY <1>1, <2>6 DEF AdminsExact
    <3>2. /\ Cardinality(Adding(a, t))' + One(AddsAt(call[c], a, t)) = Cardinality(Adding(a, t)) + One(AddsAt(r, a, t))
          /\ Cardinality(Deleting(a, t))' + One(DelsAt(call[c], offered, a, t))
               = Cardinality(Deleting(a, t)) + One(DelsAt(r, offered', a, t))
      BY <1>1, <1>3, <2>3, CallerMoves
    <3>3. One(AddsAt(call[c], a, t)) = 0 /\ One(DelsAt(call[c], offered, a, t)) = 0
      BY <2>2, NothingYet DEF One
    <3>4. One(AddsAt(r, a, t)) = 0 /\ One(DelsAt(r, offered', a, t)) = One(a = AdminOf[p] /\ t \in offered[p])
      BY <2>4 DEF AddsAt, DelsAt, One
    <3>5. Cardinality(Offering(a, t))' + One(IsOffering(p, a, t)) = Cardinality(Offering(a, t)) + One(IsOffering(p, a, t)')
      BY <1>3, <1>4, ProxyMoves
    <3>6. One(IsOffering(p, a, t)) = One(a = AdminOf[p] /\ t \in offered[p]) /\ One(IsOffering(p, a, t)') = 0
      BY <1>3, <1>4 DEF IsOffering, One
    <3>7. One(a = AdminOf[p] /\ t \in offered[p]) \in Nat
      BY DEF One
    <3> QED BY <1>1, <1>3, <3>1, <3>2, <3>3, <3>4, <3>5, <3>6, <3>7, Numbers, SizesNext DEF AtAdmin
  <2>7. AdminsExact'
    BY <1>3, <2>6 DEF AdminsExact
  <2> QED BY <2>5, <2>7
<1> QED BY <1>5, <1>6

\* A disconnect, unless the offers were taken back before.
LEMMA DisconnectCounts ==
  ASSUME Inv, NEW c \in Callers, NEW p \in Proxies, Disconnect(c, p)
  PROVE  AdminsExact' /\ ChannelExact'
<1> DEFINE r == [op |-> "disconnect", step |-> "alone", proxy |-> p, admin |-> AdminOf[p], add |-> {}, del |-> {}]
<1>1. TypeOK /\ Sane /\ AdminsExact /\ ChannelExact
  BY DEF Inv
<1>2. AdminOf[p] \in Admins
  BY OffersAssumption
<1>3. /\ pxstate[p] \in {"Connected", "Exception"} /\ pxstate' = [pxstate EXCEPT ![p] = "Disconnected"]
      /\ UNCHANGED <<offered, astate, counted, direct, shut, offers, told, late>>
  BY DEF Disconnect
<1>4. Notes /\ \A t \in Types \ twice' : t \notin twice /\ (pxstate[p] = "Connected" \/ t \notin offered[p])
  <2>1. twice' = twice \cup (IF pxstate[p] = "Exception" THEN offered[p] ELSE {})
    BY DEF Disconnect
  <2> QED BY <1>3, <2>1 DEF Notes
<1>5. pxstate'[p] = "Disconnected" /\ \A q \in Proxies \ {p} : pxstate'[q] = pxstate[q]
  BY <1>1, <1>3 DEF TypeOK
<1>6. call[c].step = "idle" /\ Goes(c, r)
  <2>1. Begin(c, "disconnect", "alone", p, AdminOf[p], {}, {})
    BY DEF Disconnect
  <2>2. p \in Proxies \cup {None} /\ {} \in SUBSET Types
    OBVIOUS
  <2>3. call[c].op = "none" /\ call[c].step = "idle" /\ Goes(c, r)
    BY <1>1, <1>2, <2>1, <2>2, Begins
  <2> QED BY <2>3
<1>7. call'[c] = r /\ \A d \in Callers \ {c} : call'[d] = call[d]
  BY <1>6 DEF Goes
<1>8. r.step = "alone" /\ r.op = "disconnect" /\ r.admin = AdminOf[p] /\ r.proxy = p
  OBVIOUS
<1> HIDE DEF r
<1>9. ChannelExact'
  BY <1>3, <1>4, <1>6, <1>7, <1>8, ChannelKept
<1>10. ASSUME NEW a \in Admins, NEW t \in Types \ twice', astate[a] \in Counting
       PROVE  AtAdmin(a, t)'
  <2>1. AtAdmin(a, t)
    BY <1>1, <1>4, <1>10 DEF AdminsExact
  <2>2. /\ Cardinality(Adding(a, t))' + One(AddsAt(call[c], a, t)) = Cardinality(Adding(a, t)) + One(AddsAt(r, a, t))
        /\ Cardinality(Deleting(a, t))' + One(DelsAt(call[c], offered, a, t))
             = Cardinality(Deleting(a, t)) + One(DelsAt(r, offered', a, t))
    BY <1>1, <1>3, <1>7, CallerMoves
  <2>3. One(AddsAt(call[c], a, t)) = 0 /\ One(DelsAt(call[c], offered, a, t)) = 0
    BY <1>6, NothingYet DEF One
  <2>4. One(AddsAt(r, a, t)) = 0 /\ One(DelsAt(r, offered', a, t)) = One(a = AdminOf[p] /\ t \in offered[p])
    BY <1>3, <1>8 DEF AddsAt, DelsAt, One
  <2>5. Cardinality(Offering(a, t))' + One(IsOffering(p, a, t)) = Cardinality(Offering(a, t)) + One(IsOffering(p, a, t)')
    BY <1>3, <1>5, ProxyMoves
  <2>6. One(IsOffering(p, a, t)) = One(a = AdminOf[p] /\ t \in offered[p]) /\ One(IsOffering(p, a, t)') = 0
    BY <1>4, <1>5, <1>10 DEF IsOffering, One
  <2>7. One(a = AdminOf[p] /\ t \in offered[p]) \in Nat
    BY DEF One
  <2> QED BY <1>1, <1>3, <2>1, <2>2, <2>3, <2>4, <2>5, <2>6, <2>7, Numbers, SizesNext DEF AtAdmin
<1>11. AdminsExact'
  BY <1>3, <1>10 DEF AdminsExact
<1> QED BY <1>9, <1>11

--------------------------------------------------------------------------------
(* ... at an admin and at the channel *)

\* What CountAtAdmin leaves of a call and of its proxy.
LEMMA AtAdminGoes ==
  ASSUME Inv, NEW c \in Callers, CountAtAdmin(c)
  PROVE  LET a == call[c].admin
             new == NewlyAdded(counted[a], call[c].add)
             old == Gone(counted[a], call[c].add, call[c].del)
         IN
         /\ a \in Admins /\ call[c].step = "admin" /\ call[c].op \in {"offer", "fail", "disconnect", "direct"}
         /\ new \in SUBSET Types /\ old \in SUBSET Types
         /\ \E r \in Calls :
              /\ Goes(c, r) /\ r.step \in {"idle", "channel"}
              /\ r.step = "channel" => r.add = new /\ r.del = old /\ r.op = call[c].op
                                       /\ r.admin = a /\ r.proxy = call[c].proxy
              /\ r.step = "idle" => new = {} /\ old = {} /\ r.op = "none"
         /\ pxstate' \in [Proxies -> {"Connected", "Exception", "Disconnected", "disposed"}]
         /\ \A p \in Proxies : \/ pxstate'[p] = pxstate[p]
                               \/ /\ call[c].op = "disconnect" /\ call[c].proxy = p /\ call'[c].op = "none"
                                  /\ pxstate[p] = "Disconnected" /\ pxstate'[p] = "disposed"
<1> DEFINE a == call[c].admin
           new == NewlyAdded(counted[a], call[c].add)
           old == Gone(counted[a], call[c].add, call[c].del)
<1>1. TypeOK /\ Sane
  BY DEF Inv
<1>2. call[c] \in Calls /\ call[c].add \in SUBSET Types /\ call[c].del \in SUBSET Types
  BY <1>1, ACall
<1>3. call[c].step = "admin"
  BY DEF CountAtAdmin
<1>4. a \in Admins /\ call[c].op \in {"offer", "fail", "disconnect", "direct"}
  BY <1>1, <1>2, <1>3 DEF Sane, About, Calls
<1>5. new \in SUBSET Types /\ old \in SUBSET Types
  BY <1>2 DEF NewlyAdded, Gone
<1>6. CASE new \cup old = {}
  <2>1. Return(c)
    BY <1>6 DEF CountAtAdmin
  <2>2. Idle \in Calls /\ Idle.step = "idle" /\ Idle.op = "none"
    BY DEF Idle, Calls
  <2>3. call'[c] = Idle
    BY <1>1, <2>1, Returns DEF Goes
  <2> HIDE DEF new, old
  <2> QED BY <1>1, <1>3, <1>4, <1>5, <1>6, <2>1, <2>2, <2>3, Returns DEF new, old
<1>7. CASE new \cup old # {}
  <2>1. Pass(c, "channel", new, old) /\ UNCHANGED pxstate
    BY <1>7 DEF CountAtAdmin
  <2> DEFINE r == [op |-> call[c].op, step |-> "channel", proxy |-> call[c].proxy, admin |-> a, add |-> new, del |-> old]
  <2>2. Goes(c, r)
    BY <1>1, <1>5, <2>1, Passes
  <2>3. r \in Calls
    BY <2>2, <1>1 DEF Goes
  <2>4. /\ r.step = "channel" /\ r.add = new /\ r.del = old /\ r.op = call[c].op
        /\ r.admin = a /\ r.proxy = call[c].proxy
    OBVIOUS
  <2>5. pxstate' = pxstate /\ pxstate \in [Proxies -> {"Connected", "Exception", "Disconnected", "disposed"}]
    BY <1>1, <2>1 DEF TypeOK
  <2> HIDE DEF r, new, old
  <2> QED BY <1>3, <1>4, <1>5, <2>2, <2>3, <2>4, <2>5 DEF new, old
<1> QED BY <1>6, <1>7

LEMMA CountedAtAdmin ==
  ASSUME Inv, NEW c \in Callers, CountAtAdmin(c)
  PROVE  AdminsExact' /\ ChannelExact'
<1>0. PICK b \in Admins : b = call[c].admin
  BY AtAdminGoes
<1> DEFINE plus == call[c].add
           minus == call[c].del
           n == counted[b]
           new == NewlyAdded(n, plus)
           old == Gone(n, plus, minus)
<1>1. TypeOK /\ Sane /\ AdminsExact /\ ChannelExact
  BY DEF Inv
<1>2. /\ b \in Admins /\ call[c].step = "admin" /\ call[c].op \in {"offer", "fail", "disconnect", "direct"}
      /\ \A p \in Proxies : pxstate'[p] = "Connected" <=> pxstate[p] = "Connected"
  BY <1>0, AtAdminGoes
<1>3. /\ counted' = [counted EXCEPT ![b] = Count(n, plus, minus)]
      /\ direct' = [direct EXCEPT ![b] = IF call[c].op = "direct" THEN Count(@, plus, minus) ELSE @]
      /\ UNCHANGED <<offered, astate, shut, offers, told, calls>>
  BY <1>0 DEF CountAtAdmin
<1>4. /\ twice' = twice \cup (IF astate[b] = "revoked" THEN old ELSE {})
      /\ late' = late \cup (IF astate[b] = "revoked" THEN new ELSE {}) \cup Unknown(n, plus, minus)
  BY <1>0 DEF CountAtAdmin
<1>5. plus \in SUBSET Types /\ minus \in SUBSET Types /\ n \in Counts /\ direct[b] \in Counts
  BY <1>1, <1>2, ACall DEF TypeOK
<1>6. /\ counted \in [Admins -> Counts] /\ direct \in [Admins -> Counts]
  BY <1>1 DEF TypeOK
<1>7. counted'[b] = Count(n, plus, minus) /\ \A a \in Admins \ {b} : counted'[a] = counted[a] /\ direct'[a] = direct[a]
  BY <1>2, <1>3, <1>6
<1>8. direct'[b] = IF call[c].op = "direct" THEN Count(direct[b], plus, minus) ELSE direct[b]
  BY <1>2, <1>3, <1>6
<1>9. /\ Notes
      /\ \A t \in Types \ twice' : t \notin twice /\ (astate[b] = "revoked" => t \notin old)
      /\ \A t \in Types \ late' :
           t \notin late /\ (astate[b] = "revoked" => t \notin new) /\ t \notin Unknown(n, plus, minus)
  <2> HIDE DEF n, plus, minus, new, old
  <2> QED BY <1>4 DEF Notes
<1>10. PICK r \in Calls :
         /\ Goes(c, r) /\ r.step \in {"idle", "channel"}
         /\ r.step = "channel" => r.add = new /\ r.del = old /\ r.op = call[c].op
                                  /\ r.admin = b /\ r.proxy = call[c].proxy
         /\ r.step = "idle" => new = {} /\ old = {} /\ r.op = "none"
  BY <1>0, AtAdminGoes
<1>11. call'[c] = r /\ \A d \in Callers \ {c} : call'[d] = call[d]
  BY <1>10 DEF Goes
<1>12. \A t \in Types : LET m == n[t] + One(t \in plus) IN
         /\ Count(n, plus, minus)[t] = IF t \in minus /\ m > 0 THEN m - 1 ELSE m
         /\ t \in new <=> t \in plus /\ n[t] = 0
         /\ t \in old <=> t \in minus /\ m = 1
         /\ t \in Unknown(n, plus, minus) <=> t \in minus /\ m = 0
  <2> HIDE DEF n, plus, minus
  <2> QED BY <1>5, CountIs
<1>13. \A t \in Types : LET m == direct[b][t] + One(t \in plus) IN
         Count(direct[b], plus, minus)[t] = IF t \in minus /\ m > 0 THEN m - 1 ELSE m
  <2> DEFINE k == direct[b]
  <2>1. k \in Counts /\ plus \in SUBSET Types /\ minus \in SUBSET Types
    BY <1>5
  <2> HIDE DEF k, plus, minus
  <2>2. \A t \in Types : LET m == k[t] + One(t \in plus) IN
          Count(k, plus, minus)[t] = IF t \in minus /\ m > 0 THEN m - 1 ELSE m
    BY <2>1, CountIs
  <2> QED BY <2>2 DEF k
<1>14. call[c].op = "direct" => \A t \in Types : (t \in plus => t \notin minus) /\ (t \in minus => direct[b][t] > 0)
  BY <1>0, <1>1, <1>2 DEF Sane, About
<1>15. b = call[c].admin /\ plus = call[c].add /\ minus = call[c].del /\ n = counted[b]
  BY <1>0
<1> HIDE DEF plus, minus, n, new, old
<1>16. ASSUME NEW a \in Admins, NEW t \in Types \ twice', astate[a] \in Counting
       PROVE  AtAdmin(a, t)'
  <2>1. AtAdmin(a, t)
    BY <1>1, <1>9, <1>16 DEF AdminsExact
  <2>2. /\ Cardinality(Adding(a, t))' + One(AddsAt(call[c], a, t)) = Cardinality(Adding(a, t)) + One(AddsAt(r, a, t))
        /\ Cardinality(Deleting(a, t))' + One(DelsAt(call[c], offered, a, t))
             = Cardinality(Deleting(a, t)) + One(DelsAt(r, offered', a, t))
    BY <1>1, <1>3, <1>11, CallerMoves
  <2>3. One(AddsAt(r, a, t)) = 0 /\ One(DelsAt(r, offered', a, t)) = 0
    BY <1>10 DEF AddsAt, DelsAt, One
  <2>4. /\ One(AddsAt(call[c], a, t)) = One(a = b /\ call[c].op # "direct" /\ t \in plus)
        /\ One(DelsAt(call[c], offered, a, t)) = One(a = b /\ call[c].op # "direct" /\ t \in minus)
    BY <1>2, <1>15 DEF AddsAt, DelsAt, One
  <2>5. Cardinality(Offering(a, t))' = Cardinality(Offering(a, t))
    <3>1. Offering(a, t)' = Offering(a, t)
      BY <1>2, <1>3 DEF Offering, IsOffering
    <3> QED BY <3>1
  <2>6. CASE a # b
    <3>1. One(AddsAt(call[c], a, t)) = 0 /\ One(DelsAt(call[c], offered, a, t)) = 0
      BY <2>4, <2>6 DEF One
    <3>2. counted'[a][t] = counted[a][t] /\ direct'[a][t] = direct[a][t]
      BY <1>7, <2>6
    <3> QED BY <1>1, <1>9, <2>1, <2>2, <2>3, <2>5, <3>1, <3>2, Numbers, SizesNext DEF AtAdmin
  <2>7. CASE a = b
    <3> DEFINE m == n[t] + One(t \in plus)
    <3>1. counted[a][t] = n[t] /\ counted'[a][t] = IF t \in minus /\ m > 0 THEN m - 1 ELSE m
      BY <1>7, <1>12, <1>15, <2>7
    <3>2. t \notin late' => ~(t \in minus /\ m = 0)
      BY <1>9, <1>12
    <3>3. CASE call[c].op = "direct"
      <4>1. direct'[a][t] = IF t \in minus /\ direct[a][t] + One(t \in plus) > 0
                            THEN (direct[a][t] + One(t \in plus)) - 1 ELSE direct[a][t] + One(t \in plus)
        BY <1>8, <1>13, <2>7, <3>3
      <4>2. (t \in plus => t \notin minus) /\ (t \in minus => direct[a][t] > 0)
        BY <1>14, <2>7, <3>3
      <4>3. One(AddsAt(call[c], a, t)) = 0 /\ One(DelsAt(call[c], offered, a, t)) = 0
        BY <2>4, <3>3 DEF One
      <4>4. /\ Cardinality(Adding(a, t))' = Cardinality(Adding(a, t))
            /\ Cardinality(Deleting(a, t))' = Cardinality(Deleting(a, t))
        BY <1>1, <2>2, <2>3, <4>3, Numbers, SizesNext
      <4> QED BY <1>1, <1>9, <2>1, <2>5, <3>1, <3>2, <4>1, <4>2, <4>4, Numbers DEF AtAdmin, One
    <3>4. CASE call[c].op # "direct"
      <4>1. direct'[a][t] = direct[a][t]
        BY <1>8, <2>7, <3>4
      <4>2. One(AddsAt(call[c], a, t)) = One(t \in plus) /\ One(DelsAt(call[c], offered, a, t)) = One(t \in minus)
        BY <2>4, <2>7, <3>4 DEF One
      <4>3. /\ Cardinality(Adding(a, t))' + One(t \in plus) = Cardinality(Adding(a, t))
            /\ Cardinality(Deleting(a, t))' + One(t \in minus) = Cardinality(Deleting(a, t))
        BY <1>1, <2>2, <2>3, <4>2, Numbers, SizesNext
      <4> QED BY <1>1, <1>9, <2>1, <2>5, <3>1, <3>2, <4>1, <4>3, Numbers, SizesNext DEF AtAdmin, One
    <3> QED BY <3>3, <3>4
  <2> QED BY <2>6, <2>7
<1>17. AdminsExact'
  BY <1>3, <1>16 DEF AdminsExact
<1>18. ASSUME ~shut, NEW t \in Types \ twice'
       PROVE  AtChannel(t)'
  <2> DEFINE m == n[t] + One(t \in plus)
  <2>1. AtChannel(t)
    BY <1>1, <1>9, <1>18 DEF ChannelExact
  <2>2. /\ Cardinality(ToAdd(t))' + One(AddsOn(call[c], t)) = Cardinality(ToAdd(t)) + One(AddsOn(r, t))
        /\ Cardinality(ToDel(t))' + One(DelsOn(call[c], t)) = Cardinality(ToDel(t)) + One(DelsOn(r, t))
    BY <1>1, <1>3, <1>11, CallerMoves
  <2>3. One(AddsOn(call[c], t)) = 0 /\ One(DelsOn(call[c], t)) = 0
    BY <1>2 DEF AddsOn, DelsOn, One
  <2>4. One(AddsOn(r, t)) = One(t \in new) /\ One(DelsOn(r, t)) = One(t \in old)
    BY <1>10 DEF AddsOn, DelsOn, One
  <2>5. /\ Cardinality(ToAdd(t))' = Cardinality(ToAdd(t)) + One(t \in new)
        /\ Cardinality(ToDel(t))' = Cardinality(ToDel(t)) + One(t \in old)
    BY <2>2, <2>3, <2>4, ChannelNumbers, SizesNext DEF One
  <2>6. Cardinality(Having(t))' + One(IsCounting(b, t)) = Cardinality(Having(t)) + One(IsCounting(b, t)')
    BY <1>2, <1>3, <1>7, AdminMoves
  <2>7. offers'[t] = offers[t] /\ offers[t] \in Nat /\ n[t] \in Nat
    BY <1>1, <1>2, <1>3, <1>15, Numbers
  <2>8. (t \in new <=> t \in plus /\ n[t] = 0) /\ (t \in old <=> t \in minus /\ m = 1)
    BY <1>12
  <2>9. CASE astate[b] \in Counting
    <3>1. (IsCounting(b, t) <=> n[t] > 0)
          /\ (IsCounting(b, t)' <=> (IF t \in minus /\ m > 0 THEN m - 1 ELSE m) > 0)
      BY <1>3, <1>7, <1>12, <1>15, <2>9 DEF IsCounting
    <3>2. One(IsCounting(b, t)') + One(t \in old) = One(IsCounting(b, t)) + One(t \in new)
      <4>1. CASE n[t] = 0
        BY <2>8, <3>1, <4>1 DEF One
      <4>2. CASE n[t] = 1
        BY <2>8, <3>1, <4>2 DEF One
      <4>3. CASE n[t] > 1
        BY <2>7, <2>8, <3>1, <4>3 DEF One
      <4> QED BY <2>7, <4>1, <4>2, <4>3
    <3>3. /\ One(IsCounting(b, t)) \in Nat /\ One(IsCounting(b, t)') \in Nat
          /\ One(t \in old) \in Nat /\ One(t \in new) \in Nat
      BY DEF One
    <3>4. t \notin late' => t \notin late
      BY <1>9
    <3> QED BY <2>1, <2>5, <2>6, <2>7, <3>2, <3>3, <3>4, ChannelNumbers, SizesNext DEF AtChannel
  <2>10. CASE astate[b] \notin Counting
    <3>1. astate[b] = "revoked"
      <4>1. astate[b] \in {"live", "closing", "revoked", "gone"}
        BY <1>1, <1>2 DEF TypeOK
      <4>2. astate[b] # "gone"
        BY <1>15 DEF CountAtAdmin, Refuses
      <4> QED BY <2>10, <4>1, <4>2 DEF Counting
    <3>2. t \notin old /\ (t \notin late' => t \notin new)
      BY <1>9, <1>18, <3>1
    <3>3. One(IsCounting(b, t)) = 0 /\ One(IsCounting(b, t)') = 0
      BY <1>3, <2>10 DEF IsCounting, One
    <3>4. Cardinality(ToDel(t))' = Cardinality(ToDel(t)) /\ Cardinality(Having(t))' = Cardinality(Having(t))
      BY <2>5, <2>6, <3>2, <3>3, ChannelNumbers, SizesNext DEF One
    <3>5. /\ Cardinality(ToAdd(t))' >= Cardinality(ToAdd(t))
          /\ t \notin late' => Cardinality(ToAdd(t))' = Cardinality(ToAdd(t))
      BY <2>5, <3>2, ChannelNumbers DEF One
    <3> QED BY <1>9, <2>1, <2>7, <3>4, <3>5, ChannelNumbers, SizesNext DEF AtChannel
  <2> QED BY <2>9, <2>10
<1>19. ChannelExact'
  BY <1>3, <1>18 DEF ChannelExact
<1> QED BY <1>17, <1>19

\* A call that leaves the channel is none of the business of the admins.
LEMMA AtChannelKeepsAdmins ==
  ASSUME Inv, Notes, NEW c \in Callers, NEW r, call[c].step = "channel", r.step \in {"idle", "proxies"},
         call'[c] = r, \A d \in Callers \ {c} : call'[d] = call[d],
         UNCHANGED <<offered, astate, counted, direct>>,
         \A p \in Proxies : pxstate'[p] = "Connected" <=> pxstate[p] = "Connected"
  PROVE  AdminsExact'
<1>1. \A a \in Admins, t \in Types : /\ ~AddsAt(call[c], a, t) /\ ~AddsAt(call'[c], a, t)
                                     /\ ~DelsAt(call[c], offered, a, t) /\ ~DelsAt(call'[c], offered', a, t)
  BY DEF AddsAt, DelsAt
<1>2. \A a \in Admins, t \in Types : Offering(a, t)' = Offering(a, t)
  BY DEF Offering, IsOffering
<1> QED BY <1>1, <1>2, AdminsKept

\* At the channel, or when it is shut.
LEMMA CountedAtChannel ==
  ASSUME Inv, NEW c \in Callers, CountAtChannel(c)
  PROVE  AdminsExact' /\ ChannelExact' /\ ToldExact'
<1> DEFINE plus == call[c].add
           minus == call[c].del
           new == NewlyAdded(offers, plus)
           old == Gone(offers, plus, minus)
<1>1. TypeOK /\ Sane /\ AdminsExact /\ ChannelExact /\ ToldExact
  BY DEF Inv
<1>2. call[c].step = "channel" /\ UNCHANGED <<offered, astate, counted, direct, shut, calls, twice>>
  BY DEF CountAtChannel
<1>3. plus \in SUBSET Types /\ minus \in SUBSET Types /\ offers \in Counts /\ told \in SUBSET Types
  BY <1>1, ACall DEF TypeOK
<1>4. PICK r \in Calls : Goes(c, r) /\ r.step \in {"idle", "proxies"}
  <2>1. CASE call[c].op = "destroy"
    <3>1. Pass(c, "proxies", {}, {})
      BY <2>1 DEF CountAtChannel
    <3> DEFINE r == [op |-> call[c].op, step |-> "proxies", proxy |-> call[c].proxy, admin |-> call[c].admin,
                     add |-> {}, del |-> {}]
    <3>2. Goes(c, r)
      BY <1>1, <3>1, Passes
    <3>3. r \in Calls /\ r.step = "proxies"
      BY <3>2, <1>1 DEF Goes
    <3> QED BY <3>2, <3>3
  <2>2. CASE call[c].op # "destroy"
    <3>1. Return(c)
      BY <2>2 DEF CountAtChannel
    <3>2. Idle \in Calls /\ Idle.step = "idle"
      BY DEF Idle, Calls
    <3> QED BY <1>1, <3>1, <3>2, Returns
  <2> QED BY <2>1, <2>2
<1>5. \A p \in Proxies : pxstate'[p] = "Connected" <=> pxstate[p] = "Connected"
  <2>1. CASE call[c].op = "destroy"
    BY <2>1 DEF CountAtChannel
  <2>2. CASE call[c].op # "destroy"
    BY <1>1, <2>2, Returns DEF CountAtChannel
  <2> QED BY <2>1, <2>2
<1>6. call'[c] = r /\ \A d \in Callers \ {c} : call'[d] = call[d]
  BY <1>4 DEF Goes
<1>7. CASE shut
  <2>1. UNCHANGED <<offers, told, late>>
    BY <1>7 DEF CountAtChannel
  <2>2. ToldExact' /\ ChannelExact'
    BY <1>1, <1>2, <1>7, <2>1 DEF ToldExact, ChannelExact
  <2>3. Notes
    BY <1>2, <2>1 DEF Notes
  <2> QED BY <1>1, <1>2, <1>4, <1>5, <1>6, <2>2, <2>3, AtChannelKeepsAdmins
<1>8. CASE ~shut
  <2>1. /\ offers' = Count(offers, plus, minus)
        /\ told' = (told \cup new) \ old
        /\ late' = late \cup Unknown(offers, plus, minus)
    BY <1>8 DEF CountAtChannel
  <2>2. Notes /\ \A t \in Types \ late' : t \notin late /\ t \notin Unknown(offers, plus, minus)
    BY <1>2, <2>1 DEF Notes
  <2>3. \A t \in Types : LET m == offers[t] + One(t \in plus) IN
          /\ Count(offers, plus, minus)[t] = IF t \in minus /\ m > 0 THEN m - 1 ELSE m
          /\ t \in new <=> t \in plus /\ offers[t] = 0
          /\ t \in old <=> t \in minus /\ m = 1
          /\ t \in Unknown(offers, plus, minus) <=> t \in minus /\ m = 0
    <3> HIDE DEF plus, minus
    <3> QED BY <1>3, CountIs
  <2>4. new \in SUBSET Types /\ old \in SUBSET Types
    <3> HIDE DEF plus, minus
    <3> QED BY <1>3, CountIs
  <2>5. \A t \in Types : offers[t] \in Nat
    BY <1>3 DEF Counts
  <2>6. plus = call[c].add /\ minus = call[c].del
    OBVIOUS
  <2> HIDE DEF plus, minus, new, old
  <2>7. ToldExact'
    <3>1. \A t \in Types : t \in told <=> offers[t] > 0
      BY <1>1 DEF ToldExact
    <3>2. ASSUME NEW t \in Types
          PROVE  t \in told' <=> offers'[t] > 0
      <4> DEFINE m == offers[t] + One(t \in plus)
      <4>1. m \in Nat /\ m = IF t \in plus THEN offers[t] + 1 ELSE offers[t]
        BY <2>5 DEF One
      <4>2. offers'[t] = IF t \in minus /\ m > 0 THEN m - 1 ELSE m
        BY <2>1, <2>3
      <4>3. (t \in new <=> t \in plus /\ offers[t] = 0) /\ (t \in old <=> t \in minus /\ m = 1)
        BY <2>3
      <4>4. t \in told' <=> (offers[t] > 0 \/ t \in new) /\ t \notin old
        BY <2>1, <3>1
      <4>5. offers[t] \in Nat
        BY <2>5
      <4> HIDE DEF m
      <4> QED BY <4>1, <4>2, <4>3, <4>4, <4>5
    <3>3. told' \in SUBSET Types
      BY <1>3, <2>1, <2>4
    <3> QED BY <3>2, <3>3 DEF ToldExact
  <2>8. ASSUME NEW t \in Types \ twice
        PROVE  AtChannel(t)'
    <3> DEFINE m == offers[t] + One(t \in plus)
    <3>1. AtChannel(t)
      BY <1>1, <1>8, <2>8 DEF ChannelExact
    <3>2. /\ Cardinality(ToAdd(t))' + One(AddsOn(call[c], t)) = Cardinality(ToAdd(t)) + One(AddsOn(r, t))
          /\ Cardinality(ToDel(t))' + One(DelsOn(call[c], t)) = Cardinality(ToDel(t)) + One(DelsOn(r, t))
      BY <1>1, <1>2, <1>6, CallerMoves
    <3>3. /\ One(AddsOn(r, t)) = 0 /\ One(DelsOn(r, t)) = 0
          /\ One(AddsOn(call[c], t)) = One(t \in plus) /\ One(DelsOn(call[c], t)) = One(t \in minus)
      BY <1>2, <1>4, <2>6 DEF AddsOn, DelsOn, One
    <3>4. /\ Cardinality(ToAdd(t))' + One(t \in plus) = Cardinality(ToAdd(t))
          /\ Cardinality(ToDel(t))' + One(t \in minus) = Cardinality(ToDel(t))
      BY <3>2, <3>3, ChannelNumbers, SizesNext
    <3>5. Cardinality(Having(t))' = Cardinality(Having(t))
      <4>1. Having(t)' = Having(t)
        BY <1>2 DEF Having, IsCounting
      <4> QED BY <4>1
    <3>6. offers'[t] = (IF t \in minus /\ m > 0 THEN m - 1 ELSE m) /\ (t \notin late' => ~(t \in minus /\ m = 0))
      BY <2>1, <2>2, <2>3
    <3>7. offers[t] \in Nat
      BY <2>5
    <3> QED BY <2>2, <3>1, <3>4, <3>5, <3>6, <3>7, ChannelNumbers, SizesNext DEF AtChannel, One
  <2>9. ChannelExact'
    BY <1>2, <2>8 DEF ChannelExact
  <2> QED BY <1>1, <1>2, <1>4, <1>5, <1>6, <2>2, <2>7, <2>9, AtChannelKeepsAdmins
<1> QED BY <1>7, <1>8

\* The types of an admin that is destroyed are on their way to be taken off.
LEMMA RevokeAllCounts ==
  ASSUME Inv, NEW c \in Callers, RevokeAll(c)
  PROVE  AdminsExact' /\ ChannelExact'
<1>1. TypeOK /\ Sane /\ AdminsExact /\ ChannelExact
  BY DEF Inv
<1>2. call[c].step = "unregister" /\ call[c].op = "destroy"
  BY <1>1 DEF RevokeAll, Sane, About
<1>3. PICK b \in Admins : b = call[c].admin
  BY <1>1, <1>2 DEF Sane, About
<1> DEFINE types == {t \in Types : counted[b][t] > 0}
           step == IF types = {} THEN "proxies" ELSE "channel"
           r == [op |-> call[c].op, step |-> step, proxy |-> call[c].proxy, admin |-> call[c].admin,
                 add |-> {}, del |-> types]
<1>4. /\ astate' = [astate EXCEPT ![b] = "revoked"] /\ Pass(c, step, {}, types)
      /\ UNCHANGED <<pxstate, offered, counted, direct, shut, offers, told, calls, twice, late>>
  BY <1>3 DEF RevokeAll
<1>5. Goes(c, r)
  BY <1>1, <1>4, Passes
<1>6. call'[c] = r /\ \A d \in Callers \ {c} : call'[d] = call[d]
  BY <1>5 DEF Goes
<1>7. r.step \in {"proxies", "channel"} /\ (r.step = "proxies" => types = {}) /\ r.add = {} /\ r.del = types
  OBVIOUS
<1>8. astate'[b] = "revoked" /\ \A a \in Admins \ {b} : astate'[a] = astate[a]
  BY <1>1, <1>4 DEF TypeOK
<1>9. astate[b] = "closing"
  BY <1>1, <1>2, <1>3 DEF Sane, About
<1> HIDE DEF r, step
<1>10. ASSUME NEW own, NEW a, NEW t
       PROVE  ~AddsAt(r, a, t) /\ ~DelsAt(r, own, a, t) /\ ~AddsAt(call[c], a, t) /\ ~DelsAt(call[c], own, a, t)
  BY <1>2, <1>7 DEF AddsAt, DelsAt
<1>11. AdminsExact'
  <2>1. \A a \in Admins : astate'[a] \in Counting => astate[a] \in Counting
    BY <1>8 DEF Counting
  <2>2. \A a \in Admins, t \in Types : Offering(a, t)' = Offering(a, t)
    BY <1>4 DEF Offering, IsOffering
  <2> QED BY <1>4, <1>6, <1>10, <2>1, <2>2, AdminsKept DEF Notes
<1>12. ASSUME ~shut, NEW t \in Types \ twice
       PROVE  AtChannel(t)'
  <2>1. AtChannel(t)
    BY <1>1, <1>12 DEF ChannelExact
  <2>2. /\ Cardinality(ToAdd(t))' + One(AddsOn(call[c], t)) = Cardinality(ToAdd(t)) + One(AddsOn(r, t))
        /\ Cardinality(ToDel(t))' + One(DelsOn(call[c], t)) = Cardinality(ToDel(t)) + One(DelsOn(r, t))
    BY <1>1, <1>4, <1>6, CallerMoves
  <2>3. /\ One(AddsOn(call[c], t)) = 0 /\ One(DelsOn(call[c], t)) = 0
        /\ One(AddsOn(r, t)) = 0 /\ One(DelsOn(r, t)) = One(t \in types)
    BY <1>2, <1>7 DEF AddsOn, DelsOn, One
  <2>4. Cardinality(Having(t))' + One(IsCounting(b, t)) = Cardinality(Having(t)) + One(IsCounting(b, t)')
    BY <1>4, <1>8, AdminMoves
  <2>5. One(IsCounting(b, t)) = One(t \in types) /\ One(IsCounting(b, t)') = 0
    BY <1>8, <1>9 DEF IsCounting, Counting, One
  <2>6. offers'[t] = offers[t] /\ One(t \in types) \in Nat
    BY <1>4 DEF One
  <2> HIDE DEF types
  <2> QED BY <1>4, <2>1, <2>2, <2>3, <2>4, <2>5, <2>6, ChannelNumbers, SizesNext DEF AtChannel
<1>13. ChannelExact'
  BY <1>4, <1>12 DEF ChannelExact
<1> QED BY <1>11, <1>13

LEMMA CountsNext ==
  ASSUME Inv, [Next]_vars
  PROVE  AdminsExact' /\ ChannelExact' /\ ToldExact'
<1>0. TypeOK /\ Sane /\ AdminsExact /\ ChannelExact /\ ToldExact
  BY DEF Inv
<1>1. CASE Shutdown
  <2>1. UNCHANGED <<pxstate, offered, astate, counted, direct, offers, told, call, calls, twice, late>> /\ shut'
    BY <1>1 DEF Shutdown
  <2>2. AdminsExact'
    <3>1. \A a, t : /\ Adding(a, t)' = Adding(a, t) /\ Deleting(a, t)' = Deleting(a, t)
                    /\ Offering(a, t)' = Offering(a, t)
      BY <2>1 DEF Adding, Deleting, Offering, IsOffering, AddsAt, DelsAt
    <3>2. \A a, t : AtAdmin(a, t)' <=> AtAdmin(a, t)
      BY <2>1, <3>1 DEF AtAdmin
    <3> QED BY <1>0, <2>1, <3>2 DEF AdminsExact
  <2> QED BY <1>0, <2>1, <2>2 DEF ChannelExact, ToldExact
<1>2. CASE UNCHANGED vars
  <2>1. UNCHANGED <<pxstate, offered, astate, counted, direct, shut, offers, told, call, calls, twice, late>>
    BY <1>2 DEF vars
  <2>2. AdminsExact'
    <3>1. \A a, t : /\ Adding(a, t)' = Adding(a, t) /\ Deleting(a, t)' = Deleting(a, t)
                    /\ Offering(a, t)' = Offering(a, t)
      BY <2>1 DEF Adding, Deleting, Offering, IsOffering, AddsAt, DelsAt
    <3>2. \A a, t : AtAdmin(a, t)' <=> AtAdmin(a, t)
      BY <2>1, <3>1 DEF AtAdmin
    <3> QED BY <1>0, <2>1, <3>2 DEF AdminsExact
  <2>3. ChannelExact'
    BY <1>0, <2>1 DEF ChannelExact, AtChannel, ToAdd, ToDel, Having, IsCounting, AddsOn, DelsOn
  <2> QED BY <1>0, <2>1, <2>2, <2>3 DEF ToldExact
<1>3. ASSUME NEW c \in Callers, Revoke(c)
      PROVE  AdminsExact' /\ ChannelExact' /\ ToldExact'
  <2> DEFINE r == [op |-> call[c].op, step |-> "admin", proxy |-> call[c].proxy, admin |-> call[c].admin,
                   add |-> {}, del |-> offered[call[c].proxy]]
  <2>1. /\ call[c].step = "alone" /\ call[c].op = "disconnect" /\ Pass(c, "admin", {}, offered[call[c].proxy])
        /\ UNCHANGED <<pxstate, offered, astate, counted, direct, shut, offers, told, calls, twice, late>>
    BY <1>3 DEF Revoke
  <2>2. call[c].proxy \in Proxies
    BY <1>0, <2>1 DEF Sane, About
  <2>3. offered[call[c].proxy] \in SUBSET Types
    BY <1>0, <2>2 DEF TypeOK
  <2>4. Goes(c, r)
    BY <1>0, <2>1, <2>3, Passes
  <2>5. call'[c] = r /\ \A d \in Callers \ {c} : call'[d] = call[d]
    BY <2>4 DEF Goes
  <2>6. /\ r.step = "admin" /\ r.op = "disconnect" /\ r.admin = call[c].admin /\ r.add = {}
        /\ r.del = offered[call[c].proxy]
    BY <2>1
  <2> HIDE DEF r
  <2>7. \A a, t : (AddsAt(r, a, t) <=> AddsAt(call[c], a, t)) /\ (DelsAt(r, offered', a, t) <=> DelsAt(call[c], offered, a, t))
    BY <2>1, <2>6 DEF AddsAt, DelsAt
  <2>8. \A a \in Admins, t \in Types : Offering(a, t)' = Offering(a, t)
    BY <2>1 DEF Offering, IsOffering
  <2>9. AdminsExact'
    BY <2>1, <2>5, <2>7, <2>8, AdminsKept DEF Notes
  <2>10. ChannelExact'
    BY <2>1, <2>5, <2>6, ChannelKept DEF Notes
  <2> QED BY <1>0, <2>1, <2>9, <2>10 DEF ToldExact
<1>4. ASSUME NEW c \in Callers, Refused(c)
      PROVE  AdminsExact' /\ ChannelExact' /\ ToldExact'
  <2>1. /\ call[c].step = "admin" /\ Refuses(call[c].admin, call[c].op) /\ Return(c)
        /\ UNCHANGED <<offered, astate, counted, direct, shut, offers, told, calls, twice, late>>
    BY <1>4 DEF Refused
  <2>2. Goes(c, Idle) /\ \A p \in Proxies : pxstate'[p] = "Connected" <=> pxstate[p] = "Connected"
    BY <1>0, <2>1, Returns
  <2>3. call'[c].step = "idle" /\ \A d \in Callers \ {c} : call'[d] = call[d]
    BY <2>2 DEF Goes, Idle
  <2>4. \A a \in Admins, t \in Types : Offering(a, t)' = Offering(a, t)
    BY <2>1, <2>2 DEF Offering, IsOffering
  <2>5. ASSUME NEW a \in Admins, NEW t \in Types, astate[a] \in Counting
        PROVE  ~AddsAt(call[c], a, t) /\ ~DelsAt(call[c], offered, a, t)
    BY <2>1, <2>5 DEF AddsAt, DelsAt, Refuses, Counting
  <2>6. \A own, a, t : ~AddsAt(call'[c], a, t) /\ ~DelsAt(call'[c], own, a, t)
    BY <2>3, NothingYet
  <2>7. AdminsExact'
    BY <2>1, <2>3, <2>4, <2>5, <2>6, AdminsKept DEF Notes
  <2>8. ChannelExact'
    BY <2>1, <2>3, ChannelKept DEF Notes
  <2> QED BY <1>0, <2>1, <2>7, <2>8 DEF ToldExact
<1>5. ASSUME NEW c \in Callers, DisposeAdmin(c)
      PROVE  AdminsExact' /\ ChannelExact' /\ ToldExact'
  <2>1. /\ call[c].step = "proxies" /\ astate' = [astate EXCEPT ![call[c].admin] = "gone"]
        /\ call' = [call EXCEPT ![c] = Idle]
        /\ UNCHANGED <<pxstate, offered, counted, direct, shut, offers, told, calls, twice, late>>
    BY <1>5 DEF DisposeAdmin
  <2>2. call[c].op = "destroy" /\ call[c].admin \in Admins /\ astate[call[c].admin] = "revoked"
    BY <1>0, <2>1 DEF Sane, About
  <2>3. \A a \in Admins : astate'[a] \in Counting <=> astate[a] \in Counting
    BY <1>0, <2>1, <2>2 DEF TypeOK, Counting
  <2>4. Goes(c, Idle)
    BY <1>0, <2>1, Ends
  <2>5. call'[c].step = "idle" /\ \A d \in Callers \ {c} : call'[d] = call[d]
    BY <2>4 DEF Goes, Idle
  <2>6. \A own, a, t : ~AddsAt(call'[c], a, t) /\ ~DelsAt(call'[c], own, a, t)
    BY <2>5, NothingYet
  <2>7. \A own, a, t : ~AddsAt(call[c], a, t) /\ ~DelsAt(call[c], own, a, t)
    BY <2>1 DEF AddsAt, DelsAt
  <2>8. \A a \in Admins, t \in Types : Offering(a, t)' = Offering(a, t)
    BY <2>1 DEF Offering, IsOffering
  <2>9. AdminsExact'
    BY <2>1, <2>3, <2>5, <2>6, <2>7, <2>8, AdminsKept DEF Notes
  <2>10. ChannelExact'
    BY <2>1, <2>3, <2>5, ChannelKept DEF Notes
  <2> QED BY <1>0, <2>1, <2>9, <2>10 DEF ToldExact
<1>6. ASSUME NEW c \in Callers, NEW p \in Proxies, DisposeProxy(c, p)
      PROVE  AdminsExact' /\ ChannelExact' /\ ToldExact'
  <2>1. /\ call[c].step = "proxies" /\ AdminOf[p] = call[c].admin
        /\ pxstate' = [pxstate EXCEPT ![p] = "disposed"]
        /\ UNCHANGED <<offered, astate, counted, direct, shut, offers, told, call, calls, twice, late>>
    BY <1>6 DEF DisposeProxy
  <2>2. astate[AdminOf[p]] = "revoked"
    BY <1>0, <2>1 DEF Sane, About
  <2>3. \A q \in Proxies \ {p} : pxstate'[q] = pxstate[q]
    BY <1>0, <2>1 DEF TypeOK
  <2>4. \A a \in Admins : astate'[a] \in Counting => \A t \in Types : Offering(a, t)' = Offering(a, t)
    BY <2>1, <2>2, <2>3 DEF Offering, IsOffering, Counting
  <2>5. AdminsExact'
    BY <2>1, <2>4, AdminsKept DEF Notes
  <2>6. ChannelExact'
    BY <2>1, ChannelKept DEF Notes
  <2> QED BY <1>0, <2>1, <2>5, <2>6 DEF ToldExact
<1>7. ASSUME NEW c \in Callers, NEW a \in Admins, DestroyAdmin(c, a)
      PROVE  AdminsExact' /\ ChannelExact' /\ ToldExact'
  <2>1. /\ astate[a] = "live" /\ astate' = [astate EXCEPT ![a] = "closing"]
        /\ Begin(c, "destroy", "alone", None, a, {}, {})
        /\ UNCHANGED <<pxstate, offered, counted, direct, shut, offers, told, twice, late>>
    BY <1>7 DEF DestroyAdmin
  <2> DEFINE r == [op |-> "destroy", step |-> "alone", proxy |-> None, admin |-> a, add |-> {}, del |-> {}]
  <2>2. call[c].step = "idle" /\ Goes(c, r)
    BY <1>0, <2>1, Begins
  <2>3. call'[c].step = "alone" /\ call'[c].op = "destroy" /\ \A d \in Callers \ {c} : call'[d] = call[d]
    BY <2>2 DEF Goes
  <2> HIDE DEF r
  <2>4. \A b \in Admins : astate'[b] \in Counting <=> astate[b] \in Counting
    BY <1>0, <2>1 DEF TypeOK, Counting
  <2>5. \A own, b, t : ~AddsAt(call'[c], b, t) /\ ~DelsAt(call'[c], own, b, t)
    BY <2>3 DEF AddsAt, DelsAt
  <2>6. \A own, b, t : ~AddsAt(call[c], b, t) /\ ~DelsAt(call[c], own, b, t)
    BY <2>2, NothingYet
  <2>7. \A b \in Admins, t \in Types : Offering(b, t)' = Offering(b, t)
    BY <2>1 DEF Offering, IsOffering
  <2>8. AdminsExact'
    BY <2>1, <2>3, <2>4, <2>5, <2>6, <2>7, AdminsKept DEF Notes
  <2>9. ChannelExact'
    BY <2>1, <2>2, <2>3, <2>4, ChannelKept DEF Notes
  <2> QED BY <1>0, <2>1, <2>8, <2>9 DEF ToldExact
<1>8. ASSUME NEW c \in Callers, NEW a \in Admins, NEW u \in Types, OfferDirectly(c, a, u)
      PROVE  AdminsExact' /\ ChannelExact' /\ ToldExact'
  <2>1. UNCHANGED <<pxstate, offered, astate, counted, direct, shut, offers, told, twice, late>>
    BY <1>8 DEF OfferDirectly
  <2>2. /\ call[c].step = "idle" /\ call'[c].step = "admin" /\ call'[c].op = "direct"
        /\ \A d \in Callers \ {c} : call'[d] = call[d]
    <3>1. PICK plus \in SUBSET Types, minus \in SUBSET Types : Begin(c, "direct", "admin", None, a, plus, minus)
      BY <1>8 DEF OfferDirectly
    <3> DEFINE r == [op |-> "direct", step |-> "admin", proxy |-> None, admin |-> a, add |-> plus, del |-> minus]
    <3>2. call[c].step = "idle" /\ Goes(c, r)
      BY <1>0, <3>1, Begins
    <3> QED BY <3>2 DEF Goes
  <2>3. \A own, b, t : ~AddsAt(call'[c], b, t) /\ ~DelsAt(call'[c], own, b, t)
    BY <2>2 DEF AddsAt, DelsAt
  <2>4. \A own, b, t : ~AddsAt(call[c], b, t) /\ ~DelsAt(call[c], own, b, t)
    BY <2>2, NothingYet
  <2>5. \A b \in Admins, t \in Types : Offering(b, t)' = Offering(b, t)
    BY <2>1 DEF Offering, IsOffering
  <2>6. AdminsExact'
    BY <2>1, <2>2, <2>3, <2>4, <2>5, AdminsKept DEF Notes
  <2>7. ChannelExact'
    BY <2>1, <2>2, ChannelKept DEF Notes
  <2> QED BY <1>0, <2>1, <2>6, <2>7 DEF ToldExact
<1>9. ASSUME NEW c \in Callers, CountAtAdmin(c) \/ RevokeAll(c) \/ \E p \in Proxies : Fail(c, p) \/ Disconnect(c, p)
      PROVE  AdminsExact' /\ ChannelExact' /\ ToldExact'
  <2>1. told' = told /\ offers' = offers
    BY <1>9 DEF CountAtAdmin, RevokeAll, Fail, Disconnect
  <2>2. AdminsExact' /\ ChannelExact'
    BY <1>9, CountedAtAdmin, RevokeAllCounts, FailCounts, DisconnectCounts
  <2> QED BY <1>0, <2>1, <2>2 DEF ToldExact
<1>10. ASSUME NEW c \in Callers, NEW p \in Proxies, NEW plus \in SUBSET Types, NEW minus \in SUBSET Types,
              OfferChange(c, p, plus, minus)
       PROVE  AdminsExact' /\ ChannelExact' /\ ToldExact'
  <2>1. told' = told /\ offers' = offers
    BY <1>10 DEF OfferChange
  <2>2. AdminsExact' /\ ChannelExact'
    BY <1>10, OfferCounts
  <2> QED BY <1>0, <2>1, <2>2 DEF ToldExact
<1>11. ASSUME NEW c \in Callers, Unregister(c)
       PROVE  AdminsExact' /\ ChannelExact' /\ ToldExact'
  <2>1. /\ call[c].step = "alone" /\ call[c].op = "destroy" /\ Pass(c, "unregister", {}, {})
        /\ UNCHANGED <<pxstate, offered, astate, counted, direct, shut, offers, told, calls, twice, late>>
    BY <1>11 DEF Unregister
  <2> DEFINE r == [op |-> call[c].op, step |-> "unregister", proxy |-> call[c].proxy, admin |-> call[c].admin,
                   add |-> {}, del |-> {}]
  <2>2. Goes(c, r)
    BY <1>0, <2>1, Passes
  <2>3. call'[c].step = "unregister" /\ \A d \in Callers \ {c} : call'[d] = call[d]
    BY <2>2 DEF Goes
  <2>4. \A own, a, t : ~AddsAt(call'[c], a, t) /\ ~DelsAt(call'[c], own, a, t)
    BY <2>3 DEF AddsAt, DelsAt
  <2>5. \A own, a, t : ~AddsAt(call[c], a, t) /\ ~DelsAt(call[c], own, a, t)
    BY <2>1 DEF AddsAt, DelsAt
  <2>6. \A a \in Admins, t \in Types : Offering(a, t)' = Offering(a, t)
    BY <2>1 DEF Offering, IsOffering
  <2>7. AdminsExact'
    BY <2>1, <2>3, <2>4, <2>5, <2>6, AdminsKept DEF Notes
  <2>8. ChannelExact'
    BY <2>1, <2>3, ChannelKept DEF Notes
  <2> QED BY <1>0, <2>1, <2>7, <2>8 DEF ToldExact
<1> QED
  BY <1>1, <1>2, <1>3, <1>4, <1>5, <1>6, <1>7, <1>8, <1>9, <1>10, <1>11, CountedAtChannel DEF Next

--------------------------------------------------------------------------------
(* Types *)

LEMMA TypesNext ==
  ASSUME Inv, [Next]_vars
  PROVE  TypeOK'
<1>0. TypeOK /\ Sane
  BY DEF Inv
<1> DEFINE States == {"Connected", "Exception", "Disconnected", "disposed"}
           Lives == {"live", "closing", "revoked", "gone"}
<1>t. /\ pxstate \in [Proxies -> States] /\ offered \in [Proxies -> SUBSET Types]
      /\ astate \in [Admins -> Lives] /\ counted \in [Admins -> Counts] /\ direct \in [Admins -> Counts]
      /\ shut \in BOOLEAN /\ offers \in Counts /\ told \in SUBSET Types
      /\ call \in [Callers -> Calls] /\ calls \in 0..MaxCalls
      /\ twice \in SUBSET Types /\ late \in SUBSET Types
  BY <1>0 DEF TypeOK, Calls
<1>q. ASSUME /\ pxstate' \in [Proxies -> States] /\ offered' \in [Proxies -> SUBSET Types]
             /\ astate' \in [Admins -> Lives] /\ counted' \in [Admins -> Counts] /\ direct' \in [Admins -> Counts]
             /\ shut' \in BOOLEAN /\ offers' \in Counts /\ told' \in SUBSET Types
             /\ call' \in [Callers -> Calls] /\ calls' \in 0..MaxCalls
             /\ twice' \in SUBSET Types /\ late' \in SUBSET Types
      PROVE  TypeOK'
  BY <1>q DEF TypeOK, Calls
<1> HIDE DEF States, Lives
<1>1. CASE Shutdown
  BY <1>t, <1>q, <1>1 DEF Shutdown
<1>2. CASE UNCHANGED vars
  BY <1>t, <1>q, <1>2 DEF vars
<1>3. ASSUME NEW c \in Callers, Revoke(c)
      PROVE  TypeOK'
  <2>1. /\ call[c].step = "alone" /\ call[c].op = "disconnect" /\ Pass(c, "admin", {}, offered[call[c].proxy])
        /\ UNCHANGED <<pxstate, offered, astate, counted, direct, shut, offers, told, calls, twice, late>>
    BY <1>3 DEF Revoke
  <2>2. offered[call[c].proxy] \in SUBSET Types
    BY <1>0, <1>t, <2>1 DEF Sane, About
  <2>3. call' \in [Callers -> Calls]
    BY <1>0, <2>1, <2>2, Passes DEF Goes
  <2> QED BY <1>t, <1>q, <2>1, <2>3
<1>4. ASSUME NEW c \in Callers, Refused(c)
      PROVE  TypeOK'
  <2>1. Return(c) /\ UNCHANGED <<offered, astate, counted, direct, shut, offers, told, calls, twice, late>>
    BY <1>4 DEF Refused
  <2>2. call' \in [Callers -> Calls] /\ pxstate' \in [Proxies -> States]
    BY <1>0, <2>1, Returns DEF Goes, States
  <2> QED BY <1>t, <1>q, <2>1, <2>2
<1>5. ASSUME NEW c \in Callers, DisposeAdmin(c)
      PROVE  TypeOK'
  <2>1. /\ astate' = [astate EXCEPT ![call[c].admin] = "gone"] /\ call' = [call EXCEPT ![c] = Idle]
        /\ UNCHANGED <<pxstate, offered, counted, direct, shut, offers, told, calls, twice, late>>
    BY <1>5 DEF DisposeAdmin
  <2>2. call' \in [Callers -> Calls]
    BY <1>0, <2>1, Ends DEF Goes
  <2>3. astate' \in [Admins -> Lives]
    BY <1>t, <2>1 DEF Lives
  <2> QED BY <1>t, <1>q, <2>1, <2>2, <2>3
<1>6. ASSUME NEW c \in Callers, NEW p \in Proxies, DisposeProxy(c, p)
      PROVE  TypeOK'
  <2>1. /\ pxstate' = [pxstate EXCEPT ![p] = "disposed"]
        /\ UNCHANGED <<offered, astate, counted, direct, shut, offers, told, call, calls, twice, late>>
    BY <1>6 DEF DisposeProxy
  <2>2. pxstate' \in [Proxies -> States]
    BY <1>t, <2>1 DEF States
  <2> QED BY <1>t, <1>q, <2>1, <2>2
<1>7. ASSUME NEW c \in Callers, NEW a \in Admins, DestroyAdmin(c, a)
      PROVE  TypeOK'
  <2>1. /\ astate' = [astate EXCEPT ![a] = "closing"] /\ Begin(c, "destroy", "alone", None, a, {}, {})
        /\ UNCHANGED <<pxstate, offered, counted, direct, shut, offers, told, twice, late>>
    BY <1>7 DEF DestroyAdmin
  <2>2. call' \in [Callers -> Calls] /\ calls' \in 0..MaxCalls
    <3>1. /\ calls' \in 0..MaxCalls
          /\ Goes(c, [op |-> "destroy", step |-> "alone", proxy |-> None, admin |-> a, add |-> {}, del |-> {}])
      BY <1>0, <2>1, Begins
    <3> QED BY <3>1 DEF Goes
  <2>3. astate' \in [Admins -> Lives]
    BY <1>t, <2>1 DEF Lives
  <2> QED BY <1>t, <1>q, <2>1, <2>2, <2>3
<1>8. ASSUME NEW c \in Callers, NEW a \in Admins, NEW u \in Types, OfferDirectly(c, a, u)
      PROVE  TypeOK'
  <2>1. UNCHANGED <<pxstate, offered, astate, counted, direct, shut, offers, told, twice, late>>
    BY <1>8 DEF OfferDirectly
  <2>2. PICK plus \in SUBSET Types, minus \in SUBSET Types : Begin(c, "direct", "admin", None, a, plus, minus)
    BY <1>8 DEF OfferDirectly
  <2>3. call' \in [Callers -> Calls] /\ calls' \in 0..MaxCalls
    BY <1>0, <2>2, Begins DEF Goes
  <2> QED BY <1>t, <1>q, <2>1, <2>3
<1>9. ASSUME NEW c \in Callers, CountAtAdmin(c)
      PROVE  TypeOK'
  <2>1. call[c].admin \in Admins /\ call' \in [Callers -> Calls] /\ pxstate' \in [Proxies -> States]
    BY <1>9, AtAdminGoes DEF Goes, States
  <2>2. PICK b \in Admins, plus \in SUBSET Types, minus \in SUBSET Types :
          b = call[c].admin /\ plus = call[c].add /\ minus = call[c].del
    BY <1>0, <2>1, ACall
  <2>3. /\ counted' = [counted EXCEPT ![b] = Count(counted[b], plus, minus)]
        /\ direct' = [direct EXCEPT ![b] = IF call[c].op = "direct" THEN Count(direct[b], plus, minus) ELSE direct[b]]
        /\ UNCHANGED <<offered, astate, shut, offers, told, calls>>
    BY <1>9, <2>2 DEF CountAtAdmin
  <2>4. counted[b] \in Counts /\ direct[b] \in Counts
    BY <1>t
  <2>5. Count(counted[b], plus, minus) \in Counts
    BY <2>4, CountIs
  <2>6. Count(direct[b], plus, minus) \in Counts
    BY <2>4, CountIs
  <2>7. counted' \in [Admins -> Counts] /\ direct' \in [Admins -> Counts]
    BY <1>t, <2>3, <2>4, <2>5, <2>6
  <2>8. /\ twice' = twice \cup (IF astate[b] = "revoked" THEN Gone(counted[b], plus, minus) ELSE {})
        /\ late' = late \cup (IF astate[b] = "revoked" THEN NewlyAdded(counted[b], plus) ELSE {})
                        \cup Unknown(counted[b], plus, minus)
    BY <1>9, <2>2 DEF CountAtAdmin
  <2>9. twice' \in SUBSET Types /\ late' \in SUBSET Types
    BY <1>t, <2>8 DEF Gone, NewlyAdded, Unknown
  <2> QED BY <1>t, <1>q, <2>1, <2>3, <2>7, <2>9
<1>10. ASSUME NEW c \in Callers, CountAtChannel(c)
       PROVE  TypeOK'
  <2> DEFINE plus == call[c].add
             minus == call[c].del
  <2>1. UNCHANGED <<offered, astate, counted, direct, shut, calls, twice>>
    BY <1>10 DEF CountAtChannel
  <2>2. plus \in SUBSET Types /\ minus \in SUBSET Types
    BY <1>0, ACall
  <2>3. call' \in [Callers -> Calls] /\ pxstate' \in [Proxies -> States]
    <3>1. CASE call[c].op = "destroy"
      <4>1. Pass(c, "proxies", {}, {}) /\ pxstate' = pxstate
        BY <1>10, <3>1 DEF CountAtChannel
      <4>2. Goes(c, [op |-> call[c].op, step |-> "proxies", proxy |-> call[c].proxy, admin |-> call[c].admin,
                     add |-> {}, del |-> {}])
        BY <1>0, <4>1, Passes
      <4> QED BY <1>t, <4>1, <4>2 DEF Goes
    <3>2. CASE call[c].op # "destroy"
      <4>1. Return(c)
        BY <1>10, <3>2 DEF CountAtChannel
      <4> QED BY <1>0, <4>1, Returns DEF Goes, States
    <3> QED BY <3>1, <3>2
  <2>4. offers' \in Counts /\ told' \in SUBSET Types /\ late' \in SUBSET Types
    <3>1. CASE shut
      BY <1>10, <1>t, <3>1 DEF CountAtChannel
    <3>2. CASE ~shut
      <4>1. /\ offers' = Count(offers, plus, minus)
            /\ told' = (told \cup NewlyAdded(offers, plus)) \ Gone(offers, plus, minus)
            /\ late' = late \cup Unknown(offers, plus, minus)
        BY <1>10, <3>2 DEF CountAtChannel
      <4>2. late' \in SUBSET Types
        BY <1>t, <2>2, <4>1 DEF Unknown
      <4> HIDE DEF plus, minus
      <4>3. offers \in Counts /\ told \in SUBSET Types
        BY <1>t
      <4>4. Count(offers, plus, minus) \in Counts /\ NewlyAdded(offers, plus) \in SUBSET Types
        BY <2>2, <4>3, CountIs
      <4> QED BY <4>1, <4>2, <4>3, <4>4
    <3> QED BY <3>1, <3>2
  <2> QED BY <1>t, <1>q, <2>1, <2>3, <2>4
<1>11. ASSUME NEW c \in Callers, RevokeAll(c)
       PROVE  TypeOK'
  <2> DEFINE types == {t \in Types : counted[call[c].admin][t] > 0}
  <2>1. /\ astate' = [astate EXCEPT ![call[c].admin] = "revoked"]
        /\ Pass(c, IF types = {} THEN "proxies" ELSE "channel", {}, types)
        /\ UNCHANGED <<pxstate, offered, counted, direct, shut, offers, told, calls, twice, late>>
    BY <1>11 DEF RevokeAll
  <2>2. types \in SUBSET Types /\ (IF types = {} THEN "proxies" ELSE "channel") \in {"channel", "proxies"}
    OBVIOUS
  <2>3. call' \in [Callers -> Calls]
    BY <1>0, <2>1, <2>2, Passes DEF Goes
  <2>4. astate' \in [Admins -> Lives]
    BY <1>t, <2>1 DEF Lives
  <2> QED BY <1>t, <1>q, <2>1, <2>3, <2>4
<1>12. ASSUME NEW c \in Callers, NEW p \in Proxies, Fail(c, p)
       PROVE  TypeOK'
  <2>1. /\ pxstate' = [pxstate EXCEPT ![p] = "Exception"]
        /\ UNCHANGED <<offered, astate, counted, direct, shut, offers, told, twice, late>>
    BY <1>12 DEF Fail
  <2>2. pxstate' \in [Proxies -> States]
    BY <1>t, <2>1 DEF States
  <2>3. call' \in [Callers -> Calls] /\ calls' \in 0..MaxCalls
    <3>1. CASE offered[p] = {}
      BY <1>12, <1>t, <3>1 DEF Fail
    <3>2. CASE offered[p] # {}
      <4>1. Begin(c, "fail", "admin", p, AdminOf[p], {}, offered[p])
        BY <1>12, <3>2 DEF Fail
      <4>2. AdminOf[p] \in Admins /\ offered[p] \in SUBSET Types
        BY <1>t, OffersAssumption
      <4> QED BY <1>0, <4>1, <4>2, Begins DEF Goes
    <3> QED BY <3>1, <3>2
  <2> QED BY <1>t, <1>q, <2>1, <2>2, <2>3
<1>13. ASSUME NEW c \in Callers, NEW p \in Proxies, Disconnect(c, p)
       PROVE  TypeOK'
  <2>1. /\ pxstate' = [pxstate EXCEPT ![p] = "Disconnected"]
        /\ Begin(c, "disconnect", "alone", p, AdminOf[p], {}, {})
        /\ UNCHANGED <<offered, astate, counted, direct, shut, offers, told, late>>
    BY <1>13 DEF Disconnect
  <2>2. pxstate' \in [Proxies -> States]
    BY <1>t, <2>1 DEF States
  <2>3. AdminOf[p] \in Admins
    BY OffersAssumption
  <2>4. call' \in [Callers -> Calls] /\ calls' \in 0..MaxCalls
    <3>1. /\ calls' \in 0..MaxCalls
          /\ Goes(c, [op |-> "disconnect", step |-> "alone", proxy |-> p, admin |-> AdminOf[p], add |-> {}, del |-> {}])
      BY <1>0, <2>1, <2>3, Begins
    <3> QED BY <3>1 DEF Goes
  <2>5. twice' = twice \cup (IF pxstate[p] = "Exception" THEN offered[p] ELSE {})
    BY <1>13 DEF Disconnect
  <2>6. twice' \in SUBSET Types
    BY <1>t, <2>5
  <2> QED BY <1>t, <1>q, <2>1, <2>2, <2>4, <2>6
<1>14. ASSUME NEW c \in Callers, NEW p \in Proxies, NEW plus \in SUBSET Types, NEW minus \in SUBSET Types,
              OfferChange(c, p, plus, minus)
       PROVE  TypeOK'
  <2> DEFINE new == plus \ offered[p]
             old == minus \cap (offered[p] \cup plus)
  <2>1. /\ offered' = [offered EXCEPT ![p] = (@ \cup plus) \ minus]
        /\ Begin(c, "offer", "admin", p, AdminOf[p], new, old)
        /\ UNCHANGED <<pxstate, astate, counted, direct, shut, offers, told, twice, late>>
    BY <1>14 DEF OfferChange
  <2>2. AdminOf[p] \in Admins /\ new \in SUBSET Types /\ old \in SUBSET Types
    BY OffersAssumption
  <2>3. call' \in [Callers -> Calls] /\ calls' \in 0..MaxCalls
    BY <1>0, <2>1, <2>2, Begins DEF Goes
  <2>4. offered' \in [Proxies -> SUBSET Types]
    BY <1>t, <2>1
  <2> QED BY <1>t, <1>q, <2>1, <2>3, <2>4
<1>15. ASSUME NEW c \in Callers, Unregister(c)
       PROVE  TypeOK'
  <2>1. /\ Pass(c, "unregister", {}, {})
        /\ UNCHANGED <<pxstate, offered, astate, counted, direct, shut, offers, told, calls, twice, late>>
    BY <1>15 DEF Unregister
  <2>2. Goes(c, [op |-> call[c].op, step |-> "unregister", proxy |-> call[c].proxy, admin |-> call[c].admin,
                 add |-> {}, del |-> {}])
    BY <1>0, <2>1, Passes
  <2>3. call' \in [Callers -> Calls]
    BY <2>2 DEF Goes
  <2> QED BY <1>t, <1>q, <2>1, <2>3
<1> QED
  BY <1>1, <1>2, <1>3, <1>4, <1>5, <1>6, <1>7, <1>8, <1>9, <1>10, <1>11, <1>12, <1>13, <1>14, <1>15
     DEF Next

--------------------------------------------------------------------------------
(* What calls are about *)

\* Nothing that the other calls rely on changes.
Leaves(c) ==
  \A d \in Callers \ {c} :
    /\ call'[d] = call[d]
    /\ call[d].op = "disconnect" => pxstate'[call[d].proxy] = pxstate[call[d].proxy]
    /\ call[d].op = "destroy" => astate'[call[d].admin] = astate[call[d].admin]
    /\ call[d].op = "direct" => direct'[call[d].admin] = direct[call[d].admin]

LEMMA SaneKept ==
  ASSUME Inv, NEW c \in Callers, Leaves(c), About(c)',
         \A d \in Callers \ {c} : ~SameMatter(call'[c], call[d]),
         \A a \in Admins : astate'[a] \in {"closing", "revoked"} =>
           \/ call'[c].op = "destroy" /\ call'[c].admin = a
           \/ astate[a] \in {"closing", "revoked"} /\ ~(call[c].op = "destroy" /\ call[c].admin = a)
  PROVE  Sane'
<1>1. Sane
  BY DEF Inv
<1>2. ASSUME NEW d \in Callers
      PROVE  About(d)'
  <2>1. CASE d = c
    BY <2>1
  <2>2. CASE d # c
    <3>1. About(d) /\ call'[d] = call[d]
      BY <1>1, <2>2 DEF Sane, Leaves
    <3>2. call[d].op = "disconnect" => pxstate'[call[d].proxy] = pxstate[call[d].proxy]
      BY <2>2 DEF Leaves
    <3>3. call[d].op = "destroy" => astate'[call[d].admin] = astate[call[d].admin]
      BY <2>2 DEF Leaves
    <3>4. call[d].op = "direct" => direct'[call[d].admin] = direct[call[d].admin]
      BY <2>2 DEF Leaves
    <3> QED BY <3>1, <3>2, <3>3, <3>4 DEF About
  <2> QED BY <2>1, <2>2
<1>3. ASSUME NEW d \in Callers, NEW e \in Callers, SameMatter(call'[d], call'[e])
      PROVE  d = e
  <2>1. CASE d # c /\ e # c
    BY <1>1, <1>3, <2>1 DEF Sane, Leaves
  <2>2. CASE d = c /\ e # c
    BY <1>3, <2>2 DEF Leaves
  <2>3. CASE d # c /\ e = c
    <3>1. SameMatter(call'[c], call[d])
      BY <1>3, <2>3 DEF Leaves, SameMatter
    <3> QED BY <2>3, <3>1
  <2> QED BY <2>1, <2>2, <2>3
<1>4. ASSUME NEW a \in Admins, astate'[a] \in {"closing", "revoked"}
      PROVE  \E d \in Callers : call'[d].op = "destroy" /\ call'[d].admin = a
  <2>1. CASE call'[c].op = "destroy" /\ call'[c].admin = a
    BY <2>1
  <2>2. CASE astate[a] \in {"closing", "revoked"} /\ ~(call[c].op = "destroy" /\ call[c].admin = a)
    <3>1. PICK d \in Callers : call[d].op = "destroy" /\ call[d].admin = a
      BY <1>1, <2>2 DEF Sane
    <3>2. d # c /\ call'[d] = call[d]
      BY <2>2, <3>1 DEF Leaves
    <3> QED BY <3>1, <3>2
  <2> QED BY <1>4, <2>1, <2>2
<1> QED BY <1>2, <1>3, <1>4 DEF Sane, SameMatter

LEMMA SaneNext ==
  ASSUME Inv, [Next]_vars
  PROVE  Sane'
<1>0. TypeOK /\ Sane
  BY DEF Inv
<1>a. /\ \A d \in Callers : About(d)
      /\ \A d, e \in Callers : SameMatter(call[d], call[e]) => d = e
  BY <1>0 DEF Sane
<1>1. CASE Shutdown \/ UNCHANGED vars
  <2>1. UNCHANGED <<pxstate, astate, direct, call>>
    BY <1>1 DEF Shutdown, vars
  <2>2. \A d : About(d)' <=> About(d)
    BY <2>1 DEF About
  <2> QED BY <1>0, <2>1, <2>2 DEF Sane, SameMatter
<1>2. ASSUME NEW c \in Callers, NEW p \in Proxies, DisposeProxy(c, p)
      PROVE  Sane'
  <2>1. /\ pxstate[p] \in {"Connected", "Exception"} /\ pxstate' = [pxstate EXCEPT ![p] = "disposed"]
        /\ UNCHANGED <<astate, direct, call>>
    BY <1>2 DEF DisposeProxy
  <2>2. \A q \in Proxies : pxstate[q] = "Disconnected" => pxstate'[q] = "Disconnected"
    BY <1>0, <2>1 DEF TypeOK
  <2>3. \A d \in Callers : About(d)'
    BY <1>a, <2>1, <2>2 DEF About
  <2> QED BY <1>0, <2>1, <2>3 DEF Sane, SameMatter
<1>3. ASSUME NEW c \in Callers, NEW p \in Proxies, NEW plus \in SUBSET Types, NEW minus \in SUBSET Types,
             OfferChange(c, p, plus, minus)
      PROVE  Sane'
  <2> DEFINE new == plus \ offered[p]
             old == minus \cap (offered[p] \cup plus)
             r == [op |-> "offer", step |-> "admin", proxy |-> p, admin |-> AdminOf[p], add |-> new, del |-> old]
  <2>1. Begin(c, "offer", "admin", p, AdminOf[p], new, old) /\ UNCHANGED <<pxstate, astate, direct>>
    BY <1>3 DEF OfferChange
  <2>2. AdminOf[p] \in Admins /\ new \in SUBSET Types /\ old \in SUBSET Types
    BY OffersAssumption
  <2> HIDE DEF new, old
  <2>3. call[c].op = "none" /\ Goes(c, r)
    <3>1. Begin(c, "offer", "admin", p, AdminOf[p], new, old)
      BY <2>1
    <3> QED BY <1>0, <2>2, <3>1, Begins
  <2>4. r.op = "offer" /\ r.step = "admin" /\ r.proxy = p /\ r.admin = AdminOf[p]
    OBVIOUS
  <2> HIDE DEF r
  <2>5. call'[c] = r /\ Leaves(c)
    BY <2>1, <2>3 DEF Goes, Leaves
  <2>6. About(c)'
    BY <2>2, <2>4, <2>5 DEF About
  <2> QED BY <2>1, <2>3, <2>4, <2>5, <2>6, SaneKept DEF SameMatter
<1>4. ASSUME NEW c \in Callers, NEW p \in Proxies, Fail(c, p)
      PROVE  Sane'
  <2>1. pxstate[p] = "Connected" /\ pxstate' = [pxstate EXCEPT ![p] = "Exception"] /\ UNCHANGED <<offered, astate, direct>>
    BY <1>4 DEF Fail
  <2>2. \A q \in Proxies : pxstate[q] = "Disconnected" => pxstate'[q] = pxstate[q]
    BY <1>0, <2>1 DEF TypeOK
  <2>3. CASE offered[p] = {}
    <3>1. call' = call
      BY <1>4, <2>3 DEF Fail
    <3>2. \A d \in Callers : About(d)'
      BY <1>a, <2>1, <2>2, <3>1 DEF About
    <3> QED BY <1>0, <2>1, <3>1, <3>2 DEF Sane, SameMatter
  <2>4. CASE offered[p] # {}
    <3> DEFINE r == [op |-> "fail", step |-> "admin", proxy |-> p, admin |-> AdminOf[p], add |-> {}, del |-> offered[p]]
    <3>1. Begin(c, "fail", "admin", p, AdminOf[p], {}, offered[p])
      BY <1>4, <2>4 DEF Fail
    <3>2. AdminOf[p] \in Admins /\ offered[p] \in SUBSET Types
      BY <1>0, OffersAssumption DEF TypeOK
    <3>3. call[c].op = "none" /\ Goes(c, r)
      BY <1>0, <3>1, <3>2, Begins
    <3>4. r.op = "fail" /\ r.step = "admin" /\ r.proxy = p /\ r.admin = AdminOf[p]
      OBVIOUS
    <3> HIDE DEF r
    <3>5. \A d \in Callers : call[d].op = "disconnect" => pxstate'[call[d].proxy] = pxstate[call[d].proxy]
      BY <1>a, <2>2 DEF About
    <3>6. call'[c] = r /\ Leaves(c)
      BY <2>1, <3>3, <3>5 DEF Goes, Leaves
    <3>7. About(c)'
      BY <3>2, <3>4, <3>6 DEF About
    <3> QED BY <2>1, <3>3, <3>4, <3>6, <3>7, SaneKept DEF SameMatter
  <2> QED BY <2>3, <2>4
<1>5. ASSUME NEW c \in Callers, NEW p \in Proxies, Disconnect(c, p)
      PROVE  Sane'
  <2> DEFINE r == [op |-> "disconnect", step |-> "alone", proxy |-> p, admin |-> AdminOf[p], add |-> {}, del |-> {}]
  <2>1. /\ pxstate[p] \in {"Connected", "Exception"} /\ pxstate' = [pxstate EXCEPT ![p] = "Disconnected"]
        /\ Begin(c, "disconnect", "alone", p, AdminOf[p], {}, {}) /\ UNCHANGED <<astate, direct>>
    BY <1>5 DEF Disconnect
  <2>2. AdminOf[p] \in Admins
    BY OffersAssumption
  <2>3. call[c].op = "none" /\ Goes(c, r)
    <3>1. Begin(c, "disconnect", "alone", p, AdminOf[p], {}, {})
      BY <2>1
    <3> QED BY <1>0, <2>2, <3>1, Begins
  <2>4. r.op = "disconnect" /\ r.step = "alone" /\ r.proxy = p /\ r.admin = AdminOf[p]
    OBVIOUS
  <2> HIDE DEF r
  <2>5. pxstate'[p] = "Disconnected" /\ \A q \in Proxies \ {p} : pxstate'[q] = pxstate[q]
    BY <1>0, <2>1 DEF TypeOK
  <2>6. \A d \in Callers : call[d].op = "disconnect" => call[d].proxy \in Proxies \ {p}
    BY <1>a, <2>1 DEF About
  <2>7. call'[c] = r /\ Leaves(c)
    BY <2>1, <2>3, <2>5, <2>6 DEF Goes, Leaves
  <2>8. About(c)'
    BY <2>2, <2>4, <2>5, <2>7 DEF About
  <2>9. \A d \in Callers \ {c} : ~SameMatter(call'[c], call[d])
    BY <2>4, <2>6, <2>7 DEF SameMatter
  <2> QED BY <2>1, <2>3, <2>7, <2>8, <2>9, SaneKept
<1>6. ASSUME NEW c \in Callers, Revoke(c)
      PROVE  Sane'
  <2> DEFINE r == [op |-> call[c].op, step |-> "admin", proxy |-> call[c].proxy, admin |-> call[c].admin,
                   add |-> {}, del |-> offered[call[c].proxy]]
  <2>1. /\ call[c].step = "alone" /\ call[c].op = "disconnect" /\ Pass(c, "admin", {}, offered[call[c].proxy])
        /\ UNCHANGED <<pxstate, astate, direct>>
    BY <1>6 DEF Revoke
  <2>2. offered[call[c].proxy] \in SUBSET Types
    BY <1>0, <1>a, <2>1 DEF TypeOK, About
  <2>3. Goes(c, r)
    BY <1>0, <2>1, <2>2, Passes
  <2>4. r.op = call[c].op /\ r.step = "admin" /\ r.proxy = call[c].proxy /\ r.admin = call[c].admin
    OBVIOUS
  <2> HIDE DEF r
  <2>5. call'[c] = r /\ Leaves(c)
    BY <2>1, <2>3 DEF Goes, Leaves
  <2>6. About(c)'
    BY <1>a, <2>1, <2>4, <2>5 DEF About
  <2>7. \A d \in Callers \ {c} : ~SameMatter(call'[c], call[d])
    BY <1>a, <2>4, <2>5 DEF SameMatter
  <2> QED BY <2>1, <2>5, <2>6, <2>7, SaneKept
<1>7. ASSUME NEW c \in Callers, Goes(c, Idle), UNCHANGED <<astate, direct>>, call[c].op # "destroy",
             \A p \in Proxies : \/ pxstate'[p] = pxstate[p]
                                \/ call[c].op = "disconnect" /\ call[c].proxy = p
      PROVE  Sane'
  <2>1. call'[c].op = "none" /\ call'[c].step = "idle" /\ \A d \in Callers \ {c} : call'[d] = call[d]
    BY <1>7 DEF Goes, Idle
  <2>2. \A d \in Callers \ {c} : call[d].op = "disconnect" => pxstate'[call[d].proxy] = pxstate[call[d].proxy]
    BY <1>a, <1>7 DEF About, SameMatter
  <2>3. Leaves(c)
    BY <1>7, <2>1, <2>2 DEF Leaves
  <2>4. About(c)'
    BY <2>1 DEF About
  <2> QED BY <1>7, <2>1, <2>3, <2>4, SaneKept DEF SameMatter
<1>8. ASSUME NEW c \in Callers, Refused(c)
      PROVE  Sane'
  <2>1. call[c].step = "admin" /\ Return(c) /\ UNCHANGED <<astate, direct>>
    BY <1>8 DEF Refused
  <2>2. call[c].op # "destroy"
    BY <1>a, <2>1 DEF About
  <2>3. Goes(c, Idle) /\ \A p \in Proxies : \/ pxstate'[p] = pxstate[p]
                                            \/ call[c].op = "disconnect" /\ call[c].proxy = p
    BY <1>0, <2>1, Returns
  <2> QED BY <1>7, <2>1, <2>2, <2>3
<1>9. ASSUME NEW c \in Callers, CountAtChannel(c)
      PROVE  Sane'
  <2>1. call[c].step = "channel" /\ UNCHANGED <<astate, direct>>
    BY <1>9 DEF CountAtChannel
  <2>2. CASE call[c].op = "destroy"
    <3> DEFINE r == [op |-> call[c].op, step |-> "proxies", proxy |-> call[c].proxy, admin |-> call[c].admin,
                     add |-> {}, del |-> {}]
    <3>1. Pass(c, "proxies", {}, {}) /\ UNCHANGED pxstate
      BY <1>9, <2>2 DEF CountAtChannel
    <3>2. Goes(c, r)
      BY <1>0, <3>1, Passes
    <3>3. r.op = "destroy" /\ r.step = "proxies" /\ r.admin = call[c].admin
      BY <2>2
    <3> HIDE DEF r
    <3>4. call'[c] = r /\ Leaves(c)
      BY <2>1, <3>1, <3>2 DEF Goes, Leaves
    <3>5. About(c)'
      BY <1>a, <2>1, <2>2, <3>3, <3>4 DEF About
    <3>6. \A d \in Callers \ {c} : ~SameMatter(call'[c], call[d])
      BY <1>a, <2>2, <3>3, <3>4 DEF SameMatter
    <3> QED BY <2>1, <2>2, <3>3, <3>4, <3>5, <3>6, SaneKept
  <2>3. CASE call[c].op # "destroy"
    <3>1. Return(c)
      BY <1>9, <2>3 DEF CountAtChannel
    <3>2. Goes(c, Idle) /\ \A p \in Proxies : \/ pxstate'[p] = pxstate[p]
                                              \/ call[c].op = "disconnect" /\ call[c].proxy = p
      BY <1>0, <3>1, Returns
    <3> QED BY <1>7, <2>1, <2>3, <3>2
  <2> QED BY <2>2, <2>3
<1>10. ASSUME NEW c \in Callers, CountAtAdmin(c)
       PROVE  Sane'
  <2>1. PICK b \in Admins : b = call[c].admin
    BY <1>10, AtAdminGoes
  <2>2. PICK r \in Calls :
          /\ Goes(c, r) /\ r.step \in {"idle", "channel"}
          /\ r.step = "channel" => r.op = call[c].op /\ r.admin = b /\ r.proxy = call[c].proxy
          /\ r.step = "idle" => r.op = "none"
    BY <1>10, <2>1, AtAdminGoes
  <2>3. /\ call[c].step = "admin" /\ call[c].op \in {"offer", "fail", "disconnect", "direct"}
        /\ \A p \in Proxies : \/ pxstate'[p] = pxstate[p]
                              \/ call[c].op = "disconnect" /\ call[c].proxy = p /\ call'[c].op = "none"
    BY <1>10, AtAdminGoes
  <2>4. /\ direct' = [direct EXCEPT ![b] = IF call[c].op = "direct" THEN Count(@, call[c].add, call[c].del) ELSE @]
        /\ astate' = astate
    BY <1>10, <2>1 DEF CountAtAdmin
  <2>5. \A a \in Admins : call[c].op # "direct" \/ a # b => direct'[a] = direct[a]
    BY <1>0, <2>4 DEF TypeOK
  <2>6. call'[c] = r /\ \A d \in Callers \ {c} : call'[d] = call[d]
    BY <2>2 DEF Goes
  <2>7. \A d \in Callers \ {c} : call[d].op = "disconnect" => pxstate'[call[d].proxy] = pxstate[call[d].proxy]
    BY <1>a, <2>3 DEF About, SameMatter
  <2>8. \A d \in Callers \ {c} : call[d].op = "direct" => direct'[call[d].admin] = direct[call[d].admin]
    BY <1>a, <2>1, <2>5 DEF About, SameMatter
  <2>9. Leaves(c)
    BY <2>4, <2>6, <2>7, <2>8 DEF Leaves
  <2>10. About(c)'
    <3>1. CASE r.step = "idle"
      BY <2>2, <2>6, <3>1 DEF About
    <3>2. CASE r.step = "channel"
      <4>1. r.op = call[c].op /\ r.admin = call[c].admin /\ r.proxy = call[c].proxy /\ r.op # "none"
        BY <2>1, <2>2, <2>3, <3>2
      <4>2. call[c].op = "disconnect" => pxstate'[call[c].proxy] = pxstate[call[c].proxy]
        BY <1>a, <2>3, <2>6, <4>1 DEF About
      <4> QED BY <1>a, <2>3, <2>6, <3>2, <4>1, <4>2 DEF About
    <3> QED BY <2>2, <3>1, <3>2
  <2>11. \A d \in Callers \ {c} : ~SameMatter(call'[c], call[d])
    BY <1>a, <2>1, <2>2, <2>6 DEF SameMatter
  <2> QED BY <2>3, <2>4, <2>9, <2>10, <2>11, SaneKept
<1>11. ASSUME NEW c \in Callers, RevokeAll(c)
       PROVE  Sane'
  <2>1. call[c].step = "unregister" /\ call[c].op = "destroy"
    BY <1>11, <1>a DEF RevokeAll, About
  <2>2. PICK b \in Admins : b = call[c].admin
    BY <1>a, <2>1 DEF About
  <2> DEFINE types == {t \in Types : counted[b][t] > 0}
             step == IF types = {} THEN "proxies" ELSE "channel"
             r == [op |-> call[c].op, step |-> step, proxy |-> call[c].proxy, admin |-> call[c].admin,
                   add |-> {}, del |-> types]
  <2>3. /\ astate' = [astate EXCEPT ![b] = "revoked"] /\ Pass(c, step, {}, types)
        /\ UNCHANGED <<pxstate, direct>>
    BY <1>11, <2>2 DEF RevokeAll
  <2>4. Goes(c, r)
    BY <1>0, <2>3, Passes
  <2>5. r.step \in {"proxies", "channel"} /\ r.op = "destroy" /\ r.admin = b
    BY <2>1, <2>2
  <2>6. astate'[b] = "revoked" /\ \A a \in Admins \ {b} : astate'[a] = astate[a]
    BY <1>0, <2>3 DEF TypeOK
  <2> HIDE DEF r, step, types
  <2>7. call'[c] = r /\ \A d \in Callers \ {c} : call'[d] = call[d]
    BY <2>4 DEF Goes
  <2>8. \A d \in Callers \ {c} : ~SameMatter(call'[c], call[d])
    BY <1>a, <2>1, <2>2, <2>5, <2>7 DEF SameMatter
  <2>9. \A d \in Callers \ {c} : call[d].op = "destroy" => call[d].admin \in Admins \ {b}
    BY <1>a, <2>5, <2>7, <2>8 DEF About, SameMatter
  <2>10. Leaves(c)
    BY <2>3, <2>6, <2>7, <2>9 DEF Leaves
  <2>11. About(c)'
    BY <2>5, <2>6, <2>7 DEF About
  <2> QED BY <2>2, <2>5, <2>6, <2>7, <2>8, <2>10, <2>11, SaneKept
<1>12. ASSUME NEW c \in Callers, DisposeAdmin(c)
       PROVE  Sane'
  <2>1. call[c].step = "proxies" /\ call' = [call EXCEPT ![c] = Idle] /\ UNCHANGED <<pxstate, direct>>
    BY <1>12 DEF DisposeAdmin
  <2>2. call[c].op = "destroy"
    BY <1>a, <2>1 DEF About
  <2>3. PICK b \in Admins : b = call[c].admin
    BY <1>a, <2>2 DEF About
  <2>4. astate' = [astate EXCEPT ![b] = "gone"]
    BY <1>12, <2>3 DEF DisposeAdmin
  <2>5. astate'[b] = "gone" /\ \A a \in Admins \ {b} : astate'[a] = astate[a]
    BY <1>0, <2>4 DEF TypeOK
  <2>6. Goes(c, Idle)
    BY <1>0, <2>1, Ends
  <2>7. call'[c].op = "none" /\ call'[c].step = "idle" /\ \A d \in Callers \ {c} : call'[d] = call[d]
    BY <2>6 DEF Goes, Idle
  <2>8. \A d \in Callers \ {c} : call[d].op = "destroy" => call[d].admin \in Admins \ {b}
    BY <1>a, <2>2, <2>3 DEF About, SameMatter
  <2>9. Leaves(c)
    BY <2>1, <2>5, <2>7, <2>8 DEF Leaves
  <2>10. About(c)'
    BY <2>7 DEF About
  <2>11. \A d \in Callers \ {c} : ~SameMatter(call'[c], call[d])
    BY <2>7 DEF SameMatter
  <2>12. ASSUME NEW a \in Admins, astate'[a] \in {"closing", "revoked"}
         PROVE  astate[a] \in {"closing", "revoked"} /\ ~(call[c].op = "destroy" /\ call[c].admin = a)
    BY <2>3, <2>5, <2>12
  <2> QED BY <2>9, <2>10, <2>11, <2>12, SaneKept
<1>13. ASSUME NEW c \in Callers, NEW b \in Admins, DestroyAdmin(c, b)
       PROVE  Sane'
  <2> DEFINE r == [op |-> "destroy", step |-> "alone", proxy |-> None, admin |-> b, add |-> {}, del |-> {}]
  <2>1. /\ astate[b] = "live" /\ astate' = [astate EXCEPT ![b] = "closing"]
        /\ Begin(c, "destroy", "alone", None, b, {}, {}) /\ UNCHANGED <<pxstate, direct>>
    BY <1>13 DEF DestroyAdmin
  <2>2. call[c].op = "none" /\ Goes(c, r)
    BY <1>0, <2>1, Begins
  <2>3. r.op = "destroy" /\ r.step = "alone" /\ r.admin = b
    OBVIOUS
  <2> HIDE DEF r
  <2>4. astate'[b] = "closing" /\ \A a \in Admins \ {b} : astate'[a] = astate[a]
    BY <1>0, <2>1 DEF TypeOK
  <2>5. \A d \in Callers : call[d].op = "destroy" => call[d].admin \in Admins \ {b}
    BY <1>a, <2>1 DEF About
  <2>6. call'[c] = r /\ Leaves(c)
    BY <2>1, <2>2, <2>4, <2>5 DEF Goes, Leaves
  <2>7. About(c)'
    BY <2>3, <2>4, <2>6 DEF About
  <2>8. \A d \in Callers \ {c} : ~SameMatter(call'[c], call[d])
    BY <2>3, <2>5, <2>6 DEF SameMatter
  <2> QED BY <2>2, <2>3, <2>4, <2>6, <2>7, <2>8, SaneKept
<1>14. ASSUME NEW c \in Callers, NEW b \in Admins, NEW u \in Types, OfferDirectly(c, b, u)
       PROVE  Sane'
  <2>1. /\ \A d \in Callers : ~(call[d].op = "direct" /\ call[d].admin = b)
        /\ UNCHANGED <<pxstate, astate, direct>>
    BY <1>14 DEF OfferDirectly
  <2>2. PICK plus \in SUBSET Types, minus \in SUBSET Types :
          /\ Begin(c, "direct", "admin", None, b, plus, minus)
          /\ plus \cap minus = {} /\ \A t \in minus : direct[b][t] > 0
    <3>1. CASE Begin(c, "direct", "admin", None, b, {u}, {})
      BY <3>1
    <3>2. CASE direct[b][u] > 0 /\ Begin(c, "direct", "admin", None, b, {}, {u})
      BY <3>2
    <3> QED BY <1>14, <3>1, <3>2 DEF OfferDirectly
  <2> DEFINE r == [op |-> "direct", step |-> "admin", proxy |-> None, admin |-> b, add |-> plus, del |-> minus]
  <2>3. call[c].op = "none" /\ Goes(c, r)
    BY <1>0, <2>2, Begins
  <2>4. r.op = "direct" /\ r.step = "admin" /\ r.admin = b /\ r.add = plus /\ r.del = minus
    OBVIOUS
  <2> HIDE DEF r
  <2>5. call'[c] = r /\ Leaves(c)
    BY <2>1, <2>3 DEF Goes, Leaves
  <2>6. About(c)'
    BY <2>1, <2>2, <2>4, <2>5 DEF About
  <2>7. \A d \in Callers \ {c} : ~SameMatter(call'[c], call[d])
    BY <2>1, <2>4, <2>5 DEF SameMatter
  <2> QED BY <2>1, <2>3, <2>5, <2>6, <2>7, SaneKept
<1>15. ASSUME NEW c \in Callers, Unregister(c)
       PROVE  Sane'
  <2>1. /\ call[c].step = "alone" /\ call[c].op = "destroy" /\ Pass(c, "unregister", {}, {})
        /\ UNCHANGED <<pxstate, astate, direct>>
    BY <1>15 DEF Unregister
  <2>2. PICK b \in Admins : b = call[c].admin /\ astate[b] = "closing"
    BY <1>a, <2>1 DEF About
  <2> DEFINE r == [op |-> call[c].op, step |-> "unregister", proxy |-> call[c].proxy, admin |-> call[c].admin,
                   add |-> {}, del |-> {}]
  <2>3. Goes(c, r)
    BY <1>0, <2>1, Passes
  <2>4. r.step = "unregister" /\ r.op = "destroy" /\ r.admin = b
    BY <2>1, <2>2
  <2> HIDE DEF r
  <2>5. call'[c] = r /\ \A d \in Callers \ {c} : call'[d] = call[d]
    BY <2>3 DEF Goes
  <2>6. \A d \in Callers \ {c} : ~SameMatter(call'[c], call[d])
    BY <1>a, <2>1, <2>2, <2>4, <2>5 DEF SameMatter
  <2>7. Leaves(c)
    BY <2>1, <2>5 DEF Leaves
  <2>8. About(c)'
    BY <2>1, <2>2, <2>4, <2>5 DEF About
  <2> QED BY <2>1, <2>2, <2>4, <2>5, <2>6, <2>7, <2>8, SaneKept
<1> QED
  BY <1>1, <1>2, <1>3, <1>4, <1>5, <1>6, <1>8, <1>9, <1>10, <1>11, <1>12, <1>13, <1>14, <1>15 DEF
     Next

--------------------------------------------------------------------------------
(* The theorems *)

LEMMA InvInit == Init => Inv
<1> SUFFICES ASSUME Init
             PROVE  Inv
  OBVIOUS
<1>1. Zero \in Counts /\ \A t \in Types : Zero[t] = 0
  BY DEF Zero, Counts
<1>2. Idle \in Calls /\ Idle.op = "none" /\ Idle.step = "idle"
  BY DEF Idle, Calls
<1>3. TypeOK
  <2>1. call \in [Callers -> Calls]
    BY <1>2 DEF Init
  <2>2. 0 \in 0..MaxCalls
    BY OffersAssumption
  <2> QED BY <1>1, <2>1, <2>2 DEF Init, TypeOK, Calls
<1>4. \A c \in Callers : call[c].op = "none" /\ call[c].step = "idle"
  BY <1>2 DEF Init
<1>5. Sane
  BY <1>4 DEF Init, Sane, About, SameMatter
<1>6. AdminsExact
  <2> SUFFICES ASSUME NEW a \in Admins, NEW t \in Types
               PROVE  AtAdmin(a, t)
    BY DEF AdminsExact
  <2>1. Adding(a, t) = {} /\ Deleting(a, t) = {}
    BY <1>4 DEF Adding, Deleting, AddsAt, DelsAt
  <2>2. Offering(a, t) = {}
    BY DEF Init, Offering, IsOffering
  <2>3. counted[a][t] = 0 /\ direct[a][t] = 0
    BY <1>1 DEF Init
  <2> QED BY <2>1, <2>2, <2>3, FS_EmptySet DEF AtAdmin
<1>7. ChannelExact
  <2> SUFFICES ASSUME NEW t \in Types
               PROVE  AtChannel(t)
    BY DEF ChannelExact
  <2>1. ToAdd(t) = {} /\ ToDel(t) = {}
    BY <1>4 DEF ToAdd, ToDel, AddsOn, DelsOn
  <2>2. Having(t) = {} /\ offers[t] = 0
    BY <1>1 DEF Init, Having, IsCounting
  <2> QED BY <2>1, <2>2, FS_EmptySet DEF AtChannel
<1>8. ToldExact
  BY <1>1 DEF Init, ToldExact
<1> QED BY <1>3, <1>5, <1>6, <1>7, <1>8 DEF Inv

\* The inductive invariant: an admin counts what its proxies and its client offer,
\* less what is still on its way to be added, more what is on its way to be taken off,
\* and the channel counts the admins in the same way.
THEOREM Invariance == Spec => []Inv
<1>1. Inv /\ [Next]_vars => Inv'
  BY TypesNext, SaneNext, CountsNext DEF Inv
<1> QED BY InvInit, <1>1, PTL DEF Spec

\* For any number of admins, proxies, callers and types the variables keep their types.
THEOREM TypeCorrect == Spec => []TypeOK
<1>1. Inv => TypeOK
  BY DEF Inv
<1> QED BY <1>1, Invariance, PTL

\* With no call on its way a type is offered at an admin exactly if the admin counts
\* it, or only if offers came late.
LEMMA QuietAtAdmin ==
  ASSUME Inv, Quiet, NEW a \in Admins, NEW t \in Types \ twice
  PROVE  /\ t \in OfferedAt(a) => t \in Types /\ a \in Having(t)
         /\ t \notin late /\ a \in Having(t) => t \in OfferedAt(a)
<1>1. TypeOK /\ Sane /\ AdminsExact
  BY DEF Inv
<1>2. \A c \in Callers : call[c].step = "idle" /\ call[c].op = "none"
  BY <1>1 DEF Quiet, Sane, About
<1>3. astate[a] \in {"live", "gone"}
  <2>1. astate[a] \in {"live", "closing", "revoked", "gone"}
    BY <1>1 DEF TypeOK
  <2> QED BY <1>1, <1>2, <2>1 DEF Sane
<1>4. Adding(a, t) = {} /\ Deleting(a, t) = {}
  BY <1>2 DEF Adding, Deleting, AddsAt, DelsAt
<1>5. Cardinality(Adding(a, t)) = 0 /\ Cardinality(Deleting(a, t)) = 0
  BY <1>4, FS_EmptySet
<1>6. CASE astate[a] = "gone"
  BY <1>6 DEF OfferedAt, Having, IsCounting, Counting
<1>7. CASE astate[a] = "live"
  <2>1. AtAdmin(a, t)
    BY <1>1, <1>7 DEF AdminsExact, Counting
  <2>2. counted[a][t] >= direct[a][t] + Cardinality(Offering(a, t))
        /\ (t \notin late => counted[a][t] = direct[a][t] + Cardinality(Offering(a, t)))
    BY <1>1, <1>5, <2>1, Numbers DEF AtAdmin
  <2>3. Offering(a, t) \in SUBSET Proxies /\ IsFiniteSet(Offering(a, t))
    BY OffersAssumption, FS_Subset DEF Offering
  <2>4. Cardinality(Offering(a, t)) > 0 <=> Offering(a, t) # {}
    BY <1>1, <2>3, Numbers, FS_EmptySet
  <2>5. t \in OfferedAt(a) <=> direct[a][t] > 0 \/ Offering(a, t) # {}
    BY <1>7 DEF OfferedAt, Offering, IsOffering
  <2>6. a \in Having(t) <=> counted[a][t] > 0
    BY <1>7 DEF Having, IsCounting, Counting
  <2> QED BY <1>1, <2>2, <2>4, <2>5, <2>6, Numbers
<1> QED BY <1>3, <1>6, <1>7

LEMMA QuietAtChannel ==
  ASSUME Inv, Quiet, NEW t \in Types \ twice
  PROVE  /\ offers[t] >= Cardinality(Having(t))
         /\ t \notin late => offers[t] = Cardinality(Having(t))
<1>1. TypeOK /\ ChannelExact
  BY DEF Inv
<1>2. ToAdd(t) = {} /\ ToDel(t) = {}
  BY DEF Quiet, ToAdd, ToDel, AddsOn, DelsOn
<1>3. Cardinality(ToAdd(t)) = 0 /\ Cardinality(ToDel(t)) = 0
  BY <1>2, FS_EmptySet
<1>4. AtChannel(t)
  BY <1>1 DEF ChannelExact, Quiet
<1>5. offers[t] \in Nat
  BY <1>1 DEF TypeOK, Counts
<1> QED BY <1>3, <1>4, <1>5, ChannelNumbers DEF AtChannel

\* However calls of proxies and admins overtake each other, and whatever came late, no
\* type that is offered is missing at the clients. Excepted are the types of which the
\* code has taken the same offer back twice, by a failure and the disconnect after it,
\* or by an admin that is destroyed and a proxy of it that went on.
THEOREM OffersKept == Spec => []NoOfferLost
<1>1. Inv => NoOfferLost
  <2> SUFFICES ASSUME Inv, Quiet, NEW a \in Admins, NEW t \in OfferedAt(a), t \notin twice
               PROVE  t \in told
    BY DEF NoOfferLost
  <2>1. t \in Types
    BY DEF OfferedAt
  <2>2. a \in Having(t)
    BY <2>1, QuietAtAdmin
  <2>3. Having(t) \in SUBSET Admins /\ IsFiniteSet(Having(t))
    BY OffersAssumption, FS_Subset DEF Having
  <2>4. Cardinality(Having(t)) > 0
    BY <2>1, <2>2, <2>3, ChannelNumbers, FS_EmptySet
  <2>5. offers[t] \in Nat
    BY <2>1 DEF Inv, TypeOK, Counts
  <2>6. offers[t] > 0
    BY <2>1, <2>4, <2>5, QuietAtChannel, ChannelNumbers
  <2> QED BY <2>1, <2>6 DEF Inv, ToldExact
<1> QED BY <1>1, Invariance, PTL

\* What the clients were told is at any time what the channel counts, and with no call
\* on its way the channel counts exactly the admins at which a type is offered, but for
\* the types excepted above and those a call has brought back after they were revoked.
THEOREM OffersCounted == Spec => []OffersExact
<1>1. Inv => OffersExact
  <2> SUFFICES ASSUME Inv
               PROVE  OffersExact
    OBVIOUS
  <2>1. told = {t \in Types : offers[t] > 0}
    BY DEF Inv, ToldExact
  <2>2. ASSUME Quiet, NEW t \in Types \ (twice \cup late)
        PROVE  offers[t] = Cardinality({a \in Admins : t \in OfferedAt(a)})
    <3>1. \A a \in Admins : a \in Having(t) <=> t \in OfferedAt(a)
      BY <2>2, QuietAtAdmin
    <3>2. Having(t) = {a \in Admins : t \in OfferedAt(a)}
      BY <3>1 DEF Having
    <3>3. offers[t] = Cardinality(Having(t))
      BY <2>2, QuietAtChannel
    <3> QED BY <3>2, <3>3
  <2> QED BY <2>1, <2>2 DEF OffersExact
<1> QED BY <1>1, Invariance, PTL

================================================================================
