----------------------------- MODULE OplocksProofs -----------------------------
(***************************************************************************)
(* What holds of lock entries for any number of threads, objects and       *)
(* entries.                                                                *)
(***************************************************************************)
EXTENDS Oplocks, FiniteSetTheorems, TLAPS

--------------------------------------------------------------------------------
(* The inductive invariant *)

\* What a thread has in hand at each step; one that looks for an entry holds
\* the static lock, and its object has no entry yet.
Where ==
  \A t \in Threads :
    /\ pc[t] = "idle" => obj[t] = None /\ ent[t] = None
    /\ pc[t] = "called" => obj[t] \in Objects /\ ent[t] = None
    /\ Inside(t) \/ pc[t] = "acquire" => obj[t] \in Objects /\ ent[t] \in Entries
    /\ pc[t] = "scan" => listlock = t
    /\ listlock = t => /\ obj[t] \in Objects /\ ent[t] \in (Entries \cup {Head}) \ unused
                       /\ life[obj[t]] = "unborn"
                       /\ pc[t] # "scan" => pc[t] \in Unlinking /\ ent[t] # Head
    /\ counted[t] => pc[t] \in {"wait", "woken"}

\* What is taken off the free list can be reused until it is.
Claimed == \A t \in Threads : listlock = t /\ pc[t] # "scan" => Reusable(ent[t])

Locked == \A t \in Threads : pc[t] \in Holding => lock[ent[t]] = t

\* An entry is that of one object, and of one that has not been disposed of.
Owners ==
  \A e \in Entries : ptr[e] # None =>
    /\ life[ptr[e]] \in {"live", "closing"}
    /\ \A f \in Entries : ptr[f] = ptr[e] => f = e

\* The links of the free list do not lead to entries the heap still has.
Apart ==
  /\ \A e \in unused : ptr[e] = None /\ nextp[e] = e /\ prevp[e] = e
  /\ \A e \in (Entries \cup {Head}) \ unused : nextp[e] \notin unused /\ prevp[e] \notin unused

Inv == TypeOK /\ Where /\ Claimed /\ Locked /\ Owners /\ Apart /\ InsideOwns /\ InUseExact

--------------------------------------------------------------------------------

LEMMA ExceptBool ==
  ASSUME NEW S, NEW f \in [S -> BOOLEAN], NEW x \in S, NEW v \in BOOLEAN
  PROVE  [f EXCEPT ![x] = v] \in [S -> BOOLEAN]
OBVIOUS

Users(e) == {t \in Threads : ent[t] = e /\ pc[t] \in Bumped}
Sleepers(e) == {t \in Threads : ent[t] = e /\ counted[t]}

LEMMA Counted ==
  ASSUME NEW S \in SUBSET Threads, NEW t \in Threads
  PROVE  /\ Cardinality(S) \in Nat
         /\ t \notin S => Cardinality(S \cup {t}) = Cardinality(S) + 1
         /\ t \in S => Cardinality(S) > 0 /\ Cardinality(S \ {t}) = Cardinality(S) - 1
<1>1. IsFiniteSet(S) /\ Cardinality(S) \in Nat
  BY OplockAssumption, FS_Subset, FS_CardinalityType
<1>2. t \in S => Cardinality(S) # 0
  BY <1>1, FS_EmptySet
<1>3. Cardinality(S \cup {t}) = IF t \in S THEN Cardinality(S) ELSE Cardinality(S) + 1
  BY <1>1, FS_AddElement
<1>4. Cardinality(S \ {t}) = IF t \in S THEN Cardinality(S) - 1 ELSE Cardinality(S)
  BY <1>1, FS_RemoveElement
<1> QED
  BY <1>1, <1>2, <1>3, <1>4

\* An entry nobody counts on.
LEMMA NotCounted ==
  ASSUME Inv, NEW e \in Entries
  PROVE  inuse[e] = 0 <=> Users(e) = {}
<1>1. inuse[e] = Cardinality(Users(e)) + Cardinality(Sleepers(e))
  BY DEF Inv, InUseExact, Users, Sleepers
<1>2. Sleepers(e) \subseteq Users(e)
  BY DEF Inv, Where, Users, Sleepers, Bumped, Waiting
<1>3. IsFiniteSet(Users(e)) /\ IsFiniteSet(Sleepers(e))
  BY OplockAssumption, FS_Subset DEF Users, Sleepers
<1>4. Cardinality(Users(e)) \in Nat /\ Cardinality(Sleepers(e)) \in Nat
  BY <1>3, FS_CardinalityType
<1>5. Cardinality(Users(e)) = 0 <=> Users(e) = {}
  BY <1>3, FS_EmptySet
<1>6. Users(e) = {} => Cardinality(Sleepers(e)) = 0
  BY <1>2, FS_EmptySet
<1> QED
  BY <1>1, <1>4, <1>5, <1>6

LEMMA InUsePositive ==
  ASSUME Inv, NEW t \in Threads, pc[t] \in Bumped
  PROVE  ent[t] \in Entries /\ inuse[ent[t]] \in Nat \ {0}
<1>1. ent[t] \in Entries /\ t \in Users(ent[t])
  BY DEF Inv, Where, Inside, Users
<1> QED
  BY <1>1, NotCounted DEF Inv, TypeOK

\* An entry that may be given to another object is in nobody's hands.
LEMMA Forsaken ==
  ASSUME Inv, NEW e \in Entries,
         ptr[e] = None \/ (inuse[e] = 0 /\ lock[e] \in {None, listlock})
  PROVE  inuse[e] = 0 /\ \A u \in Threads : Inside(u) => ent[u] # e
<1>1. ASSUME ptr[e] = None, NEW u \in Threads, Inside(u) PROVE ent[u] # e
  <2>1. ptr[ent[u]] = obj[u] /\ obj[u] \in Objects
    BY <1>1 DEF Inv, Where, InsideOwns, Mine
  <2> QED
    BY <1>1, <2>1, OplockAssumption
<1>2. ASSUME inuse[e] = 0, lock[e] \in {None, listlock}, NEW u \in Threads, Inside(u)
      PROVE  ent[u] # e
  <2>1. pc[u] \in Bumped => ent[u] # e
    BY <1>2, NotCounted DEF Users
  <2>2. pc[u] \notin Bumped => lock[ent[u]] = u /\ listlock # u
    BY <1>2 DEF Inv, Locked, Inside
  <2> QED
    BY <1>2, <2>1, <2>2, OplockAssumption
<1>3. ptr[e] = None => inuse[e] = 0
  BY <1>1, NotCounted DEF Users, Inside
<1> QED
  BY <1>1, <1>2, <1>3

\* The entry of a thread inside an object has an owner, so it is not unused.
LEMMA Owned ==
  ASSUME Inv, NEW t \in Threads, Inside(t)
  PROVE  /\ ent[t] \in Entries \ unused /\ obj[t] \in Objects
         /\ ptr[ent[t]] = obj[t] /\ life[obj[t]] \in {"live", "closing"}
<1>1. ent[t] \in Entries /\ obj[t] \in Objects
  BY DEF Inv, Where
<1>2. ptr[ent[t]] = obj[t] /\ life[obj[t]] \in {"live", "closing"}
  BY DEF Inv, InsideOwns, Mine, Inside
<1> QED
  BY <1>1, <1>2, OplockAssumption DEF Inv, Apart

\* What a thread takes off the free list, or puts on it, the heap has given.
LEMMA Given ==
  ASSUME Inv, NEW t \in Threads, pc[t] \in Unlinking \cup Linking
  PROVE  /\ ent[t] \in Entries \ unused /\ lock[ent[t]] = t
         /\ pc[t] \in Linking => listlock # t
<1>1. Inside(t) \/ listlock = t
  BY DEF Inside, Holding
<1>2. pc[t] \in Linking => listlock # t
  BY DEF Inv, Where, Linking, Unlinking
<1>3. lock[ent[t]] = t
  BY DEF Inv, Locked, Holding
<1>4. listlock = t => ent[t] \in Entries \ unused
  BY DEF Inv, Where, Linking, Unlinking
<1> QED
  BY <1>1, <1>2, <1>3, <1>4, Owned

\* Links that do not lead to what the heap still has.
Linked(next, prev) ==
  /\ next \in [Entries \cup {Head} -> Entries \cup {Head}]
  /\ prev \in [Entries \cup {Head} -> Entries \cup {Head}]
  /\ \A e \in unused : next[e] = e /\ prev[e] = e
  /\ \A e \in (Entries \cup {Head}) \ unused : next[e] \notin unused /\ prev[e] \notin unused

\* A store of one entry of the list into another keeps them apart.
LEMMA LinkedAfter ==
  ASSUME Inv, NEW e \in (Entries \cup {Head}) \ unused, NEW f \in (Entries \cup {Head}) \ unused,
         SetNext(e, f) \/ SetPrev(e, f)
  PROVE  Linked(nextp', prevp')
<1>1. /\ nextp \in [Entries \cup {Head} -> Entries \cup {Head}]
      /\ prevp \in [Entries \cup {Head} -> Entries \cup {Head}]
      /\ unused \subseteq Entries
  BY DEF Inv, TypeOK
<1>2. CASE SetNext(e, f)
  BY <1>1, <1>2 DEF SetNext, Linked, Inv, Apart
<1>3. CASE SetPrev(e, f)
  BY <1>1, <1>3 DEF SetPrev, Linked, Inv, Apart
<1> QED
  BY <1>2, <1>3

\* With a count of zero the thread that holds the lock is the only one left.
LEMMA OthersOut ==
  ASSUME Inv, NEW t \in Threads, ent[t] \in Entries, lock[ent[t]] = t, inuse[ent[t]] = 0,
         NEW u \in Threads, u # t, Inside(u)
  PROVE  ent[u] # ent[t]
<1>1. pc[u] \in Bumped => ent[u] # ent[t]
  BY NotCounted DEF Users
<1>2. pc[u] \notin Bumped => lock[ent[u]] = u
  BY DEF Inv, Locked, Inside
<1> QED
  BY <1>1, <1>2

\* A step of a thread leaves an entry another one has locked as it is.
LEMMA ClaimKept ==
  ASSUME Inv, NEW t \in Threads, listlock # t, listlock' = listlock,
         \A u \in Threads \ {t} : ent'[u] = ent[u] /\ (pc[u] = "scan" => pc'[u] = "scan"),
         \A e \in Entries : lock[e] \notin {None, t} =>
           ptr'[e] = ptr[e] /\ inuse'[e] = inuse[e] /\ disposed'[e] = disposed[e]
  PROVE  Claimed'
<1> SUFFICES ASSUME NEW u \in Threads, listlock = u, pc'[u] # "scan"
             PROVE  Reusable(ent[u])'
  BY DEF Claimed
<1>1. u # t /\ pc[u] \in Unlinking /\ ent[u] \in Entries /\ ent'[u] = ent[u]
  BY DEF Inv, Where
<1>2. lock[ent[u]] = u /\ Reusable(ent[u])
  BY <1>1 DEF Inv, Locked, Claimed, Holding, Unlinking
<1> QED
  BY <1>1, <1>2, OplockAssumption DEF Reusable

LEMMA CallKeeps ==
  ASSUME Inv, NEW t \in Threads, NEW o \in Objects, Call(t, o)
  PROVE  Inv'
<1> USE OplockAssumption
<1>1. TypeOK'
  BY SMT, ExceptBool DEF Inv, TypeOK, Where, Call, Goto, entryVars, listVars, Step, Holding,
     Unlinking, Linking, Bumped, Waiting, Inside
<1>2. Where'
  BY DEF Inv, TypeOK, Where, Call, Goto, entryVars, listVars, Step, Holding, Unlinking, Linking,
     Bumped, Waiting, Inside
<1>3. Locked'
  BY DEF Inv, TypeOK, Where, Locked, Call, Goto, entryVars, listVars, Step, Holding, Unlinking,
     Linking, Bumped, Waiting, Inside
<1>4. Owners'
  BY DEF Inv, TypeOK, Where, Owners, Call, Goto, entryVars, listVars, Step, Holding, Unlinking,
     Linking, Bumped, Waiting, Inside
<1>5. Apart'
  BY DEF Inv, TypeOK, Where, Apart, Call, Goto, entryVars, listVars, Step, Holding, Unlinking,
     Linking, Bumped, Waiting, Inside
<1>6. InsideOwns'
  BY DEF Inv, TypeOK, Where, Locked, Owners, InsideOwns, Mine, Call, Goto, entryVars, listVars,
     Step, Holding, Unlinking, Linking, Bumped, Waiting, Inside
<1>7. InUseExact'
  BY DEF Inv, TypeOK, Where, InUseExact, Call, Goto, entryVars, listVars, Step, Holding, Unlinking,
     Linking, Bumped, Waiting, Inside
<1>8. Claimed'
  BY ClaimKept DEF Inv, TypeOK, Where, Locked, Holding, Unlinking, Bumped, Waiting, Call, Goto,
     entryVars, listVars
<1> QED
  BY <1>1, <1>2, <1>3, <1>4, <1>5, <1>6, <1>7, <1>8 DEF Inv

LEMMA CopyPtrKeeps ==
  ASSUME Inv, NEW t \in Threads, CopyPtr(t)
  PROVE  Inv'
<1> USE OplockAssumption
<1>1. TypeOK'
  <2>1. optr' \in [Objects -> Entries \cup {None}] /\ life' \in [Objects -> {"unborn", "live", "closing", "dead"}]
    BY DEF Inv, TypeOK, Where, CopyPtr, Goto, Leave, entryVars, listVars, Step, Holding, Unlinking,
       Linking, Bumped, Waiting, Inside
  <2>2. ptr' \in [Entries -> Objects \cup {None}]
    BY DEF Inv, TypeOK, Where, CopyPtr, Goto, Leave, entryVars, listVars, Step, Holding, Unlinking,
       Linking, Bumped, Waiting, Inside
  <2>3. inuse' \in [Entries -> Nat]
    BY DEF Inv, TypeOK, Where, CopyPtr, Goto, Leave, entryVars, listVars, Step, Holding, Unlinking,
       Linking, Bumped, Waiting, Inside
  <2>4. disposed' \in [Entries -> BOOLEAN]
    BY DEF Inv, TypeOK, Where, CopyPtr, Goto, Leave, entryVars, listVars, Step, Holding, Unlinking,
       Linking, Bumped, Waiting, Inside
  <2>5. lock' \in [Entries -> Threads \cup {None}] /\ listlock' \in Threads \cup {None}
    BY DEF Inv, TypeOK, Where, CopyPtr, Goto, Leave, entryVars, listVars, Step, Holding, Unlinking,
       Linking, Bumped, Waiting, Inside
  <2>6. /\ nextp' \in [Entries \cup {Head} -> Entries \cup {Head}]
       /\ prevp' \in [Entries \cup {Head} -> Entries \cup {Head}]
       /\ unused' \subseteq Entries
    BY DEF Inv, TypeOK, Where, CopyPtr, Goto, Leave, entryVars, listVars, Step, Holding, Unlinking,
       Linking, Bumped, Waiting, Inside
  <2>7. pc' \in [Threads -> Step]
    BY DEF Inv, TypeOK, Where, CopyPtr, Goto, Leave, entryVars, listVars, Step, Holding, Unlinking,
       Linking, Bumped, Waiting, Inside
  <2>8. obj' \in [Threads -> Objects \cup {None}] /\ ent' \in [Threads -> Entries \cup {None, Head}]
    BY DEF Inv, TypeOK, Where, CopyPtr, Goto, Leave, entryVars, listVars, Step, Holding, Unlinking,
       Linking, Bumped, Waiting, Inside
  <2>9. counted' \in [Threads -> BOOLEAN]
    BY DEF Inv, TypeOK, Where, CopyPtr, Goto, Leave, entryVars, listVars, Step, Holding, Unlinking,
       Linking, Bumped, Waiting, Inside
  <2>10. calls' \in 0..MaxCalls
    BY DEF Inv, TypeOK, Where, CopyPtr, Goto, Leave, entryVars, listVars, Step, Holding, Unlinking,
       Linking, Bumped, Waiting, Inside
  <2> QED
    BY <2>1, <2>2, <2>3, <2>4, <2>5, <2>6, <2>7, <2>8, <2>9, <2>10 DEF TypeOK
<1>2. Where'
  BY DEF Inv, TypeOK, Where, CopyPtr, Goto, Leave, entryVars, listVars, Step, Holding, Unlinking,
     Linking, Bumped, Waiting, Inside
<1>3. Locked'
  BY DEF Inv, TypeOK, Where, Locked, CopyPtr, Goto, Leave, entryVars, listVars, Step, Holding,
     Unlinking, Linking, Bumped, Waiting, Inside
<1>4. Owners'
  BY DEF Inv, TypeOK, Where, Owners, CopyPtr, Goto, Leave, entryVars, listVars, Step, Holding,
     Unlinking, Linking, Bumped, Waiting, Inside
<1>5. Apart'
  BY DEF Inv, TypeOK, Where, Apart, CopyPtr, Goto, Leave, entryVars, listVars, Step, Holding,
     Unlinking, Linking, Bumped, Waiting, Inside
<1>6. InsideOwns'
  BY DEF Inv, TypeOK, Where, Locked, Owners, InsideOwns, Mine, CopyPtr, Goto, Leave, entryVars,
     listVars, Step, Holding, Unlinking, Linking, Bumped, Waiting, Inside
<1>7. InUseExact'
  BY DEF Inv, TypeOK, Where, InUseExact, CopyPtr, Goto, Leave, entryVars, listVars, Step, Holding,
     Unlinking, Linking, Bumped, Waiting, Inside
<1>8. Claimed'
  BY ClaimKept DEF Inv, TypeOK, Where, Locked, Holding, Unlinking, Bumped, Waiting, CopyPtr, Goto,
     Leave, entryVars, listVars
<1> QED
  BY <1>1, <1>2, <1>3, <1>4, <1>5, <1>6, <1>7, <1>8 DEF Inv

LEMMA RefusedKeeps ==
  ASSUME Inv, NEW t \in Threads, Refused(t)
  PROVE  Inv'
<1> USE OplockAssumption
<1>1. TypeOK'
  BY SMT, ExceptBool DEF Inv, TypeOK, Where, Refused, Leave, Goto, Acquirable, Mine, entryVars,
     listVars, Step, Holding, Unlinking, Linking, Bumped, Waiting, Inside
<1>2. Where'
  BY DEF Inv, TypeOK, Where, Refused, Leave, Goto, Acquirable, Mine, entryVars, listVars, Step,
     Holding, Unlinking, Linking, Bumped, Waiting, Inside
<1>3. Locked'
  BY DEF Inv, TypeOK, Where, Locked, Refused, Leave, Goto, Acquirable, Mine, entryVars, listVars,
     Step, Holding, Unlinking, Linking, Bumped, Waiting, Inside
<1>4. Owners'
  BY DEF Inv, TypeOK, Where, Owners, Refused, Leave, Goto, Acquirable, Mine, entryVars, listVars,
     Step, Holding, Unlinking, Linking, Bumped, Waiting, Inside
<1>5. Apart'
  BY DEF Inv, TypeOK, Where, Apart, Refused, Leave, Goto, Acquirable, Mine, entryVars, listVars,
     Step, Holding, Unlinking, Linking, Bumped, Waiting, Inside
<1>6. InsideOwns'
  BY DEF Inv, TypeOK, Where, Locked, Owners, InsideOwns, Mine, Refused, Leave, Goto, Acquirable,
     entryVars, listVars, Step, Holding, Unlinking, Linking, Bumped, Waiting, Inside
<1>7. InUseExact'
  BY DEF Inv, TypeOK, Where, InUseExact, Refused, Leave, Goto, Acquirable, Mine, entryVars,
     listVars, Step, Holding, Unlinking, Linking, Bumped, Waiting, Inside
<1>8. Claimed'
  BY ClaimKept DEF Inv, TypeOK, Where, Locked, Holding, Unlinking, Bumped, Waiting, Refused, Leave,
     Goto, Acquirable, Mine, entryVars, listVars
<1> QED
  BY <1>1, <1>2, <1>3, <1>4, <1>5, <1>6, <1>7, <1>8 DEF Inv

LEMMA AcquireKeeps ==
  ASSUME Inv, NEW t \in Threads, Acquire(t)
  PROVE  Inv'
<1> USE OplockAssumption
<1>1. TypeOK'
  BY SMT, ExceptBool DEF Inv, TypeOK, Where, Acquire, Goto, Take, Bump, Acquirable, Mine, Free,
     entryVars, listVars, Step, Holding, Unlinking, Linking, Bumped, Waiting, Inside
<1>2. Where'
  BY DEF Inv, TypeOK, Where, Acquire, Goto, Take, Bump, Acquirable, Mine, Free, entryVars,
     listVars, Step, Holding, Unlinking, Linking, Bumped, Waiting, Inside
<1>3. Locked'
  BY DEF Inv, TypeOK, Where, Locked, Acquire, Goto, Take, Bump, Acquirable, Mine, Free, entryVars,
     listVars, Step, Holding, Unlinking, Linking, Bumped, Waiting, Inside
<1>4. Owners'
  BY DEF Inv, TypeOK, Where, Owners, Acquire, Goto, Take, Bump, Acquirable, Mine, Free, entryVars,
     listVars, Step, Holding, Unlinking, Linking, Bumped, Waiting, Inside
<1>5. Apart'
  BY DEF Inv, TypeOK, Where, Apart, Acquire, Goto, Take, Bump, Acquirable, Mine, Free, entryVars,
     listVars, Step, Holding, Unlinking, Linking, Bumped, Waiting, Inside
<1>6. InsideOwns'
  BY DEF Inv, TypeOK, Where, Locked, Owners, InsideOwns, Mine, Acquire, Goto, Take, Bump,
     Acquirable, Free, entryVars, listVars, Step, Holding, Unlinking, Linking, Bumped, Waiting,
     Inside
<1>7. InUseExact'
  <2> SUFFICES ASSUME NEW e \in Entries
               PROVE  inuse'[e] = Cardinality(Users(e)') + Cardinality(Sleepers(e)')
    BY DEF InUseExact, Users, Sleepers
  <2>1. inuse[e] = Cardinality(Users(e)) + Cardinality(Sleepers(e))
    BY DEF Inv, InUseExact, Users, Sleepers
  <2>2. Users(e) \in SUBSET Threads /\ Sleepers(e) \in SUBSET Threads
    BY DEF Users, Sleepers
  <2>3. CASE e # ent[t]
    <3>1. inuse'[e] = inuse[e]
      BY <2>3 DEF Inv, TypeOK, Where, Acquire, Goto, Take, Bump, Acquirable, Mine, Free,
         entryVars, listVars, Step, Holding, Unlinking, Linking, Bumped, Waiting, Inside
    <3>2. Users(e)' = Users(e)
      BY <2>3 DEF Inv, TypeOK, Where, Users, Acquire, Goto, Take, Bump, Acquirable, Mine, Free,
         entryVars, listVars, Step, Holding, Unlinking, Linking, Bumped, Waiting, Inside
    <3>3. Sleepers(e)' = Sleepers(e)
      BY <2>3 DEF Inv, TypeOK, Where, Sleepers, Acquire, Goto, Take, Bump, Acquirable, Mine, Free,
         entryVars, listVars, Step, Holding, Unlinking, Linking, Bumped, Waiting, Inside
    <3> QED
      BY <2>1, <3>1, <3>2, <3>3
  <2>4. CASE e = ent[t]
    <3>1. Users(e)' = Users(e) \cup {t} /\ t \notin Users(e)
      BY <2>4 DEF Inv, TypeOK, Where, Users, Acquire, Goto, Take, Bump, Acquirable, Mine, Free,
         entryVars, listVars, Step, Holding, Unlinking, Linking, Bumped, Waiting, Inside
    <3>2. Sleepers(e)' = Sleepers(e)
      BY <2>4 DEF Inv, TypeOK, Where, Sleepers, Acquire, Goto, Take, Bump, Acquirable, Mine, Free,
         entryVars, listVars, Step, Holding, Unlinking, Linking, Bumped, Waiting, Inside
    <3>3. inuse'[e] = inuse[e] + 1
      BY <2>4, InUsePositive DEF Inv, TypeOK, Where, Acquire, Goto, Take, Bump, Acquirable, Mine,
         Free, entryVars, listVars, Step, Holding, Unlinking, Linking, Bumped, Waiting, Inside
    <3>4. inuse[e] \in Nat
      BY DEF Inv, TypeOK
    <3>5. /\ Cardinality(Users(e)) \in Nat /\ Cardinality(Sleepers(e)) \in Nat
          /\ Cardinality(Users(e)') = Cardinality(Users(e)) + 1
          /\ Cardinality(Sleepers(e)') = Cardinality(Sleepers(e))
      BY <2>2, <3>1, <3>2, Counted
    <3> QED
      BY <2>1, <3>3, <3>4, <3>5
  <2> QED
    BY <2>3, <2>4
<1>8. Claimed'
  BY ClaimKept DEF Inv, TypeOK, Where, Locked, Holding, Unlinking, Bumped, Waiting, Acquire, Goto,
     Take, Bump, Acquirable, Mine, Free, entryVars, listVars
<1> QED
  BY <1>1, <1>2, <1>3, <1>4, <1>5, <1>6, <1>7, <1>8 DEF Inv

LEMMA ExitKeeps ==
  ASSUME Inv, NEW t \in Threads, Exit(t)
  PROVE  Inv'
<1> USE OplockAssumption
<1>1. TypeOK'
  <2>1. optr' \in [Objects -> Entries \cup {None}] /\ life' \in [Objects -> {"unborn", "live", "closing", "dead"}]
    BY DEF Inv, TypeOK, Where, Exit, Debump, Release, entryVars, listVars, Step, Holding, Unlinking,
       Linking, Bumped, Waiting, Inside
  <2>2. ptr' \in [Entries -> Objects \cup {None}]
    BY DEF Inv, TypeOK, Where, Exit, Debump, Release, entryVars, listVars, Step, Holding, Unlinking,
       Linking, Bumped, Waiting, Inside
  <2>3. inuse' \in [Entries -> Nat]
    BY DEF Inv, TypeOK, Where, Exit, Debump, Release, entryVars, listVars, Step, Holding, Unlinking,
       Linking, Bumped, Waiting, Inside
  <2>4. disposed' \in [Entries -> BOOLEAN]
    BY DEF Inv, TypeOK, Where, Exit, Debump, Release, entryVars, listVars, Step, Holding, Unlinking,
       Linking, Bumped, Waiting, Inside
  <2>5. lock' \in [Entries -> Threads \cup {None}] /\ listlock' \in Threads \cup {None}
    BY DEF Inv, TypeOK, Where, Exit, Debump, Release, entryVars, listVars, Step, Holding, Unlinking,
       Linking, Bumped, Waiting, Inside
  <2>6. /\ nextp' \in [Entries \cup {Head} -> Entries \cup {Head}]
       /\ prevp' \in [Entries \cup {Head} -> Entries \cup {Head}]
       /\ unused' \subseteq Entries
    BY DEF Inv, TypeOK, Where, Exit, Debump, Release, entryVars, listVars, Step, Holding, Unlinking,
       Linking, Bumped, Waiting, Inside
  <2>7. pc' \in [Threads -> Step]
    BY DEF Inv, TypeOK, Where, Exit, Debump, Release, entryVars, listVars, Step, Holding, Unlinking,
       Linking, Bumped, Waiting, Inside
  <2>8. obj' \in [Threads -> Objects \cup {None}] /\ ent' \in [Threads -> Entries \cup {None, Head}]
    BY DEF Inv, TypeOK, Where, Exit, Debump, Release, entryVars, listVars, Step, Holding, Unlinking,
       Linking, Bumped, Waiting, Inside
  <2>9. counted' \in [Threads -> BOOLEAN]
    BY DEF Inv, TypeOK, Where, Exit, Debump, Release, entryVars, listVars, Step, Holding, Unlinking,
       Linking, Bumped, Waiting, Inside
  <2>10. calls' \in 0..MaxCalls
    BY DEF Inv, TypeOK, Where, Exit, Debump, Release, entryVars, listVars, Step, Holding, Unlinking,
       Linking, Bumped, Waiting, Inside
  <2> QED
    BY <2>1, <2>2, <2>3, <2>4, <2>5, <2>6, <2>7, <2>8, <2>9, <2>10 DEF TypeOK
<1>2. Where'
  BY DEF Inv, TypeOK, Where, Exit, Debump, Release, entryVars, listVars, Step, Holding, Unlinking,
     Linking, Bumped, Waiting, Inside
<1>3. Locked'
  BY DEF Inv, TypeOK, Where, Locked, Exit, Debump, Release, entryVars, listVars, Step, Holding,
     Unlinking, Linking, Bumped, Waiting, Inside
<1>4. Owners'
  BY DEF Inv, TypeOK, Where, Owners, Exit, Debump, Release, entryVars, listVars, Step, Holding,
     Unlinking, Linking, Bumped, Waiting, Inside
<1>5. Apart'
  BY DEF Inv, TypeOK, Where, Apart, Exit, Debump, Release, entryVars, listVars, Step, Holding,
     Unlinking, Linking, Bumped, Waiting, Inside
<1>6. InsideOwns'
  BY DEF Inv, TypeOK, Where, Locked, Owners, InsideOwns, Mine, Exit, Debump, Release, entryVars,
     listVars, Step, Holding, Unlinking, Linking, Bumped, Waiting, Inside
<1>7. InUseExact'
  <2> SUFFICES ASSUME NEW e \in Entries
               PROVE  inuse'[e] = Cardinality(Users(e)') + Cardinality(Sleepers(e)')
    BY DEF InUseExact, Users, Sleepers
  <2>1. inuse[e] = Cardinality(Users(e)) + Cardinality(Sleepers(e))
    BY DEF Inv, InUseExact, Users, Sleepers
  <2>2. Users(e) \in SUBSET Threads /\ Sleepers(e) \in SUBSET Threads
    BY DEF Users, Sleepers
  <2>3. CASE e # ent[t]
    <3>1. inuse'[e] = inuse[e]
      BY <2>3 DEF Inv, TypeOK, Where, Exit, Debump, Release, entryVars, listVars, Step, Holding,
         Unlinking, Linking, Bumped, Waiting, Inside
    <3>2. Users(e)' = Users(e)
      BY <2>3 DEF Inv, TypeOK, Where, Users, Exit, Debump, Release, entryVars, listVars, Step,
         Holding, Unlinking, Linking, Bumped, Waiting, Inside
    <3>3. Sleepers(e)' = Sleepers(e)
      BY <2>3 DEF Inv, TypeOK, Where, Sleepers, Exit, Debump, Release, entryVars, listVars, Step,
         Holding, Unlinking, Linking, Bumped, Waiting, Inside
    <3> QED
      BY <2>1, <3>1, <3>2, <3>3
  <2>4. CASE e = ent[t]
    <3>1. Users(e)' = Users(e) \ {t} /\ t \in Users(e)
      BY <2>4 DEF Inv, TypeOK, Where, Users, Exit, Debump, Release, entryVars, listVars, Step,
         Holding, Unlinking, Linking, Bumped, Waiting, Inside
    <3>2. Sleepers(e)' = Sleepers(e)
      BY <2>4 DEF Inv, TypeOK, Where, Sleepers, Exit, Debump, Release, entryVars, listVars, Step,
         Holding, Unlinking, Linking, Bumped, Waiting, Inside
    <3>3. inuse'[e] = inuse[e] - 1
      BY <2>4, InUsePositive DEF Inv, TypeOK, Where, Exit, Debump, Release, entryVars, listVars,
         Step, Holding, Unlinking, Linking, Bumped, Waiting, Inside
    <3>4. inuse[e] \in Nat
      BY DEF Inv, TypeOK
    <3>5. /\ Cardinality(Users(e)) \in Nat /\ Cardinality(Sleepers(e)) \in Nat
          /\ Cardinality(Users(e)') = Cardinality(Users(e)) - 1
          /\ Cardinality(Sleepers(e)') = Cardinality(Sleepers(e))
      BY <2>2, <3>1, <3>2, Counted
    <3> QED
      BY <2>1, <3>3, <3>4, <3>5
  <2> QED
    BY <2>3, <2>4
<1>8. Claimed'
  BY ClaimKept DEF Inv, TypeOK, Where, Locked, Holding, Unlinking, Bumped, Waiting, Exit, Debump,
     Release, entryVars, listVars
<1> QED
  BY <1>1, <1>2, <1>3, <1>4, <1>5, <1>6, <1>7, <1>8 DEF Inv

LEMMA TempReleaseKeeps ==
  ASSUME Inv, NEW t \in Threads, TempRelease(t)
  PROVE  Inv'
<1> USE OplockAssumption
<1>1. TypeOK'
  BY SMT, ExceptBool DEF Inv, TypeOK, Where, TempRelease, Goto, Release, entryVars, listVars,
     Step, Holding, Unlinking, Linking, Bumped, Waiting, Inside
<1>2. Where'
  BY DEF Inv, TypeOK, Where, TempRelease, Goto, Release, entryVars, listVars, Step, Holding,
     Unlinking, Linking, Bumped, Waiting, Inside
<1>3. Locked'
  BY DEF Inv, TypeOK, Where, Locked, TempRelease, Goto, Release, entryVars, listVars, Step,
     Holding, Unlinking, Linking, Bumped, Waiting, Inside
<1>4. Owners'
  BY DEF Inv, TypeOK, Where, Owners, TempRelease, Goto, Release, entryVars, listVars, Step,
     Holding, Unlinking, Linking, Bumped, Waiting, Inside
<1>5. Apart'
  BY DEF Inv, TypeOK, Where, Apart, TempRelease, Goto, Release, entryVars, listVars, Step,
     Holding, Unlinking, Linking, Bumped, Waiting, Inside
<1>6. InsideOwns'
  BY DEF Inv, TypeOK, Where, Locked, Owners, InsideOwns, Mine, TempRelease, Goto, Release,
     entryVars, listVars, Step, Holding, Unlinking, Linking, Bumped, Waiting, Inside
<1>7. InUseExact'
  BY DEF Inv, TypeOK, Where, InUseExact, TempRelease, Goto, Release, entryVars, listVars, Step,
     Holding, Unlinking, Linking, Bumped, Waiting, Inside
<1>8. Claimed'
  BY ClaimKept DEF Inv, TypeOK, Where, Locked, Holding, Unlinking, Bumped, Waiting, TempRelease,
     Goto, Release, entryVars, listVars
<1> QED
  BY <1>1, <1>2, <1>3, <1>4, <1>5, <1>6, <1>7, <1>8 DEF Inv

LEMMA ReacquireKeeps ==
  ASSUME Inv, NEW t \in Threads, Reacquire(t)
  PROVE  Inv'
<1> USE OplockAssumption
<1>1. TypeOK'
  BY SMT, ExceptBool DEF Inv, TypeOK, Where, Reacquire, Goto, Take, Free, Mine, entryVars,
     listVars, Step, Holding, Unlinking, Linking, Bumped, Waiting, Inside
<1>2. Where'
  BY DEF Inv, TypeOK, Where, Reacquire, Goto, Take, Free, Mine, entryVars, listVars, Step,
     Holding, Unlinking, Linking, Bumped, Waiting, Inside
<1>3. Locked'
  BY DEF Inv, TypeOK, Where, Locked, Reacquire, Goto, Take, Free, Mine, entryVars, listVars, Step,
     Holding, Unlinking, Linking, Bumped, Waiting, Inside
<1>4. Owners'
  BY DEF Inv, TypeOK, Where, Owners, Reacquire, Goto, Take, Free, Mine, entryVars, listVars, Step,
     Holding, Unlinking, Linking, Bumped, Waiting, Inside
<1>5. Apart'
  BY DEF Inv, TypeOK, Where, Apart, Reacquire, Goto, Take, Free, Mine, entryVars, listVars, Step,
     Holding, Unlinking, Linking, Bumped, Waiting, Inside
<1>6. InsideOwns'
  BY DEF Inv, TypeOK, Where, Locked, Owners, InsideOwns, Mine, Reacquire, Goto, Take, Free,
     entryVars, listVars, Step, Holding, Unlinking, Linking, Bumped, Waiting, Inside
<1>7. InUseExact'
  BY DEF Inv, TypeOK, Where, InUseExact, Reacquire, Goto, Take, Free, Mine, entryVars, listVars,
     Step, Holding, Unlinking, Linking, Bumped, Waiting, Inside
<1>8. Claimed'
  BY ClaimKept DEF Inv, TypeOK, Where, Locked, Holding, Unlinking, Bumped, Waiting, Reacquire, Goto,
     Take, Free, Mine, entryVars, listVars
<1> QED
  BY <1>1, <1>2, <1>3, <1>4, <1>5, <1>6, <1>7, <1>8 DEF Inv

LEMMA WaitOnKeeps ==
  ASSUME Inv, NEW t \in Threads, WaitOn(t)
  PROVE  Inv'
<1> USE OplockAssumption
<1>1. TypeOK'
  BY SMT, ExceptBool DEF Inv, TypeOK, Where, WaitOn, Goto, Release, entryVars, listVars, Step,
     Holding, Unlinking, Linking, Bumped, Waiting, Inside
<1>2. Where'
  BY DEF Inv, TypeOK, Where, WaitOn, Goto, Release, entryVars, listVars, Step, Holding, Unlinking,
     Linking, Bumped, Waiting, Inside
<1>3. Locked'
  BY DEF Inv, TypeOK, Where, Locked, WaitOn, Goto, Release, entryVars, listVars, Step, Holding,
     Unlinking, Linking, Bumped, Waiting, Inside
<1>4. Owners'
  BY DEF Inv, TypeOK, Where, Owners, WaitOn, Goto, Release, entryVars, listVars, Step, Holding,
     Unlinking, Linking, Bumped, Waiting, Inside
<1>5. Apart'
  BY DEF Inv, TypeOK, Where, Apart, WaitOn, Goto, Release, entryVars, listVars, Step, Holding,
     Unlinking, Linking, Bumped, Waiting, Inside
<1>6. InsideOwns'
  BY DEF Inv, TypeOK, Where, Locked, Owners, InsideOwns, Mine, WaitOn, Goto, Release, entryVars,
     listVars, Step, Holding, Unlinking, Linking, Bumped, Waiting, Inside
<1>7. InUseExact'
  <2>1. CASE ~disposed[ent[t]]
    <3> SUFFICES ASSUME NEW e \in Entries
                 PROVE  inuse'[e] = Cardinality(Users(e)') + Cardinality(Sleepers(e)')
      BY <2>1 DEF InUseExact, Users, Sleepers
    <3>1. inuse[e] = Cardinality(Users(e)) + Cardinality(Sleepers(e))
      BY <2>1 DEF Inv, InUseExact, Users, Sleepers
    <3>2. Users(e) \in SUBSET Threads /\ Sleepers(e) \in SUBSET Threads
      BY <2>1 DEF Users, Sleepers
    <3>3. CASE e # ent[t]
      <4>1. inuse'[e] = inuse[e]
        BY <2>1, <3>3 DEF Inv, TypeOK, Where, WaitOn, Goto, Release, entryVars, listVars, Step,
           Holding, Unlinking, Linking, Bumped, Waiting, Inside
      <4>2. Users(e)' = Users(e)
        BY <2>1, <3>3 DEF Inv, TypeOK, Where, Users, WaitOn, Goto, Release, entryVars, listVars,
           Step, Holding, Unlinking, Linking, Bumped, Waiting, Inside
      <4>3. Sleepers(e)' = Sleepers(e)
        BY <2>1, <3>3 DEF Inv, TypeOK, Where, Sleepers, WaitOn, Goto, Release, entryVars,
           listVars, Step, Holding, Unlinking, Linking, Bumped, Waiting, Inside
      <4> QED
        BY <2>1, <3>1, <4>1, <4>2, <4>3
    <3>4. CASE e = ent[t]
      <4>1. Users(e)' = Users(e)
        BY <2>1, <3>4 DEF Inv, TypeOK, Where, Users, WaitOn, Goto, Release, entryVars, listVars,
           Step, Holding, Unlinking, Linking, Bumped, Waiting, Inside
      <4>2. Sleepers(e)' = Sleepers(e) \cup {t} /\ t \notin Sleepers(e)
        <5>1. counted' = [counted EXCEPT ![t] = TRUE]
          BY <2>1, Zenon DEF WaitOn
        <5>2. counted'[t] /\ \A u \in Threads : u # t => counted'[u] = counted[u]
          BY <5>1, Zenon DEF Inv, TypeOK
        <5>3. ~counted[t] /\ ent' = ent
          BY DEF Inv, Where, WaitOn
        <5> QED
          BY <3>4, <5>2, <5>3 DEF Sleepers
      <4>3. inuse'[e] = inuse[e] + 1
        BY <2>1, <3>4, InUsePositive DEF Inv, TypeOK, Where, WaitOn, Goto, Release, entryVars,
           listVars, Step, Holding, Unlinking, Linking, Bumped, Waiting, Inside
      <4>4. inuse[e] \in Nat
        BY <2>1 DEF Inv, TypeOK
      <4>5. /\ Cardinality(Users(e)) \in Nat /\ Cardinality(Sleepers(e)) \in Nat
            /\ Cardinality(Users(e)') = Cardinality(Users(e))
            /\ Cardinality(Sleepers(e)') = Cardinality(Sleepers(e)) + 1
        BY <2>1, <3>2, <4>1, <4>2, Counted
      <4> QED
        BY <2>1, <3>1, <4>3, <4>4, <4>5
    <3> QED
      BY <2>1, <3>3, <3>4
  <2>2. CASE disposed[ent[t]]
    <3> SUFFICES ASSUME NEW e \in Entries
                 PROVE  inuse'[e] = Cardinality(Users(e)') + Cardinality(Sleepers(e)')
      BY <2>2 DEF InUseExact, Users, Sleepers
    <3>1. inuse[e] = Cardinality(Users(e)) + Cardinality(Sleepers(e))
      BY <2>2 DEF Inv, InUseExact, Users, Sleepers
    <3>2. Users(e) \in SUBSET Threads /\ Sleepers(e) \in SUBSET Threads
      BY <2>2 DEF Users, Sleepers
    <3>3. CASE e # ent[t]
      <4>1. inuse'[e] = inuse[e]
        BY <2>2, <3>3 DEF Inv, TypeOK, Where, WaitOn, Goto, Release, entryVars, listVars, Step,
           Holding, Unlinking, Linking, Bumped, Waiting, Inside
      <4>2. Users(e)' = Users(e)
        BY <2>2, <3>3 DEF Inv, TypeOK, Where, Users, WaitOn, Goto, Release, entryVars, listVars,
           Step, Holding, Unlinking, Linking, Bumped, Waiting, Inside
      <4>3. Sleepers(e)' = Sleepers(e)
        BY <2>2, <3>3 DEF Inv, TypeOK, Where, Sleepers, WaitOn, Goto, Release, entryVars,
           listVars, Step, Holding, Unlinking, Linking, Bumped, Waiting, Inside
      <4> QED
        BY <2>2, <3>1, <4>1, <4>2, <4>3
    <3>4. CASE e = ent[t]
      <4>1. Users(e)' = Users(e)
        BY <2>2, <3>4 DEF Inv, TypeOK, Where, Users, WaitOn, Goto, Release, entryVars, listVars,
           Step, Holding, Unlinking, Linking, Bumped, Waiting, Inside
      <4>2. Sleepers(e)' = Sleepers(e)
        BY <2>2, <3>4 DEF Inv, TypeOK, Where, Sleepers, WaitOn, Goto, Release, entryVars,
           listVars, Step, Holding, Unlinking, Linking, Bumped, Waiting, Inside
      <4>3. inuse'[e] = inuse[e]
        BY <2>2, <3>4, InUsePositive DEF Inv, TypeOK, Where, WaitOn, Goto, Release, entryVars,
           listVars, Step, Holding, Unlinking, Linking, Bumped, Waiting, Inside
      <4>4. inuse[e] \in Nat
        BY <2>2 DEF Inv, TypeOK
      <4>5. /\ Cardinality(Users(e)) \in Nat /\ Cardinality(Sleepers(e)) \in Nat
            /\ Cardinality(Users(e)') = Cardinality(Users(e))
            /\ Cardinality(Sleepers(e)') = Cardinality(Sleepers(e))
        BY <2>2, <3>2, <4>1, <4>2, Counted
      <4> QED
        BY <2>2, <3>1, <4>3, <4>4, <4>5
    <3> QED
      BY <2>2, <3>3, <3>4
  <2> QED
    BY <2>1, <2>2
<1>8. Claimed'
  BY ClaimKept DEF Inv, TypeOK, Where, Locked, Holding, Unlinking, Bumped, Waiting, WaitOn, Goto,
     Release, entryVars, listVars
<1> QED
  BY <1>1, <1>2, <1>3, <1>4, <1>5, <1>6, <1>7, <1>8 DEF Inv

LEMMA SignalKeeps ==
  ASSUME Inv, NEW t \in Threads, NEW u \in Threads, Signal(t, u)
  PROVE  Inv'
<1> USE OplockAssumption
<1>1. TypeOK'
  BY SMT, ExceptBool DEF Inv, TypeOK, Where, Signal, Goto, entryVars, listVars, Step, Holding,
     Unlinking, Linking, Bumped, Waiting, Inside
<1>2. Where'
  BY DEF Inv, TypeOK, Where, Signal, Goto, entryVars, listVars, Step, Holding, Unlinking, Linking,
     Bumped, Waiting, Inside
<1>3. Locked'
  BY DEF Inv, TypeOK, Where, Locked, Signal, Goto, entryVars, listVars, Step, Holding, Unlinking,
     Linking, Bumped, Waiting, Inside
<1>4. Owners'
  BY DEF Inv, TypeOK, Where, Owners, Signal, Goto, entryVars, listVars, Step, Holding, Unlinking,
     Linking, Bumped, Waiting, Inside
<1>5. Apart'
  BY DEF Inv, TypeOK, Where, Apart, Signal, Goto, entryVars, listVars, Step, Holding, Unlinking,
     Linking, Bumped, Waiting, Inside
<1>6. InsideOwns'
  BY DEF Inv, TypeOK, Where, Locked, Owners, InsideOwns, Mine, Signal, Goto, entryVars, listVars,
     Step, Holding, Unlinking, Linking, Bumped, Waiting, Inside
<1>7. InUseExact'
  BY DEF Inv, TypeOK, Where, InUseExact, Signal, Goto, entryVars, listVars, Step, Holding,
     Unlinking, Linking, Bumped, Waiting, Inside
<1>8. Claimed'
  BY ClaimKept DEF Inv, TypeOK, Where, Locked, Holding, Unlinking, Bumped, Waiting, Signal, Goto,
     entryVars, listVars
<1> QED
  BY <1>1, <1>2, <1>3, <1>4, <1>5, <1>6, <1>7, <1>8 DEF Inv

LEMMA WaitEndsKeeps ==
  ASSUME Inv, NEW t \in Threads, WaitEnds(t)
  PROVE  Inv'
<1> USE OplockAssumption
<1>1. TypeOK'
  <2>1. optr' \in [Objects -> Entries \cup {None}] /\ life' \in [Objects -> {"unborn", "live", "closing", "dead"}]
    BY DEF Inv, TypeOK, Where, WaitEnds, Goto, Take, Free, entryVars, listVars, Step, Holding,
       Unlinking, Linking, Bumped, Waiting, Inside
  <2>2. ptr' \in [Entries -> Objects \cup {None}]
    BY DEF Inv, TypeOK, Where, WaitEnds, Goto, Take, Free, entryVars, listVars, Step, Holding,
       Unlinking, Linking, Bumped, Waiting, Inside
  <2>3. inuse' \in [Entries -> Nat]
    <3>1. ent[t] \in Entries /\ inuse[ent[t]] \in Nat \ {0}
      BY InUsePositive DEF WaitEnds, Bumped, Waiting
    <3>2. inuse' = [inuse EXCEPT ![ent[t]] = IF counted[t] THEN @ - 1 ELSE @]
      BY DEF WaitEnds
    <3>3. inuse[ent[t]] - 1 \in Nat /\ inuse \in [Entries -> Nat]
      BY <3>1 DEF Inv, TypeOK
    <3> QED
      BY <3>1, <3>2, <3>3
  <2>4. disposed' \in [Entries -> BOOLEAN]
    BY DEF Inv, TypeOK, Where, WaitEnds, Goto, Take, Free, entryVars, listVars, Step, Holding,
       Unlinking, Linking, Bumped, Waiting, Inside
  <2>5. lock' \in [Entries -> Threads \cup {None}] /\ listlock' \in Threads \cup {None}
    BY DEF Inv, TypeOK, Where, WaitEnds, Goto, Take, Free, entryVars, listVars, Step, Holding,
       Unlinking, Linking, Bumped, Waiting, Inside
  <2>6. /\ nextp' \in [Entries \cup {Head} -> Entries \cup {Head}]
       /\ prevp' \in [Entries \cup {Head} -> Entries \cup {Head}]
       /\ unused' \subseteq Entries
    BY DEF Inv, TypeOK, Where, WaitEnds, Goto, Take, Free, entryVars, listVars, Step, Holding,
       Unlinking, Linking, Bumped, Waiting, Inside
  <2>7. pc' \in [Threads -> Step]
    BY DEF Inv, TypeOK, Where, WaitEnds, Goto, Take, Free, entryVars, listVars, Step, Holding,
       Unlinking, Linking, Bumped, Waiting, Inside
  <2>8. obj' \in [Threads -> Objects \cup {None}] /\ ent' \in [Threads -> Entries \cup {None, Head}]
    BY DEF Inv, TypeOK, Where, WaitEnds, Goto, Take, Free, entryVars, listVars, Step, Holding,
       Unlinking, Linking, Bumped, Waiting, Inside
  <2>9. counted' \in [Threads -> BOOLEAN]
    BY DEF Inv, TypeOK, Where, WaitEnds, Goto, Take, Free, entryVars, listVars, Step, Holding,
       Unlinking, Linking, Bumped, Waiting, Inside
  <2>10. calls' \in 0..MaxCalls
    BY DEF Inv, TypeOK, Where, WaitEnds, Goto, Take, Free, entryVars, listVars, Step, Holding,
       Unlinking, Linking, Bumped, Waiting, Inside
  <2> QED
    BY <2>1, <2>2, <2>3, <2>4, <2>5, <2>6, <2>7, <2>8, <2>9, <2>10 DEF TypeOK
<1>2. Where'
  BY DEF Inv, TypeOK, Where, WaitEnds, Goto, Take, Free, entryVars, listVars, Step, Holding,
     Unlinking, Linking, Bumped, Waiting, Inside
<1>3. Locked'
  BY DEF Inv, TypeOK, Where, Locked, WaitEnds, Goto, Take, Free, entryVars, listVars, Step,
     Holding, Unlinking, Linking, Bumped, Waiting, Inside
<1>4. Owners'
  BY DEF Inv, TypeOK, Where, Owners, WaitEnds, Goto, Take, Free, entryVars, listVars, Step,
     Holding, Unlinking, Linking, Bumped, Waiting, Inside
<1>5. Apart'
  BY DEF Inv, TypeOK, Where, Apart, WaitEnds, Goto, Take, Free, entryVars, listVars, Step,
     Holding, Unlinking, Linking, Bumped, Waiting, Inside
<1>6. InsideOwns'
  BY DEF Inv, TypeOK, Where, Locked, Owners, InsideOwns, Mine, WaitEnds, Goto, Take, Free,
     entryVars, listVars, Step, Holding, Unlinking, Linking, Bumped, Waiting, Inside
<1>7. InUseExact'
  <2>1. CASE counted[t]
    <3> SUFFICES ASSUME NEW e \in Entries
                 PROVE  inuse'[e] = Cardinality(Users(e)') + Cardinality(Sleepers(e)')
      BY <2>1 DEF InUseExact, Users, Sleepers
    <3>1. inuse[e] = Cardinality(Users(e)) + Cardinality(Sleepers(e))
      BY <2>1 DEF Inv, InUseExact, Users, Sleepers
    <3>2. Users(e) \in SUBSET Threads /\ Sleepers(e) \in SUBSET Threads
      BY <2>1 DEF Users, Sleepers
    <3>3. CASE e # ent[t]
      <4>1. inuse'[e] = inuse[e]
        BY <2>1, <3>3 DEF Inv, TypeOK, Where, WaitEnds, Goto, Take, Free, entryVars, listVars,
           Step, Holding, Unlinking, Linking, Bumped, Waiting, Inside
      <4>2. Users(e)' = Users(e)
        BY <2>1, <3>3 DEF Inv, TypeOK, Where, Users, WaitEnds, Goto, Take, Free, entryVars,
           listVars, Step, Holding, Unlinking, Linking, Bumped, Waiting, Inside
      <4>3. Sleepers(e)' = Sleepers(e)
        BY <2>1, <3>3 DEF Inv, TypeOK, Where, Sleepers, WaitEnds, Goto, Take, Free, entryVars,
           listVars, Step, Holding, Unlinking, Linking, Bumped, Waiting, Inside
      <4> QED
        BY <2>1, <3>1, <4>1, <4>2, <4>3
    <3>4. CASE e = ent[t]
      <4>1. Users(e)' = Users(e)
        BY <2>1, <3>4 DEF Inv, TypeOK, Where, Users, WaitEnds, Goto, Take, Free, entryVars,
           listVars, Step, Holding, Unlinking, Linking, Bumped, Waiting, Inside
      <4>2. Sleepers(e)' = Sleepers(e) \ {t} /\ t \in Sleepers(e)
        BY <2>1, <3>4 DEF Inv, TypeOK, Where, Sleepers, WaitEnds, Goto, Take, Free, entryVars,
           listVars, Step, Holding, Unlinking, Linking, Bumped, Waiting, Inside
      <4>3. inuse'[e] = inuse[e] - 1
        BY <2>1, <3>4, InUsePositive DEF Inv, TypeOK, Where, WaitEnds, Goto, Take, Free,
           entryVars, listVars, Step, Holding, Unlinking, Linking, Bumped, Waiting, Inside
      <4>4. inuse[e] \in Nat
        BY <2>1 DEF Inv, TypeOK
      <4>5. /\ Cardinality(Users(e)) \in Nat /\ Cardinality(Sleepers(e)) \in Nat
            /\ Cardinality(Users(e)') = Cardinality(Users(e))
            /\ Cardinality(Sleepers(e)') = Cardinality(Sleepers(e)) - 1
        BY <2>1, <3>2, <4>1, <4>2, Counted
      <4> QED
        BY <2>1, <3>1, <4>3, <4>4, <4>5
    <3> QED
      BY <2>1, <3>3, <3>4
  <2>2. CASE ~counted[t]
    <3> SUFFICES ASSUME NEW e \in Entries
                 PROVE  inuse'[e] = Cardinality(Users(e)') + Cardinality(Sleepers(e)')
      BY <2>2 DEF InUseExact, Users, Sleepers
    <3>1. inuse[e] = Cardinality(Users(e)) + Cardinality(Sleepers(e))
      BY <2>2 DEF Inv, InUseExact, Users, Sleepers
    <3>2. Users(e) \in SUBSET Threads /\ Sleepers(e) \in SUBSET Threads
      BY <2>2 DEF Users, Sleepers
    <3>3. CASE e # ent[t]
      <4>1. inuse'[e] = inuse[e]
        BY <2>2, <3>3 DEF Inv, TypeOK, Where, WaitEnds, Goto, Take, Free, entryVars, listVars,
           Step, Holding, Unlinking, Linking, Bumped, Waiting, Inside
      <4>2. Users(e)' = Users(e)
        BY <2>2, <3>3 DEF Inv, TypeOK, Where, Users, WaitEnds, Goto, Take, Free, entryVars,
           listVars, Step, Holding, Unlinking, Linking, Bumped, Waiting, Inside
      <4>3. Sleepers(e)' = Sleepers(e)
        BY <2>2, <3>3 DEF Inv, TypeOK, Where, Sleepers, WaitEnds, Goto, Take, Free, entryVars,
           listVars, Step, Holding, Unlinking, Linking, Bumped, Waiting, Inside
      <4> QED
        BY <2>2, <3>1, <4>1, <4>2, <4>3
    <3>4. CASE e = ent[t]
      <4>1. Users(e)' = Users(e)
        BY <2>2, <3>4 DEF Inv, TypeOK, Where, Users, WaitEnds, Goto, Take, Free, entryVars,
           listVars, Step, Holding, Unlinking, Linking, Bumped, Waiting, Inside
      <4>2. Sleepers(e)' = Sleepers(e)
        BY <2>2, <3>4 DEF Inv, TypeOK, Where, Sleepers, WaitEnds, Goto, Take, Free, entryVars,
           listVars, Step, Holding, Unlinking, Linking, Bumped, Waiting, Inside
      <4>3. inuse'[e] = inuse[e]
        BY <2>2, <3>4, InUsePositive DEF Inv, TypeOK, Where, WaitEnds, Goto, Take, Free,
           entryVars, listVars, Step, Holding, Unlinking, Linking, Bumped, Waiting, Inside
      <4>4. inuse[e] \in Nat
        BY <2>2 DEF Inv, TypeOK
      <4>5. /\ Cardinality(Users(e)) \in Nat /\ Cardinality(Sleepers(e)) \in Nat
            /\ Cardinality(Users(e)') = Cardinality(Users(e))
            /\ Cardinality(Sleepers(e)') = Cardinality(Sleepers(e))
        BY <2>2, <3>2, <4>1, <4>2, Counted
      <4> QED
        BY <2>2, <3>1, <4>3, <4>4, <4>5
    <3> QED
      BY <2>2, <3>3, <3>4
  <2> QED
    BY <2>1, <2>2
<1>8. Claimed'
  BY ClaimKept DEF Inv, TypeOK, Where, Locked, Holding, Unlinking, Bumped, Waiting, WaitEnds, Goto,
     Take, Free, entryVars, listVars
<1> QED
  BY <1>1, <1>2, <1>3, <1>4, <1>5, <1>6, <1>7, <1>8 DEF Inv

LEMMA CloseKeeps ==
  ASSUME Inv, NEW t \in Threads, Close(t)
  PROVE  Inv'
<1> USE OplockAssumption
<1>1. TypeOK'
  BY SMT, ExceptBool DEF Inv, TypeOK, Where, Close, Goto, entryVars, listVars, Step, Holding,
     Unlinking, Linking, Bumped, Waiting, Inside
<1>2. Where'
  BY DEF Inv, TypeOK, Where, Close, Goto, entryVars, listVars, Step, Holding, Unlinking, Linking,
     Bumped, Waiting, Inside
<1>3. Locked'
  BY DEF Inv, TypeOK, Where, Locked, Close, Goto, entryVars, listVars, Step, Holding, Unlinking,
     Linking, Bumped, Waiting, Inside
<1>4. Owners'
  BY DEF Inv, TypeOK, Where, Owners, Close, Goto, entryVars, listVars, Step, Holding, Unlinking,
     Linking, Bumped, Waiting, Inside
<1>5. Apart'
  BY DEF Inv, TypeOK, Where, Apart, Close, Goto, entryVars, listVars, Step, Holding, Unlinking,
     Linking, Bumped, Waiting, Inside
<1>6. InsideOwns'
  BY DEF Inv, TypeOK, Where, Locked, Owners, InsideOwns, Mine, Close, Goto, entryVars, listVars,
     Step, Holding, Unlinking, Linking, Bumped, Waiting, Inside
<1>7. InUseExact'
  BY DEF Inv, TypeOK, Where, InUseExact, Close, Goto, entryVars, listVars, Step, Holding, Unlinking,
     Linking, Bumped, Waiting, Inside
<1>8. Claimed'
  BY ClaimKept DEF Inv, TypeOK, Where, Locked, Holding, Unlinking, Bumped, Waiting, Close, Goto,
     entryVars, listVars
<1> QED
  BY <1>1, <1>2, <1>3, <1>4, <1>5, <1>6, <1>7, <1>8 DEF Inv

LEMMA AwaitAloneKeeps ==
  ASSUME Inv, NEW t \in Threads, AwaitAlone(t)
  PROVE  Inv'
<1> USE OplockAssumption
<1>1. TypeOK'
  BY SMT, ExceptBool DEF Inv, TypeOK, Where, AwaitAlone, Release, entryVars, listVars, Step,
     Holding, Unlinking, Linking, Bumped, Waiting, Inside
<1>2. Where'
  BY DEF Inv, TypeOK, Where, AwaitAlone, Release, entryVars, listVars, Step, Holding, Unlinking,
     Linking, Bumped, Waiting, Inside
<1>3. Locked'
  BY DEF Inv, TypeOK, Where, Locked, AwaitAlone, Release, entryVars, listVars, Step, Holding,
     Unlinking, Linking, Bumped, Waiting, Inside
<1>4. Owners'
  BY DEF Inv, TypeOK, Where, Owners, AwaitAlone, Release, entryVars, listVars, Step, Holding,
     Unlinking, Linking, Bumped, Waiting, Inside
<1>5. Apart'
  BY DEF Inv, TypeOK, Where, Apart, AwaitAlone, Release, entryVars, listVars, Step, Holding,
     Unlinking, Linking, Bumped, Waiting, Inside
<1>6. InsideOwns'
  BY DEF Inv, TypeOK, Where, Locked, Owners, InsideOwns, Mine, AwaitAlone, Release, entryVars,
     listVars, Step, Holding, Unlinking, Linking, Bumped, Waiting, Inside
<1>7. InUseExact'
  <2> SUFFICES ASSUME NEW e \in Entries
               PROVE  inuse'[e] = Cardinality(Users(e)') + Cardinality(Sleepers(e)')
    BY DEF InUseExact, Users, Sleepers
  <2>1. inuse[e] = Cardinality(Users(e)) + Cardinality(Sleepers(e))
    BY DEF Inv, InUseExact, Users, Sleepers
  <2>2. Users(e) \in SUBSET Threads /\ Sleepers(e) \in SUBSET Threads
    BY DEF Users, Sleepers
  <2>3. CASE e # ent[t]
    <3>1. inuse'[e] = inuse[e]
      BY <2>3 DEF Inv, TypeOK, Where, AwaitAlone, Release, entryVars, listVars, Step, Holding,
         Unlinking, Linking, Bumped, Waiting, Inside
    <3>2. Users(e)' = Users(e)
      BY <2>3 DEF Inv, TypeOK, Where, Users, AwaitAlone, Release, entryVars, listVars, Step,
         Holding, Unlinking, Linking, Bumped, Waiting, Inside
    <3>3. Sleepers(e)' = Sleepers(e)
      BY <2>3 DEF Inv, TypeOK, Where, Sleepers, AwaitAlone, Release, entryVars, listVars, Step,
         Holding, Unlinking, Linking, Bumped, Waiting, Inside
    <3> QED
      BY <2>1, <3>1, <3>2, <3>3
  <2>4. CASE e = ent[t]
    <3>1. Users(e)' = Users(e)
      BY <2>4 DEF Inv, TypeOK, Where, Users, AwaitAlone, Release, entryVars, listVars, Step,
         Holding, Unlinking, Linking, Bumped, Waiting, Inside
    <3>2. Sleepers(e)' = Sleepers(e)
      BY <2>4 DEF Inv, TypeOK, Where, Sleepers, AwaitAlone, Release, entryVars, listVars, Step,
         Holding, Unlinking, Linking, Bumped, Waiting, Inside
    <3>3. inuse'[e] = inuse[e]
      BY <2>4, InUsePositive DEF Inv, TypeOK, Where, AwaitAlone, Release, entryVars, listVars,
         Step, Holding, Unlinking, Linking, Bumped, Waiting, Inside
    <3>4. inuse[e] \in Nat
      BY DEF Inv, TypeOK
    <3>5. /\ Cardinality(Users(e)) \in Nat /\ Cardinality(Sleepers(e)) \in Nat
          /\ Cardinality(Users(e)') = Cardinality(Users(e))
          /\ Cardinality(Sleepers(e)') = Cardinality(Sleepers(e))
      BY <2>2, <3>1, <3>2, Counted
    <3> QED
      BY <2>1, <3>3, <3>4, <3>5
  <2> QED
    BY <2>3, <2>4
<1>8. Claimed'
  BY ClaimKept DEF Inv, TypeOK, Where, Locked, Holding, Unlinking, Bumped, Waiting, AwaitAlone,
     Release, entryVars, listVars
<1> QED
  BY <1>1, <1>2, <1>3, <1>4, <1>5, <1>6, <1>7, <1>8 DEF Inv

LEMMA WokenAloneKeeps ==
  ASSUME Inv, NEW t \in Threads, WokenAlone(t)
  PROVE  Inv'
<1> USE OplockAssumption
<1>1. TypeOK'
  BY SMT, ExceptBool DEF Inv, TypeOK, Where, WokenAlone, Goto, Take, Free, entryVars, listVars,
     Step, Holding, Unlinking, Linking, Bumped, Waiting, Inside
<1>2. Where'
  BY DEF Inv, TypeOK, Where, WokenAlone, Goto, Take, Free, entryVars, listVars, Step, Holding,
     Unlinking, Linking, Bumped, Waiting, Inside
<1>3. Locked'
  BY DEF Inv, TypeOK, Where, Locked, WokenAlone, Goto, Take, Free, entryVars, listVars, Step,
     Holding, Unlinking, Linking, Bumped, Waiting, Inside
<1>4. Owners'
  BY DEF Inv, TypeOK, Where, Owners, WokenAlone, Goto, Take, Free, entryVars, listVars, Step,
     Holding, Unlinking, Linking, Bumped, Waiting, Inside
<1>5. Apart'
  BY DEF Inv, TypeOK, Where, Apart, WokenAlone, Goto, Take, Free, entryVars, listVars, Step,
     Holding, Unlinking, Linking, Bumped, Waiting, Inside
<1>6. InsideOwns'
  BY DEF Inv, TypeOK, Where, Locked, Owners, InsideOwns, Mine, WokenAlone, Goto, Take, Free,
     entryVars, listVars, Step, Holding, Unlinking, Linking, Bumped, Waiting, Inside
<1>7. InUseExact'
  BY DEF Inv, TypeOK, Where, InUseExact, WokenAlone, Goto, Take, Free, entryVars, listVars, Step,
     Holding, Unlinking, Linking, Bumped, Waiting, Inside
<1>8. Claimed'
  BY ClaimKept DEF Inv, TypeOK, Where, Locked, Holding, Unlinking, Bumped, Waiting, WokenAlone,
     Goto, Take, Free, entryVars, listVars
<1> QED
  BY <1>1, <1>2, <1>3, <1>4, <1>5, <1>6, <1>7, <1>8 DEF Inv

LEMMA BeginFreeKeeps ==
  ASSUME Inv, NEW t \in Threads, BeginFree(t)
  PROVE  Inv'
<1> USE OplockAssumption
<1>1. TypeOK'
  <2>1. optr' \in [Objects -> Entries \cup {None}] /\ life' \in [Objects -> {"unborn", "live", "closing", "dead"}]
    BY DEF Inv, TypeOK, Where, BeginFree, Goto, entryVars, listVars, Step, Holding, Unlinking,
       Linking, Bumped, Waiting, Inside
  <2>2. ptr' \in [Entries -> Objects \cup {None}]
    BY DEF Inv, TypeOK, Where, BeginFree, Goto, entryVars, listVars, Step, Holding, Unlinking,
       Linking, Bumped, Waiting, Inside
  <2>3. inuse' \in [Entries -> Nat]
    <3>1. inuse' = [inuse EXCEPT ![ent[t]] = IF inuse[ent[t]] = 0 THEN 0 ELSE inuse[ent[t]] - 1]
      BY DEF BeginFree
    <3>2. inuse \in [Entries -> Nat] /\ ent[t] \in Entries
      BY InUsePositive DEF Inv, TypeOK, BeginFree, Bumped
    <3> QED
      BY <3>1, <3>2
  <2>4. disposed' \in [Entries -> BOOLEAN]
    BY DEF Inv, TypeOK, Where, BeginFree, Goto, entryVars, listVars, Step, Holding, Unlinking,
       Linking, Bumped, Waiting, Inside
  <2>5. lock' \in [Entries -> Threads \cup {None}] /\ listlock' \in Threads \cup {None}
    BY DEF Inv, TypeOK, Where, BeginFree, Goto, entryVars, listVars, Step, Holding, Unlinking,
       Linking, Bumped, Waiting, Inside
  <2>6. /\ nextp' \in [Entries \cup {Head} -> Entries \cup {Head}]
        /\ prevp' \in [Entries \cup {Head} -> Entries \cup {Head}]
        /\ unused' \subseteq Entries
    BY DEF Inv, TypeOK, BeginFree, listVars
  <2>7. pc' \in [Threads -> Step]
    BY DEF Inv, TypeOK, Where, BeginFree, Goto, entryVars, listVars, Step, Holding, Unlinking,
       Linking, Bumped, Waiting, Inside
  <2>8. obj' \in [Threads -> Objects \cup {None}] /\ ent' \in [Threads -> Entries \cup {None, Head}]
    BY DEF Inv, TypeOK, Where, BeginFree, Goto, entryVars, listVars, Step, Holding, Unlinking,
       Linking, Bumped, Waiting, Inside
  <2>9. counted' \in [Threads -> BOOLEAN]
    BY DEF Inv, TypeOK, Where, BeginFree, Goto, entryVars, listVars, Step, Holding, Unlinking,
       Linking, Bumped, Waiting, Inside
  <2>10. calls' \in 0..MaxCalls
    BY DEF Inv, TypeOK, Where, BeginFree, Goto, entryVars, listVars, Step, Holding, Unlinking,
       Linking, Bumped, Waiting, Inside
  <2> QED
    BY <2>1, <2>2, <2>3, <2>4, <2>5, <2>6, <2>7, <2>8, <2>9, <2>10 DEF TypeOK
<1>2. Where'
  BY DEF Inv, TypeOK, Where, BeginFree, Goto, entryVars, listVars, Step, Holding, Unlinking,
     Linking, Bumped, Waiting, Inside
<1>3. Locked'
  BY DEF Inv, TypeOK, Where, Locked, BeginFree, Goto, entryVars, listVars, Step, Holding, Unlinking,
     Linking, Bumped, Waiting, Inside
<1>4. Owners'
  BY DEF Inv, TypeOK, Where, Owners, BeginFree, Goto, entryVars, listVars, Step, Holding, Unlinking,
     Linking, Bumped, Waiting, Inside
<1>5. Apart'
  BY DEF Inv, Apart, BeginFree, listVars
<1>6. InsideOwns'
  BY DEF Inv, TypeOK, Where, Locked, Owners, InsideOwns, Mine, BeginFree, Goto, entryVars,
     listVars, Step, Holding, Unlinking, Linking, Bumped, Waiting, Inside
<1>7. InUseExact'
  <2> SUFFICES ASSUME NEW e \in Entries
               PROVE  inuse'[e] = Cardinality(Users(e)') + Cardinality(Sleepers(e)')
    BY DEF InUseExact, Users, Sleepers
  <2>1. inuse[e] = Cardinality(Users(e)) + Cardinality(Sleepers(e))
    BY DEF Inv, InUseExact, Users, Sleepers
  <2>2. Users(e) \in SUBSET Threads /\ Sleepers(e) \in SUBSET Threads
    BY DEF Users, Sleepers
  <2>3. CASE e # ent[t]
    <3>1. inuse'[e] = inuse[e]
      BY <2>3 DEF Inv, TypeOK, Where, BeginFree, Goto, entryVars, listVars, Step, Holding,
         Unlinking, Linking, Bumped, Waiting, Inside
    <3>2. Users(e)' = Users(e)
      BY <2>3 DEF Inv, TypeOK, Where, Users, BeginFree, Goto, entryVars, listVars, Step, Holding,
         Unlinking, Linking, Bumped, Waiting, Inside
    <3>3. Sleepers(e)' = Sleepers(e)
      BY <2>3 DEF Inv, TypeOK, Where, Sleepers, BeginFree, Goto, entryVars, listVars, Step,
         Holding, Unlinking, Linking, Bumped, Waiting, Inside
    <3> QED
      BY <2>1, <3>1, <3>2, <3>3
  <2>4. CASE e = ent[t]
    <3>1. Users(e)' = Users(e) \ {t} /\ t \in Users(e)
      BY <2>4 DEF Inv, TypeOK, Where, Users, BeginFree, Goto, entryVars, listVars, Step, Holding,
         Unlinking, Linking, Bumped, Waiting, Inside
    <3>2. Sleepers(e)' = Sleepers(e)
      BY <2>4 DEF Inv, TypeOK, Where, Sleepers, BeginFree, Goto, entryVars, listVars, Step,
         Holding, Unlinking, Linking, Bumped, Waiting, Inside
    <3>3. inuse'[e] = inuse[e] - 1
      BY <2>4, InUsePositive DEF Inv, TypeOK, Where, BeginFree, Goto, entryVars, listVars, Step,
         Holding, Unlinking, Linking, Bumped, Waiting, Inside
    <3>4. inuse[e] \in Nat
      BY DEF Inv, TypeOK
    <3>5. /\ Cardinality(Users(e)) \in Nat /\ Cardinality(Sleepers(e)) \in Nat
          /\ Cardinality(Users(e)') = Cardinality(Users(e)) - 1
          /\ Cardinality(Sleepers(e)') = Cardinality(Sleepers(e))
      BY <2>2, <3>1, <3>2, Counted
    <3> QED
      BY <2>1, <3>3, <3>4, <3>5
  <2> QED
    BY <2>3, <2>4
<1>8. Claimed'
  BY ClaimKept DEF Inv, TypeOK, Where, Locked, Holding, Unlinking, Bumped, Waiting, BeginFree, Goto,
     entryVars, listVars
<1> QED
  BY <1>1, <1>2, <1>3, <1>4, <1>5, <1>6, <1>7, <1>8 DEF Inv

\* One of the stores of _remove() and _prepend(), whatever links it sets.
LEMMA StoreKeeps ==
  ASSUME Inv, NEW t \in Threads, Linked(nextp', prevp'),
         NEW step \in Unlinking \cup Linking, NEW next \in Unlinking \cup Linking \cup {"dispose"},
         Store(t, step, next), listlock = t => next \in Unlinking
  PROVE  Inv'
<1> USE OplockAssumption
<1>1. /\ pc[t] = step /\ pc' = [pc EXCEPT ![t] = next]
      /\ UNCHANGED <<optr, life, ptr, inuse, disposed, lock, unused, listlock, obj, ent, counted, calls>>
  BY DEF Store, Goto, entryVars
<1>2. step \in Holding /\ next \in Holding /\ step \notin Bumped /\ next \notin Bumped /\ next \in Step
  BY DEF Holding, Unlinking, Linking, Bumped, Waiting, Step
<1>3. /\ \A u \in Threads : Inside(u)' <=> Inside(u)
      /\ \A u \in Threads : pc'[u] \in Bumped <=> pc[u] \in Bumped
      /\ \A u \in Threads : pc'[u] \in Holding <=> pc[u] \in Holding
  BY <1>1, <1>2 DEF Inside, Inv, TypeOK
<1>4. TypeOK'
  BY <1>1, <1>2 DEF Inv, TypeOK, Linked
<1>5. Where'
  <2>1. /\ next \notin {"idle", "called", "acquire", "scan"} /\ step \notin {"wait", "woken", "scan"}
    BY DEF Unlinking, Linking
  <2>2. \A u \in Threads : listlock = u /\ pc'[u] # "scan" => pc[u] # "scan"
    BY <1>1, <2>1 DEF Inv, TypeOK
  <2> QED
    BY <1>1, <1>3, <2>1, <2>2 DEF Inv, TypeOK, Where
<1>6. Locked' /\ InsideOwns'
  BY <1>1, <1>3 DEF Inv, Locked, InsideOwns, Mine
<1>7. Owners'
  BY <1>1 DEF Inv, Owners
<1>8. Apart'
  BY <1>1 DEF Inv, Apart, Linked
<1>9. InUseExact'
  BY <1>1, <1>3 DEF Inv, InUseExact
<1>10. Claimed'
  <2>1. step # "scan"
    BY DEF Unlinking, Linking
  <2> QED
    BY <1>1, <2>1 DEF Inv, TypeOK, Claimed, Reusable
<1> QED
  BY <1>4, <1>5, <1>6, <1>7, <1>8, <1>9, <1>10 DEF Inv

\* What a thread stores leads from an entry of the list to an entry of the list.
LEMMA LinkingKeeps ==
  ASSUME Inv, NEW t \in Threads,
         \/ Bypass(t) \/ Detach(t) \/ OwnNext(t) \/ OwnPrev(t)
         \/ PrependNext(t) \/ PrependPrev(t) \/ Link(t) \/ Chain(t)
  PROVE  Inv'
<1> DEFINE Known == (Entries \cup {Head}) \ unused
<1>1. /\ pc[t] \in Unlinking \cup Linking
      /\ ent[t] \in Known /\ Head \in Known
      /\ pc[t] \in Linking => listlock # t
  BY Given, OplockAssumption DEF Inv, TypeOK, Bypass, Detach, OwnNext, OwnPrev, PrependNext,
     PrependPrev, Link, Chain, Store, Unlinking, Linking
<1>2. nextp[ent[t]] \in Known /\ prevp[ent[t]] \in Known /\ prevp[Head] \in Known
  BY <1>1 DEF Inv, TypeOK, Apart
<1>3. CASE Bypass(t)
  BY <1>1, <1>2, <1>3, LinkedAfter, StoreKeeps DEF Bypass, Unlinking
<1>4. CASE Detach(t)
  BY <1>1, <1>2, <1>4, LinkedAfter, StoreKeeps DEF Detach, Unlinking
<1>5. CASE OwnNext(t)
  BY <1>1, <1>5, LinkedAfter, StoreKeeps DEF OwnNext, Unlinking
<1>6. CASE OwnPrev(t)
  BY <1>1, <1>6, LinkedAfter, StoreKeeps DEF OwnPrev, Unlinking, Linking
<1>7. CASE PrependNext(t)
  BY <1>1, <1>7, LinkedAfter, StoreKeeps DEF PrependNext, Store, Linking
<1>8. CASE PrependPrev(t)
  BY <1>1, <1>2, <1>8, LinkedAfter, StoreKeeps DEF PrependPrev, Store, Linking
<1>9. CASE Link(t)
  BY <1>1, <1>2, <1>9, LinkedAfter, StoreKeeps DEF Link, Store, Linking
<1>10. CASE Chain(t)
  BY <1>1, <1>10, LinkedAfter, StoreKeeps DEF Chain, Store, Linking
<1> QED
  BY <1>3, <1>4, <1>5, <1>6, <1>7, <1>8, <1>9, <1>10

LEMMA DisposeKeeps ==
  ASSUME Inv, NEW t \in Threads, Dispose(t)
  PROVE  Inv'
<1> USE OplockAssumption
<1> DEFINE e == ent[t]
<1>1. /\ pc[t] = "dispose" /\ listlock # t /\ ~counted[t] /\ Inside(t)
  BY DEF Dispose, Inv, Where, Inside, Holding, Unlinking
<1>2. /\ e \in Entries /\ lock[e] = t /\ obj[t] \in Objects /\ ptr[e] = obj[t]
      /\ life[obj[t]] \in {"live", "closing"}
  BY <1>1, Owned DEF Inv, Locked, Holding
<1>3. /\ pc' = [pc EXCEPT ![t] = "idle"] /\ obj' = [obj EXCEPT ![t] = None]
      /\ ent' = [ent EXCEPT ![t] = None] /\ lock' = [lock EXCEPT ![e] = None]
      /\ UNCHANGED <<inuse, nextp, prevp, unused, listlock, counted, calls>>
  BY DEF Dispose, Release, Leave, Goto, listVars
<1>4. \/ /\ inuse[e] = 0 /\ optr' = [optr EXCEPT ![obj[t]] = None] /\ disposed' = disposed
         /\ life' = [life EXCEPT ![obj[t]] = "dead"] /\ ptr' = [ptr EXCEPT ![e] = None]
      \/ disposed' = [disposed EXCEPT ![e] = TRUE] /\ UNCHANGED <<optr, life, ptr>>
  BY DEF Dispose
<1>5. /\ pc[t] \notin Bumped /\ pc'[t] = "idle" /\ ~Inside(t)'
      /\ \A u \in Threads : u # t => /\ Inside(u)' <=> Inside(u)
                                     /\ pc'[u] = pc[u] /\ obj'[u] = obj[u] /\ ent'[u] = ent[u]
  BY <1>1, <1>3 DEF Inside, Holding, Unlinking, Linking, Bumped, Waiting, Inv, TypeOK
<1>6. TypeOK'
  <2>1. disposed' \in [Entries -> BOOLEAN]
    BY <1>2, <1>4, ExceptBool DEF Inv, TypeOK
  <2>2. optr' \in [Objects -> Entries \cup {None}] /\ life' \in [Objects -> {"unborn", "live", "closing", "dead"}]
        /\ ptr' \in [Entries -> Objects \cup {None}]
    BY <1>2, <1>4 DEF Inv, TypeOK
  <2>3. pc' \in [Threads -> Step]
    BY <1>3 DEF Inv, TypeOK, Step
  <2> QED
    BY <1>2, <1>3, <2>1, <2>2, <2>3 DEF Inv, TypeOK
<1>7. Where'
  <2>1. \A o \in Objects : life[o] = "unborn" => life'[o] = "unborn"
    BY <1>2, <1>4 DEF Inv, TypeOK
  <2> QED
    BY <1>1, <1>3, <1>5, <2>1 DEF Inv, TypeOK, Where
<1>8. Claimed'
  BY <1>1, <1>2, <1>3, <1>4, <1>5, ClaimKept DEF Inv, TypeOK
<1>9. Locked'
  <2>1. \A u \in Threads : u # t /\ pc[u] \in Holding => ent[u] # e /\ lock[ent[u]] = u
    BY <1>2 DEF Inv, Locked
  <2> QED
    BY <1>2, <1>3, <1>5, <2>1 DEF Inv, TypeOK, Locked, Holding, Unlinking, Linking
<1>10. Owners'
  BY <1>2, <1>4 DEF Inv, TypeOK, Owners
<1>11. Apart'
  <2>1. e \notin unused
    BY <1>1, Owned
  <2> QED
    BY <1>2, <1>3, <1>4, <2>1 DEF Inv, TypeOK, Apart
<1>12. InsideOwns'
  <2> SUFFICES ASSUME NEW u \in Threads, Inside(u)'
               PROVE  ptr'[ent'[u]] = obj'[u] /\ life'[obj'[u]] \in {"live", "closing"}
    BY DEF InsideOwns, Mine, Inside
  <2>1. u # t /\ Inside(u) /\ ent'[u] = ent[u] /\ obj'[u] = obj[u]
    BY <1>5
  <2>2. /\ ent[u] \in Entries /\ obj[u] \in Objects
        /\ ptr[ent[u]] = obj[u] /\ life[obj[u]] \in {"live", "closing"}
    BY <2>1, Owned
  <2>3. inuse[e] = 0 => ent[u] # e /\ obj[u] # obj[t]
    BY <1>2, <2>1, <2>2, OthersOut DEF Inv, Owners
  <2> QED
    BY <1>2, <1>4, <2>1, <2>2, <2>3 DEF Inv, TypeOK
<1>13. InUseExact'
  <2>1. \A f \in Entries : /\ {u \in Threads : ent'[u] = f /\ pc'[u] \in Bumped} = Users(f)
                           /\ {u \in Threads : ent'[u] = f /\ counted'[u]} = Sleepers(f)
    BY <1>1, <1>3, <1>5 DEF Users, Sleepers, Bumped, Waiting
  <2> QED
    BY <1>3, <2>1 DEF Inv, InUseExact, Users, Sleepers
<1> QED
  BY <1>6, <1>7, <1>8, <1>9, <1>10, <1>11, <1>12, <1>13 DEF Inv

LEMMA BeginAllocKeeps ==
  ASSUME Inv, NEW t \in Threads, NEW o \in Objects, BeginAlloc(t, o)
  PROVE  Inv'
<1> USE OplockAssumption
<1>1. TypeOK'
  BY SMT, ExceptBool DEF Inv, TypeOK, Where, BeginAlloc, Goto, entryVars, listVars, Step, Holding,
     Unlinking, Linking, Bumped, Waiting, Inside
<1>2. Where'
  <2>1. /\ pc[t] = "idle" /\ listlock = None /\ life[o] = "unborn" /\ ~counted[t]
        /\ nextp[Head] \in (Entries \cup {Head}) \ unused
    BY OplockAssumption DEF BeginAlloc, Inv, TypeOK, Where, Apart
  <2>2. /\ pc' = [pc EXCEPT ![t] = "scan"] /\ obj' = [obj EXCEPT ![t] = o]
        /\ ent' = [ent EXCEPT ![t] = nextp[Head]] /\ listlock' = t
        /\ counted' = counted /\ unused' = unused /\ life' = life
    BY DEF BeginAlloc, Goto, listVars
  <2>3. \A u \in Threads : pc[u] # "scan"
    BY <2>1, OplockAssumption DEF Inv, Where
  <2> QED
    BY <2>1, <2>2, <2>3 DEF Inv, TypeOK, Where, Inside, Bumped, Waiting
<1>3. Locked'
  BY DEF Inv, TypeOK, Where, Locked, BeginAlloc, Goto, entryVars, listVars, Step, Holding,
     Unlinking, Linking, Bumped, Waiting, Inside
<1>4. Owners'
  BY DEF Inv, TypeOK, Where, Owners, BeginAlloc, Goto, entryVars, listVars, Step, Holding,
     Unlinking, Linking, Bumped, Waiting, Inside
<1>5. Apart'
  BY DEF Inv, TypeOK, Where, Apart, BeginAlloc, Goto, entryVars, listVars, Step, Holding, Unlinking,
     Linking, Bumped, Waiting, Inside
<1>6. InsideOwns'
  BY DEF Inv, TypeOK, Where, Locked, Owners, InsideOwns, Mine, BeginAlloc, Goto, entryVars,
     listVars, Step, Holding, Unlinking, Linking, Bumped, Waiting, Inside
<1>7. InUseExact'
  BY DEF Inv, TypeOK, Where, InUseExact, BeginAlloc, Goto, entryVars, listVars, Step, Holding,
     Unlinking, Linking, Bumped, Waiting, Inside
<1>8. Claimed'
  BY DEF BeginAlloc, Goto, Inv, TypeOK, Claimed
<1> QED
  BY <1>1, <1>2, <1>3, <1>4, <1>5, <1>6, <1>7, <1>8 DEF Inv

LEMMA SkipKeeps ==
  ASSUME Inv, NEW t \in Threads, Skip(t)
  PROVE  Inv'
<1> USE OplockAssumption
<1>1. TypeOK'
  BY SMT, ExceptBool DEF Inv, TypeOK, Where, Skip, entryVars, listVars, Step, Holding, Unlinking,
     Linking, Bumped, Waiting, Inside
<1>2. Where'
  <2>1. /\ pc[t] = "scan" /\ ent[t] \in Entries \ unused
        /\ nextp[ent[t]] \in (Entries \cup {Head}) \ unused
    BY DEF Skip, Inv, TypeOK, Where, Apart
  <2>2. ent' = [ent EXCEPT ![t] = nextp[ent[t]]]
    BY DEF Skip
  <2>3. UNCHANGED <<pc, obj, counted, unused, listlock, life>>
    BY DEF Skip, listVars
  <2> QED
    BY <2>1, <2>2, <2>3 DEF Inv, TypeOK, Where, Inside, Bumped, Waiting
<1>3. Locked'
  BY DEF Inv, TypeOK, Where, Locked, Skip, entryVars, listVars, Step, Holding, Unlinking, Linking,
     Bumped, Waiting, Inside
<1>4. Owners'
  BY DEF Inv, TypeOK, Where, Owners, Skip, entryVars, listVars, Step, Holding, Unlinking, Linking,
     Bumped, Waiting, Inside
<1>5. Apart'
  BY DEF Inv, TypeOK, Where, Apart, Skip, entryVars, listVars, Step, Holding, Unlinking, Linking,
     Bumped, Waiting, Inside
<1>6. InsideOwns'
  BY DEF Inv, TypeOK, Where, Locked, Owners, InsideOwns, Mine, Skip, entryVars, listVars, Step,
     Holding, Unlinking, Linking, Bumped, Waiting, Inside
<1>7. InUseExact'
  BY DEF Inv, TypeOK, Where, InUseExact, Skip, entryVars, listVars, Step, Holding, Unlinking,
     Linking, Bumped, Waiting, Inside
<1>8. Claimed'
  BY <1>2 DEF Inv, Where, Claimed, Skip, Reusable, entryVars
<1> QED
  BY <1>1, <1>2, <1>3, <1>4, <1>5, <1>6, <1>7, <1>8 DEF Inv

LEMMA FoundKeeps ==
  ASSUME Inv, NEW t \in Threads, Found(t)
  PROVE  Inv'
<1> USE OplockAssumption
<1>1. /\ pc[t] = "scan" /\ listlock = t /\ lock[ent[t]] = None /\ Reusable(ent[t])
      /\ ent[t] \in Entries \ unused
      /\ pc' = [pc EXCEPT ![t] = "bypass"] /\ lock' = [lock EXCEPT ![ent[t]] = t]
      /\ UNCHANGED <<optr, life, ptr, inuse, disposed, nextp, prevp, unused, listlock, obj, ent, counted, calls>>
  BY DEF Found, Goto, Take, Free, entryVars, listVars, Inv, TypeOK, Where
<1>2. /\ \A u \in Threads : Inside(u)' <=> Inside(u)
      /\ \A u \in Threads : pc'[u] \in Bumped <=> pc[u] \in Bumped
      /\ "bypass" \in Step /\ "bypass" \in Unlinking
  BY <1>1 DEF Inside, Inv, TypeOK, Step, Holding, Unlinking, Linking, Bumped, Waiting
<1>3. TypeOK'
  BY <1>1, <1>2 DEF Inv, TypeOK
<1>4. Where'
  <2>1. \A u \in Threads : u # t => listlock' # u
    BY <1>1
  <2> QED
    BY <1>1, <1>2, <2>1 DEF Inv, TypeOK, Where
<1>5. Locked'
  <2>1. \A u \in Threads : u # t /\ pc[u] \in Holding => lock[ent[u]] # None
    BY DEF Inv, Locked
  <2>2. \A u \in Threads : pc[u] \in Holding => ent[u] \in Entries
    <3> SUFFICES ASSUME NEW u \in Threads, pc[u] \in Holding PROVE ent[u] \in Entries
      OBVIOUS
    <3>1. CASE listlock = u
      <4>1. pc[u] # "scan"
        BY DEF Holding, Unlinking, Linking
      <4> QED
        BY <3>1, <4>1 DEF Inv, Where
    <3>2. CASE listlock # u
      BY <3>2, Owned DEF Inside
    <3> QED
      BY <3>1, <3>2
  <2> QED
    BY <1>1, <2>1, <2>2 DEF Inv, TypeOK, Locked
<1>6. Owners' /\ Apart'
  BY <1>1 DEF Inv, Owners, Apart
<1>7. InsideOwns'
  BY <1>1, <1>2 DEF Inv, InsideOwns, Mine
<1>8. InUseExact'
  BY <1>1, <1>2 DEF Inv, InUseExact
<1>9. Claimed'
  BY <1>1 DEF Claimed, Reusable
<1> QED
  BY <1>3, <1>4, <1>5, <1>6, <1>7, <1>8, <1>9 DEF Inv

LEMMA ReuseKeeps ==
  ASSUME Inv, NEW t \in Threads, Reuse(t)
  PROVE  Inv'
<1> USE OplockAssumption
<1> DEFINE e == ent[t]
<1>1. /\ pc[t] = "ownprev" /\ listlock = t /\ lock[e] = t /\ e \in Entries \ unused
      /\ obj[t] \in Objects /\ life[obj[t]] = "unborn" /\ ~counted[t]
      /\ ptr[e] = None \/ (inuse[e] = 0 /\ lock[e] \in {None, listlock})
  BY Given DEF Reuse, Reusable, Inv, Where, Claimed, Unlinking
<1>2. inuse[e] = 0 /\ \A u \in Threads : Inside(u) => ent[u] # e
  BY <1>1, Forsaken
<1>3. /\ ptr' = [ptr EXCEPT ![e] = obj[t]] /\ disposed' = [disposed EXCEPT ![e] = FALSE]
      /\ inuse' = [inuse EXCEPT ![e] = 0] /\ lock' = [lock EXCEPT ![e] = None] /\ listlock' = None
      /\ pc' = [pc EXCEPT ![t] = "idle"] /\ obj' = [obj EXCEPT ![t] = None]
      /\ ent' = [ent EXCEPT ![t] = None]
      /\ UNCHANGED <<unused, counted, calls>> /\ SetPrev(e, e)
  BY DEF Reuse, Give, Release, Leave, Goto
<1>4. inuse' = inuse
  BY <1>2, <1>3 DEF Inv, TypeOK
<1>5. /\ optr' = [p \in Objects |-> IF p = obj[t] THEN e ELSE IF p = ptr[e] THEN None ELSE optr[p]]
      /\ life' = [p \in Objects |-> IF p = obj[t] THEN "live" ELSE IF p = ptr[e] THEN "dead" ELSE life[p]]
  BY DEF Reuse
<1>6. Linked(nextp', prevp')
  BY <1>1, <1>3, LinkedAfter
<1>7. /\ ~Inside(t) /\ pc[t] \notin Bumped
      /\ \A u \in Threads : u # t => /\ Inside(u)' <=> Inside(u)
                                     /\ pc'[u] = pc[u] /\ obj'[u] = obj[u] /\ ent'[u] = ent[u]
      /\ pc'[t] = "idle" /\ ~Inside(t)'
  BY <1>1, <1>3 DEF Inside, Holding, Unlinking, Linking, Bumped, Waiting, Inv, TypeOK
<1>8. TypeOK'
  <2>1. disposed' \in [Entries -> BOOLEAN]
    BY <1>1, <1>3, ExceptBool DEF Inv, TypeOK
  <2>2. optr' \in [Objects -> Entries \cup {None}] /\ life' \in [Objects -> {"unborn", "live", "closing", "dead"}]
    BY <1>1, <1>5 DEF Inv, TypeOK
  <2>3. pc' \in [Threads -> Step]
    BY <1>3 DEF Inv, TypeOK, Step
  <2> QED
    BY <1>1, <1>3, <1>4, <1>6, <2>1, <2>2, <2>3 DEF Inv, TypeOK, Linked
<1>9. Where'
  <2>1. \A u \in Threads : listlock' # u /\ (u # t => listlock # u)
    BY <1>1, <1>3
  <2> SUFFICES ASSUME NEW u \in Threads
      PROVE /\ pc'[u] = "idle" => obj'[u] = None /\ ent'[u] = None
            /\ pc'[u] = "called" => obj'[u] \in Objects /\ ent'[u] = None
            /\ Inside(u)' \/ pc'[u] = "acquire" => obj'[u] \in Objects /\ ent'[u] \in Entries
            /\ pc'[u] # "scan"
            /\ counted'[u] => pc'[u] \in {"wait", "woken"}
    BY <2>1 DEF Where
  <2>2. CASE u = t
    BY <1>1, <1>3, <1>7, <2>2 DEF Inv, TypeOK
  <2>3. CASE u # t
    BY <1>3, <1>7, <2>1, <2>3 DEF Inv, Where
  <2> QED
    BY <2>2, <2>3
<1>10. Locked'
  <2>1. \A u \in Threads : u # t /\ pc[u] \in Holding => ent[u] # e /\ lock[ent[u]] = u
    BY <1>1 DEF Inv, Locked
  <2> QED
    BY <1>1, <1>3, <1>7, <2>1 DEF Inv, TypeOK, Locked, Holding, Unlinking, Linking
<1>11. Owners'
  <2>1. \A f \in Entries : ptr[f] # obj[t]
    BY <1>1 DEF Inv, Owners
  <2> QED
    BY <1>1, <1>3, <1>5, <2>1 DEF Inv, TypeOK, Owners
<1>12. Apart'
  BY <1>1, <1>3, <1>6 DEF Inv, TypeOK, Apart, Linked
<1>13. InsideOwns'
  <2> SUFFICES ASSUME NEW u \in Threads, Inside(u)'
               PROVE  ptr'[ent'[u]] = obj'[u] /\ life'[obj'[u]] \in {"live", "closing"}
    BY DEF InsideOwns, Mine, Inside
  <2>1. u # t /\ Inside(u) /\ ent'[u] = ent[u] /\ obj'[u] = obj[u]
    BY <1>7
  <2>2. /\ ent[u] \in Entries /\ obj[u] \in Objects
        /\ ptr[ent[u]] = obj[u] /\ life[obj[u]] \in {"live", "closing"}
    BY <2>1, Owned
  <2>3. ent[u] # e
    BY <1>2, <2>1
  <2>4. obj[u] # ptr[e]
    BY <1>1, <2>2, <2>3 DEF Inv, Owners
  <2> QED
    BY <1>1, <1>3, <1>5, <2>1, <2>2, <2>3, <2>4 DEF Inv, TypeOK
<1>14. InUseExact'
  <2>1. \A f \in Entries : /\ {u \in Threads : ent'[u] = f /\ pc'[u] \in Bumped} = Users(f)
                           /\ {u \in Threads : ent'[u] = f /\ counted'[u]} = Sleepers(f)
    BY <1>1, <1>3, <1>7 DEF Users, Sleepers, Bumped, Waiting
  <2> QED
    BY <1>4, <2>1 DEF Inv, InUseExact, Users, Sleepers
<1>15. Claimed'
  BY <1>3 DEF Claimed
<1> QED
  BY <1>8, <1>9, <1>10, <1>11, <1>12, <1>13, <1>14, <1>15 DEF Inv

LEMMA NewEntryKeeps ==
  ASSUME Inv, NEW t \in Threads, NewEntry(t)
  PROVE  Inv'
<1> USE OplockAssumption
<1>1. TypeOK'
  BY SMT, ExceptBool DEF Inv, TypeOK, Where, NewEntry, Give, Leave, Goto, entryVars, listVars,
     Step, Holding, Unlinking, Linking, Bumped, Waiting, Inside
<1>2. Where'
  BY DEF Inv, TypeOK, Where, NewEntry, Give, Leave, Goto, entryVars, listVars, Step, Holding,
     Unlinking, Linking, Bumped, Waiting, Inside
<1>3. Locked'
  BY DEF Inv, TypeOK, Where, Locked, NewEntry, Give, Leave, Goto, entryVars, listVars, Step,
     Holding, Unlinking, Linking, Bumped, Waiting, Inside
<1>4. Owners'
  BY DEF Inv, TypeOK, Where, Owners, NewEntry, Give, Leave, Goto, entryVars, listVars, Step,
     Holding, Unlinking, Linking, Bumped, Waiting, Inside
<1>5. Apart'
  BY DEF Inv, TypeOK, Where, Apart, NewEntry, Give, Leave, Goto, entryVars, listVars, Step,
     Holding, Unlinking, Linking, Bumped, Waiting, Inside
<1>6. InsideOwns'
  <2>1. PICK e \in unused : ptr' = [ptr EXCEPT ![e] = obj[t]] /\ life' = [life EXCEPT ![obj[t]] = "live"]
    BY DEF NewEntry, Give
  <2>2. e \in Entries /\ ptr[e] = None
    BY DEF Inv, TypeOK, Apart
  <2> SUFFICES ASSUME NEW u \in Threads, Inside(u)'
               PROVE  ptr'[ent'[u]] = obj'[u] /\ life'[obj'[u]] \in {"live", "closing"}
    BY DEF InsideOwns, Mine, Inside
  <2>3. u # t /\ Inside(u) /\ ent'[u] = ent[u] /\ obj'[u] = obj[u]
    BY DEF NewEntry, Give, Leave, Goto, Inv, TypeOK, Where, Inside, Holding, Unlinking, Linking,
       Bumped, Waiting
  <2>4. /\ ent[u] \in Entries /\ obj[u] \in Objects
        /\ ptr[ent[u]] = obj[u] /\ life[obj[u]] \in {"live", "closing"}
    BY <2>3, Owned
  <2>5. ent[u] # e
    BY <2>2, <2>4, OplockAssumption
  <2> QED
    BY <2>1, <2>2, <2>3, <2>4, <2>5 DEF Inv, TypeOK
<1>7. InUseExact'
  <2> SUFFICES ASSUME NEW e \in Entries
               PROVE  inuse'[e] = Cardinality(Users(e)') + Cardinality(Sleepers(e)')
    BY DEF InUseExact, Users, Sleepers
  <2>1. inuse[e] = Cardinality(Users(e)) + Cardinality(Sleepers(e))
    BY DEF Inv, InUseExact, Users, Sleepers
  <2>2. Users(e)' = Users(e) /\ Sleepers(e)' = Sleepers(e)
    BY DEF Inv, TypeOK, Where, Users, Sleepers, NewEntry, Give, Leave, Goto, entryVars, listVars,
       Step, Holding, Unlinking, Linking, Bumped, Waiting, Inside
  <2>3. inuse'[e] = inuse[e]
    BY Forsaken, OplockAssumption DEF Inv, TypeOK, Apart, NewEntry, Give
  <2> QED
    BY <2>1, <2>2, <2>3
<1>8. Claimed'
  BY DEF NewEntry, Give, Claimed
<1> QED
  BY <1>1, <1>2, <1>3, <1>4, <1>5, <1>6, <1>7, <1>8 DEF Inv

LEMMA InitInv ==
  ASSUME Init
  PROVE  Inv
<1> USE OplockAssumption
<1>1. /\ FirstEntry \in [First -> Entries]
      /\ \A o, p \in First : FirstEntry[o] = FirstEntry[p] => o = p
  BY DEF FirstEntry
<1>2. \A o \in First : o \in Objects /\ optr[o] = FirstEntry[o] /\ optr[o] \in Entries
  BY <1>1 DEF Init
<1>3. ASSUME NEW e \in Entries, ptr[e] # None
      PROVE  ptr[e] \in First /\ optr[ptr[e]] = e
  <2>1. \E o \in First : optr[o] = e
    BY <1>3 DEF Init
  <2>2. ptr[e] = CHOOSE o \in First : optr[o] = e
    BY <2>1 DEF Init
  <2> QED
    BY <2>1, <2>2
<1>4. ptr \in [Entries -> Objects \cup {None}]
  BY <1>3 DEF Init
<1>5. TypeOK
  <2>1. optr \in [Objects -> Entries \cup {None}]
    BY <1>1 DEF Init
  <2>2. life \in [Objects -> {"unborn", "live", "closing", "dead"}]
    BY DEF Init
  <2>3. pc \in [Threads -> Step]
    BY DEF Init, Step
  <2>4. /\ nextp \in [Entries \cup {Head} -> Entries \cup {Head}]
        /\ prevp \in [Entries \cup {Head} -> Entries \cup {Head}]
    BY DEF Init
  <2>5. /\ obj \in [Threads -> Objects \cup {None}] /\ ent \in [Threads -> Entries \cup {None, Head}]
        /\ lock \in [Entries -> Threads \cup {None}] /\ listlock \in Threads \cup {None}
        /\ unused \subseteq Entries /\ calls \in 0..MaxCalls /\ inuse \in [Entries -> Nat]
    BY DEF Init
  <2>6. disposed \in [Entries -> BOOLEAN] /\ counted \in [Threads -> BOOLEAN]
    BY DEF Init
  <2> QED
    BY <1>4, <2>1, <2>2, <2>3, <2>4, <2>5, <2>6 DEF TypeOK
<1>6. Where /\ Claimed /\ Locked /\ InsideOwns
  BY DEF Init, Where, Claimed, Locked, InsideOwns, Inside, Holding, Unlinking, Linking, Bumped,
     Waiting
<1>7. Owners
  <2> SUFFICES ASSUME NEW e \in Entries, ptr[e] # None
               PROVE  /\ life[ptr[e]] \in {"live", "closing"}
                      /\ \A f \in Entries : ptr[f] = ptr[e] => f = e
    BY DEF Owners
  <2>1. life[ptr[e]] = "live"
    BY <1>3 DEF Init
  <2> QED
    BY <1>3, <2>1
<1>8. Apart
  BY DEF Init, Apart
<1>9. InUseExact
  <2> SUFFICES ASSUME NEW e \in Entries
               PROVE  inuse[e] = Cardinality(Users(e)) + Cardinality(Sleepers(e))
    BY DEF InUseExact, Users, Sleepers
  <2>1. Users(e) = {} /\ Sleepers(e) = {}
    BY DEF Init, Users, Sleepers, Bumped, Waiting
  <2> QED
    BY <2>1, FS_EmptySet DEF Init
<1> QED
  BY <1>5, <1>6, <1>7, <1>8, <1>9 DEF Inv

LEMMA NextInv ==
  ASSUME Inv, [Next]_vars
  PROVE  Inv'
<1>1. CASE UNCHANGED vars
  BY <1>1 DEF vars, entryVars, listVars, Inv, TypeOK, Where, Claimed, Locked, Owners, Apart,
              InsideOwns, Inside, Reusable, Mine, InUseExact
<1>2. ASSUME NEW t \in Threads, Steps(t)
      PROVE  Inv'
  BY <1>2, CopyPtrKeeps, RefusedKeeps, AcquireKeeps, ExitKeeps, ReacquireKeeps, TempReleaseKeeps,
     AwaitAloneKeeps, WokenAloneKeeps, WaitEndsKeeps, BeginFreeKeeps, LinkingKeeps, DisposeKeeps,
     SkipKeeps, FoundKeeps, ReuseKeeps, NewEntryKeeps DEF Steps
<1>3. ASSUME NEW t \in Threads, TempRelease(t) \/ WaitOn(t) \/ Close(t)
      PROVE  Inv'
  BY <1>3, TempReleaseKeeps, WaitOnKeeps, CloseKeeps
<1>4. ASSUME NEW t \in Threads, NEW u \in Threads, Signal(t, u)
      PROVE  Inv'
  BY <1>4, SignalKeeps
<1>5. ASSUME NEW t \in Threads, NEW o \in Objects, Call(t, o) \/ BeginAlloc(t, o)
      PROVE  Inv'
  BY <1>5, CallKeeps, BeginAllocKeeps
<1> QED
  BY <1>1, <1>2, <1>3, <1>4, <1>5 DEF Next

\* The invariant holds in every state of every run, whatever the number of
\* threads, objects and entries of RDIOplocks.
THEOREM Invariance == Spec => []Inv
BY InitInv, NextInv, PTL DEF Spec

\* The variables of the model of RDIOplocks keep their types.
THEOREM TypeCorrect == Spec => []TypeOK
<1>1. Inv => TypeOK
  BY DEF Inv
<1> QED
  BY <1>1, Invariance, PTL

\* A thread inside an object, or one that disposes of it, finds the entry it
\* copied still with its object: reacquire() after a temporary release cannot
\* meet another owner.
THEOREM EntriesStay == Spec => []InsideOwns
<1>1. Inv => InsideOwns
  BY DEF Inv
<1> QED
  BY <1>1, Invariance, PTL

\* _inuse is the number of the threads inside, plus those that wait, across
\* all the owners an entry has had.
THEOREM CountsExact == Spec => []InUseExact
<1>1. Inv => InUseExact
  BY DEF Inv
<1> QED
  BY <1>1, Invariance, PTL

--------------------------------------------------------------------------------
(* Lifetimes of objects *)

\* A thread that closes an object or disposes of it, and an entry whose owner
\* waits for its disposal, are through with the live object.
Closers == {"closing", "waitone", "wokenone", "closeout", "closed", "dispose"}
Closer(t) == pc[t] \in Closers \cup Linking \/ (pc[t] \in Unlinking /\ listlock # t)
Closed ==
  /\ \A t \in Threads : Closer(t) => life[obj[t]] = "closing"
  /\ \A e \in Entries : disposed[e] /\ ptr[e] # None => life[ptr[e]] = "closing"

\* What a step may do to an object that is closed, and how an object gets
\* there.
Onward ==
  /\ \A o \in Objects : life[o] = "closing" => life'[o] \in {"closing", "dead"}
  /\ \A t \in Threads : Closer(t)' =>
       obj'[t] = obj[t] /\ (Closer(t) \/ life'[obj[t]] = "closing")
  /\ \A e \in Entries : disposed'[e] /\ ptr'[e] # None =>
       /\ ptr'[e] = ptr[e]
       /\ disposed[e] \/ \E t \in Threads : pc[t] = "dispose" /\ ent[t] = e

LEMMA StepOnward ==
  ASSUME Inv, [Next]_vars
  PROVE  Onward
<1> USE OplockAssumption DEF Inv, TypeOK, Onward, Closer, Closers, Linking, Unlinking
<1>0. CASE UNCHANGED vars
  BY <1>0 DEF vars, entryVars
<1>1. ASSUME NEW t \in Threads, CopyPtr(t) PROVE Onward
  BY <1>1 DEF CopyPtr, Goto, Leave, entryVars, listVars
<1>2. ASSUME NEW t \in Threads, Refused(t) PROVE Onward
  BY <1>2 DEF Refused, Goto, Leave, entryVars, listVars
<1>3. ASSUME NEW t \in Threads, Acquire(t) PROVE Onward
  BY <1>3 DEF Acquire, Goto, Take, Bump, entryVars, listVars
<1>4. ASSUME NEW t \in Threads, Exit(t) PROVE Onward
  BY <1>4 DEF Exit, Goto, Debump, Release, entryVars, listVars
<1>5. ASSUME NEW t \in Threads, Reacquire(t) PROVE Onward
  BY <1>5 DEF Reacquire, Goto, Take, entryVars, listVars
<1>6. ASSUME NEW t \in Threads, TempRelease(t) PROVE Onward
  BY <1>6 DEF TempRelease, Goto, Release, entryVars, listVars
<1>7. ASSUME NEW t \in Threads, AwaitAlone(t) PROVE Onward
  BY <1>7 DEF AwaitAlone, Goto, Release, entryVars, listVars
<1>8. ASSUME NEW t \in Threads, WokenAlone(t) PROVE Onward
  BY <1>8 DEF WokenAlone, Goto, Take, entryVars, listVars
<1>9. ASSUME NEW t \in Threads, WaitEnds(t) PROVE Onward
  BY <1>9 DEF WaitEnds, Goto, Take, entryVars, listVars
<1>10. ASSUME NEW t \in Threads, BeginFree(t) PROVE Onward
  BY <1>10 DEF BeginFree, Goto, entryVars, listVars
<1>11. ASSUME NEW t \in Threads, Bypass(t) \/ Detach(t) \/ OwnNext(t) \/ OwnPrev(t) PROVE Onward
  BY <1>11 DEF Bypass, Detach, OwnNext, OwnPrev, Store, Goto, entryVars
<1>12. ASSUME NEW t \in Threads, PrependNext(t) \/ PrependPrev(t) \/ Link(t) \/ Chain(t) PROVE Onward
  BY <1>12 DEF PrependNext, PrependPrev, Link, Chain, Store, Goto, entryVars
<1>13. ASSUME NEW t \in Threads, Dispose(t) PROVE Onward
  BY <1>13 DEF Dispose, Goto, Leave, Release, entryVars, listVars
<1>14. ASSUME NEW t \in Threads, Skip(t) PROVE Onward
  BY <1>14 DEF Skip, Goto, entryVars, listVars
<1>15. ASSUME NEW t \in Threads, Reuse(t) PROVE Onward
  BY <1>15 DEF Where, Reuse, Goto, Give, Leave, Owners
<1>16. ASSUME NEW t \in Threads, NewEntry(t) PROVE Onward
  BY <1>16 DEF Where, NewEntry, Goto, Give, Leave, entryVars, listVars, Apart
<1>17. ASSUME NEW t \in Threads, WaitOn(t) PROVE Onward
  BY <1>17 DEF WaitOn, Goto, Release, entryVars, listVars
<1>18. ASSUME NEW t \in Threads, Close(t) PROVE Onward
  BY <1>18 DEF Where, Inside, Bumped, Waiting, Close, Goto, entryVars, listVars
<1>19. ASSUME NEW t \in Threads, NEW u \in Threads, Signal(t, u) PROVE Onward
  BY <1>19 DEF Signal, Goto, entryVars, listVars
<1>20. ASSUME NEW t \in Threads, NEW o \in Objects, Call(t, o) PROVE Onward
  BY <1>20 DEF Where, Call, Goto, entryVars, listVars
<1>21. ASSUME NEW t \in Threads, NEW o \in Objects, BeginAlloc(t, o) PROVE Onward
  BY <1>21 DEF Where, BeginAlloc, Goto, entryVars, listVars
<1>22. ASSUME NEW t \in Threads, Found(t) PROVE Onward
  BY <1>22 DEF Where, Found, Goto, entryVars
<1> QED
  BY <1>0, <1>1, <1>2, <1>3, <1>4, <1>5, <1>6, <1>7, <1>8, <1>9, <1>10, <1>11, <1>12, <1>13,
     <1>14, <1>15, <1>16, <1>17, <1>18, <1>19, <1>20, <1>21, <1>22 DEF Next, Steps

LEMMA ClosedKept ==
  ASSUME Inv, Closed, [Next]_vars
  PROVE  Closed'
<1> USE StepOnward DEF Onward
<1>1. Inv'
  BY NextInv
<1>2. ASSUME NEW o \in Objects, life[o] = "closing", life'[o] \in {"live", "closing"}
      PROVE  life'[o] = "closing"
  BY <1>2
<1>3. ASSUME NEW t \in Threads, Closer(t)'
      PROVE  life'[obj'[t]] = "closing"
  <2>1. obj'[t] = obj[t] /\ (Closer(t) \/ life'[obj[t]] = "closing")
    BY <1>3
  <2>2. Inside(t)'
    BY <1>1, <1>3 DEF Inv, Where, Closer, Closers, Inside, Holding, Unlinking, Linking, Bumped,
       Waiting
  <2>3. obj'[t] \in Objects /\ life'[obj'[t]] \in {"live", "closing"}
    BY <1>1, <2>2 DEF Inv, InsideOwns, Where
  <2> QED
    BY <1>2, <1>3, <2>1, <2>3 DEF Closed
<1>4. ASSUME NEW e \in Entries, disposed'[e], ptr'[e] # None
      PROVE  life'[ptr'[e]] = "closing"
  <2>1. ptr'[e] = ptr[e] /\ ptr[e] \in Objects /\ life'[ptr[e]] \in {"live", "closing"}
    BY <1>1, <1>4 DEF Inv, TypeOK, Owners
  <2>2. CASE disposed[e]
    BY <1>2, <1>4, <2>1, <2>2 DEF Closed
  <2>3. ASSUME NEW t \in Threads, pc[t] = "dispose", ent[t] = e PROVE life[ptr[e]] = "closing"
    BY <2>3, Owned DEF Closed, Closer, Closers, Inside, Holding, Inv, Where, Unlinking
  <2> QED
    BY <1>2, <1>4, <2>1, <2>2, <2>3
<1> QED
  BY <1>3, <1>4 DEF Closed

\* The steps of the program as steps of objects and the threads inside them.
LEMMA InitLife ==
  ASSUME Init
  PROVE  Life!Init
<1>1. \A o \in Objects : UsersOf(o) = {}
  BY DEF Init, UsersOf, Bumped, Waiting
<1> QED
  BY <1>1 DEF Init, Life!Init

\* A step at which no thread goes in or out, and no object changes.
LEMMA Stutters ==
  ASSUME UNCHANGED life,
         \A t \in Threads : /\ pc[t] \in Bumped <=> pc'[t] \in Bumped
                            /\ pc[t] \in Bumped => obj'[t] = obj[t]
  PROVE  UNCHANGED Life!vars
<1>1. \A o \in Objects : UsersOf(o)' = UsersOf(o)
  BY DEF UsersOf
<1> QED
  BY <1>1 DEF Life!vars

\* A step at which one thread goes in or out.
LEMMA Leaves ==
  ASSUME NEW t \in Threads, pc[t] \in Bumped, obj[t] \in Objects, UNCHANGED life, pc'[t] \notin Bumped,
         \A u \in Threads \ {t} : /\ pc[u] \in Bumped <=> pc'[u] \in Bumped
                                  /\ obj'[u] = obj[u]
  PROVE  Life!Next
<1>1. PICK o \in Objects : obj[t] = o
  OBVIOUS
<1>2. UsersOf(o)' = UsersOf(o) \ {t} /\ t \in UsersOf(o)
  BY <1>1 DEF UsersOf
<1>3. \A p \in Objects \ {o} : UsersOf(p)' = UsersOf(p)
  BY <1>1 DEF UsersOf
<1>4. Life!Leave(t, o)
  BY <1>2, <1>3 DEF Life!Leave
<1> QED
  BY <1>4 DEF Life!Next

\* An entry nobody has bumped is that of an object nobody is inside of.
LEMMA Unvisited ==
  ASSUME Inv, NEW e \in Entries, ptr[e] # None, inuse[e] = 0
  PROVE  UsersOf(ptr[e]) = {}
<1> SUFFICES ASSUME NEW t \in Threads, obj[t] = ptr[e], pc[t] \in Bumped PROVE FALSE
  BY DEF UsersOf
<1>1. ent[t] \in Entries /\ ptr[ent[t]] = ptr[e]
  BY Owned DEF Inside
<1>2. ent[t] = e
  BY <1>1 DEF Inv, Owners
<1> QED
  BY <1>2, InUsePositive

LEMMA StepLife ==
  ASSUME Inv, Closed, [Next]_vars
  PROVE  [Life!Next]_Life!vars
<1> DEFINE Done == [Life!Next]_Life!vars
<1> USE OplockAssumption DEF Goto
<1>1. CASE UNCHANGED vars
  BY <1>1, Stutters DEF vars
<1>2. ASSUME NEW t \in Threads, CopyPtr(t) \/ Refused(t) \/ Skip(t) PROVE Done
  BY <1>2, Stutters DEF CopyPtr, Refused, Skip, Leave, Bumped, Waiting, Inv, TypeOK
<1>3. ASSUME NEW t \in Threads, Acquire(t) PROVE Done
  <2>1. /\ obj[t] \in Objects /\ ent[t] \in Entries /\ ptr[ent[t]] = obj[t] /\ obj[t] # None
        /\ pc[t] = "acquire" /\ pc'[t] = "in" /\ obj' = obj /\ life' = life
        /\ \A u \in Threads \ {t} : pc'[u] = pc[u]
    BY <1>3 DEF Acquire, Acquirable, Mine, Inv, Where, TypeOK
  <2>2. life[obj[t]] \in {"live", "closing"}
    BY <2>1 DEF Inv, Owners
  <2>3. t \notin UsersOf(obj[t]) /\ UsersOf(obj[t])' = UsersOf(obj[t]) \cup {t}
    BY <2>1 DEF UsersOf, Bumped, Waiting
  <2>4. \A o \in Objects \ {obj[t]} : UsersOf(o)' = UsersOf(o)
    BY <2>1 DEF UsersOf
  <2>5. Life!Enter(t, obj[t])
    BY <2>1, <2>2, <2>3, <2>4 DEF Life!Enter
  <2> QED
    BY <2>1, <2>5 DEF Life!Next
<1>4. ASSUME NEW t \in Threads, Exit(t) PROVE Done
  BY <1>4, Leaves DEF Exit, Debump, Bumped, Waiting, Inv, TypeOK, Where, Inside
<1>5. ASSUME NEW t \in Threads, BeginFree(t) PROVE Done
  BY <1>5, Leaves DEF BeginFree, Bumped, Waiting, Inv, TypeOK, Where, Inside
<1>6. ASSUME NEW t \in Threads, Reacquire(t) \/ TempRelease(t) \/ WokenAlone(t) \/ WaitEnds(t) PROVE Done
  BY <1>6, Stutters DEF Reacquire, TempRelease, WokenAlone, WaitEnds, Bumped, Waiting, Inv, TypeOK
<1>7. ASSUME NEW t \in Threads, AwaitAlone(t) PROVE Done
  BY <1>7, Stutters DEF AwaitAlone, Bumped, Waiting, Inv, TypeOK
<1>8. ASSUME NEW t \in Threads, WaitOn(t) \/ Found(t) PROVE Done
  BY <1>8, Stutters DEF WaitOn, Found, Bumped, Waiting, Inv, TypeOK
<1>9. ASSUME NEW t \in Threads, NEW u \in Threads, Signal(t, u) PROVE Done
  BY <1>9, Stutters DEF Signal, Bumped, Waiting, Inv, TypeOK
<1>10. ASSUME NEW t \in Threads, NEW o \in Objects, Call(t, o) \/ BeginAlloc(t, o) PROVE Done
  BY <1>10, Stutters DEF Call, BeginAlloc, Bumped, Waiting, Inv, TypeOK
<1>11. ASSUME NEW t \in Threads, Close(t) PROVE Done
  <2>1. /\ obj[t] \in Objects /\ pc[t] = "in" /\ life[obj[t]] = "live"
        /\ life' = [life EXCEPT ![obj[t]] = "closing"] /\ obj' = obj
        /\ \A u \in Threads : pc[u] \in Bumped <=> pc'[u] \in Bumped
    BY <1>11 DEF Close, Inv, TypeOK, Where, Inside, Bumped, Waiting
  <2>2. \A o \in Objects : UsersOf(o)' = UsersOf(o)
    BY <2>1 DEF UsersOf
  <2>3. t \in UsersOf(obj[t])
    BY <2>1 DEF UsersOf, Bumped
  <2>4. Life!Close(t, obj[t])
    BY <2>1, <2>2, <2>3 DEF Life!Close
  <2> QED
    BY <2>1, <2>4 DEF Life!Next
<1>12. ASSUME NEW t \in Threads, Dispose(t) PROVE Done
  <2>1. /\ ent[t] \in Entries /\ obj[t] \in Objects /\ ptr[ent[t]] = obj[t] /\ obj[t] # None
        /\ life[obj[t]] = "closing" /\ pc[t] = "dispose"
    BY <1>12, Owned DEF Dispose, Closed, Closer, Closers, Inside, Holding, Inv, Where, Unlinking
  <2>2. \A u \in Threads : /\ pc[u] \in Bumped <=> pc'[u] \in Bumped
                           /\ pc[u] \in Bumped => obj'[u] = obj[u]
    BY <1>12 DEF Dispose, Leave, Bumped, Waiting, Inv, TypeOK
  <2>3. \A o \in Objects : UsersOf(o)' = UsersOf(o)
    BY <2>2 DEF UsersOf
  <2>4. CASE inuse[ent[t]] = 0
    <3>1. UsersOf(obj[t]) = {}
      BY <2>1, <2>4, Unvisited
    <3>2. life' = [life EXCEPT ![obj[t]] = "dead"]
      BY <1>12, <2>4 DEF Dispose
    <3>3. Life!Dispose(obj[t])
      BY <2>1, <2>3, <3>1, <3>2 DEF Life!Dispose, Life!Disposable
    <3> QED
      BY <2>1, <3>3 DEF Life!Next
  <2>5. CASE inuse[ent[t]] # 0
    BY <1>12, <2>2, <2>5, Stutters DEF Dispose
  <2> QED
    BY <2>4, <2>5
<1>13. ASSUME NEW t \in Threads, Reuse(t) PROVE Done
  <2> DEFINE e == ent[t]
             old == ptr[e]
  <2>1. /\ obj[t] \in Objects /\ life[obj[t]] = "unborn" /\ e \in Entries
        /\ old \in Objects \cup {None} /\ life \in [Objects -> {"unborn", "live", "closing", "dead"}]
    BY <1>13 DEF Reuse, Inv, TypeOK, Where
  <2>2. \A u \in Threads : /\ pc[u] \in Bumped <=> pc'[u] \in Bumped
                           /\ pc[u] \in Bumped => obj'[u] = obj[u]
    BY <1>13 DEF Reuse, Give, Leave, Bumped, Waiting, Inv, TypeOK
  <2>3. \A o \in Objects : UsersOf(o)' = UsersOf(o)
    BY <2>2 DEF UsersOf
  <2>4. CASE old = None
    <3>1. life' = [life EXCEPT ![obj[t]] = "live"]
      BY <1>13, <2>1, <2>4 DEF Reuse
    <3>2. Life!Create(obj[t])
      BY <2>1, <2>3, <3>1 DEF Life!Create
    <3> QED
      BY <2>1, <3>2 DEF Life!Next
  <2>5. CASE old # None
    <3>1. disposed[e] /\ inuse[e] = 0
      BY <1>13, <2>5 DEF Reuse, Reusable, Inv, Claimed
    <3>2. life[old] = "closing" /\ UsersOf(old) = {} /\ old \in Objects
      BY <2>1, <2>5, <3>1, Unvisited DEF Closed
    <3>3. life' = [life EXCEPT ![obj[t]] = "live", ![old] = "dead"]
      BY <1>13, <2>1, <3>2 DEF Reuse
    <3>4. Life!Create(obj[t])
      BY <2>1, <2>3, <3>2, <3>3 DEF Life!Create, Life!Disposable
    <3> QED
      BY <2>1, <3>4 DEF Life!Next
  <2> QED
    BY <2>4, <2>5
<1>14. ASSUME NEW t \in Threads, NewEntry(t) PROVE Done
  <2>1. /\ obj[t] \in Objects /\ life[obj[t]] = "unborn"
        /\ life' = [life EXCEPT ![obj[t]] = "live"]
    BY <1>14 DEF NewEntry, Inv, TypeOK, Where
  <2>2. \A u \in Threads : /\ pc[u] \in Bumped <=> pc'[u] \in Bumped
                           /\ pc[u] \in Bumped => obj'[u] = obj[u]
    BY <1>14 DEF NewEntry, Give, Leave, Bumped, Waiting, Inv, TypeOK
  <2>3. \A o \in Objects : UsersOf(o)' = UsersOf(o)
    BY <2>2 DEF UsersOf
  <2>4. Life!Create(obj[t])
    BY <2>1, <2>3 DEF Life!Create
  <2> QED
    BY <2>1, <2>4 DEF Life!Next
<1>15. ASSUME NEW t \in Threads, Bypass(t) \/ Detach(t) \/ OwnNext(t) \/ OwnPrev(t) PROVE Done
  BY <1>15, Stutters
  DEF Bypass, Detach, OwnNext, OwnPrev, Store, Bumped, Waiting, Inv, TypeOK
<1>16. ASSUME NEW t \in Threads, PrependNext(t) \/ PrependPrev(t) \/ Link(t) \/ Chain(t) PROVE Done
  BY <1>16, Stutters
  DEF PrependNext, PrependPrev, Link, Chain, Store, Bumped, Waiting, Inv, TypeOK
<1> QED
  BY <1>1, <1>2, <1>3, <1>4, <1>5, <1>6, <1>7, <1>8, <1>9, <1>10, <1>11, <1>12, <1>13, <1>14,
     <1>15, <1>16
  DEF Next, Steps

\* RDIOplocks gives objects the lifetimes of Lifetimes: whatever entries are
\* shared, reused or waited on, an object is disposed of once, after it has
\* been closed, and with no thread inside.
THEOREM ObjectLifetimes == Spec => ImplementsLifetimes
<1>1. Init => Life!Init
  BY InitLife
<1>2. Init => Closed
  BY DEF Init, Closed, Closer, Closers, Linking, Unlinking
<1>3. Inv /\ Closed /\ [Next]_vars => Closed'
  BY ClosedKept
<1>4. Inv /\ Closed /\ [Next]_vars => [Life!Next]_Life!vars
  BY StepLife
<1> QED
  BY <1>1, <1>2, <1>3, <1>4, Invariance, PTL DEF Spec, ImplementsLifetimes, Life!LifeSpec

================================================================================
