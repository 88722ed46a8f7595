---------------------------- MODULE EventQueueProofs ----------------------------
(***************************************************************************)
(* What holds of RDI_EventQueue for any number of admin threads, events    *)
(* and proxy queues; and that with no limit it implements EventLog.        *)
(***************************************************************************)
EXTENDS EventQueue, FiniteSetTheorems, TLAPS

--------------------------------------------------------------------------------
(* Counting readers *)

\* The readers of an event can be counted.
LEMMA ReadersCount ==
  ASSUME NEW e
  PROVE  IsFiniteSet(Readers(e)) /\ Cardinality(Readers(e)) \in Nat
<1>1. Readers(e) \in SUBSET AdminThreads
  BY DEF Readers
<1>2. IsFiniteSet(Readers(e))
  BY <1>1, ThreadsAssumption, FS_Subset
<1> QED
  BY <1>2, FS_CardinalityType

\* Nobody has given up an event that is not accepted yet: every thread reads it.
LEMMA ReadersAll ==
  ASSUME NEW e, \A t \in AdminThreads : e \notin passed[t]
  PROVE  Cardinality(Readers(e)) + 1 = RefsOnInsert
<1>1. Readers(e) = AdminThreads
  BY DEF Readers
<1>2. Cardinality(AdminThreads) \in Nat
  BY ThreadsAssumption, FS_CardinalityType
<1> QED
  BY <1>1, <1>2 DEF RefsOnInsert

\* No reader is left exactly when every thread has given the event up.
LEMMA ReadersNone ==
  ASSUME NEW e, Cardinality(Readers(e)) = 0
  PROVE  \A t \in AdminThreads : e \in passed[t]
<1>1. Readers(e) = {}
  BY ReadersCount, FS_EmptySet
<1> QED
  BY <1>1 DEF Readers

\* A thread that gives an event up is one reader less for it, and the
\* readers of the other events stay.
LEMMA ReadersLess ==
  ASSUME passed \in [AdminThreads -> SUBSET Events],
         NEW t \in AdminThreads, NEW p \in Events, p \notin passed[t],
         passed' = [passed EXCEPT ![t] = @ \cup {p}]
  PROVE  /\ Cardinality(Readers(p)') = Cardinality(Readers(p)) - 1
         /\ \A e \in Events \ {p} : Readers(e)' = Readers(e)
<1>1. Readers(p)' = Readers(p) \ {t}
  BY DEF Readers
<1>2. t \in Readers(p)
  BY DEF Readers
<1>3. Cardinality(Readers(p)') = Cardinality(Readers(p)) - 1
  BY <1>1, <1>2, ReadersCount, FS_RemoveElement
<1>4. ASSUME NEW e \in Events \ {p}
      PROVE  Readers(e)' = Readers(e)
  BY DEF Readers
<1> QED
  BY <1>3, <1>4


--------------------------------------------------------------------------------
(* Types *)

\* An event starts with a natural number of references.
LEMMA RefsType == RefsOnInsert \in Nat
  BY ThreadsAssumption, FS_CardinalityType DEF RefsOnInsert

\* Events are references, the null pointer is the only other one.
LEMMA RefFacts ==
  /\ None \in Ref /\ Events \subseteq Ref /\ None \notin Events
  /\ \A r \in Ref : r # None => r \in Events
  BY DEF Ref, Events, None

\* The event insert() is about to accept, or has accepted, is an event.
LEMMA SupplierFacts ==
  ASSUME CoreInv
  PROVE  /\ ins = "called" => inserted + 1 \in Events /\ inserted + 1 \in 0..NumEvents
         /\ ins \in {"link", "publish"} => inserted \in Events
  BY BoundsAssumption DEF CoreInv, TypeOK, ListInv, Events

\* The pointers admin threads follow are not null.
LEMMA ThreadFacts ==
  ASSUME CoreInv, NEW t \in AdminThreads
  PROVE  /\ pc[t] \in {"decr", "unlock", "mark", "dispatch"} => cur[t] \in Events
         /\ pc[t] \in {"decr", "unlock"} => prev[t] \in Events
  BY RefFacts DEF CoreInv, TypeOK, ThreadInv, ThreadOK

\* An accepted event has at least the reference of the queue, and another one
\* while a proxy queue holds it.
LEMMA CountPositive ==
  ASSUME CoreInv
  PROVE  /\ \A e \in Events : held[e] > 0 => rcnt[e] >= 2
         /\ \A t \in AdminThreads : prev[t] # None => rcnt[prev[t]] >= 1
<1>1. TypeOK /\ CountInv /\ ThreadInv /\ ListInv
  BY DEF CoreInv
<1>2. \A e \in Events : e <= inserted => rcnt[e] >= 1 + held[e]
  BY <1>1, ReadersCount DEF TypeOK, CountInv, Events
<1>3. \A e \in Events : held[e] > 0 => e <= inserted
  BY <1>1 DEF TypeOK, CountInv, Events
<1>4. \A t \in AdminThreads : prev[t] # None => prev[t] \in Events /\ prev[t] <= inserted
  BY <1>1, RefFacts DEF TypeOK, ThreadInv, ThreadOK, Linked, Events
<1>5. ASSUME NEW e \in Events, held[e] > 0
      PROVE  rcnt[e] >= 2
  BY <1>1, <1>2, <1>3, <1>5, BoundsAssumption DEF TypeOK
<1>6. ASSUME NEW t \in AdminThreads, prev[t] # None
      PROVE  rcnt[prev[t]] >= 1
  BY <1>1, <1>2, <1>4, <1>6, BoundsAssumption DEF TypeOK
<1> QED
  BY <1>5, <1>6

\* No step takes a variable out of its type: a count that is decremented was
\* at least 1, and the position a thread moves to is one in the list.
LEMMA TypeStep ==
  ASSUME CoreInv, [Next]_vars
  PROVE  TypeOK'
<1>a. TypeOK
  BY DEF CoreInv
<1>1. CASE SupplierCall
  BY <1>a, <1>1
    DEF TypeOK, SupplierCall, eventvars, listvars, syncvars, threadvars, gcvars, chanvars
<1>2. CASE InsertRefused
  BY <1>a, <1>2
    DEF TypeOK, InsertRefused, eventvars, listvars, syncvars, threadvars, gcvars, chanvars
<1>3. CASE InsertBegin
  BY <1>a, <1>3, RefsType, RefFacts, SupplierFacts
    DEF TypeOK, InsertBegin, Accept, syncvars, threadvars, gcvars, chanvars
<1>4. CASE InsertAfterGc1
  BY <1>a, <1>4, RefsType, RefFacts, SupplierFacts
    DEF TypeOK, InsertAfterGc1, Accept, syncvars, threadvars, gcvars, chanvars
<1>5. CASE InsertLink
  BY <1>a, <1>5, RefFacts, SupplierFacts
    DEF TypeOK, InsertLink, syncvars, threadvars, gcvars, chanvars
<1>6. CASE InsertPublish
  BY <1>a, <1>6, RefFacts, SupplierFacts
    DEF TypeOK, InsertPublish, Broadcast, ThreadSteps, eventvars, syncvars, gcvars, chanvars
<1>7. CASE QosChanged
  BY <1>a, <1>7
    DEF TypeOK, QosChanged, eventvars, listvars, insvars, threadvars, gcvars, chanvars
<1>8. ASSUME NEW t \in AdminThreads, AdminTop(t)
      PROVE  TypeOK'
  BY <1>a, <1>8, RefFacts, ThreadFacts
    DEF TypeOK, AdminTop, Goto, ThreadSteps, eventvars, listvars, syncvars, insvars, gcvars, chanvars
<1>9. ASSUME NEW t \in AdminThreads, NextEvent(t)
      PROVE  TypeOK'
  BY <1>a, <1>9, RefFacts, ThreadFacts
    DEF TypeOK, NextEvent, Goto, ThreadSteps, eventvars, listvars, syncvars, insvars, gcvars, chanvars
<1>10. ASSUME NEW t \in AdminThreads, Look(t)
       PROVE  TypeOK'
  <2>1. Ahead(t) \in Ref
    BY <1>a, RefFacts DEF TypeOK, Ahead
  <2> QED
    BY <1>a, <1>10, <2>1, RefFacts
      DEF TypeOK, Look, Got, Goto, ThreadSteps, eventvars, listvars, syncvars, insvars, gcvars, chanvars
<1>11. ASSUME NEW t \in AdminThreads, Lock(t)
       PROVE  TypeOK'
  <2>1. Awaited(t) \in Ref
    BY <1>a, RefFacts DEF TypeOK, Awaited
  <2> QED
    BY <1>a, <1>11, <2>1, RefFacts
      DEF TypeOK, Lock, AwaitEvent, Got, Goto, ThreadSteps, eventvars, listvars, insvars, gcvars, chanvars
<1>12. ASSUME NEW t \in AdminThreads, Wake(t)
       PROVE  TypeOK'
  <2>1. Awaited(t) \in Ref
    BY <1>a, RefFacts DEF TypeOK, Awaited
  <2> QED
    BY <1>a, <1>12, <2>1, RefFacts
      DEF TypeOK, Wake, AwaitEvent, Got, Goto, ThreadSteps, eventvars, listvars, insvars, gcvars, chanvars
<1>13. ASSUME NEW t \in AdminThreads, DecrRef(t)
       PROVE  TypeOK'
  <2>1. prev[t] \in Events /\ rcnt[prev[t]] - 1 \in Nat
    BY <1>a, <1>13, CountPositive, ThreadFacts, RefFacts DEF DecrRef, TypeOK
  <2> QED
    BY <1>a, <1>13, <2>1, RefFacts
      DEF TypeOK, DecrRef, Goto, ThreadSteps, listvars, syncvars, insvars, gcvars, chanvars
<1>14. ASSUME NEW t \in AdminThreads, UnlockRef(t)
       PROVE  TypeOK'
  BY <1>a, <1>14, RefFacts, ThreadFacts
    DEF TypeOK, UnlockRef, Goto, ThreadSteps, eventvars, listvars, syncvars, insvars, gcvars, chanvars
<1>15. ASSUME NEW t \in AdminThreads, Mark(t)
       PROVE  TypeOK'
  BY <1>a, <1>15, RefFacts, ThreadFacts
    DEF TypeOK, Mark, Goto, ThreadSteps, listvars, syncvars, insvars, gcvars, chanvars
<1>16. ASSUME NEW t \in AdminThreads, Return(t)
       PROVE  TypeOK'
  BY <1>a, <1>16, RefFacts, ThreadFacts
    DEF TypeOK, Return, Goto, ThreadSteps, listvars, syncvars, insvars, gcvars, chanvars
<1>17. ASSUME NEW t \in AdminThreads, Handoff(t)
       PROVE  TypeOK'
  <2>1. cur[t] \in Events /\ rcnt[cur[t]] + 1 \in Nat /\ held[cur[t]] + 1 \in 0..MaxHeld
    BY <1>a, <1>17, BoundsAssumption, ThreadFacts DEF Handoff, TypeOK
  <2> QED
    BY <1>a, <1>17, <2>1, RefFacts
      DEF TypeOK, Handoff, listvars, syncvars, insvars, threadvars, gcvars, chanvars
<1>18. ASSUME NEW t \in AdminThreads, DispatchEnd(t)
       PROVE  TypeOK'
  BY <1>a, <1>18, RefFacts, ThreadFacts
    DEF TypeOK, DispatchEnd, Goto, ThreadSteps, eventvars, listvars, syncvars, insvars, gcvars, chanvars
<1>19. ASSUME NEW e \in Events, Release(e)
       PROVE  TypeOK'
  <2>1. rcnt[e] - 1 \in Nat /\ held[e] - 1 \in 0..MaxHeld
    BY <1>a, <1>19, CountPositive, BoundsAssumption DEF Release, TypeOK
  <2> QED
    BY <1>a, <1>19, <2>1, RefFacts
      DEF TypeOK, Release, listvars, syncvars, insvars, threadvars, gcvars, chanvars
<1>20. CASE GCWake
  BY <1>a, <1>20
    DEF TypeOK, GCWake, eventvars, listvars, syncvars, insvars, threadvars, chanvars
<1>21. CASE GCBegin
  BY <1>a, <1>21
    DEF TypeOK, GCBegin, eventvars, listvars, insvars, threadvars, chanvars
<1>22. CASE GCCheck
  BY <1>a, <1>22, WidthAssumption
    DEF TypeOK, GCCheck, Predecessor, eventvars, listvars, syncvars, insvars, threadvars,
     chanvars
<1>23. CASE GCTake
  BY <1>a, <1>23, RefFacts
    DEF TypeOK, GCTake, eventvars, listvars, syncvars, insvars, threadvars, chanvars
<1>24. CASE GCUnlink
  <2>1. next[evhead] \in Ref
    BY <1>a, <1>24, RefFacts DEF GCUnlink, TypeOK
  <2> QED
    BY <1>a, <1>24, <2>1, RefFacts
      DEF TypeOK, GCUnlink, eventvars, syncvars, insvars, threadvars, chanvars
<1>25. CASE GCDelete
  <2>1. mem' \in [Events -> {"unborn", "live", "freed"}]
    BY <1>a, <1>25 DEF GCDelete, TypeOK
  <2> QED
    BY <1>a, <1>25, <2>1
      DEF TypeOK, GCDelete, listvars, syncvars, insvars, threadvars, chanvars
<1>26. CASE GCEnd
  BY <1>a, <1>26
    DEF TypeOK, GCEnd, eventvars, insvars, threadvars, chanvars
<1>27. CASE DestroyBegin
  BY <1>a, <1>27
    DEF TypeOK, DestroyBegin, eventvars, listvars, syncvars, insvars, threadvars, gcvars
<1>28. CASE SetFinished
  BY <1>a, <1>28
    DEF TypeOK, SetFinished, Broadcast, ThreadSteps, eventvars, listvars, insvars, gcvars
<1>29. CASE FinishRetry
  BY <1>a, <1>29
    DEF TypeOK, FinishRetry, Broadcast, ThreadSteps, eventvars, listvars, syncvars, insvars, gcvars,
     chanvars
<1>30. CASE FinishDone
  BY <1>a, <1>30
    DEF TypeOK, FinishDone, eventvars, listvars, syncvars, insvars, threadvars, gcvars
<1>31. CASE JoinThreads
  BY <1>a, <1>31
    DEF TypeOK, JoinThreads, eventvars, listvars, syncvars, insvars, threadvars, gcvars
<1>32. CASE ClientsGone
  BY <1>a, <1>32
    DEF TypeOK, ClientsGone, eventvars, listvars, syncvars, insvars, threadvars, gcvars
<1>33. CASE Delete
  BY <1>a, <1>33, RefFacts
    DEF TypeOK, Delete, syncvars, insvars, threadvars, gcvars
<1>34. CASE UNCHANGED vars
  BY <1>a, <1>34
    DEF TypeOK, vars, eventvars, listvars, syncvars, insvars, threadvars, gcvars, chanvars
<1> QED
  BY <1>1, <1>2, <1>3, <1>4, <1>5, <1>6, <1>7, <1>8, <1>9, <1>10, <1>11, <1>12, <1>13,
     <1>14, <1>15, <1>16, <1>17, <1>18, <1>19, <1>20, <1>21, <1>22, <1>23, <1>24, <1>25,
     <1>26, <1>27, <1>28, <1>29, <1>30, <1>31, <1>32, <1>33, <1>34 DEF Next, Supplier, AdminThread, Collector, Destroyer

--------------------------------------------------------------------------------
(* The list *)

\* Every step keeps the list a chain of the accepted events, in order: what the
\* tail pointer is, half-way through insert() too, decides what is linked next.
LEMMA ListStep ==
  ASSUME CoreInv, MemorySafe, [Next]_vars
  PROVE  ListInv'
<1> USE BoundsAssumption DEF Events, None, Ref, Linked
<1>a. TypeOK /\ ListInv /\ ShutdownInv /\ DestroyInv
  BY DEF CoreInv
<1>b. /\ mem \in [Events -> {"unborn", "live", "freed"}] /\ next \in [Events -> Ref]
      /\ inserted \in 0..NumEvents /\ evhead \in Ref /\ evtail \in Ref
  BY <1>a DEF TypeOK
<1>1. CASE SupplierCall
  BY <1>a, <1>b, <1>1
    DEF ListInv, SupplierCall, eventvars, listvars, syncvars, threadvars, gcvars, chanvars
<1>2. CASE InsertRefused
  BY <1>a, <1>b, <1>2
    DEF ListInv, InsertRefused, eventvars, listvars, syncvars, threadvars, gcvars, chanvars
<1>3. CASE InsertBegin
  BY <1>a, <1>b, <1>3
    DEF ListInv, InsertBegin, Accept, syncvars, threadvars, gcvars, chanvars
<1>4. CASE InsertAfterGc1
  BY <1>a, <1>b, <1>4
    DEF ListInv, InsertAfterGc1, Accept, syncvars, threadvars, gcvars, chanvars
<1>5. CASE InsertLink
  <2> USE <1>a, <1>b, <1>5
  <2>1. ins = "link" /\ ins' = "publish" /\ inserted > 0 /\ evtail = inserted - 1 /\ dst' = dst
        /\ dst # "gone" /\ inserted' = inserted /\ mem' = mem /\ evhead' = evhead
    BY DEF ListInv, DestroyInv, InsertLink, chanvars
  <2>2. CASE evtail = None
    <3>1. inserted = 1 /\ evtail' = inserted /\ next' = next
      BY <2>1, <2>2 DEF InsertLink
    <3> QED
      BY <2>1, <3>1 DEF ListInv
  <2>3. CASE evtail # None
    <3>1. inserted > 1 /\ evtail' = evtail /\ evtail \in Events
      BY <2>1, <2>3 DEF InsertLink
    <3>2. \A e \in Events : next'[e] = IF e = inserted - 1 THEN inserted ELSE next[e]
      BY <2>1, <2>3 DEF InsertLink
    <3> QED
      BY <2>1, <3>1, <3>2 DEF ListInv
  <2> QED
    BY <2>2, <2>3
<1>6. CASE InsertPublish
  <2> USE <1>a, <1>b, <1>6
  <2>1. ins = "publish" /\ ins' = "idle" /\ inserted > 0 /\ dst' = dst /\ dst # "gone"
        /\ inserted' = inserted /\ mem' = mem /\ next' = next
    BY DEF ListInv, DestroyInv, InsertPublish, chanvars, eventvars
  <2>2. evtail' = inserted /\ evhead' <= inserted
    BY <2>1 DEF ListInv, InsertPublish
  <2> QED
    BY <2>1, <2>2 DEF ListInv
<1>7. CASE GCUnlink
  BY <1>a, <1>b, <1>7
    DEF ListInv, GCUnlink, eventvars, syncvars, insvars, threadvars, chanvars
<1>8. CASE GCDelete
  <2>1. \A e \in Events : mem'[e] = "unborn" <=> mem[e] = "unborn"
    <3>1. tmp # None => tmp \in Events /\ mem[tmp] = "live"
      <4>1. tmp # None => tmp \in InUse
        BY <1>8 DEF InUse, CollectorUses, GCDelete
      <4> QED
        BY <1>a, <4>1 DEF MemorySafe, TypeOK
    <3> QED
      BY <1>b, <1>8, <3>1 DEF GCDelete
  <2> QED
    BY <1>a, <1>b, <1>8, <2>1 DEF ListInv, GCDelete, listvars, insvars, chanvars
<1>9. CASE DestroyBegin
  BY <1>a, <1>b, <1>9
    DEF ListInv, DestroyBegin, eventvars, listvars, syncvars, insvars, threadvars, gcvars
<1>10. CASE SetFinished
  BY <1>a, <1>b, <1>10
    DEF ListInv, SetFinished, Broadcast, eventvars, listvars, insvars, gcvars
<1>11. CASE FinishDone
  BY <1>a, <1>b, <1>11
    DEF ListInv, FinishDone, eventvars, listvars, syncvars, insvars, threadvars, gcvars
<1>12. CASE JoinThreads
  BY <1>a, <1>b, <1>12
    DEF ListInv, JoinThreads, eventvars, listvars, syncvars, insvars, threadvars, gcvars
<1>13. CASE ClientsGone
  BY <1>a, <1>b, <1>13
    DEF ListInv, ClientsGone, eventvars, listvars, syncvars, insvars, threadvars, gcvars
<1>14. CASE Delete
  BY <1>a, <1>b, <1>14
    DEF ListInv, Delete, syncvars, insvars, threadvars, gcvars
<1>15. CASE UNCHANGED <<mem, next, ins, inserted, evtail, evhead, dst>>
  BY <1>a, <1>b, <1>15
    DEF ListInv
<1> QED
  BY <1>1, <1>2, <1>3, <1>4, <1>5, <1>6, <1>7, <1>8, <1>9, <1>10, <1>11, <1>12, <1>13,
     <1>14, <1>15
    DEF Next, Supplier, AdminThread, Collector, Destroyer, QosChanged, eventvars, listvars,
     insvars, threadvars, gcvars, chanvars, AdminTop, Goto, syncvars, NextEvent, Look,
     Ahead, Got, Lock, AwaitEvent, Awaited, Wake, DecrRef, UnlockRef, Mark, Return, Handoff,
     DispatchEnd, Release, GCWake, GCBegin, GCCheck, Predecessor, GCTake, GCEnd,
     FinishRetry, Broadcast, vars

\* A thread has given up only events before one that is linked.
LEMMA PassedBehind ==
  ASSUME CoreInv, NEW t \in AdminThreads, NEW e \in passed[t]
  PROVE  e < Linked /\ e < inserted /\ e < Position(t)
<1>1. e \in Events /\ e < Position(t) /\ Position(t) <= Linked
  BY DEF CoreInv, TypeOK, ThreadInv, ThreadOK, Position
<1>2. Position(t) \in Ref /\ Linked <= inserted /\ Linked \in Int /\ inserted \in Int
  BY DEF CoreInv, TypeOK, Position, Linked
<1> QED
  BY <1>1, <1>2, BoundsAssumption DEF Events, Ref, None


--------------------------------------------------------------------------------
(* Reference counts *)

\* An event is accepted with one reference for the queue and one for each of
\* its readers, who are all the threads: none can have given it up yet.
LEMMA CountAccept ==
  ASSUME CoreInv, ins = "called", inserted' = inserted + 1, held' = held, passed' = passed,
         rcnt' = [rcnt EXCEPT ![inserted + 1] = RefsOnInsert]
  PROVE  CountInv'
<1>1. inserted \in Nat /\ inserted + 1 \in Events /\ rcnt \in [Events -> Nat]
  BY SupplierFacts, BoundsAssumption DEF CoreInv, TypeOK
<1>2. \A e : Readers(e)' = Readers(e)
  BY DEF Readers
<1>3. \A t \in AdminThreads : inserted + 1 \notin passed[t]
  BY <1>1, PassedBehind DEF CoreInv, TypeOK, Events
<1>4. Cardinality(Readers(inserted + 1)) + 1 = RefsOnInsert
  BY <1>3, ReadersAll
<1>5. held[inserted + 1] = 0 /\ Cardinality(Readers(inserted + 1)) \in Nat
  BY <1>1, ReadersCount DEF CoreInv, CountInv
<1>6. rcnt'[inserted + 1] = 1 + Cardinality(Readers(inserted + 1)) + held[inserted + 1]
  BY <1>1, <1>4, <1>5
<1>7. \A e \in Events : e <= inserted => rcnt'[e] = rcnt[e]
  BY <1>1 DEF Events
<1> QED
  BY <1>1, <1>2, <1>6, <1>7 DEF CoreInv, CountInv, Events

\* Every step that changes a count changes what it counts, and the other way round.
LEMMA CountStep ==
  ASSUME CoreInv, [Next]_vars
  PROVE  CountInv'
<1>a. TypeOK /\ ListInv /\ CountInv /\ ThreadInv
  BY DEF CoreInv
<1>b. /\ rcnt \in [Events -> Nat] /\ held \in [Events -> 0..MaxHeld] /\ inserted \in 0..NumEvents
      /\ passed \in [AdminThreads -> SUBSET Events]
  BY <1>a DEF TypeOK
<1>1. CASE InsertBegin
  BY <1>1, CountAccept DEF InsertBegin, Accept, threadvars
<1>2. CASE InsertAfterGc1
  BY <1>2, CountAccept DEF InsertAfterGc1, Accept, threadvars
<1>3. ASSUME NEW t \in AdminThreads, DecrRef(t)
      PROVE  CountInv'
  <2>1. PICK p \in Events : p = prev[t] /\ p \notin passed[t]
    BY <1>a, <1>3, ThreadFacts DEF DecrRef, ThreadInv, ThreadOK, Position, Events
  <2>2. /\ rcnt' = [rcnt EXCEPT ![p] = @ - 1] /\ passed' = [passed EXCEPT ![t] = @ \cup {p}]
        /\ held' = held /\ inserted' = inserted
    BY <1>3, <2>1 DEF DecrRef, insvars
  <2>3. /\ Cardinality(Readers(p)') = Cardinality(Readers(p)) - 1
        /\ \A e \in Events \ {p} : Readers(e)' = Readers(e)
    BY <1>b, <2>1, <2>2, ReadersLess
  <2>4. ASSUME NEW e \in Events, e <= inserted
        PROVE  rcnt'[e] = 1 + Cardinality(Readers(e)') + held[e]
    <3>1. /\ rcnt[e] = 1 + Cardinality(Readers(e)) + held[e] /\ rcnt[e] \in Nat
          /\ held[e] \in Nat /\ Cardinality(Readers(e)) \in Nat
      BY <1>a, <1>b, <2>4, ReadersCount, BoundsAssumption DEF CountInv
    <3>2. CASE e = p
      BY <1>b, <2>2, <2>3, <3>1, <3>2
    <3>3. CASE e # p
      BY <1>b, <2>2, <2>3, <3>1, <3>3
    <3> QED
      BY <3>2, <3>3
  <2> QED
    BY <1>a, <2>2, <2>4 DEF CountInv
<1>4. ASSUME NEW t \in AdminThreads, Handoff(t)
      PROVE  CountInv'
  <2>1. cur[t] \in Events /\ cur[t] <= inserted
    BY <1>a, <1>4, ThreadFacts DEF Handoff, ThreadInv, ThreadOK, Linked, TypeOK, Ref, Events, None
  <2>2. /\ rcnt' = [rcnt EXCEPT ![cur[t]] = @ + 1] /\ held' = [held EXCEPT ![cur[t]] = @ + 1]
        /\ inserted' = inserted /\ \A e : Readers(e)' = Readers(e)
    BY <1>4 DEF Handoff, insvars, threadvars, Readers
  <2>3. ASSUME NEW e \in Events, e <= inserted
        PROVE  rcnt'[e] - held'[e] = rcnt[e] - held[e] /\ held'[e] \in Int /\ rcnt'[e] \in Int
    BY <1>b, <2>1, <2>2, BoundsAssumption
  <2>4. \A e \in Events : e > inserted => held'[e] = 0
    BY <1>a, <1>b, <2>1, <2>2 DEF CountInv, Events
  <2> QED
    BY <1>a, <1>b, <2>2, <2>3, <2>4, ReadersCount, BoundsAssumption DEF CountInv
<1>5. ASSUME NEW e \in Events, Release(e)
      PROVE  CountInv'
  <2>1. /\ rcnt' = [rcnt EXCEPT ![e] = @ - 1] /\ held' = [held EXCEPT ![e] = @ - 1]
        /\ inserted' = inserted /\ \A d : Readers(d)' = Readers(d)
    BY <1>5 DEF Release, insvars, threadvars, Readers
  <2>2. e <= inserted
    BY <1>a, <1>b, <1>5 DEF Release, CountInv, Events
  <2>3. ASSUME NEW d \in Events, d <= inserted
        PROVE  rcnt'[d] - held'[d] = rcnt[d] - held[d] /\ held'[d] \in Int /\ rcnt'[d] \in Int
    BY <1>b, <2>1, <2>2, BoundsAssumption
  <2>4. \A d \in Events : d > inserted => held'[d] = 0
    BY <1>a, <1>b, <2>1, <2>2 DEF CountInv, Events
  <2> QED
    BY <1>a, <1>b, <2>1, <2>3, <2>4, ReadersCount, BoundsAssumption DEF CountInv
<1>6. CASE UNCHANGED <<rcnt, held, inserted, passed>>
  <2>1. \A e : Readers(e)' = Readers(e)
    BY <1>6 DEF Readers
  <2> QED
    BY <1>a, <1>6, <2>1 DEF CountInv
<1> QED
  BY <1>1, <1>2, <1>3, <1>4, <1>5, <1>6
    DEF Next, Supplier, AdminThread, Collector, Destroyer, SupplierCall, eventvars,
     listvars, syncvars, threadvars, gcvars, chanvars, InsertRefused, InsertLink,
     InsertPublish, Broadcast, QosChanged, insvars, AdminTop, Goto, NextEvent, Look, Ahead,
     Got, Lock, AwaitEvent, Awaited, Wake, UnlockRef, Mark, Return, DispatchEnd, GCWake,
     GCBegin, GCCheck, Predecessor, GCTake, GCUnlink, GCDelete, GCEnd, DestroyBegin,
     SetFinished, FinishRetry, FinishDone, JoinThreads, ClientsGone, Delete, vars

--------------------------------------------------------------------------------
(* Threads *)

\* A thread that does not move stays where it may be while the list grows; so
\* does one that is woken.
LEMMA ThreadKept ==
  ASSUME CoreInv, NEW t \in AdminThreads,
         pc'[t] = pc[t] \/ (pc[t] = "blocked" /\ pc'[t] = "woken"),
         cur'[t] = cur[t], prev'[t] = prev[t], passed'[t] = passed[t],
         Linked' \in Int, Linked' >= Linked
  PROVE  ThreadOK(t)'
<1>1. /\ ThreadOK(t) /\ cur[t] \in Int /\ prev[t] \in Int /\ Linked \in Int
  BY BoundsAssumption DEF CoreInv, ThreadInv, TypeOK, Ref, Events, None, Linked
<1>2. Position(t)' = Position(t)
  BY <1>1 DEF Position, ThreadOK
<1> QED
  BY <1>1, <1>2 DEF ThreadOK

\* Without waiting, a thread moves to an event that is linked: on its first call
\* to the last one, afterwards to the next one.
LEMMA AheadMoves ==
  ASSUME CoreInv, NEW t \in AdminThreads, Ahead(t) # None
  PROVE  /\ Ahead(t) \in Events /\ Ahead(t) <= Linked
         /\ prev[t] # None => Ahead(t) = prev[t] + 1
<1> USE BoundsAssumption DEF Events, Ref, None
<1>1. /\ evtail \in Ref /\ inserted \in 0..NumEvents /\ prev[t] \in Ref /\ next \in [Events -> Ref]
  BY DEF CoreInv, TypeOK
<1>2. ListInv
  BY DEF CoreInv
<1> QED
  BY <1>1, <1>2 DEF Ahead, ListInv, Linked

\* Under the lock it moves to one too: on its first call to the head.
LEMMA AwaitedMoves ==
  ASSUME CoreInv, NEW t \in AdminThreads, Awaited(t) # None
  PROVE  /\ Awaited(t) \in Events /\ Awaited(t) <= Linked
         /\ prev[t] # None => Awaited(t) = prev[t] + 1
<1> USE BoundsAssumption DEF Events, Ref, None
<1>1. /\ evhead \in Ref /\ inserted \in 0..NumEvents /\ prev[t] \in Ref /\ next \in [Events -> Ref]
  BY DEF CoreInv, TypeOK
<1>2. ListInv
  BY DEF CoreInv
<1> QED
  BY <1>1, <1>2 DEF Awaited, ListInv, Linked


\* A thread that gets the event next to its own, or its first one, is where it may be.
LEMMA GotOK ==
  ASSUME CoreInv, NEW t \in AdminThreads, pc[t] \in {"look", "lock", "woken"}, NEW e \in Events,
         e <= Linked, prev[t] # None => e = prev[t] + 1, Got(t, e), UNCHANGED <<prev, passed, Linked>>
  PROVE  ThreadOK(t)'
<1>1. /\ pc \in [AdminThreads -> ThreadSteps] /\ cur \in [AdminThreads -> Ref]
      /\ prev[t] \in Ref /\ passed[t] \subseteq Events /\ ThreadOK(t)
  BY DEF CoreInv, TypeOK, ThreadInv
<1>2. cur'[t] = e /\ pc'[t] = IF prev[t] = None THEN "mark" ELSE "decr"
  BY <1>1 DEF Got, Goto
<1>3. Position(t) = prev[t] /\ prev[t] <= Linked
  BY <1>1 DEF ThreadOK, Position
<1>4. CASE prev[t] = None
  <2>1. passed[t] = {}
    BY <1>1, <1>3, <1>4 DEF ThreadOK, Events, None
  <2> QED
    BY <1>1, <1>2, <1>3, <1>4, <2>1, BoundsAssumption DEF ThreadOK, Position, Events, Ref, None
<1>5. CASE prev[t] # None
  BY <1>1, <1>2, <1>3, <1>5, BoundsAssumption DEF ThreadOK, Position, Events, Ref, None
<1> QED
  BY <1>4, <1>5

\* Every step leaves every thread where it may be: it moves to the successor of
\* the event it has, and gives up only events it is past.
LEMMA ThreadStep ==
  ASSUME CoreInv, [Next]_vars
  PROVE  ThreadInv'
<1>a. TypeOK /\ ListInv /\ ThreadInv /\ ShutdownInv /\ DestroyInv
  BY DEF CoreInv
<1>b. /\ pc \in [AdminThreads -> ThreadSteps] /\ passed \in [AdminThreads -> SUBSET Events]
      /\ cur \in [AdminThreads -> Ref] /\ prev \in [AdminThreads -> Ref]
      /\ inserted \in Int /\ Linked \in Int
  BY <1>a, BoundsAssumption DEF TypeOK, Linked
<1>1. CASE SupplierCall
  <2>1. Linked' \in Int /\ Linked' >= Linked
    BY <1>a, <1>b, <1>1 DEF ListInv, SupplierCall, Linked
  <2> QED
    BY <1>b, <1>1, <2>1, ThreadKept DEF ThreadInv, SupplierCall, threadvars
<1>2. CASE InsertRefused
  <2>1. Linked' \in Int /\ Linked' >= Linked
    BY <1>a, <1>b, <1>2 DEF ListInv, InsertRefused, Linked
  <2> QED
    BY <1>b, <1>2, <2>1, ThreadKept DEF ThreadInv, InsertRefused, threadvars
<1>3. CASE InsertBegin
  <2>1. Linked' \in Int /\ Linked' >= Linked
    BY <1>a, <1>b, <1>3 DEF ListInv, InsertBegin, Accept, Linked
  <2> QED
    BY <1>b, <1>3, <2>1, ThreadKept DEF ThreadInv, InsertBegin, Accept, threadvars
<1>4. CASE InsertAfterGc1
  <2>1. Linked' \in Int /\ Linked' >= Linked
    BY <1>a, <1>b, <1>4 DEF ListInv, InsertAfterGc1, Accept, Linked
  <2> QED
    BY <1>b, <1>4, <2>1, ThreadKept DEF ThreadInv, InsertAfterGc1, Accept, threadvars
<1>5. CASE InsertLink
  <2>1. Linked' \in Int /\ Linked' >= Linked
    BY <1>a, <1>b, <1>5 DEF ListInv, InsertLink, Linked
  <2> QED
    BY <1>b, <1>5, <2>1, ThreadKept DEF ThreadInv, InsertLink, threadvars
<1>6. CASE InsertPublish
  <2>1. \A t \in AdminThreads : pc'[t] = pc[t] \/ (pc[t] = "blocked" /\ pc'[t] = "woken")
    BY <1>b, <1>6 DEF InsertPublish, Broadcast
  <2> QED
    BY <1>b, <1>6, <2>1, ThreadKept DEF ThreadInv, InsertPublish, insvars, Linked
<1>7. ASSUME NEW t \in AdminThreads, AdminTop(t)
      PROVE  ThreadInv'
  <2>1. ThreadOK(t)'
    BY <1>a, <1>b, <1>7, BoundsAssumption DEF ThreadInv, ThreadOK, Position, Linked, Ref, Events, None, AdminTop, Goto, insvars
  <2>2. ASSUME NEW s \in AdminThreads \ {t}
        PROVE  ThreadOK(s)'
    BY <1>b, <1>7, ThreadKept DEF AdminTop, Goto, insvars, Linked
  <2> QED
    BY <2>1, <2>2 DEF ThreadInv
<1>8. ASSUME NEW t \in AdminThreads, NextEvent(t)
      PROVE  ThreadInv'
  <2>1. ThreadOK(t)'
    BY <1>a, <1>b, <1>8, BoundsAssumption DEF ThreadInv, ThreadOK, Position, Linked, Ref, Events, None, NextEvent, Goto, insvars
  <2>2. ASSUME NEW s \in AdminThreads \ {t}
        PROVE  ThreadOK(s)'
    BY <1>b, <1>8, ThreadKept DEF NextEvent, Goto, insvars, Linked
  <2> QED
    BY <2>1, <2>2 DEF ThreadInv
<1>9. ASSUME NEW t \in AdminThreads, Look(t)
      PROVE  ThreadInv'
  <2>1. ThreadOK(t)'
    <3>1. pc[t] \in {"look", "lock", "woken"} /\ UNCHANGED <<prev, passed, Linked>>
      BY <1>9 DEF Look, insvars, Linked
    <3>2. CASE Ahead(t) # None
      <4>1. Got(t, Ahead(t))
        BY <1>9, <3>2 DEF Look
      <4> QED
        BY <3>1, <3>2, <4>1, AheadMoves, GotOK
    <3>3. CASE ~(Ahead(t) # None)
      <4>1. cur' = cur /\ pc'[t] \in {"lock", "blocked", "ret"} /\ (pc'[t] = "ret" => finish)
        BY <1>b, <1>9, <3>3 DEF Look, Goto
      <4> QED
        BY <1>a, <3>1, <4>1 DEF ThreadInv, ThreadOK, Position
    <3> QED
      BY <3>2, <3>3
  <2>2. ASSUME NEW s \in AdminThreads \ {t}
        PROVE  ThreadOK(s)'
    BY <1>b, <1>9, ThreadKept DEF Look, Got, Goto, insvars, Linked
  <2> QED
    BY <2>1, <2>2 DEF ThreadInv
<1>10. ASSUME NEW t \in AdminThreads, Lock(t)
       PROVE  ThreadInv'
  <2>1. ThreadOK(t)'
    <3>1. pc[t] \in {"look", "lock", "woken"} /\ UNCHANGED <<prev, passed, Linked>>
      BY <1>10 DEF Lock, AwaitEvent, insvars, Linked
    <3>2. CASE ~finish /\ Awaited(t) # None
      <4>1. Got(t, Awaited(t))
        BY <1>10, <3>2 DEF Lock, AwaitEvent
      <4> QED
        BY <3>1, <3>2, <4>1, AwaitedMoves, GotOK
    <3>3. CASE ~(~finish /\ Awaited(t) # None)
      <4>1. cur' = cur /\ pc'[t] \in {"lock", "blocked", "ret"} /\ (pc'[t] = "ret" => finish)
        BY <1>b, <1>10, <3>3 DEF Lock, AwaitEvent, Goto
      <4> QED
        BY <1>a, <3>1, <4>1 DEF ThreadInv, ThreadOK, Position
    <3> QED
      BY <3>2, <3>3
  <2>2. ASSUME NEW s \in AdminThreads \ {t}
        PROVE  ThreadOK(s)'
    BY <1>b, <1>10, ThreadKept DEF Lock, AwaitEvent, Got, Goto, insvars, Linked
  <2> QED
    BY <2>1, <2>2 DEF ThreadInv
<1>11. ASSUME NEW t \in AdminThreads, Wake(t)
       PROVE  ThreadInv'
  <2>1. ThreadOK(t)'
    <3>1. pc[t] \in {"look", "lock", "woken"} /\ UNCHANGED <<prev, passed, Linked>>
      BY <1>11 DEF Wake, AwaitEvent, insvars, Linked
    <3>2. CASE ~finish /\ Awaited(t) # None
      <4>1. Got(t, Awaited(t))
        BY <1>11, <3>2 DEF Wake, AwaitEvent
      <4> QED
        BY <3>1, <3>2, <4>1, AwaitedMoves, GotOK
    <3>3. CASE ~(~finish /\ Awaited(t) # None)
      <4>1. cur' = cur /\ pc'[t] \in {"lock", "blocked", "ret"} /\ (pc'[t] = "ret" => finish)
        BY <1>b, <1>11, <3>3 DEF Wake, AwaitEvent, Goto
      <4> QED
        BY <1>a, <3>1, <4>1 DEF ThreadInv, ThreadOK, Position
    <3> QED
      BY <3>2, <3>3
  <2>2. ASSUME NEW s \in AdminThreads \ {t}
        PROVE  ThreadOK(s)'
    BY <1>b, <1>11, ThreadKept DEF Wake, AwaitEvent, Got, Goto, insvars, Linked
  <2> QED
    BY <2>1, <2>2 DEF ThreadInv
<1>12. ASSUME NEW t \in AdminThreads, DecrRef(t)
       PROVE  ThreadInv'
  <2>1. ThreadOK(t)'
    <3>1. /\ pc[t] = "decr" /\ pc'[t] = "unlock" /\ cur' = cur /\ prev' = prev
          /\ passed'[t] = passed[t] \cup {prev[t]} /\ Linked' = Linked
      BY <1>b, <1>12 DEF DecrRef, Goto, insvars, Linked
    <3>2. ThreadOK(t) /\ cur[t] \in Ref /\ prev[t] \in Ref /\ passed[t] \subseteq Events
      BY <1>a, <1>b DEF ThreadInv
    <3> QED
      BY <3>1, <3>2, BoundsAssumption DEF ThreadOK, Position, Events, Ref, None
  <2>2. ASSUME NEW s \in AdminThreads \ {t}
        PROVE  ThreadOK(s)'
    BY <1>b, <1>12, ThreadKept DEF DecrRef, Goto, insvars, Linked
  <2> QED
    BY <2>1, <2>2 DEF ThreadInv
<1>13. ASSUME NEW t \in AdminThreads, UnlockRef(t)
       PROVE  ThreadInv'
  <2>1. ThreadOK(t)'
    BY <1>a, <1>b, <1>13, BoundsAssumption DEF ThreadInv, ThreadOK, Position, Linked, Ref, Events, None, UnlockRef, Goto, insvars
  <2>2. ASSUME NEW s \in AdminThreads \ {t}
        PROVE  ThreadOK(s)'
    BY <1>b, <1>13, ThreadKept DEF UnlockRef, Goto, insvars, Linked
  <2> QED
    BY <2>1, <2>2 DEF ThreadInv
<1>14. ASSUME NEW t \in AdminThreads, Mark(t)
       PROVE  ThreadInv'
  <2>1. ThreadOK(t)'
    BY <1>a, <1>b, <1>14, BoundsAssumption DEF ThreadInv, ThreadOK, Position, Linked, Ref, Events, None, Mark, Goto, insvars
  <2>2. ASSUME NEW s \in AdminThreads \ {t}
        PROVE  ThreadOK(s)'
    BY <1>b, <1>14, ThreadKept DEF Mark, Goto, insvars, Linked
  <2> QED
    BY <2>1, <2>2 DEF ThreadInv
<1>15. ASSUME NEW t \in AdminThreads, Return(t)
       PROVE  ThreadInv'
  <2>1. ThreadOK(t)'
    BY <1>a, <1>b, <1>15, BoundsAssumption DEF ThreadInv, ThreadOK, Position, Linked, Ref, Events, None, Return, Goto, insvars
  <2>2. ASSUME NEW s \in AdminThreads \ {t}
        PROVE  ThreadOK(s)'
    BY <1>b, <1>15, ThreadKept DEF Return, Goto, insvars, Linked
  <2> QED
    BY <2>1, <2>2 DEF ThreadInv
<1>16. ASSUME NEW t \in AdminThreads, DispatchEnd(t)
       PROVE  ThreadInv'
  <2>1. ThreadOK(t)'
    BY <1>a, <1>b, <1>16, BoundsAssumption DEF ThreadInv, ThreadOK, Position, Linked, Ref, Events, None, DispatchEnd, Goto, insvars
  <2>2. ASSUME NEW s \in AdminThreads \ {t}
        PROVE  ThreadOK(s)'
    BY <1>b, <1>16, ThreadKept DEF DispatchEnd, Goto, insvars, Linked
  <2> QED
    BY <2>1, <2>2 DEF ThreadInv
<1>17. CASE SetFinished
  <2>1. \A t \in AdminThreads : pc'[t] = pc[t] \/ (pc[t] = "blocked" /\ pc'[t] = "woken")
    BY <1>b, <1>17 DEF SetFinished, Broadcast
  <2> QED
    BY <1>b, <1>17, <2>1, ThreadKept DEF ThreadInv, SetFinished, insvars, Linked
<1>18. CASE FinishRetry
  <2>1. \A t \in AdminThreads : pc'[t] = pc[t] \/ (pc[t] = "blocked" /\ pc'[t] = "woken")
    BY <1>b, <1>18 DEF FinishRetry, Broadcast
  <2> QED
    BY <1>b, <1>18, <2>1, ThreadKept DEF ThreadInv, FinishRetry, insvars, Linked
<1>19. CASE UNCHANGED <<prev, cur, passed, pc, ins, inserted>>
  BY <1>b, <1>19, ThreadKept DEF ThreadInv, Linked
<1> QED
  BY <1>1, <1>2, <1>3, <1>4, <1>5, <1>6, <1>7, <1>8, <1>9, <1>10, <1>11, <1>12, <1>13,
     <1>14, <1>15, <1>16, <1>17, <1>18, <1>19
    DEF Next, Supplier, AdminThread, Collector, Destroyer, QosChanged, eventvars, listvars,
     insvars, threadvars, gcvars, chanvars, Handoff, syncvars, Release, GCWake, GCBegin,
     GCCheck, Predecessor, GCTake, GCUnlink, GCDelete, GCEnd, DestroyBegin, FinishDone,
     JoinThreads, ClientsGone, Delete, vars

--------------------------------------------------------------------------------
(* Shutting down *)

\* No step makes a thread return a null event before _finish is set, and _finish
\* is set only after _shutmedown.
LEMMA ShutdownStep ==
  ASSUME CoreInv, [Next]_vars
  PROVE  ShutdownInv'
<1>a. ShutdownInv
  BY DEF CoreInv
<1>b. pc \in [AdminThreads -> ThreadSteps] /\ cur \in [AdminThreads -> Ref]
  BY DEF CoreInv, TypeOK
<1>1. CASE InsertPublish
  BY <1>a, <1>b, <1>1
    DEF ShutdownInv, InsertPublish, Broadcast, eventvars, syncvars, gcvars, chanvars
<1>2. ASSUME NEW t \in AdminThreads, AdminTop(t)
      PROVE  ShutdownInv'
  BY <1>a, <1>b, <1>2
    DEF ShutdownInv, AdminTop, Goto, eventvars, listvars, syncvars, insvars, gcvars,
     chanvars
<1>3. ASSUME NEW t \in AdminThreads, NextEvent(t)
      PROVE  ShutdownInv'
  BY <1>a, <1>b, <1>3
    DEF ShutdownInv, NextEvent, Goto, eventvars, listvars, syncvars, insvars, gcvars,
     chanvars
<1>4. ASSUME NEW t \in AdminThreads, Look(t)
      PROVE  ShutdownInv'
  BY <1>a, <1>b, <1>4, ThreadFacts, RefFacts
    DEF ShutdownInv, Look, Ahead, Got, Goto, eventvars, listvars, syncvars, insvars, gcvars,
     chanvars
<1>5. ASSUME NEW t \in AdminThreads, Lock(t)
      PROVE  ShutdownInv'
  <2>1. CASE ~finish /\ Awaited(t) # None
    BY <1>a, <1>b, <1>5, <2>1 DEF ShutdownInv, Lock, AwaitEvent, Got, Goto, syncvars, chanvars
  <2>2. CASE ~(~finish /\ Awaited(t) # None)
    BY <1>a, <1>b, <1>5, <2>2 DEF ShutdownInv, Lock, AwaitEvent, Goto, syncvars, chanvars
  <2> QED
    BY <2>1, <2>2
<1>6. ASSUME NEW t \in AdminThreads, Wake(t)
      PROVE  ShutdownInv'
  <2>1. CASE ~finish /\ Awaited(t) # None
    BY <1>a, <1>b, <1>6, <2>1 DEF ShutdownInv, Wake, AwaitEvent, Got, Goto, syncvars, chanvars
  <2>2. CASE ~(~finish /\ Awaited(t) # None)
    BY <1>a, <1>b, <1>6, <2>2 DEF ShutdownInv, Wake, AwaitEvent, Goto, syncvars, chanvars
  <2> QED
    BY <2>1, <2>2
<1>7. ASSUME NEW t \in AdminThreads, DecrRef(t)
      PROVE  ShutdownInv'
  BY <1>a, <1>b, <1>7, ThreadFacts, RefFacts
    DEF ShutdownInv, DecrRef, Goto, listvars, syncvars, insvars, gcvars, chanvars
<1>8. ASSUME NEW t \in AdminThreads, UnlockRef(t)
      PROVE  ShutdownInv'
  BY <1>a, <1>b, <1>8, ThreadFacts, RefFacts
    DEF ShutdownInv, UnlockRef, Goto, eventvars, listvars, syncvars, insvars, gcvars,
     chanvars
<1>9. ASSUME NEW t \in AdminThreads, Mark(t)
      PROVE  ShutdownInv'
  BY <1>a, <1>b, <1>9, ThreadFacts, RefFacts
    DEF ShutdownInv, Mark, Goto, listvars, syncvars, insvars, gcvars, chanvars
<1>10. ASSUME NEW t \in AdminThreads, Return(t)
       PROVE  ShutdownInv'
  BY <1>a, <1>b, <1>10
    DEF ShutdownInv, Return, Goto, listvars, syncvars, insvars, gcvars, chanvars
<1>11. ASSUME NEW t \in AdminThreads, DispatchEnd(t)
       PROVE  ShutdownInv'
  BY <1>a, <1>b, <1>11
    DEF ShutdownInv, DispatchEnd, Goto, eventvars, listvars, syncvars, insvars, gcvars,
     chanvars
<1>12. CASE DestroyBegin
  BY <1>a, <1>b, <1>12
    DEF ShutdownInv, DestroyBegin, eventvars, listvars, syncvars, insvars, threadvars,
     gcvars
<1>13. CASE SetFinished
  BY <1>a, <1>b, <1>13
    DEF ShutdownInv, SetFinished, Broadcast, eventvars, listvars, insvars, gcvars
<1>14. CASE FinishRetry
  BY <1>a, <1>b, <1>14
    DEF ShutdownInv, FinishRetry, Broadcast, eventvars, listvars, syncvars, insvars, gcvars,
     chanvars
<1>15. CASE FinishDone
  BY <1>a, <1>b, <1>15
    DEF ShutdownInv, FinishDone, eventvars, listvars, syncvars, insvars, threadvars, gcvars
<1>16. CASE JoinThreads
  BY <1>a, <1>b, <1>16
    DEF ShutdownInv, JoinThreads, eventvars, listvars, syncvars, insvars, threadvars, gcvars
<1>17. CASE ClientsGone
  BY <1>a, <1>b, <1>17
    DEF ShutdownInv, ClientsGone, eventvars, listvars, syncvars, insvars, threadvars, gcvars
<1>18. CASE Delete
  BY <1>a, <1>b, <1>18
    DEF ShutdownInv, Delete, syncvars, insvars, threadvars, gcvars
<1>19. CASE UNCHANGED <<shutmedown, dst, finish, pc, cur>>
  BY <1>a, <1>b, <1>19
    DEF ShutdownInv
<1> QED
  BY <1>1, <1>2, <1>3, <1>4, <1>5, <1>6, <1>7, <1>8, <1>9, <1>10, <1>11, <1>12, <1>13,
     <1>14, <1>15, <1>16, <1>17, <1>18, <1>19
    DEF Next, Supplier, AdminThread, Collector, Destroyer, SupplierCall, eventvars,
     listvars, syncvars, threadvars, gcvars, chanvars, InsertRefused, InsertBegin, Accept,
     InsertAfterGc1, InsertLink, QosChanged, insvars, Handoff, Release, GCWake, GCBegin,
     GCCheck, Predecessor, GCTake, GCUnlink, GCDelete, GCEnd, vars

\* What destroy() has waited for stays so: a joined thread never runs again, and
\* without threads and suppliers no event is handed over or inserted.
LEMMA DestroyStep ==
  ASSUME CoreInv, [Next]_vars
  PROVE  DestroyInv'
<1>a. DestroyInv /\ ShutdownInv /\ ListInv
  BY DEF CoreInv
<1>b. pc \in [AdminThreads -> ThreadSteps] /\ held \in [Events -> 0..MaxHeld]
  BY DEF CoreInv, TypeOK
<1>1. CASE SupplierCall
  BY <1>a, <1>1 DEF DestroyInv, ShutdownInv, SupplierCall, listvars, threadvars, chanvars
<1>2. CASE InsertRefused
  BY <1>a, <1>b, <1>2
    DEF DestroyInv, InsertRefused, eventvars, listvars, syncvars, threadvars, gcvars,
     chanvars
<1>3. CASE InsertBegin
  BY <1>a, <1>b, <1>3
    DEF DestroyInv, InsertBegin, Accept, syncvars, threadvars, gcvars, chanvars
<1>4. CASE InsertAfterGc1
  BY <1>a, <1>b, <1>4
    DEF DestroyInv, InsertAfterGc1, Accept, syncvars, threadvars, gcvars, chanvars
<1>5. CASE InsertLink
  BY <1>a, <1>b, <1>5
    DEF DestroyInv, InsertLink, syncvars, threadvars, gcvars, chanvars
<1>6. CASE InsertPublish
  BY <1>a, <1>b, <1>6
    DEF DestroyInv, InsertPublish, Broadcast, eventvars, syncvars, gcvars, chanvars
<1>7. ASSUME NEW t \in AdminThreads, AdminTop(t)
      PROVE  DestroyInv'
  BY <1>a, <1>b, <1>7
    DEF DestroyInv, AdminTop, Goto, eventvars, listvars, syncvars, insvars, gcvars, chanvars
<1>8. ASSUME NEW t \in AdminThreads, NextEvent(t)
      PROVE  DestroyInv'
  BY <1>a, <1>b, <1>8
    DEF DestroyInv, NextEvent, Goto, eventvars, listvars, syncvars, insvars, gcvars,
     chanvars
<1>9. ASSUME NEW t \in AdminThreads, Look(t)
      PROVE  DestroyInv'
  BY <1>a, <1>b, <1>9
    DEF DestroyInv, Look, Ahead, Got, Goto, eventvars, listvars, syncvars, insvars, gcvars,
     chanvars
<1>10. ASSUME NEW t \in AdminThreads, Lock(t)
       PROVE  DestroyInv'
  BY <1>a, <1>b, <1>10
    DEF DestroyInv, Lock, AwaitEvent, Awaited, Got, Goto, eventvars, listvars, insvars,
     gcvars, chanvars
<1>11. ASSUME NEW t \in AdminThreads, Wake(t)
       PROVE  DestroyInv'
  BY <1>a, <1>b, <1>11
    DEF DestroyInv, Wake, AwaitEvent, Awaited, Got, Goto, eventvars, listvars, insvars,
     gcvars, chanvars
<1>12. ASSUME NEW t \in AdminThreads, DecrRef(t)
       PROVE  DestroyInv'
  BY <1>a, <1>b, <1>12
    DEF DestroyInv, DecrRef, Goto, listvars, syncvars, insvars, gcvars, chanvars
<1>13. ASSUME NEW t \in AdminThreads, UnlockRef(t)
       PROVE  DestroyInv'
  BY <1>a, <1>b, <1>13
    DEF DestroyInv, UnlockRef, Goto, eventvars, listvars, syncvars, insvars, gcvars,
     chanvars
<1>14. ASSUME NEW t \in AdminThreads, Mark(t)
       PROVE  DestroyInv'
  BY <1>a, <1>b, <1>14
    DEF DestroyInv, Mark, Goto, listvars, syncvars, insvars, gcvars, chanvars
<1>15. ASSUME NEW t \in AdminThreads, Return(t)
       PROVE  DestroyInv'
  BY <1>a, <1>b, <1>15
    DEF DestroyInv, Return, Goto, listvars, syncvars, insvars, gcvars, chanvars
<1>16. ASSUME NEW t \in AdminThreads, Handoff(t)
       PROVE  DestroyInv'
  BY <1>a, <1>b, <1>16
    DEF DestroyInv, Handoff, listvars, syncvars, insvars, threadvars, gcvars, chanvars
<1>17. ASSUME NEW t \in AdminThreads, DispatchEnd(t)
       PROVE  DestroyInv'
  BY <1>a, <1>b, <1>17
    DEF DestroyInv, DispatchEnd, Goto, eventvars, listvars, syncvars, insvars, gcvars,
     chanvars
<1>18. ASSUME NEW e \in Events, Release(e)
       PROVE  DestroyInv'
  <2>1. dst \notin {"delete", "gone"}
    BY <1>a, <1>18 DEF DestroyInv, Release
  <2> QED
    BY <1>a, <1>18, <2>1 DEF DestroyInv, Release, listvars, threadvars, chanvars
<1>19. CASE GCUnlink
  BY <1>a, <1>b, <1>19
    DEF DestroyInv, GCUnlink, eventvars, syncvars, insvars, threadvars, chanvars
<1>20. CASE DestroyBegin
  BY <1>a, <1>b, <1>20
    DEF DestroyInv, DestroyBegin, eventvars, listvars, syncvars, insvars, threadvars, gcvars
<1>21. CASE SetFinished
  BY <1>a, <1>b, <1>21
    DEF DestroyInv, SetFinished, Broadcast, eventvars, listvars, insvars, gcvars
<1>22. CASE FinishRetry
  BY <1>a, <1>b, <1>22
    DEF DestroyInv, FinishRetry, Broadcast, eventvars, listvars, syncvars, insvars, gcvars,
     chanvars
<1>23. CASE FinishDone
  BY <1>a, <1>b, <1>23
    DEF DestroyInv, FinishDone, eventvars, listvars, syncvars, insvars, threadvars, gcvars
<1>24. CASE JoinThreads
  BY <1>a, <1>b, <1>24
    DEF DestroyInv, JoinThreads, eventvars, listvars, syncvars, insvars, threadvars, gcvars
<1>25. CASE ClientsGone
  BY <1>a, <1>b, <1>25
    DEF DestroyInv, ClientsGone, eventvars, listvars, syncvars, insvars, threadvars, gcvars
<1>26. CASE Delete
  BY <1>a, <1>b, <1>26
    DEF DestroyInv, Delete, syncvars, insvars, threadvars, gcvars
<1>27. CASE UNCHANGED <<dst, pc, ins, held, evhead>>
  BY <1>a, <1>b, <1>27
    DEF DestroyInv
<1> QED
  BY <1>1, <1>2, <1>3, <1>4, <1>5, <1>6, <1>7, <1>8, <1>9, <1>10, <1>11, <1>12, <1>13,
     <1>14, <1>15, <1>16, <1>17, <1>18, <1>19, <1>20, <1>21, <1>22, <1>23, <1>24, <1>25,
     <1>26, <1>27
    DEF Next, Supplier, AdminThread, Collector, Destroyer, QosChanged, eventvars, listvars,
     insvars, threadvars, gcvars, chanvars, GCWake, syncvars, GCBegin, GCCheck, Predecessor,
     GCTake, GCDelete, GCEnd, vars

\* No step leaves the invariant.
LEMMA CoreStep == CoreInv /\ [Next]_vars => CoreInv'
<1> SUFFICES ASSUME CoreInv, [Next]_vars
             PROVE  CoreInv'
  OBVIOUS
<1>1. CASE MemorySafe
  BY <1>1, TypeStep, ListStep, CountStep, ThreadStep, ShutdownStep, DestroyStep DEF CoreInv
<1>2. CASE UNCHANGED vars
  <2>1. ListInv'
    BY <1>2 DEF CoreInv, ListInv, Linked, vars, eventvars, listvars, insvars, chanvars
  <2> QED
    BY <2>1, TypeStep, CountStep, ThreadStep, ShutdownStep, DestroyStep DEF CoreInv
<1> QED
  BY <1>1, <1>2 DEF Next

--------------------------------------------------------------------------------
(* Invariants for every limit *)

\* An empty queue that nobody uses yet is as the invariant says.
LEMMA CoreInit == Init => CoreInv
<1> SUFFICES ASSUME Init
             PROVE  CoreInv
  OBVIOUS
<1> USE BoundsAssumption DEF Init
<1>1. TypeOK
  <2>1. inserted \in 0..NumEvents /\ held \in [Events -> 0..MaxHeld]
    OBVIOUS
  <2>2. passed \in [AdminThreads -> SUBSET Events]
    OBVIOUS
  <2>3. pc \in [AdminThreads -> ThreadSteps] /\ cur \in [AdminThreads -> Ref]
        /\ prev \in [AdminThreads -> Ref]
    BY RefFacts DEF ThreadSteps
  <2>4. next \in [Events -> Ref] /\ rcnt \in [Events -> Nat]
        /\ stat \in [Events -> {"NEWBORN", "PENDING", "DISPATCHED"}]
        /\ mem \in [Events -> {"unborn", "live", "freed"}]
    BY RefFacts
  <2>5. /\ evhead \in Ref /\ evtail \in Ref /\ tmp \in Ref /\ maxlen \in MaxQueueLengths
        /\ length \in Int /\ numblk \in Int /\ cursize \in Int /\ evncntr \in Nat
    BY RefFacts
  <2>6. /\ finish \in BOOLEAN /\ gcdone \in BOOLEAN /\ shutmedown \in BOOLEAN
        /\ ins = "idle" /\ gc = "wait" /\ dst = "alive"
    OBVIOUS
  <2> HIDE DEF Init
  <2> QED
    BY <2>1, <2>2, <2>3, <2>4, <2>5, <2>6 DEF TypeOK
<1>2. ListInv
  <2>1. \A e \in Events : mem[e] = "unborn" /\ e > inserted /\ next[e] = None /\ ~(e < Linked)
    BY DEF Events, Linked
  <2> QED
    BY <2>1 DEF ListInv, Linked, None
<1>3. CountInv
  BY DEF CountInv, Events
<1>4. ThreadInv
  BY DEF ThreadInv, ThreadOK, Position, Linked, None
<1>5. ShutdownInv /\ DestroyInv
  BY DEF ShutdownInv, DestroyInv
<1> QED
  BY <1>1, <1>2, <1>3, <1>4, <1>5 DEF CoreInv

\* The invariant holds in every reachable state, whatever the limit.
THEOREM CoreInvariant == Spec => []CoreInv
<1>1. CoreInv /\ [Next]_vars => CoreInv'
  BY CoreStep
<1> QED
  BY CoreInit, <1>1, PTL DEF Spec

\* Every variable keeps its type; in particular no reference count of an event
\* goes below zero, which RDI_SEVENT_DECR_REF_COUNTER does not check.
THEOREM TypeCorrect == Spec => []TypeOK
<1>1. CoreInv => TypeOK
  BY DEF CoreInv
<1> QED
  BY <1>1, CoreInvariant, PTL

\* The reference count of an event in the queue is the number of those who may
\* still use it: next_event(), _add_event() and the proxy queues keep it exact.
THEOREM CountsExact == Spec => []RefCountExact
<1>1. CoreInv => RefCountExact
  BY DEF CoreInv, TypeOK, ListInv, CountInv, RefCountExact, Events
<1> QED
  BY <1>1, CoreInvariant, PTL

\* admin_dispatch() never meets a null event unless the channel shuts down.
THEOREM NullEventOnlyAtShutdown == Spec => []NullOnlyAtShutdown
<1>1. CoreInv => NullOnlyAtShutdown
  BY DEF CoreInv, ShutdownInv, NullOnlyAtShutdown
<1> QED
  BY <1>1, CoreInvariant, PTL


--------------------------------------------------------------------------------
(* The advertised length                                                    *)

\* Events the collector has freed since it last told the length.
Untold == IF gc \in {"check", "take", "unlink", "delete", "end"} THEN evncntr ELSE 0

\* The length, less what the collector is about to take off it, covers the events
\* in the queue; and what the collector deletes, while gc1() may do so at the same
\* time, is an event that was there.
LengthInv ==
  /\ gc = "unlink" /\ tmp = None => evhead = None
  /\ gc = "delete" => tmp # None
  /\ dst # "gone" => Cardinality(Live) + Untold <= length

LEMMA LiveCounts == IsFiniteSet(Live) /\ Cardinality(Live) \in Nat
<1>1. IsFiniteSet(Events)
  BY FS_Interval, BoundsAssumption DEF Events
<1> QED
  BY <1>1, FS_Subset, FS_CardinalityType DEF Live

\* insert() and qos_changed() keep the length right, with a place made by gc1()
\* and without.
LEMMA LengthSupplier ==
  ASSUME CoreInv, LengthInv, MemorySafe, SupplierCall \/ Supplier \/ QosChanged
  PROVE  LengthInv'
<1>0. /\ length \in Int /\ evncntr \in Nat /\ inserted \in 0..NumEvents
      /\ mem \in [Events -> {"unborn", "live", "freed"}] /\ evhead \in Ref
      /\ \A e \in Events : mem[e] = "unborn" <=> e > inserted
      /\ ins = "called" => inserted < NumEvents
  BY DEF CoreInv, TypeOK, ListInv
<1>1. CASE InsertBegin
  <2> DEFINE e == inserted + 1
  <2>1. e \in Events /\ e \notin Live
    BY <1>0, <1>1, BoundsAssumption DEF InsertBegin, Events, Live
  <2>2. Live' = Live \cup {e}
    BY <1>0, <1>1, <2>1 DEF InsertBegin, Accept, Live
  <2> HIDE DEF e
  <2>3. Cardinality(Live') = Cardinality(Live) + 1
    BY <2>1, <2>2, LiveCounts, FS_AddElement
  <2> QED
    BY <1>0, <1>1, <2>3, LiveCounts
      DEF LengthInv, Untold, InsertBegin, Accept, gcvars, chanvars
<1>2. CASE InsertAfterGc1
  <2> DEFINE e == inserted + 1
  <2>1. e \in Events /\ e \notin Live /\ evhead # None
    BY <1>0, <1>2, BoundsAssumption DEF InsertAfterGc1, Events, Live
  <2>2. evhead \in Live
    BY <2>1, <1>0 DEF MemorySafe, InUse, ListUses, Live, Ref
  <2>3. Live' = (Live \ {evhead}) \cup {e} /\ evhead \in Events
    BY <1>0, <1>2, <2>1, <2>2 DEF InsertAfterGc1, Accept, Live
  <2>4. evhead # e
    BY <2>1, <2>2
  <2> HIDE DEF e
  <2>5. IsFiniteSet(Live \ {evhead}) /\ Cardinality(Live \ {evhead}) = Cardinality(Live) - 1
    BY <2>2, LiveCounts, FS_RemoveElement
  <2>6. Cardinality(Live') = (Cardinality(Live) - 1) + 1
    BY <2>1, <2>3, <2>4, <2>5, FS_AddElement
  <2>7. gc # "unlink" \/ tmp # None
    BY <1>2, <2>1 DEF LengthInv
  <2> QED
    BY <1>0, <1>2, <2>6, <2>7, LiveCounts
      DEF LengthInv, Untold, InsertAfterGc1, Accept, gcvars, chanvars
<1>3. CASE InsertPublish
  <2>1. gc # "unlink" \/ tmp # None
    BY <1>3 DEF LengthInv, MemorySafe, HeadUsed, InsertPublish, CoreInv, DestroyInv
  <2> QED
    BY <1>3, <2>1 DEF LengthInv, Untold, InsertPublish, Live, eventvars, gcvars, chanvars
<1>4. CASE SupplierCall \/ InsertRefused \/ InsertLink \/ QosChanged
  BY <1>4 DEF LengthInv, Untold, Live, SupplierCall, InsertRefused, InsertLink, QosChanged,
              eventvars, listvars, gcvars, chanvars
<1> QED
  BY <1>1, <1>2, <1>3, <1>4 DEF Supplier

\* So do the collector, which tells the length last, and destroy().
LEMMA LengthCollector ==
  ASSUME CoreInv, LengthInv, MemorySafe, Collector \/ DestroyBegin \/ Destroyer
  PROVE  LengthInv'
<1>0. /\ length \in Int /\ evncntr \in Nat /\ tmp \in Ref
      /\ mem \in [Events -> {"unborn", "live", "freed"}]
  BY DEF CoreInv, TypeOK
<1>1. CASE GCDelete
  <2>1. tmp # None /\ dst # "gone" /\ tmp \in Events
    BY <1>0, <1>1 DEF LengthInv, GCDelete, Ref
  <2>2. tmp \in Live
    BY <1>1, <2>1 DEF MemorySafe, InUse, CollectorUses, GCDelete, Live
  <2>3. Live' = Live \ {tmp}
    BY <1>0, <1>1, <2>2 DEF GCDelete, Live
  <2>4. Cardinality(Live') = Cardinality(Live) - 1
    BY <2>2, <2>3, LiveCounts, FS_RemoveElement
  <2> QED
    BY <1>0, <1>1, <2>1, <2>4, LiveCounts DEF LengthInv, Untold, GCDelete, listvars, chanvars
<1>2. CASE GCUnlink
  BY <1>2 DEF LengthInv, Untold, GCUnlink, Live, eventvars, gcvars, chanvars
<1>3. CASE GCTake
  BY <1>3 DEF LengthInv, Untold, GCTake, Live, eventvars, listvars, chanvars
<1>4. CASE GCEnd
  <2>1. Live' = Live
    BY <1>4 DEF GCEnd, Live, eventvars
  <2> QED
    BY <1>0, <1>4, <2>1, LiveCounts DEF LengthInv, Untold, GCEnd, chanvars
<1>5. CASE GCWake \/ GCBegin \/ GCCheck
  <2>1. Live' = Live
    BY <1>5 DEF GCWake, GCBegin, GCCheck, Live, eventvars
  <2> QED
    BY <1>0, <1>5, <2>1, LiveCounts
      DEF LengthInv, Untold, GCWake, GCBegin, GCCheck, listvars, chanvars
<1>6. CASE Delete
  BY <1>6 DEF LengthInv, Delete, gcvars
<1>7. CASE DestroyBegin \/ SetFinished \/ FinishRetry \/ FinishDone \/ JoinThreads \/ ClientsGone
  BY <1>7 DEF LengthInv, Untold, Live, DestroyBegin, SetFinished, FinishRetry, FinishDone,
              JoinThreads, ClientsGone, eventvars, listvars, gcvars, chanvars
<1> QED
  BY <1>1, <1>2, <1>3, <1>4, <1>5, <1>6, <1>7 DEF Collector, Destroyer

LEMMA LengthStep == CoreInv /\ LengthInv /\ [Next]_vars => LengthInv'
<1> SUFFICES ASSUME CoreInv, LengthInv, [Next]_vars
             PROVE  LengthInv'
  OBVIOUS
<1>1. ASSUME UNCHANGED <<mem, evhead, length, gcvars, dst>>
      PROVE  LengthInv'
  BY <1>1 DEF LengthInv, Untold, Live, gcvars
<1>2. ASSUME NEW t \in AdminThreads, AdminThread(t) \/ Handoff(t)
      PROVE  LengthInv'
  BY <1>1, <1>2 DEF AdminThread, AdminTop, NextEvent, Look, Lock, Wake, AwaitEvent, DecrRef, UnlockRef,
                    Mark, Return, DispatchEnd, Handoff, eventvars, listvars, chanvars
<1>3. ASSUME NEW e \in Events, Release(e)
      PROVE  LengthInv'
  BY <1>1, <1>3 DEF Release, listvars, chanvars
<1>4. CASE UNCHANGED vars
  BY <1>1, <1>4 DEF vars, eventvars, listvars, chanvars
<1> QED
  BY <1>2, <1>3, <1>4, LengthSupplier, LengthCollector DEF Next

\* Whatever the limit, how often it changes, and although gc1() and the collector
\* both free events and each counts for itself, the length never promises a place
\* that is not there, and garbage_collect() never subtracts more than it has.
THEOREM LengthNeverShort == Spec => []LengthCovers
<1>1. Init => LengthInv
  <2>1. Init => Live = {}
    BY DEF Init, Live
  <2> QED
    BY <2>1, FS_EmptySet DEF Init, LengthInv, Untold
<1>2. CoreInv /\ LengthInv => LengthCovers
  BY LiveCounts DEF CoreInv, TypeOK, LengthInv, Untold, LengthCovers
<1> QED
  BY <1>1, <1>2, LengthStep, CoreInvariant, PTL DEF Spec

--------------------------------------------------------------------------------
(* The queue with no limit *)

\* A queue with no limit is never full: gc1() is never called.
LEMMA NeverFull ==
  ASSUME MaxQueueLengths = {0}, CoreInv
  PROVE  ~Full
BY DEF CoreInv, TypeOK, Full

\* An event nobody needs has a successor: every thread is at a later one.
LEMMA UnneededBehind ==
  ASSUME CoreInv, NEW e, Unneeded(e)
  PROVE  e \in Events /\ e < Linked /\ e < inserted
<1>1. PICK t \in AdminThreads : e \in passed[t]
  BY ThreadsAssumption DEF Unneeded
<1> QED
  BY <1>1, PassedBehind DEF CoreInv, TypeOK

\* An event nobody needs is never needed again: only a thread that is at an
\* event hands it over, and threads do not go back.
LEMMA UnneededStays ==
  ASSUME CoreInv, [Next]_vars, NEW e \in Events, Unneeded(e)
  PROVE  Unneeded(e)'
<1>a. /\ passed \in [AdminThreads -> SUBSET Events] /\ held \in [Events -> 0..MaxHeld]
      /\ Unneeded(e)
  BY DEF CoreInv, TypeOK
<1>1. ASSUME NEW t \in AdminThreads, DecrRef(t)
      PROVE  Unneeded(e)'
  BY <1>a, <1>1, ThreadFacts DEF Unneeded, DecrRef
<1>2. ASSUME NEW t \in AdminThreads, Handoff(t)
      PROVE  Unneeded(e)'
  <2>1. cur[t] # e
    <3>1. e < Position(t)
      BY <1>a, PassedBehind DEF Unneeded
    <3>2. Position(t) = cur[t]
      BY <1>2 DEF Handoff, Position, CoreInv, ThreadInv, ThreadOK
    <3> QED
      BY <3>1, <3>2 DEF Events
  <2> QED
    BY <1>a, <1>2, <2>1 DEF Unneeded, Handoff, threadvars
<1>3. ASSUME NEW d \in Events, Release(d)
      PROVE  Unneeded(e)'
  <2>1. d # e
    BY <1>a, <1>3 DEF Unneeded, Release
  <2> QED
    BY <1>a, <1>3, <2>1 DEF Unneeded, Release, threadvars
<1>4. CASE UNCHANGED <<passed, held>>
  BY <1>a, <1>4
    DEF Unneeded
<1> QED
  BY <1>1, <1>2, <1>3, <1>4
    DEF Next, Supplier, AdminThread, Collector, Destroyer, SupplierCall, eventvars,
     listvars, syncvars, threadvars, gcvars, chanvars, InsertRefused, InsertBegin, Accept,
     InsertAfterGc1, InsertLink, InsertPublish, Broadcast, QosChanged, insvars, AdminTop,
     Goto, NextEvent, Look, Ahead, Got, Lock, AwaitEvent, Awaited, Wake, UnlockRef, Mark,
     Return, DispatchEnd, GCWake, GCBegin, GCCheck, Predecessor, GCTake, GCUnlink, GCDelete,
     GCEnd, DestroyBegin, SetFinished, FinishRetry, FinishDone, JoinThreads, ClientsGone,
     Delete, vars

\* What the collector has in hand stays unneeded until it is deleted, and the
\* head of the list stays right behind it.
LEMMA CollectorStep ==
  ASSUME MaxQueueLengths = {0}, CoreInv, CollectorInv, FreedInv, [Next]_vars
  PROVE  CollectorInv'
<1>a. CollectorInv /\ FreedInv /\ ListInv /\ DestroyInv
  BY DEF CoreInv
<1>b. /\ mem \in [Events -> {"unborn", "live", "freed"}] /\ next \in [Events -> Ref]
      /\ inserted \in 0..NumEvents /\ evhead \in Ref /\ evtail \in Ref /\ tmp \in Ref
      /\ rcnt \in [Events -> Nat]
  BY DEF CoreInv, TypeOK
<1>c. \A e \in Events : Unneeded(e) => Unneeded(e)'
  BY UnneededStays
<1>d. \A e \in Events : Unneeded(e) => e < Linked /\ e < inserted
  BY UnneededBehind
<1>1. CASE InsertBegin
  <2>1. tmp # None => tmp \in Events
    BY <1>b, RefFacts
  <2>2. gc = "delete" /\ dst # "gone" => tmp # inserted + 1
    BY <1>a, <1>b, <1>d, <2>1, BoundsAssumption DEF CollectorInv
  <2> QED
    BY <1>a, <1>b, <1>c, <1>1, <2>1, <2>2, RefFacts
      DEF CollectorInv, Unneeded, InsertBegin, Accept, gcvars, chanvars
<1>2. CASE InsertAfterGc1
  BY <1>2, NeverFull DEF InsertAfterGc1
<1>3. CASE InsertPublish
  <2>1. CASE evtail # inserted
    BY <1>a, <1>b, <1>c, <1>3, <2>1, RefFacts
      DEF CollectorInv, Unneeded, InsertPublish, eventvars, gcvars, chanvars
  <2>2. CASE evtail = inserted
    <3>1. inserted = 1 /\ Linked = 1 /\ dst # "gone"
      BY <1>a, <1>b, <1>3, <2>2 DEF ListInv, DestroyInv, InsertPublish, Linked
    <3>2. ~(evhead # None /\ Unneeded(evhead)) /\ ~(tmp # None /\ evhead = tmp + 1 /\ Unneeded(tmp))
      BY <1>b, <1>d, <3>1 DEF Ref, Events, None
    <3>3. gc \notin {"take", "unlink", "delete"}
      BY <1>a, <3>1, <3>2 DEF CollectorInv
    <3> QED
      BY <1>3, <3>3 DEF CollectorInv, InsertPublish, gcvars
  <2> QED
    BY <2>1, <2>2
<1>4. CASE GCWake
  BY <1>4 DEF CollectorInv, GCWake
<1>5. CASE GCBegin
  BY <1>5 DEF CollectorInv, GCBegin
<1>6. CASE GCCheck
  <2>1. evhead # None /\ Garbage(evhead) => Unneeded(evhead)
    <3>1. SUFFICES ASSUME NEW h \in Events, h = evhead, Garbage(h)
                   PROVE  Unneeded(h)
      BY <1>b, RefFacts
    <3>2. h <= inserted
      BY <1>a, <1>b, <3>1 DEF ListInv, Linked, Events
    <3>3. Cardinality(Readers(h)) = 0 /\ held[h] = 0
      BY <3>1, <3>2, ReadersCount, BoundsAssumption DEF CoreInv, TypeOK, CountInv, Garbage
    <3> QED
      BY <3>3, ReadersNone DEF Unneeded
  <2> QED
    BY <1>a, <2>1, <1>6 DEF CollectorInv, GCCheck, Unneeded, eventvars, listvars, threadvars, chanvars
<1>7. CASE GCTake
  BY <1>a, <1>7 DEF CollectorInv, Unneeded, GCTake, eventvars, listvars, threadvars, chanvars
<1>8. CASE GCUnlink
  <2>1. PICK h \in Events : h = evhead /\ h = tmp /\ Unneeded(h)
    BY <1>a, <1>b, <1>8, RefFacts DEF CollectorInv, GCUnlink
  <2>2. h < Linked /\ h < inserted
    BY <1>d, <2>1
  <2>3. next[h] = h + 1 /\ mem[h] = "live"
    BY <1>a, <1>b, <1>8, <2>1, <2>2, BoundsAssumption DEF ListInv, FreedInv, GCUnlink, Events
  <2> QED
    BY <1>c, <1>8, <2>1, <2>3, RefFacts DEF CollectorInv, GCUnlink, Unneeded, eventvars, threadvars
<1>9. CASE GCDelete
  BY <1>9 DEF CollectorInv, GCDelete
<1>10. CASE GCEnd
  BY <1>10 DEF CollectorInv, GCEnd
<1>11. CASE DestroyBegin
  BY <1>a, <1>b, <1>c, <1>11, RefFacts DEF CollectorInv, Unneeded, DestroyBegin, eventvars, listvars, threadvars, gcvars
<1>12. CASE SetFinished
  BY <1>a, <1>b, <1>c, <1>12, RefFacts DEF CollectorInv, Unneeded, SetFinished, eventvars, listvars, gcvars
<1>13. CASE FinishDone
  BY <1>a, <1>b, <1>c, <1>13, RefFacts DEF CollectorInv, Unneeded, FinishDone, eventvars, listvars, threadvars, gcvars
<1>14. CASE JoinThreads
  BY <1>a, <1>b, <1>c, <1>14, RefFacts DEF CollectorInv, Unneeded, JoinThreads, eventvars, listvars, threadvars, gcvars
<1>15. CASE ClientsGone
  BY <1>a, <1>b, <1>c, <1>15, RefFacts DEF CollectorInv, Unneeded, ClientsGone, eventvars, listvars, threadvars, gcvars
<1>16. CASE Delete
  BY <1>16 DEF CollectorInv, Delete
<1>17. CASE UNCHANGED <<gc, tmp, evhead, mem, dst>>
  BY <1>a, <1>b, <1>c, <1>17, RefFacts DEF CollectorInv, Unneeded
<1> QED
  BY <1>1, <1>2, <1>3, <1>4, <1>5, <1>6, <1>7, <1>8, <1>9, <1>10, <1>11, <1>12, <1>13,
     <1>14, <1>15, <1>16, <1>17
    DEF Next, Supplier, AdminThread, Collector, Destroyer, SupplierCall, eventvars,
     listvars, syncvars, threadvars, gcvars, chanvars, InsertRefused, InsertLink,
     QosChanged, insvars, AdminTop, Goto, NextEvent, Look, Ahead, Got, Lock, AwaitEvent,
     Awaited, Wake, DecrRef, UnlockRef, Mark, Return, Handoff, DispatchEnd, Release,
     FinishRetry, Broadcast, vars

\* What is freed is what precedes the head, the event in the collector's hand apart.
LEMMA FreedStep ==
  ASSUME MaxQueueLengths = {0}, CoreInv, CollectorInv, FreedInv, [Next]_vars
  PROVE  FreedInv'
<1>a. CollectorInv /\ FreedInv /\ ListInv /\ DestroyInv
  BY DEF CoreInv
<1>b. /\ mem \in [Events -> {"unborn", "live", "freed"}] /\ next \in [Events -> Ref]
      /\ inserted \in 0..NumEvents /\ evhead \in Ref /\ evtail \in Ref /\ tmp \in Ref
      /\ rcnt \in [Events -> Nat]
  BY DEF CoreInv, TypeOK
<1>c. \A e \in Events : Unneeded(e) => Unneeded(e)'
  BY UnneededStays
<1>d. \A e \in Events : Unneeded(e) => e < Linked /\ e < inserted
  BY UnneededBehind
<1>1. CASE SupplierCall
  BY <1>a, <1>b, <1>c, <1>1 DEF FreedInv, Unneeded, SupplierCall, eventvars, listvars, gcvars, chanvars
<1>2. CASE InsertRefused
  BY <1>a, <1>b, <1>c, <1>2 DEF FreedInv, Unneeded, InsertRefused, eventvars, listvars, gcvars, chanvars
<1>3. CASE InsertBegin
  <2>1. evhead <= inserted /\ evhead \in Int /\ inserted + 1 \in Events
    BY <1>a, <1>b, <1>3, SupplierFacts, BoundsAssumption DEF ListInv, Linked, InsertBegin, Ref, Events, None
  <2>2. mem' = [mem EXCEPT ![inserted + 1] = "live"] /\ ins = "called" /\ ins' = "link"
        /\ inserted' = inserted + 1 /\ evhead' = evhead /\ dst' = dst /\ gc' = gc /\ tmp' = tmp
    BY <1>3 DEF InsertBegin, Accept, gcvars, chanvars
  <2>3. \A e \in Events : e < evhead => mem'[e] = mem[e]
    BY <1>b, <2>1, <2>2
  <2>4. evhead = None => inserted = 0 \/ dst = "gone"
    BY <1>a, <2>2 DEF FreedInv
  <2>5. \A e \in Events : mem'[e] = "freed" => mem[e] = "freed"
    BY <1>b, <2>1, <2>2
  <2> QED
    BY <1>a, <1>c, <2>2, <2>3, <2>4, <2>5 DEF FreedInv, Unneeded
<1>4. CASE InsertAfterGc1
  BY <1>4, NeverFull DEF InsertAfterGc1
<1>5. CASE InsertLink
  BY <1>a, <1>c, <1>5 DEF FreedInv, Unneeded, InsertLink, gcvars, chanvars
<1>6. CASE InsertPublish
  <2>1. CASE evtail # inserted
    <3>1. inserted > 1
      BY <1>a, <1>b, <1>6, <2>1, BoundsAssumption DEF ListInv, DestroyInv, InsertPublish
    <3> QED
      BY <1>a, <1>b, <1>c, <1>6, <2>1, <3>1
        DEF FreedInv, Unneeded, InsertPublish, eventvars, gcvars, chanvars
  <2>2. CASE evtail = inserted
    <3>1. inserted = 1 /\ Linked = 1 /\ evhead' = 1
      BY <1>a, <1>b, <1>6, <2>2 DEF ListInv, DestroyInv, InsertPublish, Linked
    <3>2. \A e \in Events : ~Unneeded(e)
      BY <1>d, <3>1 DEF Events
    <3> QED
      BY <1>a, <1>b, <1>6, <3>1, <3>2 DEF FreedInv, InsertPublish, eventvars, chanvars, Events, None
  <2> QED
    BY <2>1, <2>2
<1>7. CASE GCWake
  BY <1>a, <1>b, <1>c, <1>7 DEF FreedInv, Unneeded, GCWake, eventvars, listvars, insvars, threadvars, chanvars
<1>8. CASE GCBegin
  BY <1>a, <1>b, <1>c, <1>8 DEF FreedInv, Unneeded, GCBegin, eventvars, listvars, insvars, threadvars, chanvars
<1>9. CASE GCCheck
  BY <1>a, <1>b, <1>c, <1>9 DEF FreedInv, Unneeded, GCCheck, eventvars, listvars, insvars, threadvars, chanvars
<1>10. CASE GCTake
  BY <1>a, <1>b, <1>c, <1>10 DEF FreedInv, Unneeded, GCTake, eventvars, listvars, insvars, threadvars, chanvars
<1>11. CASE GCUnlink
  <2>1. PICK h \in Events : h = evhead /\ h = tmp /\ Unneeded(h)
    BY <1>a, <1>b, <1>11, RefFacts DEF CollectorInv, GCUnlink
  <2>2. h < Linked
    BY <1>d, <2>1
  <2>3. evhead' = h + 1 /\ dst' = dst /\ mem' = mem /\ gc = "unlink" /\ gc' = "delete" /\ tmp' = h /\ dst # "gone"
    BY <1>a, <1>b, <1>11, <2>1, <2>2, BoundsAssumption DEF ListInv, GCUnlink, Events, eventvars, chanvars
  <2> QED
    BY <1>a, <1>c, <2>1, <2>3 DEF FreedInv, Unneeded, Events, None
<1>12. CASE GCDelete
  <2>1. PICK h \in Events : h = tmp /\ Unneeded(h) /\ evhead = h + 1
    BY <1>a, <1>b, <1>12, RefFacts DEF CollectorInv, GCDelete
  <2>2. /\ mem' = [mem EXCEPT ![h] = "freed"] /\ evhead' = evhead /\ dst' = dst /\ dst # "gone"
        /\ inserted' = inserted /\ ins' = ins /\ gc = "delete" /\ gc' = "check"
    BY <1>12, <2>1 DEF GCDelete, listvars, insvars, chanvars
  <2> QED
    BY <1>a, <1>b, <1>c, <2>1, <2>2 DEF FreedInv, Unneeded, Events
<1>13. CASE GCEnd
  BY <1>a, <1>b, <1>c, <1>13 DEF FreedInv, Unneeded, GCEnd, eventvars, insvars, threadvars, chanvars
<1>14. CASE DestroyBegin
  BY <1>a, <1>b, <1>c, <1>14 DEF FreedInv, Unneeded, DestroyBegin, eventvars, listvars, insvars, gcvars
<1>15. CASE SetFinished
  BY <1>a, <1>b, <1>c, <1>15 DEF FreedInv, Unneeded, SetFinished, eventvars, listvars, insvars, gcvars
<1>16. CASE FinishDone
  BY <1>a, <1>b, <1>c, <1>16 DEF FreedInv, Unneeded, FinishDone, eventvars, listvars, insvars, gcvars
<1>17. CASE JoinThreads
  BY <1>a, <1>b, <1>c, <1>17 DEF FreedInv, Unneeded, JoinThreads, eventvars, listvars, insvars, gcvars
<1>18. CASE ClientsGone
  BY <1>a, <1>b, <1>c, <1>18 DEF FreedInv, Unneeded, ClientsGone, eventvars, listvars, insvars, gcvars
<1>19. CASE Delete
  BY <1>19 DEF FreedInv, Delete
<1>20. CASE UNCHANGED <<gc, tmp, evhead, mem, dst, ins, inserted>>
  BY <1>a, <1>c, <1>20 DEF FreedInv, Unneeded
<1> QED
  BY <1>1, <1>2, <1>3, <1>4, <1>5, <1>6, <1>7, <1>8, <1>9, <1>10, <1>11, <1>12, <1>13,
     <1>14, <1>15, <1>16, <1>17, <1>18, <1>19, <1>20
    DEF Next, Supplier, AdminThread, Collector, Destroyer, QosChanged, eventvars, listvars,
     insvars, threadvars, gcvars, chanvars, AdminTop, Goto, syncvars, NextEvent, Look,
     Ahead, Got, Lock, AwaitEvent, Awaited, Wake, DecrRef, UnlockRef, Mark, Return, Handoff,
     DispatchEnd, Release, FinishRetry, Broadcast, vars

\* No step of a queue with no limit leaves the invariant ...
LEMMA UnlimitedStep ==
  ASSUME MaxQueueLengths = {0}
  PROVE  UnlimitedInv /\ [Next]_vars => UnlimitedInv'
BY CoreStep, CollectorStep, FreedStep DEF UnlimitedInv

\* ... which is why whatever anybody may still look at is live.
LEMMA UnlimitedSafe ==
  ASSUME MaxQueueLengths = {0}, UnlimitedInv
  PROVE  MemorySafe
<1>a. CoreInv /\ TypeOK /\ ListInv /\ CountInv /\ ThreadInv /\ DestroyInv /\ CollectorInv /\ FreedInv
  BY DEF UnlimitedInv, CoreInv
<1>b. /\ mem \in [Events -> {"unborn", "live", "freed"}] /\ inserted \in 0..NumEvents
      /\ evhead \in Ref /\ evtail \in Ref /\ cur \in [AdminThreads -> Ref]
      /\ prev \in [AdminThreads -> Ref] /\ held \in [Events -> 0..MaxHeld] /\ Linked <= inserted
  BY <1>a DEF TypeOK, Linked
<1>1. ASSUME NEW e \in Events, dst # "gone", e <= inserted, ~Unneeded(e)
      PROVE  mem[e] = "live"
  BY <1>a, <1>b, <1>1 DEF ListInv, FreedInv, Events
<1>2. ASSUME NEW t \in AdminThreads, NEW e \in Touched(t)
      PROVE  mem[e] = "live"
  <2>1. dst # "gone"
    BY <1>a, <1>2 DEF DestroyInv, Touched
  <2>2. e \in Events /\ e <= Linked
    BY <1>a, <1>b, <1>2, RefFacts DEF Touched, ThreadInv, ThreadOK
  <2>3. Position(t) <= e
    <3>1. ThreadOK(t) /\ cur[t] \in Int /\ prev[t] \in Int
      BY <1>a, <1>b, BoundsAssumption DEF ThreadInv, Ref, Events, None
    <3>2. pc[t] \in ThreadSteps
      BY <1>a DEF TypeOK
    <3>3. CASE pc[t] \in {"unlock", "mark", "ret", "dispatch"}
      BY <1>2, <3>1, <3>3 DEF Touched, ThreadOK, Position
    <3>4. CASE pc[t] = "decr"
      BY <1>2, <3>1, <3>4 DEF Touched, ThreadOK, Position
    <3>5. CASE pc[t] \in {"top", "call", "look", "lock", "blocked", "woken"}
      BY <1>2, <3>1, <3>5 DEF Touched, ThreadOK, Position
    <3>6. pc[t] \notin {"exit", "fatal"}
      BY <1>2 DEF Touched
    <3> QED
      BY <3>2, <3>3, <3>4, <3>5, <3>6 DEF ThreadSteps
  <2>4. e \notin passed[t]
    <3>1. SUFFICES ASSUME e \in passed[t]
                   PROVE  FALSE
      OBVIOUS
    <3>2. e < Position(t) /\ Position(t) \in Int
      BY <1>a, <1>b, <3>1, BoundsAssumption DEF ThreadInv, ThreadOK, Position, Ref, Events, None
    <3> QED
      BY <2>2, <2>3, <3>2 DEF Events
  <2> QED
    BY <1>1, <1>b, <2>1, <2>2, <2>4, BoundsAssumption DEF Unneeded, Linked, Events
<1>3. ASSUME NEW e \in ListUses
      PROVE  mem[e] = "live"
  <2>1. CASE dst = "gone"
    BY <1>a, <1>3, <2>1 DEF ListUses, ListInv, DestroyInv
  <2>2. CASE dst # "gone"
    <3>1. e \in Events
      BY <1>a, <1>b, <1>3, <2>2, SupplierFacts, RefFacts DEF ListUses
    <3>2. CASE e = evhead
      BY <1>a, <1>b, <2>2, <3>1, <3>2, BoundsAssumption DEF ListInv, FreedInv, Linked, Events
    <3>3. CASE e # evhead
      <4>1. e <= inserted /\ ~(e < Linked)
        BY <1>a, <1>b, <1>3, <2>2, <3>1, <3>3, BoundsAssumption DEF ListUses, ListInv, Linked, Events
      <4> QED
        BY <1>1, <1>a, <2>2, <3>1, <4>1, UnneededBehind
    <3> QED
      BY <3>2, <3>3
  <2> QED
    BY <2>1, <2>2
<1>4. ASSUME NEW e \in CollectorUses
      PROVE  mem[e] = "live"
  BY <1>a, <1>4 DEF CollectorUses, CollectorInv
<1>5. ASSUME NEW e \in Events, held[e] > 0
      PROVE  mem[e] = "live"
  <2>1. dst # "gone" /\ e <= inserted /\ ~Unneeded(e)
    BY <1>a, <1>b, <1>5, BoundsAssumption DEF DestroyInv, CountInv, Unneeded, Events
  <2> QED
    BY <1>1, <2>1
<1>6. HeadUsed => evhead # None
  BY <1>a, NeverFull DEF HeadUsed, CollectorInv
<1> QED
  BY <1>2, <1>3, <1>4, <1>5, <1>6 DEF MemorySafe, InUse

\* The invariant of a queue with no limit holds in every reachable state.
THEOREM UnlimitedInvariant ==
  ASSUME MaxQueueLengths = {0}
  PROVE  Spec => []UnlimitedInv
<1>1. Init => UnlimitedInv
  <2>1. Init => CoreInv
    BY CoreInit
  <2>2. Init => CollectorInv
    BY DEF Init, CollectorInv
  <2>3. Init => FreedInv
    BY DEF Init, FreedInv, Events, None
  <2> QED
    BY <2>1, <2>2, <2>3 DEF UnlimitedInv
<1>2. UnlimitedInv /\ [Next]_vars => UnlimitedInv'
  BY UnlimitedStep
<1> QED
  BY <1>1, <1>2, PTL DEF Spec

\* In a channel whose queue has no limit no event is deleted while a thread, the
\* list, a proxy queue or the collector may still look at it, although
\* next_event() and garbage_collect() go through the list without a lock.
THEOREM MemorySafety ==
  ASSUME MaxQueueLengths = {0}
  PROVE  Spec => []MemorySafe
<1>1. UnlimitedInv => MemorySafe
  BY UnlimitedSafe
<1> QED
  BY <1>1, UnlimitedInvariant, PTL

--------------------------------------------------------------------------------
(* A queue with no limit implements the log of EventLog *)

\* The steps that change nothing of what the log is made of.
LEMMA LogStutter ==
  ASSUME Linked' = Linked, \A t \in AdminThreads : Position(t)' = Position(t),
         Freed' = Freed, dst' = "gone" <=> dst = "gone"
  PROVE  UNCHANGED Log!logvars
<1>1. [t \in AdminThreads |-> Position(t)]' = [t \in AdminThreads |-> Position(t)]
  OBVIOUS
<1>2. Cardinality(Freed)' = Cardinality(Freed)
  OBVIOUS
<1>3. (dst = "gone")' = (dst = "gone")
  OBVIOUS
<1> QED
  BY <1>1, <1>2, <1>3 DEF Log!logvars

\* While there is a queue the freed events are the first ones, up to the one
\* the collector has in hand or the head.
LEMMA FreedPrefix ==
  ASSUME UnlimitedInv, dst # "gone"
  PROVE  /\ Cardinality(Freed) \in Nat
         /\ \A e \in Events : mem[e] = "freed" <=> e <= Cardinality(Freed)
         /\ gc = "delete" => Cardinality(Freed) = tmp - 1
<1> DEFINE C == IF gc = "delete" THEN tmp - 1 ELSE IF evhead = None THEN 0 ELSE evhead - 1
<1>a. CollectorInv /\ FreedInv /\ ListInv
  BY DEF UnlimitedInv, CoreInv
<1>b. /\ mem \in [Events -> {"unborn", "live", "freed"}] /\ inserted \in 0..NumEvents
      /\ evhead \in Ref /\ tmp \in Ref
  BY DEF UnlimitedInv, CoreInv, TypeOK
<1>1. C \in Nat /\ C <= NumEvents
  BY <1>a, <1>b, BoundsAssumption DEF CollectorInv, Ref, Events, None
<1>2. \A e \in Events : mem[e] = "freed" <=> e <= C
  <2>1. CASE gc = "delete"
    BY <1>a, <1>b, <2>1, BoundsAssumption DEF CollectorInv, FreedInv, Ref, Events, None
  <2>2. CASE gc # "delete"
    BY <1>a, <1>b, <2>2, BoundsAssumption DEF FreedInv, Ref, Events, None
  <2> QED
    BY <2>1, <2>2
<1>3. Freed = 1..C
  BY <1>1, <1>2, BoundsAssumption DEF Freed, Events
<1>4. Cardinality(Freed) = C
  BY <1>1, <1>3, FS_Interval
<1> QED
  BY <1>1, <1>2, <1>4

\* A thread's position is one of the linked events, or 0 before its first one.
LEMMA PositionType ==
  ASSUME CoreInv, NEW t \in AdminThreads
  PROVE  Position(t) \in Ref /\ Position(t) <= Linked
BY DEF CoreInv, TypeOK, ThreadInv, ThreadOK, Position

\* A set of events up to n has at most n elements.
LEMMA UpTo ==
  ASSUME NEW n \in Nat, NEW S, S \subseteq 1..n
  PROVE  IsFiniteSet(S) /\ Cardinality(S) \in Nat /\ Cardinality(S) <= n
<1>1. IsFiniteSet(1..n) /\ Cardinality(1..n) = n
  BY FS_Interval
<1>2. S \in SUBSET (1..n)
  OBVIOUS
<1> QED
  BY <1>1, <1>2, FS_Subset, FS_CardinalityType

\* Linking an event publishes it.
LEMMA PublishStep ==
  ASSUME CoreInv, InsertLink
  PROVE  Log!Publish
<1>1. /\ Linked' = Linked + 1 /\ Linked \in Int /\ Linked < NumEvents
  BY BoundsAssumption DEF CoreInv, TypeOK, ListInv, InsertLink, Linked
<1>2. UNCHANGED <<pc, cur, prev, mem, dst>>
  BY DEF CoreInv, ListInv, InsertLink, threadvars, chanvars
<1>3. [t \in AdminThreads |-> Position(t)]' = [t \in AdminThreads |-> Position(t)]
  BY <1>2 DEF Position
<1>4. Cardinality(Freed)' = Cardinality(Freed) /\ (dst = "gone")' = (dst = "gone")
  BY <1>2 DEF Freed
<1> QED
  BY <1>1, <1>3, <1>4 DEF Log!Publish

\* On its first call a thread gets an event that is linked and not freed.
LEMMA SubscribeStep ==
  ASSUME UnlimitedInv, UnlimitedInv', dst # "gone", NEW t \in AdminThreads, NEW e \in Events,
         mem[e] # "freed", e <= Linked, prev[t] = None, Got(t, e),
         pc[t] \in {"look", "lock", "woken"}, UNCHANGED <<ins, inserted, prev, mem, dst>>
  PROVE  Log!Subscribe(t)
<1>1. /\ cur \in [AdminThreads -> Ref] /\ pc \in [AdminThreads -> ThreadSteps]
      /\ Linked \in Int
  BY BoundsAssumption DEF UnlimitedInv, CoreInv, TypeOK, Linked
<1>2. Position(t) = 0 /\ Position(t)' = e
  BY <1>1, RefFacts DEF Position, Got, Goto, None
<1>3. \A s \in AdminThreads \ {t} : Position(s)' = Position(s)
  BY <1>1 DEF Position, Got, Goto
<1>4. e \in (Cardinality(Freed) + 1)..Linked
  BY <1>1, FreedPrefix DEF Events
<1>5. Linked' = Linked /\ Cardinality(Freed)' = Cardinality(Freed) /\ (dst = "gone")' = (dst = "gone")
  BY DEF Linked, Freed
<1>6. [s \in AdminThreads |-> Position(s)]' = [[s \in AdminThreads |-> Position(s)] EXCEPT ![t] = e]
  BY <1>2, <1>3
<1>7. [s \in AdminThreads |-> Position(s)][t] = 0
  BY <1>2
<1> QED
  BY <1>4, <1>5, <1>6, <1>7 DEF Log!Subscribe

\* A thread that gives up its event has moved to the next one.
LEMMA AdvanceStep ==
  ASSUME UnlimitedInv, NEW t \in AdminThreads, DecrRef(t)
  PROVE  Log!Advance(t)
<1>1. /\ cur \in [AdminThreads -> Ref] /\ pc \in [AdminThreads -> ThreadSteps]
      /\ prev[t] \in Int /\ cur[t] \in Int /\ Linked \in Int /\ ThreadOK(t)
  BY BoundsAssumption DEF UnlimitedInv, CoreInv, TypeOK, ThreadInv, Linked, Ref, Events, None
<1>2. /\ Position(t) = prev[t] /\ Position(t)' = prev[t] + 1 /\ prev[t] # 0 /\ prev[t] < Linked
  BY <1>1 DEF Position, ThreadOK, DecrRef, Goto, None
<1>3. \A s \in AdminThreads \ {t} : Position(s)' = Position(s)
  BY <1>1 DEF Position, DecrRef, Goto
<1>4. Linked' = Linked /\ Cardinality(Freed)' = Cardinality(Freed) /\ (dst = "gone")' = (dst = "gone")
  BY DEF Linked, Freed, DecrRef, insvars, chanvars
<1>5. [s \in AdminThreads |-> Position(s)]' =
        [[s \in AdminThreads |-> Position(s)] EXCEPT ![t] = Position(t) + 1]
  BY <1>2, <1>3
<1> QED
  BY <1>2, <1>4, <1>5 DEF Log!Advance

\* The collector frees the first event that is not freed, behind all threads.
LEMMA CollectStep ==
  ASSUME UnlimitedInv, UnlimitedInv', GCDelete
  PROVE  Log!Collect
<1>1. PICK h \in Events : h = tmp /\ Unneeded(h)
  BY RefFacts DEF UnlimitedInv, CoreInv, TypeOK, CollectorInv, GCDelete
<1>2. /\ mem \in [Events -> {"unborn", "live", "freed"}] /\ mem' = [mem EXCEPT ![h] = "freed"]
      /\ UNCHANGED <<ins, inserted, pc, cur, prev, dst>> /\ gc = "delete" /\ dst # "gone"
  BY <1>1 DEF UnlimitedInv, CoreInv, TypeOK, GCDelete, insvars, threadvars, chanvars
<1>3. Cardinality(Freed) = h - 1 /\ h \notin Freed
  BY <1>1, <1>2, FreedPrefix DEF Freed, Events
<1>4. Freed' = Freed \cup {h}
  BY <1>2 DEF Freed
<1>5. IsFiniteSet(Freed)
  <2>1. Freed \subseteq 1..NumEvents
    BY DEF Freed, Events
  <2> QED
    BY <2>1, UpTo, BoundsAssumption
<1>6. Cardinality(Freed)' = Cardinality(Freed) + 1
  BY <1>3, <1>4, <1>5, FS_AddElement
<1>7. \A t \in AdminThreads : Position(t) > Cardinality(Freed) + 1
  BY <1>1, <1>3, PassedBehind, PositionType DEF Unneeded, UnlimitedInv, Events, Ref, None
<1>8. /\ Linked' = Linked /\ (dst = "gone")' = (dst = "gone")
      /\ [t \in AdminThreads |-> Position(t)]' = [t \in AdminThreads |-> Position(t)]
  BY <1>2 DEF Linked, Position
<1> QED
  BY <1>6, <1>7, <1>8 DEF Log!Collect

\* Deleting the queue frees events, all of them accepted.
LEMMA CloseStep ==
  ASSUME UnlimitedInv, UnlimitedInv', Delete
  PROVE  Log!Close
<1>1. UNCHANGED <<ins, inserted, pc, cur, prev>> /\ dst' = "gone" /\ ins = "idle"
  BY DEF UnlimitedInv, CoreInv, DestroyInv, Delete, insvars, threadvars
<1>2. Freed \subseteq Freed'
  BY DEF Freed, Delete, UnlimitedInv, CoreInv, TypeOK
<1>3. Freed' \subseteq 1..inserted /\ inserted \in Nat
  BY <1>1, BoundsAssumption DEF UnlimitedInv, CoreInv, TypeOK, ListInv, Freed, Events
<1>4. IsFiniteSet(Freed') /\ Cardinality(Freed') \in Nat /\ Cardinality(Freed') <= inserted
      /\ Cardinality(Freed) \in Nat
  BY <1>2, <1>3, UpTo
<1>5. Cardinality(Freed) <= Cardinality(Freed)'
  BY <1>2, <1>4, FS_Subset
<1>6. Cardinality(Freed)' \in Cardinality(Freed)..Linked /\ Linked' = Linked
  BY <1>1, <1>3, <1>4, <1>5 DEF Linked, UnlimitedInv, CoreInv, TypeOK
<1>7. [t \in AdminThreads |-> Position(t)]' = [t \in AdminThreads |-> Position(t)]
  BY <1>1 DEF Position
<1> QED
  BY <1>1, <1>6, <1>7 DEF Log!Close

\* The tail and the head of the list, the first events of threads, are live;
\* a tail that is being replaced because the new thread itself keeps it.
LEMMA AheadLive ==
  ASSUME UnlimitedInv, NEW t \in AdminThreads, prev[t] = None, pc[t] = "look",
         NEW e \in Events, e = Ahead(t), dst # "gone"
  PROVE  mem[e] = "live"
<1>1. ListInv /\ FreedInv /\ CoreInv /\ inserted \in 0..NumEvents
      /\ mem \in [Events -> {"unborn", "live", "freed"}]
  BY DEF UnlimitedInv, CoreInv, TypeOK
<1>2. e <= inserted
  BY <1>1, BoundsAssumption DEF Ahead, ListInv, Events
<1>3. Position(t) = None
  BY DEF Position
<1>4. e \notin passed[t]
  BY <1>1, <1>3, PassedBehind DEF Events, None
<1> QED
  BY <1>1, <1>2, <1>4 DEF Unneeded, ListInv, FreedInv, Events

LEMMA AwaitedLive ==
  ASSUME MaxQueueLengths = {0}, UnlimitedInv, NEW t \in AdminThreads, prev[t] = None,
         NEW e \in Events, e = Awaited(t), dst # "gone"
  PROVE  mem[e] = "live"
<1>1. e = evhead
  BY DEF Awaited
<1>2. e \in ListUses
  BY <1>1, RefFacts DEF ListUses
<1> QED
  BY <1>2, UnlimitedSafe DEF MemorySafe, InUse

\* Once the queue is deleted nothing happens to it.
LEMMA GoneStops ==
  ASSUME CoreInv, dst = "gone", Next
  PROVE  FALSE
<1>1. /\ \A t \in AdminThreads : pc[t] = "exit"
      /\ ins = "idle" /\ shutmedown /\ \A e \in Events : held[e] = 0
  BY DEF CoreInv, DestroyInv, ShutdownInv
<1>2. CASE Supplier \/ SupplierCall \/ QosChanged
  BY <1>1, <1>2
    DEF Supplier, SupplierCall, InsertRefused, InsertBegin, InsertAfterGc1, InsertLink,
     InsertPublish, QosChanged
<1>3. ASSUME NEW t \in AdminThreads, AdminThread(t) \/ Handoff(t)
      PROVE  FALSE
  BY <1>1, <1>3
    DEF AdminThread, AdminTop, NextEvent, Look, Lock, Wake, DecrRef, UnlockRef, Mark,
     Return, Handoff, DispatchEnd
<1>4. ASSUME NEW e \in Events, Release(e)
      PROVE  FALSE
  BY <1>1, <1>4
    DEF Release
<1>5. CASE Collector
  BY <1>1, <1>5
    DEF Collector, GCWake, GCBegin, GCCheck, GCTake, GCUnlink, GCDelete, GCEnd
<1>6. CASE DestroyBegin \/ Destroyer
  BY <1>1, <1>6
    DEF Destroyer, DestroyBegin, SetFinished, FinishRetry, FinishDone, JoinThreads,
     ClientsGone, Delete
<1> QED
  BY <1>2, <1>3, <1>4, <1>5, <1>6 DEF Next

\* Every step of the queue is a step of the log, or changes nothing of it.
LEMMA LogStep ==
  ASSUME MaxQueueLengths = {0}, UnlimitedInv, UnlimitedInv', [Next]_vars
  PROVE  [Log!LogNext]_(Log!logvars)
<1>a. CoreInv /\ TypeOK /\ ListInv /\ ThreadInv
  BY DEF UnlimitedInv, CoreInv
<1>b. /\ pc \in [AdminThreads -> ThreadSteps] /\ cur \in [AdminThreads -> Ref]
      /\ prev \in [AdminThreads -> Ref] /\ inserted \in 0..NumEvents
      /\ mem \in [Events -> {"unborn", "live", "freed"}]
  BY <1>a DEF TypeOK
<1>1. ASSUME SupplierCall
      PROVE  UNCHANGED Log!logvars
  BY <1>1, LogStutter
    DEF Linked, Position, Freed, SupplierCall, eventvars, listvars, syncvars, threadvars,
     gcvars, chanvars
<1>2. ASSUME InsertRefused
      PROVE  UNCHANGED Log!logvars
  BY <1>2, LogStutter
    DEF Linked, Position, Freed, InsertRefused, eventvars, listvars, syncvars, threadvars,
     gcvars, chanvars
<1>3. ASSUME InsertPublish
      PROVE  UNCHANGED Log!logvars
  BY <1>a, <1>b, <1>3, LogStutter
    DEF Linked, Position, Freed, InsertPublish, Broadcast, eventvars, syncvars, gcvars,
     chanvars
<1>4. ASSUME QosChanged
      PROVE  UNCHANGED Log!logvars
  BY <1>4, LogStutter
    DEF Linked, Position, Freed, QosChanged, eventvars, listvars, insvars, threadvars,
     gcvars, chanvars
<1>5. ASSUME NEW t \in AdminThreads, AdminTop(t)
      PROVE  UNCHANGED Log!logvars
  BY <1>a, <1>b, <1>5, LogStutter
    DEF Linked, Position, Freed, ThreadInv, ThreadOK, AdminTop, Goto, eventvars, listvars,
     syncvars, insvars, gcvars, chanvars
<1>6. ASSUME NEW t \in AdminThreads, NextEvent(t)
      PROVE  UNCHANGED Log!logvars
  BY <1>a, <1>b, <1>6, LogStutter
    DEF Linked, Position, Freed, ThreadInv, ThreadOK, NextEvent, Goto, eventvars, listvars,
     syncvars, insvars, gcvars, chanvars
<1>7. ASSUME NEW t \in AdminThreads, UnlockRef(t)
      PROVE  UNCHANGED Log!logvars
  BY <1>a, <1>b, <1>7, LogStutter
    DEF Linked, Position, Freed, UnlockRef, Goto, eventvars, listvars, syncvars, insvars,
     gcvars, chanvars
<1>8. ASSUME NEW t \in AdminThreads, Mark(t)
      PROVE  UNCHANGED Log!logvars
  BY <1>a, <1>b, <1>8, LogStutter
    DEF Linked, Position, Freed, Mark, Goto, listvars, syncvars, insvars, gcvars, chanvars
<1>9. ASSUME NEW t \in AdminThreads, Return(t)
      PROVE  UNCHANGED Log!logvars
  BY <1>a, <1>b, <1>9, LogStutter
    DEF Linked, Position, Freed, ThreadInv, ThreadOK, Return, Goto, listvars, syncvars,
     insvars, gcvars, chanvars
<1>10. ASSUME NEW t \in AdminThreads, Handoff(t)
       PROVE  UNCHANGED Log!logvars
  BY <1>10, LogStutter
    DEF Linked, Position, Freed, Handoff, listvars, syncvars, insvars, threadvars, gcvars,
     chanvars
<1>11. ASSUME NEW t \in AdminThreads, DispatchEnd(t)
       PROVE  UNCHANGED Log!logvars
  BY <1>a, <1>b, <1>11, LogStutter
    DEF Linked, Position, Freed, DispatchEnd, Goto, eventvars, listvars, syncvars, insvars,
     gcvars, chanvars
<1>12. ASSUME NEW e \in Events, Release(e)
       PROVE  UNCHANGED Log!logvars
  BY <1>12, LogStutter
    DEF Linked, Position, Freed, Release, listvars, syncvars, insvars, threadvars, gcvars,
     chanvars
<1>13. ASSUME GCWake
       PROVE  UNCHANGED Log!logvars
  BY <1>13, LogStutter
    DEF Linked, Position, Freed, GCWake, eventvars, listvars, syncvars, insvars, threadvars,
     chanvars
<1>14. ASSUME GCBegin
       PROVE  UNCHANGED Log!logvars
  BY <1>14, LogStutter
    DEF Linked, Position, Freed, GCBegin, eventvars, listvars, insvars, threadvars, chanvars
<1>15. ASSUME GCCheck
       PROVE  UNCHANGED Log!logvars
  BY <1>15, LogStutter
    DEF Linked, Position, Freed, GCCheck, Predecessor, eventvars, listvars, syncvars,
     insvars, threadvars, chanvars
<1>16. ASSUME GCTake
       PROVE  UNCHANGED Log!logvars
  BY <1>16, LogStutter
    DEF Linked, Position, Freed, GCTake, eventvars, listvars, syncvars, insvars, threadvars,
     chanvars
<1>17. ASSUME GCUnlink
       PROVE  UNCHANGED Log!logvars
  BY <1>17, LogStutter
    DEF Linked, Position, Freed, GCUnlink, eventvars, syncvars, insvars, threadvars,
     chanvars
<1>18. ASSUME GCEnd
       PROVE  UNCHANGED Log!logvars
  BY <1>18, LogStutter
    DEF Linked, Position, Freed, GCEnd, eventvars, insvars, threadvars, chanvars
<1>19. ASSUME DestroyBegin
       PROVE  UNCHANGED Log!logvars
  BY <1>19, LogStutter
    DEF Linked, Position, Freed, DestroyBegin, eventvars, listvars, syncvars, insvars,
     threadvars, gcvars
<1>20. ASSUME SetFinished
       PROVE  UNCHANGED Log!logvars
  BY <1>a, <1>b, <1>20, LogStutter
    DEF Linked, Position, Freed, SetFinished, Broadcast, eventvars, listvars, insvars,
     gcvars
<1>21. ASSUME FinishRetry
       PROVE  UNCHANGED Log!logvars
  BY <1>a, <1>b, <1>21, LogStutter
    DEF Linked, Position, Freed, FinishRetry, Broadcast, eventvars, listvars, syncvars,
     insvars, gcvars, chanvars
<1>22. ASSUME FinishDone
       PROVE  UNCHANGED Log!logvars
  BY <1>22, LogStutter
    DEF Linked, Position, Freed, FinishDone, eventvars, listvars, syncvars, insvars,
     threadvars, gcvars
<1>23. ASSUME JoinThreads
       PROVE  UNCHANGED Log!logvars
  BY <1>23, LogStutter
    DEF Linked, Position, Freed, JoinThreads, eventvars, listvars, syncvars, insvars,
     threadvars, gcvars
<1>24. ASSUME ClientsGone
       PROVE  UNCHANGED Log!logvars
  BY <1>24, LogStutter
    DEF Linked, Position, Freed, ClientsGone, eventvars, listvars, syncvars, insvars,
     threadvars, gcvars
<1>25. ASSUME InsertBegin
     PROVE  UNCHANGED Log!logvars
  <2>1. /\ mem' = [mem EXCEPT ![inserted + 1] = "live"] /\ inserted' = inserted + 1 /\ ins' = "link"
        /\ ins = "called" /\ UNCHANGED <<pc, cur, prev, dst>>
    BY <1>25 DEF InsertBegin, Accept, threadvars, chanvars
  <2>2. mem[inserted + 1] = "unborn" /\ inserted + 1 \in Events
    BY <1>a, <1>b, <2>1, SupplierFacts DEF ListInv
  <2>3. Freed' = Freed
    BY <1>b, <2>1, <2>2 DEF Freed
  <2> QED
    BY <1>b, <2>1, <2>3, LogStutter DEF Linked, Position
<1>26. ~InsertAfterGc1
  BY <1>a, NeverFull DEF InsertAfterGc1
<1>27. ASSUME InsertLink, dst # "gone"
     PROVE  Log!LogNext
  BY <1>a, <1>27, PublishStep DEF Log!LogNext
<1>28. ASSUME NEW t \in AdminThreads, Look(t), dst # "gone"
      PROVE  [Log!LogNext]_(Log!logvars)
  <2>1. pc[t] = "look" /\ UNCHANGED <<ins, inserted, prev, mem, dst>>
    BY <1>28 DEF Look, eventvars, insvars, chanvars
  <2>2. CASE Ahead(t) # None
    <3>1. PICK e \in Events : e = Ahead(t) /\ e <= Linked
      BY <1>a, <2>2, AheadMoves
    <3>2. Got(t, e)
      BY <1>28, <2>2, <3>1 DEF Look
    <3>3. CASE prev[t] = None
      <4>1. mem[e] = "live"
        BY <1>28, <2>1, <3>1, <3>3, AheadLive
      <4> QED
        BY <2>1, <3>1, <3>2, <3>3, <4>1, <1>28, SubscribeStep DEF Log!LogNext
    <3>4. CASE prev[t] # None
      <4>1. \A s \in AdminThreads : Position(s)' = Position(s)
        BY <1>b, <2>1, <3>2, <3>4 DEF Got, Goto, Position
      <4> QED
        BY <2>1, <4>1, LogStutter DEF Linked, Freed
    <3> QED
      BY <3>3, <3>4
  <2>3. CASE ~(Ahead(t) # None)
    <3>1. \A s \in AdminThreads : Position(s)' = Position(s)
      <4>1. cur' = cur /\ pc' \in {[pc EXCEPT ![t] = "lock"], [pc EXCEPT ![t] = "blocked"], [pc EXCEPT ![t] = "ret"]}
        BY <1>28, <2>3 DEF Look, Goto
      <4>2. cur[t] = None
        BY <1>a, <2>1 DEF ThreadInv, ThreadOK
      <4> QED
        BY <1>b, <2>1, <4>1, <4>2 DEF Position
    <3> QED
      BY <2>1, <3>1, LogStutter DEF Linked, Freed
  <2> QED
    BY <2>2, <2>3
<1>29. ASSUME NEW t \in AdminThreads, Lock(t), dst # "gone"
      PROVE  [Log!LogNext]_(Log!logvars)
  <2>1. pc[t] = "lock" /\ UNCHANGED <<ins, inserted, prev, mem, dst>>
    BY <1>29 DEF Lock, AwaitEvent, eventvars, insvars, chanvars
  <2>2. CASE ~finish /\ Awaited(t) # None
    <3>1. PICK e \in Events : e = Awaited(t) /\ e <= Linked
      BY <1>a, <2>2, AwaitedMoves
    <3>2. Got(t, e)
      BY <1>29, <2>2, <3>1 DEF Lock, AwaitEvent
    <3>3. CASE prev[t] = None
      <4>1. mem[e] = "live"
        BY <1>29, <2>1, <3>1, <3>3, AwaitedLive
      <4> QED
        BY <2>1, <3>1, <3>2, <3>3, <4>1, <1>29, SubscribeStep DEF Log!LogNext
    <3>4. CASE prev[t] # None
      <4>1. \A s \in AdminThreads : Position(s)' = Position(s)
        BY <1>b, <2>1, <3>2, <3>4 DEF Got, Goto, Position
      <4> QED
        BY <2>1, <4>1, LogStutter DEF Linked, Freed
    <3> QED
      BY <3>3, <3>4
  <2>3. CASE ~(~finish /\ Awaited(t) # None)
    <3>1. \A s \in AdminThreads : Position(s)' = Position(s)
      <4>1. cur' = cur /\ pc' \in {[pc EXCEPT ![t] = "lock"], [pc EXCEPT ![t] = "blocked"], [pc EXCEPT ![t] = "ret"]}
        BY <1>29, <2>3 DEF Lock, AwaitEvent, Goto
      <4>2. cur[t] = None
        BY <1>a, <2>1 DEF ThreadInv, ThreadOK
      <4> QED
        BY <1>b, <2>1, <4>1, <4>2 DEF Position
    <3> QED
      BY <2>1, <3>1, LogStutter DEF Linked, Freed
  <2> QED
    BY <2>2, <2>3
<1>30. ASSUME NEW t \in AdminThreads, Wake(t), dst # "gone"
      PROVE  [Log!LogNext]_(Log!logvars)
  <2>1. pc[t] = "woken" /\ UNCHANGED <<ins, inserted, prev, mem, dst>>
    BY <1>30 DEF Wake, AwaitEvent, eventvars, insvars, chanvars
  <2>2. CASE ~finish /\ Awaited(t) # None
    <3>1. PICK e \in Events : e = Awaited(t) /\ e <= Linked
      BY <1>a, <2>2, AwaitedMoves
    <3>2. Got(t, e)
      BY <1>30, <2>2, <3>1 DEF Wake, AwaitEvent
    <3>3. CASE prev[t] = None
      <4>1. mem[e] = "live"
        BY <1>30, <2>1, <3>1, <3>3, AwaitedLive
      <4> QED
        BY <2>1, <3>1, <3>2, <3>3, <4>1, <1>30, SubscribeStep DEF Log!LogNext
    <3>4. CASE prev[t] # None
      <4>1. \A s \in AdminThreads : Position(s)' = Position(s)
        BY <1>b, <2>1, <3>2, <3>4 DEF Got, Goto, Position
      <4> QED
        BY <2>1, <4>1, LogStutter DEF Linked, Freed
    <3> QED
      BY <3>3, <3>4
  <2>3. CASE ~(~finish /\ Awaited(t) # None)
    <3>1. \A s \in AdminThreads : Position(s)' = Position(s)
      <4>1. cur' = cur /\ pc' \in {[pc EXCEPT ![t] = "lock"], [pc EXCEPT ![t] = "blocked"], [pc EXCEPT ![t] = "ret"]}
        BY <1>30, <2>3 DEF Wake, AwaitEvent, Goto
      <4>2. cur[t] = None
        BY <1>a, <2>1 DEF ThreadInv, ThreadOK
      <4> QED
        BY <1>b, <2>1, <4>1, <4>2 DEF Position
    <3> QED
      BY <2>1, <3>1, LogStutter DEF Linked, Freed
  <2> QED
    BY <2>2, <2>3
<1>31. ASSUME NEW t \in AdminThreads, DecrRef(t), dst # "gone"
      PROVE  Log!LogNext
  BY <1>31, AdvanceStep DEF Log!LogNext
<1>32. ASSUME GCDelete, dst # "gone"
      PROVE  Log!LogNext
  BY <1>32, CollectStep DEF Log!LogNext
<1>33. ASSUME Delete, dst # "gone"
      PROVE  Log!LogNext
  BY <1>33, CloseStep DEF Log!LogNext
<1>34. ASSUME UNCHANGED vars
      PROVE  UNCHANGED Log!logvars
  BY <1>34, LogStutter
    DEF Linked, Position, Freed, vars, eventvars, insvars, threadvars, chanvars
<1>35. Next => dst # "gone"
  BY <1>a, GoneStops
<1> QED
  BY <1>1, <1>2, <1>3, <1>4, <1>5, <1>6, <1>7, <1>8, <1>9, <1>10, <1>11, <1>12, <1>13,
     <1>14, <1>15, <1>16, <1>17, <1>18, <1>19, <1>20, <1>21, <1>22, <1>23, <1>24, <1>25,
     <1>26, <1>27, <1>28, <1>29, <1>30, <1>31, <1>32, <1>33, <1>34, <1>35
    DEF Next, Supplier, AdminThread, Collector, Destroyer

\* The queue keeps the promise of the log: an admin thread gets every event from
\* its first one on, in order, none twice, and an event is freed only behind
\* all of them.
THEOREM Refinement ==
  ASSUME MaxQueueLengths = {0}
  PROVE  Spec => ImplementsLog
<1>1. Init => Log!LogInit
  <2>1. ASSUME Init
        PROVE  Freed = {} /\ Linked = 0 /\ dst # "gone" /\ \A t \in AdminThreads : Position(t) = 0
    BY <2>1 DEF Init, Freed, Linked, Position, None
  <2> QED
    BY <2>1, FS_EmptySet DEF Log!LogInit
<1>2. UnlimitedInv /\ UnlimitedInv' /\ [Next]_vars => [Log!LogNext]_(Log!logvars)
  BY LogStep
<1> QED
  BY <1>1, <1>2, UnlimitedInvariant, PTL DEF Spec, ImplementsLog, Log!LogSpec

================================================================================
