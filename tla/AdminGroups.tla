------------------------------- MODULE AdminGroups -----------------------------
(***************************************************************************)
(* CAdminGroupMgr and the part of EventChannel_i::admin_dispatch() that     *)
(* uses it: every admin thread takes a range of groups once, and for every *)
(* event iterates over the admins of each of its groups, while admins are  *)
(* created and destroyed.                                                  *)
(*                                                                         *)
(* A thread gets the events of the queue in order, each once, from the one *)
(* its first call finds at the tail (EventLog); here events are numbers.   *)
(* An action runs under the lock it takes: that of the manager, or that of *)
(* one group.                                                              *)
(***************************************************************************)
EXTENDS SafeList, FiniteSets

CONSTANTS NumGroups,   \* NumAdminGroups
          Threads,     \* the admin threads, NumAdminThreads of them
          MaxSerial,   \* bound: admin IDs that are given out
          MaxEvents    \* bound: events that are announced

\* What the start-up configuration is checked for; neither number can change.
ASSUME GroupsAssumption ==
  /\ NumGroups \in Nat /\ IsFiniteSet(Threads)
  /\ 1 <= Cardinality(Threads) /\ Cardinality(Threads) <= NumGroups
ASSUME LimitsAssumption == MaxSerial \in Nat /\ MaxEvents \in Nat

Groups == 0..(NumGroups - 1)
Admins == 0..MaxSerial
GroupOf(a) == a % NumGroups

VARIABLES nextgr, rmgrps, rmthrs,  \* groups given out; groups and threads that are left
          lo, hi,                  \* the range of each thread
          at,                      \* where each thread is
          ev,                      \* the event it is at, 0 before the first
          ix,                      \* the group it is at
          lists,                   \* the groups
          serial,                  \* _admin_serial
          announced,               \* events announced so far
          shut,                    \* _shutmedown
          got,                     \* history: the last event each admin was given
          done                     \* history: the last event each group is through with

alloc == <<nextgr, rmgrps, rmthrs, lo, hi>>
progress == <<at, ev, ix, got, done>>
vars == <<nextgr, rmgrps, rmthrs, lo, hi, at, ev, ix, lists, serial, announced, shut, got, done>>

\* CAdminGroupMgr(), then the default consumer and supplier admins.
Init ==
  /\ nextgr = 0 /\ rmgrps = NumGroups /\ rmthrs = Cardinality(Threads)
  /\ lo = [t \in Threads |-> 0] /\ hi = [t \in Threads |-> 0]
  /\ at = [t \in Threads |-> "start"]
  /\ ev = [t \in Threads |-> 0] /\ ix = [t \in Threads |-> 0]
  /\ lists = [g \in Groups |-> IF g = 0 THEN ListInsert(Drained, 0) ELSE Drained]
  /\ serial = 1 /\ announced = 0 /\ shut = FALSE
  /\ got = [a \in Admins |-> 0] /\ done = [g \in Groups |-> 0]

--------------------------------------------------------------------------------
(* Admin threads *)

Slice == rmgrps \div rmthrs

AllocateRangeExclusive(t) ==
  /\ at[t] = "start"
  /\ nextgr # NumGroups /\ rmthrs # 0
  /\ lo' = [lo EXCEPT ![t] = nextgr]
  /\ nextgr' = nextgr + Slice
  /\ hi' = [hi EXCEPT ![t] = nextgr']
  /\ rmgrps' = rmgrps - Slice
  /\ rmthrs' = rmthrs - 1
  /\ at' = [at EXCEPT ![t] = "top"]
  /\ UNCHANGED <<ev, ix, lists, serial, announced, shut, got, done>>

\* allocate_range(); a thread that gets no range aborts the process.
AllocateRange(t) ==
  /\ at[t] = "start"
  /\ nextgr # NumGroups /\ rmthrs # 0
  /\ lo' = [lo EXCEPT ![t] = nextgr]
  /\ nextgr' = nextgr + Slice
  /\ hi' = [hi EXCEPT ![t] = nextgr' - 1]
  /\ rmgrps' = rmgrps - Slice
  /\ rmthrs' = rmthrs - 1
  /\ at' = [at EXCEPT ![t] = "top"]
  /\ UNCHANGED <<ev, ix, lists, serial, announced, shut, got, done>>

\* next_event() gives the tail to a thread that has no event yet.
NextEvent(t) ==
  /\ at[t] = "top" /\ ~shut
  /\ ev[t] < announced
  /\ ev' = [ev EXCEPT ![t] = IF ev[t] = 0 THEN announced ELSE ev[t] + 1]
  /\ at' = [at EXCEPT ![t] = "pass"]
  /\ ix' = [ix EXCEPT ![t] = lo[t]]
  /\ UNCHANGED <<alloc, lists, serial, announced, shut, got, done>>

\* The iterator gives an admin.  The group is unlocked when the admin is
\* locked; whether its filters match makes no difference to the iteration.
Visit(t) ==
  /\ at[t] = "pass" /\ ~shut
  /\ LET l == lists[ix[t]]
     IN /\ ~IterNull(l)
        /\ got' = [got EXCEPT ![IterHead(l)] = ev[t]]
        /\ lists' = [lists EXCEPT ![ix[t]] = IterNext(l)]
  /\ UNCHANGED <<alloc, at, ev, ix, serial, announced, shut, done>>

\* The iterator gives the null: on to the next group, or to the next event.
EndOfGroup(t) ==
  /\ at[t] = "pass" /\ ~shut
  /\ IterNull(lists[ix[t]])
  /\ lists' = [lists EXCEPT ![ix[t]] = IterNext(@)]
  /\ done' = [done EXCEPT ![ix[t]] = ev[t]]
  /\ ix' = [ix EXCEPT ![t] = @ + 1]
  /\ at' = [at EXCEPT ![t] = IF ix[t] = hi[t] THEN "top" ELSE "pass"]
  /\ UNCHANGED <<alloc, ev, serial, announced, shut, got>>

\* The channel shuts down: the thread leaves wherever it notices.
ThreadExit(t) ==
  /\ at[t] \in {"top", "pass"} /\ shut
  /\ at' = [at EXCEPT ![t] = "exit"]
  /\ UNCHANGED <<alloc, ev, ix, lists, serial, announced, shut, got, done>>

--------------------------------------------------------------------------------
(* The rest of the channel *)

Announce ==
  /\ ~shut /\ announced < MaxEvents
  /\ announced' = announced + 1
  /\ UNCHANGED <<alloc, progress, lists, serial, shut>>

\* new_for_consumers()
NewConsumerAdmin ==
  /\ ~shut /\ serial <= MaxSerial
  /\ lists' = [lists EXCEPT ![GroupOf(serial)] = ListInsert(@, serial)]
  /\ got' = [got EXCEPT ![serial] = done[GroupOf(serial)]]
  /\ serial' = serial + 1
  /\ UNCHANGED <<alloc, at, ev, ix, announced, shut, done>>

\* new_for_suppliers() takes an ID from the same counter.
NewSupplierAdmin ==
  /\ ~shut /\ serial <= MaxSerial
  /\ serial' = serial + 1
  /\ UNCHANGED <<alloc, progress, lists, announced, shut>>

\* A consumer admin, but for the default one, is destroyed: unregister().
Unregister(a) ==
  /\ ~shut /\ a # 0 /\ a \in Members(lists[GroupOf(a)])
  /\ lists' = [lists EXCEPT ![GroupOf(a)] = ListRemove(@, a)]
  /\ UNCHANGED <<alloc, progress, serial, announced, shut>>

\* destroy() begins.
Shutdown ==
  /\ ~shut /\ shut' = TRUE
  /\ UNCHANGED <<alloc, progress, lists, serial, announced>>

ThreadStep(t) ==
  AllocateRange(t) \/ NextEvent(t) \/ Visit(t) \/ EndOfGroup(t) \/ ThreadExit(t)

Next ==
  \/ \E t \in Threads : ThreadStep(t)
  \/ Announce \/ NewConsumerAdmin \/ NewSupplierAdmin \/ Shutdown
  \/ \E a \in Admins : Unregister(a)

Spec == Init /\ [][Next]_vars

\* Threads keep running: they are never blocked for ever by a lock.
FairSpec == Spec /\ \A t \in Threads : WF_vars(ThreadStep(t))
--------------------------------------------------------------------------------
(* Properties *)

TypeOK ==
  /\ nextgr \in 0..NumGroups /\ rmgrps \in 0..NumGroups /\ rmthrs \in 0..Cardinality(Threads)
  /\ lo \in [Threads -> Groups] /\ hi \in [Threads -> Groups]
  /\ at \in [Threads -> {"start", "top", "pass", "exit"}]
  /\ ev \in [Threads -> Nat] /\ ix \in [Threads -> 0..NumGroups]
  /\ lists \in [Groups -> [elts : Seq(Admins), next : Nat, marker : BOOLEAN]]
  /\ serial \in 1..(MaxSerial + 1) /\ announced \in Nat /\ shut \in BOOLEAN
  /\ got \in [Admins -> Nat] /\ done \in [Groups -> Nat]

HasRange(t) == at[t] \notin {"start"}
Serves(t, g) == HasRange(t) /\ lo[t] <= g /\ g <= hi[t]

\* No two threads serve the same group, the groups that are given out are
\* served, and once every thread has its range every group is.
RangesPartition ==
  /\ \A t, u \in Threads, g \in Groups : Serves(t, g) /\ Serves(u, g) => t = u
  /\ \A g \in Groups : g < nextgr => \E t \in Threads : Serves(t, g)
  /\ (\A t \in Threads : at[t] # "start") => nextgr = NumGroups

\* A thread that asks for its range gets one: "Failed to allocated group range
\* to work on" aborts no process.
RangeForEach == (\E t \in Threads : at[t] = "start") => nextgr # NumGroups /\ rmthrs # 0

\* The iterators are where they should be: the admins an iterator is still to
\* give have had the last event the group is through with, all others have had
\* the event of the thread that serves the group.  Admins come and go at any
\* moment.
EveryoneInStep ==
  \A g \in Groups : \A a \in Members(lists[g]) :
    IF a \in Due(lists[g]) THEN got[a] = done[g]
      ELSE \E t \in Threads : Serves(t, g) /\ got[a] = ev[t]

\* A thread that goes for the next event has given the one it has to every
\* admin of its groups, whoever came and went meanwhile.
NobodyMissed ==
  \A t \in Threads : at[t] = "top" =>
    \A g \in lo[t]..hi[t] : done[g] = ev[t] /\ \A a \in Members(lists[g]) : got[a] = ev[t]

\* An admin that has had an event gets the next one next.
NoneSkipped ==
  [][\A g \in Groups : \A a \in Members(lists[g]) :
       got'[a] # got[a] => got[a] = 0 \/ got'[a] = got[a] + 1]_vars

\* Every group implements the abstract rounds: it starts as they start, and a
\* step of the channel is in each group a step of a round or none.
Group(g) == INSTANCE Rounds WITH members <- Members(lists[g]), due <- Due(lists[g]), rounds <- done[g]
ImplementsRounds ==
  /\ \A g \in Groups : Group(g)!Init
  /\ [][\A g \in Groups : Group(g)!Next \/ UNCHANGED Group(g)!vars]_vars

\* After an event is announced every group gets through with it, or with a
\* later first one, and then everybody in the group has had it, unless the
\* channel shuts down.
EveryoneServed ==
  \A e \in 1..MaxEvents :
    announced = e ~>
      (shut \/ \A g \in Groups : done[g] >= e /\ \A a \in Members(lists[g]) : got[a] >= e)
================================================================================
