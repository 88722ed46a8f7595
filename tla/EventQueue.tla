------------------------------ MODULE EventQueue -------------------------------
(***************************************************************************)
(* RDI_EventQueue: the queue of announced events of one event channel.     *)
(*                                                                         *)
(* Suppliers append events to a linked list under the queue's _oplock.     *)
(* Each admin thread walks the list on its own, mostly without a lock, and *)
(* gives up its reference to an event only once the next one is linked.    *)
(* A garbage collection thread unlinks events from the head, without a     *)
(* lock, as soon as the queue holds the only reference.  The channel's     *)
(* destroy() sets _finish, waits for the threads and deletes the list.     *)
(*                                                                         *)
(* An event is named by the position at which it was announced, so that    *)
(* its name also says which events came before it; mem says whether its    *)
(* storage is unborn, live or freed.                                       *)
(***************************************************************************)
EXTENDS Integers, FiniteSets

CONSTANTS AdminThreads,      \* numAdminThreads threads run admin_dispatch
          NumEvents,         \* bound: events accepted over a run
          MaxQueueLengths,   \* values maxQueueLength may take; 0 is "no limit"
          MaxHeld,           \* bound: proxy queues holding one event
          ULongMax           \* largest CORBA::ULong

ASSUME ThreadsAssumption == IsFiniteSet(AdminThreads) /\ AdminThreads # {}
ASSUME BoundsAssumption == NumEvents \in Nat /\ MaxHeld \in Nat
ASSUME LengthsAssumption == MaxQueueLengths \subseteq Nat /\ MaxQueueLengths # {}
ASSUME WidthAssumption == ULongMax \in Nat /\ ULongMax > NumEvents + 1

Events == 1..NumEvents
None == 0                    \* the null pointer
Ref == Events \cup {None}

VARIABLES
  next, rcnt, stat, mem,     \* RDI_StructuredEvent: _next, _rcnt, _stat; storage
  evhead, evtail, length,    \* the list and its advertised length
  numblk, finish, gcdone,    \* blocked threads, shutdown flag, collector inactive
  maxlen,                    \* _maxQueueLength
  ins, inserted,             \* step of the supplier in insert(); events accepted
  pc, cur, prev,             \* admin threads: step, sevnt, pevnt
  gc, cursize, evncntr, tmp, \* the collector: step and locals
  shutmedown, dst,           \* the channel: _shutmedown, step of destroy()
  held,                      \* references owned by proxy queues, per event
  passed                     \* history: events each thread gave up

eventvars == <<next, rcnt, stat, mem>>
listvars == <<evhead, evtail, length>>
syncvars == <<numblk, finish, gcdone, maxlen>>
insvars == <<ins, inserted>>
threadvars == <<pc, cur, prev, passed>>
gcvars == <<gc, cursize, evncntr, tmp>>
chanvars == <<shutmedown, dst>>
vars == <<eventvars, listvars, syncvars, insvars, threadvars, gcvars, chanvars, held>>

ThreadSteps == {"top", "call", "look", "lock", "blocked", "woken", "decr", "unlock",
                "mark", "ret", "dispatch", "fatal", "exit"}

TypeOK ==
  /\ next \in [Events -> Ref]
  /\ rcnt \in [Events -> Nat]
  /\ stat \in [Events -> {"NEWBORN", "PENDING", "DISPATCHED"}]
  /\ mem \in [Events -> {"unborn", "live", "freed"}]
  /\ evhead \in Ref /\ evtail \in Ref /\ length \in Int
  /\ numblk \in Int /\ finish \in BOOLEAN /\ gcdone \in BOOLEAN
  /\ maxlen \in MaxQueueLengths
  /\ ins \in {"idle", "called", "link", "publish"} /\ inserted \in 0..NumEvents
  /\ pc \in [AdminThreads -> ThreadSteps]
  /\ cur \in [AdminThreads -> Ref] /\ prev \in [AdminThreads -> Ref]
  /\ passed \in [AdminThreads -> SUBSET Events]
  /\ gc \in {"wait", "begin", "check", "take", "unlink", "delete", "end", "exit"}
  /\ cursize \in Int /\ evncntr \in Nat /\ tmp \in Ref
  /\ shutmedown \in BOOLEAN
  /\ dst \in {"alive", "finish", "waiting", "join", "clients", "delete", "gone"}
  /\ held \in [Events -> 0..MaxHeld]

Init ==
  /\ next = [e \in Events |-> None]
  /\ rcnt = [e \in Events |-> 0]
  /\ stat = [e \in Events |-> "NEWBORN"]
  /\ mem = [e \in Events |-> "unborn"]
  /\ evhead = None /\ evtail = None /\ length = 0
  /\ numblk = 0 /\ finish = FALSE /\ gcdone = TRUE
  /\ maxlen \in MaxQueueLengths
  /\ ins = "idle" /\ inserted = 0
  /\ pc = [t \in AdminThreads |-> "top"]
  /\ cur = [t \in AdminThreads |-> None]
  /\ prev = [t \in AdminThreads |-> None]
  /\ passed = [t \in AdminThreads |-> {}]
  /\ gc = "wait" /\ cursize = 0 /\ evncntr = 0 /\ tmp = None
  /\ shutmedown = FALSE /\ dst = "alive"
  /\ held = [e \in Events |-> 0]

--------------------------------------------------------------------------------
(* Shared pieces *)

\* _oplock is held across steps only inside insert(); every other critical
\* section under it is one action.
OplockFree == ins \in {"idle", "called"}

\* Every thread blocked in _qempty.wait() becomes runnable.
BroadcastOne(steps) ==
  LET blocked == {t \in AdminThreads : steps[t] = "blocked"} IN
  IF blocked = {} THEN steps ELSE [steps EXCEPT ![CHOOSE t \in blocked : TRUE] = "woken"]
Broadcast(steps) == [t \in AdminThreads |-> IF steps[t] = "blocked" THEN "woken" ELSE steps[t]]

\* No thread is between the two halves of RDI_SEVENT_DECR_REF_COUNTER(e).
MutexFree(e) == \A t \in AdminThreads : ~(pc[t] = "unlock" /\ prev[t] = e)

\* The threads that have not given up event e.
Readers(e) == {t \in AdminThreads : e \notin passed[t]}

RefsOnInsertForgotQueue == Cardinality(AdminThreads)
\* The references an event starts with: the queue's own and one per thread.
RefsOnInsert == 1 + Cardinality(AdminThreads)

\* Only the queue refers to e and some thread has seen it.
GarbageUncounted(e) == rcnt[e] = 0 /\ stat[e] # "NEWBORN"
Garbage(e) == rcnt[e] = 1 /\ stat[e] # "NEWBORN"

Full == maxlen # 0 /\ length >= maxlen

--------------------------------------------------------------------------------
(* insert(), called by the proxies of suppliers *)

\* _new_structured_event(): _shutmedown is read before the queue is entered.
SupplierCall ==
  /\ ins = "idle" /\ inserted < NumEvents
  /\ ~shutmedown
  /\ ins' = "called"
  /\ UNCHANGED <<eventvars, listvars, syncvars, inserted, threadvars, gcvars, chanvars, held>>

\* The queue is finished, or it is full, its head is still needed, and
\* neither policy frees a place (apply_discard_policy() always fails).
InsertRefused ==
  /\ ins = "called"
  /\ finish \/ (Full /\ evhead # None /\ ~Garbage(evhead))
  /\ ins' = "idle"
  /\ UNCHANGED <<eventvars, listvars, syncvars, inserted, threadvars, gcvars, chanvars, held>>

\* The event gets its references before any other thread can see it.
Accept(m) ==
  LET e == inserted + 1 IN
  /\ inserted' = e
  /\ mem' = [m EXCEPT ![e] = "live"]
  /\ rcnt' = [rcnt EXCEPT ![e] = RefsOnInsert]
  /\ length' = length + 1
  /\ ins' = "link"
  /\ UNCHANGED <<next, stat, evtail, syncvars, threadvars, gcvars, chanvars, held>>

InsertBegin ==
  /\ ins = "called"
  /\ ~finish /\ ~Full
  /\ Accept(mem)
  /\ UNCHANGED evhead

\* gc1(): the full queue drops its head, which nobody needs, to make room.
InsertAfterGc1 ==
  /\ ins = "called"
  /\ ~finish /\ Full /\ evhead # None /\ Garbage(evhead)
  /\ evhead' = next[evhead]
  /\ Accept([mem EXCEPT ![evhead] = "freed"])

\* _evtail->_next = event, or _evtail = event when the list is empty.
InsertLink ==
  /\ ins = "link"
  /\ IF evtail # None
       THEN next' = [next EXCEPT ![evtail] = inserted] /\ UNCHANGED evtail
       ELSE evtail' = inserted /\ UNCHANGED next
  /\ ins' = "publish"
  /\ UNCHANGED <<rcnt, stat, mem, evhead, length, syncvars, inserted, threadvars, gcvars, chanvars, held>>

\* _evtail = event, or _evhead = event; wake the blocked threads and unlock.
InsertPublish ==
  /\ ins = "publish"
  /\ IF evtail # inserted
       THEN evtail' = inserted /\ UNCHANGED evhead
       ELSE evhead' = inserted /\ UNCHANGED evtail
  /\ pc' = IF numblk # 0 THEN Broadcast(pc) ELSE pc
  /\ ins' = "idle"
  /\ UNCHANGED <<eventvars, length, syncvars, inserted, cur, prev, passed, gcvars, chanvars, held>>

\* qos_changed(): a new limit, with no effect on the events already queued.
QosChanged ==
  /\ OplockFree /\ ~shutmedown
  /\ \E m \in MaxQueueLengths \ {maxlen} : maxlen' = m
  /\ UNCHANGED <<eventvars, listvars, numblk, finish, gcdone, insvars, threadvars, gcvars, chanvars, held>>

--------------------------------------------------------------------------------
(* admin_dispatch() and next_event(pevnt, 1), run by each admin thread *)

Goto(t, step) == pc' = [pc EXCEPT ![t] = step]

\* Top of the loop: the channel may be shutting down.
AdminTop(t) ==
  /\ pc[t] = "top"
  /\ Goto(t, IF shutmedown THEN "exit" ELSE "call")
  /\ UNCHANGED <<eventvars, listvars, syncvars, insvars, cur, prev, passed, gcvars, chanvars, held>>

\* next_event() first reads _finish, without the lock.
NextEvent(t) ==
  /\ pc[t] = "call"
  /\ cur' = [cur EXCEPT ![t] = None]
  /\ Goto(t, IF finish THEN "ret" ELSE "look")
  /\ UNCHANGED <<eventvars, listvars, syncvars, insvars, prev, passed, gcvars, chanvars, held>>

\* The event thread t would get without waiting: on its first call the tail,
\* afterwards the successor of the one it has.
AheadSkipping(t) == evtail
Ahead(t) == IF prev[t] = None THEN evtail ELSE next[prev[t]]

\* The event thread t waits for under the lock: on its first call the head.
Awaited(t) == IF prev[t] = None THEN evhead ELSE next[prev[t]]

\* A thread that has event e either gives up its previous one first or,
\* on its first call, goes on to look at the state of e.
Got(t, e) ==
  /\ cur' = [cur EXCEPT ![t] = e]
  /\ Goto(t, IF prev[t] = None THEN "mark" ELSE "decr")

\* The list is read without the lock.
Look(t) ==
  /\ pc[t] = "look"
  /\ IF Ahead(t) # None
       THEN Got(t, Ahead(t))
       ELSE Goto(t, "lock") /\ UNCHANGED cur
  /\ UNCHANGED <<eventvars, listvars, syncvars, insvars, prev, passed, gcvars, chanvars, held>>

\* Under _oplock: wait on _qempty until there is an event or _finish is set.
\* was is 1 when the thread is already counted in _numblk.
AwaitEventDeaf(t, was) ==
  /\ OplockFree
  /\ IF Awaited(t) = None
       THEN numblk' = numblk + 1 - was /\ Goto(t, "blocked") /\ UNCHANGED cur
       ELSE numblk' = numblk - was /\ Got(t, Awaited(t))
  /\ UNCHANGED <<eventvars, listvars, finish, gcdone, maxlen, insvars, prev, passed, gcvars, chanvars, held>>
AwaitEvent(t, was) ==
  /\ OplockFree
  /\ IF ~finish /\ Awaited(t) = None
       THEN /\ numblk' = numblk + 1 - was
            /\ Goto(t, "blocked") /\ UNCHANGED cur
       ELSE /\ numblk' = numblk - was
            /\ IF finish THEN Goto(t, "ret") /\ UNCHANGED cur
                         ELSE Got(t, Awaited(t))
  /\ UNCHANGED <<eventvars, listvars, finish, gcdone, maxlen, insvars, prev, passed, gcvars, chanvars, held>>

Lock(t) == pc[t] = "lock" /\ AwaitEvent(t, 0)
Wake(t) == pc[t] = "woken" /\ AwaitEvent(t, 1)

\* RDI_SEVENT_DECR_REF_COUNTER(eprev), under the mutex of the event ...
DecrRef(t) ==
  /\ pc[t] = "decr" /\ MutexFree(prev[t])
  /\ rcnt' = [rcnt EXCEPT ![prev[t]] = @ - 1]
  /\ passed' = [passed EXCEPT ![t] = @ \cup {prev[t]}]
  /\ Goto(t, "unlock")
  /\ UNCHANGED <<next, stat, mem, listvars, syncvars, insvars, cur, prev, gcvars, chanvars, held>>

\* ... which lives in the event and is unlocked afterwards.
UnlockRef(t) ==
  /\ pc[t] = "unlock"
  /\ Goto(t, "mark")
  /\ UNCHANGED <<eventvars, listvars, syncvars, insvars, cur, prev, passed, gcvars, chanvars, held>>

Mark(t) ==
  /\ pc[t] = "mark"
  /\ stat' = [stat EXCEPT ![cur[t]] = IF @ = "NEWBORN" THEN "PENDING" ELSE @]
  /\ Goto(t, "ret")
  /\ UNCHANGED <<next, rcnt, mem, listvars, syncvars, insvars, cur, prev, passed, gcvars, chanvars, held>>

\* Back in admin_dispatch(): _shutmedown again, then RDI_Fatal on a null event.
Return(t) ==
  /\ pc[t] = "ret"
  /\ IF shutmedown \/ cur[t] = None
       THEN /\ Goto(t, IF shutmedown THEN "exit" ELSE "fatal")
            /\ UNCHANGED <<stat, prev>>
       ELSE /\ Goto(t, "dispatch")
            /\ stat' = [stat EXCEPT ![cur[t]] = "DISPATCHED"]
            /\ prev' = [prev EXCEPT ![t] = cur[t]]
  /\ UNCHANGED <<next, rcnt, mem, listvars, syncvars, insvars, cur, passed, gcvars, chanvars, held>>

\* A proxy supplier that wants the event takes a reference (_add_event).
HandoffUncounted(t) ==
  /\ pc[t] = "dispatch" /\ held[cur[t]] < MaxHeld /\ MutexFree(cur[t])
  /\ held' = [held EXCEPT ![cur[t]] = @ + 1]
  /\ UNCHANGED <<eventvars, listvars, syncvars, insvars, threadvars, gcvars, chanvars>>
Handoff(t) ==
  /\ pc[t] = "dispatch" /\ held[cur[t]] < MaxHeld /\ MutexFree(cur[t])
  /\ rcnt' = [rcnt EXCEPT ![cur[t]] = @ + 1]
  /\ held' = [held EXCEPT ![cur[t]] = @ + 1]
  /\ UNCHANGED <<next, stat, mem, listvars, syncvars, insvars, threadvars, gcvars, chanvars>>

\* Every admin of the thread's groups has seen the event, or it stops early.
DispatchEnd(t) ==
  /\ pc[t] = "dispatch"
  /\ Goto(t, "top")
  /\ UNCHANGED <<eventvars, listvars, syncvars, insvars, cur, prev, passed, gcvars, chanvars, held>>

\* A proxy queue has delivered or dropped the event.
Release(e) ==
  /\ held[e] > 0 /\ MutexFree(e)
  /\ rcnt' = [rcnt EXCEPT ![e] = @ - 1]
  /\ held' = [held EXCEPT ![e] = @ - 1]
  /\ UNCHANGED <<next, stat, mem, listvars, syncvars, insvars, threadvars, gcvars, chanvars>>

--------------------------------------------------------------------------------
(* garbage_collect(), run by the collector thread.  Nothing waits for this *)
(* thread; what it would do to a queue that is gone is not modelled.       *)

\* _qclean.timedwait() returns: signalled, timed out, or on its first turn.
GCWake ==
  /\ gc = "wait" /\ dst # "gone"
  /\ gc' = IF finish THEN "exit" ELSE "begin"
  /\ UNCHANGED <<eventvars, listvars, syncvars, insvars, threadvars, cursize, evncntr, tmp, chanvars, held>>

GCBeginNoReset ==
  /\ gc = "begin" /\ dst # "gone" /\ OplockFree
  /\ cursize' = length /\ gcdone' = FALSE
  /\ gc' = "check"
  /\ UNCHANGED <<eventvars, listvars, numblk, finish, maxlen, insvars, threadvars, evncntr, tmp, chanvars, held>>
GCBegin ==
  /\ gc = "begin" /\ dst # "gone" /\ OplockFree
  /\ cursize' = length /\ gcdone' = FALSE /\ evncntr' = 0
  /\ gc' = "check"
  /\ UNCHANGED <<eventvars, listvars, numblk, finish, maxlen, insvars, threadvars, tmp, chanvars, held>>

\* --cursize on an unsigned long
Predecessor(n) == IF n = 0 THEN ULongMax ELSE n - 1

\* The loop condition, read without any lock.
GCCheck ==
  /\ gc = "check" /\ dst # "gone"
  /\ cursize' = Predecessor(cursize)
  /\ gc' = IF cursize' # 0 /\ evhead # None /\ Garbage(evhead) THEN "take" ELSE "end"
  /\ UNCHANGED <<eventvars, listvars, syncvars, insvars, threadvars, evncntr, tmp, chanvars, held>>

GCTake ==
  /\ gc = "take" /\ dst # "gone"
  /\ tmp' = evhead
  /\ gc' = "unlink"
  /\ UNCHANGED <<eventvars, listvars, syncvars, insvars, threadvars, cursize, evncntr, chanvars, held>>

GCUnlink ==
  /\ gc = "unlink" /\ dst # "gone" /\ evhead # None
  /\ evhead' = next[evhead]
  /\ gc' = "delete"
  /\ UNCHANGED <<eventvars, evtail, length, syncvars, insvars, threadvars, cursize, evncntr, tmp, chanvars, held>>

GCDelete ==
  /\ gc = "delete" /\ dst # "gone"
  /\ mem' = [mem EXCEPT ![tmp] = "freed"]
  /\ evncntr' = evncntr + 1
  /\ gc' = "check"
  /\ UNCHANGED <<next, rcnt, stat, listvars, syncvars, insvars, threadvars, cursize, tmp, chanvars, held>>

GCEnd ==
  /\ gc = "end" /\ dst # "gone" /\ OplockFree
  /\ length' = length - evncntr /\ gcdone' = TRUE
  /\ gc' = "wait"
  /\ UNCHANGED <<eventvars, evhead, evtail, numblk, finish, maxlen, insvars, threadvars, cursize, evncntr, tmp, chanvars, held>>

--------------------------------------------------------------------------------
(* EventChannel_i::destroy(), as far as the queue is concerned *)

DestroyBeginUnguarded ==
  /\ dst = "alive"
  /\ dst' = "finish"
  /\ UNCHANGED <<eventvars, listvars, syncvars, insvars, threadvars, gcvars, shutmedown, held>>
DestroyBegin ==
  /\ dst = "alive"
  /\ shutmedown' = TRUE /\ dst' = "finish"
  /\ UNCHANGED <<eventvars, listvars, syncvars, insvars, threadvars, gcvars, held>>

\* set_finished(1)
SetFinished ==
  /\ dst = "finish" /\ OplockFree
  /\ finish' = TRUE /\ pc' = Broadcast(pc)
  /\ dst' = "waiting"
  /\ UNCHANGED <<eventvars, listvars, numblk, gcdone, maxlen, insvars, cur, prev, passed, gcvars, shutmedown, held>>

\* ... releases the lock and tries again while threads are blocked or the
\* collector is active ...
FinishRetry ==
  /\ dst = "waiting" /\ OplockFree
  /\ numblk # 0 \/ ~gcdone
  /\ pc' = Broadcast(pc)
  /\ UNCHANGED <<eventvars, listvars, syncvars, insvars, cur, prev, passed, gcvars, chanvars, held>>

\* ... and returns.
FinishDone ==
  /\ dst = "waiting" /\ OplockFree
  /\ numblk = 0 /\ gcdone
  /\ dst' = "join"
  /\ UNCHANGED <<eventvars, listvars, syncvars, insvars, threadvars, gcvars, shutmedown, held>>

\* ~EventChannelDispatch() joins the admin threads.
JoinThreads ==
  /\ dst = "join" /\ \A t \in AdminThreads : pc[t] = "exit"
  /\ dst' = "clients"
  /\ UNCHANGED <<eventvars, listvars, syncvars, insvars, threadvars, gcvars, shutmedown, held>>

\* Every proxy is disconnected: no supplier is inside insert() and the proxy
\* queues have let go of their events.
ClientsGone ==
  /\ dst = "clients" /\ ins = "idle" /\ \A e \in Events : held[e] = 0
  /\ dst' = "delete"
  /\ UNCHANGED <<eventvars, listvars, syncvars, insvars, threadvars, gcvars, shutmedown, held>>

\* ~RDI_EventQueue() after set_finished(): no waiting, the list is deleted.
Delete ==
  /\ dst = "delete"
  /\ mem' = [e \in Events |-> IF evhead # None /\ e \in evhead..inserted THEN "freed" ELSE mem[e]]
  /\ evhead' = None /\ evtail' = None /\ length' = 0
  /\ dst' = "gone"
  /\ UNCHANGED <<next, rcnt, stat, syncvars, insvars, threadvars, gcvars, shutmedown, held>>

--------------------------------------------------------------------------------
Supplier == InsertRefused \/ InsertBegin \/ InsertAfterGc1 \/ InsertLink \/ InsertPublish

AdminThread(t) ==
  \/ AdminTop(t) \/ NextEvent(t) \/ Look(t) \/ Lock(t) \/ Wake(t)
  \/ DecrRef(t) \/ UnlockRef(t) \/ Mark(t) \/ Return(t) \/ DispatchEnd(t)

Collector == GCWake \/ GCBegin \/ GCCheck \/ GCTake \/ GCUnlink \/ GCDelete \/ GCEnd

Destroyer == SetFinished \/ FinishRetry \/ FinishDone \/ JoinThreads \/ ClientsGone \/ Delete

--------------------------------------------------------------------------------
(* Who may still look at which event *)

\* The events whose fields thread t may read or write from where it stands,
\* the mutex it is about to unlock (UnlockRef) apart.
Touched(t) ==
  (IF pc[t] \in {"exit", "fatal"} THEN {}
   ELSE IF pc[t] \in {"unlock", "mark", "ret", "dispatch"} THEN {cur[t]}
   ELSE {cur[t], prev[t]}) \ {None}

\* The list keeps its head and, until insert() has linked its event and only
\* overwrites _evtail, its tail.
ListUses == {evhead, IF ins = "publish" THEN inserted ELSE evtail} \ {None}

CollectorUses == IF gc = "delete" /\ dst # "gone" THEN {tmp} \ {None} ELSE {}

InUse ==
  (UNION {Touched(t) : t \in AdminThreads}) \cup ListUses \cup CollectorUses
    \cup {e \in Events : held[e] > 0}

\* The next step of insert(), in gc1(), or of the collector goes through _evhead.
HeadUsed == (ins = "called" /\ ~finish /\ Full) \/ (gc = "unlink" /\ dst # "gone")

\* No event is freed while a thread, the list, a proxy queue or the collector
\* still goes through it, and nobody goes through a null head (next_event()
\* takes no lock and relies on reference counts alone; gc1(),
\* garbage_collect() and the destructor delete).
MemorySafe ==
  /\ \A e \in InUse : mem[e] = "live"
  /\ HeadUsed => evhead # None

\* Once freed storage or a null head is used the program has no defined behaviour: it stops.
Next ==
  /\ MemorySafe
  /\ \/ SupplierCall \/ Supplier \/ QosChanged
     \/ \E t \in AdminThreads : AdminThread(t) \/ Handoff(t)
     \/ \E e \in Events : Release(e)
     \/ Collector
     \/ DestroyBegin \/ Destroyer

Spec == Init /\ [][Next]_vars

\* Threads keep running, waits on _qclean are timed, proxy queues drain and a
\* destroy() that has begun goes on; nobody has to announce an event, hand one
\* over, change the QoS or destroy the channel.  Stated for queues with no
\* limit, where MemorySafe always holds and never stops anybody.
Fairness ==
  /\ WF_vars(Supplier)
  /\ \A t \in AdminThreads : WF_vars(AdminThread(t))
  /\ \A e \in Events : WF_vars(Release(e))
  /\ WF_vars(Collector)
  /\ WF_vars(Destroyer)

FairSpec == Spec /\ Fairness

--------------------------------------------------------------------------------
(* Properties *)

\* The events that take up a place in the queue.
Live == {e \in Events : mem[e] = "live"}

\* A reference count is the queue's reference, one for each admin thread that
\* has not given the event up and one for each proxy queue that holds it.
RefCountExact ==
  \A e \in Events : mem[e] = "live" =>
    rcnt[e] = 1 + Cardinality(Readers(e)) + held[e]

\* A thread blocked for an event gets a null one only when the channel is
\* shutting down: admin_dispatch() never reaches its RDI_Fatal.
NullOnlyAtShutdown == \A t \in AdminThreads : pc[t] # "fatal"

\* Whatever the limit, _length never falls below the number of events in the
\* queue: no place that is not there is ever promised, and the unsigned
\* subtraction of garbage_collect() never wraps.
LengthCovers == dst # "gone" => length >= Cardinality(Live)

\* The events 1..Linked are linked to each other, in this order.
Linked == IF ins = "link" THEN inserted - 1 ELSE inserted

\* The event thread t is at: all its references to earlier ones are given up.
Position(t) ==
  IF pc[t] \in {"unlock", "mark", "ret", "exit"} /\ cur[t] # None THEN cur[t] ELSE prev[t]

\* The events given back to the allocator.
Freed == {e \in Events : mem[e] = "freed"}

\* The queue, seen from outside, is a log that every thread reads in order.
Log == INSTANCE EventLog WITH
  published <- Linked,
  position <- [t \in AdminThreads |-> Position(t)],
  collected <- Cardinality(Freed),
  closed <- dst = "gone"

ImplementsLog == Log!LogSpec

\* Every thread gets every event that follows the one it has, and its first
\* one, unless the channel shuts down: no wake-up of _qempty is lost.
EventuallyDelivered ==
  \A t \in AdminThreads, e \in Events :
    (e <= inserted /\ prev[t] < e /\ (prev[t] # None \/ e = 1))
      ~> (prev[t] >= e \/ shutmedown)

\* Events the queue alone refers to, with all their predecessors, are freed.
EventuallyCollected ==
  \A e \in Events :
    (mem[e] = "live" /\ \A d \in 1..e : rcnt[d] = 1) ~> (mem[e] = "freed" \/ finish)

\* destroy() comes to an end: set_finished() stops waiting, the admin threads
\* can be joined, and the queue is deleted.
EventuallyDestroyed == shutmedown ~> (dst = "gone")

--------------------------------------------------------------------------------
(* The inductive invariant.  The first five parts hold for every limit and *)
(* explain the types and the reference counts; the last two need a queue   *)
(* with no limit, where gc1() never runs, and explain why no event is used *)
(* after it was freed.                                                     *)

\* What has been accepted, and how it is linked.
ListInv ==
  /\ \A e \in Events : mem[e] = "unborn" <=> e > inserted
  /\ \A e \in Events : next[e] = IF e < Linked THEN e + 1 ELSE None
  /\ ins \in {"link", "publish"} => inserted > 0
  /\ ins = "called" => inserted < NumEvents
  /\ evtail = IF dst = "gone" THEN None
              ELSE IF ins = "link" \/ (ins = "publish" /\ inserted > 1) THEN inserted - 1
              ELSE inserted
  /\ evhead <= Linked

\* The references counted: RefCountExact for freed events too.
CountInv ==
  \A e \in Events :
    /\ e <= inserted => rcnt[e] = 1 + Cardinality(Readers(e)) + held[e]
    /\ e > inserted => held[e] = 0

\* Where a thread stands in the list, and what it has given up.
ThreadOK(t) ==
  /\ prev[t] <= Linked /\ cur[t] <= Linked
  /\ \A e \in passed[t] : e < Position(t)
  /\ pc[t] \in {"top", "call", "dispatch"} => cur[t] = prev[t]
  /\ pc[t] \in {"look", "lock", "blocked", "woken", "fatal"} => cur[t] = None
  /\ pc[t] \in {"decr", "unlock", "mark", "dispatch"} => cur[t] # None
  /\ pc[t] = "decr" => prev[t] # None /\ cur[t] = prev[t] + 1
  /\ pc[t] = "unlock" => prev[t] # None
  /\ pc[t] \in {"unlock", "mark", "ret"} /\ cur[t] # None /\ prev[t] # None
       => cur[t] = prev[t] + 1

ThreadInv == \A t \in AdminThreads : ThreadOK(t)

\* A thread has a null event only after _finish, which _shutmedown precedes.
ShutdownInv ==
  /\ shutmedown <=> dst # "alive"
  /\ finish <=> dst \notin {"alive", "finish"}
  /\ \A t \in AdminThreads : pc[t] = "ret" /\ cur[t] = None => finish
  /\ \A t \in AdminThreads : pc[t] # "fatal"

\* What destroy() has waited for.
DestroyInv ==
  /\ dst \in {"clients", "delete", "gone"} => \A t \in AdminThreads : pc[t] = "exit"
  /\ dst \in {"delete", "gone"} => ins = "idle" /\ \A e \in Events : held[e] = 0
  /\ dst = "gone" => evhead = None

\* Nobody but the list refers to e, and nobody ever will again.
Unneeded(e) == held[e] = 0 /\ \A t \in AdminThreads : e \in passed[t]

\* The collector only has in hand what is not needed any more ...
CollectorInv ==
  dst # "gone" =>
    /\ gc \in {"take", "unlink"} => evhead # None /\ Unneeded(evhead)
    /\ gc = "unlink" => tmp = evhead
    /\ gc = "delete" =>
         tmp # None /\ evhead = tmp + 1 /\ mem[tmp] = "live" /\ Unneeded(tmp)

\* ... and what was freed is exactly what precedes the head of the list.
FreedInv ==
  dst # "gone" =>
    /\ evhead = None => inserted = 0 \/ (inserted = 1 /\ ins \in {"link", "publish"})
    /\ \A e \in Events : mem[e] = "freed" => e < evhead /\ Unneeded(e)
    /\ \A e \in Events : e < evhead /\ ~(gc = "delete" /\ e = tmp) => mem[e] = "freed"

CoreInv == TypeOK /\ ListInv /\ CountInv /\ ThreadInv /\ ShutdownInv /\ DestroyInv
UnlimitedInv == CoreInv /\ CollectorInv /\ FreedInv

================================================================================
