# Verification of the omniNotify event channel

TLA+ modules, TLC configurations and TLAPS proofs for omniNotify, a CORBA
Notification Service in C++ (`src/lib`, `src/include`).  Every definition is
translated from the source; `PROJECT.json` names, for each of them, the lines
it stands for.

## 1. Inventory

A server process owns one channel factory; the factory creates event channels.
Suppliers connect to *proxy consumers*, grouped under *supplier admins*;
consumers connect to *proxy suppliers*, grouped under *consumer admins*.  An
event goes

    supplier -> proxy consumer -> event queue of the channel
             -> (an admin thread) consumer admins of one group -> proxy suppliers
             -> notification queue of the proxy supplier -> (push worker) consumer

| Component | State it keeps | Operations | Talks to |
|---|---|---|---|
| Event queue (`RDIEventQueue`) | linked list of events, advertised length, blocked threads, shutdown flag, collector flag | `insert`, `next_event`, `gc1`, `garbage_collect`, `qos_changed`, `set_finished`, destructor | proxies (insert), admin threads (next_event), channel (QoS, destroy) |
| Structured event (`RDIEvent.h`) | reference count, state, `_next`, its own mutex, cached run-time values | increment and decrement, `set_state` | the queue, admin threads, notification queues |
| Event channel (`EventChannel_i`) | admins, shutdown flags, offer and subscription counts, last-use times, QoS | `new_for_*`, `admin_dispatch`, `proxy_dispatch`, `propagate_ochange/schange`, `gc`, `destroy` | everything below a channel |
| Admin groups (`CAdminGroupMgr`) | groups of consumer admins, a range per dispatch thread | `allocate_range`, `insert`, `remove` | admin threads, admin creation |
| Worker pools (`PushSupplierPool`, `PushConsumerPool`, `ChangePool`, dispatch threads) | sets of threads, proxies waiting to be served, pending changes | add, remove, take, worker loops | proxies |
| Administration objects (`ChannelAdmin_i`) | maps of proxies, filters, mapping from event types to filters | `obtain_*`, `dispatch_event`, `remove_proxy`, `destroy` | channel, proxies, type map |
| Proxy consumers (`ProxyConsumer`) | connection state, offered types, client reference | `connect_*`, `push_*`, worker pulls, `disconnect_*` | supplier clients, event queue |
| Proxy suppliers (`ProxySupplier`) | connection state, active flag, notification queue, subscriptions | `connect_*`, `_add_event`, push workers, pulls, `suspend`, `resume`, `disconnect_*` | consumer clients, admins |
| CORBA event service proxies (`CosEventProxy`) | as the two rows above, for untyped clients | as above | as above |
| Notification queue (`RDINotifQueue`) | an array of events, each with a key for delivery and one for discarding: a heap by the first, searched by the second | `insert`, `remove_pri_head`, `remove_sec_head`, `qos_changed` | proxy suppliers, structured events |
| Event type map (`RDITypeMap`) | type to filters and admins | `lookup`, `update`, snapshots | admins, filters |
| Object locks (`RDIOplocks`) | pool of lock entries; owner, use count, disposed flag, list links | `alloc_entry`, `acquire`, `reacquire`, bump scopes, `free_entry`, `cleanup` | every object with a client interface |
| Filters (`Filter_i`, `FAdminHelper`) | constraints, callbacks, filter maps | add, modify, remove, match | admins, proxies, type map |
| Constraint language (`RDIParser*`, `RDIRVM`, ...) | parse tree, operation sequence, stack | parse, generate, evaluate | filters |
| QoS and configuration (`CosNotification`, `RDIConfig`) | property tables | convert, validate, set | all |
| Server and factory (`RDINotifServer`, `omniNotify`) | names, the factory, channels | start, create, destroy | channels |

### What is hard

* *Interleaving.*  Admin threads walk the list of events without its lock; the
  collector unlinks without any lock; only reference counts keep them apart.
* *Lifetime.*  Events, queue, proxies and lock entries are deleted by one
  thread while others may still be on their way out.
* *Lost wake-ups and shutdown.*  Every queue has its own condition variable,
  blocked counter and finished flag, and `destroy()` waits for all of them.
* *Lock order and lock release.*  Proxies release their own lock to call the
  admin or the channel and take it again: state read before is stale after.
* *Limits.*  Queue lengths are cached, lag, may be lowered while the queue is
  in use, and are unsigned.
* *Partial failure.*  A batch of events may be half accepted.

`PROJECT.json` lists each hazard at its line, with the properties that cover it
or the reason why none does yet.

### What makes each part correct

* Event queue: each thread sees every event from its first one on, in order
  and exactly once; no event is freed while somebody can reach it; every event
  nobody needs is freed; the length matches the list; the limit is respected;
  no wake-up is lost; shutdown ends.
* Object locks: an object is disposed of once and never inside a scope that
  counts on it; an entry serves one owner at a time; a failed acquire changes
  nothing.
* Notification queue: what is delivered first and what is discarded first
  follow the policies in force, also after they changed; a queue that is added
  to is within its limit; no event is queued twice.
* Hand-over to proxy threads: the events of an admin do not overtake each other.
* Admin groups: each group is served by exactly one thread; while admins come
  and go, every admin that stays is given every event once and in order.
* Proxies: no push is under way when a proxy is disposed of; events are handed
  over in order and once; what is ready to be pushed is pushed.
* Offers: once no call is under way, what the channel counts is what is
  offered, and each client is told of every change once and in order.
* Filters and type map: an event that admin and proxy ask for reaches the proxy,
  whatever changes came before (in this code: changes of one constraint at a time).
* Constraint language: the machine never meets an operand the generator did not
  count on, and computes what the constraint means.

## 2. The modules

Twelve runs check the project, one per question; `PROJECT.json` lists the
properties of each, and for each property of a run that passes a mutant of the code
that it rejects.  One run, `oplocks_walk`, shows a violation.

| Part | Abstract | Detailed | Proofs | Run |
|---|---|---|---|---|
| event queue | `EventLog` | `EventQueue` | `EventQueueProofs` | `queue_limit`, `queue_liveness` |
| notification queue | `PriorityQueue` | `NotifQueue` | `NotifQueueProofs` | `notifq` |
| groups of admins | `Rounds` | `SafeList`, `AdminGroups` | `ChannelProofs` | `groups` |
| admins to proxies | `Delivery` | `ProxyDispatch` | `ChannelProofs` | `dispatch` |
| object locks | `Lifetimes` | `Oplocks` | `OplocksProofs` | `oplocks`, `oplocks_walk` |
| offers | | `Offers` | `OffersProofs` | `offers` |
| pushing | | `PushSuppliers` | `PushSuppliersProofs` | `push` |
| offer changes | | `ChangePool` | `ChangePoolProofs` | `changes` |
| filters, subscriptions, dispatch | | `Subscriptions` | `SubscriptionsProofs` | `subscriptions` |
| constraint language | `Meaning` in it | `Constraints` | | `constraints` |

The modules meet at the state one part leaves and the next takes: `AdminGroups`
relies on what `EventQueue` proves of `next_event()`; `ProxyDispatch`, on the order
in which `AdminGroups` comes to the events; `PushSuppliers` takes the
queue of `NotifQueue` as a sequence that loses any event when full; `Offers` stops
where `ChangePool` takes over, at the order in which changes are inserted;
`Subscriptions` takes expressions as true, which `Constraints` evaluates; and all
proxies take for granted what `Oplocks` shows, that a thread which has bumped an
object keeps it.

### 2.1 The event queue: `EventLog`, `EventQueue`

`EventLog` is what the queue promises, with no pointers, counts or locks: a
log that grows at its end, threads that each read it event by event, and a
collected prefix.

`EventQueue` is the queue as it is coded.

* *State.*  An event is named by its position in the order of `insert()`; its
  `_next`, `_rcnt`, `_state` are the functions `next`, `rcnt`, `stat`, its
  storage is `mem`.  `evhead`, `evtail`, `length`, `numblk`, `finish`,
  `gcdone`, `maxlen` are the members of `RDI_EventQueue`; `pc`, `cur`, `prev`
  are an admin thread's step, `sevnt` and `pevnt`; `gc`, `cursize`, `evncntr`,
  `tmp` are the collector's.  `held` counts the references notification queues
  own.  `passed` is history: the events each thread gave up.
* *Grain.*  Code under `_oplock` is one action, except in `insert()`, whose two
  assignments to the list are separate steps because other threads read the
  list without the lock.  Every unlocked read or write is a step of its own, and
  so are the two halves of the macro that decrements a count and then unlocks
  the mutex inside the event.
* *Actions.*  `Insert*` is `insert()` with `gc1()`; `QosChanged`,
  `qos_changed()`; `AdminTop`, `NextEvent`, `Look`, `Lock`, `Wake`, `DecrRef`,
  `UnlockRef`, `Mark`, `Return`, `DispatchEnd` are `admin_dispatch()` with
  `next_event(pevnt, 1)`; `Handoff` and `Release` are what notification queues
  do to the count; `GC*` is `garbage_collect()`; `DestroyBegin` to `Delete` is
  `EventChannel_i::destroy()` with `set_finished()` and the destructor.
* *Undefined behaviour.*  `MemorySafe` guards `Next`: a run that has used freed
  storage or a null head stops, it has no next step to model.

| Run | Question | Bounds |
|---|---|---|
| `queue_limit` | Are the counts right, is the length never below the list, and does no thread mistake the end for an error, while limits change and `gc1()` discards? | limits 0, 1, 2, switched at any time; 2 threads, 3 events, one notification queue at a time per event |
| `queue_liveness` | Is no freed event used, does the queue implement `EventLog`, is each event delivered to each thread, and freed when nobody needs it? Does `destroy()` end? | no limit; 2 threads, 2 events, no notification queue |

Two threads are the least for which one can lag behind another, three events
the least for which the head is collected, the middle is being read and the
tail is being linked; a limit of 2 is the least at which `gc1()` and the
collector can both be after the head.  That a hand-over to a notification queue keeps
its event alive is proved (below) rather than run: `MemorySafe` needs a queue
with no limit, and its run has no hand-overs.
`ULongMax` is any number larger than
what is counted: all that matters is that decrementing 0 is not small.

*Fairness.*  Every thread keeps running (weak fairness for each admin thread,
the collector, a supplier inside `insert()` and the thread in `destroy()`): they
are threads of a preemptive system, mutexes are only held for a bounded number
of steps, and `_qclean.timedwait()` returns by itself.  `Release(e)` is fair
because a proxy that leaves drains its queue.  Nobody is assumed to announce an
event, to change the QoS or to destroy the channel.

*Proved* (`EventQueueProofs`), for every set of
threads, number of events, and number of notification queues:

* `CoreInvariant`, for every limit: `CoreInv`, which says how the list is linked
  while `insert()` is at work, that a reference count is one for the queue, one
  per thread that has not given the event up, and one per holder (for freed
  events too, otherwise it is not inductive), where each thread stands, and
  in which order shutdown proceeds.  `TypeCorrect`, `CountsExact` and
  `NullEventOnlyAtShutdown` follow.
* `UnlimitedInvariant` and `MemorySafety`, for queues with no limit (with one, `gc1()` and
  the collector free the same events, section 3): what the collector has in hand
  (`CollectorInv`) and what was freed (`FreedInv`) is `Unneeded`, that is, no
  thread has it to come and no notification queue holds it.  The step that
  needs the argument is `GCCheck`: a count of 1 read without a lock means, by
  `CountInv`, that the set of threads with a claim is empty, and `Unneeded` is
  stable because a thread only ever takes hold of an event that follows the one
  it has.
* `Refinement`: with no limit, `Spec` implements `EventLog!LogSpec`; a thread's
  position there is the event whose predecessors it has given up.

* `LengthNeverShort`, for every limit and however it changes: `LengthCovers`, from
  `LengthInv`.  It is stronger than the property, as the collector tells its
  frees only at the end of a round: the length less `Untold`, what it freed since, is
  already enough.  A free by `gc1()` lowers one side only.

*Model-checked only:* the liveness properties (out of the prover's reach).

*Left out:* the statistics counters and debug output, `next_event(.., 0)`,
which has no caller, the contents of events, and what the
collector does after the queue is gone.

### 2.5 Object locks: `Lifetimes`, `Oplocks`

Every object with a client interface shares its lifetime with a lock entry that
outlives it; a thread that comes too late must find out that the entry is no
longer that of its object.

* *State.*  `optr` and `life` belong to objects: the `_oplockptr` a thread reads
  without a lock, and how far the object is.  `ptr`, `inuse`, `disposed`, `lock`,
  `nextp`, `prevp` are the members of an `RDIOplockEntry`; `unused` are the
  entries the heap has not given yet, `listlock` is `RDIOplocks::_oplock`.  `pc`,
  `obj`, `ent` are a thread's step, its object and its copy of the pointer,
  `counted` says that a `wait()` has counted itself.
* *Actions.*  `Call`, `CopyPtr`, `Refused`, `Acquire`, `Exit` are a bumped scope;
  `TempRelease` and `Reacquire`, a scope that gives the lock up once; `WaitOn`,
  `Signal`, `WaitEnds`, `wait()` and `signal()`.  `Close` to `Dispose` are the
  scope that ends an object: `AwaitAlone` and `WokenAlone` its loop on
  `inuse() > 1`, `BeginFree` the debump and the look at the links.  `BeginAlloc`,
  `Skip`, `Found`, `Reuse`, `NewEntry` are `alloc_entry()` walking the free list
  under the static lock.
* *The links.*  `_remove()` and `_prepend()` are four stores each, and each store is
  a step that reads the links as they are then: `Bypass`, `Detach`, `OwnNext`,
  `OwnPrev` (for `alloc_entry()` the last one is in `Reuse`), and `PrependNext`,
  `PrependPrev`, `Link`, `Chain`.  `free_entry()` takes them with the lock of its
  entry only, `alloc_entry()` those of `_remove()` with the lock of the list as
  well, so that they interleave.  The stores are taken in the order of the source.
* *Run `oplocks`.*  2 threads, 4 objects (two exist at the start), 3 entries, 4
  calls: enough for an entry to be freed, met by the walk of an allocation while
  another is being linked, reused, and looked at by a thread that still has the
  old pointer.  What it shows does not depend on the links: an entry changes hands
  by its own lock and its own members.
* *Run `oplocks_walk`* (expected violation).  3 threads and objects to start with, 6
  objects, 3 entries, 3 calls.  `WalkEnds` says that a walk of `alloc_entry()`, while
  nobody stores links, leads to an entry to reuse or back to the head.  Two threads
  that free read the same `_prev` of the head; one of them completes.  A third thread
  takes the entry both have found last off the list: between its first store and
  its second the other one stores `_next` of that entry, which the second reads
  again, so that the completed entry keeps a `_prev` that has left the list.  When
  that entry is reused later, its `_next` leads to itself while the list still
  leads to it, and the next walk spins with the lock of the list held.

`Lifetimes` is the abstract specification: an object is made, threads enter and
leave it until it is disposed of, which happens once, after one of them has closed
it and when nobody is inside.

*Fairness.*  Threads go on with what they have begun; whether a thread inside an
object waits, closes it or gives up the lock is its own choice, and is not fair.

*Left out:* `cleanup()` and `shutdown()`, which run when the server exits, and
the ranks of the locks.

*Proved* (`OplocksProofs`), for any number of objects and entries and any finite
set of threads, if the objects that exist at the start have an entry each:

* `Inv`, the inductive invariant: `Where` says what a thread has in hand at each
  step, `Claimed` that what is being taken off the free list can be reused,
  `Locked` who holds which lock, `Owners` that an object has one entry at most
  and has not been disposed of while it has, `Apart` that the free list does not
  lead to entries the heap still has, `InsideOwns` that a thread inside an object
  finds its entry still with it, and `InUseExact` that the count of an entry is
  the number of threads that have bumped it or wait with it, across all its owners.
  The last two need each other: an entry is given away at a count of 0, and a
  count of 0 means that nobody is inside.
* `EntriesStay`, `CountsExact`, `TypeCorrect` follow; `ObjectLifetimes` says that
  `Oplocks` implements `Lifetimes`.

Nothing is proved of the links but that they do not lead to what the heap still
has (`Apart`); the rest does not need them.

Only model-checked: `DisposalEnds` (liveness).

### 2.2 The queue of a proxy: `PriorityQueue`, `NotifQueue`

`PriorityQueue` holds the algorithms of `RDIPriorityQueue` as functions on an
array of entries: `Inserted` and `Removed` name the path along which `insert()`
and `_remove()` swap, and shift the entries on it; `SecHead` is the linear search.

`NotifQueue` is one queue in use by its proxy.

* *State.*  `heap` is the array, an entry has the event and its two keys.
  `policy` is what the queue copied at the last `qos_changed()`
  (`_order_policy`, `_discard_policy`, `_def_timeout`, `_def_priority`); `qos`
  is what is in force for the proxy.  `changing` says that a change made at
  the admin or the channel has not yet come down to this proxy.  `attr` is
  history: time stamp and headers of every event added.
* *Actions.*  `AddEvent` is `RDIProxySupplier::_add_event()` of a connected
  proxy, which first discards; `TakeEvent`, the `remove_pri_head()` of every
  pull, try-pull and push; `ClearQueue`, `_clear_ntfqueue()`; `SetQoS` and
  `QosChanged`, a change of QoS and its arrival.  Each runs under the lock of
  the proxy.
* *Workloads.*  `work` never changes: it says how many events with which
  attributes come, which settings may be made, and whether the proxy is of the
  kind that tells its queue the QoS it is created with.
* *Numbers.*  Keys are unsigned, with `ULongLongs` values, so that the cast of
  a negative priority wraps as it does in the code.

* *The order of events* is stated by what they carry, not by the keys: `GoesBefore`
  compares stamps, due times (`Due`) or priorities.  What the code is known to order
  otherwise is left out of it (section 3): negative priorities, due times beyond the
  width, and LifoOrder, for which `DiscardsFirst` claims how much is discarded and not
  what.  For PriorityOrder the highest goes first under either policy, which is what
  `RDINotifQueue.cc:262-263` set.  The policies meant are those the queue was told
  last; that a proxy may be told late, or not at all, is the hazard at
  `ProxySupplier.cc:419`, of which only the limit is claimed.

| Run | Question | Bounds |
|---|---|---|
| `notifq` | Do discards and limit follow the policies, whatever changes in between? Is the order right while both policies agree, also after they did not? | two workloads: 4 events of 4 kinds (ties, a stamp that runs backwards, missing headers, negative priority) with 6 settings; 7 events of 3 kinds, the oldest of the lowest priority, with 2 settings |

Four entries make a heap with a grandchild, five with two subtrees of different
depth; six is the least length at which the entry that fills a gap in the
middle may have to go up, so the second workload fills a queue of six and adds one
more before the policy changes.

*Proved* (`NotifQueueProofs`), for arrays of any length, any events, limits and
settings, and any width of the keys; the assumptions are that stamps and time-outs
fit the width and so does a priority that is not negative.

* `Sound` is the invariant: each event is once in the array, with the keys its
  attributes and `policy` give it, and the array is a heap while both policies
  agree.  The keys are needed because the properties speak of events and the
  algorithm compares keys; that an event is there once, to count what is left.
* `InsertedIs` and `RemovedIs` say what `insert()` and `_remove()` do to any
  array: the result is a rearrangement of the same entries (with the new one,
  without the removed one), and a heap stays a heap if what is removed is the
  root.  Both go along a way through the array that a recursive function gives.
  `WaysExist` shows that there is such a function, as the least sets closed
  under the step; `WaysLead`, by the index with the lowest rank for which it
  would fail, that a way is a chain with one start and one end.
* `RootFirst`: nothing goes before the root of a heap, by the first entry that would.
  `SecHeadIs`: the linear search always finds what it looks for.
* `Discarded` and `Rebuilt` repeat a step and are functions defined by recursion:
  `StepByStep` shows that they exist.  `DiscardedIs` gives how much is left and that
  nothing in it goes before what went, `RebuiltIs` that a change of policy keeps
  the events and gives them new keys.
* `KeysFollow`: what goes before by what the events carry goes before by the keys.
* From these follow `Ordered`, `Delivers`, `Discards` and `Within`, the four properties
  of the run.  That removal from the middle may leave no heap (section 3) is why
  the order is claimed only while the policies agree.

### 2.3 Groups of consumer admins: `SafeList`, `Rounds`, `AdminGroups`

`SafeList` holds the operations of `RDI_SafeList`, a list with one circular
iterator in it: an array, the index the iterator is at, and a flag that says
that the next call gives the null that ends a round.  `Members` and `Due` are
what the list means: who is in it, and whom the iterator still gives before its
null.

`Rounds` is what a group promises with no list: members join and leave, in each
round everybody who stays is served once, and a round ends when nobody is due.

`AdminGroups` is `CAdminGroupMgr` with the threads of `admin_dispatch()`.

* *State.*  `nextgr`, `rmgrps`, `rmthrs` are those of the manager; `lo`, `hi` are
  the range a thread was given, `at`, `ev`, `ix` its place: before its first
  range, at the top of the loop over events, or in the middle of the list of
  group `ix` with event `ev`.  `lists` are the groups and `serial` is the counter
  admin IDs come from.  `got` and `done` are history: the last event every admin
  was given and the last one each group is through with.
* *Actions.*  `AllocateRange` is `allocate_range()`; `NextEvent`, what
  `EventQueue` proves of `next_event()`: a thread gets the tail first, and then
  every event in order; `Visit` and `EndOfGroup`, the inner loop when
  `iter_next()` gives an admin or the null; `ThreadExit`, its way out at
  shutdown.  `NewConsumerAdmin`, `NewSupplierAdmin`, `Unregister` are the
  creation of admins, of which both kinds use the counter, and the end of one;
  `Announce` and `Shutdown`, the rest of the channel.
* *Grain.*  An action is what is done under one lock, that of the manager or of
  one group.  The group is unlocked between two admins, so admins come and go
  between any two steps of an iteration.
* *Bounds.*  `MaxSerial` IDs and `MaxEvents` events; IDs are not reused.

| Run | Question | Bounds |
|---|---|---|
| `groups` | Are ranges right and never refused? Does everybody who stays get every event once and in order, and in the end? Is each group a `Rounds`? | 2 threads, 2 groups, 5 IDs, 3 events: three admins in one list, so that the first, the middle and the last may go; how ranges are divided when the numbers do not match is left to the proofs |

*Fairness.*  Each admin thread keeps running, as for the queue.  Nobody is
assumed to announce, to create, to destroy or to shut down.

*Seen on the way.*  The comment of `RDI_SafeList` (`RDISafeList.h:62-64`) says
that a loop over all elements leaves the iterator where it was; when it was at
the beginning of a round it is left before the null instead.  The one loop of
that kind, in `remove_all()`, has no caller and is followed by `drain()`: no run
models it.

*Proved* (`ChannelProofs`), for every number of groups,
threads, admins and events; the assumption is what the start-up configuration
checks, that there are at least as many groups as threads and at least one
thread.

* What `insert()`, `remove()` and `iter_next()` do to `Members` and `Due`, for
  lists of any length that are `WellFormed`: no element twice, an index that is
  inside the list or 0, and 0 when the marker is set.  Each operation keeps
  that.
* `Inv`, the inductive invariant.  `Counts` ties the numbers of the manager to
  the threads that have not asked yet; with the lemma `SliceFits` on the integer
  division it gives that a slice is never empty, leaves a group for each thread
  that is still to come, and is all that is left for the last.  `Ranges` are
  disjoint.  `ListsSound` says that admins are in their own group and IDs are
  new.  `Turns` says that a group which no thread is in the middle of is at the
  start of a round; without it, a thread that goes for the next event could
  leave somebody behind.  `Pace` bounds how far a group is behind the event of
  its thread.
* From it: `RangesPartition`, `RangeForEach`, `EveryoneInStep`, `NobodyMissed`,
  `NoneSkipped`, `TypeOK`, and that every group implements `Rounds`.  The run has
  `RangesPartition` and `ImplementsRounds`, to which a mutant can do what it would
  do to the others.

Only model-checked: `EveryoneServed` (liveness).

### 2.7 Pushing: `PushSuppliers`

A thread takes events from the queue of a proxy with the lock of the proxy,
gives the lock up for the call of the consumer, and takes it again.  Either a
pool of workers (`RDI_NotifyConsumer`) serves the proxies of a channel, or every
proxy has a thread of its own (`push_threads()` is 0).

* *State.*  `pxstate`, `queue`, and whether it is in `active` and in `passed` (its
  timeout is over) are a proxy's; `entries`, `deled`, `inuse`, `last`, `ndeleted`,
  `lock` are the pool's, with `turn` of the thread that has the lock.  The list of
  entries has the newest first: `made` counts registrations and `born` says which was
  a proxy's.  `at`, `mine`, `batch`, `timed` say where each thread is, for which proxy,
  with which events, and whether it waits for a time.  `channel` never changes: which
  pool, which proxies.  `pushed` is history.
* *Actions.*  `Create` to `Dispose` are what clients, the admin and the channel
  do to a proxy; `Enter`, `Look`, `CheckDeleted`, `PushEvent`, `Finish`, `Leave` are
  a worker in `notify()` and `push_event()`; `PushOwn` is the thread of one proxy;
  `TimedWake` and `Tick` are timed waits and the pacing interval.
* *The queue* is a sequence here: which event goes when it is full is the subject
  of `NotifQueue`, and any may.

| Run | Question | Bounds |
|---|---|---|
| `push` | Are events pushed in order and once, whichever worker does it? Are the entries a worker uses kept? Does no push outlive the disposal? With own threads: is what is there pushed, and does a disconnect end? | a proxy for batches of 2 with pacing and one for single events, queues of 2, up to 3 events; a pool of two workers for one proxy, one worker for two proxies, own threads |

The pool collects deleted entries when there is one (6 in the code), so that a
collection happens at all.

*Fairness.*  Threads run, time passes, a consumer's call returns or fails, and a
disconnect goes on.  Nothing makes events come or clients resume.  Liveness is
only asked of threads of their own: with a pool a wake-up can be lost (section 3).

*Proved* (`PushSuppliersProofs`), for any finite set of proxies, any workers, and
all sizes of batches, limits of queues and numbers of deleted entries that make the
pool collect: `Invariance`, `TypeCorrect` (with the limit of queues), and of the
properties of the run `PushedInOrder`, `UsedEntriesKept` and `DisposalWaits`.
`ReferencesExact` is about the events: one has exactly as many references from the
proxies as there are that have it queued or in hand, whatever was dropped, pushed,
cleared by a failure or disposed of.  The inductive invariant: `Roles`, which threads serve
whom and who has the lock of the pool; `Shared`, an entry in use is so by one worker,
without which two would push out of order; `Ordered`, what was pushed comes before
what is in hand, and that before what is queued (`InOrder` alone says nothing of
what comes next); `RefsExact`.  Only model-checked: `OwnPushed` and `OwnDisposed`, which
are liveness.

*Left out:* pull proxies, and the untyped proxy's unusual exception (section 3).

### 2.6 What a channel offers: `Offers`

A proxy consumer keeps the set of types its supplier offers; a supplier admin
counts its proxies per type; the channel counts its admins.  No lock is held
from one level to the next.

* *State.*  `offered`, `counted`, `offers` are the `_evtypes` of the three levels;
  `direct` is what a client offers at an admin itself; `told` is what a client
  knows that has heard every change in order (`ChangePool` delivers them);
  `call` says at which level each call is, with which lists.  Two history
  variables, `twice` and `late`, are the types the code is known to count wrong, of
  which the same offer was taken back twice or which came back after they were
  revoked (section 3).  The properties except these types and no others, and so say
  nothing of the hazard at `ProxyConsumer.cc:513`.
* *Actions.*  `OfferChange`, `OfferDirectly`, `Fail` (a pull fails) and `Disconnect`
  with `Revoke` begin a call; `CountAtAdmin`, `Refused` and `CountAtChannel` take it
  up; `DestroyAdmin`, `Unregister`, `RevokeAll`, `DisposeProxy`, `DisposeAdmin` are the
  destruction of an admin, `Shutdown` that of the channel.  The admin waits to be
  alone, then gives up its lock to unregister (`Unregister`) and only then reads
  what it counts (`RevokeAll`): a proxy may enter in between and be on its way to the
  channel when the types are read.
* *Run `offers`.*  One type, two admins, three proxies of which one pulls, two
  calls at a time, five in all.  One type is enough: the counts of different types
  never meet.  Five calls let two proxies offer, one fail, and an admin be
  destroyed with a call on its way.

*Proved* (`OffersProofs`), for every finite set of proxies, admins and callers, every set
of types and number of calls: `OffersKept` (`NoOfferLost`), `OffersCounted`
(`OffersExact`) and `TypeCorrect`, from `Inv`.  `NoOfferLost` and `OffersExact` speak
of moments at which no call is under way; the invariant says what holds in between.
* `AdminsExact`, `ChannelExact`: at an admin, what is counted and what calls are about
  to add (`Adding`) is at least what the proxies and the client at the admin offer and what
  calls are about to take off (`Deleting`), for types that are not in `twice`, and
  exactly that for those not in `late` either; at the channel the same, over the admins
  that count a type.  A disconnect is `Deleting`
  what its proxy offers from the moment the proxy's state changes, before it has
  read the set.
* `Sane` is why a step moves one term of such a sum only: what each call is
  about, that its proxy or admin is in the state the call has put it in, and that
  no two calls disconnect one proxy, destroy one admin, or speak for the client of
  one admin.
* `ToldExact`: what clients know is at any time what the channel counts.

The lemma `Differ` (two sets that differ in one element) does the counting;
`CallerMoves`, `ProxyMoves` and `AdminMoves` apply it to the terms of the sums, and
`CountedAtAdmin` and `CountedAtChannel` carry the lists of a call through `Count`.  With
the bounds of the run `Inv` holds in all 976,213 states.

### 2.8 Telling clients of changes: `ChangePool`

`RDI_ChangePool` tells the client of every registered proxy which event types
have come and gone, by threads that hold no lock meanwhile.  The pool is a chain
of changes; a proxy waits at the first change it has not been told of.

* *State.*  `head` and `tail` bound the changes that are in the list of `ChangeEntry_t`,
  `users` counts the threads that use one, `node` has the proxy of every `ProxyEntry_t` made so far,
  `at` the change it waits for, `used` and `deled` those so marked; `nproxies`, `ndeleted`,
  `terminate` are the pool's.  `pxstate`, `off` and `inuse` are a proxy's.  The last
  change the client of a node was told of is history.  Which of the waiting proxies
  a worker picks is left open, the order of the list of a change being of no matter.
* *Actions.*  `InsertChange`; `Quit`, `Wait`, `Pick`, `Look`, `SendOfferChange`,
  `Deliver`, `Finish` are `notify()` of a worker, with the call of the client as a
  step; `Connect`, `EnableUpdates`, `DisableUpdates`, `Fail`, `Disconnect`,
  `Dispose` are what happens to a proxy, with `InsertProxy`, `RemoveProxy` and
  `Gcollect` of the pool inside; `Destroy` ends the pool.
* *Run `changes`.*  2 proxies, 2 workers, 2 changes, 3 registrations, 3 calls, and
  collection at 2 deleted nodes (10 in the code).  Two workers are the least that can hold two
  changes for one proxy, three registrations the least for a proxy to be removed, collected
  and registered again while the other is being served.

*Fairness.*  Workers run and clients answer.

*Proved* (`ChangePoolProofs`), for any number of proxies, changes, registrations and
calls and any finite set of workers: `Invariance`, `TypeCorrect`, and of the properties
of the run `RegisteredOnce`, `InUseStays`, `DisposalWaits` and `ToldInOrder`.  None
of the properties is inductive.  What carries them (`Inv`):
`Placed`, every registration that is not collected waits at a change of the list;
`Counted`, the users of a change are the workers busy there, which is why a count of
zero allows it to be freed; `Single` and `Wanted`, a proxy has one registration that is
not deleted and has it only while it is connected with updates on;
`Held`, what a worker has in hand is marked so and nobody else has it; `Told`,
what a client was told of comes before the change its registration waits at.
Only model-checked: `Informed`, which is liveness.

### 2.9 Who gets an event: `Subscriptions`

A filter works out under its lock what a change of its constraints adds to and
takes from the types it asks for, copies its callbacks, unlocks, and tells them
one by one; each updates the type map under the lock of the channel.  An event
is dispatched by what the map says.

* *State.*  `constraints`, `all`, `dom`, `callbacks`, `ids` are members of `Filter_i`;
  `filters` and `rqstypes` say what the admin and the proxy (the *holders*) have;
  `tmap` is the map, as the number of nodes per holder, filter or none, and type.
  `channel` and `lock` are the locks that are kept from one step to another; `call`
  says what each client's call still has to do.
* *Definitions.*  `AddType`, `DropType`, `Uncover`, `RemoveConstraint` are the tables
  of a filter, with their lists of types as bags, since a type may occur twice;
  `OneByOne` is the loop over a list of types or of constraints; `Uncounted`,
  `WithoutDominant` and `Uncovered` are the steps those operators consist of;
  `Cleaned` is `notify_subscribers_i()`, `Update` is `RDI_TypeMap::update()`, which
  deletes no more nodes than there are (`Less`); `RdiMatch`, `Nodes`, `Hits`,
  `MatchEvent`, `Copies` are the dispatch of one event, both for admins that AND and
  for those that OR.
* *Actions.*  `AddConstraints`, `ModifyConstraints`, `RemoveAllConstraints`, then
  `Propagate` for each callback; `AddFilter` or `RemoveFilter` takes the channel,
  `Attach` or `Detach` the holder, `FinishFilter` tells the types and unlocks;
  `SubscriptionChange` and `Subscribe`.

| Run | Question | Bounds |
|---|---|---|
| `subscriptions` | While calls change one constraint, does every event both holders ask for reach the proxy, and, while they ask by filters, none that is not? | one filter, two callers, two domains, one name, the wildcards over them, constraints of one type or of two; 3 constraints, one per call, 5 calls |

Expressions of constraints are taken to hold: `Constraints` is about them.
`ReachesOneByOne` is asked when no added type is on its way to the map (types
that were given up may be), and not while the map is being written.  The deadlock check is off, because calls are bounded and
because the lock of the admin and that of the channel are really taken in both
orders (section 3).

*Why one by one.*  That an event both ask for reaches the proxy is not true of this
code in general.  `ReachesOneByOne` names what it is claimed for, `OneByOneCalls`: a
call changes one constraint (`MaxListed` is 1), and in its list only the last type
is a wildcard and may replace others.  With calls that change two constraints at once
it does not hold.  `modify_constraints()` deletes constraint 2, which
named `D::*`, and so brings `D::T` of constraint 1 to the fore; it then modifies
constraint 1, of which `D::T` is deleted and added again.  `D::T` is now in both
lists of `notify_subscribers_i()`, which drops it from both: the holders are not
told of it, and no event of type `D::T` reaches them, though the filter names it.
One constraint with two types does the same with another change still on its way.
`deltypes` (`Filter_i.cc:980`) collects what a new type replaces and is not emptied
between the types of one constraint, so that a constraint on `*::T` and `E::*`, put
beside one on `D::T`, counts `D::T` twice among the deletions.  When the deletion of
an earlier constraint is told late, after `D::T` was added anew, a deletion
takes a node that stands for a type the filter names.  TLC shows it with
`Domains = {D, E}`, the lists `<<D::T>>` and `<<*::T, E::*>>`, 4 IDs and 6 calls
(and the condition on lists taken out of `OneByOneCalls`); with `<<*::T>>` and
`<<E::T, D::*>>` instead it finds nothing with the same bounds.

*Proved* (`SubscriptionsProofs`), for any callers, domains, names, lists of types and
requests, and for any `MaxListed`:

* `Invariance`, by the inductive invariant `Inv`, which is `TypeOK` and three more
  parts.  `TablesSound` is about the tables: IDs are different from each other (so that
  `Position` finds the constraint meant and the last one may fill its gap), a type
  is counted as often as constraints name it, every named type is dominated by one
  in `dom`, and `dom` holds only types that are named.  `IdsUsed` bounds the IDs by the
  counter.  `Subscribed` says that a type a holder subscribed to has one node without
  a filter, and no other type has.
* A change is a fold of `AddType`, `DropType` and `Uncover` over lists.  `Stepped`
  says of a function that it is such a fold up to some element, and the lemma `Upwards`
  is induction on the length, by the least number for which a claim fails; each fold then has a lemma that its operator
  keeps what the tables promise.  While the lost types of a deletion are
  being uncovered the tables are not sound: what is then kept is that every named type
  is dominated by one in `dom` or by one that is still to be uncovered.
* From it: `TablesAreExact`, `OnlyAskedEvents`, and `SubscribersServed`: while nobody
  uses a filter, an event both holders accept by subscription is queued
  at the proxy.

Only model-checked: `ReachesOneByOne`.

### 2.10 Constraints: `Constraints`

The code generator turns a parsed constraint into code for a stack machine.  It
keeps a stack of static types by which it decides where a run-time conversion is
needed, and the machine trusts it: the two have to agree after every op, on every
path.

* *State.*  `tree` is the parsed constraint and `field` what an event holds under
  the name it looks up (or `Missing`); both never change.  `code` is what
  `Compile` makes of `tree`.  `pc`, `stack`, `r_code`, `r_bool`, `running` are the
  machine's.
* *Definitions.*  `Gen` has a case per node constructor of `RDIConstraint.cc`;
  `Emit` is `RDI_OpSeq::addop()` with its check of the static stack; `Finalize`
  resolves jumps.  There is one action per group of ops of `RDIRVM.cc`.
  `Meaning` is the reference: the value of a tree, or the error a reader meets
  first from left to right.  It is told without the machine: arithmetic is exact
  and then taken modulo the width of the result (`MeaningOfArith`), a quotient is
  what leaves a small enough rest (`Divides`), a component is a table of what
  each kind of value has (`Askable`, `PartsOf`), and membership compares with every element
  (`Alike`, `Equal`).  What it shares with the machine is what a kind of number holds, the
  kinds of literals, and the order and search of strings, which are the C library's.
  Where the code has a rule of its own it is stated as such: `Wraps` (an unsigned number
  next to a signed one), `Operand` (long longs of a component).
* *`ResultRight`* leaves one error open.  For the length of what is no sequence
  `RDIConstraint.cc:72` says TYPE_MISMATCH and the machine gives NONE_SUCH
  (`RDIRVM.cc:1845`, 1877): the property takes either, and the reference calls it
  `NO_LENGTH`.  It says nothing of constraints the generator rejects.
* *Numbers* have `Width`, twice and four times `Width` bits.  With 2 the kinds
  differ as they do with 16, 32 and 64, and every overflow is near.
* *Run `constraints`.*  Every operator on every pair of operands, and arithmetic,
  comparison and logic nested one level deeper, on events whose field is missing,
  of every scalar kind, a string, an enumeration, a struct, a sequence or a union.

*Left out:* the generated scanner and parser, floating point (also that an `in`
compares by doubles, which do not tell all 64-bit numbers apart), arrays, which the
machine treats as sequences, type names, lists of name and value, and the pool of machines.  The operators of this module are
recursive over trees, which keeps it out of reach of the prover.


## 3. Observations

Places where the code does not do what one of its comments says, or what one
would expect, met while modelling.  They are stated with the line; the models behave
as the code does, and the runs ask what does hold.

*Event queue.*
* The first call of a thread returns the tail of the list
  (`RDIEventQueue.cc:252`); the references to the events before it, which
  `insert()` counted for it, are never given up, and as the collector only looks at the
  head nothing is freed any more.  `EventuallyCollected` holds for events
  announced after all threads have started.
* The mutex of an event is a member of it (`RDIEvent.h:472`): the thread that
  drops the last reference unlocks it after the collector may have deleted it.
* `gc1()` unlinks and deletes the head under a lock the collector does not take
  (`RDIEventQueue.cc:325`), and leaves `_length` alone (327), so that the length
  only ever errs upwards.
* `set_finished(1)` waits until the collector is idle (`_gcdone`, 171), not until
  it has ended, and nobody joins it before the queue is deleted.

*Notification queue.*
* `_remove()` moves the entry that fills a gap only down
  (`RDINotifQueue.cc:160`).  With PriorityOrder and FifoOrder as discard policy a
  full queue discards from the middle, and later delivers a lower priority first.
* A priority of -1 becomes an unsigned key (418) and comes before all others.
* Five of six kinds of proxies do not tell their queue the QoS they are created
  with (`ProxySupplier.cc:890`).
* LifoOrder is accepted as discard policy (`src/channel.cfg:387-388`),
  `_sort_val()` has no case for it, and it discards by lowest priority.  No property
  says what it should discard, so the runs do not show this.
* One proxy that is disposed of in the middle of a change of QoS throws, and the
  proxies after it are not told (`ChannelAdmin_i.cc:1153`).

*Admin groups.*  The comment of `RDI_SafeList` (`RDISafeList.h:62-64`) says that a
loop over all elements leaves the iterator where it was; at the beginning of a
round it is left before the null instead.  The one loop of that kind has no caller.

*Hand-over to proxy threads.*
* `destroy()` broadcasts `_proxy_empty` without `_proxy_lock`
  (`EventChannel_i.cc:660`).  A thread that has found no event and `_shutmedown`
  not set, and has not begun to wait, misses it, sleeps for ever, and `destroy()`
  joins it (step `Sleep` after `Broadcast`): with proxy threads `JoinThreads`
  need not come.
* `proxy_dispatch()` calls `dispatch_event()` without the lock of the type map
  (1274), which `ChannelAdmin_i.cc:1364` says its callers hold.
* What is queued refers to its admin by a plain pointer (1213), which is not counted
  and may outlive the admin; pairs still queued when the channel ends keep their
  reference to the event.

*Object locks.*  `free_entry()` calls `_prepend()` without the lock of the list
(`RDIOplocks.cc:462`).  Two frees at a time may lose an entry from the forward
chain, and with an allocation between their stores the list may be left with an
entry that leads to itself: run `oplocks_walk`, 2.5.  `RDIOplocks.cc:418-419` and the
loop at 355 take it that the walk comes back to the head.  The comment at `RDIOplocks.h:48-60` says
that the disposal happens when the count falls to zero; `debump()` triggers
nothing, only a later `alloc_entry()` does.

*Offers.*
* `_revoke_offers()` (`ProxyConsumer.cc:513`) is called when a pull fails and
  again at the disconnect, so that a type another proxy offers is told gone.  The
  destruction of an admin revokes its types without clearing `_evtypes`, and
  `propagate_ochange()` (`ChannelAdmin_i.cc:2254`) asks for no `_disposed`, so that its
  proxies may revoke them again.  `twice` holds these types; they are excepted.
* A call of `offer_change()` that a disconnect overtakes, or the destruction of an
  admin, leaves its offer counted for ever (`late`, excepted from the exact count).
* `remove_proxy()` of the change pool does not wait for the call in progress; a
  change on its way while `obtain_offered_types(ALL_NOW_UPDATES_ON)` runs arrives
  after the snapshot (`ProxySupplier.cc:753`).

*Pushing.*
* `signal_push_threads()` signals without the lock of the pool
  (`RDIChannelUtil.h:245`): a worker between its last look and its wait misses it,
  and the event waits for the next wake-up.
* The untyped proxy throws INV_OBJREF into a pool thread that catches nothing
  (`ProxySupplier.cc:1801`); the model follows the structured one (2697).
* A consumer that disconnects from inside its push waits for itself (2053).
* Lowering the batch size by `set_qos()` does not wake the push thread (354-385).
  Without pacing a sequence proxy waits for a full batch for as long as it takes.

*Filters and dispatch.*
* `notify_subscribers_i()` drops a type that is in both lists (`Filter_i.cc:732`), and
  the filter's holders do not hear of a type it names: see 2.9.  The property is
  restricted to calls that change one constraint (`OneByOneCalls`).
* Nodes may stay in the map: a change told after the filter was removed (767), a
  type told twice because `D::*` and `*::T` bring forward what is dominated
  anyway.  A node without its filter's constraint lets nothing through while
  holders ask by filter (`OnlyAsked`); after a later subscription it may.
* `deltypes` is not emptied between the types of one constraint (980): a type may be
  told deleted twice, and a type the filter names be lost (2.9; excepted by
  `OneByOneCalls`, too).
* `dispatch_event()` continues the loop over nodes rather than over proxies, and
  queues an event once per node that matches (`ChannelAdmin_i.cc:1415`).
* A filter without constraints matches everything (`Filter_i.cc:865`), but tells
  no type, so that nothing is delivered on its account.
* A subscription emptied by its client counts as none: everything is delivered.
* `subscription_change()` of a proxy looks for filters before it unlocks itself
  (`ProxySupplier.cc:617`): a filter and a subscription may stand side by side.
  That of an admin keeps its lock while it takes the channel's and the map's
  (`ChannelAdmin_i.cc:282`), against the order stated at line 655: it can deadlock
  with `add_filter()`.
* `rem_filter_i()` looks up by the ID of the filter where the helper's own serial
  is the key (`FilterAdmin_i.cc:355-371`).

*Constraint language.*
* `NewIn` means to reject `x in $.y._length` (`RDIConstraint.cc:198-199`) and does
  not recognise it behind the op that ends a component.
* The comment on the ops (`RDIConstraint.cc:72`) says that the length of what is no
  sequence signals TYPE_MISMATCH; `dot_len` gives NONE_SUCH (`RDIRVM.cc:1845`, 1877).
  `exist`, of which line 80 says the same, signals nothing: it answers no.
  `ResultRight` takes either error for a length.
* `cvt_u2n` does not know the 64-bit kinds: they fail in arithmetic and work in
  comparisons.
* The quotient of the least number and -1 traps; a comparison of an unsigned and
  a signed number of the same width wraps.

## 4. Not modelled

* *Pull proxies* and the pool that pulls (`RDI_PullSupplier`); the untyped CORBA
  event service proxies, which repeat the structured ones.
* *The way of an event into the queue*: filters of a proxy consumer and of its
  admin, batches that fail half-way.
* *QoS and configuration*, tables of properties: no state machine; what the
  other parts need of them are parameters.
* *Destruction of consumer admins and of filters*, and the order of the whole
  `destroy()` of a channel beyond the queue, the pools and the admin threads.
* *Factory, server, interactive mode, daemon, examples, thread and CORBA
  wrappers*: start-up, text and macros.
* *The generated scanner and parser*, copied code of the tools that wrote them.

## 5. Plan

Done: the way of an event through queue, groups, dispatch and push; the lock
entries everything relies on; offers; filters; constraints.  What would come next,
in this order:

1. The pull side, with the pool that pulls.
2. `Channel`: `destroy()` over all of the above.
3. `Constraints` by functions instead of recursive operators, as `NotifQueue` is, to
   prove what is proved step by step about the machine.

What stays with TLC:

* *Liveness*, for which there is no prover here: `EventuallyDelivered`,
  `EventuallyCollected`, `EventuallyDestroyed`, `EveryoneServed`, `Dispatched`,
  `DisposalEnds`, `Informed`, `OwnPushed`, `OwnDisposed`.
* *`Constraints`*: its properties compare what a recursive operator
  computes with a recursive definition of what an expression means; that is induction
  over trees and programs, which the provers do not take.
* *`ReachesOneByOne`* of `Subscriptions`: it needs an invariant on what all calls under
  way have still to tell the map, which is not written.

