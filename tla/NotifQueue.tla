------------------------------- MODULE NotifQueue ------------------------------
(***************************************************************************)
(* RDINotifQueue: the events a proxy supplier holds for its consumer, with *)
(* the way RDIProxySupplier fills it (_add_event), empties it and passes   *)
(* QoS changes on to it.  Events leave by the order policy when they are   *)
(* delivered and by the discard policy when the queue is full.             *)
(*                                                                         *)
(* All of it runs under the lock of the proxy.  What does not is a change  *)
(* of the QoS of the admin or channel a proxy inherits from: it is in      *)
(* force at once for MaxEventsPerConsumer, which is looked up every time,  *)
(* and for the policies when the proxy is told.                            *)
(***************************************************************************)
EXTENDS PriorityQueue, FiniteSets

CONSTANTS Workloads,  \* bound: what may come: records of the number of events that are
                      \* added, the attributes they may carry, what qos may be set, and
                      \* whether the proxy has told its queue its qos when it was created
          ULongLongs  \* number of values of CORBA::ULongLong

\* A header of an event is the set of its values: empty when it is not there.
HeaderOr(header, default) == IF header = {} THEN default ELSE CHOOSE v \in header : TRUE

ULongLong == 0..(ULongLongs - 1)
\* A CORBA::Short has a sign, and fits a CORBA::ULongLong if it is not negative.
Short == (-ULongLongs)..(ULongLongs - 1)

ASSUME AttributesAssumption ==
  \A w \in Workloads : \A a \in w.attributes :
    /\ a.stamp \in ULongLong
    /\ a.timeout \subseteq ULongLong /\ Cardinality(a.timeout) <= 1
    /\ a.priority \subseteq Short /\ Cardinality(a.priority) <= 1
ASSUME QoSAssumption ==
  \A w \in Workloads : \A s \in w.qos :
    /\ s.order \in {"Any", "Fifo", "Priority", "Deadline"}
    /\ s.discard \in {"Any", "Fifo", "Priority", "Deadline", "Lifo"}
    /\ s.timeout \in ULongLong /\ s.priority \in Short /\ s.max \in Nat
ASSUME BoundsAssumption ==
  /\ ULongLongs \in Nat \ {0}
  /\ \A w \in Workloads : w.events \in Nat /\ w.told \subseteq BOOLEAN

VARIABLES work,        \* the workload of this run
          qos,         \* the QoS in force for the proxy
          policy,      \* the queue's copy: _order_policy, _discard_policy, _def_timeout, _def_priority
          changing,    \* a change of the QoS is on its way to the queue
          heap,        \* the array of _queue
          attr         \* the events added so far, and what they carry

vars == <<work, qos, policy, changing, heap, attr>>

Policies == [order : {"Fifo", "Priority", "Deadline"},
             discard : {"Fifo", "Priority", "Deadline", "Lifo"},
             timeout : {s.timeout : s \in work.qos} \cup {0},
             priority : {s.priority : s \in work.qos} \cup {0}]

TypeOK ==
  /\ work \in Workloads /\ qos \in work.qos /\ policy \in Policies /\ changing \in BOOLEAN
  /\ heap \in Seq([event : DOMAIN attr, pri : ULongLong, sec : ULongLong])
  /\ attr \in Seq(work.attributes) /\ Len(attr) <= work.events

\* qos_changed() takes AnyOrder for FifoOrder.
Known(p) == IF p = "Any" THEN "Fifo" ELSE p
Copied(s) == [order |-> Known(s.order), discard |-> Known(s.discard),
              timeout |-> s.timeout, priority |-> s.priority]

\* RDINotifQueue(), before any qos_changed().
AtBirth == [order |-> "Fifo", discard |-> "Fifo", timeout |-> 0, priority |-> 0]

Init ==
  /\ work \in Workloads /\ qos \in work.qos
  /\ \E told \in work.told : policy = IF told THEN Copied(qos) ELSE AtBirth
  /\ changing = FALSE
  /\ heap = <<>> /\ attr = <<>>

--------------------------------------------------------------------------------
(* Keys *)

LowestFirst(order) == order # "Priority"

\* A key is a CORBA::ULongLong, whatever the sign or size of what it is computed from.
Unsigned(n) == n % ULongLongs

\* _sort_val()
SortValue(p, order, a) ==
  CASE order = "Fifo" -> a.stamp
    [] order = "Deadline" -> Unsigned(a.stamp + HeaderOr(a.timeout, p.timeout))
    [] OTHER -> Unsigned(HeaderOr(a.priority, p.priority))

Entry(p, e, a) ==
  [event |-> e, pri |-> SortValue(p, p.order, a), sec |-> SortValue(p, p.discard, a)]

--------------------------------------------------------------------------------
(* Operations *)

Insert(q, e, a) == Inserted(q, LowestFirst(policy.order), Entry(policy, e, a))

RemovePriHead(q) == Removed(q, LowestFirst(policy.order), 1)

\* With equal policies the primary head is taken: it is quicker.
RemoveSecHeadPrimary(q) == RemovePriHead(q)
RemoveSecHead(q) ==
  IF policy.order = policy.discard
    THEN RemovePriHead(q)
    ELSE Removed(q, LowestFirst(policy.order), SecHead(q, LowestFirst(policy.discard)))

\* _add_event() discards until there is room under the limit in force.
DiscardedOnce(q) == IF qos.max # 0 /\ Len(q) >= qos.max THEN RemoveSecHead(q) ELSE q
Discarded(q) ==
  LET rest[n \in 0..Len(q)] == IF n = 0 THEN q ELSE RemoveSecHead(rest[n - 1])
  IN IF qos.max = 0 \/ Len(q) < qos.max THEN q ELSE rest[Len(q) - qos.max + 1]

AddEvent ==
  \E a \in work.attributes :
    /\ Len(attr) < work.events
    /\ attr' = Append(attr, a)
    /\ heap' = Insert(Discarded(heap), Len(attr) + 1, a)
    /\ UNCHANGED <<work, qos, policy, changing>>

\* A pull, or a push worker, takes the next event to deliver.
TakeEvent ==
  /\ heap # <<>>
  /\ heap' = RemovePriHead(heap)
  /\ UNCHANGED <<work, qos, policy, changing, attr>>

\* The consumer has gone: _clear_ntfqueue().
ClearQueue ==
  /\ heap # <<>>
  /\ heap' = <<>>
  /\ UNCHANGED <<work, qos, policy, changing, attr>>

\* The proxy, its admin or its channel is given another QoS ...
SetQoS ==
  /\ \E s \in work.qos \ {qos} : qos' = s
  /\ changing' = TRUE
  /\ UNCHANGED <<work, policy, heap, attr>>

\* ... and the queue is told: it rebuilds itself, entry by entry in the order
\* of the array, unless nothing it has a copy of has changed.
Rebuilt(p) ==
  LET built[n \in 0..Len(heap)] ==
        IF n = 0 THEN <<>>
        ELSE Inserted(built[n - 1], LowestFirst(p.order), Entry(p, heap[n].event, attr[heap[n].event]))
  IN built[Len(heap)]

QosChangedOrderOnly ==
  /\ changing /\ changing' = FALSE
  /\ policy' = Copied(qos)
  /\ heap' = IF policy'.order = policy.order THEN heap ELSE Rebuilt(policy')
  /\ UNCHANGED <<work, qos, attr>>
QosChanged ==
  /\ changing /\ changing' = FALSE
  /\ policy' = Copied(qos)
  /\ heap' = IF policy' = policy THEN heap ELSE Rebuilt(policy')
  /\ UNCHANGED <<work, qos, attr>>

Next == AddEvent \/ TakeEvent \/ ClearQueue \/ SetQoS \/ QosChanged

Spec == Init /\ [][Next]_vars

--------------------------------------------------------------------------------
(* Properties *)

Queued == {heap[i].event : i \in DOMAIN heap}

\* What a step takes out, and whether it puts something in.
Gone == Queued \ Queued'
Adding == attr' # attr

\* While both policies agree the array is a heap: discarding then takes the
\* root, and a change of policy rebuilds what other discards left behind.
OrderedWhenPoliciesAgree ==
  policy.order = policy.discard => HeapOrdered(heap, LowestFirst(policy.order))

\* What the policies are about, by what the events carry: when an event was stamped,
\* when it is due, and how urgent it is, by the defaults the queue was told last.
Due(e) == attr[e].stamp + HeaderOr(attr[e].timeout, policy.timeout)
Priority(e) == HeaderOr(attr[e].priority, policy.priority)

\* Event d goes before event e under a policy: the one stamped first, the one due
\* first, the one of the higher priority.  Nothing is said of what the code does not
\* order so: a priority below 0, and what is due beyond the width of the clock.
\* LifoOrder, which a discard policy may be, has no case: the code knows no such order.
GoesBefore(order, d, e) ==
  \/ order = "Fifo" /\ attr[d].stamp < attr[e].stamp
  \/ order = "Deadline" /\ Due(d) < Due(e) /\ Due(e) \in ULongLong
  \/ order = "Priority" /\ Priority(d) > Priority(e) /\ Priority(e) \in ULongLong

\* While both policies agree, the event delivered is one no other goes before.
DeliversFirst ==
  [][~Adding /\ policy.order = policy.discard =>
       \A e \in Gone, d \in Queued' : ~GoesBefore(policy.order, d, e)]_vars

\* Under a discard policy of Fifo, Priority or Deadline, as the queue was told it last,
\* a full queue discards events no other goes before, whatever the order policy.
\* Whatever the policy, LifoOrder too, it discards no more than the limit asks for,
\* and the event that is being added always gets in.
DiscardsFirst ==
  [][Adding =>
       /\ \A e \in Gone, d \in Queued' \cap Queued : ~GoesBefore(policy.discard, d, e)
       /\ Gone # {} => Cardinality(Queued') = qos.max
       /\ Len(attr') \in Queued']_vars

\* A queue that is added to is within the limit in force, lowered or not.
WithinLimit == [][Adding => qos.max = 0 \/ Len(heap') <= qos.max]_vars

================================================================================
