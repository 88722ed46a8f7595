----------------------------- MODULE ProxyDispatch -----------------------------
(***************************************************************************)
(* The hand-over of events from the threads that evaluate the filters of   *)
(* consumer admins to those that evaluate the filters of their proxies     *)
(* (numProxyThreads is not 0): the queue _proxy_events, and the end of     *)
(* EventChannel_i::admin_dispatch() and proxy_dispatch() around it.        *)
(*                                                                         *)
(* A proxy thread keeps _proxy_lock until it has the lock of the admin.    *)
(* The order in which an admin thread comes to the events is the subject   *)
(* of AdminGroups; here events are numbers, and a thread matches any that  *)
(* come after the last one it has handed over for an admin.                *)
(***************************************************************************)
EXTENDS Naturals, Sequences

CONSTANTS
  ConsumerAdmins,
  AdminThreads,
  ServerOf,      \* admin -> the admin thread that serves its group
  ProxyThreads,
  LastEvent,     \* bound: events of the channel
  None

ASSUME DispatchAssumption ==
  /\ ServerOf \in [ConsumerAdmins -> AdminThreads]
  /\ None \notin ConsumerAdmins \cup ProxyThreads
  /\ LastEvent \in Nat

VARIABLES
  ath,          \* admin thread -> what it has matched and is to hand over
  exited,       \* the admin threads that have exited
  proxyEvents,  \* _proxy_events
  proxyLock,    \* the holder of _proxy_lock
  adminLock,    \* admin -> the proxy thread that holds its lock
  alive,        \* the admins that have not been destroyed
  pth,          \* proxy thread -> where it is, and its pxdis
  stage,        \* of destroy(); from "shut" on _shutmedown is set
  last,         \* history: admin -> the last event handed over for it
  given         \* history: admin -> the last event dispatched to its proxies

dispatchVars == <<ath, exited, proxyEvents, proxyLock, adminLock, alive, pth, stage, last, given>>

Dispatches == [admin : ConsumerAdmins, event : 1..LastEvent]
Nothing == [admin |-> None, event |-> 0]
At(step, pxdis) == [at |-> step, pxdis |-> pxdis]
Steps == {"top", "test", "sleepy", "wait", "lock", "dispatch", "exit"}

DispatchInit ==
  /\ ath = [t \in AdminThreads |-> Nothing] /\ exited = {}
  /\ proxyEvents = <<>> /\ proxyLock = None
  /\ adminLock = [a \in ConsumerAdmins |-> None] /\ alive = ConsumerAdmins
  /\ pth = [d \in ProxyThreads |-> At("top", Nothing)]
  /\ stage = "up"
  /\ last = [a \in ConsumerAdmins |-> 0] /\ given = [a \in ConsumerAdmins |-> 0]

--------------------------------------------------------------------------------
(* Admin threads                                                            *)

\* An event matches at an admin, which is locked for that, and there are proxy
\* threads: on to use_proxy_threads, with the lock of the admin given up.
Match(t, a) ==
  /\ ath[t] = Nothing /\ t \notin exited /\ ServerOf[a] = t
  /\ a \in alive /\ adminLock[a] = None /\ stage = "up"
  /\ \E e \in (last[a] + 1)..LastEvent : ath' = [ath EXCEPT ![t] = [admin |-> a, event |-> e]]
  /\ UNCHANGED <<exited, proxyEvents, proxyLock, adminLock, alive, pth, stage, last, given>>

\* _proxy_empty.broadcast()
Awake == [d \in ProxyThreads |-> IF pth[d].at = "wait" THEN At("top", Nothing) ELSE pth[d]]

\* The test of _shutmedown comes before the lock, so that the event may still
\* be queued when destroy() has begun.
HandOver(t) ==
  /\ ath[t] # Nothing /\ proxyLock = None
  /\ proxyEvents' = Append(proxyEvents, ath[t])
  /\ pth' = Awake
  /\ last' = [last EXCEPT ![ath[t].admin] = ath[t].event]
  /\ ath' = [ath EXCEPT ![t] = Nothing]
  /\ UNCHANGED <<exited, proxyLock, adminLock, alive, stage, given>>

AdminExit(t) ==
  /\ t \notin exited /\ stage # "up"
  /\ exited' = exited \cup {t} /\ ath' = [ath EXCEPT ![t] = Nothing]
  /\ UNCHANGED <<proxyEvents, proxyLock, adminLock, alive, pth, stage, last, given>>

--------------------------------------------------------------------------------
(* Proxy threads                                                            *)

Lock(d) ==
  /\ pth[d].at = "top" /\ proxyLock = None
  /\ proxyLock' = d
  /\ pth' = [pth EXCEPT ![d].at = "test"]
  /\ UNCHANGED <<ath, exited, proxyEvents, adminLock, alive, stage, last, given>>

\* With _proxy_lock: exit, go to sleep, or take the head of the queue.
Exit(d) ==
  /\ pth[d].at = "test" /\ stage # "up"
  /\ pth' = [pth EXCEPT ![d].at = "exit"] /\ proxyLock' = None
  /\ UNCHANGED <<ath, exited, proxyEvents, adminLock, alive, stage, last, given>>

FindEmpty(d) ==
  /\ pth[d].at = "test" /\ stage = "up" /\ proxyEvents = <<>>
  /\ pth' = [pth EXCEPT ![d].at = "sleepy"]
  /\ UNCHANGED <<ath, exited, proxyEvents, proxyLock, adminLock, alive, stage, last, given>>

Sleep(d) ==
  /\ pth[d].at = "sleepy"
  /\ pth' = [pth EXCEPT ![d].at = "wait"] /\ proxyLock' = None
  /\ UNCHANGED <<ath, exited, proxyEvents, adminLock, alive, stage, last, given>>

TakeHeadReleased(d) ==
  /\ pth[d].at = "test" /\ stage = "up" /\ proxyEvents # <<>>
  /\ pth' = [pth EXCEPT ![d] = At("lock", Head(proxyEvents))]
  /\ proxyEvents' = Tail(proxyEvents) /\ proxyLock' = None
  /\ UNCHANGED <<ath, exited, adminLock, alive, stage, last, given>>
TakeHead(d) ==
  /\ pth[d].at = "test" /\ stage = "up" /\ proxyEvents # <<>>
  /\ pth' = [pth EXCEPT ![d] = At("lock", Head(proxyEvents))]
  /\ proxyEvents' = Tail(proxyEvents)
  /\ UNCHANGED <<ath, exited, proxyLock, adminLock, alive, stage, last, given>>

\* The lock of the admin, and only then the release of _proxy_lock.
LockAdmin(d) ==
  LET a == pth[d].pxdis.admin IN
  /\ pth[d].at = "lock" /\ a \in alive /\ adminLock[a] = None
  /\ adminLock' = [adminLock EXCEPT ![a] = d]
  /\ pth' = [pth EXCEPT ![d].at = "dispatch"] /\ proxyLock' = None
  /\ UNCHANGED <<ath, exited, proxyEvents, alive, stage, last, given>>

LoseAdminLocked(d) ==
  /\ pth[d].at = "lock" /\ pth[d].pxdis.admin \notin alive
  /\ pth' = [pth EXCEPT ![d] = At("top", Nothing)]
  /\ UNCHANGED <<ath, exited, proxyEvents, proxyLock, adminLock, alive, stage, last, given>>
\* The admin has been destroyed: no lock, and the event is dropped.  (The queue
\* holds no reference to it: when its lock entry has another owner the admin is
\* deleted, and the step is what a zero _oplockptr in its memory leads to.)
LoseAdmin(d) ==
  /\ pth[d].at = "lock" /\ pth[d].pxdis.admin \notin alive
  /\ pth' = [pth EXCEPT ![d] = At("top", Nothing)] /\ proxyLock' = None
  /\ UNCHANGED <<ath, exited, proxyEvents, adminLock, alive, stage, last, given>>

\* dispatch_event(), with the lock of the admin.
Dispatch(d) ==
  LET p == pth[d].pxdis IN
  /\ pth[d].at = "dispatch"
  /\ given' = [given EXCEPT ![p.admin] = p.event]
  /\ adminLock' = [adminLock EXCEPT ![p.admin] = None]
  /\ pth' = [pth EXCEPT ![d] = At("top", Nothing)]
  /\ UNCHANGED <<ath, exited, proxyEvents, proxyLock, alive, stage, last>>

--------------------------------------------------------------------------------
(* The rest of the channel                                                  *)

DestroyAdmin(a) ==
  /\ a \in alive /\ adminLock[a] = None
  /\ alive' = alive \ {a}
  /\ UNCHANGED <<ath, exited, proxyEvents, proxyLock, adminLock, pth, stage, last, given>>

\* destroy(): the flag, the broadcast, for which it does not take _proxy_lock,
\* and the destructor of the pool, which joins all threads.
BeginShutdown ==
  /\ stage = "up" /\ stage' = "shut"
  /\ UNCHANGED <<ath, exited, proxyEvents, proxyLock, adminLock, alive, pth, last, given>>

Broadcast ==
  /\ stage = "shut" /\ stage' = "told"
  /\ pth' = Awake
  /\ UNCHANGED <<ath, exited, proxyEvents, proxyLock, adminLock, alive, last, given>>

JoinThreads ==
  /\ stage = "told" /\ exited = AdminThreads /\ \A d \in ProxyThreads : pth[d].at = "exit"
  /\ stage' = "joined"
  /\ UNCHANGED <<ath, exited, proxyEvents, proxyLock, adminLock, alive, pth, last, given>>

ProxyStep(d) ==
  \/ Lock(d) \/ Exit(d) \/ FindEmpty(d) \/ Sleep(d) \/ TakeHead(d)
  \/ LockAdmin(d) \/ LoseAdmin(d) \/ Dispatch(d)
AdminStep(t) == HandOver(t) \/ AdminExit(t)

DispatchNext ==
  \/ \E t \in AdminThreads : AdminStep(t) \/ \E a \in ConsumerAdmins : Match(t, a)
  \/ \E d \in ProxyThreads : ProxyStep(d)
  \/ \E a \in ConsumerAdmins : DestroyAdmin(a)
  \/ BeginShutdown \/ Broadcast \/ JoinThreads

DispatchSpec == DispatchInit /\ [][DispatchNext]_dispatchVars
\* Threads run, and so does destroy() once it has begun; events need not come.
FairDispatch ==
  /\ DispatchSpec
  /\ \A t \in AdminThreads : WF_dispatchVars(AdminStep(t))
  /\ \A d \in ProxyThreads : WF_dispatchVars(ProxyStep(d))
  /\ WF_dispatchVars(Broadcast) /\ WF_dispatchVars(JoinThreads)

--------------------------------------------------------------------------------
(* Properties                                                               *)

DispatchTypeOK ==
  /\ ath \in [AdminThreads -> Dispatches \cup {Nothing}] /\ exited \subseteq AdminThreads
  /\ proxyEvents \in Seq(Dispatches) /\ proxyLock \in ProxyThreads \cup {None}
  /\ adminLock \in [ConsumerAdmins -> ProxyThreads \cup {None}] /\ alive \subseteq ConsumerAdmins
  /\ pth \in [ProxyThreads -> [at : Steps, pxdis : Dispatches \cup {Nothing}]]
  /\ stage \in {"up", "shut", "told", "joined"}
  /\ last \in [ConsumerAdmins -> 0..LastEvent] /\ given \in [ConsumerAdmins -> 0..LastEvent]

InHand(d) == pth[d].at \in {"lock", "dispatch"}
Queued(a) == {i \in DOMAIN proxyEvents : proxyEvents[i].admin = a}
Pending(a) ==
  {proxyEvents[i].event : i \in Queued(a)}
    \cup {pth[d].pxdis.event : d \in {x \in ProxyThreads : InHand(x) /\ pth[x].pxdis.admin = a}}

\* Whichever proxy threads take the events of an admin from the queue, and
\* whatever they wait for on the way, its proxies get them once and in order.
Delivered(a) == INSTANCE Delivery WITH
  pending <- Pending(a), matched <- last[a], given <- given[a], open <- a \in alive
ImplementsDelivery ==
  /\ \A a \in ConsumerAdmins : Delivered(a)!Init
  /\ [][\A a \in ConsumerAdmins : Delivered(a)!Next \/ UNCHANGED Delivered(a)!vars]_dispatchVars

\* No event stays in the queue: a proxy thread that found it empty hears of the
\* next one, and nobody holds _proxy_lock for ever while it waits for an admin.
Dispatched ==
  \A a \in ConsumerAdmins, e \in 1..LastEvent :
    e \in Pending(a) ~> (e \notin Pending(a) \/ stage # "up")
================================================================================
