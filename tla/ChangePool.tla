------------------------------ MODULE ChangePool ------------------------------
(***************************************************************************)
(* RDI_ChangePool and the proxies it serves: threads that tell the client  *)
(* of every registered proxy, outside of all locks, which event types have *)
(* come and gone.  The pool is a chain of changes; a proxy waits in the    *)
(* entry of the first change it has not been told of, and those that have  *)
(* been told of everything wait in the last entry, which has no change     *)
(* yet.  A thread moves the proxy on to the next entry before it makes the *)
(* call, so that what is next for a proxy is always where the proxy is.    *)
(*                                                                         *)
(* Operations of the pool hold its mutex, those of a proxy its lock, in    *)
(* that order from the proxy to the pool.  The names are those of the      *)
(* offer changes that go to proxy suppliers.                               *)
(***************************************************************************)
EXTENDS Integers, Sequences, FiniteSets

CONSTANTS
  Proxies,
  Workers,        \* the threads of the pool
  GcAt,           \* deleted nodes that make the pool collect them (10)
  MaxChanges,     \* bound: changes inserted
  MaxNodes,       \* bound: registrations
  MaxCalls        \* bound: calls on proxies

ASSUME ChangePoolAssumption ==
  /\ IsFiniteSet(Workers)
  /\ GcAt \in Nat \ {0} /\ MaxChanges \in Nat /\ MaxNodes \in Nat /\ MaxCalls \in Nat

VARIABLES
  head, tail, \* numbers of the entries _c_head and _c_tail: entry k is for change k
  users,      \* entry -> _num_inuse
  node,       \* the proxy of every ProxyEntry_t made so far
  at,         \* node -> the entry it waits in, 0 once it is freed
  used,       \* the nodes with _inuse
  deled,      \* the nodes with _deled
  nproxies, ndeleted, terminate,
  pxstate, off, inuse,          \* of a proxy: _pxstate, _oc_off, the inuse count of its lock
  pc, mine, found, invalid,     \* of a worker: step, node, found_entry, those with a failed call
  last,       \* node -> the last change its client was told of
  calls

nodeVars == <<node, at, used, deled, nproxies, ndeleted>>
poolVars == <<head, tail, users, nodeVars, terminate>>
proxyVars == <<pxstate, off, inuse>>
workerVars == <<pc, mine, found, invalid>>
vars == <<poolVars, proxyVars, workerVars, last, calls>>

Nodes == 1..Len(node)
NodeIds == 1..MaxNodes
Entries == 1..(MaxChanges + 1)
Changes == tail - 1       \* how many have been inserted
Busy == {"picked", "calling", "sending", "done"}

TypeOK ==
  /\ head \in Entries /\ tail \in Entries
  /\ users \in [Entries -> 0..Cardinality(Workers)]
  /\ node \in Seq(Proxies) /\ Len(node) <= MaxNodes
  /\ at \in [NodeIds -> 0..(MaxChanges + 1)]
  /\ used \subseteq Nodes /\ deled \subseteq Nodes
  /\ nproxies \in 0..MaxNodes /\ ndeleted \in 0..MaxNodes
  /\ terminate \in BOOLEAN
  /\ pxstate \in [Proxies -> {"NotConnected", "Connected", "Exception", "Disconnected", "disposed"}]
  /\ off \subseteq Proxies
  /\ inuse \in [Proxies -> 0..Cardinality(Workers)]
  /\ pc \in [Workers -> {"idle", "wait", "exit"} \cup Busy]
  /\ mine \in [Workers -> 0..MaxNodes]
  /\ found \in [Workers -> 0..MaxChanges]
  /\ invalid \subseteq Workers
  /\ last \in [NodeIds -> 0..MaxChanges]
  /\ calls \in 0..MaxCalls

Init ==
  /\ head = 1 /\ tail = 1 /\ users = [k \in Entries |-> 0]
  /\ node = <<>> /\ at = [n \in NodeIds |-> 0] /\ used = {} /\ deled = {}
  /\ nproxies = 0 /\ ndeleted = 0 /\ terminate = FALSE
  /\ pxstate = [p \in Proxies |-> "NotConnected"]
  /\ off = {}
  /\ inuse = [p \in Proxies |-> 0]
  /\ pc = [w \in Workers |-> "idle"]
  /\ mine = [w \in Workers |-> 0]
  /\ found = [w \in Workers |-> 0]
  /\ invalid = {}
  /\ last = [n \in NodeIds |-> 0] /\ calls = 0

----------------------------------------------------------------------------
(* The pool, as a record that its operations turn into another one.         *)

Pool == [head |-> head, users |-> users, node |-> node, at |-> at, used |-> used,
         deled |-> deled, nproxies |-> nproxies, ndeleted |-> ndeleted]
SetPool(s) ==
  /\ head' = s.head /\ users' = s.users /\ node' = s.node /\ at' = s.at
  /\ used' = s.used /\ deled' = s.deled /\ nproxies' = s.nproxies /\ ndeleted' = s.ndeleted

\* insert_proxy(): the proxy waits for the change to come.
InsertProxy(s, p) ==
  IF terminate THEN s
  ELSE [s EXCEPT !.node = Append(@, p),
                 !.at = [@ EXCEPT ![Len(s.node) + 1] = tail],
                 !.nproxies = @ + 1]

\* _gcollect(): deleted nodes nobody uses go, then the entries at the head that
\* neither proxy nor thread needs.
CollectableUsed(s) == s.deled
Collectable(s) == s.deled \ s.used
Unneeded(s, k) == s.users[k] = 0 /\ \A n \in NodeIds : s.at[n] # k
NewHead(s) ==
  CHOOSE k \in s.head..tail :
    (\A j \in s.head..(k - 1) : Unneeded(s, j)) /\ (k = tail \/ ~Unneeded(s, k))
Gcollect(s) ==
  LET gone == {n \in Collectable(s) : s.at[n] # 0}
      kept == [s EXCEPT !.at = [n \in NodeIds |-> IF n \in gone THEN 0 ELSE s.at[n]],
                        !.ndeleted = @ - Cardinality(gone)]
  IN [kept EXCEPT !.head = NewHead(kept)]

\* A node is marked; it goes when enough of them have gathered.
Delete(s, n) ==
  LET d == [s EXCEPT !.deled = @ \cup {n}, !.nproxies = @ - 1, !.ndeleted = @ + 1]
  IN IF d.ndeleted >= GcAt THEN Gcollect(d) ELSE d

\* remove_proxy(): the node of the proxy that is not deleted yet, if there is one.
LiveNodes(s, p) == {n \in DOMAIN s.node : s.node[n] = p /\ n \notin s.deled}
RemoveProxy(s, p) ==
  IF terminate \/ LiveNodes(s, p) = {} THEN s ELSE Delete(s, CHOOSE n \in LiveNodes(s, p) : TRUE)

\* insert_change(): the last entry gets the change, all that wait are woken.
BroadcastSilent == pc' = pc
Broadcast == pc' = [w \in Workers |-> IF pc[w] = "wait" THEN "idle" ELSE pc[w]]
InsertChange ==
  /\ Changes < MaxChanges
  /\ ~terminate /\ nproxies > 0
  /\ tail' = tail + 1
  /\ Broadcast
  /\ UNCHANGED <<head, users, nodeVars, terminate, proxyVars, mine, found, invalid, last, calls>>

----------------------------------------------------------------------------
(* The workers: notify()                                                    *)

\* _next_available(): a node of the oldest change that is neither deleted nor in
\* use.  Which one of several is served first is left open.
AvailableInUse == Nodes \ deled
Available == Nodes \ (deled \cup used)
Pending == {n \in Available : at[n] < tail}

Quit(w) ==
  /\ pc[w] = "idle" /\ terminate
  /\ pc' = [pc EXCEPT ![w] = "exit"]
  /\ UNCHANGED <<poolVars, proxyVars, mine, found, invalid, last, calls>>

Wait(w) ==
  /\ pc[w] = "idle" /\ ~terminate /\ (nproxies = 0 \/ Pending = {})
  /\ pc' = [pc EXCEPT ![w] = "wait"]
  /\ UNCHANGED <<poolVars, proxyVars, mine, found, invalid, last, calls>>

\* The node moves on to the next entry and is in use.
Pick(w) ==
  /\ pc[w] = "idle" /\ ~terminate /\ nproxies > 0
  /\ \E n \in Pending :
       /\ \A m \in Pending : at[n] <= at[m]
       /\ at' = [at EXCEPT ![n] = at[n] + 1]
       /\ users' = [users EXCEPT ![at[n]] = @ + 1]
       /\ used' = used \cup {n}
       /\ mine' = [mine EXCEPT ![w] = n]
       /\ found' = [found EXCEPT ![w] = at[n]]
  /\ pc' = [pc EXCEPT ![w] = "picked"]
  /\ invalid' = invalid \ {w}
  /\ UNCHANGED <<head, tail, node, deled, nproxies, ndeleted, terminate, proxyVars, last, calls>>

\* Without the mutex: has the proxy been removed in the meantime?
Look(w) ==
  /\ pc[w] = "picked"
  /\ pc' = [pc EXCEPT ![w] = IF mine[w] \in deled THEN "done" ELSE "calling"]
  /\ UNCHANGED <<poolVars, proxyVars, mine, found, invalid, last, calls>>

\* send_offer_change(): the proxy decides under its lock, then bumps it and
\* makes the call without.
SendOfferChange(w) ==
  LET p == node[mine[w]]
      send == pxstate[p] = "Connected" /\ p \notin off
  IN
  /\ pc[w] = "calling"
  /\ pc' = [pc EXCEPT ![w] = IF send THEN "sending" ELSE "done"]
  /\ inuse' = [inuse EXCEPT ![p] = IF send THEN @ + 1 ELSE @]
  /\ invalid' = IF send THEN invalid \ {w} ELSE invalid \cup {w}
  /\ UNCHANGED <<poolVars, pxstate, off, mine, found, last, calls>>

\* The client returns, or raises an exception, after which it is not told any
\* more.
Deliver(w) ==
  LET n == mine[w] IN
  /\ pc[w] = "sending"
  /\ last' = [last EXCEPT ![n] = found[w]]
  /\ invalid' \in {invalid \ {w}, invalid \cup {w}}
  /\ inuse' = [inuse EXCEPT ![node[n]] = @ - 1]
  /\ pc' = [pc EXCEPT ![w] = "done"]
  /\ UNCHANGED <<poolVars, pxstate, off, mine, found, calls>>

\* Under the mutex again: the entry and the node are given back, the node is
\* marked after a failure, or else one of those that wait is woken.
Released(w) ==
  [Pool EXCEPT !.users = [users EXCEPT ![found[w]] = @ - 1], !.used = @ \ {mine[w]}]
Finish(w) ==
  /\ pc[w] = "done"
  /\ SetPool(IF w \in invalid /\ mine[w] \notin deled
             THEN Delete(Released(w), mine[w]) ELSE Released(w))
  /\ IF w \in invalid \/ \A v \in Workers : pc[v] # "wait"
     THEN pc' = [pc EXCEPT ![w] = "idle"]
     ELSE \E v \in {v \in Workers : pc[v] = "wait"} :
            pc' = [pc EXCEPT ![w] = "idle", ![v] = "idle"]
  /\ mine' = [mine EXCEPT ![w] = 0]
  /\ found' = [found EXCEPT ![w] = 0]
  /\ invalid' = invalid \ {w}
  /\ UNCHANGED <<tail, terminate, proxyVars, last, calls>>

----------------------------------------------------------------------------
(* The proxies                                                              *)

\* A call on a proxy leaves the pool as s; new nodes start where the chain ends.
Registered(s) ==
  /\ calls < MaxCalls /\ calls' = calls + 1
  /\ SetPool(s)
  /\ Len(s.node) <= MaxNodes
  /\ last' = [n \in NodeIds |-> IF n \in Len(node) + 1 .. Len(s.node) THEN Changes ELSE last[n]]

Connect(p) ==
  /\ pxstate[p] = "NotConnected"
  /\ pxstate' = [pxstate EXCEPT ![p] = "Connected"]
  /\ Registered(IF p \in off THEN Pool ELSE InsertProxy(Pool, p))
  /\ UNCHANGED <<tail, terminate, off, inuse, workerVars>>

\* _enable_updates(), called with the lock of the channel: only what changes
\* from now on shall be sent.
ReenabledTwice(p) == InsertProxy(Pool, p)
Reenabled(p) == InsertProxy(IF p \in off THEN Pool ELSE RemoveProxy(Pool, p), p)
EnableUpdates(p) ==
  /\ pxstate[p] # "disposed"
  /\ Registered(IF pxstate[p] = "Connected" THEN Reenabled(p) ELSE Pool)
  /\ off' = off \ {p}
  /\ UNCHANGED <<tail, terminate, pxstate, inuse, workerVars>>

DisableUpdates(p) ==
  /\ pxstate[p] # "disposed" /\ p \notin off
  /\ Registered(IF pxstate[p] = "Connected" THEN RemoveProxy(Pool, p) ELSE Pool)
  /\ off' = off \cup {p}
  /\ UNCHANGED <<tail, terminate, pxstate, inuse, workerVars>>

\* A failed push, and a disconnect, take the proxy from the pool.
Unregister(p) == Registered(IF p \in off THEN Pool ELSE RemoveProxy(Pool, p))
Fail(p) ==
  /\ pxstate[p] = "Connected"
  /\ pxstate' = [pxstate EXCEPT ![p] = "Exception"]
  /\ Unregister(p)
  /\ UNCHANGED <<tail, terminate, off, inuse, workerVars>>

Disconnect(p) ==
  /\ pxstate[p] \in {"NotConnected", "Connected", "Exception"}
  /\ pxstate' = [pxstate EXCEPT ![p] = "Disconnected"]
  /\ IF pxstate[p] = "Connected" THEN Unregister(p) ELSE Registered(Pool)
  /\ UNCHANGED <<tail, terminate, off, inuse, workerVars>>

\* The wait for the calls that are under way, and the disposal.
DisposeAtOnce(p) ==
  /\ pxstate[p] = "Disconnected"
  /\ pxstate' = [pxstate EXCEPT ![p] = "disposed"]
  /\ UNCHANGED <<poolVars, off, inuse, workerVars, last, calls>>
Dispose(p) ==
  /\ pxstate[p] = "Disconnected" /\ inuse[p] = 0
  /\ pxstate' = [pxstate EXCEPT ![p] = "disposed"]
  /\ UNCHANGED <<poolVars, off, inuse, workerVars, last, calls>>

\* destroy(), before it joins the workers.
Destroy ==
  /\ ~terminate
  /\ terminate' = TRUE
  /\ Broadcast
  /\ UNCHANGED <<head, tail, users, nodeVars, proxyVars, mine, found, invalid, last, calls>>

Worker(w) == Quit(w) \/ Wait(w) \/ Pick(w) \/ Look(w) \/ SendOfferChange(w) \/ Deliver(w) \/ Finish(w)
Proxy(p) ==
  Connect(p) \/ EnableUpdates(p) \/ DisableUpdates(p) \/ Fail(p) \/ Disconnect(p) \/ Dispose(p)
Next == InsertChange \/ Destroy \/ (\E w \in Workers : Worker(w)) \/ (\E p \in Proxies : Proxy(p))

\* The threads of the pool are scheduled and the clients answer; nothing makes
\* changes, connections or the end of the channel happen.
Spec == Init /\ [][Next]_vars
FairSpec == Spec /\ \A w \in Workers : WF_vars(Worker(w))

----------------------------------------------------------------------------
(* Properties                                                               *)

\* However connections, switches, failed calls and disconnects of a proxy meet
\* the workers, a proxy never has two registrations (its client would be told
\* twice), and the counters are those of the nodes.
OneRegistration ==
  /\ \A m, n \in Nodes \ deled : node[m] = node[n] => m = n
  /\ \A n \in Nodes \ deled :
       at[n] # 0 /\ (terminate \/ (pxstate[node[n]] = "Connected" /\ node[n] \notin off))
  /\ nproxies = Cardinality(Nodes \ deled)
  /\ ndeleted = Cardinality({n \in deled : at[n] # 0})

\* What a worker uses without the mutex stays: neither its node nor the entry
\* with the change it sends is freed, and no other worker has the same node.
InUseKept ==
  /\ \A w \in Workers : pc[w] \in Busy =>
       /\ found[w] >= head /\ users[found[w]] > 0
       /\ mine[w] \in used /\ at[mine[w]] # 0
  /\ \A v, w \in Workers : pc[v] \in Busy /\ pc[w] \in Busy /\ mine[v] = mine[w] => v = w

\* A proxy is not disposed of while its client is being called.
NoCallAfterDisposal ==
  \A w \in Workers : pc[w] = "sending" => pxstate[node[mine[w]]] # "disposed"

\* Several workers serve a proxy, and never two changes out of order, one
\* twice, or one not at all: a registration gets what follows it.
InOrder == [][\A n \in Nodes : last'[n] # last[n] => last'[n] = last[n] + 1]_vars

\* Every change reaches every client that is registered when it is made and
\* stays so: no wake-up is lost.
Informed ==
  \A k \in 1..MaxChanges :
    Changes >= k ~> (terminate \/ \A n \in Nodes : last[n] >= k \/ n \in deled)
================================================================================
