---------------------------- MODULE PushSuppliers ----------------------------
(***************************************************************************)
(* Proxy push suppliers and the threads that push their events.  Either a  *)
(* pool of workers serves the proxies of a channel (pooled), one at a      *)
(* time per proxy, or every proxy has a thread of its own.  A thread takes *)
(* events from the queue of a proxy with the lock of the proxy, gives the  *)
(* lock up for the call to the consumer and takes it again; the proxy is   *)
(* bumped meanwhile, so that a disconnect waits for the call.  A proxy for *)
(* batches of events is ready when it has a full batch or, with a pacing   *)
(* interval, when the interval has passed.                                 *)
(***************************************************************************)
EXTENDS Naturals, FiniteSets, SequencesExt

CONSTANTS
  Proxies,
  Batch,            \* proxy -> maximumBatchSize; 1 for proxies that push single events
  Paced,            \* the proxies with a pacing interval
  Workers,          \* threads of pools
  Channels,         \* the channels considered: their pool, {} for none, and their proxies
  GcAt,             \* deleted entries at which the pool collects (6 in the code)
  MaxLength,        \* maxEventsPerConsumer, 0 for no limit
  LastEvent,        \* bound: proxy -> the last event it is offered
  Suspending,       \* bound: the proxies that clients suspend and resume
  None

ASSUME PushAssumption ==
  /\ IsFiniteSet(Proxies) /\ Batch \in [Proxies -> Nat \ {0}] /\ Paced \subseteq Proxies
  /\ Workers \cap Proxies = {} /\ None \notin Workers \cup Proxies
  /\ Channels \subseteq [pool : SUBSET Workers, proxies : SUBSET Proxies]
  /\ GcAt \in Nat /\ MaxLength \in Nat
  /\ LastEvent \in [Proxies -> Nat] /\ Suspending \subseteq Proxies

VARIABLES
  channel,                 \* one of Channels
  pxstate, queue,          \* of a proxy
  active, passed,          \* the proxies that are active, and those whose _timeout is over
  sent,                    \* proxy -> events of the channel it was offered
  refs,                    \* event -> references that proxies hold
  entries, deled, inuse,   \* of the pool: the proxies in its list, and the marks of entries
  made, born,              \* registrations so far, and which of them that of a proxy was
  last, ndeleted, lock,    \* lock: the worker that holds it while it looks for a proxy,
  turn,                    \* and its turn of the list
  at, mine, batch,         \* thread -> where it is, its proxy and what it pushes (own
                           \* threads have the name of the proxy)
  timed,                   \* the threads whose wait is for a time
  pushed                   \* proxy -> events its consumer was sent

pool == <<entries, deled, inuse, made, born, last, ndeleted, lock, turn>>
threads == <<at, mine, batch, timed>>
vars == <<channel, pxstate, queue, active, passed, sent, refs, pool, threads, pushed>>

pooled == channel.pool # {}   \* push_threads() # 0
Events == UNION {1..LastEvent[p] : p \in Proxies}
Threads == Workers \cup Proxies
\* The proxy a thread is busy with.
Served(t) == IF t \in Proxies THEN t ELSE mine[t]

TypeOK ==
  /\ channel \in Channels
  /\ pxstate \in [Proxies -> {"none", "NotConnected", "Connected", "Exception", "Disconnected",
                              "alone", "disposed"}]
  /\ active \subseteq Proxies /\ passed \subseteq Proxies
  /\ queue \in [Proxies -> Seq(Events)]
  /\ \A p \in Proxies : /\ sent[p] \in 0..LastEvent[p]
                        /\ MaxLength > 0 => Len(queue[p]) <= MaxLength
  /\ sent \in [Proxies -> Nat] /\ refs \in [Events -> Nat]
  /\ entries \subseteq Proxies /\ deled \subseteq Proxies /\ inuse \subseteq Proxies
  /\ made \in Nat /\ born \in [Proxies -> 0..made]
  /\ last \in Proxies \cup {None} /\ ndeleted \in Nat
  /\ lock \in Workers \cup {None} /\ turn \in 0..2
  /\ at \in [Threads -> {"none", "scan", "wait", "took", "call", "push", "done", "invalid", "exit"}]
  /\ mine \in [Workers -> Proxies \cup {None}] /\ batch \in [Threads -> Seq(Events)]
  /\ timed \subseteq Threads /\ pushed \in [Proxies -> Seq(Events)]

Init ==
  /\ channel \in Channels
  /\ pxstate = [p \in Proxies |-> "none"] /\ active = {} /\ passed = {}
  /\ queue = [p \in Proxies |-> <<>>] /\ sent = [p \in Proxies |-> 0]
  /\ refs = [e \in Events |-> 0]
  /\ entries = {} /\ deled = {} /\ inuse = {} /\ made = 0 /\ born = [p \in Proxies |-> 0]
  /\ last = None /\ ndeleted = 0 /\ lock = None /\ turn = 0
  /\ at = [t \in Threads |-> IF t \in channel.pool THEN "scan" ELSE "none"]
  /\ mine = [w \in Workers |-> None] /\ batch = [t \in Threads |-> <<>>] /\ timed = {}
  /\ pushed = [p \in Proxies |-> <<>>]

----------------------------------------------------------------------------
(* Wake-ups.  A signal of the pool is given without the lock of the pool:  *)
(* it finds the workers that wait, and no other.                           *)

SignalNone(p) == UNCHANGED <<at, timed>>
Signal(T) ==
  IF T = {} THEN UNCHANGED <<at, timed>>
  ELSE \E t \in T : at' = [at EXCEPT ![t] = "scan"] /\ timed' = timed \ {t}
Waiting == {t \in Threads : at[t] = "wait"}
\* An event or a resumption: signals the own thread of the proxy or the pool.
SignalPush(p) == Signal(IF pooled THEN Waiting ELSE Waiting \cap {p})

Without(e) == [refs EXCEPT ![e] = @ - 1]
Released(s) == [e \in Events |-> IF e \in ToSet(s) THEN refs[e] - 1 ELSE refs[e]]

----------------------------------------------------------------------------
(* Calls of clients and of the channel                                     *)

\* The admin creates a proxy: its own thread starts, or the pool gets an entry,
\* which becomes the first of its list.
Create(p) ==
  /\ pxstate[p] = "none" /\ p \in channel.proxies
  /\ pxstate' = [pxstate EXCEPT ![p] = "NotConnected"]
  /\ IF pooled
     THEN /\ lock = None
          /\ entries' = entries \cup {p}
          /\ made' = made + 1 /\ born' = [born EXCEPT ![p] = made + 1]
          /\ Signal(Waiting)
     ELSE /\ at' = [at EXCEPT ![p] = "scan"]
          /\ UNCHANGED <<entries, made, born, timed>>
  /\ UNCHANGED <<channel, queue, active, passed, sent, refs, deled, inuse, last, ndeleted, lock, turn,
                 mine, batch, pushed>>

Connect(p) ==
  /\ pxstate[p] = "NotConnected"
  /\ pxstate' = [pxstate EXCEPT ![p] = "Connected"]
  /\ active' = active \cup {p}
  /\ UNCHANGED <<channel, queue, passed, sent, refs, pool, threads, pushed>>

Suspend(p) ==
  /\ p \in Suspending /\ pxstate[p] = "Connected" /\ p \in active
  /\ active' = active \ {p}
  /\ UNCHANGED <<channel, pxstate, queue, passed, sent, refs, pool, threads, pushed>>

Resume(p) ==
  /\ pxstate[p] = "Connected" /\ p \notin active
  /\ active' = active \cup {p}
  /\ SignalPush(p)
  /\ UNCHANGED <<channel, pxstate, queue, passed, sent, refs, pool, mine, batch, pushed>>

\* With a full queue an event is dropped; which one is up to the discard policy.
Admit(p, e) ==
  IF MaxLength > 0 /\ Len(queue[p]) >= MaxLength
  THEN \E i \in DOMAIN queue[p] :
         /\ queue' = [queue EXCEPT ![p] = Append(RemoveAt(@, i), e)]
         /\ refs' = [Without(queue[p][i]) EXCEPT ![e] = @ + 1]
  ELSE /\ queue' = [queue EXCEPT ![p] = Append(@, e)]
       /\ refs' = [refs EXCEPT ![e] = @ + 1]

\* add_event(): the next event of the channel comes to a proxy.
AddEvent(p) ==
  /\ pxstate[p] \notin {"none", "disposed"} /\ sent[p] < LastEvent[p]
  /\ sent' = [sent EXCEPT ![p] = @ + 1]
  /\ IF pxstate[p] = "Connected"
     THEN Admit(p, sent[p] + 1) /\ SignalPush(p)
     ELSE UNCHANGED <<queue, refs, at, timed>>
  /\ UNCHANGED <<channel, pxstate, active, passed, pool, mine, batch, pushed>>

\* The timeout of a proxy passes.
Tick(p) ==
  /\ p \in Paced /\ pxstate[p] # "none" /\ p \notin passed
  /\ passed' = passed \cup {p}
  /\ UNCHANGED <<channel, pxstate, queue, active, sent, refs, pool, threads, pushed>>

DisconnectSilent(p) ==
  /\ pxstate[p] \in {"NotConnected", "Connected", "Exception"}
  /\ pxstate' = [pxstate EXCEPT ![p] = "Disconnected"]
  /\ UNCHANGED <<channel, queue, active, passed, sent, refs, pool, threads, pushed>>
\* Disconnect by the client, the admin or the garbage collector: from here on
\* the proxy takes no events, and its own thread is told.
Disconnect(p) ==
  /\ pxstate[p] \in {"NotConnected", "Connected", "Exception"}
  /\ pxstate' = [pxstate EXCEPT ![p] = "Disconnected"]
  /\ Signal(Waiting \cap {p})
  /\ UNCHANGED <<channel, queue, active, passed, sent, refs, pool, mine, batch, pushed>>

Pushing(p) == {t \in Threads : at[t] = "push" /\ Served(t) = p}
\* Bumped by a push or, all the time, by its own thread.
Bumped(p) == Pushing(p) # {} \/ at[p] \in {"scan", "wait"}

\* The list of the pool, the newest entry first.  A collection keeps the entries
\* that are used; if it frees the last one served, the one before it in the list
\* takes its place.
Newest(S) == CHOOSE p \in S : \A q \in S : born[q] <= born[p]
Oldest(S) == CHOOSE p \in S : \A q \in S : born[p] <= born[q]
KeptUsed(dead) == entries \ dead
Kept(dead) == entries \ (dead \ inuse)
LastKept(dead) ==
  LET before == {p \in Kept(dead) : born[last] <= born[p]}
  IN  IF last = None THEN None ELSE IF before = {} THEN None ELSE Oldest(before)
RemoveFromPool(p) ==
  LET dead == deled \cup {p}
  IN
  /\ deled' = dead
  /\ IF ndeleted + 1 >= GcAt
     THEN /\ entries' = Kept(dead) /\ last' = LastKept(dead)
          /\ ndeleted' = Cardinality(Kept(dead) \cap dead)
     ELSE ndeleted' = ndeleted + 1 /\ UNCHANGED <<entries, last>>

AloneAtOnce(p) ==
  /\ pxstate[p] = "Disconnected"
  /\ pxstate' = [pxstate EXCEPT ![p] = "alone"]
  /\ IF p \in entries THEN lock = None /\ RemoveFromPool(p)
     ELSE UNCHANGED <<entries, deled, last, ndeleted>>
  /\ UNCHANGED <<channel, queue, active, passed, sent, refs, inuse, made, born, lock, turn, threads,
                 pushed>>
\* With no push left the entry of the proxy is taken out of the pool.
Alone(p) ==
  /\ pxstate[p] = "Disconnected" /\ ~Bumped(p)
  /\ pxstate' = [pxstate EXCEPT ![p] = "alone"]
  /\ IF p \in entries THEN lock = None /\ RemoveFromPool(p)
     ELSE UNCHANGED <<entries, deled, last, ndeleted>>
  /\ UNCHANGED <<channel, queue, active, passed, sent, refs, inuse, made, born, lock, turn, threads,
                 pushed>>

Dispose(p) ==
  /\ pxstate[p] = "alone"
  /\ pxstate' = [pxstate EXCEPT ![p] = "disposed"]
  /\ active' = active \ {p}
  /\ queue' = [queue EXCEPT ![p] = <<>>] /\ refs' = Released(queue[p])
  /\ UNCHANGED <<channel, passed, sent, pool, threads, pushed>>

----------------------------------------------------------------------------
(* Threads                                                                  *)

Full(p) == Len(queue[p]) >= Batch[p]
Due(p) == queue[p] # <<>> /\ (Full(p) \/ (p \in Paced /\ p \in passed))
\* has_events(), and the conditions under which a thread takes events.
Ready(p) == pxstate[p] = "Connected" /\ p \in active /\ Due(p)
\* The proxy has events that wait for its timeout.
Pacing(p) == pxstate[p] = "Connected" /\ p \in active /\ queue[p] # <<>> /\ ~Full(p) /\ p \in Paced

AvailableUsed(p) == p \notin deled /\ Ready(p)
Available(p) == p \notin inuse /\ p \notin deled /\ Ready(p)

\* A worker takes the lock of the pool to look for a proxy; with no entries it waits.
Enter(w) ==
  /\ at[w] = "scan" /\ lock = None
  /\ IF entries = {}
     THEN at' = [at EXCEPT ![w] = "wait"] /\ UNCHANGED <<lock, turn>>
     ELSE lock' = w /\ turn' = 1 /\ UNCHANGED at
  /\ UNCHANGED <<channel, pxstate, queue, active, passed, sent, refs, entries, deled, inuse, made, born,
                 last, ndeleted, mine, batch, timed, pushed>>

\* The next entry in turn; after the second turn the worker waits, until the
\* earliest of the timeouts it has seen.
AtEnd == last = None \/ \A p \in entries : born[last] <= born[p]
Following == Newest(IF AtEnd THEN entries ELSE {p \in entries : born[p] < born[last]})
Look(w) ==
  LET p == Following
      next == IF AtEnd THEN turn + 1 ELSE turn
  IN
  /\ lock = w /\ last' = p
  /\ \/ /\ Available(p)
        /\ at' = [at EXCEPT ![w] = "took"] /\ mine' = [mine EXCEPT ![w] = p]
        /\ inuse' = inuse \cup {p} /\ lock' = None /\ turn' = 0 /\ timed' = timed \ {w}
     \/ /\ ~Available(p)
        /\ timed' = IF p \notin inuse \cup deled /\ Pacing(p) THEN timed \cup {w} ELSE timed
        /\ IF next < 3
           THEN turn' = next /\ UNCHANGED <<at, lock>>
           ELSE at' = [at EXCEPT ![w] = "wait"] /\ lock' = None /\ turn' = 0
        /\ UNCHANGED <<mine, inuse>>
  /\ UNCHANGED <<channel, pxstate, queue, active, passed, sent, refs, entries, deled, made, born,
                 ndeleted, batch, pushed>>

\* A timed wait ends.
TimedWake(t) ==
  /\ at[t] = "wait" /\ t \in timed
  /\ at' = [at EXCEPT ![t] = "scan"] /\ timed' = timed \ {t}
  /\ UNCHANGED <<channel, pxstate, queue, active, passed, sent, refs, pool, mine, batch, pushed>>

\* Without the lock: whether the entry was deleted meanwhile.
CheckDeleted(w) ==
  /\ at[w] = "took"
  /\ at' = [at EXCEPT ![w] = IF mine[w] \in deled THEN "done" ELSE "call"]
  /\ UNCHANGED <<channel, pxstate, queue, active, passed, sent, refs, pool, mine, batch, timed, pushed>>

Take(t, p) ==
  LET size == IF Full(p) THEN Batch[p] ELSE Len(queue[p])
  IN
  /\ at' = [at EXCEPT ![t] = "push"]
  /\ batch' = [batch EXCEPT ![t] = SubSeq(queue[p], 1, size)]
  /\ queue' = [queue EXCEPT ![p] = SubSeq(@, size + 1, Len(@))]

\* push_event() of the pool takes the events, if they are still there.  With a
\* proxy that was disposed of it returns at once, with an unset result.
PushEvent(w) ==
  /\ at[w] = "call"
  /\ LET p == mine[w] IN
     \/ Ready(p) /\ Take(w, p) /\ passed' = passed \ {p}
     \/ /\ ~Ready(p)
        /\ \/ pxstate[p] \notin {"NotConnected", "Connected"} /\ at' = [at EXCEPT ![w] = "invalid"]
           \/ pxstate[p] \in {"NotConnected", "Connected", "disposed"} /\ at' = [at EXCEPT ![w] = "done"]
        /\ UNCHANGED <<queue, passed, batch>>
  /\ UNCHANGED <<channel, pxstate, active, sent, refs, pool, mine, timed, pushed>>

\* The own thread of a proxy, with its lock: exits, takes events, or waits.
PushOwn(p) ==
  /\ at[p] = "scan"
  /\ \/ /\ pxstate[p] \notin {"NotConnected", "Connected"}
        /\ at' = [at EXCEPT ![p] = "exit"] /\ UNCHANGED <<queue, batch, timed>>
     \/ Ready(p) /\ Take(p, p) /\ UNCHANGED timed
     \/ /\ pxstate[p] \in {"NotConnected", "Connected"} /\ ~Ready(p)
        /\ at' = [at EXCEPT ![p] = "wait"]
        /\ timed' = IF queue[p] # <<>> /\ p \in Paced THEN timed \cup {p} ELSE timed
        /\ UNCHANGED <<queue, batch>>
  /\ UNCHANGED <<channel, pxstate, active, passed, sent, refs, pool, mine, pushed>>

\* The call of the consumer returns, or fails: then the queue is cleared.
Finish(t) ==
  LET p == Served(t)
      next(x) == at' = [at EXCEPT ![t] = IF t \in Proxies THEN "scan" ELSE x]
  IN
  /\ at[t] = "push"
  /\ passed' = IF t \in Proxies THEN passed \ {p} ELSE passed
  /\ batch' = [batch EXCEPT ![t] = <<>>]
  /\ \/ /\ pushed' = [pushed EXCEPT ![p] = @ \o batch[t]]
        /\ refs' = Released(batch[t]) /\ next("done") /\ UNCHANGED <<pxstate, queue>>
     \/ /\ pxstate[p] = "Connected"
        /\ pxstate' = [pxstate EXCEPT ![p] = "Exception"]
        /\ queue' = [queue EXCEPT ![p] = <<>>]
        /\ refs' = Released(batch[t] \o queue[p]) /\ next("invalid") /\ UNCHANGED pushed
     \/ /\ pxstate[p] # "Connected"
        /\ refs' = Released(batch[t]) /\ next("done") /\ UNCHANGED <<pxstate, queue, pushed>>
  /\ UNCHANGED <<channel, active, sent, pool, mine, timed>>

\* Back in notify(), without the lock of the pool: a count may get lost.
Leave(w) ==
  /\ at[w] \in {"done", "invalid"}
  /\ at' = [at EXCEPT ![w] = "scan"] /\ mine' = [mine EXCEPT ![w] = None]
  /\ inuse' = inuse \ {mine[w]}
  /\ IF at[w] = "invalid"
     THEN deled' = deled \cup {mine[w]} /\ ndeleted' \in {ndeleted, ndeleted + 1}
     ELSE UNCHANGED <<deled, ndeleted>>
  /\ UNCHANGED <<channel, pxstate, queue, active, passed, sent, refs, entries, made, born, last, lock,
                 turn, batch, timed, pushed>>

----------------------------------------------------------------------------
Steps(t) ==
  \/ TimedWake(t) \/ Finish(t)
  \/ t \in Workers /\ (Enter(t) \/ Look(t) \/ CheckDeleted(t) \/ PushEvent(t) \/ Leave(t))
  \/ t \in Proxies /\ PushOwn(t)
Next ==
  \/ \E t \in Threads : Steps(t)
  \/ \E p \in Proxies :
       \/ Create(p) \/ Connect(p) \/ Suspend(p) \/ Resume(p) \/ AddEvent(p) \/ Tick(p)
       \/ Disconnect(p) \/ Alone(p) \/ Dispose(p)

Spec == Init /\ [][Next]_vars
\* Threads run, calls of consumers return or fail, time passes, and a
\* disconnect that has begun goes on.
FairSpec ==
  /\ Spec
  /\ \A t \in Threads : WF_vars(Steps(t))
  /\ \A p \in Proxies : WF_vars(Tick(p)) /\ WF_vars(Alone(p)) /\ WF_vars(Dispose(p))

----------------------------------------------------------------------------
(* Properties                                                              *)

\* A consumer gets the events in the order in which they came to its proxy, and
\* none twice, although any worker of the pool may push them and no lock is held
\* during the calls.
InOrder == \A p \in Proxies : \A i, j \in DOMAIN pushed[p] : i < j => pushed[p][i] < pushed[p][j]

\* The entry that a worker uses and the one the pool remembers as the last one
\* served are not freed by a collection, which other threads cause while the
\* worker holds no lock.
EntriesKept ==
  /\ \A w \in Workers : at[w] \in {"took", "call", "push", "done", "invalid"} => mine[w] \in entries
  /\ last # None => last \in entries

\* A disconnect takes the proxy out of the admin and disposes of it only when no
\* call to its consumer is left.
NoPushAfterDisposal ==
  \A p \in Proxies : Pushing(p) # {} => pxstate[p] \notin {"alone", "disposed"}

\* With threads of their own, proxies that have events to push do push, whatever
\* the order of events, resumptions, timeouts and calls.
OwnPushed == \A p \in Proxies : (~pooled /\ Ready(p)) ~> (~Ready(p) \/ at[p] = "push")

\* With threads of their own a disconnect comes to its end: it wakes the thread,
\* and waits for it to leave.
OwnDisposed ==
  \A p \in Proxies : (~pooled /\ pxstate[p] = "Disconnected") ~> (pxstate[p] = "disposed")
=============================================================================
