-------------------------------- MODULE Oplocks --------------------------------
(***************************************************************************)
(* RDIOplocks: lock entries that outlive the objects they protect.         *)
(* An object keeps a pointer to its entry (optr, _oplockptr); an entry     *)
(* keeps a pointer back to its owner (ptr), counts the threads that need   *)
(* the owner to stay (inuse) and, once freed, goes to a free list from     *)
(* which alloc_entry() gives it to another object.  A thread copies optr   *)
(* without any lock and finds out under the lock of the entry whether the  *)
(* entry still is that of its object.                                      *)
(*                                                                         *)
(* The users of the entries are the scopes of RDIOplocksMacros.h: a bumped *)
(* scope that may give the lock up once or wait, and the scope of a        *)
(* disconnect or destroy that waits until it is alone and then disposes.   *)
(***************************************************************************)
EXTENDS Naturals, FiniteSets

CONSTANTS
  Threads,
  Objects,
  Entries,    \* the entries the heap can give; free ones in unused
  First,      \* the objects that exist at the start
  MaxCalls,   \* bound: method calls on objects
  None, Head  \* no entry, object or thread; the dummy element of the free list

ASSUME OplockAssumption ==
  /\ None \notin Threads \cup Objects \cup Entries
  /\ Head \notin Entries \cup {None}
  /\ First \subseteq Objects
  /\ \E f \in [First -> Entries] : \A o, p \in First : f[o] = f[p] => o = p
  /\ IsFiniteSet(Threads)
  /\ MaxCalls \in Nat

VARIABLES
  optr,      \* object -> its _oplockptr
  life,      \* object -> unborn, live, closing (only one thread destroys), dead
  ptr, inuse, disposed,   \* entry -> _ptr, _inuse, _disposed
  lock,      \* entry -> the thread that holds its _oplock
  nextp, prevp,           \* the links of the free list
  unused,    \* entries the heap has not given yet
  listlock,  \* the holder of RDIOplocks::_oplock
  pc, obj, ent,           \* thread -> step, object, and its copy of optr
  counted,   \* thread -> its wait() has counted itself
  calls

entryVars == <<ptr, inuse, disposed>>
listVars == <<nextp, prevp, unused>>
vars == <<optr, life, entryVars, lock, listVars, listlock, pc, obj, ent, counted, calls>>

Waiting == {"wait", "woken", "waitone", "wokenone"}
\* The next store to the links: those of _remove(), which takes an entry off the
\* free list, and those of _prepend(), which puts one at its end.
Unlinking == {"bypass", "detach", "ownnext", "ownprev"}
Linking == {"next", "prev", "link", "chain"}
\* Steps at which a thread holds the lock of its entry, and those at which it
\* has bumped inuse.
Holding == {"in", "last", "closing", "closed", "dispose"} \cup Unlinking \cup Linking
Bumped == {"in", "last", "closing", "closed", "out", "closeout"} \cup Waiting
Step == {"idle", "called", "acquire", "scan"} \cup Holding \cup Bumped

TypeOK ==
  /\ optr \in [Objects -> Entries \cup {None}]
  /\ life \in [Objects -> {"unborn", "live", "closing", "dead"}]
  /\ ptr \in [Entries -> Objects \cup {None}]
  /\ inuse \in [Entries -> Nat]
  /\ disposed \in [Entries -> BOOLEAN]
  /\ lock \in [Entries -> Threads \cup {None}]
  /\ nextp \in [Entries \cup {Head} -> Entries \cup {Head}]
  /\ prevp \in [Entries \cup {Head} -> Entries \cup {Head}]
  /\ unused \subseteq Entries
  /\ listlock \in Threads \cup {None}
  /\ pc \in [Threads -> Step]
  /\ obj \in [Threads -> Objects \cup {None}]
  /\ ent \in [Threads -> Entries \cup {None, Head}]
  /\ counted \in [Threads -> BOOLEAN]
  /\ calls \in 0..MaxCalls

\* The objects of First have been constructed, each with an entry of its own.
FirstEntry == CHOOSE f \in [First -> Entries] : \A o, p \in First : f[o] = f[p] => o = p
Init ==
  /\ optr = [o \in Objects |-> IF o \in First THEN FirstEntry[o] ELSE None]
  /\ life = [o \in Objects |-> IF o \in First THEN "live" ELSE "unborn"]
  /\ ptr = [e \in Entries |-> IF \E o \in First : optr[o] = e
                              THEN CHOOSE o \in First : optr[o] = e ELSE None]
  /\ inuse = [e \in Entries |-> 0]
  /\ disposed = [e \in Entries |-> FALSE]
  /\ lock = [e \in Entries |-> None]
  /\ nextp = [e \in Entries \cup {Head} |-> e]
  /\ prevp = [e \in Entries \cup {Head} |-> e]
  /\ unused = {e \in Entries : ptr[e] = None}
  /\ listlock = None
  /\ pc = [t \in Threads |-> "idle"]
  /\ obj = [t \in Threads |-> None]
  /\ ent = [t \in Threads |-> None]
  /\ counted = [t \in Threads |-> FALSE]
  /\ calls = 0

Goto(t, step) == pc' = [pc EXCEPT ![t] = step]
Free(e) == lock[e] = None
Take(t, e) == lock' = [lock EXCEPT ![e] = t]
Release(e) == lock' = [lock EXCEPT ![e] = None]
Mine(t) == ptr[ent[t]] = obj[t]

Leave(t) ==
  /\ Goto(t, "idle")
  /\ obj' = [obj EXCEPT ![t] = None]
  /\ ent' = [ent EXCEPT ![t] = None]

----------------------------------------------------------------------------
(* Scopes                                                                   *)

\* A request reaches an object that is still active.
Call(t, o) ==
  /\ pc[t] = "idle" /\ calls < MaxCalls
  /\ life[o] \in {"live", "closing"}
  /\ Goto(t, "called")
  /\ obj' = [obj EXCEPT ![t] = o]
  /\ calls' = calls + 1
  /\ UNCHANGED <<optr, life, entryVars, lock, listVars, listlock, ent, counted>>

\* The constructor of a scope lock copies _oplockptr without any lock.
CopyPtr(t) ==
  /\ pc[t] = "called"
  /\ IF optr[obj[t]] = None THEN Leave(t)
     ELSE /\ ent' = [ent EXCEPT ![t] = optr[obj[t]]]
          /\ Goto(t, "acquire")
          /\ UNCHANGED obj
  /\ UNCHANGED <<optr, life, entryVars, lock, listVars, listlock, counted, calls>>

\* acquire(): the test is made without the lock and again with it.
Acquirable(t) == Mine(t) /\ ~disposed[ent[t]]

Refused(t) ==
  /\ pc[t] = "acquire" /\ ~Acquirable(t)
  /\ Leave(t)
  /\ UNCHANGED <<optr, life, entryVars, lock, listVars, listlock, counted, calls>>

Bump(e) == inuse' = [inuse EXCEPT ![e] = @ + 1]

Acquire(t) ==
  /\ pc[t] = "acquire" /\ Acquirable(t) /\ Free(ent[t])
  /\ Take(t, ent[t])
  /\ Bump(ent[t])
  /\ Goto(t, "in")
  /\ UNCHANGED <<optr, life, ptr, disposed, listVars, listlock, obj, ent, counted, calls>>

\* debump(): the threads that wait to be alone are woken when one is left.
DebumpSilent(t, e) ==
  inuse' = [inuse EXCEPT ![e] = IF @ = 0 THEN 0 ELSE @ - 1] /\ Goto(t, "idle")
Debump(t, e) ==
  /\ inuse' = [inuse EXCEPT ![e] = IF @ = 0 THEN 0 ELSE @ - 1]
  /\ pc' = [u \in Threads |->
              IF u = t THEN "idle"
              ELSE IF inuse[e] = 2 /\ pc[u] = "waitone" /\ ent[u] = e THEN "wokenone"
              ELSE pc[u]]

Exit(t) ==
  /\ pc[t] \in {"in", "last"}
  /\ Debump(t, ent[t])
  /\ Release(ent[t])
  /\ obj' = [obj EXCEPT ![t] = None]
  /\ ent' = [ent EXCEPT ![t] = None]
  /\ UNCHANGED <<optr, life, ptr, disposed, listVars, listlock, counted, calls>>

\* RDI_OplockTempRelease: the lock is given up for a call on something else
\* and taken again with reacquire(), which only looks at ptr.
TempRelease(t) ==
  /\ pc[t] \in {"in", "closing"}
  /\ pc[t] = "closing" => inuse[ent[t]] <= 1
  /\ Goto(t, IF pc[t] = "in" THEN "out" ELSE "closeout")
  /\ Release(ent[t])
  /\ UNCHANGED <<optr, life, entryVars, listVars, listlock, obj, ent, counted, calls>>

Reacquire(t) ==
  /\ pc[t] \in {"out", "closeout"} /\ Free(ent[t]) /\ Mine(t)
  /\ Take(t, ent[t])
  /\ Goto(t, IF pc[t] = "out" THEN "last" ELSE "closed")
  /\ UNCHANGED <<optr, life, entryVars, listVars, listlock, obj, ent, counted, calls>>

\* wait(): while the object is not being destroyed there may be nothing to do.
WaitOn(t) ==
  /\ pc[t] = "in" /\ life[obj[t]] = "live"
  /\ Goto(t, "wait")
  /\ Release(ent[t])
  /\ counted' = [counted EXCEPT ![t] = ~disposed[ent[t]]]
  /\ inuse' = [inuse EXCEPT ![ent[t]] = IF disposed[ent[t]] THEN @ ELSE @ + 1]
  /\ UNCHANGED <<optr, life, ptr, disposed, listVars, listlock, obj, ent, calls>>

\* signal(), by a thread inside the object.
Signal(t, u) ==
  /\ pc[t] = "in" /\ pc[u] = "wait" /\ ent[u] = ent[t]
  /\ Goto(u, "woken")
  /\ UNCHANGED <<optr, life, entryVars, lock, listVars, listlock, obj, ent, counted, calls>>

WaitEnds(t) ==
  /\ pc[t] = "woken" /\ Free(ent[t])
  /\ Take(t, ent[t])
  /\ Goto(t, "in")
  /\ inuse' = [inuse EXCEPT ![ent[t]] = IF counted[t] THEN @ - 1 ELSE @]
  /\ counted' = [counted EXCEPT ![t] = FALSE]
  /\ UNCHANGED <<optr, life, ptr, disposed, listVars, listlock, obj, ent, calls>>

----------------------------------------------------------------------------
(* Disposal                                                                 *)

\* The state of the object is the guard: one thread only destroys it.
Close(t) ==
  /\ pc[t] = "in" /\ life[obj[t]] = "live"
  /\ life' = [life EXCEPT ![obj[t]] = "closing"]
  /\ Goto(t, "closing")
  /\ UNCHANGED <<optr, entryVars, lock, listVars, listlock, obj, ent, counted, calls>>

\* while (inuse() > 1) { BROADCAST; INUSEONE_WAIT }
AwaitAloneCounted(t) ==
  /\ pc[t] = "closing" /\ inuse[ent[t]] > 1
  /\ pc' = [u \in Threads |-> IF u = t THEN "waitone"
                              ELSE IF pc[u] = "wait" /\ ent[u] = ent[t] THEN "woken"
                              ELSE pc[u]]
  /\ Bump(ent[t])
  /\ Release(ent[t])
  /\ UNCHANGED <<optr, life, ptr, disposed, listVars, listlock, obj, ent, counted, calls>>
AwaitAlone(t) ==
  /\ pc[t] = "closing" /\ inuse[ent[t]] > 1
  /\ pc' = [u \in Threads |-> IF u = t THEN "waitone"
                              ELSE IF pc[u] = "wait" /\ ent[u] = ent[t] THEN "woken"
                              ELSE pc[u]]
  /\ Release(ent[t])
  /\ UNCHANGED <<optr, life, entryVars, listVars, listlock, obj, ent, counted, calls>>

WokenAlone(t) ==
  /\ pc[t] = "wokenone" /\ Free(ent[t])
  /\ Take(t, ent[t])
  /\ Goto(t, "closing")
  /\ UNCHANGED <<optr, life, entryVars, listVars, listlock, obj, ent, counted, calls>>

\* One store to the links of the free list, by a thread that holds the lock of
\* its entry, and what is next.
SetNext(e, f) == nextp' = [nextp EXCEPT ![e] = f] /\ UNCHANGED prevp
SetPrev(e, f) == prevp' = [prevp EXCEPT ![e] = f] /\ UNCHANGED nextp
Store(t, step, next) ==
  /\ pc[t] = step /\ Goto(t, next)
  /\ UNCHANGED <<optr, life, entryVars, lock, unused, listlock, obj, ent, counted, calls>>

\* The scope ends with a disposal: debump, and free_entry() looks whether the
\* entry is a list of its own.
Alone(e) == nextp[e] = e /\ prevp[e] = e
BeginFree(t) ==
  LET e == ent[t] IN
  /\ pc[t] = "closed"
  /\ inuse' = [inuse EXCEPT ![e] = IF @ = 0 THEN 0 ELSE @ - 1]
  /\ Goto(t, IF Alone(e) THEN "next" ELSE "bypass")
  /\ UNCHANGED <<optr, life, ptr, disposed, lock, listVars, listlock, obj, ent, counted, calls>>

\* _remove(), under the lock of the list when alloc_entry() takes the entry and
\* without it when free_entry() does; the second store reads _next again.
Bypass(t) == Store(t, "bypass", "detach") /\ SetNext(prevp[ent[t]], nextp[ent[t]])
Detach(t) == Store(t, "detach", "ownnext") /\ SetPrev(nextp[ent[t]], prevp[ent[t]])
OwnNext(t) == Store(t, "ownnext", "ownprev") /\ SetNext(ent[t], ent[t])
OwnPrev(t) == listlock # t /\ Store(t, "ownprev", "next") /\ SetPrev(ent[t], ent[t])

\* _prepend(), in front of the dummy element: no other lock than that of the
\* entry is held.
PrependNext(t) == Store(t, "next", "prev") /\ SetNext(ent[t], Head)
PrependPrev(t) == Store(t, "prev", "link") /\ SetPrev(ent[t], prevp[Head])
Link(t) == Store(t, "link", "chain") /\ SetNext(prevp[ent[t]], ent[t])
Chain(t) == Store(t, "chain", "dispose") /\ SetPrev(Head, ent[t])

\* With nobody left the object goes now, otherwise when the entry is needed.
Dispose(t) ==
  LET e == ent[t]
      o == obj[t] IN
  /\ pc[t] = "dispose"
  /\ IF inuse[e] = 0
     THEN /\ optr' = [optr EXCEPT ![o] = None]
          /\ life' = [life EXCEPT ![o] = "dead"]
          /\ ptr' = [ptr EXCEPT ![e] = None]
          /\ UNCHANGED disposed
     ELSE /\ disposed' = [disposed EXCEPT ![e] = TRUE]
          /\ UNCHANGED <<optr, life, ptr>>
  /\ Release(e)
  /\ Leave(t)
  /\ UNCHANGED <<inuse, listVars, listlock, counted, calls>>

----------------------------------------------------------------------------
(* alloc_entry()                                                            *)

BeginAlloc(t, o) ==
  /\ pc[t] = "idle" /\ life[o] = "unborn" /\ listlock = None
  /\ \A u \in Threads : obj[u] # o
  /\ listlock' = t
  /\ obj' = [obj EXCEPT ![t] = o]
  /\ ent' = [ent EXCEPT ![t] = nextp[Head]]
  /\ Goto(t, "scan")
  /\ UNCHANGED <<optr, life, entryVars, lock, listVars, counted, calls>>

\* What an entry of the free list may be taken for: it has no owner, or its
\* owner has been disposed of and no thread needs it any more.
ReusableInUse(e) == ptr[e] = None \/ disposed[e]
Reusable(e) == ptr[e] = None \/ (disposed[e] /\ inuse[e] = 0)

Skip(t) ==
  /\ pc[t] = "scan" /\ ent[t] # Head /\ ~Reusable(ent[t])
  /\ ent' = [ent EXCEPT ![t] = nextp[ent[t]]]
  /\ UNCHANGED <<optr, life, entryVars, lock, listVars, listlock, pc, obj, counted, calls>>

\* An entry to reuse is locked, and taken off the list store by store.
Found(t) ==
  /\ pc[t] = "scan" /\ ent[t] # Head /\ Reusable(ent[t]) /\ Free(ent[t])
  /\ Take(t, ent[t])
  /\ Goto(t, "bypass")
  /\ UNCHANGED <<optr, life, entryVars, listVars, listlock, obj, ent, counted, calls>>

\* The object of thread t gets e; the constructor goes on without locks.
Give(t, e) ==
  /\ ptr' = [ptr EXCEPT ![e] = obj[t]]
  /\ disposed' = [disposed EXCEPT ![e] = FALSE]
  /\ inuse' = [inuse EXCEPT ![e] = 0]
  /\ listlock' = None
  /\ Leave(t)

\* With the last store of _remove() the entry changes hands; the disposal of its
\* former owner, when it has been deferred, happens first.
Reuse(t) ==
  LET e == ent[t]
      o == ptr[e] IN
  /\ pc[t] = "ownprev" /\ listlock = t
  /\ SetPrev(e, e)
  /\ optr' = [p \in Objects |-> IF p = obj[t] THEN e ELSE IF p = o THEN None ELSE optr[p]]
  /\ life' = [p \in Objects |-> IF p = obj[t] THEN "live" ELSE IF p = o THEN "dead" ELSE life[p]]
  /\ Give(t, e)
  /\ Release(e)
  /\ UNCHANGED <<unused, counted, calls>>

NewEntry(t) ==
  /\ pc[t] = "scan" /\ ent[t] = Head
  /\ \E e \in unused :
       /\ unused' = unused \ {e}
       /\ optr' = [optr EXCEPT ![obj[t]] = e]
       /\ life' = [life EXCEPT ![obj[t]] = "live"]
       /\ Give(t, e)
  /\ UNCHANGED <<lock, nextp, prevp, counted, calls>>

----------------------------------------------------------------------------
\* What a thread does once it is inside; whether it waits, disposes or gives
\* up the lock is the choice of the object.
Steps(t) ==
  \/ CopyPtr(t) \/ Refused(t) \/ Acquire(t) \/ Exit(t) \/ Reacquire(t)
  \/ (pc[t] = "closing" /\ TempRelease(t))
  \/ AwaitAlone(t) \/ WokenAlone(t) \/ WaitEnds(t)
  \/ BeginFree(t) \/ Bypass(t) \/ Detach(t) \/ OwnNext(t) \/ OwnPrev(t)
  \/ PrependNext(t) \/ PrependPrev(t) \/ Link(t) \/ Chain(t) \/ Dispose(t)
  \/ Skip(t) \/ Found(t) \/ Reuse(t) \/ NewEntry(t)

Next ==
  \E t \in Threads :
    \/ Steps(t)
    \/ TempRelease(t) \/ WaitOn(t) \/ Close(t)
    \/ \E u \in Threads : Signal(t, u)
    \/ \E o \in Objects : Call(t, o) \/ BeginAlloc(t, o)

Spec == Init /\ [][Next]_vars
FairSpec == Spec /\ \A t \in Threads : WF_vars(Steps(t))

----------------------------------------------------------------------------
(* Properties                                                               *)

\* A thread that has bumped an object, or holds the lock for it, keeps it: the
\* entry is still that of its object, so that reacquire() cannot fail, and the
\* object has not been disposed of.
Inside(t) == pc[t] \in Bumped \/ (pc[t] \in Holding /\ listlock # t)
InsideOwns == \A t \in Threads : Inside(t) => Mine(t) /\ life[obj[t]] \in {"live", "closing"}

\* inuse counts the threads that have bumped and not debumped, and once more
\* those that wait, whatever owner the entry had before.
InUseExact ==
  \A e \in Entries :
    inuse[e] = Cardinality({t \in Threads : ent[t] = e /\ pc[t] \in Bumped})
             + Cardinality({t \in Threads : ent[t] = e /\ counted[t]})

\* alloc_entry() looks at one entry after the other and, when none can be
\* reused, makes a new one: with nobody changing the links, the way from the
\* entry it is at leads to one that can be reused or back to the head.
\* free_entry() does not take the lock of the list, so the code does not keep this.
Way(e) == LET w[i \in 0..Cardinality(Entries)] ==
                IF i = 0 THEN e ELSE IF w[i - 1] = Head THEN Head ELSE nextp[w[i - 1]]
          IN {w[i] : i \in DOMAIN w}
WalkEnds ==
  \A t \in Threads :
    pc[t] = "scan" /\ (\A u \in Threads : pc[u] \notin Unlinking \cup Linking) =>
      \E e \in Way(ent[t]) : e = Head \/ Reusable(e)

\* No wake-up of a thread that waits to be alone is lost: the object it closes
\* is handed over to the free list, with every waiter gone.
DisposalEnds ==
  \A t \in Threads : pc[t] = "closing" ~> pc[t] = "idle"

\* Seen from outside there are only objects and the threads inside them: an
\* object is disposed of once, after it was closed, with nobody inside.
UsersOf(o) == {t \in Threads : obj[t] = o /\ pc[t] \in Bumped}
Life == INSTANCE Lifetimes WITH users <- [o \in Objects |-> UsersOf(o)]
ImplementsLifetimes == Life!LifeSpec
================================================================================
