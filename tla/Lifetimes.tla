------------------------------- MODULE Lifetimes -------------------------------
(***************************************************************************)
(* What RDIOplocks promises of an object, without entries, counts and      *)
(* locks: threads enter and leave it while it lives, also while it is      *)
(* being closed; it is disposed of once, after it has been closed, when no *)
(* thread is left inside, and nobody enters it any more.                   *)
(***************************************************************************)
CONSTANTS Threads, Objects, First

VARIABLES
  life,   \* object -> unborn, live, closing, dead
  users   \* object -> the threads inside

vars == <<life, users>>

Init ==
  /\ life = [o \in Objects |-> IF o \in First THEN "live" ELSE "unborn"]
  /\ users = [o \in Objects |-> {}]

Enter(t, o) ==
  /\ life[o] \in {"live", "closing"} /\ t \notin users[o]
  /\ users' = [users EXCEPT ![o] = @ \cup {t}]
  /\ UNCHANGED life

Leave(t, o) ==
  /\ t \in users[o]
  /\ users' = [users EXCEPT ![o] = @ \ {t}]
  /\ UNCHANGED life

Close(t, o) ==
  /\ t \in users[o] /\ life[o] = "live"
  /\ life' = [life EXCEPT ![o] = "closing"]
  /\ UNCHANGED users

Disposable(o) == life[o] = "closing" /\ users[o] = {}

Dispose(o) ==
  /\ Disposable(o)
  /\ life' = [life EXCEPT ![o] = "dead"]
  /\ UNCHANGED users

\* A new object, for whose lock an old one may have to be disposed of.
Create(o) ==
  /\ life[o] = "unborn"
  /\ \/ life' = [life EXCEPT ![o] = "live"]
     \/ \E old \in Objects : /\ Disposable(old)
                             /\ life' = [life EXCEPT ![o] = "live", ![old] = "dead"]
  /\ UNCHANGED users

Next ==
  \E o \in Objects :
    \/ Dispose(o) \/ Create(o)
    \/ \E t \in Threads : Enter(t, o) \/ Leave(t, o) \/ Close(t, o)

LifeSpec == Init /\ [][Next]_vars
================================================================================
