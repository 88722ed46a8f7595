------------------------------- MODULE EventLog --------------------------------
(***************************************************************************)
(* What an event channel's queue of announced events promises, with no     *)
(* pointers, reference counts or locks: a log of events that only grows at *)
(* its end, admin threads that each read it event by event, and a          *)
(* collected prefix.  EventQueue implements it.                            *)
(***************************************************************************)
EXTENDS Naturals

CONSTANTS AdminThreads,   \* the threads that read the log
          NumEvents       \* bound on the events ever announced

VARIABLES published,      \* events 1..published have been announced, in this order
          position,       \* the event each thread reads; 0 before its first one
          collected,      \* events 1..collected have been given back to the allocator
          closed          \* the log is gone

logvars == <<published, position, collected, closed>>

LogInit ==
  /\ published = 0
  /\ position = [t \in AdminThreads |-> 0]
  /\ collected = 0
  /\ closed = FALSE

\* A supplier announces the next event.
Publish ==
  /\ published < NumEvents
  /\ published' = published + 1
  /\ UNCHANGED <<position, collected, closed>>

\* A thread starts reading at an event that is still there.
Subscribe(t) ==
  /\ position[t] = 0
  /\ \E e \in (collected + 1)..published : position' = [position EXCEPT ![t] = e]
  /\ UNCHANGED <<published, collected, closed>>

\* A reading thread moves to the very next event: none skipped, none twice.
Advance(t) ==
  /\ position[t] # 0
  /\ position[t] < published
  /\ position' = [position EXCEPT ![t] = @ + 1]
  /\ UNCHANGED <<published, collected, closed>>

\* The oldest event goes once every thread has read it and moved on.
Collect ==
  /\ \A t \in AdminThreads : position[t] > collected + 1
  /\ collected' = collected + 1
  /\ UNCHANGED <<published, position, closed>>

\* The channel is destroyed: what is left goes, and nothing happens any more.
Close ==
  /\ closed' = TRUE
  /\ collected' \in collected..published
  /\ UNCHANGED <<published, position>>

LogNext ==
  /\ ~closed
  /\ \/ Publish
     \/ \E t \in AdminThreads : Subscribe(t) \/ Advance(t)
     \/ Collect
     \/ Close

LogSpec == LogInit /\ [][LogNext]_logvars
================================================================================
