-------------------------------- MODULE Delivery -------------------------------
(***************************************************************************)
(* What a consumer admin is promised of the events that match its filters, *)
(* with no threads, queues or locks: it is given all of them, each once,   *)
(* in the order in which they come, until it is destroyed.                 *)
(***************************************************************************)
EXTENDS Naturals

VARIABLES
  pending,   \* the events that have matched and are not given yet
  matched,   \* the last event that has matched
  given,     \* the last event the admin was given
  open       \* the admin has not been destroyed

vars == <<pending, matched, given, open>>

Init == pending = {} /\ matched = 0 /\ given = 0 /\ open

Put ==
  /\ matched' \in Nat /\ matched' > matched
  /\ pending' = pending \cup {matched'}
  /\ UNCHANGED <<given, open>>

Oldest(e) == \A f \in pending : e <= f

Give(e) ==
  /\ Oldest(e)
  /\ pending' = pending \ {e} /\ given' = e
  /\ UNCHANGED <<matched, open>>

Drop(e) ==
  /\ ~open /\ Oldest(e)
  /\ pending' = pending \ {e}
  /\ UNCHANGED <<matched, given, open>>

Close == open /\ open' = FALSE /\ UNCHANGED <<pending, matched, given>>

Next == Close \/ Put \/ \E e \in pending : Give(e) \/ Drop(e)

Spec == Init /\ [][Next]_vars
================================================================================
