--------------------------------- MODULE Rounds --------------------------------
(***************************************************************************)
(* What a group of consumer admins promises, with no list and no iterator: *)
(* admins join and leave as they like; in every round each member that     *)
(* stays is served, and is served once.                                    *)
(***************************************************************************)
EXTENDS Naturals

CONSTANT Admins

VARIABLES members,  \* the admins of the group
          due,      \* those still to be served in this round
          rounds    \* the event of the last complete round

vars == <<members, due, rounds>>

Init == members \subseteq Admins /\ due = members /\ rounds = 0

\* An admin that joins takes part in the round that is going on.
Join(a) ==
  /\ a \notin members
  /\ members' = members \cup {a} /\ due' = due \cup {a}
  /\ UNCHANGED rounds

Leave(a) ==
  /\ a \in members
  /\ members' = members \ {a} /\ due' = due \ {a}
  /\ UNCHANGED rounds

Serve(a) ==
  /\ a \in due
  /\ due' = due \ {a}
  /\ UNCHANGED <<members, rounds>>

EndRound ==
  /\ due = {}
  /\ due' = members
  /\ rounds' \in Nat /\ rounds' > rounds
  /\ UNCHANGED members

Next == EndRound \/ \E a \in Admins : Join(a) \/ Leave(a) \/ Serve(a)

Spec == Init /\ [][Next]_vars
================================================================================
