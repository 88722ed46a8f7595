----------------------------- MODULE PriorityQueue -----------------------------
(***************************************************************************)
(* RDIPriorityQueue: entries with two sort keys in an array.  The array is *)
(* a heap by the primary key; the secondary key is found by linear search. *)
(* An array is a sequence of entries with fields event, pri and sec; its   *)
(* capacity, which doubles when it is used up, is left out.                *)
(***************************************************************************)
EXTENDS Integers, Sequences

\* Key a goes strictly before key b, with the lowest or the highest first.
Before(lowest, a, b) == IF lowest THEN a < b ELSE a > b

Parent(i) == i \div 2
Left(i) == 2 * i
Right(i) == 2 * i + 1

\* insert(): the entry comes last and changes places with its parent as long
\* as it goes before it; the parents it passes each move down one step.
Rises(q, lowest, entry, i) == i # 1 /\ Before(lowest, entry.pri, q[Parent(i)].pri)
WayUp(q, lowest, entry) ==
  LET path[i \in 1..(Len(q) + 1)] ==
        {i} \cup IF Rises(q, lowest, entry, i) THEN path[Parent(i)] ELSE {}
  IN path[Len(q) + 1]
Inserted(q, lowest, entry) ==
  LET path == WayUp(q, lowest, entry)
  IN [i \in 1..(Len(q) + 1) |->
        IF i \notin path THEN q[i] ELSE IF Parent(i) \in path THEN q[Parent(i)] ELSE entry]

\* _remove(idx): the last entry takes the place of the one removed and changes
\* places with its best child as long as that goes before it.
RemovedUnsifted(q, lowest, idx) ==
  [i \in 1..(Len(q) - 1) |-> IF i = idx THEN q[Len(q)] ELSE q[i]]
Child(q, lowest, i) ==
  IF Right(i) < Len(q) /\ Before(lowest, q[Right(i)].pri, q[Left(i)].pri) THEN Right(i) ELSE Left(i)
Sinks(q, lowest, i) ==
  Left(i) < Len(q) /\ Before(lowest, q[Child(q, lowest, i)].pri, q[Len(q)].pri)
WayDown(q, lowest, idx) ==
  LET path[i \in 1..(Len(q) - 1)] ==
        {i} \cup IF Sinks(q, lowest, i) THEN path[Child(q, lowest, i)] ELSE {}
  IN IF idx = Len(q) THEN {} ELSE path[idx]
Removed(q, lowest, idx) ==
  LET path == WayDown(q, lowest, idx)
  IN [i \in 1..(Len(q) - 1) |->
        IF i \notin path THEN q[i]
        ELSE IF Child(q, lowest, i) \in path THEN q[Child(q, lowest, i)] ELSE q[Len(q)]]

\* _sec_head_index(): the first of the entries whose secondary key is best.
SecHead(q, lowest) ==
  CHOOSE i \in DOMAIN q :
    /\ \A j \in DOMAIN q : ~Before(lowest, q[j].sec, q[i].sec)
    /\ \A j \in 1..(i - 1) : Before(lowest, q[i].sec, q[j].sec)

\* No entry goes before its parent.
HeapOrdered(q, lowest) ==
  \A i \in 2..Len(q) : ~Before(lowest, q[i].pri, q[Parent(i)].pri)
================================================================================
