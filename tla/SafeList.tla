-------------------------------- MODULE SafeList -------------------------------
(***************************************************************************)
(* RDI_SafeList: a list of pointers with one built-in circular iterator,   *)
(* which gives every element once and then one null, again and again.     *)
(* A list is a record of elts (_elts), next (_next_idx, counted from 0)    *)
(* and marker (_deliver_end_marker): the next call gives the null.         *)
(***************************************************************************)
EXTENDS Naturals, Sequences, SequencesExt

Members(l) == {l.elts[i] : i \in 1..Len(l.elts)}

\* The elements the iterator gives before its next null.
Due(l) == IF l.marker THEN {} ELSE {l.elts[i] : i \in (l.next + 1)..Len(l.elts)}

Drained == [elts |-> <<>>, next |-> 0, marker |-> FALSE]

\* insert(): the new last element is still part of the current iteration.
ListInsert(l, x) ==
  [elts |-> Append(l.elts, x),
   next |-> IF l.marker THEN Len(l.elts) ELSE l.next,
   marker |-> FALSE]

\* _remove_idx(): the iterator stays at the element it is at; when that was
\* the last one the iteration has ended.
EndsIteration(l, i) == l.next < i /\ l.next = Len(l.elts) - 1
RemoveIdxNoMarker(l, i) ==
  [elts |-> RemoveAt(l.elts, i),
   next |-> IF l.next >= i THEN l.next - 1 ELSE IF EndsIteration(l, i) THEN 0 ELSE l.next,
   marker |-> l.marker]
RemoveIdx(l, i) ==
  [elts |-> RemoveAt(l.elts, i),
   next |-> IF l.next >= i THEN l.next - 1 ELSE IF EndsIteration(l, i) THEN 0 ELSE l.next,
   marker |-> l.marker \/ (EndsIteration(l, i) /\ Len(l.elts) > 1)]

\* remove(): nothing happens when the element is not there.
PositionOf(l, x) == CHOOSE i \in 1..Len(l.elts) : l.elts[i] = x
ListRemove(l, x) == IF x \in Members(l) THEN RemoveIdx(l, PositionOf(l, x)) ELSE l

\* iter_next(): whether it gives a null, the element it gives otherwise, and
\* the list afterwards.
IterNull(l) == l.marker \/ l.elts = <<>>
IterHead(l) == l.elts[l.next + 1]
IterNextEndless(l) ==
  IF l.elts = <<>> THEN l ELSE [l EXCEPT !.next = (l.next + 1) % Len(l.elts)]
IterNext(l) ==
  IF l.marker THEN [elts |-> l.elts, next |-> l.next, marker |-> FALSE]
  ELSE IF l.elts = <<>> THEN l
  ELSE LET n == (l.next + 1) % Len(l.elts) IN [elts |-> l.elts, next |-> n, marker |-> n = 0]
================================================================================
