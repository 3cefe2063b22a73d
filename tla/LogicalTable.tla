---------------------------- MODULE LogicalTable ----------------------------
(***************************************************************************)
(* What a table promises whatever its index does: its rows in the order of *)
(* insertion, each statement applied as a whole or not at all, and no NULL *)
(* where a statement names a column that refuses it.                       *)
(***************************************************************************)
EXTENDS Naturals, SequencesExt

CONSTANTS Null, Inserts, Wheres, Sets

VARIABLE rows

Init == rows = <<>>

Insert ==
    \E ins \in Inserts :
        /\ \A i \in DOMAIN ins.tuples : \A c \in ins.cols : ins.tuples[i][c] # Null
        /\ rows' = rows \o ins.tuples

\* The rows of rs that are not in w, in their order.
Without(rs, w) == FlattenSeq([i \in DOMAIN rs |-> IF rs[i] \in w THEN <<>> ELSE <<rs[i]>>])

\* All rows of rs, those in w with one column set.
Changed(rs, w, s) ==
    [i \in DOMAIN rs |-> IF rs[i] \in w THEN [rs[i] EXCEPT ![s.col] = s.to] ELSE rs[i]]

Delete == \E w \in Wheres : rows' = Without(rows, w)

Update ==
    \E w \in Wheres, s \in Sets :
        /\ s.to = Null => \A i \in DOMAIN rows : rows[i] \notin w
        /\ rows' = Changed(rows, w, s)

Next == Insert \/ Delete \/ Update

Spec == Init /\ [][Next]_rows
=============================================================================
