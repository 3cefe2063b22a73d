---------------------------- MODULE MCProllyTree ----------------------------
(* Instances of ProllyTree for TLC. *)
EXTENDS ProllyTree

CONSTANTS p1, p2    \* model values for page CIDs

\* Neighbours have different pages.
PageOf(k) == IF k % 2 = 0 THEN p1 ELSE p2
OnePage(n) == [k \in 1..n |-> {PageOf(k)}]

\* Any order of insertion of twelve keys: at order four, up to three levels.
Inserting == [load |-> <<>>, values |-> OnePage(12), copies |-> 1, deletes |-> 0]

\* Three levels at order four, then five deletions with puts between them.
Shrinking == [load |-> [i \in 1..13 |-> <<i, PageOf(i)>>], values |-> OnePage(13),
              copies |-> 1, deletes |-> 5]

\* As many keys as one node of order four holds, and any page under each.
OneLeaf == [load |-> <<>>, values |-> [k \in 1..3 |-> {p1, p2}], copies |-> 2, deletes |-> 3]

TreeKeys      == 1..13
TreeWorkloads == {Inserting, Shrinking, OneLeaf}
=============================================================================
