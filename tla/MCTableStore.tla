---------------------------- MODULE MCTableStore ----------------------------
(* Instances of TableStore for TLC. *)
EXTENDS TableRefinement

CONSTANTS v1, v2    \* model values for TLC

R(k, v) == [key |-> k, val |-> v]

Full(tuples)    == [cols |-> {"key", "val"}, tuples |-> tuples]
OnlyKey(tuples) == [cols |-> {"key"}, tuples |-> tuples]
OnlyVal(tuples) == [cols |-> {"val"}, tuples |-> tuples]

\* A row of each key in one statement, which splits an index of order #Keys.
EachKey == [i \in 1..Cardinality(Keys) |-> R(i, v1)]

\* One row; a row for which one of the columns is not listed; two rows of which
\* the second may be refused for its key or for a NULL; a row of each key.
SomeInserts ==
    {Full(<<R(k, v1)>>) : k \in Keys}
      \cup {OnlyVal(<<R(Null, v1)>>), OnlyKey(<<R(1, Null)>>)}
      \cup {Full(<<R(2, v1), R(k, v2)>>) : k \in {1, 2}}
      \cup {Full(<<R(3, v1), R(4, Null)>>), Full(EachKey)}

SomeWheres ==
    {Rows} \cup {{r \in Rows : r.key = k} : k \in Keys \cup {Null}}
           \cup {{r \in Rows : r.val = v1}}

ValSets == {[col |-> "val", to |-> v2], [col |-> "val", to |-> Null]}

\* Only INSERT statements: a row of each key, then one more.
OnlyInserts == {Full(EachKey)} \cup {Full(<<R(k, v2)>>) : k \in Keys}
=============================================================================
