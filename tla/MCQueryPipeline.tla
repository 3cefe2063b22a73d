-------------------------- MODULE MCQueryPipeline ---------------------------
(* Instances of QueryPipeline for TLC. *)
EXTENDS QueryPipeline

Plain == [kind |-> "table", where |-> <<>>, aggregate |-> FALSE, groupBy |-> <<>>,
          arg |-> "n", distinct |-> FALSE, having |-> 0,
          orderBy |-> "none", desc |-> FALSE, limit |-> 20]

Upto(n, S) == UNION {[1..m -> S] : m \in 0..n}

\* Tables of up to two pages of one row: matches, duplicates and NULLs.
LeftTables  == Upto(2, {<<[k |-> 1, n |-> 1]>>, <<[k |-> 2, n |-> Null]>>, <<[k |-> Null, n |-> 3]>>})
RightTables == Upto(2, {<<[k |-> 1, m |-> 2]>>, <<[k |-> 1, m |-> Null]>>, <<[k |-> Null, m |-> 1]>>})

NoPartner == [op |-> "isnull", col |-> Col("r", "k"), val |-> Null]

Pairings == [l : LeftTables, r : RightTables, query :
             {[Plain EXCEPT !.kind = kd, !.where = w] :
                 kd \in {"comma", "join", "left", "right"},
                 w \in {<<>>, NoPartner}}]

\* One page of up to four rows.
OneTable == {<<rs>> : rs \in Upto(4, [k : {1, Null}, n : {1, 2, Null}]) \ {<<>>}}

Groupings ==
    [l : OneTable, r : {<<>>}, query :
        {[Plain EXCEPT !.aggregate = TRUE, !.groupBy = g, !.distinct = d, !.having = h] :
            g \in {<<>>, <<Col("l", "k")>>, <<Col("l", "k"), Col("l", "n")>>},
            d \in BOOLEAN, h \in {0, 2}}]
      \cup
    [l : LeftTables, r : RightTables, query :
        {[Plain EXCEPT !.kind = "left", !.aggregate = TRUE, !.arg = a,
                       !.groupBy = <<Col("l", "k")>>] : a \in {"n", "m", "k"}}]

SmallTable == {<<rs>> : rs \in Upto(3, [k : {1, 2}, n : {1, 2, Null}]) \ {<<>>}}

Comparisons == [col : {Col("l", "n")}, op : {"=", "!=", "<"}, val : {2}]

Paginations ==
    [l : SmallTable, r : {<<>>}, query :
        {[Plain EXCEPT !.orderBy = o, !.desc = d, !.limit = n, !.where = w] :
            o \in {"none", "n"}, d \in BOOLEAN, n \in 1..2,
            w \in {<<>>} \cup Comparisons}
          \cup
        {[Plain EXCEPT !.aggregate = TRUE, !.groupBy = <<Col("l", "k")>>,
                       !.orderBy = o, !.desc = d, !.limit = 1] :
            o \in {"key", "count"}, d \in BOOLEAN}]
      \cup
    [l : LeftTables, r : RightTables, query :
        {[Plain EXCEPT !.kind = kd, !.aggregate = TRUE, !.arg = "m", !.limit = 1,
                       !.groupBy = <<Col("l", "k")>>, !.orderBy = "key"] :
            kd \in {"comma", "left"}}]

In(op, vals) == [op |-> op, col |-> Col("l", "k"), vals |-> vals, sub |-> <<>>]
InQuery(op, from, cond) ==
    [op |-> op, col |-> Col("l", "k"),
     sub |-> [from |-> from, select |-> Col(from, IF from = "l" THEN "n" ELSE "m"),
              where |-> cond]]
Partner == [op |-> "column", col |-> Col("l", "k"), other |-> Col("r", "k")]
IsNull  == [op |-> "isnull", col |-> Col("l", "n"), val |-> Null]
One     == [op |-> "=", col |-> Col("l", "n"), val |-> 1]

\* Subqueries of the other table, with and without a WHERE, and of the same.
SubQueries ==
    {InQuery(op, "r", w) : op \in {"exists", "in", "notin"}, w \in {<<>>, Partner}}
      \cup {InQuery("in", "l", w) : w \in {<<>>, One}}

Selected ==
    {In(op, vals) : op \in {"in", "notin"}, vals \in SUBSET {1, 2}} \cup SubQueries
      \cup {[op |-> op, left |-> IsNull, right |-> e] : op \in {"and", "or"}, e \in SubQueries}

Selections == [l : LeftTables, r : RightTables, query :
                  {[Plain EXCEPT !.where = e] : e \in Selected}]

UnionQueries == [l : LeftTables, r : RightTables, query :
                    {[Plain EXCEPT !.kind = kd, !.where = w, !.orderBy = o, !.limit = n] :
                        kd \in Unions, w \in {<<>>, IsNull}, o \in {"none", "v"}, n \in {1, 20}}]

AllConditions == Selected \cup Comparisons \cup {NoPartner, Partner, IsNull, One}
Nesting == [e \in AllConditions |->
              IF e.op \in Compound THEN 2 ELSE IF e.op \in WithSubQuery THEN 1 ELSE 0]

AllInputs == Pairings \cup Groupings \cup Paginations \cup Selections \cup UnionQueries
=============================================================================
