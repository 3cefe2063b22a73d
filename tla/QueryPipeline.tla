---------------------------- MODULE QueryPipeline ----------------------------
(***************************************************************************)
(* pkg/core/query.go: a SELECT over one table or two, through FROM and     *)
(* JOIN, WHERE with its subqueries, GROUP BY with aggregates and HAVING,   *)
(* UNION, ORDER BY, LIMIT and OFFSET, and the client that fetches the      *)
(* answer page by page.                                                    *)
(*                                                                         *)
(* Columns are numbers or NULL: a number's text, which group keys and      *)
(* DISTINCT compare, is the number.  A row is named by its place in the    *)
(* stored table, a combined row by the two rows it is made of; NoRow       *)
(* stands for the row of NULLs of an outer join and, in other queries, for *)
(* a table of which the combined row has no row at all.                    *)
(***************************************************************************)
EXTENDS Integers, FiniteSets, SequencesExt

CONSTANTS
    Null,
    Conditions, \* what may stand in a WHERE: records
    Depth,      \* of each condition, how deep it is nested
    Inputs,     \* two stored tables (pages of rows) and a query
    MaxFaults   \* bound: pages that cannot be read

Joins == {"join", "left", "right", "full", "natural"}
Unions == {"union", "unionall"}
Kinds == {"table", "comma"} \cup Joins \cup Unions

\* Both tables have the column k.
Schemas == [l |-> {"k", "n"}, r |-> {"k", "m"}]
Tables(t) == Seq(Seq([Schemas[t] -> Int \cup {Null}]))
Columns == {c \in [table : {"l", "r"}, name : {"k", "n", "m"}] : c.name \in Schemas[c.table]}

\* Compound conditions have an operand on either side, the others may have a
\* subquery.
Compound == {"and", "or"}
WithSubQuery == {"in", "notin", "exists"}

\* The parts of a condition are conditions, and none is a part of itself.
ASSUME ConditionAssumption ==
    /\ Depth \in [Conditions -> Nat]
    /\ \A e \in Conditions :
          /\ e.op \in Compound =>
                \A part \in {e.left, e.right} : part \in Conditions /\ Depth[part] < Depth[e]
          /\ e.op = "exists" => e.sub # <<>>
          /\ e.op \in WithSubQuery /\ e.sub # <<>> =>
                /\ e.sub.from \in {"l", "r"}
                /\ e.op # "exists" => e.sub.select.table = e.sub.from
                /\ e.sub.where # <<>> =>
                      e.sub.where \in Conditions /\ Depth[e.sub.where] < Depth[e]

\* Results are sorted by COUNT(*) or by the first column of GROUP BY.
ASSUME QueryAssumption ==
    /\ Null \notin Int
    /\ MaxFaults \in Nat
    /\ \A in \in Inputs :
          /\ in.l \in Tables("l") /\ in.r \in Tables("r")
          /\ in.query.kind \in Kinds
          /\ in.query.where # <<>> => in.query.where \in Conditions
          /\ in.query.aggregate \in BOOLEAN
          /\ in.query.groupBy \in Seq(Columns)
          /\ in.query.distinct \in BOOLEAN
          /\ in.query.having \in Nat
          /\ in.query.limit \in Nat \ {0}
          /\ in.query.kind \in Unions => ~in.query.aggregate
          /\ in.query.orderBy # "none" =>
                IF in.query.aggregate
                THEN in.query.orderBy = "count" \/ in.query.groupBy # <<>>
                ELSE in.query.kind \in Unions \/ in.query.orderBy \in Schemas.l

VARIABLES
    input,      \* the tables and the query
    stage,      \* the clause QueryDB is at
    lrows,      \* rows of the first table that were loaded
    rrows,      \* rows of the second table that were loaded
    at,         \* position in the loops of executeJoin or GROUP BY
    rows,       \* combined rows so far
    groups,     \* GROUP BY: key -> combined rows
    results,    \* result rows of an aggregate query
    answers,    \* what the client has received, one answer for each page
    faults      \* pages that could not be read so far

vars == <<input, stage, lrows, rrows, at, rows, groups, results, answers, faults>>

q == input.query

NoRow == <<0, 0>>

\* A product with an empty table has rows of the other alone (see CrossProduct).
InRow(in, c, t) == c[t] # NoRow \/ in.query.kind \in Joins

\* The value of a column, given as its table and name, in a combined row.  Where
\* the table is not in the row, comparisons and ORDER BY go on with NULL.
ValueIn(in, c, col) ==
    LET p == c[col.table]
    IN  IF p = NoRow THEN Null ELSE in[col.table][p[1]][p[2]][col.name]
Value(c, col) == ValueIn(input, c, col)

TablesWith(name) == {t \in {"l", "r"} : name \in Schemas[t]}

Init ==
    /\ input \in Inputs
    /\ stage = "load"
    /\ lrows = <<>> /\ rrows = <<>> /\ at = <<1, 1>>
    /\ rows = <<>> /\ groups = <<>> /\ results = <<>>
    /\ answers = <<>>
    /\ faults = 0

-----------------------------------------------------------------------------
(* FROM and JOIN *)

\* loadTableRows: a page that cannot be read is a warning on the console.
RowsOf(pages, bad) ==
    FlattenSeq([p \in DOMAIN pages |->
        IF p \in bad THEN <<>> ELSE [i \in DOMAIN pages[p] |-> <<p, i>>]])

Load ==
    /\ stage = "load"
    /\ \E lbad \in SUBSET DOMAIN input.l, rbad \in SUBSET DOMAIN input.r :
          /\ faults' = faults + Cardinality(lbad) + Cardinality(rbad)
          /\ faults' <= MaxFaults
          /\ lrows' = RowsOf(input.l, lbad)
          /\ rrows' = RowsOf(input.r, rbad)
    /\ stage' = "join"
    /\ at' = <<1, 1>> /\ rows' = <<>>
    /\ UNCHANGED <<input, groups, results, answers>>

\* A product with nothing is the other side: executeFromClause starts from no
\* rows at all.
CrossProduct(ls, rs) ==
    IF ls = <<>> THEN rs
    ELSE IF rs = <<>> THEN ls
    ELSE FlattenSeq([i \in DOMAIN ls |-> [j \in DOMAIN rs |-> [l |-> ls[i].l, r |-> rs[j].r]]])

Left(ps)  == [i \in DOMAIN ps |-> [l |-> ps[i], r |-> NoRow]]
Right(ps) == [i \in DOMAIN ps |-> [l |-> NoRow, r |-> ps[i]]]

From ==
    /\ stage = "join" /\ q.kind \notin Joins
    /\ rows' = IF q.kind = "comma" THEN CrossProduct(Left(lrows), Right(rrows)) ELSE Left(lrows)
    /\ stage' = "where"
    /\ UNCHANGED <<input, lrows, rrows, at, groups, results, answers, faults>>

Col(t, name) == [table |-> t, name |-> name]

\* JOIN ... ON l.k = r.k, or JOIN without ON, which is given that condition for
\* the column both tables have.  Two NULLs are equal.  NATURAL JOIN is a type of
\* its own and gets no condition.
Matches(c) == q.kind # "natural" => Value(c, Col("l", "k")) = Value(c, Col("r", "k"))

InLoop == at[1] <= Len(lrows)

\* One iteration of the nested loop.
JoinPair ==
    /\ stage = "join" /\ q.kind \in Joins
    /\ InLoop /\ at[2] <= Len(rrows)
    /\ LET c == [l |-> lrows[at[1]], r |-> rrows[at[2]]]
       IN  rows' = IF Matches(c) THEN Append(rows, c) ELSE rows
    /\ at' = <<at[1], at[2] + 1>>
    /\ UNCHANGED <<input, stage, lrows, rrows, groups, results, answers, faults>>

NextLeft ==
    /\ stage = "join" /\ q.kind \in Joins
    /\ InLoop /\ at[2] > Len(rrows)
    /\ at' = <<at[1] + 1, 1>>
    /\ UNCHANGED <<input, stage, lrows, rrows, rows, groups, results, answers, faults>>

\* What a sequence has at the positions I.
Keep(s, I) ==
    LET kept[n \in 0..Len(s)] ==
          IF n = 0 THEN <<>>
          ELSE IF n \in I THEN Append(kept[n - 1], s[n]) ELSE kept[n - 1]
    IN  kept[Len(s)]

\* matchedLeft and matchedRight
\* Faulty variant: only the last match is remembered.
UnmatchedLast(t, ps) == Keep(ps, {n \in DOMAIN ps : rows = <<>> \/ rows[Len(rows)][t] # ps[n]})
Unmatched(t, ps) == Keep(ps, {n \in DOMAIN ps : \A c \in Range(rows) : c[t] # ps[n]})

\* The rows of an outer join that found no partner come after all that did.
Pad ==
    /\ stage = "join" /\ q.kind \in Joins /\ ~InLoop
    /\ rows' = rows
           \o (IF q.kind \in {"left", "full"} THEN Left(Unmatched("l", lrows)) ELSE <<>>)
           \o (IF q.kind \in {"right", "full"} THEN Right(Unmatched("r", rrows)) ELSE <<>>)
    /\ stage' = "where"
    /\ UNCHANGED <<input, lrows, rrows, at, groups, results, answers, faults>>

-----------------------------------------------------------------------------
(* WHERE *)

\* compareValuesWithOperator and IS NULL
Holds(v, op, w) ==
    CASE op = "="       -> v = w
      [] op = "!="      -> v # w
      [] op = "<"       -> v # Null /\ w # Null /\ v < w
      [] op = "isnull" -> v = Null

\* IN and NOT IN: false of NULL; a NULL among the values equals none.
\* Faulty variant: NULL is NOT IN anything.
MemberOrNull(v, op, values) == (v \in values) = (op = "in")
Member(v, op, values) == v # Null /\ ((v \in values) = (op = "in"))

InnerRows(in, sub, bad) ==
    {[[l |-> NoRow, r |-> NoRow] EXCEPT ![sub.from] = p] : p \in Range(RowsOf(in[sub.from], bad))}
Merge(in, c, d) == [t \in {"l", "r"} |-> IF InRow(in, c, t) THEN c[t] ELSE d[t]]

\* executeCorrelatedSubquery: with a WHERE, each of its rows is completed by the
\* outer one, which wins where both have a row of the same table.  sat: the rows
\* each condition is true of; bad: the pages the subquery cannot read.
SubQuery(in, sat, c, sub, bad) ==
    IF sub.where = <<>> THEN InnerRows(in, sub, bad)
    ELSE {m \in {Merge(in, c, d) : d \in InnerRows(in, sub, bad)} : m \in sat[sub.where]}

Values(in, sat, c, e, bad) ==
    IF e.sub = <<>> THEN e.vals
    ELSE {ValueIn(in, m, e.sub.select) : m \in SubQuery(in, sat, c, e.sub, bad)}

\* A condition is a comparison with a constant, IN or EXISTS, of values or of a
\* subquery, or an AND or OR of two conditions.
Meaning(in, bad) ==
    LET sat[e \in Conditions] ==
          {c \in [l : Nat \X Nat, r : Nat \X Nat] :
             LET v == ValueIn(in, c, e.col)
             IN  CASE e.op = "and"    -> c \in sat[e.left] /\ c \in sat[e.right]
                   [] e.op = "or"     -> c \in sat[e.left] \/ c \in sat[e.right]
                   [] e.op = "exists" -> SubQuery(in, sat, c, e.sub, bad) # {}
                   [] e.op = "column" -> v = ValueIn(in, c, e.other)
                   [] e.op \in {"in", "notin"} -> Member(v, e.op, Values(in, sat, c, e, bad))
                   [] OTHER -> Holds(v, e.op, e.val)}
    IN  sat

Satisfies(c, e, bad) == c \in Meaning(input, bad)[e]

\* The rows whose evaluation is an error: IS NULL, there or in a subquery, of a
\* column whose table is not in the row.  AND and OR may not come to it.
Fails(in, bad) ==
    LET sat == Meaning(in, bad)
        fails[e \in Conditions] ==
          {c \in [l : Nat \X Nat, r : Nat \X Nat] :
             CASE e.op = "and" -> c \in fails[e.left] \/ (c \in sat[e.left] /\ c \in fails[e.right])
               [] e.op = "or"  -> c \in fails[e.left] \/ (c \notin sat[e.left] /\ c \in fails[e.right])
               [] e.op = "isnull" -> ~InRow(in, c, e.col.table)
               [] e.op \in WithSubQuery ->
                     /\ e.sub # <<>> /\ e.sub.where # <<>>
                     /\ \E d \in InnerRows(in, e.sub, bad) : Merge(in, c, d) \in fails[e.sub.where]
               [] OTHER -> FALSE}
    IN  fails

\* The tables the subqueries of a condition read.
SubTables[e \in Conditions] ==
    CASE e.op \in Compound -> SubTables[e.left] \cup SubTables[e.right]
      [] e.op \in WithSubQuery /\ e.sub # <<>> -> {e.sub.from}
      [] OTHER -> {}

AfterWhere == IF q.kind \in Unions THEN "union" ELSE IF q.aggregate THEN "group" ELSE "order"

Where ==
    /\ stage = "where"
    /\ stage' = IF q.where = <<>> THEN AfterWhere ELSE "filter"
    /\ at' = <<1, 1>> /\ groups' = <<>>
    /\ UNCHANGED <<input, lrows, rrows, rows, results, answers, faults>>

\* One row of the loop.  Its subquery reads the pages of its table again.
WhereRow ==
    /\ stage = "filter" /\ at[1] <= Len(rows)
    /\ \E bad \in SUBSET {p \in DOMAIN input.l \cup DOMAIN input.r :
                            \E t \in SubTables[q.where] : p \in DOMAIN input[t]} :
          /\ faults' = faults + Cardinality(bad)
          /\ faults' <= MaxFaults
          /\ rows[at[1]] \notin Fails(input, bad)[q.where]
          /\ IF Satisfies(rows[at[1]], q.where, bad)
             THEN at' = <<at[1] + 1, 1>> /\ UNCHANGED rows
             ELSE rows' = RemoveAt(rows, at[1]) /\ UNCHANGED at
    /\ UNCHANGED <<input, stage, lrows, rrows, groups, results, answers>>

\* The query answers the error of the first row that has one.
WhereFails ==
    /\ stage = "filter" /\ at[1] <= Len(rows)
    /\ \E bad \in SUBSET {p \in DOMAIN input.l \cup DOMAIN input.r :
                            \E t \in SubTables[q.where] : p \in DOMAIN input[t]} :
          /\ faults' = faults + Cardinality(bad)
          /\ faults' <= MaxFaults
          /\ rows[at[1]] \in Fails(input, bad)[q.where]
    /\ stage' = "failed"
    /\ UNCHANGED <<input, lrows, rrows, at, rows, groups, results, answers>>

WhereDone ==
    /\ stage = "filter" /\ at[1] > Len(rows)
    /\ stage' = AfterWhere
    /\ at' = <<1, 1>>
    /\ UNCHANGED <<input, lrows, rrows, rows, groups, results, answers, faults>>

-----------------------------------------------------------------------------
(* UNION of a SELECT of the first table and one of the second: executeUnion *)

\* rowToString of a row with the columns k and v (n of the one, m of the other).
RowText(c) ==
    IF c.r = NoRow THEN <<Value(c, Col("l", "k")), Value(c, Col("l", "n"))>>
    ELSE <<Value(c, Col("r", "k")), Value(c, Col("r", "m"))>>

\* Of the rows with one text the first is kept.
\* Faulty variant: only the rows of the right are looked up.
DistinctRight(s) ==
    Keep(s, {n \in DOMAIN s : s[n].r = NoRow \/ \A i \in DOMAIN s :
                s[i].r = NoRow => RowText(s[i]) # RowText(s[n])})
Distinct(s) == Keep(s, {n \in DOMAIN s : \A i \in 1..(n - 1) : RowText(s[i]) # RowText(s[n])})

Union ==
    /\ stage = "union"
    /\ LET both == rows \o Right(rrows)
       IN  rows' = IF q.kind = "union" THEN Distinct(both) ELSE both
    /\ stage' = "order"
    /\ UNCHANGED <<input, lrows, rrows, at, groups, results, answers, faults>>

-----------------------------------------------------------------------------
(* GROUP BY, aggregates and HAVING: executeAggregateQuery *)

\* Faulty variant: the last column does not count.
KeyOfFirst(c) == <<Value(c, q.groupBy[1])>>
KeyOf(c) == [i \in DOMAIN q.groupBy |-> Value(c, q.groupBy[i])]

\* A row with a NULL key is in no group.
Grouped(c) == Null \notin Range(KeyOf(c))

\* A column of a table that is not in the row, behind none that is NULL.
NoKey(c) ==
    \E i \in DOMAIN q.groupBy :
        /\ ~InRow(input, c, q.groupBy[i].table)
        /\ \A j \in 1..(i - 1) : Value(c, q.groupBy[j]) # Null

GroupRow ==
    /\ stage = "group" /\ q.groupBy # <<>>
    /\ at[1] <= Len(rows) /\ ~NoKey(rows[at[1]])
    /\ LET c == rows[at[1]]
           k == KeyOf(c)
       IN  groups' = IF ~Grouped(c) THEN groups
                     ELSE [l \in DOMAIN groups \cup {k} |->
                              (IF l \in DOMAIN groups THEN groups[l] ELSE <<>>)
                                \o (IF l = k THEN <<c>> ELSE <<>>)]
    /\ at' = <<at[1] + 1, 1>>
    /\ UNCHANGED <<input, stage, lrows, rrows, rows, results, answers, faults>>

GroupFails ==
    /\ stage = "group" /\ q.groupBy # <<>>
    /\ at[1] <= Len(rows) /\ NoKey(rows[at[1]])
    /\ stage' = "failed"
    /\ UNCHANGED <<input, lrows, rrows, at, rows, groups, results, answers, faults>>

\* The argument of an aggregate is looked up by its name alone, in the tables of
\* the combined row in no particular order.  The first row that has the column
\* ends the lookup, with the NULL that is stored there too; the row of NULLs of an
\* outer join has no columns.
Arguments(c) ==
    LET found == {Value(c, Col(t, q.arg)) : t \in {u \in TablesWith(q.arg) : c[u] # NoRow}}
    IN  IF found = {} THEN {Null} ELSE found

NoValues == [total |-> 0, min |-> 0, max |-> 0, count |-> 0, seen |-> {}]

\* One iteration of the loop over the values of a group.
\* Faulty variant: the minimum starts from its zero value.
Accumulate(acc, v) ==
    IF v = Null \/ (q.distinct /\ v \in acc.seen) THEN acc
    ELSE [total |-> acc.total + v, count |-> acc.count + 1, seen |-> acc.seen \cup {v},
          min |-> IF acc.count = 0 \/ v < acc.min THEN v ELSE acc.min,
          max |-> IF acc.count = 0 \/ v > acc.max THEN v ELSE acc.max]

\* COUNT counts rows, with or without a value, unless it is DISTINCT.  Without
\* values SUM, MIN and MAX are NULL.
ResultRow(key, cs, vs) ==
    LET acc == FoldLeft(Accumulate, NoValues, vs)
        OrNull(n) == IF acc.count = 0 THEN Null ELSE n
    IN  [key |-> key, rows |-> cs,
         count |-> IF q.distinct THEN Cardinality(acc.seen) ELSE Len(cs),
         sum |-> OrNull(acc.total), min |-> OrNull(acc.min), max |-> OrNull(acc.max)]

\* HAVING COUNT(*) >= n
Having(cs) == Len(cs) >= q.having

\* One group after the other, in the order Go iterates over the map: any.
Aggregate ==
    /\ stage = "group" /\ q.groupBy # <<>>
    /\ at[1] > Len(rows)
    /\ \E k \in DOMAIN groups :
          /\ \E vs \in [DOMAIN groups[k] -> UNION {Arguments(c) : c \in Range(groups[k])}] :
                /\ \A i \in DOMAIN vs : vs[i] \in Arguments(groups[k][i])
                /\ results' = IF Having(groups[k])
                              THEN Append(results, ResultRow(k, groups[k], vs))
                              ELSE results
          /\ groups' = [l \in DOMAIN groups \ {k} |-> groups[l]]
    /\ UNCHANGED <<input, stage, lrows, rrows, at, rows, answers, faults>>

GroupsDone ==
    /\ stage = "group" /\ q.groupBy # <<>>
    /\ at[1] > Len(rows) /\ DOMAIN groups = {}
    /\ stage' = "order"
    /\ UNCHANGED <<input, lrows, rrows, at, rows, groups, results, answers, faults>>

\* Without GROUP BY all rows, or none, are one group.
AggregateAll ==
    /\ stage = "group" /\ q.groupBy = <<>>
    /\ \E vs \in [DOMAIN rows -> UNION {Arguments(c) : c \in Range(rows)}] :
          /\ \A i \in DOMAIN vs : vs[i] \in Arguments(rows[i])
          /\ results' = IF Having(rows) THEN <<ResultRow(<<>>, rows, vs)>> ELSE <<>>
    /\ stage' = "order"
    /\ UNCHANGED <<input, lrows, rrows, at, rows, groups, answers, faults>>

-----------------------------------------------------------------------------
(* ORDER BY, LIMIT and OFFSET *)

\* NULL is the least value.
\* Faulty variant: in either direction it comes first.
LessNullFirst(v, w) ==
    IF v = w \/ w = Null THEN FALSE
    ELSE v = Null \/ (IF q.desc THEN v > w ELSE v < w)
Less(v, w) ==
    IF v = w THEN FALSE
    ELSE IF v = Null THEN ~q.desc
    ELSE IF w = Null THEN q.desc
    ELSE IF q.desc THEN v > w ELSE v < w

\* A result row is a map, sorted by the value its column has there.
SortKey(x) ==
    IF q.aggregate THEN IF q.orderBy = "count" THEN x.count ELSE x.key[1]
    ELSE IF q.kind \in Unions THEN RowText(x)[2]
    ELSE Value(x, Col("l", q.orderBy))

\* sort.SliceStable, for a comparison that is a strict weak order.
StableSort(s) ==
    LET Before(a, b) == \/ Less(SortKey(s[a]), SortKey(s[b]))
                        \/ a < b /\ ~Less(SortKey(s[b]), SortKey(s[a]))
        Place(a) == 1 + Cardinality({b \in DOMAIN s : Before(b, a)})
    IN  [i \in DOMAIN s |-> s[CHOOSE a \in DOMAIN s : Place(a) = i]]

Order ==
    /\ stage = "order"
    /\ IF q.aggregate
       THEN results' = (IF q.orderBy = "none" THEN results ELSE StableSort(results))
            /\ UNCHANGED rows
       ELSE rows' = (IF q.orderBy = "none" THEN rows ELSE StableSort(rows))
            /\ UNCHANGED results
    /\ stage' = "limit"
    /\ UNCHANGED <<input, lrows, rrows, at, groups, answers, faults>>

\* Faulty variant: the row after the last is included.
OneRowTooMany(s, offset, count) ==
    IF offset >= Len(s) THEN <<>>
    ELSE SubSeq(s, offset + 1, IF offset + count >= Len(s) THEN Len(s) ELSE offset + count + 1)
ApplyLimitAndOffset(s, offset, count) ==
    IF offset >= Len(s) THEN <<>>
    ELSE SubSeq(s, offset + 1, IF offset + count > Len(s) THEN Len(s) ELSE offset + count)

\* The client asks for its pages one after the other: LIMIT n OFFSET 0, n, 2n ...
Limit ==
    /\ stage = "limit"
    /\ answers' = Append(answers,
           ApplyLimitAndOffset(IF q.aggregate THEN results ELSE rows,
                               Len(answers) * q.limit, q.limit))
    /\ stage' = "answered"
    /\ UNCHANGED <<input, lrows, rrows, at, rows, groups, results, faults>>

\* It stops at the first page that is not full.
NextPage ==
    /\ stage = "answered"
    /\ Len(answers[Len(answers)]) >= q.limit
    /\ stage' = "load"
    /\ lrows' = <<>> /\ rrows' = <<>> /\ at' = <<1, 1>>
    /\ rows' = <<>> /\ groups' = <<>> /\ results' = <<>>
    /\ UNCHANGED <<input, answers, faults>>

Next ==
    \/ Load \/ From \/ JoinPair \/ NextLeft \/ Pad
    \/ Where \/ WhereRow \/ WhereFails \/ WhereDone \/ Union
    \/ GroupRow \/ GroupFails \/ Aggregate \/ GroupsDone \/ AggregateAll
    \/ Order \/ Limit \/ NextPage

Spec == Init /\ [][Next]_vars

-----------------------------------------------------------------------------
(* Properties *)

Equal(a, b) == input.l[a[1]][a[2]].k = input.r[b[1]][b[2]].k

\* The joined rows are those relational algebra asks for, each once: the pairs
\* that match and, for an outer join, the rows of the stored tables without a
\* partner.  An inner join that could not read a page has some of them.
JoinIsRelational ==
    LET ls == Range(RowsOf(input.l, {}))
        rs == Range(RowsOf(input.r, {}))
        inner == {c \in [l : ls, r : rs] : Equal(c.l, c.r)}
        left  == {[l |-> a, r |-> NoRow] : a \in {x \in ls : \A b \in rs : ~Equal(x, b)}}
        right == {[l |-> NoRow, r |-> b] : b \in {x \in rs : \A a \in ls : ~Equal(a, x)}}
        all   == inner \cup (IF q.kind \in {"left", "full"} THEN left ELSE {})
                       \cup (IF q.kind \in {"right", "full"} THEN right ELSE {})
    IN  stage = "where" /\ q.kind \in {"join", "left", "right", "full"} =>
            /\ IsInjective(rows)
            /\ faults = 0 => Range(rows) = all
            /\ q.kind = "join" => Range(rows) \subseteq all

\* l.k = r.k
OnKeys == [op |-> "column", col |-> Col("l", "k"), other |-> Col("r", "k")]

\* Conditions that compare columns of the first table with constants and with
\* subqueries of the second, by themselves or correlated by l.k = r.k.
SemiJoin[e \in Conditions] ==
    IF e.op \in Compound THEN SemiJoin[e.left] /\ SemiJoin[e.right]
    ELSE /\ e.op # "column"
         /\ e.op # "exists" => e.col.table = "l"
         /\ e.op \in WithSubQuery /\ e.sub # <<>> =>
               /\ e.sub.from = "r"
               /\ e.op # "exists" => e.sub.select.table = "r"
               /\ e.sub.where # <<>> => e.sub.where = OnKeys

\* The rows of the first table such a condition is true of: a semijoin for EXISTS
\* and IN, an antijoin of the rows that have a value for NOT IN.
Means(in) ==
    LET rs == Range(RowsOf(in.r, {}))
        Partners(a, e) ==
            {b \in rs : e.sub.where # <<>> => in.l[a[1]][a[2]].k = in.r[b[1]][b[2]].k}
        Listed(a, e) ==
            IF e.sub = <<>> THEN e.vals
            ELSE {in.r[b[1]][b[2]][e.sub.select.name] : b \in Partners(a, e)}
        true[e \in Conditions] ==
          {a \in Range(RowsOf(in.l, {})) :
             LET v == in.l[a[1]][a[2]][e.col.name]
             IN  CASE e.op = "and"    -> a \in true[e.left] \cap true[e.right]
                   [] e.op = "or"     -> a \in true[e.left] \cup true[e.right]
                   [] e.op = "exists" -> Partners(a, e) # {}
                   [] e.op = "in"     -> v \in Listed(a, e) \ {Null}
                   [] e.op = "notin"  -> v \notin Listed(a, e) \cup {Null}
                   [] OTHER           -> Holds(v, e.op, e.val)}
    IN  true

Negative[e \in Conditions] ==
    IF e.op \in Compound THEN Negative[e.left] \/ Negative[e.right] ELSE e.op = "notin"

\* WHERE with AND, OR, IN, NOT IN, EXISTS and subqueries of the second table:
\* the rows it is true of, each once and in their order, also in a UNION.  A page
\* that cannot be read loses rows and adds none, unless there is a NOT IN; no row
\* is an error.
SelectionRight ==
    LET stored == RowsOf(input.l, {})
        right  == Keep(stored, {n \in DOMAIN stored : stored[n] \in Means(input)[q.where]})
    IN  /\ ~q.aggregate /\ q.kind \in {"table"} \cup Unions
        /\ q.where # <<>> /\ SemiJoin[q.where]
        => /\ stage # "failed"
           /\ stage = AfterWhere =>
                 /\ faults = 0 => rows = Left(right)
                 /\ ~Negative[q.where] => Range(rows) \subseteq Range(Left(right))
                 /\ IsInjective(rows)

\* UNION has each row of either SELECT once, UNION ALL has them all (ssql.md:225).
UnionIsSet ==
    LET ls  == Range(Left(RowsOf(input.l, {})))
        rs  == Range(Right(RowsOf(input.r, {})))
        all == {c \in ls : q.where = <<>> \/ Satisfies(c, q.where, {})} \cup rs
    IN  stage = "order" /\ q.kind \in Unions =>
            /\ IsInjective(rows)
            /\ Range(rows) \subseteq ls \cup rs
            /\ faults = 0 =>
                  /\ Range(rows) \subseteq all
                  /\ IF q.kind = "unionall" THEN Range(rows) = all
                     ELSE \A c \in all : \E i \in DOMAIN rows : \A j \in DOMAIN rows :
                             (RowText(rows[j]) = RowText(c)) = (i = j)

\* The clauses that combine two tables (query.go:1411-1492, :1683-1833).
TablesCombined == JoinIsRelational /\ UnionIsSet

SameGroup(c, d) == \A i \in DOMAIN q.groupBy : Value(c, q.groupBy[i]) = Value(d, q.groupBy[i])
Group(c) == {i \in DOMAIN rows : SameGroup(c, rows[i])}

\* GROUP BY: of every group of rows with equal values that HAVING accepts there
\* is one result row, made of just these rows; a row with a NULL is in none.
OneRowPerGroup ==
    stage = "order" /\ q.aggregate /\ q.groupBy # <<>> =>
        /\ \A c \in Range(rows) :
              Cardinality({i \in DOMAIN results : \E d \in Range(results[i].rows) : SameGroup(c, d)})
                = (IF \/ \E i \in DOMAIN q.groupBy : Value(c, q.groupBy[i]) = Null
                      \/ Cardinality(Group(c)) < q.having
                   THEN 0 ELSE 1)
        /\ \A x \in Range(results) :
              /\ IsInjective(x.rows)
              /\ \A c \in Range(x.rows) : Range(x.rows) = {rows[i] : i \in Group(c)}

\* SUM, MIN, MAX and COUNT of the values v: NULLs do not count, DISTINCT counts a
\* value once, no values give NULL.
Says(x, v, distinct) ==
    LET some    == {i \in DOMAIN v : v[i] # Null}
        counted == {i \in some : distinct => \A j \in some : j < i => v[j] # v[i]}
        values  == {v[i] : i \in some}
    IN  IF some = {} THEN <<x.sum, x.min, x.max>> = <<Null, Null, Null>>
        ELSE /\ x.sum = MapThenSumSet(LAMBDA i : v[i], counted)
             /\ x.min = Min(values) /\ x.max = Max(values)
             /\ distinct => x.count = Cardinality(values)

\* What a result says of the rows it is made of, for a column only one table has.
ColumnOf(x) ==
    LET t == CHOOSE u \in TablesWith(q.arg) : TRUE
    IN  [i \in DOMAIN x.rows |-> Value(x.rows[i], Col(t, q.arg))]
AggregatesOf(x) == Says(x, ColumnOf(x), q.distinct)

AggregatesRight ==
    stage = "order" /\ Cardinality(TablesWith(q.arg)) = 1 =>
        \A x \in Range(results) : AggregatesOf(x)

\* Grouping and aggregation (query.go:703-953): the groups are those of the rows
\* and each result says of its group what the aggregate means.
GroupsRight == OneRowPerGroup /\ AggregatesRight

\* ORDER BY: from smallest to largest or back, NULL below every number; rows of
\* a table that compare equal stay in the order they were inserted.
Below(v, w) == w # Null /\ (v = Null \/ v < w)

SortedAndStable ==
    LET s == IF q.aggregate THEN results ELSE rows
        InOrder(v, w) == IF q.desc THEN ~Below(v, w) ELSE ~Below(w, v)
    IN  stage = "limit" /\ q.orderBy # "none" =>
            \A a, b \in DOMAIN s : a < b =>
                /\ InOrder(SortKey(s[a]), SortKey(s[b]))
                /\ SortKey(s[a]) = SortKey(s[b]) /\ ~q.aggregate /\ q.kind = "table" =>
                      \/ s[a].l[1] < s[b].l[1]
                      \/ s[a].l[1] = s[b].l[1] /\ s[a].l[2] < s[b].l[2]

\* "Paginate through results": the pages a client fetches from a database that
\* does not change are the whole answer, no row twice and none left out.  Go
\* visits groups in another order each time: they must be ordered by their key.
\* It visits the tables of a row in another order too: the argument of an
\* aggregate must be a column only one of them has.
PagesPartition ==
    /\ stage = "answered"
    /\ Len(answers[Len(answers)]) < q.limit
    /\ faults = 0
    /\ q.aggregate => /\ q.groupBy = <<>> \/ (Len(q.groupBy) = 1 /\ q.orderBy = "key")
                      /\ Cardinality(TablesWith(q.arg)) <= 1
    => FlattenSeq(answers) = IF q.aggregate THEN results ELSE rows
=============================================================================
