----------------------------- MODULE TableStore -----------------------------
(***************************************************************************)
(* One table: its pages of rows (row.go, page.go) and the index of its     *)
(* UNIQUE column (index.go), under INSERT, UPDATE and DELETE.              *)
(*                                                                         *)
(* The table has two columns: key is UNIQUE, val is NOT NULL.  Pages are   *)
(* immutable and content addressed, so the CID of a page is the page.  A   *)
(* statement works on a copy of the table and one iteration of its loop    *)
(* over tuples or rows is one step; the copy replaces the table when the   *)
(* statement returns it, and is forgotten when it returns an error.        *)
(*                                                                         *)
(* The index is a tree of ProllyNodes, from the values of the column (Keys) *)
(* to the CIDs of pages (Values).                                          *)
(***************************************************************************)
EXTENDS ProllyNodes

CONSTANTS
    Vals,            \* values of the NOT NULL column
    Null,
    MaxRowsPerPage,  \* 100 in page.go
    MaxStatements,   \* bound: statements started
    Inserts,         \* the INSERT statements: listed columns and tuples
    Wheres,          \* WHERE clauses: each the set of rows it is true of
    Sets             \* SET clauses: a column and its new value

Columns == {"key", "val"}
Rows    == [key : Keys \cup {Null}, val : Vals \cup {Null}]
Pages   == Seq(Rows)

ASSUME TableAssumption ==
    /\ Values = Pages
    /\ Null \notin Keys \cup Vals
    /\ MaxRowsPerPage \in Nat \ {0}
    /\ MaxStatements \in Nat
    /\ \A ins \in Inserts :
          /\ ins.cols \subseteq Columns
          /\ ins.tuples \in Seq(Rows)
          /\ ins.tuples # <<>>
          /\ \A i \in DOMAIN ins.tuples : \A c \in Columns \ ins.cols :
                ins.tuples[i][c] = Null
    /\ \A w \in Wheres : w \subseteq Rows
    /\ \A s \in Sets : \/ s.col = "key" /\ s.to \in Keys \cup {Null}
                       \/ s.col = "val" /\ s.to \in Vals \cup {Null}

VARIABLES
    pages,   \* table.PageCids of the stored table
    index,   \* table.Indexes["key"] of the stored table: the root of its tree
    stmt,    \* the statement that runs, or NoStmt
    page,    \* its position: the page, or for INSERT the tuple, it is at
    row,     \* and the row of that page
    done,    \* page CIDs of its copy, as far as it has come
    buf,     \* rows of the page it is rebuilding
    ix,      \* index of its copy
    started, \* statements started so far, at most MaxStatements
    shrunk   \* history: an entry was to be deleted from a tree of several nodes

working == <<page, row, done, buf, ix>>
vars == <<pages, index, stmt, working, started, shrunk>>

NoStmt == [op |-> "none"]
Statements == [op : {"insert"}, ins : Inserts] \cup [op : {"delete"}, where : Wheres]
                  \cup [op : {"update"}, where : Wheres, set : Sets]

\* CreateIndexDB, for a table that has no rows yet.
EmptyIndex == NewProllyTree

Init ==
    /\ pages = <<>>
    /\ index = EmptyIndex
    /\ stmt = NoStmt
    /\ page = 1 /\ row = 1
    /\ done = <<>> /\ buf = <<>> /\ ix = EmptyIndex
    /\ started = 0
    /\ shrunk = FALSE

-----------------------------------------------------------------------------
(* The index.  A row without a value in the column is not in it. *)

IndexPut(x, k, cid) == IF k = Null \/ x = Panicked THEN x ELSE Put(x, k, cid)

IndexDelete(x, k, cid) == IF k = Null THEN x ELSE Delete(x, k, cid)

\* The copy gets the new index.  A panic ends the process and with it the
\* statement, as a failure does (Fail).
Reindex(x) == x # Panicked /\ ix' = x

-----------------------------------------------------------------------------
(* Execution of a statement *)

\* LoadTable: the statement starts on a copy of the table.
Start(s, pagesOfCopy) ==
    /\ stmt = NoStmt
    /\ started < MaxStatements
    /\ stmt' = s
    /\ started' = started + 1
    /\ page' = 1 /\ row' = 1
    /\ done' = pagesOfCopy /\ buf' = <<>> /\ ix' = index
    /\ UNCHANGED <<pages, index, shrunk>>

StartInsert == \E ins \in Inserts : Start([op |-> "insert", ins |-> ins], pages)

StartDelete == \E w \in Wheres : Start([op |-> "delete", where |-> w], <<>>)

StartUpdate ==
    \E w \in Wheres, s \in Sets : Start([op |-> "update", where |-> w, set |-> s], <<>>)

\* The statement returns and its local state is gone.
Finish ==
    /\ stmt' = NoStmt
    /\ UNCHANGED <<started, shrunk>>
    /\ page' = 1 /\ row' = 1
    /\ done' = <<>> /\ buf' = <<>> /\ ix' = EmptyIndex

\* An error: nothing of the copy is kept.
\* Faulty variant: the copy shared the table it was made from.
AbortKeepsIndex == Finish /\ index' = ix /\ UNCHANGED pages
Abort == Finish /\ UNCHANGED <<pages, index>>

\* An IPFS request fails, an expression of the statement cannot be evaluated, or
\* the index panics.
Fail == stmt # NoStmt /\ Abort

\* AddObject of the table: the copy becomes the table.
Commit == Finish /\ pages' = done /\ index' = ix

-----------------------------------------------------------------------------
(* InsertDB *)

Tuple == stmt.ins.tuples[page]

HasTuple == stmt.op = "insert" /\ page <= Len(stmt.ins.tuples)

\* NOT NULL and the NULL check of UNIQUE look at the listed columns only.
NullRefused == \E c \in stmt.ins.cols : Tuple[c] = Null

\* What the index has for the key; a Get that panics ends the statement too.
IsDuplicate == "key" \in stmt.ins.cols /\ Tuple.key # Null /\ Get(ix, Tuple.key) # <<>>

\* Faulty variants: a page takes one row too many; the full page is replaced.
OverfullPage(ps, r) ==
    IF ps = <<>> \/ Len(ps[Len(ps)]) > MaxRowsPerPage
    THEN Append(ps, <<r>>)
    ELSE [ps EXCEPT ![Len(ps)] = Append(@, r)]
ReplaceFullPage(ps, r) ==
    IF ps = <<>> THEN <<(<<r>>)>>
    ELSE [ps EXCEPT ![Len(ps)] = IF Len(@) >= MaxRowsPerPage THEN <<r>> ELSE Append(@, r)]
AddToLastPage(ps, r) ==
    IF ps = <<>> \/ Len(ps[Len(ps)]) >= MaxRowsPerPage
    THEN Append(ps, <<r>>)
    ELSE [ps EXCEPT ![Len(ps)] = Append(@, r)]

\* One tuple: checks, the last page or a new one, and UpdateIndexesOnInsert.
\* Faulty variant: the tuple's index entry is left for later.
InsertRowUnindexed ==
    /\ HasTuple
    /\ ~NullRefused
    /\ ~IsDuplicate
    /\ done' = AddToLastPage(done, Tuple)
    /\ page' = page + 1
    /\ UNCHANGED <<pages, index, stmt, row, buf, ix, started, shrunk>>
InsertRow ==
    /\ HasTuple
    /\ ~NullRefused
    /\ ~IsDuplicate
    /\ done' = AddToLastPage(done, Tuple)
    /\ Reindex(IndexPut(ix, Tuple.key, done'[Len(done')]))
    /\ page' = page + 1
    /\ UNCHANGED <<pages, index, stmt, row, buf, started, shrunk>>

RefuseNull == HasTuple /\ NullRefused /\ Abort

RefuseDuplicate == HasTuple /\ IsDuplicate /\ Abort

FinishInsert == stmt.op = "insert" /\ ~HasTuple /\ Commit

-----------------------------------------------------------------------------
(* DeleteDB and UpdateDB: a loop over pages and one over the rows of each *)

AtPage == stmt.op \in {"delete", "update"} /\ page <= Len(pages)
AtRow  == AtPage /\ row <= Len(pages[page])

ThisRow == pages[page][row]

Keep(r) ==
    /\ buf' = Append(buf, r)
    /\ row' = row + 1
    /\ UNCHANGED <<pages, index, stmt, page, done, started>>

\* A row the WHERE clause is not true of.
SkipRow == AtRow /\ ThisRow \notin stmt.where /\ Keep(ThisRow) /\ UNCHANGED <<ix, shrunk>>

\* History of the index: the row's entry goes.
Shrinks == shrunk' = (shrunk \/ (ThisRow.key # Null /\ ix.height > 0))

DeleteRow ==
    /\ AtRow /\ stmt.op = "delete" /\ ThisRow \in stmt.where
    /\ Reindex(IndexDelete(ix, ThisRow.key, pages[page]))
    /\ Shrinks
    /\ row' = row + 1
    /\ UNCHANGED <<pages, index, stmt, page, done, buf, started>>

\* The SET expressions, then UpdateIndexesOnDelete for the row it was and
\* UpdateIndexesOnInsert for the row it is, both under the page's old CID.
UpdateRow ==
    /\ AtRow /\ stmt.op = "update" /\ ThisRow \in stmt.where
    /\ stmt.set.to # Null
    /\ LET new == [ThisRow EXCEPT ![stmt.set.col] = stmt.set.to]
       IN  /\ Keep(new)
           /\ Reindex(IndexPut(IndexDelete(ix, ThisRow.key, pages[page]), new.key, pages[page]))
    /\ Shrinks

\* util.ToAny has no NULL: a SET to NULL is an error.
RefuseSetNull ==
    /\ AtRow /\ stmt.op = "update" /\ ThisRow \in stmt.where
    /\ stmt.set.to = Null
    /\ Abort

\* A page without rows left is dropped.
\* Faulty variant: the position in the next page is the code's, from zero.
FinishPageFromZero ==
    /\ AtPage /\ ~AtRow
    /\ done' = IF buf = <<>> THEN done ELSE Append(done, buf)
    /\ buf' = <<>>
    /\ page' = page + 1
    /\ row' = 0
    /\ UNCHANGED <<pages, index, stmt, ix, started, shrunk>>
FinishPage ==
    /\ AtPage /\ ~AtRow
    /\ done' = IF buf = <<>> THEN done ELSE Append(done, buf)
    /\ buf' = <<>>
    /\ page' = page + 1
    /\ row' = 1
    /\ UNCHANGED <<pages, index, stmt, ix, started, shrunk>>

FinishTable == stmt.op \in {"delete", "update"} /\ ~AtPage /\ Commit

-----------------------------------------------------------------------------

Next ==
    \/ StartInsert \/ StartDelete \/ StartUpdate \/ Fail
    \/ InsertRow \/ RefuseNull \/ RefuseDuplicate \/ FinishInsert
    \/ SkipRow \/ DeleteRow \/ UpdateRow \/ RefuseSetNull
    \/ FinishPage \/ FinishTable

Spec == Init /\ [][Next]_vars

-----------------------------------------------------------------------------
(* Properties *)

TypeOK ==
    /\ pages \in Seq(Pages) /\ done \in Seq(Pages) /\ buf \in Pages
    /\ index \in Nodes[index.height] /\ ix \in Nodes[ix.height]
    /\ stmt \in Statements \cup {NoStmt}
    /\ page \in Nat \ {0} /\ row \in Nat \ {0}
    /\ started \in 0..MaxStatements
    /\ shrunk \in BOOLEAN

\* Pages stay between one and MaxRowsPerPage rows, whatever statements split,
\* rebuild and drop.
PagesBounded == \A i \in DOMAIN pages : Len(pages[i]) \in 1..MaxRowsPerPage

\* The table has two rows with this value in the UNIQUE column.
Twice(k) ==
    \E i, a \in DOMAIN pages : \E j \in DOMAIN pages[i], b \in DOMAIN pages[a] :
        <<i, j>> # <<a, b>> /\ pages[i][j].key = k /\ pages[a][b].key = k

\* What UNIQUE promises (docs/ssql.md:61): no two rows have the same value.  The
\* code breaks it once the index has split: the promoted key is not found there.
Unique == \A k \in Keys : ~Twice(k)

\* What of UNIQUE is kept: two rows share a value only if it is a separator of the
\* index, as long as no UPDATE or DELETE touched an index of several nodes.
UniqueKeys == ~shrunk => \A k \in Keys : Twice(k) => k \in SeparatorsOf(index)

\* As long as that, each value of the column that is no separator has an entry in
\* the index, which is all that stands between it and a second row with it,
\* whatever pages its row has moved to and wherever statements failed.
IndexCoversRows ==
    ~shrunk =>
        \A i \in DOMAIN pages : \A j \in DOMAIN pages[i] :
            pages[i][j].key \notin SeparatorsOf(index) \cup {Null} => Get(index, pages[i][j].key) # <<>>
=============================================================================
