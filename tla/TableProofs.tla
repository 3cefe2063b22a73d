---------------------------- MODULE TableProofs -----------------------------
(***************************************************************************)
(* For any rows, pages of any size, indexes of any order and any           *)
(* statements: pages keep their size and implement the list of rows of     *)
(* LogicalTable.  What the index does for UNIQUE holds as long as no UPDATE *)
(* sets that column, no row leaves an index of several nodes, and of the   *)
(* values that are not separators of the index.                            *)
(***************************************************************************)
EXTENDS TableRefinement, NodeProofs

NoKeyUpdates == \A s \in Sets : s.col # "key"

\* The values of the column whose entries the index keeps.
Kept(x) == Keys \ SeparatorsOf(x)

SameKey(r, s, x) == r.key = s.key /\ r.key \in Kept(x)

Distinct(ps, x) ==
    \A i, a \in DOMAIN ps : \A j \in DOMAIN ps[i], b \in DOMAIN ps[a] :
        SameKey(ps[i][j], ps[a][b], x) => i = a /\ j = b

InIndex(r, x) == r.key \in Kept(x) => Get(x, r.key) # <<>>

Covered(ps, x) == \A i \in DOMAIN ps : \A j \in DOMAIN ps[i] : InIndex(ps[i][j], x)

\* An index whose leaves have one list of pages for each key.
Sane(x) == Exact(x) /\ \A k \in Kept(x) : Get(x, k) \in Seq(Values)

\* The rows a DELETE or UPDATE has still to visit.
Ahead(i, j) == i > page \/ (i = page /\ j >= row)

Scanning == stmt.op \in {"delete", "update"}

Typed == TypeOK /\ Rooted(index) /\ Rooted(ix)

Stored == Sane(index) /\ Distinct(pages, index) /\ Covered(pages, index)

\* The pages a statement has finished with are as good as stored ones, and its
\* index has every separator of the stored one.
Copied ==
    /\ Sane(ix) /\ Distinct(done, ix) /\ Covered(done, ix)
    /\ stmt.op # "none" => Kept(ix) \subseteq Kept(index)

\* Rows in the page that is being rebuilt, and rows ahead, are indexed and share
\* no key with each other or with the finished pages.
Buffered ==
    /\ \A j, b \in DOMAIN buf : SameKey(buf[j], buf[b], ix) => j = b
    /\ \A j \in DOMAIN buf : InIndex(buf[j], ix)
    /\ \A i \in DOMAIN done : \A j \in DOMAIN done[i], b \in DOMAIN buf :
          ~SameKey(done[i][j], buf[b], ix)

RowsAhead ==
    /\ \A i \in DOMAIN pages : \A j \in DOMAIN pages[i] :
          Ahead(i, j) => InIndex(pages[i][j], ix)
    /\ \A i \in DOMAIN pages : \A j \in DOMAIN pages[i], b \in DOMAIN buf :
          Ahead(i, j) => ~SameKey(pages[i][j], buf[b], ix)
    /\ \A i \in DOMAIN pages : \A j \in DOMAIN pages[i] :
          Ahead(i, j) => \A a \in DOMAIN done : \A b \in DOMAIN done[a] :
                            ~SameKey(pages[i][j], done[a][b], ix)

Scanned == Scanning => Buffered /\ RowsAhead

Right == Stored /\ Copied /\ Scanned

Inv == Typed /\ (~shrunk => Right)

-----------------------------------------------------------------------------
(* Operators *)

LEMMA StatementTypes ==
    ASSUME stmt \in Statements \cup {NoStmt}
    PROVE  /\ stmt.op = "insert" => stmt.ins \in Inserts
           /\ Scanning => stmt.where \in Wheres
           /\ stmt.op = "update" => stmt.set \in Sets
  BY DEF Statements, NoStmt, Scanning

LEMMA RootedIsNode ==
    ASSUME NEW x, Rooted(x)
    PROVE  x.height \in Nat /\ x \in Nodes[x.height] /\ x # Panicked
  <1>1. x.height \in Nat /\ x \in Nodes[x.height]
    BY SoundIsNode DEF Rooted
  <1> QED
    BY <1>1, PanickedIsNoNode

\* The empty index is sane, and keeps every value.
LEMMA EmptyIndexFacts == Rooted(EmptyIndex) /\ Sane(EmptyIndex)
  <1>1. Rooted(EmptyIndex) /\ Exact(EmptyIndex)
    BY EmptyTree DEF EmptyIndex
  <1>2. ASSUME NEW k \in Kept(EmptyIndex) PROVE Get(EmptyIndex, k) \in Seq(Values)
    <2>1. Get(EmptyIndex, k) = <<>>
      BY EmptyTree DEF EmptyIndex, Kept
    <2> QED
      BY <2>1
  <1> QED
    BY <1>1, <1>2 DEF Sane

LEMMA IndexPutType ==
    ASSUME NEW x, Rooted(x), NEW k \in Keys \cup {Null}, NEW p \in Pages,
           IndexPut(x, k, p) # Panicked
    PROVE  Rooted(IndexPut(x, k, p))
  <1>1. x # Panicked /\ p \in Values
    BY RootedIsNode, TableAssumption
  <1> QED
    BY <1>1, PutRooted DEF IndexPut

LEMMA IndexDeleteType ==
    ASSUME NEW x, Rooted(x), NEW k \in Keys \cup {Null}, NEW p \in Pages,
           IndexDelete(x, k, p) # Panicked
    PROVE  Rooted(IndexDelete(x, k, p))
  <1>1. p \in Values
    BY TableAssumption
  <1> QED
    BY <1>1, DeleteRooted DEF IndexDelete

\* IndexPut covers the row it is given, uncovers none, and may take a value from
\* those the index keeps.
LEMMA IndexPutCovers ==
    ASSUME NEW x, Rooted(x), Sane(x), NEW r \in Rows, NEW p \in Pages,
           IndexPut(x, r.key, p) # Panicked
    PROVE  LET y == IndexPut(x, r.key, p)
           IN  /\ Sane(y) /\ Kept(y) \subseteq Kept(x)
               /\ InIndex(r, y)
               /\ \A s \in Rows : InIndex(s, x) => InIndex(s, y)
  <1> DEFINE y == IndexPut(x, r.key, p)
             k == r.key
  <1>1. x # Panicked /\ p \in Values /\ k \in Keys \cup {Null} /\ Null \notin Keys
    BY RootedIsNode, TableAssumption DEF Rows
  <1>2. CASE k = Null
    <2>1. y = x
      BY <1>2 DEF IndexPut
    <2>2. k \notin Kept(y)
      BY <1>1, <1>2 DEF Kept
    <2> HIDE DEF y
    <2>3. InIndex(r, y)
      BY <2>2 DEF InIndex
    <2> QED
      BY <2>1, <2>3 DEF y
  <1>3. CASE k # Null
    <2>1. k \in Keys /\ y = Put(x, k, p)
      BY <1>1, <1>3 DEF IndexPut
    <2> HIDE DEF y, k
    <2>2. /\ Exact(y) /\ SeparatorsOf(x) \subseteq SeparatorsOf(y)
          /\ \A l \in Keys : l \notin SeparatorsOf(y) =>
                Get(y, l) = IF l = k THEN Append(Get(x, l), p) ELSE Get(x, l)
      <3>1. Put(x, k, p) # Panicked
        BY <2>1 DEF y, k
      <3> QED
        BY <1>1, <2>1, <3>1, PutKeeps DEF Sane
    <2>3. Kept(y) \subseteq Kept(x)
      BY <2>2 DEF Kept
    <2>4. \A l \in Kept(y) : l \in Keys /\ l \in Kept(x)
                             /\ Get(y, l) = IF l = k THEN Append(Get(x, l), p) ELSE Get(x, l)
      BY <2>2, <2>3 DEF Kept
    <2>5. \A l \in Kept(y) : /\ Get(y, l) \in Seq(Values)
                             /\ l = k => Get(y, l) # <<>>
                             /\ l # k => Get(y, l) = Get(x, l)
      <3> SUFFICES ASSUME NEW l \in Kept(y)
                   PROVE  /\ Get(y, l) \in Seq(Values)
                          /\ l = k => Get(y, l) # <<>>
                          /\ l # k => Get(y, l) = Get(x, l)
        OBVIOUS
      <3> DEFINE g == Get(x, l)
      <3>1. g \in Seq(Values) /\ Get(y, l) = IF l = k THEN Append(g, p) ELSE g
        BY <2>4 DEF Sane
      <3> HIDE DEF g
      <3>2. Append(g, p) \in Seq(Values) /\ Append(g, p) # <<>>
        BY <1>1, <3>1
      <3> QED
        BY <3>1, <3>2 DEF g
    <2>6. Sane(y)
      BY <2>2, <2>5 DEF Sane
    <2>7. InIndex(r, y)
      BY <2>5 DEF InIndex, k
    <2>8. \A s \in Rows : InIndex(s, x) => InIndex(s, y)
      BY <2>3, <2>5 DEF InIndex
    <2> QED
      BY <2>3, <2>6, <2>7, <2>8 DEF y, k
  <1> QED
    BY <1>2, <1>3

\* IndexDelete in an index of one leaf uncovers rows of the same key only.
LEMMA IndexDeleteKeeps ==
    ASSUME NEW x, Rooted(x), Sane(x), NEW r \in Rows, NEW p \in Pages,
           r.key = Null \/ x.height = 0
    PROVE  LET y == IndexDelete(x, r.key, p)
           IN  /\ y # Panicked /\ Sane(y) /\ Kept(y) = Kept(x)
               /\ \A s \in Rows : InIndex(s, x) /\ ~SameKey(s, r, x) => InIndex(s, y)
  <1> DEFINE y == IndexDelete(x, r.key, p)
             k == r.key
  <1>1. p \in Values /\ k \in Keys \cup {Null} /\ Null \notin Keys /\ x # Panicked
    BY RootedIsNode, TableAssumption DEF Rows
  <1>2. CASE k = Null
    <2>1. y = x
      BY <1>2 DEF IndexDelete
    <2> HIDE DEF y
    <2> QED
      BY <1>1, <2>1 DEF y
  <1>3. CASE k # Null
    <2>1. k \in Keys /\ y = Delete(x, k, p) /\ x.height = 0
      BY <1>1, <1>3 DEF IndexDelete
    <2>2. x \in Nodes[0]
      BY <2>1, RootedIsNode
    <2>3. Aligned(x)
      BY <2>2, ExactLeaf DEF Sane
    <2> HIDE DEF y, k
    <2>4. /\ y \in Nodes[0] /\ Aligned(y)
          /\ \A l \in Keys : Get(y, l) = IF l = k THEN Without(Get(x, l), p) ELSE Get(x, l)
      BY <1>1, <2>1, <2>2, <2>3, DeleteOneLeaf
    <2>5. SeparatorsOf(x) = {} /\ SeparatorsOf(y) = {} /\ Exact(y) /\ y # Panicked
      BY <2>2, <2>4, SepsLeaf, ExactLeaf, PanickedIsNoNode
    <2>6. Kept(x) = Keys /\ Kept(y) = Keys
      BY <2>5 DEF Kept
    <2>7. \A l \in Keys : Get(y, l) \in Seq(Values) /\ (l # k => Get(y, l) = Get(x, l))
      <3>1. \A l \in Keys : Get(x, l) \in Seq(Values)
        BY <2>6 DEF Sane
      <3>2. \A l \in Keys : Without(Get(x, l), p) \in Seq(Values)
        BY <3>1, WithoutIn
      <3> QED
        BY <2>4, <3>1, <3>2
    <2>8. \A s \in Rows : InIndex(s, x) /\ ~SameKey(s, r, x) => InIndex(s, y)
      BY <2>6, <2>7 DEF InIndex, SameKey, k
    <2> QED
      BY <2>5, <2>6, <2>7, <2>8 DEF Sane, y, k
  <1> QED
    BY <1>2, <1>3

LEMMA RowTypes ==
    ASSUME TypeOK, HasTuple
    PROVE  /\ Tuple \in Rows
           /\ "key" \notin stmt.ins.cols => Tuple.key = Null
  <1>1. stmt.ins \in Inserts
    BY StatementTypes DEF TypeOK, HasTuple
  <1>2. page \in DOMAIN stmt.ins.tuples /\ stmt.ins.tuples \in Seq(Rows)
    BY <1>1, TableAssumption DEF TypeOK, HasTuple
  <1>3. Tuple \in Rows
    BY <1>2 DEF Tuple
  <1>4. "key" \notin stmt.ins.cols => Tuple.key = Null
    BY <1>1, <1>2, TableAssumption DEF Tuple, Columns
  <1> QED
    BY <1>3, <1>4

\* AddToLastPage adds one row and leaves every other one where it was.
LEMMA RowAdded ==
    ASSUME NEW ps \in Seq(Pages), NEW r \in Rows
    PROVE  /\ AddToLastPage(ps, r) \in Seq(Pages)
           /\ AddToLastPage(ps, r) # <<>>
           /\ \E n, m \in Nat :
                /\ n \in DOMAIN AddToLastPage(ps, r) /\ m \in DOMAIN AddToLastPage(ps, r)[n]
                /\ AddToLastPage(ps, r)[n][m] = r
                /\ \A i \in DOMAIN AddToLastPage(ps, r) :
                     \A j \in DOMAIN AddToLastPage(ps, r)[i] :
                        \/ i = n /\ j = m
                        \/ /\ i \in DOMAIN ps /\ j \in DOMAIN ps[i]
                           /\ AddToLastPage(ps, r)[i][j] = ps[i][j]
  <1> DEFINE qs == AddToLastPage(ps, r)
             last == Len(ps)
             grown == Append(ps[last], r)
  <1>1. CASE ps = <<>> \/ Len(ps[last]) >= MaxRowsPerPage
    <2>1. qs = Append(ps, <<r>>)
      BY <1>1 DEF AddToLastPage
    <2>2. <<r>> \in Pages
      BY DEF Pages
    <2>3. /\ qs \in Seq(Pages) /\ Len(qs) = last + 1 /\ qs[last + 1] = <<r>>
          /\ \A i \in 1..last : qs[i] = ps[i]
      BY <2>1, <2>2
    <2>4. /\ last + 1 \in DOMAIN qs /\ 1 \in DOMAIN qs[last + 1]
          /\ qs[last + 1][1] = r
          /\ \A j \in DOMAIN qs[last + 1] : j = 1
      BY <2>3
    <2>5. \A i \in DOMAIN qs : i = last + 1 \/ (i \in DOMAIN ps /\ qs[i] = ps[i])
      BY <2>3
    <2> QED
      BY <2>3, <2>4, <2>5
  <1>2. CASE ~(ps = <<>> \/ Len(ps[last]) >= MaxRowsPerPage)
    <2>1. qs = [ps EXCEPT ![last] = grown]
      BY <1>2 DEF AddToLastPage
    <2>2. last \in 1..Len(ps) /\ ps[last] \in Seq(Rows)
      BY <1>2 DEF Pages
    <2>3. /\ grown \in Pages /\ Len(grown) = Len(ps[last]) + 1
          /\ grown[Len(ps[last]) + 1] = r
          /\ \A j \in 1..Len(ps[last]) : grown[j] = ps[last][j]
      BY <2>2 DEF Pages
    <2>4. /\ qs \in Seq(Pages) /\ Len(qs) = last /\ qs[last] = grown
          /\ \A i \in 1..last : i # last => qs[i] = ps[i]
      BY <2>1, <2>2, <2>3, ExceptSeq
    <2>5. /\ last \in DOMAIN qs /\ Len(ps[last]) + 1 \in DOMAIN qs[last]
          /\ qs[last][Len(ps[last]) + 1] = r
      BY <2>2, <2>3, <2>4
    <2>6. ASSUME NEW i \in DOMAIN qs, NEW j \in DOMAIN qs[i]
          PROVE  \/ i = last /\ j = Len(ps[last]) + 1
                 \/ i \in DOMAIN ps /\ j \in DOMAIN ps[i] /\ qs[i][j] = ps[i][j]
      <3>1. CASE i = last
        BY <3>1, <2>2, <2>3, <2>4
      <3>2. CASE i # last
        BY <3>2, <2>4
      <3> QED
        BY <3>1, <3>2
    <2> QED
      BY <2>2, <2>4, <2>5, <2>6
  <1> QED
    BY <1>1, <1>2
-----------------------------------------------------------------------------
(* Types *)

\* What a step leaves of the two indexes is sound if each is one that was, the
\* empty one, or sound.
LEMMA TypedNext ==
    ASSUME Typed, Rooted(index'), Rooted(ix'),
           /\ pages' \in Seq(Pages) /\ done' \in Seq(Pages) /\ buf' \in Pages
           /\ stmt' \in Statements \cup {NoStmt}
           /\ page' \in Nat \ {0} /\ row' \in Nat \ {0}
           /\ started' \in 0..MaxStatements
           /\ shrunk' \in BOOLEAN
    PROVE  Typed'
  <1>1. index' \in Nodes[index'.height] /\ ix' \in Nodes[ix'.height]
    BY RootedIsNode
  <1>2. Rooted(index)' /\ Rooted(ix)'
    BY DEF Rooted
  <1> QED
    BY <1>1, <1>2 DEF Typed, TypeOK

LEMMA StartTypes ==
    ASSUME Typed, NEW s \in Statements, NEW ps \in Seq(Pages), Start(s, ps)
    PROVE  Typed'
  <1>1. Rooted(index') /\ Rooted(ix')
    BY DEF Typed, Start
  <1>2. <<>> \in Pages
    BY DEF Pages
  <1>3. /\ pages' \in Seq(Pages) /\ done' \in Seq(Pages) /\ buf' \in Pages
        /\ stmt' \in Statements /\ page' \in Nat \ {0} /\ row' \in Nat \ {0}
        /\ started' \in 0..MaxStatements /\ shrunk' \in BOOLEAN
    BY <1>2, TableAssumption DEF Typed, TypeOK, Start
  <1> QED
    BY <1>1, <1>3, TypedNext

LEMMA FinishTypes ==
    ASSUME Typed, Finish, UNCHANGED <<pages, index>> \/ (pages' = done /\ index' = ix)
    PROVE  Typed'
  <1>1. Rooted(index') /\ Rooted(ix')
    BY EmptyIndexFacts DEF Typed, Finish
  <1>2. <<>> \in Pages /\ <<>> \in Seq(Pages)
    BY DEF Pages
  <1>3. /\ pages' \in Seq(Pages) /\ done' \in Seq(Pages) /\ buf' \in Pages
        /\ stmt' = NoStmt /\ page' \in Nat \ {0} /\ row' \in Nat \ {0}
        /\ started' \in 0..MaxStatements /\ shrunk' \in BOOLEAN
    BY <1>2 DEF Typed, TypeOK, Finish
  <1> QED
    BY <1>1, <1>3, TypedNext

\* What InsertRow puts in the index, and where.
LEMMA InsertRowForm ==
    ASSUME Typed, InsertRow
    PROVE  /\ Tuple \in Rows /\ Tuple.key \in Keys \cup {Null}
           /\ done \in Seq(Pages) /\ done' = AddToLastPage(done, Tuple)
           /\ done' \in Seq(Pages) /\ done'[Len(done')] \in Pages
           /\ ix' = IndexPut(ix, Tuple.key, done'[Len(done')]) /\ ix' # Panicked
           /\ Rooted(ix')
  <1>1. Tuple \in Rows /\ Tuple.key \in Keys \cup {Null}
    BY RowTypes DEF InsertRow, Typed, Rows
  <1>2. done \in Seq(Pages) /\ done' = AddToLastPage(done, Tuple)
    BY DEF InsertRow, Typed, TypeOK
  <1>3. done' \in Seq(Pages) /\ done'[Len(done')] \in Pages
    <2> DEFINE d == done'
    <2>1. d \in Seq(Pages) /\ d # <<>>
      BY <1>1, <1>2, RowAdded
    <2> HIDE DEF d
    <2>2. d[Len(d)] \in Pages
      BY <2>1
    <2> QED
      BY <2>1, <2>2 DEF d
  <1>4. ix' = IndexPut(ix, Tuple.key, done'[Len(done')]) /\ ix' # Panicked
    BY DEF InsertRow, Reindex
  <1>5. Rooted(ix')
    BY <1>1, <1>3, <1>4, IndexPutType DEF Typed
  <1> QED
    BY <1>1, <1>2, <1>3, <1>4, <1>5

LEMMA InsertRowTypes ==
    ASSUME Typed, InsertRow
    PROVE  Typed'
  <1>1. done' \in Seq(Pages) /\ Rooted(ix')
    BY InsertRowForm
  <1>2. Rooted(index')
    BY DEF Typed, InsertRow
  <1>3. /\ pages' \in Seq(Pages) /\ buf' \in Pages /\ stmt' \in Statements \cup {NoStmt}
        /\ page' \in Nat \ {0} /\ row' \in Nat \ {0}
        /\ started' \in 0..MaxStatements /\ shrunk' \in BOOLEAN
    BY DEF Typed, TypeOK, InsertRow
  <1> QED
    BY <1>1, <1>2, <1>3, TypedNext

\* The row a loop is at, and the index it leaves.
LEMMA AtRowTypes ==
    ASSUME TypeOK, AtRow
    PROVE  /\ page \in DOMAIN pages /\ pages[page] \in Pages /\ row \in DOMAIN pages[page]
           /\ ThisRow \in Rows /\ ThisRow.key \in Keys \cup {Null}
  <1>1. page \in DOMAIN pages /\ pages[page] \in Pages /\ row \in DOMAIN pages[page]
    BY DEF TypeOK, AtRow, AtPage, Pages
  <1>2. ThisRow \in Rows
    BY <1>1 DEF ThisRow, Pages
  <1> QED
    BY <1>1, <1>2 DEF Rows

\* The row an UPDATE makes, and what its two index operations leave.
LEMMA UpdateRowForm ==
    ASSUME Typed, UpdateRow
    PROVE  LET new == [ThisRow EXCEPT ![stmt.set.col] = stmt.set.to]
               mid == IndexDelete(ix, ThisRow.key, pages[page])
           IN  /\ AtRow /\ Keep(new) /\ stmt.set \in Sets /\ stmt.set.to # Null
               /\ new \in Rows /\ new.key \in Keys \cup {Null}
               /\ mid # Panicked /\ Rooted(mid)
               /\ ix' = IndexPut(mid, new.key, pages[page]) /\ ix' # Panicked
               /\ Rooted(ix')
  <1> DEFINE new == [ThisRow EXCEPT ![stmt.set.col] = stmt.set.to]
             mid == IndexDelete(ix, ThisRow.key, pages[page])
  <1>1. /\ AtRow /\ Keep(new) /\ stmt.set.to # Null
        /\ ix' = IndexPut(mid, new.key, pages[page]) /\ ix' # Panicked
    BY DEF UpdateRow, Reindex
  <1>2. stmt.set \in Sets
    BY StatementTypes DEF UpdateRow, Typed, TypeOK
  <1>3. pages[page] \in Pages /\ ThisRow \in Rows /\ ThisRow.key \in Keys \cup {Null}
    BY <1>1, AtRowTypes DEF Typed
  <1>4. new \in Rows /\ new.key \in Keys \cup {Null}
    <2>1. \/ stmt.set.col = "key" /\ stmt.set.to \in Keys \cup {Null}
          \/ stmt.set.col = "val" /\ stmt.set.to \in Vals \cup {Null}
      BY <1>2, TableAssumption
    <2>2. new \in Rows
      BY <1>3, <2>1 DEF Rows
    <2> QED
      BY <2>2 DEF Rows
  <1> HIDE DEF new, mid
  <1>5. mid # Panicked
    BY <1>1 DEF IndexPut
  <1>6. Rooted(mid)
    BY <1>3, <1>5, IndexDeleteType DEF Typed, mid
  <1>7. Rooted(ix')
    BY <1>1, <1>3, <1>4, <1>6, IndexPutType
  <1> QED
    BY <1>1, <1>2, <1>4, <1>5, <1>6, <1>7 DEF new, mid

LEMMA ScanTypes ==
    ASSUME Typed, SkipRow \/ DeleteRow \/ UpdateRow
    PROVE  Typed'
  <1>1. AtRow /\ row' = row + 1 /\ UNCHANGED <<pages, index, stmt, page, done, started>>
    BY DEF SkipRow, DeleteRow, UpdateRow, Keep
  <1>2. ThisRow \in Rows /\ pages[page] \in Pages /\ ThisRow.key \in Keys \cup {Null}
    BY <1>1, AtRowTypes DEF Typed
  <1>3. Rooted(index')
    BY <1>1 DEF Typed
  <1>4. /\ pages' \in Seq(Pages) /\ done' \in Seq(Pages) /\ stmt' \in Statements \cup {NoStmt}
        /\ page' \in Nat \ {0} /\ row' \in Nat \ {0} /\ started' \in 0..MaxStatements
    BY <1>1 DEF Typed, TypeOK
  <1>5. shrunk' \in BOOLEAN
    <2>1. shrunk' = shrunk \/ Shrinks
      BY DEF SkipRow, DeleteRow, UpdateRow
    <2>2. Shrinks => shrunk' \in BOOLEAN
      BY Zenon DEF Shrinks
    <2>3. shrunk \in BOOLEAN
      BY DEF Typed, TypeOK
    <2> QED
      BY <2>1, <2>2, <2>3
  <1>6. \A r \in Rows : Append(buf, r) \in Pages
    BY DEF Typed, TypeOK, Pages
  <1>7. buf' \in Pages /\ Rooted(ix')
    <2>1. CASE SkipRow
      BY <1>2, <1>6, <2>1 DEF SkipRow, Keep, Typed
    <2>2. CASE DeleteRow
      <3>1. ix' # Panicked /\ ix' = IndexDelete(ix, ThisRow.key, pages[page]) /\ buf' = buf
        BY <2>2 DEF DeleteRow, Reindex
      <3> QED
        BY <1>2, <3>1, IndexDeleteType DEF Typed, TypeOK
    <2>3. CASE UpdateRow
      <3> DEFINE new == [ThisRow EXCEPT ![stmt.set.col] = stmt.set.to]
      <3>1. Keep(new) /\ new \in Rows /\ Rooted(ix')
        BY <2>3, UpdateRowForm
      <3> HIDE DEF new
      <3> QED
        BY <1>6, <3>1 DEF Keep
    <2> QED
      BY <2>1, <2>2, <2>3
  <1> QED
    BY <1>3, <1>4, <1>5, <1>7, TypedNext

LEMMA FinishPageTypes ==
    ASSUME Typed, FinishPage
    PROVE  Typed'
  <1>1. Rooted(index') /\ Rooted(ix')
    BY DEF Typed, FinishPage
  <1>2. done' \in Seq(Pages) /\ buf' \in Pages
    BY DEF Typed, TypeOK, FinishPage, Pages
  <1>3. /\ pages' \in Seq(Pages) /\ stmt' \in Statements \cup {NoStmt}
        /\ page' \in Nat \ {0} /\ row' \in Nat \ {0}
        /\ started' \in 0..MaxStatements /\ shrunk' \in BOOLEAN
    BY DEF Typed, TypeOK, FinishPage
  <1> QED
    BY <1>1, <1>2, <1>3, TypedNext

LEMMA NextTypes ==
    ASSUME Typed, [Next]_vars
    PROVE  Typed'
  <1>1. CASE StartInsert
    <2>1. PICK ins \in Inserts : Start([op |-> "insert", ins |-> ins], pages)
      BY <1>1 DEF StartInsert
    <2>2. [op |-> "insert", ins |-> ins] \in Statements
      BY DEF Statements
    <2> QED
      BY <2>1, <2>2, StartTypes DEF Typed, TypeOK
  <1>2. CASE StartDelete
    <2>1. PICK w \in Wheres : Start([op |-> "delete", where |-> w], <<>>)
      BY <1>2 DEF StartDelete
    <2>2. [op |-> "delete", where |-> w] \in Statements
      BY DEF Statements
    <2>3. <<>> \in Seq(Pages)
      OBVIOUS
    <2> QED
      BY <2>1, <2>2, <2>3, StartTypes
  <1>3. CASE StartUpdate
    <2>1. PICK w \in Wheres, s \in Sets :
             Start([op |-> "update", where |-> w, set |-> s], <<>>)
      BY <1>3 DEF StartUpdate
    <2>2. [op |-> "update", where |-> w, set |-> s] \in Statements
      BY DEF Statements
    <2>3. <<>> \in Seq(Pages)
      OBVIOUS
    <2> QED
      BY <2>1, <2>2, <2>3, StartTypes
  <1>4. CASE Fail \/ RefuseNull \/ RefuseDuplicate \/ RefuseSetNull \/ FinishInsert \/ FinishTable
    <2>1. Finish /\ (UNCHANGED <<pages, index>> \/ (pages' = done /\ index' = ix))
      BY <1>4 DEF Fail, RefuseNull, RefuseDuplicate, RefuseSetNull, FinishInsert, FinishTable,
                  Abort, Commit
    <2> QED
      BY <2>1, FinishTypes
  <1>5. CASE UNCHANGED vars
    <2>1. Rooted(index') /\ Rooted(ix')
      BY <1>5 DEF vars, working, Typed
    <2> QED
      BY <1>5, <2>1, TypedNext DEF vars, working, Typed, TypeOK
  <1> QED
    BY <1>1, <1>2, <1>3, <1>4, <1>5, InsertRowTypes, ScanTypes, FinishPageTypes DEF Next

-----------------------------------------------------------------------------
(* The invariant, action by action.  Each lemma is about a step after which no *)
(* row has left an index of several nodes.                                     *)

LEMMA InitInv == Init => Inv
  <1> SUFFICES ASSUME Init PROVE Inv
    OBVIOUS
  <1>1. Rooted(index) /\ Rooted(ix) /\ Sane(index) /\ Sane(ix)
    BY EmptyIndexFacts DEF Init
  <1>2. TypeOK
    <2>1. index \in Nodes[index.height] /\ ix \in Nodes[ix.height]
      BY <1>1, RootedIsNode
    <2>2. <<>> \in Pages /\ <<>> \in Seq(Pages)
      BY DEF Pages
    <2>3. /\ pages \in Seq(Pages) /\ done \in Seq(Pages) /\ buf \in Pages
          /\ page \in Nat \ {0} /\ row \in Nat \ {0} /\ started \in 0..MaxStatements
      BY <2>2, TableAssumption DEF Init
    <2>4. stmt \in Statements \cup {NoStmt}
      BY DEF Init
    <2>5. shrunk \in BOOLEAN
      BY Zenon DEF Init
    <2> QED
      BY <2>1, <2>3, <2>4, <2>5 DEF TypeOK
  <1>3. Stored /\ Copied
    BY <1>1 DEF Init, Stored, Copied, Distinct, Covered, NoStmt
  <1>4. Scanned
    BY DEF Init, Scanned, Scanning, NoStmt
  <1> QED
    BY <1>1, <1>2, <1>3, <1>4 DEF Inv, Typed, Right

\* What is stored stays as good as it was.
LEMMA StoredStays ==
    ASSUME Stored, pages' = pages, index' = index
    PROVE  Stored'
  BY DEF Stored, Distinct, Covered, InIndex, SameKey, Sane, Kept

\* The end of a statement leaves no copy; what is stored is as good as before if
\* it is the same, or the copy.
LEMMA FinishRight ==
    ASSUME Right, Finish,
           \/ pages' = pages /\ index' = index
           \/ pages' = done /\ index' = ix
    PROVE  Right'
  <1>1. Stored'
    <2>1. CASE pages' = pages /\ index' = index
      BY <2>1, StoredStays DEF Right
    <2>2. CASE pages' = done /\ index' = ix
      BY <2>2 DEF Right, Copied, Stored, Distinct, Covered, InIndex, SameKey, Sane, Kept
    <2> QED
      BY <2>1, <2>2
  <1>2. Copied'
    <2>1. Sane(ix')
      BY EmptyIndexFacts DEF Finish
    <2>2. Sane(ix)'
      BY <2>1 DEF Sane, Kept
    <2> QED
      BY <2>2 DEF Finish, Copied, Distinct, Covered, NoStmt
  <1>3. Scanned'
    BY DEF Finish, Scanned, Scanning, NoStmt
  <1> QED
    BY <1>1, <1>2, <1>3 DEF Right

LEMMA StartInsertRight ==
    ASSUME Right, StartInsert
    PROVE  Right'
  <1> PICK ins \in Inserts : Start([op |-> "insert", ins |-> ins], pages)
    BY DEF StartInsert
  <1>1. Stored'
    BY StoredStays DEF Right, Start
  <1>2. Copied'
    BY DEF Start, Right, Stored, Copied, Distinct, Covered, InIndex, SameKey, Sane, Kept
  <1>3. Scanned'
    BY DEF Start, Scanned, Scanning
  <1> QED
    BY <1>1, <1>2, <1>3 DEF Right

LEMMA StartScanRight ==
    ASSUME Right, NEW s \in Statements, Start(s, <<>>)
    PROVE  Right'
  <1>1. Stored'
    BY StoredStays DEF Right, Start
  <1>2. Copied'
    BY DEF Start, Right, Stored, Copied, Distinct, Covered, Sane, Kept
  <1>3. Scanned'
    <2>1. Buffered'
      BY DEF Start, Buffered
    <2>2. RowsAhead'
      BY DEF Right, Stored, Covered, InIndex, Kept, Start, RowsAhead
    <2> QED
      BY <2>1, <2>2 DEF Scanned
  <1> QED
    BY <1>1, <1>2, <1>3 DEF Right

\* Values the index no longer keeps are no concern.
LEMMA FewerKept ==
    ASSUME NEW x, NEW y, Kept(y) \subseteq Kept(x), NEW r, NEW s, SameKey(r, s, y)
    PROVE  SameKey(r, s, x)
  BY DEF SameKey

\* The new tuple's key is in no finished page, because the index would have it.
LEMMA InsertRowRight ==
    ASSUME Typed, Right, InsertRow
    PROVE  Right'
  <1> DEFINE p == done'[Len(done')]
             y == IndexPut(ix, Tuple.key, p)
             ps == AddToLastPage(done, Tuple)
  <1>1. /\ Tuple \in Rows /\ done \in Seq(Pages) /\ p \in Pages
        /\ done' = ps /\ ix' = y /\ y # Panicked
    BY InsertRowForm
  <1>2. "key" \notin stmt.ins.cols => Tuple.key = Null
    BY RowTypes DEF InsertRow, Typed
  <1>3. /\ Sane(y) /\ Kept(y) \subseteq Kept(ix) /\ InIndex(Tuple, y)
        /\ \A s \in Rows : InIndex(s, ix) => InIndex(s, y)
    BY <1>1, IndexPutCovers DEF Typed, Right, Copied
  <1>4. PICK n, m \in Nat :
          /\ ps[n][m] = Tuple
          /\ \A i \in DOMAIN ps : \A j \in DOMAIN ps[i] :
                \/ i = n /\ j = m
                \/ i \in DOMAIN done /\ j \in DOMAIN done[i] /\ ps[i][j] = done[i][j]
    BY <1>1, RowAdded
  <1> HIDE DEF p, y, ps
  <1>5. Stored'
    BY StoredStays DEF InsertRow, Right
  <1>6. ASSUME NEW i \in DOMAIN done, NEW j \in DOMAIN done[i]
        PROVE  done[i][j] \in Rows /\ ~SameKey(done[i][j], Tuple, y)
    <2>1. Tuple.key # Null => Get(ix, Tuple.key) = <<>>
      BY <1>2 DEF InsertRow, IsDuplicate
    <2>2. InIndex(done[i][j], ix)
      BY DEF Right, Copied, Covered
    <2>3. Null \notin Kept(ix)
      BY TableAssumption DEF Kept
    <2>4. ~SameKey(done[i][j], Tuple, ix)
      BY <2>1, <2>2, <2>3 DEF SameKey, InIndex
    <2>5. done[i][j] \in Rows
      BY <1>1 DEF Pages
    <2> QED
      BY <1>3, <2>4, <2>5, FewerKept
  <1>7. Distinct(ps, y)
    <2> SUFFICES ASSUME NEW i \in DOMAIN ps, NEW a \in DOMAIN ps,
                        NEW j \in DOMAIN ps[i], NEW b \in DOMAIN ps[a],
                        SameKey(ps[i][j], ps[a][b], y)
                 PROVE  i = a /\ j = b
      BY DEF Distinct
    <2>1. SameKey(ps[i][j], ps[a][b], ix)
      BY <1>3, FewerKept
    <2>2. SameKey(ps[a][b], ps[i][j], y)
      BY DEF SameKey
    <2>3. CASE i = n /\ j = m
      BY <1>4, <1>6, <2>2, <2>3
    <2>4. CASE a = n /\ b = m
      BY <1>4, <1>6, <2>4
    <2>5. CASE /\ i \in DOMAIN done /\ j \in DOMAIN done[i] /\ ps[i][j] = done[i][j]
               /\ a \in DOMAIN done /\ b \in DOMAIN done[a] /\ ps[a][b] = done[a][b]
      BY <2>1, <2>5 DEF Right, Copied, Distinct
    <2> QED
      BY <1>4, <2>3, <2>4, <2>5
  <1>8. Covered(ps, y)
    <2> SUFFICES ASSUME NEW i \in DOMAIN ps, NEW j \in DOMAIN ps[i]
                 PROVE  InIndex(ps[i][j], y)
      BY DEF Covered
    <2>1. CASE i = n /\ j = m
      BY <1>3, <1>4, <2>1
    <2>2. CASE i \in DOMAIN done /\ j \in DOMAIN done[i] /\ ps[i][j] = done[i][j]
      <3>1. done[i][j] \in Rows /\ InIndex(done[i][j], ix)
        BY <1>6, <2>2 DEF Right, Copied, Covered
      <3> QED
        BY <1>3, <2>2, <3>1
    <2> QED
      BY <1>4, <2>1, <2>2
  <1>9. Copied'
    <2>1. stmt.op # "none" /\ stmt' = stmt /\ index' = index
      BY DEF InsertRow, HasTuple
    <2>2. Kept(y) \subseteq Kept(index)
      BY <1>3, <2>1 DEF Right, Copied
    <2>3. Sane(ix') /\ Distinct(done', ix') /\ Covered(done', ix') /\ Kept(ix') \subseteq Kept(index')
      BY <1>1, <1>3, <1>7, <1>8, <2>1, <2>2
    <2> QED
      BY <2>1, <2>3 DEF Copied, Distinct, Covered, InIndex, SameKey, Sane, Kept
  <1>10. Scanned'
    BY DEF InsertRow, HasTuple, Scanned, Scanning
  <1> QED
    BY <1>5, <1>9, <1>10 DEF Right

\* What the loops over rows know about the row they are at.
LEMMA ThisRowFacts ==
    ASSUME Typed, Right, AtRow
    PROVE  /\ ThisRow \in Rows
           /\ Buffered /\ RowsAhead /\ Ahead(page, row)
           /\ page \in DOMAIN pages /\ row \in DOMAIN pages[page]
           /\ pages[page] \in Pages
           /\ buf \in Seq(Rows)
           /\ Rooted(ix) /\ Sane(ix) /\ Kept(ix) \subseteq Kept(index)
           /\ InIndex(ThisRow, ix)
           /\ \A b \in DOMAIN buf : ~SameKey(ThisRow, buf[b], ix)
           /\ \A a \in DOMAIN done : \A b \in DOMAIN done[a] : ~SameKey(ThisRow, done[a][b], ix)
  <1>1. Buffered /\ RowsAhead /\ Kept(ix) \subseteq Kept(index)
    BY DEF Right, Copied, AtRow, AtPage, Scanned, Scanning
  <1>2. page \in DOMAIN pages /\ pages[page] \in Pages /\ row \in DOMAIN pages[page] /\ ThisRow \in Rows
    BY AtRowTypes DEF Typed
  <1>3. Ahead(page, row)
    BY DEF Typed, TypeOK, Ahead
  <1>4. /\ InIndex(ThisRow, ix)
        /\ \A b \in DOMAIN buf : ~SameKey(ThisRow, buf[b], ix)
        /\ \A a \in DOMAIN done : \A b \in DOMAIN done[a] : ~SameKey(ThisRow, done[a][b], ix)
    BY <1>1, <1>2, <1>3 DEF RowsAhead, ThisRow
  <1> QED
    BY <1>1, <1>2, <1>3, <1>4 DEF Typed, TypeOK, Right, Copied, Pages

\* The rows ahead of the loop, once it has passed a row: they do not have its key.
LEMMA StillAhead ==
    ASSUME Typed, Right, AtRow, page' = page, row' = row + 1,
           NEW i \in DOMAIN pages, NEW j \in DOMAIN pages[i], Ahead(i, j)'
    PROVE  /\ Ahead(i, j) /\ pages[i][j] \in Rows
           /\ ~SameKey(pages[i][j], ThisRow, ix)
  <1>1. i \in Nat /\ j \in Nat /\ page \in Nat /\ row \in Nat
    <2>1. pages \in Seq(Pages) /\ page \in Nat /\ row \in Nat
      BY DEF Typed, TypeOK
    <2>2. i \in 1..Len(pages) /\ pages[i] \in Seq(Rows)
      BY <2>1 DEF Pages
    <2> QED
      BY <2>1, <2>2
  <1>2. i > page \/ (i = page /\ j >= row + 1)
    BY DEF Ahead
  <1>3. Ahead(i, j) /\ ~(i = page /\ j = row)
    BY <1>1, <1>2 DEF Ahead
  <1>4. pages[i][j] \in Rows
    BY DEF Typed, TypeOK, Pages
  <1>5. ~SameKey(pages[i][j], ThisRow, index)
    <2>1. Distinct(pages, index)
      BY DEF Right, Stored
    <2>2. page \in DOMAIN pages /\ row \in DOMAIN pages[page] /\ ThisRow = pages[page][row]
      BY ThisRowFacts DEF ThisRow
    <2> QED
      BY <1>3, <2>1, <2>2 DEF Distinct
  <1> QED
    BY <1>3, <1>4, <1>5, ThisRowFacts, FewerKept

\* The row goes to buf, in a form of the same key: the index may be rewritten as long
\* as it keeps that row and every row of another key.
LEMMA KeepRight ==
    ASSUME Typed, Right, AtRow, NEW r \in Rows, r.key = ThisRow.key, Keep(r),
           Sane(ix'), Kept(ix') \subseteq Kept(ix), InIndex(r, ix'),
           \A s \in Rows : InIndex(s, ix) /\ ~SameKey(s, ThisRow, ix) => InIndex(s, ix')
    PROVE  Right'
  <1> DEFINE y == ix'
  <1>1. /\ pages' = pages /\ index' = index /\ stmt' = stmt /\ page' = page /\ done' = done
        /\ row' = row + 1 /\ buf' = Append(buf, r)
    BY DEF Keep
  <1>2. Stored'
    BY <1>1, StoredStays DEF Right
  <1>3. Kept(y) \subseteq Kept(ix) /\ Sane(y) /\ InIndex(r, y)
        /\ \A s \in Rows : InIndex(s, ix) /\ ~SameKey(s, ThisRow, ix) => InIndex(s, y)
    OBVIOUS
  <1> HIDE DEF y
  <1>4. \A s, t : SameKey(s, t, y) => SameKey(s, t, ix)
    BY <1>3, FewerKept
  <1>5. ASSUME NEW s \in Rows, InIndex(s, ix), ~SameKey(s, ThisRow, ix)
        PROVE  InIndex(s, y) /\ ~SameKey(s, r, y) /\ ~SameKey(r, s, y)
    BY <1>3, <1>4, <1>5 DEF SameKey
  <1>6. ASSUME NEW a \in DOMAIN done, NEW b \in DOMAIN done[a]
        PROVE  InIndex(done[a][b], y) /\ ~SameKey(done[a][b], r, y)
    <2>1. done[a][b] \in Rows
      BY DEF Typed, TypeOK, Pages
    <2>2. ~SameKey(done[a][b], ThisRow, ix)
      BY ThisRowFacts DEF SameKey
    <2>3. InIndex(done[a][b], ix)
      BY DEF Right, Copied, Covered
    <2> QED
      BY <1>5, <2>1, <2>2, <2>3
  <1>7. Distinct(done, y) /\ Covered(done, y)
    BY <1>4, <1>6 DEF Right, Copied, Distinct, Covered
  <1>8. Copied'
    <2>1. Kept(y) \subseteq Kept(index)
      BY <1>3, ThisRowFacts
    <2>2. Sane(y) /\ Distinct(done', y) /\ Covered(done', y) /\ Kept(y) \subseteq Kept(index')
      BY <1>1, <1>3, <1>7, <2>1
    <2> QED
      BY <2>2 DEF Copied, Distinct, Covered, InIndex, SameKey, Sane, Kept, y
  <1>9. buf \in Seq(Rows) /\ Buffered /\ RowsAhead
    BY ThisRowFacts
  <1>10. \A b \in DOMAIN buf' : (b = Len(buf) + 1 /\ buf'[b] = r) \/ (b \in DOMAIN buf /\ buf'[b] = buf[b])
    BY <1>1, <1>9
  <1>11. \A b \in DOMAIN buf : InIndex(buf[b], y) /\ ~SameKey(buf[b], r, y) /\ ~SameKey(r, buf[b], y)
    <2> TAKE b \in DOMAIN buf
    <2>1. buf[b] \in Rows /\ InIndex(buf[b], ix)
      BY <1>9 DEF Buffered
    <2>2. ~SameKey(buf[b], ThisRow, ix)
      BY ThisRowFacts DEF SameKey
    <2> QED
      BY <1>5, <2>1, <2>2
  <1>12. Buffered'
    <2>1. ASSUME NEW j \in DOMAIN buf', NEW b \in DOMAIN buf', SameKey(buf'[j], buf'[b], y)
          PROVE  j = b
      <3>1. j \in DOMAIN buf /\ b \in DOMAIN buf /\ buf'[j] = buf[j] /\ buf'[b] = buf[b] => j = b
        BY <1>4, <1>9, <2>1 DEF Buffered
      <3> QED
        BY <1>10, <1>11, <2>1, <3>1
    <2>2. \A b \in DOMAIN buf' : InIndex(buf'[b], y)
      BY <1>3, <1>10, <1>11
    <2>3. ASSUME NEW i \in DOMAIN done, NEW j \in DOMAIN done[i], NEW b \in DOMAIN buf'
          PROVE  ~SameKey(done[i][j], buf'[b], y)
      <3>1. b \in DOMAIN buf => ~SameKey(done[i][j], buf[b], y)
        BY <1>4, <1>9 DEF Buffered
      <3> QED
        BY <1>6, <1>10, <3>1
    <2> QED
      BY <1>1, <2>1, <2>2, <2>3 DEF Buffered, InIndex, SameKey, Kept, y
  <1>13. ASSUME NEW i \in DOMAIN pages, NEW j \in DOMAIN pages[i], Ahead(i, j)'
         PROVE  /\ Ahead(i, j) /\ InIndex(pages[i][j], y)
                /\ ~SameKey(pages[i][j], r, y)
    <2>1. Ahead(i, j) /\ pages[i][j] \in Rows /\ ~SameKey(pages[i][j], ThisRow, ix)
      BY <1>1, <1>13, StillAhead
    <2>2. InIndex(pages[i][j], ix)
      BY <1>9, <2>1 DEF RowsAhead
    <2> QED
      BY <1>5, <2>1, <2>2
  <1>14. RowsAhead'
    <2>1. ASSUME NEW i \in DOMAIN pages, NEW j \in DOMAIN pages[i], Ahead(i, j)', NEW b \in DOMAIN buf'
          PROVE  ~SameKey(pages[i][j], buf'[b], y)
      <3>1. b \in DOMAIN buf => ~SameKey(pages[i][j], buf[b], y)
        BY <1>4, <1>9, <1>13, <2>1 DEF RowsAhead
      <3> QED
        BY <1>10, <1>13, <2>1, <3>1
    <2>2. ASSUME NEW i \in DOMAIN pages, NEW j \in DOMAIN pages[i], Ahead(i, j)',
                 NEW a \in DOMAIN done, NEW b \in DOMAIN done[a]
          PROVE  ~SameKey(pages[i][j], done[a][b], y)
      BY <1>4, <1>9, <1>13, <2>2 DEF RowsAhead
    <2>3. \A i, j : Ahead(i, j)' <=> (i > page' \/ (i = page' /\ j >= row'))
      BY DEF Ahead
    <2> QED
      BY <1>1, <1>13, <2>1, <2>2, <2>3 DEF RowsAhead, InIndex, SameKey, Kept, y
  <1> QED
    BY <1>2, <1>8, <1>12, <1>14 DEF Right, Scanned

LEMMA SkipRowRight ==
    ASSUME Typed, Right, SkipRow
    PROVE  Right'
  <1>1. AtRow /\ Keep(ThisRow) /\ ix' = ix
    BY DEF SkipRow
  <1>2. ThisRow \in Rows /\ Sane(ix) /\ InIndex(ThisRow, ix)
    BY <1>1, ThisRowFacts
  <1> QED
    BY <1>1, <1>2, KeepRight

\* While no row leaves an index of several nodes, a row that leaves the index leaves
\* one leaf, or was not in it.
LEMMA OneLeaf ==
    ASSUME Typed, Shrinks, ~shrunk'
    PROVE  ThisRow.key = Null \/ ix.height = 0
  <1>1. ~(ThisRow.key # Null /\ ix.height > 0)
    BY Zenon DEF Shrinks
  <1>2. ix.height \in Nat
    BY RootedIsNode DEF Typed
  <1> QED
    BY <1>1, <1>2

\* An UPDATE of another column takes the row's index entry away and puts it back.
LEMMA UpdateRowRight ==
    ASSUME NoKeyUpdates, Typed, Right, UpdateRow, ~shrunk'
    PROVE  Right'
  <1> DEFINE new == [ThisRow EXCEPT ![stmt.set.col] = stmt.set.to]
             cid == pages[page]
             mid == IndexDelete(ix, ThisRow.key, cid)
             y == IndexPut(mid, new.key, cid)
  <1>1. /\ AtRow /\ Keep(new) /\ stmt.set \in Sets /\ new \in Rows
        /\ Rooted(mid) /\ ix' = y /\ y # Panicked
    BY UpdateRowForm
  <1>2. cid \in Pages /\ ThisRow \in Rows /\ Rooted(ix) /\ Sane(ix)
    BY <1>1, ThisRowFacts
  <1>3. new.key = ThisRow.key
    <2>1. stmt.set.col = "val"
      BY <1>1, TableAssumption DEF NoKeyUpdates
    <2> QED
      BY <1>2, <2>1 DEF Rows
  <1>4. ThisRow.key = Null \/ ix.height = 0
    BY OneLeaf DEF UpdateRow
  <1>5. /\ Sane(mid) /\ Kept(mid) = Kept(ix)
        /\ \A s \in Rows : InIndex(s, ix) /\ ~SameKey(s, ThisRow, ix) => InIndex(s, mid)
    BY <1>2, <1>4, IndexDeleteKeeps
  <1> HIDE DEF new, cid, mid
  <1>6. /\ Sane(y) /\ Kept(y) \subseteq Kept(mid) /\ InIndex(new, y)
        /\ \A s \in Rows : InIndex(s, mid) => InIndex(s, y)
    BY <1>1, <1>2, <1>5, IndexPutCovers
  <1> HIDE DEF y
  <1>7. Kept(y) \subseteq Kept(ix)
        /\ \A s \in Rows : InIndex(s, ix) /\ ~SameKey(s, ThisRow, ix) => InIndex(s, y)
    BY <1>5, <1>6
  <1> QED
    BY <1>1, <1>3, <1>6, <1>7, KeepRight

\* The deleted row's entry goes; no other row that remains has its key.
LEMMA DeleteRowRight ==
    ASSUME Typed, Right, DeleteRow, ~shrunk'
    PROVE  Right'
  <1> DEFINE y == IndexDelete(ix, ThisRow.key, pages[page])
  <1>1. /\ AtRow /\ pages' = pages /\ index' = index /\ stmt' = stmt /\ page' = page
        /\ done' = done /\ buf' = buf /\ row' = row + 1 /\ ix' = y
    BY DEF DeleteRow, Reindex
  <1>2. ThisRow.key = Null \/ ix.height = 0
    BY OneLeaf DEF DeleteRow
  <1>3. /\ Sane(y) /\ Kept(y) = Kept(ix)
        /\ \A s \in Rows : InIndex(s, ix) /\ ~SameKey(s, ThisRow, ix) => InIndex(s, y)
    BY <1>1, <1>2, ThisRowFacts, IndexDeleteKeeps
  <1> HIDE DEF y
  <1>4. \A s, t : SameKey(s, t, y) <=> SameKey(s, t, ix)
    BY <1>3 DEF SameKey
  <1>5. Buffered /\ RowsAhead /\ buf \in Seq(Rows)
    BY <1>1, ThisRowFacts
  <1>6. Stored'
    BY <1>1, StoredStays DEF Right
  <1>7. Copied'
    <2>1. ASSUME NEW a \in DOMAIN done, NEW b \in DOMAIN done[a]
          PROVE  InIndex(done[a][b], y)
      <3>1. done[a][b] \in Rows
        BY DEF Typed, TypeOK, Pages
      <3>2. ~SameKey(done[a][b], ThisRow, ix)
        BY <1>1, ThisRowFacts DEF SameKey
      <3>3. InIndex(done[a][b], ix)
        BY DEF Right, Copied, Covered
      <3> QED
        BY <1>3, <3>1, <3>2, <3>3
    <2>2. Distinct(done, y)
      BY <1>4 DEF Right, Copied, Distinct
    <2>3. Sane(y) /\ Distinct(done', y) /\ Covered(done', y) /\ Kept(y) \subseteq Kept(index')
      BY <1>1, <1>3, <2>1, <2>2, ThisRowFacts DEF Covered
    <2> QED
      BY <1>1, <2>3 DEF Copied, Distinct, Covered, InIndex, SameKey, Sane, Kept
  <1>8. Buffered'
    <2>1. ASSUME NEW b \in DOMAIN buf
          PROVE  InIndex(buf[b], y)
      <3>1. buf[b] \in Rows /\ ~SameKey(buf[b], ThisRow, ix) /\ InIndex(buf[b], ix)
        BY <1>1, <1>5, ThisRowFacts DEF SameKey, Buffered
      <3> QED
        BY <1>3, <3>1
    <2>2. \A j, b \in DOMAIN buf : SameKey(buf[j], buf[b], y) => j = b
      BY <1>4, <1>5 DEF Buffered
    <2>3. \A i \in DOMAIN done : \A j \in DOMAIN done[i], b \in DOMAIN buf : ~SameKey(done[i][j], buf[b], y)
      BY <1>4, <1>5 DEF Buffered
    <2> QED
      BY <1>1, <2>1, <2>2, <2>3 DEF Buffered, InIndex, SameKey, Kept
  <1>9. ASSUME NEW i \in DOMAIN pages, NEW j \in DOMAIN pages[i], Ahead(i, j)'
        PROVE  Ahead(i, j) /\ InIndex(pages[i][j], y)
    <2>1. Ahead(i, j) /\ pages[i][j] \in Rows /\ ~SameKey(pages[i][j], ThisRow, ix)
      BY <1>1, <1>9, StillAhead
    <2>2. InIndex(pages[i][j], ix)
      BY <1>5, <2>1 DEF RowsAhead
    <2> QED
      BY <1>3, <2>1, <2>2
  <1>10. RowsAhead'
    <2>1. ASSUME NEW i \in DOMAIN pages, NEW j \in DOMAIN pages[i], Ahead(i, j)', NEW b \in DOMAIN buf
          PROVE  ~SameKey(pages[i][j], buf[b], y)
      BY <1>4, <1>5, <1>9, <2>1 DEF RowsAhead
    <2>2. ASSUME NEW i \in DOMAIN pages, NEW j \in DOMAIN pages[i], Ahead(i, j)',
                 NEW a \in DOMAIN done, NEW b \in DOMAIN done[a]
          PROVE  ~SameKey(pages[i][j], done[a][b], y)
      BY <1>4, <1>5, <1>9, <2>2 DEF RowsAhead
    <2>3. \A i, j : Ahead(i, j)' <=> (i > page' \/ (i = page' /\ j >= row'))
      BY DEF Ahead
    <2> QED
      BY <1>1, <1>9, <2>1, <2>2, <2>3 DEF RowsAhead, InIndex, SameKey, Kept
  <1> QED
    BY <1>6, <1>7, <1>8, <1>10 DEF Right, Scanned

\* buf becomes the last finished page, and the row pointer moves to the next page.
LEMMA FinishPageRight ==
    ASSUME Typed, Right, FinishPage
    PROVE  Right'
  <1>1. /\ pages \in Seq(Pages) /\ done \in Seq(Pages) /\ buf \in Seq(Rows)
        /\ page \in Nat \ {0} /\ row \in Nat \ {0}
    BY DEF Typed, TypeOK, Pages
  <1>2. Buffered /\ RowsAhead
    BY DEF Right, FinishPage, AtPage, Scanned, Scanning
  <1>3. /\ pages' = pages /\ index' = index /\ stmt' = stmt /\ ix' = ix
        /\ page' = page + 1 /\ row' = 1 /\ buf' = <<>>
    BY DEF FinishPage
  <1>4. \A a \in DOMAIN done' :
           \/ a \in DOMAIN done /\ done'[a] = done[a]
           \/ a = Len(done) + 1 /\ done'[a] = buf
    BY <1>1 DEF FinishPage, Pages
  <1>5. Stored'
    BY <1>3, StoredStays DEF Right
  <1>6. Distinct(done', ix)
    <2> SUFFICES ASSUME NEW a \in DOMAIN done', NEW c \in DOMAIN done',
                        NEW b \in DOMAIN done'[a], NEW d \in DOMAIN done'[c],
                        SameKey(done'[a][b], done'[c][d], ix)
                 PROVE  a = c /\ b = d
      BY DEF Distinct
    <2>1. CASE /\ a \in DOMAIN done /\ done'[a] = done[a]
               /\ c \in DOMAIN done /\ done'[c] = done[c]
      BY <2>1 DEF Right, Copied, Distinct
    <2>2. CASE /\ a \in DOMAIN done /\ done'[a] = done[a]
               /\ c = Len(done) + 1 /\ done'[c] = buf
      BY <2>2, <1>2 DEF Buffered
    <2>3. CASE /\ a = Len(done) + 1 /\ done'[a] = buf
               /\ c \in DOMAIN done /\ done'[c] = done[c]
      BY <2>3, <1>2 DEF Buffered, SameKey
    <2>4. CASE /\ a = Len(done) + 1 /\ done'[a] = buf
               /\ c = Len(done) + 1 /\ done'[c] = buf
      BY <2>4, <1>2 DEF Buffered
    <2> QED
      BY <2>1, <2>2, <2>3, <2>4, <1>4
  <1>7. Covered(done', ix)
    <2> SUFFICES ASSUME NEW a \in DOMAIN done', NEW b \in DOMAIN done'[a]
                 PROVE  InIndex(done'[a][b], ix)
      BY DEF Covered
    <2>1. CASE a \in DOMAIN done /\ done'[a] = done[a]
      BY <2>1 DEF Right, Copied, Covered
    <2>2. CASE done'[a] = buf
      BY <2>2, <1>2 DEF Buffered
    <2> QED
      BY <1>4, <2>1, <2>2
  <1>8. Copied'
    <2>1. stmt.op # "none" => Kept(ix) \subseteq Kept(index)
      BY DEF Right, Copied
    <2>2. Sane(ix)
      BY DEF Right, Copied
    <2> QED
      BY <1>3, <1>6, <1>7, <2>1, <2>2 DEF Copied, Distinct, Covered, InIndex, SameKey, Sane, Kept
  <1>9. Buffered'
    BY <1>3 DEF Buffered
  <1>10. ASSUME NEW i \in DOMAIN pages, NEW j \in DOMAIN pages[i], Ahead(i, j)'
         PROVE  Ahead(i, j)
    <2>1. i \in Nat /\ j \in Nat
      BY <1>1 DEF Pages
    <2>2. i > page + 1 \/ (i = page + 1 /\ j >= 1)
      BY <1>3, <1>10 DEF Ahead
    <2> QED
      BY <2>1, <2>2, <1>1 DEF Ahead
  <1>11. RowsAhead'
    <2>1. \A i \in DOMAIN pages : \A j \in DOMAIN pages[i] :
             Ahead(i, j)' => InIndex(pages[i][j], ix)
      BY <1>2, <1>10 DEF RowsAhead
    <2>2. ASSUME NEW i \in DOMAIN pages, NEW j \in DOMAIN pages[i], Ahead(i, j)',
                 NEW a \in DOMAIN done', NEW b \in DOMAIN done'[a]
          PROVE  ~SameKey(pages[i][j], done'[a][b], ix)
      BY <1>2, <1>4, <1>10, <2>2 DEF RowsAhead
    <2>3. \A i, j : Ahead(i, j)' <=> (i > page' \/ (i = page' /\ j >= row'))
      BY DEF Ahead
    <2> QED
      BY <1>3, <2>1, <2>2, <2>3 DEF RowsAhead, InIndex, SameKey, Kept
  <1> QED
    BY <1>5, <1>8, <1>9, <1>11 DEF Right, Scanned

LEMMA StutterRight ==
    ASSUME Right, UNCHANGED vars
    PROVE  Right'
  <1>1. Stored'
    BY StoredStays DEF vars, Right
  <1>2. Copied'
    BY DEF vars, working, Right, Copied, Distinct, Covered, InIndex, SameKey, Sane, Kept
  <1>3. Buffered => Buffered'
    BY DEF vars, working, Buffered, InIndex, SameKey, Kept
  <1>4. RowsAhead => RowsAhead'
    BY DEF vars, working, RowsAhead, Ahead, InIndex, SameKey, Kept
  <1> QED
    BY <1>1, <1>2, <1>3, <1>4 DEF vars, Right, Scanned, Scanning

LEMMA NextRight ==
    ASSUME NoKeyUpdates, Typed, Right, [Next]_vars, ~shrunk'
    PROVE  Right'
  <1>1. CASE StartDelete
    <2>1. PICK w \in Wheres : Start([op |-> "delete", where |-> w], <<>>)
      BY <1>1 DEF StartDelete
    <2>2. [op |-> "delete", where |-> w] \in Statements
      BY DEF Statements
    <2> QED
      BY <2>1, <2>2, StartScanRight
  <1>2. CASE StartUpdate
    <2>1. PICK w \in Wheres, s \in Sets :
             Start([op |-> "update", where |-> w, set |-> s], <<>>)
      BY <1>2 DEF StartUpdate
    <2>2. [op |-> "update", where |-> w, set |-> s] \in Statements
      BY DEF Statements
    <2> QED
      BY <2>1, <2>2, StartScanRight
  <1>3. CASE Fail \/ RefuseNull \/ RefuseDuplicate \/ RefuseSetNull
    BY <1>3, FinishRight DEF Fail, RefuseNull, RefuseDuplicate, RefuseSetNull, Abort
  <1>4. CASE FinishInsert \/ FinishTable
    BY <1>4, FinishRight DEF FinishInsert, FinishTable, Commit
  <1> QED
    BY <1>1, <1>2, <1>3, <1>4, StartInsertRight, InsertRowRight, SkipRowRight, DeleteRowRight,
       UpdateRowRight, FinishPageRight, StutterRight DEF Next

\* Once a row has left an index of several nodes, that stays so.
LEMMA ShrunkStays ==
    ASSUME [Next]_vars, ~shrunk'
    PROVE  ~shrunk
  <1>1. CASE DeleteRow \/ UpdateRow
    <2>1. Shrinks
      BY <1>1 DEF DeleteRow, UpdateRow
    <2> QED
      BY <2>1, Zenon DEF Shrinks
  <1>2. CASE ~(DeleteRow \/ UpdateRow)
    <2>1. shrunk' = shrunk
      BY <1>2 DEF Next, vars, StartInsert, StartDelete, StartUpdate, Start, Fail, InsertRow, RefuseNull,
                  RefuseDuplicate, FinishInsert, SkipRow, RefuseSetNull, FinishPage, FinishTable, Abort,
                  Commit, Finish
    <2> QED
      BY <2>1
  <1> QED
    BY <1>1, <1>2

LEMMA NextInv ==
    ASSUME NoKeyUpdates, Inv, [Next]_vars
    PROVE  Inv'
  <1>1. Typed'
    BY NextTypes DEF Inv
  <1>2. ASSUME ~shrunk' PROVE Right'
    <2>1. Right
      BY <1>2, ShrunkStays DEF Inv
    <2> QED
      BY <1>2, <2>1, NextRight DEF Inv
  <1> QED
    BY <1>1, <1>2 DEF Inv

-----------------------------------------------------------------------------
(* Page sizes *)

SizedPages(ps) == \A i \in DOMAIN ps : Len(ps[i]) \in 1..MaxRowsPerPage

\* A page is rebuilt from no more rows than it had.
SizedBuf ==
    Scanning =>
        /\ Len(buf) < row
        /\ page \in DOMAIN pages => row <= Len(pages[page]) + 1

Sizes == Typed /\ SizedPages(pages) /\ SizedPages(done) /\ SizedBuf

LEMMA AddToLastPageSized ==
    ASSUME NEW ps \in Seq(Pages), NEW r \in Rows, SizedPages(ps)
    PROVE  SizedPages(AddToLastPage(ps, r))
  <1> DEFINE qs == AddToLastPage(ps, r)
             last == Len(ps)
  <1> USE TableAssumption
  <1>1. CASE ps = <<>> \/ Len(ps[last]) >= MaxRowsPerPage
    <2>1. qs = Append(ps, <<r>>) /\ Len(<<r>>) = 1
      BY <1>1 DEF AddToLastPage
    <2>2. \A i \in DOMAIN qs : qs[i] = <<r>> \/ (i \in DOMAIN ps /\ qs[i] = ps[i])
      BY <2>1 DEF Pages
    <2> QED
      BY <2>1, <2>2 DEF SizedPages
  <1>2. CASE ~(ps = <<>> \/ Len(ps[last]) >= MaxRowsPerPage)
    <2>1. last \in DOMAIN ps /\ ps[last] \in Seq(Rows)
      BY <1>2 DEF Pages
    <2>2. Len(Append(ps[last], r)) \in 1..MaxRowsPerPage
      BY <1>2, <2>1
    <2>3. qs = [ps EXCEPT ![last] = Append(ps[last], r)]
      BY <1>2 DEF AddToLastPage
    <2>4. \A i \in DOMAIN qs : qs[i] = Append(ps[last], r) \/ (i \in DOMAIN ps /\ qs[i] = ps[i])
      BY <2>1, <2>3
    <2> QED
      BY <2>2, <2>4 DEF SizedPages
  <1> QED
    BY <1>1, <1>2

LEMMA NextSizes ==
    ASSUME Sizes, [Next]_vars
    PROVE  Sizes'
  <1> USE NextTypes DEF Sizes, Typed
  <1>1. ASSUME NEW s, NEW ps \in {<<>>, pages}, Start(s, ps)
        PROVE  Sizes'
    <2>1. SizedPages(pages)' /\ SizedPages(done)'
      BY <1>1 DEF Start, SizedPages
    <2>2. SizedBuf'
      BY <1>1 DEF Start, SizedBuf, TypeOK, Pages
    <2> QED
      BY <2>1, <2>2
  <1>2. CASE Fail \/ RefuseNull \/ RefuseDuplicate \/ RefuseSetNull \/ FinishInsert \/ FinishTable
    <2>1. Finish /\ (pages' = pages \/ pages' = done)
      BY <1>2 DEF Fail, RefuseNull, RefuseDuplicate, RefuseSetNull, FinishInsert, FinishTable,
                  Abort, Commit
    <2> QED
      BY <2>1 DEF Finish, SizedPages, SizedBuf, Scanning, NoStmt
  <1>3. CASE InsertRow
    <2>1. Tuple \in Rows
      BY <1>3, RowTypes DEF InsertRow
    <2>2. SizedPages(AddToLastPage(done, Tuple))
      BY <2>1, AddToLastPageSized DEF TypeOK
    <2> QED
      BY <1>3, <2>2 DEF InsertRow, HasTuple, SizedPages, SizedBuf, Scanning
  <1>4. CASE SkipRow \/ UpdateRow \/ DeleteRow
    <2>1. AtRow /\ row' = row + 1 /\ UNCHANGED <<pages, stmt, page, done>>
      BY <1>4 DEF SkipRow, UpdateRow, DeleteRow, Keep
    <2>2. Len(buf') <= Len(buf) + 1
      BY <1>4 DEF SkipRow, UpdateRow, DeleteRow, Keep, TypeOK, Pages
    <2>3. page \in DOMAIN pages /\ row <= Len(pages[page]) /\ Len(pages[page]) \in Nat
      BY <2>1 DEF AtRow, AtPage, TypeOK, Pages
    <2>4. Len(buf) < row /\ Len(buf) \in Nat /\ Len(buf') \in Nat /\ row \in Nat
      BY <2>1 DEF AtRow, AtPage, SizedBuf, Scanning, TypeOK, Pages
    <2> QED
      BY <2>1, <2>2, <2>3, <2>4 DEF SizedPages, SizedBuf
  <1>5. CASE FinishPage
    <2>1. page \in DOMAIN pages /\ ~(row <= Len(pages[page])) /\ Len(pages[page]) \in 1..MaxRowsPerPage
      BY <1>5 DEF FinishPage, AtRow, AtPage, TypeOK, SizedPages
    <2>2. Len(buf) < row /\ row <= Len(pages[page]) + 1
      BY <1>5, <2>1 DEF FinishPage, AtPage, SizedBuf, Scanning
    <2>3. buf = <<>> \/ Len(buf) \in 1..MaxRowsPerPage
      BY <2>1, <2>2, TableAssumption, SMTT(60) DEF TypeOK, Pages
    <2>4. \A i \in DOMAIN done' : \/ i \in DOMAIN done /\ done'[i] = done[i]
                                  \/ buf # <<>> /\ done'[i] = buf
      BY <1>5 DEF FinishPage, TypeOK, Pages
    <2>5. SizedPages(pages)' /\ SizedPages(done)'
      BY <1>5, <2>3, <2>4 DEF FinishPage, SizedPages
    <2>6. SizedBuf'
      BY <1>5, TableAssumption DEF FinishPage, SizedBuf, SizedPages, TypeOK, Pages
    <2> QED
      BY <2>5, <2>6
  <1>6. CASE UNCHANGED vars
    BY <1>6 DEF vars, working, SizedPages, SizedBuf, Scanning
  <1> QED
    BY <1>1, <1>2, <1>3, <1>4, <1>5, <1>6 DEF Next, StartInsert, StartDelete, StartUpdate

-----------------------------------------------------------------------------
(* Statements against LogicalTable. INSERT works on a copy of all pages, DELETE and   *)
(* UPDATE on a copy of one: in between, the copies hold what the statement   *)
(* makes of the rows it has seen (Progress).                                 *)

\* The rows of a list of pages, and the row added at the end of its last page.
LEMMA FlattenAddToLastPage ==
    ASSUME NEW ps \in Seq(Seq(Rows)), NEW r \in Rows
    PROVE  FlattenSeq(AddToLastPage(ps, r)) = Append(FlattenSeq(ps), r)
  <1>1. CASE ps = <<>> \/ Len(ps[Len(ps)]) >= MaxRowsPerPage
    <2>1. AddToLastPage(ps, r) = Append(ps, <<r>>)
      BY <1>1 DEF AddToLastPage
    <2>2. <<r>> \in Seq(Rows)
      OBVIOUS
    <2>3. FlattenSeq(Append(ps, <<r>>)) = FlattenSeq(ps) \o <<r>>
      BY <2>2, FlattenAppend
    <2>4. FlattenSeq(ps) \in Seq(Rows)
      BY FlattenType
    <2> QED
      BY <2>1, <2>3, <2>4
  <1>2. CASE ~(ps = <<>> \/ Len(ps[Len(ps)]) >= MaxRowsPerPage)
    <2> DEFINE P == Seq(Rows)
               n == Len(ps)
               front == SubSeq(ps, 1, n - 1)
    <2>1. n \in DOMAIN ps /\ front \in Seq(P) /\ ps[n] \in Seq(Rows) /\ Append(ps[n], r) \in Seq(Rows)
      BY <1>2
    <2>2. ps = Append(front, ps[n])
      <3> HIDE DEF P
      <3> QED
        BY <1>2
    <2>3. AddToLastPage(ps, r) = Append(front, Append(ps[n], r))
      <3>1. AddToLastPage(ps, r) = [ps EXCEPT ![n] = Append(@, r)]
        BY <1>2 DEF AddToLastPage
      <3>2. ps \in Seq(P) /\ Append(ps[n], r) \in P
        BY <2>1
      <3>3. ps # <<>>
        BY <1>2
      <3> HIDE DEF P
      <3>4. [ps EXCEPT ![n] = Append(@, r)] = Append(front, Append(ps[n], r))
        <4> DEFINE q == Append(ps[n], r)
                   s1 == [ps EXCEPT ![n] = q]
                   s2 == Append(front, q)
        <4>1. q \in P /\ n \in Nat /\ n # 0 /\ front \in Seq(P) /\ Len(front) = n - 1
              /\ \A i \in 1..(n - 1) : front[i] = ps[i]
          <5>1. q \in P
            BY <3>2
          <5>2. n \in Nat /\ n # 0 /\ n - 1 \in 0..Len(ps)
            BY <3>2, <3>3
          <5>3. front \in Seq(P) /\ Len(front) = n - 1 /\ \A i \in 1..(n - 1) : front[i] = ps[i]
            <6>1. 1 \in 1..(Len(ps) + 1) /\ n - 1 \in (1 - 1)..Len(ps) /\ ps \in Seq(P)
              BY <3>2, <5>2
            <6> HIDE DEF q, n
            <6>2. /\ front \in Seq(P) /\ Len(front) = (n - 1) - 1 + 1
                  /\ \A i \in 1..((n - 1) - 1 + 1) : front[i] = ps[1 + i - 1]
              BY <6>1, SubSeqProperties
            <6>3. (n - 1) - 1 + 1 = n - 1 /\ \A i \in Int : 1 + i - 1 = i
              BY <5>2
            <6> QED
              BY <6>2, <6>3
          <5> QED
            BY <5>1, <5>2, <5>3
        <4> HIDE DEF q, front
        <4>2. s1 \in Seq(P) /\ Len(s1) = n /\ s1[n] = q /\ \A i \in 1..(n - 1) : s1[i] = ps[i]
          BY <3>2, <4>1
        <4>3. s2 \in Seq(P) /\ Len(s2) = n /\ s2[n] = q /\ \A i \in 1..(n - 1) : s2[i] = ps[i]
          BY <4>1
        <4> HIDE DEF s1, s2, n
        <4>4. \A i \in 1..n : s1[i] = s2[i]
          BY <4>1, <4>2, <4>3
        <4>5. s1 = s2
          BY <4>2, <4>3, <4>4, SeqEqual
        <4> QED
          BY <4>5 DEF s1, s2, q
      <3> QED
        BY <3>1, <3>4
    <2> HIDE DEF front, n
    <2>4. FlattenSeq(ps) = FlattenSeq(front) \o ps[n]
      BY <2>1, <2>2, FlattenAppend
    <2>5. FlattenSeq(AddToLastPage(ps, r)) = FlattenSeq(front) \o Append(ps[n], r)
      BY <2>1, <2>3, FlattenAppend
    <2>6. FlattenSeq(front) \in Seq(Rows)
      BY <2>1, FlattenType
    <2>7. FlattenSeq(front) \o Append(ps[n], r) = Append(FlattenSeq(front) \o ps[n], r)
      BY <2>1, <2>6, SMTT(60)
    <2> QED
      BY <2>4, <2>5, <2>7
  <1> QED
    BY <1>1, <1>2

LEMMA SameFlatten == ASSUME NEW s PROVE Table!FlattenSeq(s) = FlattenSeq(s)
  BY Zenon DEF Table!FlattenSeq, FlattenSeq

\* What DELETE and UPDATE make of one row more.
LEMMA WithoutAppend ==
    ASSUME NEW rs \in Seq(Rows), NEW r \in Rows, NEW w
    PROVE  Table!Without(Append(rs, r), w)
             = IF r \in w THEN Table!Without(rs, w) ELSE Append(Table!Without(rs, w), r)
  <1> DEFINE F(s) == [i \in DOMAIN s |-> IF s[i] \in w THEN <<>> ELSE <<s[i]>>]
             p == IF r \in w THEN <<>> ELSE <<r>>
  <1>1. F(rs) \in Seq(Seq(Rows)) /\ p \in Seq(Rows)
    <2>1. \A x \in Rows : <<>> \in Seq(Rows) /\ <<x>> \in Seq(Rows)
      OBVIOUS
    <2> DEFINE P == Seq(Rows)
    <2>2. \A i \in DOMAIN rs : (IF rs[i] \in w THEN <<>> ELSE <<rs[i]>>) \in P
      BY <2>1
    <2>3. DOMAIN rs = 1..Len(rs) /\ Len(rs) \in Nat
      OBVIOUS
    <2> HIDE DEF P
    <2>4. F(rs) \in Seq(P)
      BY <2>2, <2>3, IsASeq
    <2> QED
      BY <2>1, <2>4 DEF P
  <1>2. F(Append(rs, r)) = Append(F(rs), p)
    OBVIOUS
  <1> HIDE DEF F
  <1>3. FlattenSeq(F(Append(rs, r))) = FlattenSeq(F(rs)) \o p
    BY <1>1, <1>2, FlattenAppend
  <1>4. FlattenSeq(F(rs)) \in Seq(Rows)
    BY <1>1, FlattenType
  <1>5. FlattenSeq(F(rs)) \o p
          = IF r \in w THEN FlattenSeq(F(rs)) ELSE Append(FlattenSeq(F(rs)), r)
    BY <1>4
  <1> QED
    BY <1>3, <1>5, SameFlatten DEF F, Table!Without

LEMMA WithoutEmpty == ASSUME NEW w PROVE Table!Without(<<>>, w) = <<>>
  <1>1. [i \in DOMAIN <<>> |-> IF (<<>>)[i] \in w THEN <<>> ELSE <<(<<>>)[i]>>] = <<>>
    OBVIOUS
  <1> QED
    BY <1>1, FlattenEmpty, SameFlatten DEF Table!Without

NewRow(r, s) == [r EXCEPT ![s.col] = s.to]

LEMMA ChangedAppend ==
    ASSUME NEW rs \in Seq(Rows), NEW r \in Rows, NEW w, NEW s
    PROVE  /\ r \notin w =>
                Table!Changed(Append(rs, r), w, s) = Append(Table!Changed(rs, w, s), r)
           /\ r \in w =>
                Table!Changed(Append(rs, r), w, s)
                  = Append(Table!Changed(rs, w, s), NewRow(r, s))
  <1> DEFINE New(x) == IF x \in w THEN NewRow(x, s) ELSE x
             S == {New(x) : x \in Rows}
             cs == [i \in DOMAIN rs |-> New(rs[i])]
  <1>1. Table!Changed(rs, w, s) = cs
        /\ Table!Changed(Append(rs, r), w, s) = [i \in DOMAIN Append(rs, r) |-> New(Append(rs, r)[i])]
    BY DEF Table!Changed, NewRow
  <1> HIDE DEF New
  <1>2. New(r) \in S /\ \A i \in DOMAIN rs : New(rs[i]) \in S
    OBVIOUS
  <1> HIDE DEF S
  <1>3. cs \in Seq(S) /\ Len(cs) = Len(rs) /\ \A i \in DOMAIN rs : cs[i] = New(rs[i])
    <2>1. DOMAIN rs = 1..Len(rs) /\ Len(rs) \in Nat
      OBVIOUS
    <2> QED
      BY <1>2, <2>1, IsASeq
  <1> HIDE DEF cs
  <1>4. [i \in DOMAIN Append(rs, r) |-> New(Append(rs, r)[i])] = Append(cs, New(r))
    <2> DEFINE n == Len(rs)
               s1 == Append(rs, r)
               s2 == [i \in DOMAIN s1 |-> New(s1[i])]
               s3 == Append(cs, New(r))
    <2>1. /\ n \in Nat /\ DOMAIN s1 = 1..(n + 1) /\ s1[n + 1] = r
          /\ \A i \in 1..n : i \in DOMAIN rs /\ s1[i] = rs[i]
      OBVIOUS
    <2>2. /\ s3 \in Seq(S) /\ Len(s3) = n + 1 /\ s3[n + 1] = New(r)
          /\ \A i \in 1..n : s3[i] = New(rs[i])
      BY <1>2, <1>3, <2>1
    <2> HIDE DEF s1, s3, n
    <2>3. \A i \in 1..(n + 1) : s2[i] = s3[i] /\ s2[i] \in S
      BY <1>2, <2>1, <2>2
    <2>4. s2 \in Seq(S) /\ Len(s2) = n + 1
      BY <2>1, <2>3, IsASeq
    <2> HIDE DEF s2
    <2>5. s2 = s3
      BY <2>2, <2>3, <2>4, SeqEqual
    <2> QED
      BY <2>5 DEF s1, s2, s3
  <1> QED
    BY <1>1, <1>4 DEF New

-----------------------------------------------------------------------------
(* A statement in progress and the rows it has been through *)

Seen == FlattenSeq(SubSeq(pages, 1, page - 1))
          \o (IF AtPage THEN SubSeq(pages[page], 1, row - 1) ELSE <<>>)

Result(rs) == IF stmt.op = "delete" THEN Table!Without(rs, stmt.where)
              ELSE Table!Changed(rs, stmt.where, stmt.set)

\* An UPDATE to NULL has met no row it is for.
NoneMet(rs) == stmt.op = "update" /\ stmt.set.to = Null => \A i \in DOMAIN rs : rs[i] \notin stmt.where

InsertProgress ==
    stmt.op = "insert" =>
        /\ page <= Len(stmt.ins.tuples) + 1
        /\ FlattenSeq(done) = FlattenSeq(pages) \o SubSeq(stmt.ins.tuples, 1, page - 1)
        /\ \A i \in 1..(page - 1) : \A c \in stmt.ins.cols : stmt.ins.tuples[i][c] # Null

ScanProgress ==
    Scanning => /\ page <= Len(pages) + 1
                /\ AtPage => row <= Len(pages[page]) + 1
                /\ ~AtPage => buf = <<>>
                /\ FlattenSeq(done) \o buf = Result(Seen)
                /\ NoneMet(Seen)

Progress == InsertProgress /\ ScanProgress

LEMMA StartProgress ==
    ASSUME TypeOK, NEW s \in Statements, Start(s, IF s.op = "insert" THEN pages ELSE <<>>)
    PROVE  Progress'
  <1>1. /\ stmt' = s /\ page' = 1 /\ row' = 1 /\ pages' = pages /\ buf' = <<>>
        /\ done' = IF s.op = "insert" THEN pages ELSE <<>>
    BY DEF Start
  <1>2. pages \in Seq(Seq(Rows)) /\ Len(pages) \in Nat
    BY DEF TypeOK, Pages
  <1>3. InsertProgress'
    <2> SUFFICES ASSUME s.op = "insert"
                 PROVE  /\ 1 <= Len(s.ins.tuples) + 1
                        /\ FlattenSeq(pages) = FlattenSeq(pages) \o SubSeq(s.ins.tuples, 1, 0)
      BY <1>1 DEF InsertProgress
    <2>1. s.ins.tuples \in Seq(Rows)
      BY TableAssumption DEF Statements
    <2>2. FlattenSeq(pages) \in Seq(Rows)
      BY <1>2, FlattenType
    <2> QED
      BY <2>1, <2>2
  <1>4. ScanProgress'
    <2> SUFFICES ASSUME s.op # "insert", Scanning' PROVE ScanProgress'
      BY <1>1 DEF ScanProgress, Scanning
    <2>1. AtPage' => pages[1] \in Seq(Rows) /\ SubSeq(pages[1], 1, 0) = <<>>
      BY <1>1, <1>2 DEF AtPage
    <2>2. SubSeq(pages, 1, 0) = <<>>
      BY <1>2
    <2>3. Seen' = <<>>
      <3>1. (IF AtPage THEN SubSeq(pages[page], 1, row - 1) ELSE <<>>)' = <<>>
        BY <1>1, <2>1
      <3>2. SubSeq(pages, 1, page - 1)' = <<>>
        BY <1>1, <2>2
      <3>3. FlattenSeq(SubSeq(pages, 1, page - 1))' = <<>>
        BY <3>2, FlattenEmpty
      <3>4. <<>> \o <<>> = <<>>
        OBVIOUS
      <3> QED
        BY <3>1, <3>3, <3>4, Zenon DEF Seen
    <2>4. Result(<<>>)' = <<>>
      BY WithoutEmpty DEF Result, Table!Changed
    <2>5. Result(Seen)' = <<>>
      BY <2>3, <2>4
    <2>6. NoneMet(Seen)'
      BY <2>3 DEF NoneMet
    <2> QED
      BY <1>1, <1>2, <2>1, <2>5, <2>6, FlattenEmpty DEF ScanProgress
  <1> QED
    BY <1>3, <1>4 DEF Progress

LEMMA ConcatAppend ==
    ASSUME NEW S, NEW a \in Seq(S), NEW b \in Seq(S), NEW r
    PROVE  a \o Append(b, r) = Append(a \o b, r)
  <1> DEFINE U == S \cup {r}
  <1>1. a \in Seq(U) /\ b \in Seq(U) /\ r \in U
    OBVIOUS
  <1> HIDE DEF U
  <1> QED
    BY <1>1

LEMMA InsertRowProgress ==
    ASSUME TypeOK, Progress, InsertRow
    PROVE  Progress'
  <1> DEFINE t == stmt.ins.tuples
             rs == FlattenSeq(pages)
  <1>1. /\ stmt.op = "insert" /\ stmt' = stmt /\ pages' = pages /\ page' = page + 1
        /\ done' = AddToLastPage(done, Tuple) /\ page \in Nat \ {0} /\ page <= Len(t)
    BY DEF InsertRow, HasTuple, TypeOK
  <1>2. /\ t \in Seq(Rows) /\ Tuple \in Rows /\ Tuple = t[page]
        /\ pages \in Seq(Seq(Rows)) /\ done \in Seq(Seq(Rows))
    BY StatementTypes, RowTypes, TableAssumption DEF TypeOK, Pages, InsertRow, HasTuple, Tuple
  <1>3. FlattenSeq(done') = Append(FlattenSeq(done), Tuple)
    BY <1>1, <1>2, FlattenAddToLastPage
  <1>4. FlattenSeq(done) = rs \o SubSeq(t, 1, page - 1)
    BY <1>1 DEF Progress, InsertProgress
  <1>5. rs \in Seq(Rows)
    BY <1>2, FlattenType
  <1>6. SubSeq(t, 1, page) = Append(SubSeq(t, 1, page - 1), t[page])
    BY <1>1, <1>2
  <1>7. SubSeq(t, 1, page - 1) \in Seq(Rows)
    BY <1>1, <1>2
  <1>8. FlattenSeq(done') = rs \o SubSeq(t, 1, page)
    <2> DEFINE u == SubSeq(t, 1, page - 1)
    <2>1. Append(rs \o u, t[page]) = rs \o Append(u, t[page])
      <3> HIDE DEF u, rs, t
      <3>1. u \in Seq(Rows) /\ rs \in Seq(Rows)
        BY <1>5, <1>7 DEF u
      <3> QED
        BY <3>1, ConcatAppend
    <2> QED
      BY <1>2, <1>3, <1>4, <1>6, <2>1
  <1>9. page + 1 <= Len(t) + 1 /\ (page + 1) - 1 = page
    BY <1>1, <1>2
  <1>10. \A i \in 1..page : \A c \in stmt.ins.cols : t[i][c] # Null
    <2>1. \A i \in 1..(page - 1) : \A c \in stmt.ins.cols : t[i][c] # Null
      BY <1>1 DEF Progress, InsertProgress
    <2>2. \A c \in stmt.ins.cols : t[page][c] # Null
      BY <1>2 DEF InsertRow, NullRefused
    <2> QED
      BY <1>1, <2>1, <2>2
  <1> QED
    BY <1>1, <1>8, <1>9, <1>10 DEF Progress, InsertProgress, ScanProgress, Scanning

\* One row further.
LEMMA SeenRow ==
    ASSUME TypeOK, AtRow, page' = page, row' = row + 1, pages' = pages, stmt' = stmt
    PROVE  Seen' = Append(Seen, ThisRow) /\ Seen \in Seq(Rows) /\ ThisRow \in Rows
  <1> DEFINE p == pages[page]
             front == FlattenSeq(SubSeq(pages, 1, page - 1))
             P == Seq(Rows)
  <1>1. /\ AtPage /\ page \in 1..Len(pages) /\ p \in Seq(Rows) /\ row \in 1..Len(p)
        /\ ThisRow = p[row] /\ pages \in Seq(P)
    BY DEF AtRow, AtPage, TypeOK, Pages, ThisRow
  <1>2. AtPage'
    BY <1>1 DEF AtPage
  <1>3. front \in Seq(Rows)
    <2>1. SubSeq(pages, 1, page - 1) \in Seq(P)
      <3> HIDE DEF P
      <3> QED
        BY <1>1
    <2> QED
      BY <2>1, FlattenType
  <1>4. Seen = front \o SubSeq(p, 1, row - 1)
    BY <1>1 DEF Seen
  <1>5. Seen' = front \o SubSeq(p, 1, row)
    <2>1. row' - 1 = row
      BY <1>1
    <2> QED
      BY <1>2, <2>1 DEF Seen
  <1> HIDE DEF front, p
  <1>6. SubSeq(p, 1, row) = Append(SubSeq(p, 1, row - 1), p[row]) /\ SubSeq(p, 1, row - 1) \in Seq(Rows)
    BY <1>1
  <1>7. p[row] \in Rows
    BY <1>1
  <1> DEFINE b == SubSeq(p, 1, row - 1)
  <1>8. b \in Seq(Rows) /\ SubSeq(p, 1, row) = Append(b, p[row])
    BY <1>6
  <1>9. Seen = front \o b
    BY <1>4
  <1> HIDE DEF b
  <1>10. front \o Append(b, p[row]) = Append(front \o b, p[row]) /\ front \o b \in Seq(Rows)
    BY <1>3, <1>7, <1>8, ConcatAppend
  <1> QED
    BY <1>1, <1>5, <1>7, <1>8, <1>9, <1>10, Zenon

LEMMA RowProgress ==
    ASSUME TypeOK, Progress, SkipRow \/ DeleteRow \/ UpdateRow
    PROVE  Progress'
  <1> DEFINE new == NewRow(ThisRow, stmt.set)
  <1>1. /\ AtRow /\ page' = page /\ row' = row + 1 /\ pages' = pages /\ stmt' = stmt /\ done' = done
        /\ \/ /\ ThisRow \notin stmt.where /\ buf' = Append(buf, ThisRow)
           \/ /\ stmt.op = "delete" /\ ThisRow \in stmt.where /\ buf' = buf
           \/ /\ stmt.op = "update" /\ ThisRow \in stmt.where /\ buf' = Append(buf, new)
              /\ stmt.set.to # Null
    BY DEF SkipRow, DeleteRow, UpdateRow, Keep, NewRow
  <1>2. /\ Scanning /\ AtPage /\ Scanning' /\ AtPage'
        /\ page \in DOMAIN pages /\ row <= Len(pages[page]) /\ Len(pages[page]) \in Nat
    BY <1>1 DEF AtRow, AtPage, Scanning, TypeOK, Pages
  <1>3. Seen' = Append(Seen, ThisRow) /\ Seen \in Seq(Rows) /\ ThisRow \in Rows
    BY <1>1, SeenRow
  <1>4. page <= Len(pages) + 1 /\ row + 1 <= Len(pages[page]) + 1 /\ FlattenSeq(done) \o buf = Result(Seen)
    BY <1>2 DEF Progress, ScanProgress, TypeOK
  <1>5. FlattenSeq(done) \in Seq(Rows) /\ buf \in Seq(Rows)
    BY FlattenType DEF TypeOK, Pages
  <1>6. Result(Seen)' = IF stmt.op = "delete" THEN Table!Without(Append(Seen, ThisRow), stmt.where)
                        ELSE Table!Changed(Append(Seen, ThisRow), stmt.where, stmt.set)
    BY <1>1, <1>3 DEF Result
  <1>7. FlattenSeq(done) \o buf' = Result(Seen)'
    <2>1. CASE ThisRow \notin stmt.where /\ buf' = Append(buf, ThisRow)
      <3>1. Table!Without(Append(Seen, ThisRow), stmt.where)
              = Append(Table!Without(Seen, stmt.where), ThisRow)
        BY <1>3, <2>1, WithoutAppend
      <3>2. Table!Changed(Append(Seen, ThisRow), stmt.where, stmt.set)
              = Append(Table!Changed(Seen, stmt.where, stmt.set), ThisRow)
        BY <1>3, <2>1, ChangedAppend
      <3>3. Result(Seen)' = Append(Result(Seen), ThisRow)
        BY <1>6, <3>1, <3>2 DEF Result
      <3> QED
        BY <1>4, <1>5, <2>1, <3>3, ConcatAppend
    <2>2. CASE stmt.op = "delete" /\ ThisRow \in stmt.where /\ buf' = buf
      BY <1>3, <1>4, <1>6, <2>2, WithoutAppend DEF Result
    <2>3. CASE stmt.op = "update" /\ ThisRow \in stmt.where /\ buf' = Append(buf, new)
      <3>1. Table!Changed(Append(Seen, ThisRow), stmt.where, stmt.set)
              = Append(Table!Changed(Seen, stmt.where, stmt.set), new)
        BY <1>3, <2>3, ChangedAppend
      <3>2. Result(Seen)' = Append(Result(Seen), new)
        BY <1>6, <2>3, <3>1 DEF Result
      <3> HIDE DEF new
      <3> QED
        BY <1>4, <1>5, <2>3, <3>2, ConcatAppend
    <2> QED
      BY <1>1, <2>1, <2>2, <2>3
  <1>8. NoneMet(Seen)'
    <2>1. NoneMet(Seen)
      BY <1>2 DEF Progress, ScanProgress
    <2>2. NoneMet(Append(Seen, ThisRow))
      <3> DEFINE s == Seen
                 r == ThisRow
      <3>1. s \in Seq(Rows) /\ r \in Rows /\ NoneMet(s)
        BY <1>3, <2>1
      <3>2. stmt.op = "update" /\ stmt.set.to = Null => r \notin stmt.where
        BY <1>1
      <3> HIDE DEF s, r
      <3>3. NoneMet(Append(s, r))
        BY <3>1, <3>2 DEF NoneMet
      <3> QED
        BY <3>3 DEF s, r
    <2> QED
      BY <1>1, <1>3, <2>2 DEF NoneMet
  <1> QED
    BY <1>1, <1>2, <1>4, <1>7, <1>8 DEF Progress, InsertProgress, ScanProgress, Scanning

LEMMA FinishPageProgress ==
    ASSUME TypeOK, Progress, FinishPage
    PROVE  Progress'
  <1> DEFINE p == pages[page]
             qs == SubSeq(pages, 1, page - 1)
             P == Seq(Rows)
  <1>1. /\ AtPage /\ Scanning /\ page' = page + 1 /\ row' = 1 /\ pages' = pages /\ stmt' = stmt
        /\ buf' = <<>> /\ done' = (IF buf = <<>> THEN done ELSE Append(done, buf))
        /\ page \in 1..Len(pages) /\ p \in Seq(Rows) /\ pages \in Seq(P) /\ Len(pages) \in Nat
        /\ done \in Seq(P) /\ buf \in P /\ row = Len(p) + 1 /\ Scanning'
    <2>1. /\ AtPage /\ Scanning /\ page' = page + 1 /\ row' = 1 /\ pages' = pages /\ stmt' = stmt
          /\ buf' = <<>> /\ done' = (IF buf = <<>> THEN done ELSE Append(done, buf)) /\ Scanning'
      BY DEF FinishPage, AtPage, Scanning
    <2>2. /\ pages \in Seq(P) /\ done \in Seq(P) /\ buf \in P /\ Len(pages) \in Nat
          /\ page \in Nat \ {0} /\ row \in Nat \ {0}
      BY DEF TypeOK, Pages
    <2>3. page \in 1..Len(pages)
      BY <2>1, <2>2 DEF AtPage
    <2>4. p \in Seq(Rows)
      BY <2>2, <2>3
    <2>5. ~(row <= Len(p)) /\ row <= Len(p) + 1 /\ Len(p) \in Nat
      BY <2>1, <2>4 DEF FinishPage, AtRow, Progress, ScanProgress
    <2>6. row = Len(p) + 1
      BY <2>2, <2>5
    <2> QED
      BY <2>1, <2>2, <2>3, <2>4, <2>6
  <1>2. FlattenSeq(done) \in Seq(Rows)
    BY <1>1, FlattenType
  <1>3. FlattenSeq(done') \o buf' = FlattenSeq(done) \o buf
    <2>1. CASE buf = <<>>
      BY <1>1, <2>1
    <2>2. CASE buf # <<>>
      <3>1. FlattenSeq(done') = FlattenSeq(done) \o buf
        BY <1>1, <2>2, FlattenAppend
      <3> QED
        BY <1>1, <1>2, <3>1
    <2> QED
      BY <2>1, <2>2
  <1>4. qs \in Seq(P) /\ SubSeq(pages, 1, page) = Append(qs, p)
    <2> HIDE DEF P
    <2> QED
      BY <1>1
  <1>5. FlattenSeq(SubSeq(pages, 1, page)) = FlattenSeq(qs) \o p
    BY <1>1, <1>4, FlattenAppend
  <1>6. Seen = FlattenSeq(qs) \o p
    <2>1. SubSeq(p, 1, row - 1) = p
      BY <1>1
    <2> QED
      BY <1>1, <2>1 DEF Seen
  <1>7. Seen' = FlattenSeq(SubSeq(pages, 1, page))
    <2>1. AtPage' => pages[page + 1] \in Seq(Rows)
      BY <1>1 DEF AtPage
    <2>2. (IF AtPage THEN SubSeq(pages[page], 1, row - 1) ELSE <<>>)' = <<>>
      BY <1>1, <2>1
    <2>3. FlattenSeq(SubSeq(pages, 1, page - 1))' = FlattenSeq(SubSeq(pages, 1, page))
      <3>1. page' - 1 = page
        BY <1>1
      <3> QED
        BY <1>1, <3>1
    <2>4. FlattenSeq(SubSeq(pages, 1, page)) \in Seq(Rows)
      <3>1. FlattenSeq(qs) \in Seq(Rows)
        BY <1>4, FlattenType
      <3>2. p \in Seq(Rows)
        BY <1>1
      <3> HIDE DEF p, qs
      <3>3. FlattenSeq(qs) \o p \in Seq(Rows)
        BY <3>1, <3>2
      <3> QED
        BY <1>5, <3>3
    <2>5. FlattenSeq(SubSeq(pages, 1, page)) \o <<>> = FlattenSeq(SubSeq(pages, 1, page))
      BY <2>4
    <2> QED
      BY <2>2, <2>3, <2>5, Zenon DEF Seen
  <1>8. Result(Seen)' = Result(Seen) /\ NoneMet(Seen)' = NoneMet(Seen)
    BY <1>1, <1>5, <1>6, <1>7 DEF Result, NoneMet
  <1>9. FlattenSeq(done) \o buf = Result(Seen) /\ NoneMet(Seen)
    BY <1>1 DEF Progress, ScanProgress
  <1>10. page + 1 <= Len(pages) + 1 /\ (AtPage' => 1 <= Len(pages[page + 1]) + 1)
    BY <1>1 DEF AtPage
  <1> QED
    BY <1>1, <1>3, <1>8, <1>9, <1>10 DEF Progress, InsertProgress, ScanProgress, Scanning

LEMMA NextProgress ==
    ASSUME TypeOK, Progress, [Next]_vars
    PROVE  Progress'
  <1>1. CASE StartInsert
    <2>1. PICK ins \in Inserts : Start([op |-> "insert", ins |-> ins], pages)
      BY <1>1 DEF StartInsert
    <2> QED
      BY <2>1, StartProgress DEF Statements
  <1>2. CASE StartDelete
    <2>1. PICK w \in Wheres : Start([op |-> "delete", where |-> w], <<>>)
      BY <1>2 DEF StartDelete
    <2> QED
      BY <2>1, StartProgress DEF Statements
  <1>3. CASE StartUpdate
    <2>1. PICK w \in Wheres, s \in Sets : Start([op |-> "update", where |-> w, set |-> s], <<>>)
      BY <1>3 DEF StartUpdate
    <2> QED
      BY <2>1, StartProgress DEF Statements
  <1>4. CASE Fail \/ RefuseNull \/ RefuseDuplicate \/ RefuseSetNull \/ FinishInsert \/ FinishTable
    <2>1. stmt'.op = "none"
      BY <1>4 DEF Fail, RefuseNull, RefuseDuplicate, RefuseSetNull, FinishInsert, FinishTable,
                  Abort, Commit, Finish, NoStmt
    <2> QED
      BY <2>1 DEF Progress, InsertProgress, ScanProgress, Scanning
  <1>5. CASE InsertRow
    BY <1>5, InsertRowProgress
  <1>6. CASE SkipRow \/ DeleteRow \/ UpdateRow
    BY <1>6, RowProgress
  <1>7. CASE FinishPage
    BY <1>7, FinishPageProgress
  <1>8. CASE UNCHANGED vars
    BY <1>8 DEF vars, working, Progress, InsertProgress, ScanProgress, Scanning, AtPage, Seen, Result, NoneMet
  <1> QED
    BY <1>1, <1>2, <1>3, <1>4, <1>5, <1>6, <1>7, <1>8 DEF Next

-----------------------------------------------------------------------------
(* The refinement *)

\* A statement that succeeds does to the rows what it says; no other step does anything.
LEMMA StepRefines ==
    ASSUME TypeOK, Progress, [Next]_vars
    PROVE  [Table!Next]_(FlattenSeq(pages))
  <1> DEFINE rows == FlattenSeq(pages)
  <1>0. pages \in Seq(Seq(Rows)) /\ done \in Seq(Seq(Rows)) /\ Len(pages) \in Nat
    BY DEF TypeOK, Pages
  <1>1. CASE FinishInsert
    <2>1. /\ stmt.op = "insert" /\ ~HasTuple /\ pages' = done /\ stmt.ins \in Inserts
      BY <1>1, StatementTypes DEF FinishInsert, Commit, TypeOK
    <2>2. stmt.ins.tuples \in Seq(Rows) /\ page = Len(stmt.ins.tuples) + 1
      <3>1. stmt.ins.tuples \in Seq(Rows)
        BY <2>1, TableAssumption
      <3>2. page <= Len(stmt.ins.tuples) + 1 /\ ~(page <= Len(stmt.ins.tuples)) /\ page \in Nat
        BY <2>1 DEF HasTuple, Progress, InsertProgress, TypeOK
      <3>3. Len(stmt.ins.tuples) \in Nat
        BY <3>1
      <3> QED
        BY <3>1, <3>2, <3>3
    <2>3. SubSeq(stmt.ins.tuples, 1, page - 1) = stmt.ins.tuples
      BY <2>2
    <2>4. rows' = rows \o stmt.ins.tuples
      BY <2>1, <2>3 DEF Progress, InsertProgress
    <2>5. \A i \in DOMAIN stmt.ins.tuples : \A c \in stmt.ins.cols : stmt.ins.tuples[i][c] # Null
      <3>1. \A i \in 1..(page - 1) : \A c \in stmt.ins.cols : stmt.ins.tuples[i][c] # Null
        BY <2>1 DEF Progress, InsertProgress
      <3>2. DOMAIN stmt.ins.tuples = 1..(page - 1)
        BY <2>2
      <3> QED
        BY <3>1, <3>2
    <2> QED
      BY <2>1, <2>4, <2>5 DEF Table!Next, Table!Insert
  <1>2. CASE FinishTable
    <2>1. Scanning /\ ~AtPage /\ pages' = done /\ page = Len(pages) + 1 /\ buf = <<>>
      BY <1>0, <1>2 DEF FinishTable, Commit, Scanning, Progress, ScanProgress, AtPage, TypeOK
    <2>2. rows \in Seq(Rows) /\ FlattenSeq(done) \in Seq(Rows)
      BY <1>0, FlattenType
    <2>3. Seen = rows
      <3>1. SubSeq(pages, 1, page - 1) = pages
        BY <1>0, <2>1
      <3>2. rows \o <<>> = rows
        BY <2>2
      <3> QED
        BY <2>1, <3>1, <3>2, Zenon DEF Seen
    <2>4. rows' = Result(rows) /\ NoneMet(rows)
      BY <2>1, <2>2, <2>3 DEF Progress, ScanProgress
    <2>5. stmt.where \in Wheres /\ (stmt.op = "update" => stmt.set \in Sets)
      BY <2>1, StatementTypes DEF TypeOK
    <2> QED
      BY <2>1, <2>4, <2>5 DEF Scanning, Result, NoneMet, Table!Next, Table!Delete, Table!Update
  <1>3. CASE ~FinishInsert /\ ~FinishTable
    <2>1. pages' = pages
      BY <1>3 DEF Next, vars, working, StartInsert, StartDelete, StartUpdate, Start, Fail, InsertRow,
                  RefuseNull, RefuseDuplicate, SkipRow, DeleteRow, UpdateRow, RefuseSetNull, FinishPage,
                  Abort, Finish, Keep
    <2> QED
      BY <2>1
  <1> QED
    BY <1>1, <1>2, <1>3

-----------------------------------------------------------------------------
(* Theorems *)

\* Every variable keeps its type, the indexes among them: whatever rows and statements
\* there are, an index is a tree whose leaves are as deep as its height says.
THEOREM TypeCorrect == Spec => []TypeOK
  <1>1. Init => Typed
    BY InitInv DEF Inv
  <1>2. Typed => TypeOK
    BY DEF Typed
  <1> QED
    BY <1>1, <1>2, NextTypes, PTL DEF Spec

\* Pages hold between one row and MaxRowsPerPage: INSERT opens a page before the last
\* one overflows, and DELETE drops one it empties.
THEOREM PagesSized == Spec => []PagesBounded
  <1>1. Init => Sizes
    BY InitInv DEF Init, Inv, Sizes, SizedPages, SizedBuf, Scanning, NoStmt
  <1>2. Sizes => PagesBounded
    BY DEF Sizes, SizedPages, PagesBounded
  <1> QED
    BY <1>1, <1>2, NextSizes, PTL DEF Spec

\* For any rows, pages, order of the index, statements and failures, if no UPDATE sets
\* the UNIQUE column: two rows share a value only where a split of the index has lost
\* it, as long as no row has left an index of several nodes.
THEOREM KeysUnique ==
    ASSUME NoKeyUpdates
    PROVE  Spec => []UniqueKeys
  <1>1. Inv => UniqueKeys
    <2> SUFFICES ASSUME Inv, ~shrunk, NEW k \in Keys, Twice(k), k \notin SeparatorsOf(index)
                 PROVE  FALSE
      BY DEF UniqueKeys
    <2>1. Distinct(pages, index) /\ k \in Kept(index)
      BY DEF Inv, Right, Stored, Kept
    <2> QED
      BY <2>1 DEF Twice, Distinct, SameKey
  <1> QED
    BY <1>1, InitInv, NextInv, PTL DEF Spec

\* Under the same conditions the index has every value of the column that no split has
\* lost, whatever page a row has moved to and wherever a statement stopped.
THEOREM IndexComplete ==
    ASSUME NoKeyUpdates
    PROVE  Spec => []IndexCoversRows
  <1>1. Inv => IndexCoversRows
    <2> SUFFICES ASSUME Inv, ~shrunk, NEW i \in DOMAIN pages, NEW j \in DOMAIN pages[i],
                        pages[i][j].key \notin SeparatorsOf(index) \cup {Null}
                 PROVE  Get(index, pages[i][j].key) # <<>>
      BY DEF IndexCoversRows
    <2>1. pages[i][j] \in Rows
      BY DEF Inv, Typed, TypeOK, Pages
    <2>2. pages[i][j].key \in Kept(index)
      BY <2>1 DEF Rows, Kept
    <2> QED
      BY <2>2 DEF Inv, Right, Stored, Covered, InIndex
  <1> QED
    BY <1>1, InitInv, NextInv, PTL DEF Spec

\* A table of pages, with an index and a page buffer, behaves as a list of rows: every
\* statement that succeeds is one step of LogicalTable, every step before that and every
\* statement that fails leaves the list of rows as it was.
THEOREM RowsAreRelation == Spec => ImplementsRelation
  <1>1. Init => Typed /\ Progress /\ Table!Init
    <2>1. Init => Table!Init
      BY FlattenEmpty DEF Init, Table!Init
    <2>2. Init => Progress
      BY DEF Init, NoStmt, Progress, InsertProgress, ScanProgress, Scanning
    <2> QED
      BY <2>1, <2>2, InitInv DEF Inv
  <1>2. Typed /\ Progress /\ [Next]_vars => Typed' /\ Progress' /\ [Table!Next]_(FlattenSeq(pages))
    BY NextTypes, NextProgress, StepRefines DEF Typed
  <1> QED
    BY <1>1, <1>2, PTL DEF Spec, ImplementsRelation, Table!Spec
=============================================================================
