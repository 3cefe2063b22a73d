-------------------------- MODULE MarketplaceProofs ---------------------------
(* Theorems about the marketplace page: what a refresh shows.                *)
EXTENDS Marketplace, SequenceTheorems, TLAPS

-----------------------------------------------------------------------------
(* The inductive invariant.                                                  *)

Row == [id : Ids \cup {None}, by : Nat]

Call ==
  [method : {"GET", "GET id", "POST"}, list : Listed, id : Ids \cup {None}, page : BOOLEAN,
   at : {"sent", "answered", "done"}, status : Int, rows : SUBSET Row]

Element == [what : {"blank", "error", "rows"}, rows : SUBSET Row, by : Nat]

Typed ==
  /\ view \in Views
  /\ tables \in [Listed -> SUBSET Row]
  /\ calls \in Seq(Call)
  /\ shown \in [Listed -> Element]

\* A row is stored by the request that creates it.
RowsCreated == \A l \in Listed : \A r \in tables[l] : r.by \in Creations

\* A list shows the answer to a request that asked for it.
ShownFetched ==
  \A l \in Listed : shown[l].what = "rows" => shown[l].by \in DOMAIN calls /\ Fetches(shown[l].by, l)

\* Request k, if it has its answer, and list l, if it shows that answer, have
\* the rows that creation j stored.
Has(j, l, k) ==
  \A r \in tables[l] : r.by = j =>
    /\ calls[k].at = "answered" /\ calls[k].status = 200 => r \in calls[k].rows
    /\ shown[l].what = "rows" /\ shown[l].by = k => r \in shown[l].rows

\* A creation the page has an answer to, and has acted on.
FollowedUp(j) == j \in Creations /\ calls[j].page /\ calls[j].at = "done" /\ calls[j].status > 0

\* From some request on, every request for a list was sent after the row was stored.
Refreshed ==
  \A j \in DOMAIN calls : FollowedUp(j) => \A l \in Listed :
    \E i \in DOMAIN calls :
      /\ Fetches(i, l)
      /\ \A k \in DOMAIN calls : i <= k /\ Fetches(k, l) => Has(j, l, k)

Inv == Typed /\ RowsCreated /\ ShownFetched /\ Refreshed

-----------------------------------------------------------------------------
(* What an answer and a new request change.                                  *)

\* Requests keep what they were sent as, and are not forgotten.
Frame ==
  /\ view' = view
  /\ calls' \in Seq(Call)
  /\ DOMAIN calls \subseteq DOMAIN calls'
  /\ \A k \in DOMAIN calls :
       /\ calls'[k].method = calls[k].method
       /\ calls'[k].list = calls[k].list
       /\ calls'[k].page = calls[k].page

\* Request i alone changes.
LEMMA OneChanges ==
  ASSUME Typed, NEW i \in DOMAIN calls, NEW e \in Call,
         view' = view,
         calls' = [calls EXCEPT ![i] = e],
         e.method = calls[i].method, e.list = calls[i].list, e.page = calls[i].page
  PROVE  /\ Frame
         /\ DOMAIN calls' = DOMAIN calls
         /\ \A k \in DOMAIN calls : k # i => calls'[k] = calls[k]
         /\ calls'[i] = e
<1>1. calls \in Seq(Call)
  BY DEF Typed
<1>2. i \in 1..Len(calls)
  BY <1>1
<1>3. calls' \in Seq(Call)
  BY <1>1, <1>2, ExceptSeq
<1>4. /\ DOMAIN calls' = DOMAIN calls
      /\ \A k \in DOMAIN calls : k # i => calls'[k] = calls[k]
      /\ calls'[i] = e
  BY <1>1
<1> QED
  BY <1>3, <1>4 DEF Frame

\* Request i becomes answered, with this status and rows.
LEMMA RespondChanges ==
  ASSUME Typed, NEW i \in DOMAIN calls, NEW status \in Int, NEW rows \in SUBSET Row,
         view' = view,
         Respond(i, status, rows)
  PROVE  /\ Frame
         /\ DOMAIN calls' = DOMAIN calls
         /\ \A k \in DOMAIN calls : k # i => calls'[k] = calls[k]
         /\ calls'[i].at = "answered" /\ calls'[i].status = status /\ calls'[i].rows = rows
<1> DEFINE e == [calls[i] EXCEPT !.at = "answered", !.status = status, !.rows = rows]
<1>1. /\ calls \in Seq(Call)
      /\ calls[i] \in Call
  BY DEF Typed
<1>2. calls' = [calls EXCEPT ![i] = e]
  BY <1>1 DEF Respond
<1>3. /\ e \in Call
      /\ e.method = calls[i].method /\ e.list = calls[i].list /\ e.page = calls[i].page
      /\ e.at = "answered" /\ e.status = status /\ e.rows = rows
  BY <1>1 DEF Call
<1> HIDE DEF e
<1> QED
  BY <1>2, <1>3, OneChanges

\* Request i is done.
LEMMA DoneChanges ==
  ASSUME Typed, NEW i \in DOMAIN calls,
         view' = view,
         calls' = [calls EXCEPT ![i].at = "done", ![i].rows = {}]
  PROVE  /\ Frame
         /\ DOMAIN calls' = DOMAIN calls
         /\ \A k \in DOMAIN calls : k # i => calls'[k] = calls[k]
         /\ calls'[i].at = "done" /\ calls'[i].status = calls[i].status
<1> DEFINE e == [calls[i] EXCEPT !.at = "done", !.rows = {}]
<1>1. /\ calls \in Seq(Call)
      /\ calls[i] \in Call
  BY DEF Typed
<1>2. calls' = [calls EXCEPT ![i] = e]
  BY <1>1
<1>3. /\ e \in Call
      /\ e.method = calls[i].method /\ e.list = calls[i].list /\ e.page = calls[i].page
      /\ e.at = "done" /\ e.status = calls[i].status
  BY <1>1 DEF Call
<1> HIDE DEF e
<1> QED
  BY <1>2, <1>3, OneChanges

\* A refresh asks for every list.
LEMMA RefreshAsks ==
  ASSUME view \in Views
  PROVE  /\ FetchAllData \in Seq(Call)
         /\ \A k \in DOMAIN FetchAllData : FetchAllData[k].method = "GET" /\ FetchAllData[k].at = "sent"
         /\ \A l \in Listed : \E k \in DOMAIN FetchAllData : FetchAllData[k].list = l
<1>1. view.lists \in Seq(Lists)
  BY ViewsAssumption
<1>2. \A k \in DOMAIN view.lists : view.lists[k] \in Listed
  BY <1>1 DEF Listed, Range
<1>3. \A k \in DOMAIN view.lists : Request("GET", view.lists[k], None, TRUE) \in Call
  BY <1>2 DEF Request, Call
<1>4. DOMAIN view.lists = 1..Len(view.lists) /\ Len(view.lists) \in Nat
  BY <1>1
<1>5. FetchAllData \in Seq(Call)
  <2>1. FetchAllData \in [1..Len(view.lists) -> Call]
    BY <1>3, <1>4 DEF FetchAllData
  <2> QED
    BY <2>1, <1>4, SeqDef
<1>6. \A l \in Listed : \E k \in DOMAIN view.lists : view.lists[k] = l
  BY DEF Listed, Range
<1> QED
  BY <1>5, <1>6 DEF FetchAllData, Request

-----------------------------------------------------------------------------
(* The routes.                                                               *)

\* What a handler does to the tables and answers.
Handled(i, status, rows) ==
  \/ /\ calls[i].method = "GET"
     /\ tables' = tables
     /\ status = 200 => rows = tables[calls[i].list]
  \/ /\ calls[i].method = "GET id"
     /\ tables' = tables
  \/ /\ calls[i].method = "POST"
     /\ \/ tables' = tables
        \/ \E row \in Row :
             /\ row.by = i
             /\ tables' = [tables EXCEPT ![calls[i].list] = @ \cup {row}]

\* Every route answers with the rows it read or with none, and stores at most
\* the row of its own request.
LEMMA RouterHandles ==
  ASSUME Typed, NEW i \in DOMAIN calls, Router(i)
  PROVE  /\ view' = view /\ shown' = shown
         /\ calls[i].at = "sent"
         /\ \E status \in {200, 500}, rows \in SUBSET Row :
              Respond(i, status, rows) /\ Handled(i, status, rows)
<1>1. /\ calls[i] \in Call
      /\ i \in Nat
      /\ tables[calls[i].list] \in SUBSET Row
  <2>1. calls \in Seq(Call) /\ tables \in [Listed -> SUBSET Row]
    BY DEF Typed
  <2>2. calls[i] \in Call /\ i \in Nat
    BY <2>1
  <2>3. calls[i].list \in Listed
    BY <2>2 DEF Call
  <2> QED
    BY <2>1, <2>2, <2>3
<1>2. ASSUME NEW rows \in SUBSET Row, ExecuteQuery(i, rows)
      PROVE  /\ tables' = tables
             /\ \E status \in {200, 500}, some \in SUBSET Row :
                  Respond(i, status, some) /\ (status = 200 => some = rows)
  <2>1. CASE Respond(i, 200, rows)
    BY <1>2, <2>1 DEF ExecuteQuery
  <2>2. CASE Respond(i, 500, {})
    <3>1. {} \in SUBSET Row /\ 500 # 200
      OBVIOUS
    <3> QED
      BY <1>2, <2>2, <3>1 DEF ExecuteQuery
  <2> QED
    BY <1>2, <2>1, <2>2 DEF ExecuteQuery
<1>3. GetAll(i) => \E status \in {200, 500}, rows \in SUBSET Row :
                     Respond(i, status, rows) /\ Handled(i, status, rows)
  <2>1. SUFFICES ASSUME GetAll(i)
                 PROVE  \E status \in {200, 500}, rows \in SUBSET Row :
                          Respond(i, status, rows) /\ Handled(i, status, rows)
    OBVIOUS
  <2>2. calls[i].method = "GET" /\ ExecuteQuery(i, tables[calls[i].list])
    BY <2>1 DEF GetAll
  <2>3. PICK status \in {200, 500}, some \in SUBSET Row :
          Respond(i, status, some) /\ (status = 200 => some = tables[calls[i].list])
    BY <1>1, <1>2, <2>2
  <2>4. tables' = tables
    BY <1>1, <1>2, <2>2
  <2> QED
    BY <2>2, <2>3, <2>4 DEF Handled
<1>4. GetById(i) => \E status \in {200, 500}, rows \in SUBSET Row :
                      Respond(i, status, rows) /\ Handled(i, status, rows)
  <2> DEFINE found == {r \in tables[calls[i].list] : r.id = calls[i].id}
  <2>1. SUFFICES ASSUME GetById(i)
                 PROVE  \E status \in {200, 500}, rows \in SUBSET Row :
                          Respond(i, status, rows) /\ Handled(i, status, rows)
    OBVIOUS
  <2>2. calls[i].method = "GET id" /\ ExecuteQuery(i, found)
    BY <2>1 DEF GetById
  <2>3. found \in SUBSET Row
    BY <1>1
  <2> HIDE DEF found
  <2>4. PICK status \in {200, 500}, some \in SUBSET Row :
          Respond(i, status, some) /\ (status = 200 => some = found)
    BY <1>2, <2>2, <2>3, ZenonT(60)
  <2>5. tables' = tables
    BY <1>2, <2>2, <2>3
  <2> QED
    BY <2>2, <2>4, <2>5, ZenonT(60) DEF Handled
<1>5. Create(i) => \E status \in {200, 500}, rows \in SUBSET Row :
                     Respond(i, status, rows) /\ Handled(i, status, rows)
  <2> DEFINE row == [id |-> calls[i].id, by |-> i]
  <2>1. SUFFICES ASSUME Create(i)
                 PROVE  \E status \in {200, 500}, rows \in SUBSET Row :
                          Respond(i, status, rows) /\ Handled(i, status, rows)
    OBVIOUS
  <2>2. row \in Row /\ row.by = i
    BY <1>1 DEF Row, Call
  <2>3. calls[i].method = "POST" /\ ExecuteWriteQuery(i, row)
    BY <2>1 DEF Create
  <2> HIDE DEF row
  <2>4. \/ tables' = tables
        \/ tables' = [tables EXCEPT ![calls[i].list] = @ \cup {row}]
    BY <2>3 DEF ExecuteWriteQuery
  <2>5. {} \in SUBSET Row
    OBVIOUS
  <2>6. Respond(i, 200, {}) \/ Respond(i, 500, {})
    BY <2>3 DEF ExecuteWriteQuery
  <2>7. Handled(i, 200, {}) /\ Handled(i, 500, {})
    <3>1. \/ tables' = tables
          \/ \E r \in Row : r.by = i /\ tables' = [tables EXCEPT ![calls[i].list] = @ \cup {r}]
      BY <2>2, <2>4
    <3> QED
      BY <2>3, <3>1 DEF Handled
  <2> QED
    BY <2>5, <2>6, <2>7
<1>6. GetAll(i) \/ GetById(i) \/ Create(i)
  BY DEF Router, Users, Collections, Categories, Nfts, Transactions, Bids, Tags, NftTags
<1>7. view' = view /\ shown' = shown /\ calls[i].at = "sent"
  BY DEF Router
<1> QED
  BY <1>3, <1>4, <1>5, <1>6, <1>7

-----------------------------------------------------------------------------
(* Every step preserves the invariant.                                       *)

\* The row a handler stores is the row of a creation not followed up yet, and
\* what it reads is all there is.
LEMMA RouterPreserves ==
  ASSUME Inv, NEW i \in DOMAIN calls, Router(i)
  PROVE  Inv'
<1> USE DEF Inv
<1>1. /\ view' = view /\ shown' = shown
      /\ calls[i].at = "sent"
  BY RouterHandles
<1>2. PICK status \in {200, 500}, rows \in SUBSET Row :
        Respond(i, status, rows) /\ Handled(i, status, rows)
  BY RouterHandles
<1>3. /\ Frame
      /\ DOMAIN calls' = DOMAIN calls
      /\ \A k \in DOMAIN calls : k # i => calls'[k] = calls[k]
      /\ calls'[i].at = "answered" /\ calls'[i].status = status /\ calls'[i].rows = rows
  BY <1>1, <1>2, RespondChanges
<1>4. /\ calls \in Seq(Call) /\ tables \in [Listed -> SUBSET Row]
      /\ calls[i] \in Call
  BY DEF Typed
<1>5. Listed' = Listed
  BY <1>1 DEF Listed
<1>6. /\ tables' \in [Listed -> SUBSET Row]
      /\ \A l \in Listed : tables[l] \subseteq tables'[l]
      /\ \A l \in Listed : \A r \in tables'[l] :
           r \in tables[l] \/ (r.by = i /\ calls[i].method = "POST")
      /\ calls[i].method # "POST" => tables' = tables
  <2>1. CASE tables' = tables
    BY <1>4, <2>1
  <2>2. CASE tables' # tables
    <3>1. PICK row \in Row :
            /\ row.by = i
            /\ tables' = [tables EXCEPT ![calls[i].list] = @ \cup {row}]
      BY <1>2, <2>2 DEF Handled
    <3>2. calls[i].method = "POST"
      BY <1>2, <2>2 DEF Handled
    <3>3. calls[i].list \in Listed
      BY <1>4 DEF Call
    <3>4. tables[calls[i].list] \cup {row} \in SUBSET Row
      BY <1>4, <3>1, <3>3
    <3>5. tables' \in [Listed -> SUBSET Row]
      BY <1>4, <3>1, <3>4
    <3>6. /\ tables'[calls[i].list] = tables[calls[i].list] \cup {row}
          /\ \A l \in Listed : l # calls[i].list => tables'[l] = tables[l]
      BY <1>4, <3>1, <3>3
    <3>7. \A l \in Listed : tables[l] \subseteq tables'[l] /\ tables'[l] \subseteq tables[l] \cup {row}
      BY <3>6
    <3> QED
      BY <3>1, <3>2, <3>5, <3>7
  <2> QED
    BY <2>1, <2>2
<1>7. Typed'
  <2>1. Call' = Call /\ Element' = Element
    BY <1>5 DEF Call, Element, Row
  <2>2. calls' \in Seq(Call)'
    BY <1>3, <2>1 DEF Frame
  <2>3. view' \in Views' /\ shown' \in [Listed -> Element]'
    BY <1>1, <1>5, <2>1 DEF Typed
  <2>4. tables' \in [Listed -> SUBSET Row]'
    BY <1>5, <1>6 DEF Row
  <2> QED
    BY <2>2, <2>3, <2>4 DEF Typed
<1>8. Creations' = Creations
  BY <1>3 DEF Frame, Creations
<1>9. RowsCreated'
  BY <1>5, <1>6, <1>8 DEF RowsCreated, Creations
<1>10. \A k \in DOMAIN calls, l \in Listed : Fetches(k, l)' <=> Fetches(k, l)
  BY <1>3 DEF Frame, Fetches
<1>11. ShownFetched'
  BY <1>1, <1>3, <1>5, <1>10 DEF ShownFetched
<1>12. ASSUME NEW j \in DOMAIN calls, NEW l \in Listed, NEW k \in DOMAIN calls,
              j # i, Fetches(k, l), Has(j, l, k)
       PROVE  Has(j, l, k)'
  <2>1. SUFFICES ASSUME NEW r \in tables'[l], r.by = j
                 PROVE  /\ calls'[k].at = "answered" /\ calls'[k].status = 200 => r \in calls'[k].rows
                        /\ shown'[l].what = "rows" /\ shown'[l].by = k => r \in shown'[l].rows
    BY <1>5 DEF Has
  <2>2. r \in tables[l]
    BY <1>6, <1>12, <2>1
  <2>3. shown'[l].what = "rows" /\ shown'[l].by = k => r \in shown'[l].rows
    BY <1>1, <1>12, <2>1, <2>2 DEF Has
  <2>4. CASE k = i
    <3>1. calls[i].method = "GET" /\ calls[i].list = l
      BY <1>12, <2>4 DEF Fetches
    <3>2. status = 200 => rows = tables[l]
      BY <1>2, <3>1 DEF Handled
    <3> QED
      BY <1>3, <2>2, <2>3, <2>4, <3>2
  <2>5. CASE k # i
    BY <1>3, <1>12, <2>1, <2>2, <2>3, <2>5 DEF Has
  <2> QED
    BY <2>4, <2>5
<1>13. Refreshed'
  <2>1. SUFFICES ASSUME NEW j \in DOMAIN calls, FollowedUp(j)', NEW l \in Listed
                 PROVE  \E m \in DOMAIN calls :
                          /\ Fetches(m, l)'
                          /\ \A k \in DOMAIN calls : m <= k /\ Fetches(k, l)' => Has(j, l, k)'
    BY <1>3, <1>5 DEF Refreshed
  <2>2. j # i
    BY <1>3, <2>1 DEF FollowedUp
  <2>3. FollowedUp(j)
    BY <1>3, <1>8, <2>1, <2>2 DEF FollowedUp
  <2>4. PICK m \in DOMAIN calls :
          /\ Fetches(m, l)
          /\ \A k \in DOMAIN calls : m <= k /\ Fetches(k, l) => Has(j, l, k)
    BY <2>3 DEF Refreshed
  <2> QED
    BY <1>10, <1>12, <2>2, <2>4
<1> QED
  BY <1>7, <1>9, <1>11, <1>13

\* A request that changes without an effect on tables and lists, and whose
\* answer, if it is one, has no rows.
LEMMA SilentPreserves ==
  ASSUME Inv, NEW i \in DOMAIN calls,
         UNCHANGED <<view, tables, shown>>,
         Frame,
         DOMAIN calls' = DOMAIN calls,
         \A k \in DOMAIN calls : k # i => calls'[k] = calls[k],
         calls'[i].at = "answered" => calls'[i].status # 200,
         ~FollowedUp(i)'
  PROVE  Inv'
<1> USE DEF Inv
<1>1. /\ Listed' = Listed
      /\ Call' = Call /\ Element' = Element
  BY DEF Listed, Call, Element, Row
<1>2. Typed'
  BY <1>1 DEF Typed, Frame, Row
<1>3. Creations' = Creations
  BY DEF Frame, Creations
<1>4. RowsCreated'
  BY <1>1, <1>3 DEF RowsCreated
<1>5. \A k \in DOMAIN calls, l \in Listed : Fetches(k, l)' <=> Fetches(k, l)
  BY DEF Frame, Fetches
<1>6. ShownFetched'
  BY <1>1, <1>5 DEF ShownFetched
<1>7. ASSUME NEW j \in DOMAIN calls, NEW l \in Listed, NEW k \in DOMAIN calls, Has(j, l, k)
      PROVE  Has(j, l, k)'
  BY <1>1, <1>7 DEF Has
<1>8. Refreshed'
  <2>1. SUFFICES ASSUME NEW j \in DOMAIN calls, FollowedUp(j)', NEW l \in Listed
                 PROVE  \E m \in DOMAIN calls :
                          /\ Fetches(m, l)'
                          /\ \A k \in DOMAIN calls : m <= k /\ Fetches(k, l)' => Has(j, l, k)'
    BY <1>1 DEF Refreshed
  <2>2. FollowedUp(j)
    BY <1>3, <2>1 DEF FollowedUp
  <2>3. PICK m \in DOMAIN calls :
          /\ Fetches(m, l)
          /\ \A k \in DOMAIN calls : m <= k /\ Fetches(k, l) => Has(j, l, k)
    BY <2>2 DEF Refreshed
  <2> QED
    BY <1>5, <1>7, <2>3
<1> QED
  BY <1>2, <1>4, <1>6, <1>8

\* A fetch that fails has no rows and is not followed up.
LEMMA ConnectionFailsPreserves ==
  ASSUME Inv, NEW i \in DOMAIN calls, ConnectionFails(i)
  PROVE  Inv'
<1>1. Respond(i, -1, {})
  BY DEF ConnectionFails, Respond
<1>2. UNCHANGED <<view, tables, shown>>
  BY DEF ConnectionFails
<1>3. /\ Frame
      /\ DOMAIN calls' = DOMAIN calls
      /\ \A k \in DOMAIN calls : k # i => calls'[k] = calls[k]
      /\ calls'[i].at = "answered" /\ calls'[i].status = -1
  <2>1. {} \in SUBSET Row /\ -1 \in Int
    OBVIOUS
  <2> QED
    BY <1>1, <1>2, <2>1, RespondChanges DEF Inv
<1>4. -1 # 200 /\ ~FollowedUp(i)'
  BY <1>3 DEF FollowedUp
<1> QED
  BY <1>2, <1>3, <1>4, SilentPreserves

\* The answer to a fetch moves from the request to the list.
LEMMA FetchDataPreserves ==
  ASSUME Inv, NEW i \in DOMAIN calls,
         calls[i].at = "answered", FetchData(i), UNCHANGED <<view, tables>>
  PROVE  Inv'
<1> USE DEF Inv
<1> DEFINE L == calls[i].list
<1>1. /\ calls \in Seq(Call) /\ calls[i] \in Call
      /\ shown \in [Listed -> Element]
  BY DEF Typed
<1>2. /\ L \in Listed
      /\ calls[i].rows \in SUBSET Row
      /\ i \in Nat
  <2>1. i \in Nat
    BY <1>1
  <2> QED
    BY <1>1, <2>1 DEF Call
<1>3. /\ calls[i].method = "GET"
      /\ calls' = [calls EXCEPT ![i].at = "done", ![i].rows = {}]
      /\ shown' = [shown EXCEPT ![L] =
                     IF calls[i].status = 200 THEN Table(i, calls[i].rows) ELSE ErrorText(i)]
  BY DEF FetchData, FetchedData
<1>4. /\ Frame
      /\ DOMAIN calls' = DOMAIN calls
      /\ \A k \in DOMAIN calls : k # i => calls'[k] = calls[k]
      /\ calls'[i].at = "done" /\ calls'[i].status = calls[i].status
  BY <1>3, DoneChanges
<1>5. /\ Listed' = Listed
      /\ Call' = Call /\ Element' = Element
  BY DEF Listed, Call, Element, Row
<1>6. /\ shown' \in [Listed -> Element]
      /\ \A l \in Listed : l # L => shown'[l] = shown[l]
      /\ shown'[L].by = i
      /\ shown'[L].what = "rows" => calls[i].status = 200 /\ shown'[L].rows = calls[i].rows
  <2>1. Table(i, calls[i].rows) \in Element /\ ErrorText(i) \in Element
    BY <1>2 DEF Table, ErrorText, Element
  <2>2. shown'[L] = IF calls[i].status = 200 THEN Table(i, calls[i].rows) ELSE ErrorText(i)
    BY <1>1, <1>2, <1>3
  <2>3. shown' \in [Listed -> Element] /\ \A l \in Listed : l # L => shown'[l] = shown[l]
    BY <1>1, <1>2, <1>3, <2>1
  <2> QED
    BY <2>2, <2>3 DEF Table, ErrorText
<1>7. Typed'
  BY <1>4, <1>5, <1>6 DEF Typed, Frame, Row
<1>8. Creations' = Creations
  BY <1>4 DEF Frame, Creations
<1>9. RowsCreated'
  BY <1>5, <1>8 DEF RowsCreated
<1>10. \A k \in DOMAIN calls, l \in Listed : Fetches(k, l)' <=> Fetches(k, l)
  BY <1>4 DEF Frame, Fetches
<1>11. Fetches(i, L)
  BY <1>3 DEF Fetches
<1>12. ShownFetched'
  BY <1>2, <1>4, <1>5, <1>6, <1>10, <1>11 DEF ShownFetched
<1>13. ASSUME NEW j \in DOMAIN calls, NEW l \in Listed, NEW k \in DOMAIN calls,
              Fetches(k, l), Has(j, l, k)
       PROVE  Has(j, l, k)'
  <2>1. SUFFICES ASSUME NEW r \in tables[l], r.by = j
                 PROVE  /\ calls'[k].at = "answered" /\ calls'[k].status = 200 => r \in calls'[k].rows
                        /\ shown'[l].what = "rows" /\ shown'[l].by = k => r \in shown'[l].rows
    BY <1>5 DEF Has
  <2>2. /\ calls[k].at = "answered" /\ calls[k].status = 200 => r \in calls[k].rows
        /\ shown[l].what = "rows" /\ shown[l].by = k => r \in shown[l].rows
    BY <1>13, <2>1 DEF Has
  <2>3. calls'[k].at = "answered" /\ calls'[k].status = 200 => r \in calls'[k].rows
    BY <1>4, <2>2
  <2>4. CASE l = L
    BY <1>6, <2>2, <2>3, <2>4
  <2>5. CASE l # L
    BY <1>6, <2>2, <2>3, <2>5
  <2> QED
    BY <2>4, <2>5
<1>14. Refreshed'
  <2>1. SUFFICES ASSUME NEW j \in DOMAIN calls, FollowedUp(j)', NEW l \in Listed
                 PROVE  \E m \in DOMAIN calls :
                          /\ Fetches(m, l)'
                          /\ \A k \in DOMAIN calls : m <= k /\ Fetches(k, l)' => Has(j, l, k)'
    BY <1>4, <1>5 DEF Refreshed
  <2>2. j # i
    BY <1>3, <1>8, <2>1 DEF FollowedUp, Creations
  <2>3. FollowedUp(j)
    BY <1>4, <1>8, <2>1, <2>2 DEF FollowedUp
  <2>4. PICK m \in DOMAIN calls :
          /\ Fetches(m, l)
          /\ \A k \in DOMAIN calls : m <= k /\ Fetches(k, l) => Has(j, l, k)
    BY <2>3 DEF Refreshed
  <2> QED
    BY <1>10, <1>13, <2>4
<1> QED
  BY <1>7, <1>9, <1>12, <1>14

\* Requests are sent or done with; what is followed up for the first time is
\* followed up by new requests for every list.
LEMMA GrowthPreserves ==
  ASSUME Inv,
         UNCHANGED <<view, tables, shown>>,
         Frame,
         \A k \in DOMAIN calls : calls'[k] = calls[k] \/ calls'[k].at = "done",
         \A k \in DOMAIN calls' \ DOMAIN calls : calls'[k].at = "sent",
         \A j \in DOMAIN calls : FollowedUp(j)' =>
           \/ FollowedUp(j)
           \/ \A l \in Listed : \E m \in DOMAIN calls' \ DOMAIN calls : Fetches(m, l)'
  PROVE  Inv'
<1> USE DEF Inv
<1>1. /\ Listed' = Listed
      /\ Call' = Call /\ Element' = Element
  BY DEF Listed, Call, Element, Row
<1>2. Typed'
  BY <1>1 DEF Typed, Frame, Row
<1>3. /\ \A k \in DOMAIN calls, m \in DOMAIN calls' \ DOMAIN calls : k < m
      /\ DOMAIN calls' \subseteq Nat
  <2>1. calls \in Seq(Call) /\ calls' \in Seq(Call)
    BY DEF Typed, Frame
  <2>2. /\ DOMAIN calls = 1..Len(calls) /\ Len(calls) \in Nat
        /\ DOMAIN calls' = 1..Len(calls') /\ Len(calls') \in Nat
    BY <2>1, LenProperties
  <2> QED
    BY <2>2
<1>4. RowsCreated'
  <2>1. Creations \subseteq Creations'
    BY DEF Frame, Creations
  <2> QED
    BY <1>1, <2>1 DEF RowsCreated
<1>5. \A k \in DOMAIN calls, l \in Listed : Fetches(k, l)' <=> Fetches(k, l)
  BY DEF Frame, Fetches
<1>6. ShownFetched'
  BY <1>1, <1>5 DEF ShownFetched, Frame
<1>7. ASSUME NEW j \in DOMAIN calls, NEW l \in Listed, NEW k \in DOMAIN calls, Has(j, l, k)
      PROVE  Has(j, l, k)'
  BY <1>1, <1>7 DEF Has
<1>8. ASSUME NEW j \in DOMAIN calls, NEW l \in Listed, NEW k \in DOMAIN calls' \ DOMAIN calls
      PROVE  Has(j, l, k)'
  <2>1. shown[l].what = "rows" => shown[l].by # k
    BY DEF ShownFetched
  <2> QED
    BY <2>1 DEF Has
<1>9. Refreshed'
  <2>1. SUFFICES ASSUME NEW j \in DOMAIN calls', FollowedUp(j)', NEW l \in Listed
                 PROVE  \E m \in DOMAIN calls' :
                          /\ Fetches(m, l)'
                          /\ \A k \in DOMAIN calls' : m <= k /\ Fetches(k, l)' => Has(j, l, k)'
    BY <1>1 DEF Refreshed
  <2>2. j \in DOMAIN calls
    BY <2>1 DEF FollowedUp
  <2>3. CASE FollowedUp(j)
    <3>1. PICK m \in DOMAIN calls :
            /\ Fetches(m, l)
            /\ \A k \in DOMAIN calls : m <= k /\ Fetches(k, l) => Has(j, l, k)
      BY <2>2, <2>3 DEF Refreshed
    <3>2. m \in DOMAIN calls' /\ Fetches(m, l)'
      BY <1>5, <3>1 DEF Frame
    <3>3. ASSUME NEW k \in DOMAIN calls', m <= k, Fetches(k, l)'
          PROVE  Has(j, l, k)'
      <4>1. CASE k \in DOMAIN calls
        BY <1>5, <1>7, <2>2, <3>1, <3>3, <4>1
      <4>2. CASE k \notin DOMAIN calls
        BY <1>8, <2>2, <4>2
      <4> QED
        BY <4>1, <4>2
    <3> QED
      BY <3>2, <3>3
  <2>4. CASE ~FollowedUp(j)
    <3>1. PICK m \in DOMAIN calls' \ DOMAIN calls : Fetches(m, l)'
      BY <2>1, <2>2, <2>4
    <3>2. ASSUME NEW k \in DOMAIN calls', m <= k
          PROVE  Has(j, l, k)'
      <4>1. k \notin DOMAIN calls
        BY <1>3, <3>1, <3>2
      <4> QED
        BY <1>8, <2>2, <4>1
    <3> QED
      BY <3>1, <3>2
  <2> QED
    BY <2>3, <2>4
<1> QED
  BY <1>2, <1>4, <1>6, <1>9

\* A creation is followed up by requests for every list, newer than all others.
LEMMA CreatedDataPreserves ==
  ASSUME Inv, NEW i \in DOMAIN calls,
         calls[i].at = "answered", CreatedData(i), UNCHANGED <<view, tables>>
  PROVE  Inv'
<1> DEFINE done == [calls EXCEPT ![i].at = "done", ![i].rows = {}]
           new == IF calls[i].status > 0 THEN FetchAllData ELSE <<>>
<1>1. calls' = done \o new /\ UNCHANGED <<view, tables, shown>>
  BY DEF CreatedData
<1>2. view \in Views /\ calls \in Seq(Call) /\ calls[i] \in Call
  BY DEF Inv, Typed
<1>3. /\ done \in Seq(Call)
      /\ DOMAIN done = DOMAIN calls
      /\ \A k \in DOMAIN calls : k # i => done[k] = calls[k]
      /\ done[i] = [calls[i] EXCEPT !.at = "done", !.rows = {}]
  <2>1. [calls[i] EXCEPT !.at = "done", !.rows = {}] \in Call
    BY <1>2 DEF Call
  <2>2. i \in 1..Len(calls)
    BY <1>2
  <2>3. done = [calls EXCEPT ![i] = [calls[i] EXCEPT !.at = "done", !.rows = {}]]
    BY <1>2
  <2>4. done \in Seq(Call)
    BY <1>2, <2>1, <2>2, <2>3, ExceptSeq
  <2> QED
    BY <1>2, <2>4
<1>4. /\ new \in Seq(Call)
      /\ \A k \in DOMAIN new : new[k].at = "sent"
      /\ calls[i].status > 0 =>
           \A l \in Listed : \E k \in DOMAIN new : new[k].method = "GET" /\ new[k].list = l
  <2>1. CASE calls[i].status > 0
    BY <1>2, <2>1, RefreshAsks
  <2>2. CASE ~(calls[i].status > 0)
    <3>1. new = <<>>
      BY <2>2
    <3> QED
      BY <2>2, <3>1
  <2> QED
    BY <2>1, <2>2
<1> HIDE DEF done, new
<1>5. /\ calls' \in Seq(Call)
      /\ Len(calls') = Len(done) + Len(new)
      /\ \A k \in 1..Len(done) + Len(new) :
           calls'[k] = IF k <= Len(done) THEN done[k] ELSE new[k - Len(done)]
  BY <1>1, <1>3, <1>4, ConcatProperties
<1>6. /\ Len(done) \in Nat /\ DOMAIN done = 1..Len(done)
      /\ Len(new) \in Nat /\ DOMAIN new = 1..Len(new)
      /\ DOMAIN calls' = 1..Len(calls')
  BY <1>3, <1>4, <1>5, LenProperties
<1>7. /\ DOMAIN calls \subseteq DOMAIN calls'
      /\ \A k \in DOMAIN calls : calls'[k] = done[k]
      /\ \A k \in DOMAIN calls' \ DOMAIN calls :
           k - Len(done) \in DOMAIN new /\ calls'[k] = new[k - Len(done)]
      /\ \A k \in DOMAIN new :
           k + Len(done) \in DOMAIN calls' \ DOMAIN calls /\ calls'[k + Len(done)] = new[k]
  BY <1>3, <1>5, <1>6, SMTT(60)
<1>8. /\ done[i].at = "done"
      /\ done[i].method = calls[i].method
      /\ done[i].list = calls[i].list
      /\ done[i].page = calls[i].page
      /\ done[i].status = calls[i].status
  BY <1>2, <1>3 DEF Call
<1>9. Frame
  BY <1>1, <1>3, <1>5, <1>7, <1>8 DEF Frame
<1>10. \A k \in DOMAIN calls : calls'[k] = calls[k] \/ calls'[k].at = "done"
  BY <1>3, <1>7, <1>8
<1>11. \A k \in DOMAIN calls' \ DOMAIN calls : calls'[k].at = "sent"
  BY <1>4, <1>7
<1>12. ASSUME NEW j \in DOMAIN calls, FollowedUp(j)', ~FollowedUp(j), NEW l \in Listed
       PROVE  \E m \in DOMAIN calls' \ DOMAIN calls : Fetches(m, l)'
  <2>1. j = i
    <3>1. j \in Creations' => j \in Creations
      BY <1>9 DEF Frame, Creations
    <3> QED
      BY <1>3, <1>7, <1>12, <3>1 DEF FollowedUp
  <2>2. calls[i].status > 0
    BY <1>7, <1>8, <1>12, <2>1 DEF FollowedUp
  <2>3. PICK k \in DOMAIN new : new[k].method = "GET" /\ new[k].list = l
    BY <1>4, <2>2
  <2> QED
    BY <1>7, <2>3 DEF Fetches
<1> QED
  BY <1>1, <1>9, <1>10, <1>11, <1>12, GrowthPreserves

\* One more request is sent.
LEMMA SentPreserves ==
  ASSUME Inv, NEW call \in Call, call.at = "sent",
         calls' = Append(calls, call), UNCHANGED <<view, tables, shown>>
  PROVE  Inv'
<1>1. calls \in Seq(Call)
  BY DEF Inv, Typed
<1>2. /\ calls' \in Seq(Call)
      /\ DOMAIN calls' = 1..(Len(calls) + 1)
      /\ DOMAIN calls = 1..Len(calls) /\ Len(calls) \in Nat
      /\ \A k \in DOMAIN calls : calls'[k] = calls[k]
      /\ calls'[Len(calls) + 1] = call
  BY <1>1
<1>3. \A k \in DOMAIN calls' \ DOMAIN calls : calls'[k] = call
  BY <1>2
<1>4. Frame
  BY <1>2 DEF Frame
<1>5. ASSUME NEW j \in DOMAIN calls, FollowedUp(j)'
      PROVE  FollowedUp(j)
  BY <1>2, <1>5 DEF FollowedUp, Creations
<1> QED
  BY <1>2, <1>3, <1>4, <1>5, GrowthPreserves

\* A form, or another client, sends one request.
LEMMA SubmitPreserves ==
  ASSUME Inv, NEW l \in Listed, NEW id \in Ids, Submit(l, id) \/ OtherClient(l, id)
  PROVE  Inv'
<1>1. /\ Request("POST", l, id, TRUE) \in Call
      /\ Request("POST", l, id, FALSE) \in Call
      /\ Request("GET id", l, id, FALSE) \in Call
  BY DEF Request, Call
<1>2. \A method, page : Request(method, l, id, page).at = "sent"
  BY DEF Request
<1>3. PICK call \in Call : call.at = "sent" /\ calls' = Append(calls, call)
  BY <1>1, <1>2 DEF Submit, OtherClient, Submitted
<1>4. UNCHANGED <<view, tables, shown>>
  BY DEF Submit, OtherClient
<1> QED
  BY <1>3, <1>4, SentPreserves

\* The page sees the answers to its own requests only.
LEMMA CallbackPreserves ==
  ASSUME Inv, NEW i \in DOMAIN calls, Callback(i)
  PROVE  Inv'
<1>1. calls[i].at = "answered" /\ UNCHANGED <<view, tables>>
  BY DEF Callback
<1>2. CASE calls[i].page
  BY <1>1, <1>2, FetchDataPreserves, CreatedDataPreserves DEF Callback
<1>3. CASE ~calls[i].page
  <2>1. /\ calls' = [calls EXCEPT ![i].at = "done", ![i].rows = {}]
        /\ UNCHANGED <<view, tables, shown>>
    BY <1>3 DEF Callback
  <2>2. /\ Frame
        /\ DOMAIN calls' = DOMAIN calls
        /\ \A k \in DOMAIN calls : k # i => calls'[k] = calls[k]
        /\ calls'[i].at = "done"
    BY <2>1, DoneChanges DEF Inv
  <2>3. ~FollowedUp(i)'
    BY <1>3, <2>2 DEF FollowedUp, Frame
  <2> QED
    BY <2>1, <2>2, <2>3, SilentPreserves
<1> QED
  BY <1>2, <1>3

\* All actions together.
LEMMA StepPreserves ==
  ASSUME Inv, [Next]_vars
  PROVE  Inv'
<1>1. CASE Serve
  BY <1>1, RouterPreserves DEF Serve
<1>2. CASE Answered
  BY <1>2, CallbackPreserves DEF Answered
<1>3. ASSUME NEW i \in DOMAIN calls, ConnectionFails(i)
      PROVE  Inv'
  BY <1>3, ConnectionFailsPreserves
<1>4. ASSUME NEW l \in Forms \cap Listed, NEW id \in Ids, Submit(l, id) \/ OtherClient(l, id)
      PROVE  Inv'
  BY <1>4, SubmitPreserves
<1>5. CASE UNCHANGED vars
  <2>1. /\ Listed' = Listed /\ Creations' = Creations
        /\ Call' = Call /\ Element' = Element /\ Row' = Row
    BY <1>5 DEF vars, Listed, Creations, Call, Element, Row
  <2>2. Typed' /\ RowsCreated' /\ ShownFetched'
    BY <1>5, <2>1 DEF vars, Inv, Typed, RowsCreated, ShownFetched, Fetches
  <2>3. Refreshed'
    BY <1>5, <2>1 DEF vars, Inv, Refreshed, FollowedUp, Fetches, Has
  <2> QED
    BY <2>2, <2>3 DEF Inv
<1> QED
  BY <1>1, <1>2, <1>3, <1>4, <1>5 DEF Next

-----------------------------------------------------------------------------
\* Nothing is stored, shown or created yet.
LEMMA InitEstablishes == Init => Inv
<1> SUFFICES ASSUME Init PROVE Inv
  OBVIOUS
<1>1. view \in Views /\ calls = FetchAllData
  BY DEF Init
<1>2. /\ calls \in Seq(Call)
      /\ \A k \in DOMAIN calls : calls[k].method = "GET" /\ calls[k].at = "sent"
  BY <1>1, RefreshAsks
<1>3. Blank \in Element /\ {} \in SUBSET Row
  BY DEF Blank, Element
<1>4. Typed
  BY <1>1, <1>2, <1>3 DEF Init, Typed
<1>5. RowsCreated /\ ShownFetched
  BY DEF Init, RowsCreated, ShownFetched, Blank
<1>6. Refreshed
  BY <1>2 DEF Refreshed, FollowedUp
<1> QED
  BY <1>4, <1>5, <1>6 DEF Inv

\* The newest fetch is one of those that were sent after the row was stored.
LEMMA InvShowsTheRow == Inv => RefreshShowsTheRow
<1> SUFFICES ASSUME Inv,
                    \A i \in Creations : calls[i].page => calls[i].at = "done",
                    NEW l \in Listed,
                    shown[l].what = "rows", NewestFetch(shown[l].by, l),
                    NEW r \in tables[l], calls[r.by].page, calls[r.by].status > 0
             PROVE  r \in shown[l].rows
  BY DEF RefreshShowsTheRow
<1> USE DEF Inv
<1>1. r.by \in DOMAIN calls /\ FollowedUp(r.by)
  BY DEF RowsCreated, Creations, FollowedUp
<1>2. PICK i \in DOMAIN calls :
        /\ Fetches(i, l)
        /\ \A k \in DOMAIN calls : i <= k /\ Fetches(k, l) => Has(r.by, l, k)
  BY <1>1 DEF Refreshed
<1>3. shown[l].by \in DOMAIN calls /\ Fetches(shown[l].by, l)
  BY DEF ShownFetched
<1>4. i <= shown[l].by
  BY <1>2 DEF NewestFetch
<1>5. Has(r.by, l, shown[l].by)
  BY <1>2, <1>3, <1>4
<1> QED
  BY <1>5 DEF Has

\* Once no creation of the page is under way, a list that the newest fetch
\* filled shows every row created through the page (createData, fetchAllData).
THEOREM CreatedRowsShown == Spec => []RefreshShowsTheRow
<1>1. Inv /\ [Next]_vars => Inv'
  BY StepPreserves
<1> QED
  BY <1>1, InitEstablishes, InvShowsTheRow, PTL DEF Spec
=============================================================================
