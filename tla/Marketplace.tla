----------------------------- MODULE Marketplace ------------------------------
(* The NFT marketplace demo: the Express routes over the database and the one *)
(* page that shows a list for every route and creates rows by forms. The page *)
(* awaits no request before it sends the next, and fetch answers in any       *)
(* order, so that lists are filled by whichever answer comes last.            *)
EXTENDS Integers, FiniteSets, Sequences, Functions

CONSTANTS
  None,          \* no value
  Ids,           \* ids a user may type; nothing keeps two rows from having one
  Views          \* what a behaviour looks at: the `lists` of the page it has,
                 \* in order, and bounds: the rows `created` and the `faults`

\* The lists of the page, one for each table, and those with a form.
Lists == {"users", "nfts", "transactions", "collections", "categories", "bids", "tags", "nft_tags"}
Forms == Lists \ {"transactions"}

ASSUME ViewsAssumption ==
  Views \subseteq [lists : Seq(Lists), created : Nat, faults : Nat]

VARIABLES
  view,          \* never changes
  tables,        \* the rows of each table
  calls,         \* every request sent, in the order sent
  shown,         \* what the element of each list holds
  faults         \* failures still to come

vars == <<view, tables, calls, shown, faults>>

Listed == Range(view.lists)

-----------------------------------------------------------------------------
(* What a list element holds: nothing yet, an error, or the rows of an answer *)
(* (none: "No data found"), with the number of the request that answered.     *)

Blank == [what |-> "blank", rows |-> {}, by |-> 0]
ErrorText(i) == [what |-> "error", rows |-> {}, by |-> i]
Table(i, rows) == [what |-> "rows", rows |-> rows, by |-> i]

\* `page` is FALSE for another client, whose answers the page never sees.
Request(method, list, id, page) ==
  [method |-> method, list |-> list, id |-> id, page |-> page,
   at |-> "sent", status |-> 0, rows |-> {}]

Creations == {i \in DOMAIN calls : calls[i].method = "POST"}

-----------------------------------------------------------------------------
(* services/wwfsdb.js and routes/api.js.                                     *)

Respond(i, status, rows) ==
  calls' = [calls EXCEPT ![i].at = "answered", ![i].status = status, ![i].rows = rows]

Fault == faults > 0 /\ faults' = faults - 1

\* executeQuery gives the parsed rows or throws, and a route answers 500 then.
ExecuteQuery(i, rows) ==
  /\ UNCHANGED tables
  /\ \/ Respond(i, 200, rows) /\ UNCHANGED faults
     \/ Respond(i, 500, {}) /\ Fault

\* A write is applied, refused, or applied while its answer is lost.
ExecuteWriteQuery(i, row) ==
  LET t == calls[i].list
      Inserted == tables' = [tables EXCEPT ![t] = @ \cup {row}]
  IN \/ Inserted /\ Respond(i, 200, {}) /\ UNCHANGED faults
     \/ UNCHANGED tables /\ Respond(i, 500, {}) /\ Fault
     \/ Inserted /\ Respond(i, 500, {}) /\ Fault

GetAll(i) == calls[i].method = "GET" /\ ExecuteQuery(i, tables[calls[i].list])
GetById(i) ==
  /\ calls[i].method = "GET id"
  /\ ExecuteQuery(i, {r \in tables[calls[i].list] : r.id = calls[i].id})
Create(i) ==
  /\ calls[i].method = "POST"
  /\ ExecuteWriteQuery(i, [id |-> calls[i].id, by |-> i])

Users(i) == calls[i].list = "users" /\ (GetAll(i) \/ GetById(i) \/ Create(i))
Collections(i) == calls[i].list = "collections" /\ (GetAll(i) \/ Create(i))
Categories(i) == calls[i].list = "categories" /\ (GetAll(i) \/ Create(i))
Nfts(i) == calls[i].list = "nfts" /\ (GetAll(i) \/ GetById(i) \/ Create(i))
Transactions(i) == calls[i].list = "transactions" /\ GetAll(i)
Bids(i) == calls[i].list = "bids" /\ (GetAll(i) \/ Create(i))
Tags(i) == calls[i].list = "tags" /\ (GetAll(i) \/ Create(i))
NftTags(i) == calls[i].list = "nft_tags" /\ (GetAll(i) \/ Create(i))

\* express: one handler for a request, found by its path and method.
Router(i) ==
  /\ calls[i].at = "sent"
  /\ UNCHANGED <<view, shown>>
  /\ \/ Users(i) \/ Collections(i) \/ Categories(i) \/ Nfts(i)
     \/ Transactions(i) \/ Bids(i) \/ Tags(i) \/ NftTags(i)

\* fetch rejects: before the server has the request or after it has answered.
ConnectionFails(i) ==
  /\ calls[i].at = "sent" \/ (calls[i].at = "answered" /\ calls[i].status > 0)
  /\ calls' = [calls EXCEPT ![i].at = "answered", ![i].status = -1, ![i].rows = {}]
  /\ Fault
  /\ UNCHANGED <<view, tables, shown>>

-----------------------------------------------------------------------------
(* public/script.js.                                                         *)

FetchAllData == [k \in DOMAIN view.lists |-> Request("GET", view.lists[k], None, TRUE)]

ShowOnlyRows(i) ==     \* mutant: an error answer empties the list and is not caught
  /\ shown' = [shown EXCEPT ![calls[i].list] =
                 IF calls[i].status = 200 THEN Table(i, calls[i].rows) ELSE Blank]
  /\ calls' = [calls EXCEPT ![i].at = "done", ![i].rows = {}]

\* A row's table, an empty table, or the text of the error: an error answer
\* has no length, and Object.keys of its missing first element throws.
FetchedData(i) ==
  /\ shown' = [shown EXCEPT ![calls[i].list] =
                 IF calls[i].status = 200 THEN Table(i, calls[i].rows) ELSE ErrorText(i)]
  /\ calls' = [calls EXCEPT ![i].at = "done", ![i].rows = {}]

FetchData(i) ==
  /\ calls[i].method = "GET"
  /\ FetchedData(i)

CreatedWithoutRefresh(i) ==     \* mutant: an error answer is not followed by a refresh
  /\ calls[i].method = "POST"
  /\ calls' = [calls EXCEPT ![i].at = "done", ![i].rows = {}]
              \o (IF calls[i].status = 200 THEN FetchAllData ELSE <<>>)
  /\ UNCHANGED shown

\* Whatever JSON came back, all lists are fetched again; only a rejected fetch
\* goes to the catch, which does no more than log it.
CreatedData(i) ==
  /\ calls[i].method = "POST"
  /\ calls' = [calls EXCEPT ![i].at = "done", ![i].rows = {}]
              \o (IF calls[i].status > 0 THEN FetchAllData ELSE <<>>)
  /\ UNCHANGED shown

Callback(i) ==
  /\ calls[i].at = "answered"
  /\ \/ calls[i].page /\ (FetchData(i) \/ CreatedData(i))
     \/ /\ ~calls[i].page
        /\ calls' = [calls EXCEPT ![i].at = "done", ![i].rows = {}]
        /\ UNCHANGED shown
  /\ UNCHANGED <<view, tables, faults>>

\* The seven submit handlers: read the fields, send, empty the form at once.
Submitted(l, id, page) == calls' = Append(calls, Request("POST", l, id, page))

Submit(l, id) ==
  /\ Cardinality(Creations) < view.created
  /\ Submitted(l, id, TRUE)
  /\ UNCHANGED <<view, tables, shown, faults>>

\* Somebody else's request for a row, or one that creates a row.
OtherClient(l, id) ==
  /\ Cardinality(Creations) < view.created
  /\ \/ Submitted(l, id, FALSE)
     \/ /\ l \in {"users", "nfts"}
        /\ \A i \in DOMAIN calls : calls[i].method # "GET id"     \* bound: one
        /\ calls' = Append(calls, Request("GET id", l, id, FALSE))
  /\ UNCHANGED <<view, tables, shown, faults>>

-----------------------------------------------------------------------------
Init ==
  /\ view \in Views
  /\ tables = [l \in Listed |-> {}]
  /\ calls = FetchAllData
  /\ shown = [l \in Listed |-> Blank]
  /\ faults = view.faults

Serve == \E i \in DOMAIN calls : Router(i)
Answered == \E i \in DOMAIN calls : Callback(i)

Next ==
  \/ Serve
  \/ Answered
  \/ \E i \in DOMAIN calls : ConnectionFails(i)
  \/ \E l \in Forms \cap Listed, id \in Ids : Submit(l, id) \/ OtherClient(l, id)

\* The server answers what it is asked and the browser runs what is due.
Fairness == WF_vars(Serve) /\ WF_vars(Answered)

Spec == Init /\ [][Next]_vars /\ Fairness

-----------------------------------------------------------------------------
(* Properties.                                                               *)

Fetches(i, l) == calls[i].method = "GET" /\ calls[i].list = l
NewestFetch(i, l) == \A j \in DOMAIN calls : Fetches(j, l) => j <= i

\* Creating awaits its answer before it refreshes (createData): once no creation
\* of this page is under way, a list filled by the newest fetch has every row
\* this page created in it, also one whose creation was answered by an error
\* although it had been stored. Only when the connection broke is there none.
RefreshShowsTheRow ==
  (\A i \in Creations : calls[i].page => calls[i].at = "done") =>
    \A l \in Listed :
      shown[l].what = "rows" /\ NewestFetch(shown[l].by, l) =>
        \A r \in tables[l] : calls[r.by].page /\ calls[r.by].status > 0 => r \in shown[l].rows

\* No answer leaves a list blank: whatever fails, every list ends up saying
\* something, rows, that there are none, or the error, and no request hangs.
PageSettles ==
  <>[](/\ \A l \in Listed : shown[l].what # "blank"
       /\ \A i \in DOMAIN calls : calls[i].at = "done")
=============================================================================
