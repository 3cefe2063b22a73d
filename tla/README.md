# wwfsdb in TLA+

wwfsdb is a SQL database over IPFS, written in Go: every version of a database
is an immutable, content-addressed object, and a name is a pointer to the
current one. This directory holds a model of it, the runs that check the model
with TLC, and theorems about it that TLAPS has checked.

## 1. The system

| component | state | operations | talks to |
|---|---|---|---|
| Dispatcher, job queues (`pkg/rpc/server.go`) | `d.queues`: one channel of capacity 100 and one worker goroutine per database name | `Dispatch`, `worker` | workers run `core.ExecuteQuery`; the handler blocks on the job's `ErrChan` |
| Dispatcher, transactions (`pkg/rpc/server.go`) | `d.transactions`: session id -> in-memory copy of a database, with a mutex of its own; `d.mu` | `BeginTransaction`, `ExecuteInTransaction`, `CommitTransaction`, `RollbackTransaction`, `cleanupStaleTransactions` | `core.LoadDatabase`, `AddObject`, `UpdateCache`, `PublishAsync` |
| RPC service (`pkg/rpc/service.go`) | none | `ExecuteQuery` routes a statement: SELECT in the handler, other statements through the queue, statements of a session to its transaction; `ForkDatabase`, `DeleteDatabase`, `Export`, `GetContentCID`, `GetTableSchema` | Dispatcher, core |
| Database lifecycle (`pkg/core/database.go`, `publish.go`) | none of its own | `CreateDatabase`, `LoadDatabase`, `ExecuteQuery`, `DeleteDatabase`, `PublishAsync` | LevelDB, IPFS |
| LevelDB (`pkg/leveldb`) | cache: name -> CID; registry: name -> IPNS key id | `UpdateCache`, `GetCID`, registry put, get, delete | survives the process |
| IPFS node (external) | objects by CID; keys by name; one IPNS record per key | add, cat, KeyGen, publish, resolve | |
| Prolly trees (`pkg/core/prolly_trees.go`) | nodes by CID | `Put`, `Get`, `Delete`, with split, borrow and merge | rows, indexes |
| Rows and pages (`row.go`, `page.go`), indexes (`index.go`) | pages of up to 100 rows; a primary tree from row to page; secondary indexes | insert, update, delete, index creation | prolly trees |
| Table definitions (`table.go`) | schema of each table | create, drop, alter, rename, truncate, migrate | rows |
| Query engine (`query.go`) | none | joins, filters, aggregation, union, order, limit, subqueries | rows |
| Shell and commands (`cmd`) | the session the shell believes it is in | statements, import, export, migrate | RPC client |
| Banking demo, routes (`ssql_tests/mobile-banking-app/app/api`) | ten tables in a wwfsdb database | register, login, transfer, beneficiaries, tickets, profile, settings, reads | RPC over HTTP, one statement after another |
| Banking demo, pages (`app/(auth)`, `app/(dashboard)`) | the token in localStorage, the lists and flags of the page, a timer | fetch on mount, forms, navigation, logout | the routes |
| Marketplace demo (`ssql_tests/nft-marketplace-backend`) | eight tables; eight lists on one page | creation by form, refresh of every list | Express routes, then RPC |
| JavaScript scripts (`js-scripts`) | counts of what passed and failed | integration tests, a migration, `createdb.js` | RPC over HTTP |

The behaviours that are hard: many HTTP handlers, one worker per database, the
cleanup loop and any number of publishing goroutines run at once; state is read
under one lock and used under another; five stores (memory, the LevelDB cache,
the registry, IPFS objects, IPNS records) are written one after the other and
any write may fail, some of them silently; and the process may die between two
of them. `PROJECT.json` lists each place under `hazards`.

What makes each component correct:

* queues: each job is run once and answered once; acknowledged statements stay,
  refused ones leave no trace; the whole is a serial database;
* transactions: invisible before COMMIT, then visible as one unit; ended once;
  no lock is kept; every call returns;
* lifecycle: a name is created once, belongs to one owner, and always points to
  a stored version of its own;
* trees, rows, indexes: a tree stays a balanced, ordered B-tree and has what was put
  into it; constraints hold; indexes agree with the rows;
* query engine: each operator computes what its SQL definition says;
* shell: a statement typed inside BEGIN ... COMMIT is in the transaction;
* banking demo: the history explains the balances and one failure makes no
  money; a registration is whole; answers and pages have the user's own rows; the
  lists on a page are those in the database; every page settles;
* marketplace: a refresh after a creation shows the row, and every list says
  something in the end.

## 2. Modules

| module | models | state |
|---|---|---|
| `WwfsServer` | Dispatcher, RPC routing, lifecycle, LevelDB, IPFS and IPNS | the five stores, one task per goroutine, the transactions, what clients know |
| `SerialDatabase` | what the queue, worker and cache promise: each database executes one statement at a time and an acknowledged one stays | one log per database |
| `AutocommitRefinement` | `WwfsServer` without sessions implements `SerialDatabase` | a refinement mapping |
| `WwfsServerProofs` | theorems about `WwfsServer` and its refinement | |
| `ProllyNodes` | `prolly_trees.go`: nodes, `Get`, `Put`, `Delete` | operators only |
| `ProllyTree` | one tree under any calls | the root node, with the pairs its calls describe |
| `NodeProofs`, `TreeProofs` | lemmas about the operators of `ProllyNodes`; theorems about `ProllyTree` | |
| `TableStore` | one table of `row.go`, `page.go`, `index.go`, over the tree of `ProllyNodes` | pages, index, the statement that runs and its working copy |
| `LogicalTable`, `TableRefinement` | what a table promises; `TableStore` implements it | the rows |
| `TableProofs` | theorems about `TableStore` and its refinement | |
| `QueryPipeline` | the clauses of a SELECT in `query.go`, and a client that pages through the answer | the clause it is at, rows, groups, results, the client's pages |
| `QueryProofs` | theorems about `QueryPipeline` | |
| `BankApi` | every route of the banking demo | tables, requests, failures left |
| `BankPages` | its pages in one browser tab, composed with `BankApi` | the tab: token, page, timers |
| `BankProofs` | theorems about the routes and the pages | |
| `Marketplace` | routes and page of the marketplace demo | tables, requests, lists on the page |
| `MarketplaceProofs` | a theorem about `Marketplace` | |
| `DataInduction` | lemmas on finite sets, sums and sequences that proofs by induction over data need | |
| `MC...` | instances for TLC | |

`WwfsServer` treats a statement as one item of a version's contents, `TableStore`
says what it does to rows, `ProllyNodes` what the index under it does and
`QueryPipeline` what a SELECT computes from the rows. The levels meet where the
code does: `ExecuteOnDB` between server and table; `TableStore` extends
`ProllyNodes`, so that the index of a modelled table is the tree of the code and
loses what that loses. The demos are clients: for them the server is atomic
statements that may fail or lose their answer, which is what `SerialDatabase`
promises of auto-committed ones; and a UNIQUE column refuses what the index finds.

### WwfsServer and the code

A step is one access to state that goroutines share: a LevelDB read or write, an
IPFS request whose effect others can see, a critical section of `d.mu` or of a
transaction's mutex. What a goroutine does between two of them belongs to one
of them.

| code | model |
|---|---|
| `LoadDatabase` | `ReadCache`, and on a miss `ReadEntry` (registry), `Resolve` (IPNS) and `FillCache` |
| `ExecuteQuery` in a worker | `ReadCache` ..., `ExecuteJob` (VerifySignature, ExecuteOnDB, AddObject), `StoreJob` (UpdateCache, PublishAsync) |
| `Dispatch`, `worker` | `FindQueue`, `Enqueue` (blocks on a full channel), `TakeJob`, `AnswerJob` (blocks until the handler receives) |
| `BeginTransaction` | `LockForBegin`, the steps of `LoadDatabase` under `d.mu`, `OpenTransaction` |
| `ExecuteInTransaction` | `LookUpTransaction` under `d.mu`, then `RunInTransaction` under the mutex of the transaction |
| `CommitTransaction` | `TakeForCommit`, `CommitAdd`, `CommitStore` |
| `RollbackTransaction`, `cleanupStaleTransactions` | `RollbackTransaction`, `CleanupStale` |
| `CreateDatabase`, `ForkDatabase` | `GenerateKey`, `Register`, `CacheNew` |
| `Publish`, `PublishAsync` | `Spawn` inside the step that starts the goroutine; `FindEntry` (registry) and `Publish` (IPNS), or `PublishFails`, later |
| `DeleteDatabase` | `DeleteDatabase`: the registry entry goes, or an error; the cache entry stays |
| an error return | `ReturnError`, and the second branch of the action it belongs to |
| death of the process | `Crash`: LevelDB and IPFS stay, all else is gone |

A CID is the version it names, and a version is its owner and the statements its
content is the result of. So `Execute` appends a statement; what a statement
does to rows is the subject of `TableStore`. Abstractions to know of:

* Every call that only reads (`SELECT`, `Export`, `GetContentCID`,
  `GetTableSchema`) is `CallSelect`. A SELECT inside a session changes no more
  than the time of last access and is left out with that time.
* Time is not modelled: `CleanupStale` may drop any active session.
* A client sends each statement once and draws no session id twice; the id is
  chosen when BEGIN arrives.
* Databases written before owner keys existed (which skip `VerifySignature`) do
  not occur.
* A fork starts from a version that is cached at that time.
* A crash of the process keeps what LevelDB has written.
* `Cat` and `Add` of IPFS are exact: a CID names one content for ever.

### ProllyNodes, ProllyTree and the code

Each function of `prolly_trees.go` is an operator of its name. A node is a record;
the CID of a node is the node. What calls itself in the code is a recursive function
of the height of a node (`height` is 0 where the code has `IsLeaf`; that all leaves
are as far down is part of what is shown, since a node must be in `Nodes` of its
height). `recursivePut` returns the piece that takes the node's place in its parent:
one child, or two with the promoted key between. What an index out of range leaves is
`Panicked`, which every operator passes on, and the caller keeps the tree it had.
`RecursiveGet`, `RecursivePut` and `RecursiveDelete` are functions of the key they are
for, and `Get`, `Put` and `Delete` apply them to the root. Keys are numbers, which have the order of the strings they stand for. `valueToString` is injective
on the values of one column type and is left out. `Workloads` says what is put
first (`Load`), which values a key may get then, how many of them, and how many
deletions there are.

### TableStore and the code

One iteration of the loop over tuples (`InsertDB`) or rows (`UpdateDB`,
`DeleteDB`) is one step on the statement's working copy (`done`, `buf`, `ix`), so
that a statement can fail between any two. `Commit` is `AddObject` of the table;
`Abort` an error return. A page CID is the page. The index of the UNIQUE column is a
tree of `ProllyNodes` whose values are pages: a DELETE or UPDATE removes from the list
of a key the CID that the page has now, which need not be the one that was put. Where
an operation of the tree panics the process ends (`Reindex`), which is one of the
failures `Fail` has at every step. A WHERE clause is the set of rows it is true of, a
SET clause a column and its new value.

`shrunk` is history: an entry was to be deleted from a tree of more than one node.
`UniqueKeys` and `IndexCoversRows` say what is true of this code until then: values
that are no separator of the index (`SeparatorsOf`) have their entry and are not
accepted twice. A separator has no entry (`Split`), and after a merge, which gives a
leaf more keys than lists of values, entries of other keys may go. What UNIQUE
promises without these two conditions is `Unique`, which the run `bug_duplicate`
refutes at the order of the code.

### QueryPipeline and the code

A step is a clause, or one iteration of a loop that decides something: a pair of
rows in `executeJoin` (`JoinPair`), a row the condition is evaluated for
(`WhereRow`), a row put into its group (`GroupRow`), a group's result
(`Aggregate`). Stages follow `QueryDB`: load, join, pad, where, filter, union (in
`executeUnion`, after the left SELECT), group, aggregate, order, limit, and then
the client, which asks for the next page with a higher OFFSET, so that the whole
query runs again. What a WHERE may say is the set `Conditions`, closed under taking
parts, each nested less deep (`Depth`) than the whole; what it means (`Meaning`) is a
recursive function that gives of each condition the rows it is true of. Rows are named by
their place in the stored table, so that duplicates can be told apart and a
property can ask which rows an answer has. Details that matter to the answers:

* a page that cannot be read is skipped (`RowsOf`), at most `MaxFaults` of them;
* groups come out in the order of a Go map, any order of the model, anew for
  every page the client asks for;
* the argument of an aggregate is looked up by its name alone, in any table that
  has it; of a column both tables have, a page may therefore aggregate other values
  than the page before, so that `PagesPartition` asks for a column of one of them;
* `crossProduct` with an empty side is the other side: its rows then have no row of the
  empty table (`InRow`), and reading a column of that is an error of
  `evaluateIdentifier`, which comparisons, IN and ORDER BY take for NULL and IS NULL
  and GROUP BY return: the query fails (`WhereFails`, `GroupFails`). AND and OR come to
  their right side only when the left one has not decided. `SelectionRight` also says that
  no query over one table fails;
* the argument's lookup ends at the first table that has a value stored, NULL too; a
  column that INSERT did not list is not stored and the lookup goes on, which is
  among what the model may choose (`Arguments`);
* SELECT lists are `*`, or group columns and one aggregate;
* a subquery is evaluated for every row of the outer query and reads its pages
  again each time, so that one row may miss a page another saw (`WhereRow`); a
  condition has one subquery at most (bound of the instances), of a constant
  depth;
* with a WHERE, a row of the subquery is completed by the outer row, which hides
  it if both are of one table (`SubQuery`): a query over `l` with a subquery over
  `l` without an alias tests the outer row against itself. `SelectionRight` speaks
  of the conditions `SemiJoin` names: comparisons of the first table with constants
  and with subqueries of the second, by themselves or correlated;
* `JoinIsRelational` and `SelectionRight` say what is lost with a page; a NOT IN
  over a page that could not be read also lets rows in, so that `UnionIsSet` asks
  which rows there are only where every page was read;
* a NULL that a subquery selects equals nothing, also for NOT IN, where standard
  SQL would answer no row at all;
* a UNION compares rows by their texts, in which columns are sorted by name
  (`RowText`; here both sides have the same names);
* `Less` puts NULL where the code's comparison does, and sorting is stable.

Columns are numbers. `natural` and `full` are kinds of the model that no instance
uses: the parser gives NATURAL JOIN a join type of its own, for which
`executeJoin` makes no condition (it makes one for a JOIN without ON), and its
grammar has no FULL JOIN.

### BankApi, BankPages and the code

A route handler is a sequence of awaited statements, and each of them is a step,
so that the handlers of several requests interleave between statements. A request
is a record in `calls` that remembers where its handler is (`at`), what it knows
(`loc`), the answer, and which callback of the page waits for it (`then`, with
the state it has captured, `seen`). Statements and connections fail at most
`faults` times; a write may be applied although its answer is lost.

* An answer to `SELECT *` has keys with the table's name in them (`Star`): a plain
  column name reads `Undefined` from it. The routes that name their columns get
  `Plain` rows. Several checks of the routes compare `Undefined`, and JavaScript's
  `<` is then false (`Below`).
* The settings route sends BEGIN, the statements and COMMIT as one string, which
  stores nothing: the parser (external) takes a single statement.
* There is one browser tab. Going to another page drops its `setState`, but not
  what its callbacks do to localStorage and the router; opening a URL drops
  everything. What a callback stores in localStorage, its router push and the mounting
  of the page are one step. Nothing runs between the first two, which are calls of one
  callback; between the push and the mounting the browser could run another, which is
  not modelled.
* Left out: the search and type filters, the monthly payment of a loan,
  `monthly_income` and `active_cards`, wording and styling, and the expiry of
  the token. Lists are sets, in no order.
* An account's number is its id, a new user's id the number of the request that
  registers them.

A behaviour starts with a scene: the data, who is signed in, which pages and URLs
the user may open, what they may type, and how many requests and failures there
are. `MCBank` has a scene for each part of the demo that can interleave. Steps and
requests have short names: `POST/transfer` is the handler of a POST to
`/api/transfer`, `undo-deduct` the step in which it gives the amount back.
`Sound` says which databases a scene may begin with: what `mbs.db.sql` declares of
keys, and that nobody has registered without getting an account. The check of the
UNIQUE columns of `users` may find nothing once there are as many users as an index
has keys when it splits (`ProllyTreeOrder`, `ClashesFound`).

### Marketplace and the code

Each Express route is one step (its single statement and the answer); the page
sends a request for every list on loading and again after every creation, without
waiting for the lists already asked for. `shown` is what the element of a list
holds and which request filled it. A view bounds the lists that are looked at,
the creations and the failures.

## 3. What is checked

All bounds are CONSTANTS, named in the module and given in the `.cfg` or the MC
module.

| run | question | bounds and why they are enough |
|---|---|---|
| `auto` | are acknowledged writes kept, refused ones without trace, jobs answered once, also across a crash; do queue, worker and cache implement a serial database? | three handlers, two writes, a UNION and a queue of one: one job runs, one waits, one handler blocks on the channel |
| `txn` | are sessions invisible before COMMIT, then one unit, committed once, and all mutexes released? | two sessions, two statements, two concurrent calls and a crash: COMMIT, cleanup, statement and auto-committed write overlap pairwise; ROLLBACK is in `live` |
| `names` | does every pointer name a stored version of its own database; has a name one creator; does a registered name load? | an existing and a new name, two calls at once, among them a deletion, one crash, one failed cache write |
| `live` | is every call answered, does every session end, once? | three handlers, in two scenes (`InScenes`): the calls of one session, ROLLBACK among them, beside an auto-committed write; and three UNIONs, of which one is with the worker, one fills the queue of one and one waits for room, beside a BEGIN that needs `d.mu` |
| `tree` | what do splits lose; do borrow, merge and collapse keep a balanced, ordered tree; is a small tree exact? | order 4: twelve keys in any order of insertion; thirteen keys on three levels with five deletions; three keys of up to two values in one leaf |
| `table` | which rows does the index keep apart and find, are pages bounded, after any failure; is the table the relation of its rows, each statement whole or not at all? | order 4, four keys, pages of two rows, five statements, an INSERT of four rows among them: the fourth key splits the index, deletions borrow, merge, collapse and panic, pages fill, empty, are rebuilt and dropped |
| `query` | does each clause, also with subqueries and UNION, compute what relational algebra says, and are the pages a client fetches the whole answer? | two tables of up to two rows with matches, duplicates and NULLs, either of them empty, in six joins or unions and with twenty-odd conditions; groups of up to four rows; pages of one or two rows; one page that cannot be read |
| `bank` | do balances agree with the history, is a registration whole, do answers and pages show the right rows, does every page settle? | sixteen scenes: three transfers of two users, or two with up to two failures, or one whose statements and answers fail from an own page, with the dashboard opened meanwhile or afterwards; two registrations of one address, also as the eighth and ninth user; two pages that write lists, alone and beside another user who adds to the same table; a profile that takes another's address; every page with a request in flight, left and come back to; one request of every other kind, each statement failing |
| `market` | does a list filled after a creation have the row, and does every list end up saying something? | a list with a form beside the one without, and each other list alone; one or two creations, by the page or another client; one failure |

The runs expected to end in a violation record what the documentation or a
comment says and the code does not do; `PROJECT.json` quotes both under
`findings`.

| run | what happens |
|---|---|
| `bug_commit_misses` | a statement runs on a transaction that COMMIT has just stored, and is acknowledged |
| `bug_overdraft` | one transfer of more than the account holds: the balance it is compared with is undefined, and the account is drawn below zero |
| `bug_duplicate` | eight rows are inserted; the eighth splits the index and the fifth value loses its entry, so that it is accepted once more |

Other places where the models do what the code does and a reader may expect
something else, without a run of their own:

* COMMIT stores the copy taken at BEGIN over what was committed since
  (`server.go:113`), so `AckedWritesDurable` is checked without sessions;
* a reader that missed the cache puts the version it resolved over a newer one
  (`database.go:111`), so it is checked without failing cache writes;
* eight values inserted and the newest three deleted make the worker panic, and
  the process ends (`prolly_trees.go:254`);
* a deleted UNIQUE value may be refused for ever, even by an empty table: its index
  entry names the page as it was when the row came, DELETE removes the entry of the
  page as it is now, and INSERT finds what is left (`row.go:383`, `:127`);
* publications of two versions may run in the wrong order, and IPNS then names
  the older one (`publish.go:14`);
* a deleted database is still served from the cache (`database.go:313`), where
  docs/cli.md:255 says "This makes the database inaccessible via its name from the
  local node.": the model has it, and `AckedDatabaseLoadable` speaks of names that are
  registered, not of deleted ones;
* an UPDATE may give two rows one UNIQUE value (`row.go:271`), and an INSERT may
  leave a NOT NULL column out (`row.go:110`);
* after a merge, a borrow can give a key the pages of another (`prolly_trees.go:254`,
  `:408`), so that nothing is said of UNIQUE once rows were deleted under an index of
  several nodes;
* a product with an empty table is the other table (`query.go:1568`), and a query
  that then asks whether a column of the empty one IS NULL fails (`:2653`); the argument
  of an aggregate is found by its unqualified name (`query.go:838`);
* group keys are joined by `||` (`query.go:703`), which text values can imitate,
  and a UNION compares texts of columns sorted by name (`:1494`), so that with
  different names on its sides rows that differ can be made one;
* a subquery with a WHERE over the table of the outer query, without an alias, sees
  the outer row in place of each of its own (`query.go:2504`);
* the shell compares the text of a statement with BEGIN after
  `TrimRight("...;\n", "; ")` (`shell.go:67`), which strips nothing before a line
  end: it never keeps the session, and what is typed after BEGIN is committed
  statement by statement, where docs/shell.md:53 promises one COMMIT;
* two beneficiaries added or removed at once: each answer starts from the list as
  it was before both, and one of the changes is missing from the page
  (`beneficiaries/page.tsx:69`);
* a login form that was left behind opens the dashboard of the new user, but one
  that is already open keeps the rows of the old (`login/page.tsx:37`);
* a transfer that is answered with an error may have been applied and recorded;
  doing it again is a second transfer (`transfer/route.ts:88`);
* in the marketplace, the answer to an older request replaces that of a newer one
  (`script.js:68`);
* an import that is started again inserts the rows there are a second time, a full
  export that has a NULL cannot be imported, and tables skipped do not change the
  exit code (`cmd/data.go:186`, `:334`);
* the suite `js-scripts/app.js` does not pass against this server, where CREATE INDEX
  always fails (`index.go:18`), ALTER TABLE changes nothing (`table.go:146`) and INSERT
  refuses negative and boolean literals (`row.go:98`).

The passing runs of the same modules state what holds nevertheless: for instance
`UncommittedInvisible` and `CommitAllOrNothing` of sessions, `UniqueKeys` of values
that are no separator of the index, in
tables whose key column no UPDATE sets, `OneFailureCreatesNoMoney` of transfers,
and `RefreshShowsTheRow` of the marketplace, which speaks of lists that the newest
request filled.

### Fairness

The liveness runs assume: a goroutine that can take a step eventually takes it
(weak fairness, the Go scheduler); one that waits for a mutex others keep taking
eventually gets it (strong fairness of `HandlerStep`, for `sync.Mutex` hands the
lock to a waiter after a millisecond of starvation); an IPFS request returns,
with an answer or an error (the client has a timeout of its own); and the
cleanup loop, a ticker that never stops, eventually finds a stale session
(`CleanupStale`, strong because it needs `d.mu`). Nothing is assumed of clients,
of the choice between success and failure, or of crashes.

For the demos, `Serve` and the callbacks are weakly fair: the database answers
every statement (run `live`), the event loops of Next.js, Express and the browser
run what is due, and a timer fires. Nothing is assumed of the user.

## 4. What is proved

TLAPS has checked these for all values of the constants. Of the server, under
`ConstantsAssumption`, which says no more than that the sets of names are
disjoint, a channel has a capacity and the bounds are numbers:

* `TypeCorrect`, `ControlCorrect`, `OneAnswer`: `Spec => []TypeOK`,
  `[]ControlOK`, `[]OneJobPerWaiter`. The invariant is their conjunction `Inv`.
  Neither of the last two is inductive alone: that an answer reaches its handler
  needs that the handler is in `wait` (`ControlOK`), and that a job in the worker
  has a handler at all needs that the handler's job is in one place only
  (`OneJobPerWaiter`). There is one lemma per group of actions.
* `PointersResolve`: `Spec => []StoredBeforeReferenced`. `StoreJob`, `CommitStore`,
  `Register` and `CacheNew` write the version a goroutine carries, and it is in
  IPFS because the goroutine has been through `AddObject`, which its program
  counter records. The invariant splits into what pointers name and what
  goroutines carry (`PointersStored`, `TasksStored`).
* `LocksFree` and `OneCommit`: `Spec => []LocksReleased` and `[]CommitOnce`. A
  COMMIT ends a session once because the one that has taken it out of the map is
  the only call at `commitAdd` or `commitStore` for it (`CommitsAlone`); and a
  BEGIN that still loads is the only call with its id (`BeginsAlone`), without
  which opening the session could reset one that is in use.
* `NamesNeverCross`: `Spec => []OwnVersions`. `Own` adds the versions that
  goroutines carry and transactions hold to those that pointers name.
* `NamesCreatedOnce`: `Spec => []OneCreator`. What shuts out a second creator is
  the IPNS key, not the check of the registry: the invariant `CreatorsAlone` says
  that the key exists from the moment a call is past KeyGen.
* `CreatedNamesLoad`: `Spec => []AckedDatabaseLoadable`, of databases that are still
  registered. A creation is answered after both the registry and the cache were
  tried; `Cached` follows it from one write to the next.
* `Isolation`: `Spec => []UncommittedInvisible`. Statements of a session are only
  in its own transaction until its COMMIT stores them. `Clean` says it of every
  version that is named, carried or waits to be published.
* `CommitsAreUnits`: `Spec => []CommitAllOrNothing`. A version that is named or
  carried has all or none of what a committed session holds: `Whole` says so of
  pointers, goroutines and transactions, and that a transaction whose COMMIT is
  under way no longer grows.
* `ErrorsLeaveNoTrace`: `Spec => []ErrorLeavesNoTrace`. An answer does not say
  which versions exist, so the invariant is about the statements that have left no
  trace so far (`Fresh`): those not yet executed, wherever they are held. That
  none of them is in a version is inductive because a statement is held by one
  call and the worker that has its job (`HeldOnce`).

* `AcknowledgedWritesStay` and `ServerIsSerial`: `Spec => []AckedWritesDurable` and
  `Spec => ImplementsSerial`, under `OneWriter`: nobody commits, no LevelDB write
  fails, and every database is cached; for the second also `Sessions = {}`. Without
  these the first is false (see "Other places" in section 3). The invariant
  `SerialInv` says that what a worker has loaded is still the current version
  when it stores, because nobody else writes the entry (`NoColdStart`). A
  statement takes effect in `StoreJob`; every other step stutters or is the call,
  the answer or the disconnection of the serial database, and that an error means
  that the statement is not in the log comes from `Traceless`.

Of the table (`TableProofs`), under `TableAssumption`: NULL is no value, a page
holds at least one row, and statements are what the parser lets through (an
INSERT has a tuple, whose columns that are not listed are NULL):

* `TypeCorrect`: `Spec => []TypeOK`.
* `PagesSized`: `Spec => []PagesBounded`. A page that is rebuilt gets no more
  rows than it had: `SizedBuf` counts them against the position in the old page.
* `KeysUnique` and `IndexComplete`: `Spec => []UniqueKeys` and
  `Spec => []IndexCoversRows`, if no UPDATE sets the UNIQUE column (`NoKeyUpdates`);
  otherwise they are false. The index is the tree of the code, of any order: what Put
  and Delete do to the entry of a key that stays no separator, and to those of all
  others, comes from `NodeProofs`, with an index that is `Sane` (each leaf has every key
  once, with as many lists of values) for as long as `shrunk` is false.
  Neither is inductive alone: INSERT sees a duplicate only through the index, and
  DELETE uncovers no other row only because keys are apart. In the middle of a DELETE
  or UPDATE the rows are in three places, the finished pages, the page being rebuilt
  and the rows ahead; `Buffered` and `RowsAhead` say that the index covers all of them
  and no two share a key.
* `RowsAreRelation`: `Spec => ImplementsRelation`. What `LogicalTable` promises says
  nothing of keys, for the index does not keep them apart (`KeysUnique` says how far):
  the rows are a list, each statement is one change of it or none. The invariant
  `Progress` says what a statement in its middle has done: for an INSERT, that the
  working copy flattened is the old rows and the tuples taken so far; for a DELETE or
  UPDATE, that the finished pages and the page being rebuilt, flattened, are what
  `LogicalTable` makes of the rows already seen. `Commit` is then the one step of
  the relation and all others stutter. The pages are flattened by a fold, and that
  a fold over a longer sequence is the fold over the shorter one and one more
  application is a lemma of `DataInduction`.

Of the banking demo (`BankProofs`), under `ValuesAssumption` (no value
and `Undefined` differ, and neither is a number) and `ScenesAssumption` (a
scene begins with a `Sound` database, amounts are integers, failures a number) and
`CallbacksAssumption` (having no callback is none of the three kinds of callback).
Requests, users, accounts, pages visited and failures are any number:

* `RowsAreOwn`: `Spec => []OwnRowsOnly`. A handler reads accounts in one statement
  and transactions or cards of these accounts in a later one, with other handlers
  between. `OwnInv` says that the ids it keeps are the user's (`LocalsOwn`), and
  that survives other handlers because no account changes its owner and no loan
  changes at all (`Grows`).
* `RegistrationsAreComplete`: `Spec => []RegistrationsComplete`. That no two users have
  one address is said of the first eight, as `ClashesFound` misses none before. `RegInv` says of
  every user without an account which registration is at its second statement
  (`InTheMaking`), and of every answer of a success that the account it promises is
  there (`SuccessOf`); the token in the tab comes from such an answer.
* `HistoryExplainsBalances`: `Spec => []LedgerBalanced`. `MoneyBase` says that
  amounts are integers, that new accounts and transactions name the request that
  made them, and that no handler undoes anything while nothing failed; `LedgerInv`
  adds that each balance is `Explained`: opening balance, history, and the sum over
  all requests of what each has moved and not yet recorded.
* `OneFailureKeepsTotal`: `Spec => []OneFailureCreatesNoMoney`. `OneFailureInv`
  follows the `Gap`, which is the total, less the opening total, less what transfers
  in the middle of something will still put right. It is zero until the failure;
  the failure may leave it at the amount of one transfer, which is then `Lost`: on
  its way to an error, and never to be recorded. Why one amount at most: a
  compensation that fails in its turn would be a second failure.

* `PagesShowOwn`: `Spec => []ShownOwnData`. `ShowInv` says of every request that a
  callback waits for that it was sent with the token there is now and has captured
  rows of that user (`WaitsFor`); leaving a page drops the callbacks that could
  break this, and the forms that sign in under an open dashboard set `crossed`. While
  a page waits it waits for all it fetches (`Complete`), so that what it takes are
  answers to its own requests; and a success of the profile routes has the row that
  the page takes (`HasRow`).
* `ListsStayInStep`: `Spec => []ListInStep`. `ListInv` follows the one write under
  way, from the form to the row, its answer and the list. Until the handler has
  written, the list captured when the form was sent has the rows that are stored;
  from then until the callback runs, it has them but for the new row (which is in the
  answer) or the removed one; and when nothing waits they are the same. It holds beside
  `ShowInv` (the rows captured are the user's), `RegInv` and `RowsKnown` (an id made
  by a request is that of a row once that request is answered, so that a new row
  is not already in the list). A second write sent before the first is answered
  starts from the older list; it sets `overlap`, and the property says nothing
  of that page.
* `TotalsStayRight`: `Spec => []TotalsAgree`. The page remembers how many requests had
  been sent and what could still fail when it was opened (`opened`), and whether a
  transfer was under way then (`overlap`). While it is `Undisturbed`, nobody
  is transferring anything (`NoTransfer`) and everybody keeps what they had at
  that time, though accounts are opened all the time. The statistics first read the ids of the
  accounts and then sum over these: `StatsRight` says that an account opened in between
  holds nothing. The page takes the two answers apart, and `OneReader` says that
  both were requested for one user.

Three conditions of these properties come from what the proofs would not do without.
A PUT of the profile, which UPDATE does not check, can give two users one address
(scene `Rename`), as can a registration from the ninth user on (`Crowds`). The transfer that
`OneFailureCreatesNoMoney` points at may be any that was not answered with a
success, also one whose connection was lost when it had come to its end. And
`ListInStep` says nothing of a list that requests sent under the same token from
elsewhere add to: the page would have to read it again (the scene `Beside` has somebody else
add to the same table under another token).

Sums and flattened sequences are folds of the community modules, which are
recursive functions on finite sets. The prover cannot instantiate the induction
theorems of its library, whose hypothesis is an operator; `DataInduction` has
induction without one. A property of numbers or of subsets is a set (those which
have it), a counterexample a least element of its complement (`SetInduction`,
`FiniteInduction`), and a fold is shown equal to a function the proof names
(`SumOf`) on every subset of its range. A recursive function that calls itself only
on what has a smaller rank exists and is what its definition says
(`RecursionExists`), which is no more than an induction on the rank.

Of the marketplace (`MarketplaceProofs`), under `ViewsAssumption` (a view has
lists of the page, and numbers for bounds):

* `CreatedRowsShown`: `Spec => []RefreshShowsTheRow`, for any number of lists,
  creations, clients and failures. The invariant `Refreshed` says that after a
  creation was acted upon there is a request for every list such that it and all
  later ones have, or will get, the row; it needs that a list shows the answer to
  a request for that list (`ShownFetched`) and that a row belongs to the request
  that stored it (`RowsCreated`).

Of the trees (`TreeProofs`, with the lemmas of `NodeProofs`), under `ProllyAssumption` (an even order from four on; the
order of the code is eight):

* `TreeStaysSearchTree`: `Spec => []SearchTree`, for any number of keys and calls, so
  for trees of any height. A node of height h is a sequence of keys around nodes of
  height h - 1, and what the functions of the code do at height h depends on what
  they do below: that there are such functions (`WalkExists`) and that they do what
  is written (`PutDef`, `DeleteDef`) is an induction on the height. The invariant
  says that the tree is `Sound`: every node in order between the separators around
  it (`Ranked`), every node below the root `Filled`. `PutSound` says what comes back
  from a child, one node (`Whole`) or two with a key between (`Halved`), and that the
  node with that in its place is sound (`SplicedSound`). `DeleteSound` says that a
  child loses at most one key (`Dwindles`), so that a filled child is at most one short
  (`HandleUnderflowSound`): a sibling with more than MinKeys lends one
  (`BorrowLeftSound`, `BorrowRightSound`), two nodes with 2 * MinKeys - 1 keys and
  their separator fit in one (`MergeSound`), and the root, which may lose its last
  key, becomes its only child (`DeleteRooted`). This is where the order has to be
  even: MaxKeys = 2 * MinKeys + 1, so that a node too full splits in two that are filled.
* `TreeLosesOnlySeparators`: `Spec => []OnlySeparatorsLost`. A node is `Exact` when
  each leaf under it has every key once, with as many lists of values. `PutInLeafRead`
  and `DeleteInLeafRead` say what a call changes of what a leaf has; what an inner node
  has for a key that is none of its separators is what the child at the `Place` of the
  key has. A piece of a node (`LeafCut`, `InnerCut`) has what the node has between its
  ends, so the halves of a split have everything but the key between them (`SplitSame`),
  and with them in the place of the child that was split the parent has what it had
  (`SplicedRead`). `PutRead` is the induction on the height. The invariant `ReadInv`
  says besides that every separator of the tree is among those recorded. Once a merge
  has put a separator back into a leaf the lists no longer match, which is why the
  property speaks of trees that were only put into; a tree without separators is one
  leaf, and there Delete does what it should too.

Of the query engine (`QueryProofs`), under `QueryAssumption` (NULL is no number, a
query sorts by what its answer has, and a LIMIT is not 0) and `ConditionAssumption`
(the parts of a condition are conditions nested less deep). Tables, pages, columns of
a group, conditions and pages that cannot be read are any number:

* `TypeCorrect`: `Spec => []TypeOK`.
* `CombinesTables`: `Spec => []TablesCombined`. `Loaded` says that what was loaded is
  in stored order, and everything when no page was bad; `JoinedSoFar` that the
  nested loop has just the pairs that match among those it has visited; `RowsDiffer`
  that no clause repeats a row. For a UNION `Filtered` says that WHERE has removed
  nothing its condition is true of; no two texts are equal among what is kept,
  since a row is kept when it is the first of its text (`DistinctTexts`).
* `SortsStably`: `Spec => []SortedAndStable`. The order of `SliceStable` is a
  strict total order of positions (`SortRelationOrders`), whose places are a
  permutation (`PlacesAreBijective`: an order of n positions has n places, by
  induction on n). Stable means something only because the rows of one table
  come to it in stored order (`OneTableOnly`).
* `Groups`: `Spec => []GroupsRight`. `Grouping` says that after n rows each group
  holds the rows with its key among these n, in their order, and that every such
  row's group is there, or has its result, or was too small for HAVING. That a
  result says of its rows what SUM, MIN, MAX and COUNT mean is an induction along
  the loop over the values (`FoldTells`): what was accumulated is what the values
  passed so far say. Go's order of groups does not matter to either.

* `SelectsRight`: `Spec => []SelectionRight`, for conditions nested to any depth.
  `MeaningIsMeans` says that where no page is bad the evaluator is true of just the
  rows `Means` says, and that bad pages only lose rows if there is no NOT IN; it is
  an induction on `Depth`, over the values of subqueries. `SelectedSoFar` follows
  the loop: without faults nothing wanted was removed, and whatever has passed was
  accepted with some pages bad. That no row is an error (`AllSound`) is the same induction over
  `Fails`: the condition reads the first table, whose row is there. Both the answer and what it should be are in stored
  order, so that the same rows are the same sequence (`OrderDetermines`).

* `PagesAreWhole`: `Spec => []PagesPartition`, which compares executions with each
  other: each page is cut from an answer of its own. There is one answer (`IsFinal`),
  because what it has and the order it has it in follow from the input. `RowOrder` is
  an order of combined rows that every clause keeps (`RowsAscend`); `RowsKnown` says
  which rows they are when every page could be read (`Source`, `Chosen`, `United`);
  a result is determined by its key (`ResultOnce`), since its rows are, and its values
  are when its argument can be looked up in one way (`MadeOnce`). Sequences that
  ascend strictly and have the same elements are equal (`AscendDetermines`), so that
  what LIMIT cuts from is always the same (`FinalOnce`). The pages so far are its
  beginning (`PagesSoFar`), and one that is not full reaches its end (`PageFollows`).
  The proof would not go through for an aggregate of a column both tables have: TLC
  found the pages that do not fit together once the instance had such a query, and
  the property now says so.

Kept rows (`Keep`), sums and orders are by induction on sets of numbers, with the lemmas of `DataInduction`.
`CombinesTables` holds whatever a condition means.

Model-checked only:

* liveness (`EveryCallAnswered`, `SessionsEnd`, `EverythingSettles`, `PageSettles`):
  fairness and ENABLED are beyond the prover;
* what a run expected to end in a violation refutes.

## 5. Not modelled, and the plan

Not modelled because there is nothing to check: flag parsing and output of the
commands, logging, generated code, the JSON-RPC encoding, the component library
of the banking demo (`components/ui`, markup and style). The scripts under `js-scripts`
and the commands `data import` and `migrate` are one client that awaits each statement,
so that a model of them says no more than the list of their statements; what the suite
asserts is not what this server does (section 3). Not modelled because it is external:
the SQL parser, LevelDB's own recovery, the network between IPFS nodes; their effect is
an error, or a value. Cryptography is who holds which key.

Not modelled yet, in the order of their worth:

1. `Catalog` (`table.go`): CREATE, DROP and RENAME on the map of tables (ALTER
   changes nothing). Each is one lookup and one change; to be composed with
   `TableStore`.
2. `QueryPipeline`: scalar subqueries, derived tables, CASE, arithmetic and LIKE.
3. `ShellClient` (`cmd/shell.go`): which session the shell is in, beside
   `WwfsServer`.

New instances join the runs above where they ask the same question, so that the
number of runs stays small.
