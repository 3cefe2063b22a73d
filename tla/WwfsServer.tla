----------------------------- MODULE WwfsServer -----------------------------
(***************************************************************************)
(* The RPC server of wwfsdb: the goroutines that serve calls, the queue    *)
(* and worker of each database, the session transactions of the            *)
(* Dispatcher, the LevelDB cache and registry, and the background          *)
(* publication of versions to IPNS.                                        *)
(*                                                                         *)
(* A step is one access to state that goroutines share: one LevelDB read   *)
(* or write, one IPFS request whose effect others can see, one critical    *)
(* section of d.mu or of a transaction's mutex.  What a goroutine does     *)
(* between two such accesses belongs to one of them.                       *)
(*                                                                         *)
(* A database version is immutable and content addressed, so its CID is    *)
(* the version itself: the owner whose key it carries and the sequence of  *)
(* statements its content is the result of.                                *)
(***************************************************************************)
EXTENDS Naturals, Sequences, FiniteSets

CONSTANTS
    Handlers,        \* goroutines in which net/http serves calls at one time
    DBs,             \* database names
    Existing,        \* databases an earlier run of the server created
    Sessions,        \* session ids newSessionID draws (never one twice)
    Writes,          \* write statements clients send, each of them once
    Unions,          \* UNION statements sent outside a session
    QueueCap,        \* capacity of a job queue (100 in Dispatch)
    MaxCrashes,      \* bound: how often the server process dies and restarts
    MaxCacheFaults,  \* bound: LevelDB writes that fail inside UpdateCache
    Calls,           \* bound: the kinds of call clients make
    None

Ops == {"none", "select", "write", "job", "begin", "exec", "commit",
        "rollback", "create", "delete"}
Versions == [owner : DBs, log : Seq(Writes)]

ASSUME ConstantsAssumption ==
    /\ Existing \subseteq DBs
    /\ QueueCap \in Nat \ {0}
    /\ MaxCrashes \in Nat
    /\ MaxCacheFaults \in Nat
    /\ None \notin Handlers \cup DBs \cup Sessions \cup Writes \cup Unions
    /\ Handlers \cap DBs = {}
    /\ DBs \cap Sessions = {}
    /\ Writes \cap (DBs \cup Sessions \cup Unions) = {}
    /\ Calls \subseteq Ops
    /\ None \notin Versions

VARIABLES
    cache,       \* LevelDB dbName -> CID of the current version
    registry,    \* names with a LevelDB entry "registry:" + dbName
    keys,        \* IPNS key names the IPFS node holds (KeyGen)
    ipns,        \* name -> CID its IPNS record resolves to
    objects,     \* database versions added to IPFS
    publishes,   \* goroutines about to publish a version to IPNS
    queues,      \* d.queues: name -> handlers whose job waits in its channel
    task,        \* goroutine (a handler, or the worker of a name) -> its task
    dmu,         \* goroutine that holds the Dispatcher's mutex, or None
    status,      \* what became of each session; "active" = in d.transactions
    txn,         \* session -> its Transaction object
    outcome,     \* statement -> what its client knows of it
    target,      \* statement -> the database or session it was sent to
    keyHolders,  \* databases whose private key a client has received
    saved,       \* session -> the version its COMMIT stored (history)
    crashes,     \* crashes so far, at most MaxCrashes
    faults       \* failed cache writes so far, at most MaxCacheFaults

leveldbVars == <<cache, registry, faults>>
ipfsVars    == <<keys, ipns, objects, publishes>>
txnVars     == <<status, txn, saved>>
clientVars  == <<outcome, target, keyHolders>>
vars == <<leveldbVars, ipfsVars, queues, task, dmu, txnVars, clientVars, crashes>>

-----------------------------------------------------------------------------
(* Values *)

Statements == Writes \cup Unions
Goroutines == Handlers \cup DBs      \* the worker of a name is called by it
CIDs       == Versions \cup {None}

Applied(v) == {v.log[i] : i \in 1..Len(v.log)}
\* What a statement that succeeds makes of the version it runs on.  Faulty
\* variant: the clone it starts from forgets OwnerPublicKey.
ExecuteDropsOwner(v, w) == [log |-> Append(v.log, w)]
Execute(v, w) == [v EXCEPT !.log = Append(@, w)]
EmptyVersion(d) == [owner |-> d, log |-> <<>>]

\* A fork of v has the tables of v and the owner key made for its own name.
ForkKeepsOwner(d, v) == v    \* Faulty variant: the owner of the source stays.
ForkVersion(d, v) == [owner |-> d, log |-> v.log]

\* A write passes VerifySignature when its client holds the key of the owner.
Authorized(v) == v.owner \in keyHolders

NoTask == [op |-> "none", pc |-> "idle", db |-> None, ses |-> None,
           stmt |-> None, from |-> None, ver |-> None, res |-> "none"]
NoTxn  == [db |-> None, ver |-> None, mu |-> None]

PCs  == {"idle", "load", "entry", "resolve", "fill", "loaded", "dispatch", "enqueue",
         "wait", "store", "answer", "lock", "lookup", "run", "take",
         "commitAdd", "commitStore", "discard", "keygen", "register",
         "cacheNew", "unregister", "reply"}
Tasks == [op : Ops, pc : PCs, db : DBs \cup {None}, ses : Sessions \cup {None},
          stmt : Statements \cup {None}, from : Handlers \cup {None},
          ver : CIDs, res : {"none", "ok", "error"}]
Txns  == [db : DBs \cup {None}, ver : CIDs, mu : Handlers \cup {None}]
Statuses == {"unused", "active", "committing", "committed", "rolledback",
             "expired", "failed", "lost"}
\* A publication has found the entry of its name, or has yet to look it up.
Publications == [db : DBs, ver : Versions, by : Writes \cup Sessions \cup DBs,
                 found : BOOLEAN]

TypeOK ==
    /\ cache \in [DBs -> CIDs]
    /\ registry \subseteq DBs
    /\ keys \subseteq DBs
    /\ ipns \in [DBs -> CIDs]
    /\ objects \subseteq Versions
    /\ publishes \subseteq Publications
    /\ queues \in [DBs -> Seq(Handlers)]
    /\ task \in [Goroutines -> Tasks]
    /\ dmu \in Handlers \cup {None}
    /\ status \in [Sessions -> Statuses]
    /\ txn \in [Sessions -> Txns]
    /\ saved \in [Sessions -> CIDs]
    /\ outcome \in [Statements -> {"unsent", "pending", "ok", "error", "unknown"}]
    /\ target \in [Statements -> DBs \cup Sessions \cup {None}]
    /\ keyHolders \subseteq DBs
    /\ crashes \in 0..MaxCrashes
    /\ faults \in 0..MaxCacheFaults

\* The server starts on the LevelDB directory and the IPFS node an earlier
\* run left: the databases it created are registered, cached and published.
Init ==
    /\ cache = [d \in DBs |-> IF d \in Existing THEN EmptyVersion(d) ELSE None]
    /\ registry = Existing
    /\ keys = Existing
    /\ ipns = cache
    /\ objects = {EmptyVersion(d) : d \in Existing}
    /\ publishes = {}
    /\ queues = [d \in DBs |-> <<>>]
    /\ task = [t \in Goroutines |-> NoTask]
    /\ dmu = None
    /\ status = [s \in Sessions |-> "unused"]
    /\ txn = [s \in Sessions |-> NoTxn]
    /\ saved = [s \in Sessions |-> None]
    /\ outcome = [w \in Statements |-> "unsent"]
    /\ target = [w \in Statements |-> None]
    /\ keyHolders = Existing
    /\ crashes = 0
    /\ faults = 0

-----------------------------------------------------------------------------
(* Control of a goroutine *)

At(t, op, pc) == task[t].op = op /\ task[t].pc = pc

Goto(t, pc) == task' = [task EXCEPT ![t].pc = pc]

GotoWith(t, pc, v) == task' = [task EXCEPT ![t] = [@ EXCEPT !.pc = pc, !.ver = v]]

\* The goroutine's call returns; a BEGIN's deferred unlock releases d.mu.
\* Faulty variant: the unlock is missing on the way out of an error.
ReturnKeepsLock(t, r) ==
    /\ task' = [task EXCEPT ![t] =
                   [@ EXCEPT !.pc = IF t \in Handlers THEN "reply" ELSE "answer",
                             !.res = r]]
    /\ dmu' = IF dmu = t /\ r = "ok" THEN None ELSE dmu
Return(t, r) ==
    /\ task' = [task EXCEPT ![t] =
                   [@ EXCEPT !.pc = IF t \in Handlers THEN "reply" ELSE "answer",
                             !.res = r]]
    /\ dmu' = IF dmu = t THEN None ELSE dmu

\* core.AddObject: content addressed, so adding a version twice adds it once.
AddObjectSkipped(v) == UNCHANGED objects    \* Faulty variant.
AddObject(v) == objects' = objects \cup {v}

\* leveldb.UpdateCache: a write that fails is reported as a warning only.
\* Faulty variants: the entry of a name is written once, or never made.
UpdateCacheIfAbsent(d, v) ==
    /\ cache' = [cache EXCEPT ![d] = IF @ = None THEN v ELSE @]
    /\ UNCHANGED faults
UpdateCacheIfPresent(d, v) ==
    /\ cache' = [cache EXCEPT ![d] = IF @ = None THEN @ ELSE v]
    /\ UNCHANGED faults
UpdateCache(d, v) ==
    \/ /\ cache' = [cache EXCEPT ![d] = v]
       /\ UNCHANGED faults
    \/ /\ faults < MaxCacheFaults
       /\ faults' = faults + 1
       /\ UNCHANGED cache

\* go func() { Publish }: the goroutine joins those that will publish.  The one
\* of CREATE DATABASE has the name of its key and needs no registry entry.
Spawn(d, v, by) ==
    publishes' = publishes \cup
        {[db |-> d, ver |-> v, by |-> by, found |-> by \in DBs]}

-----------------------------------------------------------------------------
(* Calls arrive: net/http starts a handler and WWFS.ExecuteQuery routes it *)

Arrive(h, call) ==
    /\ task[h].pc = "idle"
    /\ call.op \in Calls
    /\ task' = [task EXCEPT ![h] = call]
    /\ UNCHANGED <<leveldbVars, ipfsVars, queues, dmu, txnVars, keyHolders, crashes>>

Send(w, to) ==
    /\ outcome[w] = "unsent"
    /\ outcome' = [outcome EXCEPT ![w] = "pending"]
    /\ target' = [target EXCEPT ![w] = to]

NothingSent == UNCHANGED <<outcome, target>>

\* A SELECT outside a session; also wwfs.GetTableSchema, wwfs.Export and
\* wwfs.GetContentCID, which load the database and answer from it.
CallSelect(h, d) ==
    /\ Arrive(h, [NoTask EXCEPT !.op = "select", !.pc = "load", !.db = d])
    /\ NothingSent

\* Any other statement outside a session goes through the job queue.
CallWrite(h, d, w) ==
    /\ Arrive(h, [NoTask EXCEPT !.op = "write", !.pc = "dispatch", !.db = d, !.stmt = w])
    /\ Send(w, d)

CallBegin(h, d, s) ==
    /\ status[s] = "unused"
    /\ \A g \in Handlers : task[g].ses # s
    /\ Arrive(h, [NoTask EXCEPT !.op = "begin", !.pc = "lock", !.db = d, !.ses = s])
    /\ NothingSent

\* A client knows a session id once the reply to its BEGIN has arrived.
Known(s) ==
    /\ status[s] # "unused"
    /\ \A g \in Handlers : task[g].op = "begin" => task[g].ses # s

CallExec(h, s, w) ==
    /\ Known(s)
    /\ w \in Writes
    /\ Arrive(h, [NoTask EXCEPT !.op = "exec", !.pc = "lookup", !.ses = s, !.stmt = w])
    /\ Send(w, s)

CallCommit(h, s) ==
    /\ Known(s)
    /\ Arrive(h, [NoTask EXCEPT !.op = "commit", !.pc = "take", !.ses = s])
    /\ NothingSent

CallRollback(h, s) ==
    /\ Known(s)
    /\ Arrive(h, [NoTask EXCEPT !.op = "rollback", !.pc = "discard", !.ses = s])
    /\ NothingSent

\* CREATE DATABASE d, or wwfs.ForkDatabase of a version src a client can see:
\* both make a version with a new owner key, then take the same steps.
CallCreate(h, d) ==
    /\ \E v \in {EmptyVersion(d)} \cup ({cache[e] : e \in DBs} \ {None}) :
          Arrive(h, [NoTask EXCEPT !.op = "create", !.pc = "keygen", !.db = d,
                                   !.ver = ForkVersion(d, v)])
    /\ NothingSent

CallDelete(h, d) ==
    /\ Arrive(h, [NoTask EXCEPT !.op = "delete", !.pc = "unregister", !.db = d])
    /\ NothingSent

\* The handler's reply reaches the client, with the private key of a new
\* database in it.
Reply(h) ==
    /\ task[h].pc = "reply"
    /\ task' = [task EXCEPT ![h] = NoTask]
    /\ outcome' = IF task[h].stmt = None THEN outcome
                  ELSE [outcome EXCEPT ![task[h].stmt] = task[h].res]
    /\ keyHolders' = IF task[h].op = "create" /\ task[h].res = "ok"
                     THEN keyHolders \cup {task[h].db} ELSE keyHolders
    /\ UNCHANGED <<leveldbVars, ipfsVars, queues, dmu, txnVars, target, crashes>>

-----------------------------------------------------------------------------
(* core.LoadDatabase, run by handlers and by workers *)

ReadCache(t) ==
    /\ task[t].pc = "load"
    /\ IF cache[task[t].db] # None
       THEN GotoWith(t, "loaded", cache[task[t].db])
       ELSE Goto(t, "entry")
    /\ UNCHANGED <<leveldbVars, ipfsVars, queues, dmu, txnVars, clientVars, crashes>>

\* Without a registry entry the load fails.
ReadEntry(t) ==
    /\ task[t].pc = "entry"
    /\ IF task[t].db \in registry
       THEN Goto(t, "resolve") /\ UNCHANGED dmu
       ELSE Return(t, "error")
    /\ UNCHANGED <<leveldbVars, ipfsVars, queues, txnVars, clientVars, crashes>>

\* The IPNS record of the entry's key; without one the load fails.
Resolve(t) ==
    /\ task[t].pc = "resolve"
    /\ IF ipns[task[t].db] # None
       THEN GotoWith(t, "fill", ipns[task[t].db]) /\ UNCHANGED dmu
       ELSE Return(t, "error")
    /\ UNCHANGED <<leveldbVars, ipfsVars, queues, txnVars, clientVars, crashes>>

FillCache(t) ==
    /\ task[t].pc = "fill"
    /\ UpdateCache(task[t].db, task[t].ver)
    /\ Goto(t, "loaded")
    /\ UNCHANGED <<registry, ipfsVars, queues, dmu, txnVars, clientVars, crashes>>

\* Where a call can fail.  Faulty variant: also after AddObject has succeeded.
LateFailurePoints == {"entry", "resolve", "loaded", "store", "keygen", "register"}
FailurePoints == {"entry", "resolve", "loaded", "keygen", "register"}

\* An IPFS request fails, the statement fails or its signature is refused, or
\* a registry access fails: the call returns the error and saves nothing.
ReturnError(t) ==
    /\ task[t].pc \in FailurePoints
    /\ Return(t, "error")
    /\ UNCHANGED <<leveldbVars, ipfsVars, queues, txnVars, clientVars, crashes>>

-----------------------------------------------------------------------------
(* core.ExecuteQuery once the database is loaded *)

\* SELECT in a handler, UNION in a worker: answered from the loaded version.
AnswerRead(t) ==
    /\ task[t].pc = "loaded"
    /\ task[t].op = "select" \/ (task[t].op = "job" /\ task[t].stmt \in Unions)
    /\ Return(t, "ok")
    /\ UNCHANGED <<leveldbVars, ipfsVars, queues, txnVars, clientVars, crashes>>

\* VerifySignature, ExecuteOnDB and AddObject of the new version.
ExecuteJob(d) ==
    /\ At(d, "job", "loaded")
    /\ task[d].stmt \in Writes
    /\ Authorized(task[d].ver)
    /\ LET new == Execute(task[d].ver, task[d].stmt)
       IN  /\ AddObject(new)
           /\ GotoWith(d, "store", new)
    /\ UNCHANGED <<leveldbVars, keys, ipns, publishes, queues, dmu, txnVars,
                   clientVars, crashes>>

StoreJob(d) ==
    /\ At(d, "job", "store")
    /\ UpdateCache(d, task[d].ver)
    /\ Spawn(d, task[d].ver, task[d].stmt)
    /\ Return(d, "ok")
    /\ UNCHANGED <<registry, keys, ipns, objects, queues, txnVars, clientVars, crashes>>

-----------------------------------------------------------------------------
(* Dispatcher.Dispatch and Dispatcher.worker *)

\* Looks the queue up (and starts its worker) under d.mu.
FindQueue(h) ==
    /\ At(h, "write", "dispatch")
    /\ dmu = None
    /\ Goto(h, "enqueue")
    /\ UNCHANGED <<leveldbVars, ipfsVars, queues, dmu, txnVars, clientVars, crashes>>

\* queue <- job blocks while the channel is full, d.mu being free again.
Enqueue(h) ==
    /\ At(h, "write", "enqueue")
    /\ Len(queues[task[h].db]) < QueueCap
    /\ queues' = [queues EXCEPT ![task[h].db] = Append(@, h)]
    /\ Goto(h, "wait")
    /\ UNCHANGED <<leveldbVars, ipfsVars, dmu, txnVars, clientVars, crashes>>

\* job := range queue
Peek(d) == UNCHANGED queues    \* Faulty variant: the job stays in the channel.
Receive(d) == queues' = [queues EXCEPT ![d] = Tail(@)]

TakeJob(d) ==
    /\ task[d].pc = "idle"
    /\ queues[d] # <<>>
    /\ LET h == Head(queues[d])
       IN  task' = [task EXCEPT ![d] = [NoTask EXCEPT !.op = "job", !.pc = "load",
                        !.db = d, !.stmt = task[h].stmt, !.from = h]]
    /\ Receive(d)
    /\ UNCHANGED <<leveldbVars, ipfsVars, dmu, txnVars, clientVars, crashes>>

\* job.ErrChan is unbuffered: the worker hands the result to the handler.
AnswerJob(d) ==
    /\ At(d, "job", "answer")
    /\ task[task[d].from].pc = "wait"
    /\ task' = [task EXCEPT ![task[d].from] = [@ EXCEPT !.pc = "reply", !.res = task[d].res],
                            ![d] = NoTask]
    /\ UNCHANGED <<leveldbVars, ipfsVars, queues, dmu, txnVars, clientVars, crashes>>

-----------------------------------------------------------------------------
(* Transactions of the Dispatcher *)

\* delete(d.transactions, s): st is what the session is from now on.
LeaveInMap(s, st) == UNCHANGED status    \* Faulty variant.
RemoveFromMap(s, st) == status' = [status EXCEPT ![s] = st]

StayLocked(s) == UNCHANGED txn    \* Faulty variant.
Unlock(s) == txn' = [txn EXCEPT ![s].mu = None]

\* txn.dbState = newDbState, in memory only.  Faulty variant: a statement of
\* a session is saved like any other.
SetStateAndCache(s, v) ==
    /\ txn' = [txn EXCEPT ![s].ver = v]
    /\ cache' = [cache EXCEPT ![txn[s].db] = v]
SetState(s, v) ==
    /\ txn' = [txn EXCEPT ![s].ver = v]
    /\ UNCHANGED cache

\* BeginTransaction keeps d.mu while it loads the database.
LockForBegin(h) ==
    /\ At(h, "begin", "lock")
    /\ dmu = None
    /\ dmu' = h
    /\ Goto(h, "load")
    /\ UNCHANGED <<leveldbVars, ipfsVars, queues, txnVars, clientVars, crashes>>

OpenTransaction(h) ==
    /\ At(h, "begin", "loaded")
    /\ status' = [status EXCEPT ![task[h].ses] = "active"]
    /\ txn' = [txn EXCEPT ![task[h].ses] =
                  [db |-> task[h].db, ver |-> task[h].ver, mu |-> None]]
    /\ Return(h, "ok")
    /\ UNCHANGED <<leveldbVars, ipfsVars, queues, saved, clientVars, crashes>>

\* Looks the transaction up under d.mu, and releases d.mu.
LookUpTransaction(h) ==
    /\ At(h, "exec", "lookup")
    /\ dmu = None
    /\ IF status[task[h].ses] = "active"
       THEN Goto(h, "run") /\ UNCHANGED dmu
       ELSE Return(h, "error")
    /\ UNCHANGED <<leveldbVars, ipfsVars, queues, txnVars, clientVars, crashes>>

\* The statement runs under txn.mu on the object found, wherever it is now.
RunInTransaction(h) ==
    /\ At(h, "exec", "run")
    /\ LET s == task[h].ses
       IN  /\ txn[s].mu = None
           /\ \/ /\ Authorized(txn[s].ver)
                 /\ SetState(s, Execute(txn[s].ver, task[h].stmt))
                 /\ Return(h, "ok")
              \/ /\ Return(h, "error")
                 /\ UNCHANGED <<cache, txn>>
    /\ UNCHANGED <<registry, faults, ipfsVars, queues, status, saved, clientVars, crashes>>

\* CommitTransaction removes the session from the map under d.mu.
TakeForCommit(h) ==
    /\ At(h, "commit", "take")
    /\ dmu = None
    /\ IF status[task[h].ses] = "active"
       THEN /\ RemoveFromMap(task[h].ses, "committing")
            /\ Goto(h, "commitAdd")
            /\ UNCHANGED dmu
       ELSE Return(h, "error") /\ UNCHANGED status
    /\ UNCHANGED <<leveldbVars, ipfsVars, queues, txn, saved, clientVars, crashes>>

\* Takes txn.mu and adds the final state to IPFS; if that fails the
\* transaction is gone, for it is no longer in the map.
CommitAdd(h) ==
    /\ At(h, "commit", "commitAdd")
    /\ LET s == task[h].ses
       IN  /\ txn[s].mu = None
           /\ \/ /\ AddObject(txn[s].ver)
                 /\ saved' = [saved EXCEPT ![s] = txn[s].ver]
                 /\ txn' = [txn EXCEPT ![s].mu = h]
                 /\ GotoWith(h, "commitStore", txn[s].ver)
                 /\ UNCHANGED <<status, dmu>>
              \/ /\ status' = [status EXCEPT ![s] = "failed"]
                 /\ Return(h, "error")
                 /\ UNCHANGED <<objects, saved, txn>>
    /\ UNCHANGED <<leveldbVars, keys, ipns, publishes, queues, clientVars, crashes>>

CommitStore(h) ==
    /\ At(h, "commit", "commitStore")
    /\ LET s == task[h].ses
       IN  /\ UpdateCache(txn[s].db, task[h].ver)
           /\ Spawn(txn[s].db, task[h].ver, s)
           /\ Unlock(s)
           /\ status' = [status EXCEPT ![s] = "committed"]
    /\ Return(h, "ok")
    /\ UNCHANGED <<registry, keys, ipns, objects, queues, saved, clientVars, crashes>>

RollbackTransaction(h) ==
    /\ At(h, "rollback", "discard")
    /\ dmu = None
    /\ IF status[task[h].ses] = "active"
       THEN /\ RemoveFromMap(task[h].ses, "rolledback")
            /\ Return(h, "ok")
       ELSE Return(h, "error") /\ UNCHANGED status
    /\ UNCHANGED <<leveldbVars, ipfsVars, queues, txn, saved, clientVars, crashes>>

\* A session not accessed for 15 minutes is dropped; time is not modelled, so
\* any active session may have been idle for that long.
CleanupStale(s) ==
    /\ dmu = None
    /\ status[s] = "active"
    /\ RemoveFromMap(s, "expired")
    /\ UNCHANGED <<leveldbVars, ipfsVars, queues, task, dmu, txn, saved,
                   clientVars, crashes>>

-----------------------------------------------------------------------------
(* Creation, deletion and publication *)

NeverTaken(d) == FALSE    \* Faulty variant: KeyGen accepts any name.
NameTaken(d) == d \in keys

\* AddObject, KeyGen (refused for a name the node has a key for), and the
\* goroutine that publishes the first version under the key just made.
GenerateKey(h) ==
    /\ At(h, "create", "keygen")
    /\ AddObject(task[h].ver)
    /\ IF NameTaken(task[h].db)
       THEN Return(h, "error") /\ UNCHANGED <<keys, publishes>>
       ELSE /\ keys' = keys \cup {task[h].db}
            /\ Spawn(task[h].db, task[h].ver, task[h].db)
            /\ Goto(h, "register")
            /\ UNCHANGED dmu
    /\ UNCHANGED <<leveldbVars, ipns, queues, txnVars, clientVars, crashes>>

Register(h) ==
    /\ At(h, "create", "register")
    /\ registry' = registry \cup {task[h].db}
    /\ Goto(h, "cacheNew")
    /\ UNCHANGED <<cache, faults, ipfsVars, queues, dmu, txnVars, clientVars, crashes>>

CacheNew(h) ==
    /\ At(h, "create", "cacheNew")
    /\ UpdateCache(task[h].db, task[h].ver)
    /\ Return(h, "ok")
    /\ UNCHANGED <<registry, ipfsVars, queues, txnVars, clientVars, crashes>>

\* Removes the registry entry, and nothing else of the name.
DeleteDatabase(h) ==
    /\ At(h, "delete", "unregister")
    /\ \/ registry' = registry \ {task[h].db} /\ Return(h, "ok")
       \/ UNCHANGED registry /\ Return(h, "error")
    /\ UNCHANGED <<cache, faults, ipfsVars, queues, txnVars, clientVars, crashes>>

\* core.Publish reads the registry entry for the name of the key, ...
FindEntry(p) ==
    /\ ~p.found
    /\ p.db \in registry
    /\ publishes' = (publishes \ {p}) \cup {[p EXCEPT !.found = TRUE]}
    /\ UNCHANGED <<leveldbVars, keys, ipns, objects, queues, task, dmu, txnVars,
                   clientVars, crashes>>

\* ... and then publishes, even when the entry has been removed meanwhile.
Publish(p) ==
    /\ p.found
    /\ ipns' = [ipns EXCEPT ![p.db] = p.ver]
    /\ publishes' = publishes \ {p}
    /\ UNCHANGED <<leveldbVars, keys, objects, queues, task, dmu, txnVars,
                   clientVars, crashes>>

\* An error is printed and the version is never published.
PublishFails(p) ==
    /\ publishes' = publishes \ {p}
    /\ UNCHANGED <<leveldbVars, keys, ipns, objects, queues, task, dmu, txnVars,
                   clientVars, crashes>>

\* The process dies (a panic in a worker is enough) and is started again on
\* the same LevelDB directory: every goroutine and all of its memory is gone.
Crash ==
    /\ crashes < MaxCrashes
    /\ crashes' = crashes + 1
    /\ task' = [t \in Goroutines |-> NoTask]
    /\ queues' = [d \in DBs |-> <<>>]
    /\ publishes' = {}
    /\ dmu' = None
    /\ status' = [s \in Sessions |->
                     IF status[s] \in {"active", "committing"} THEN "lost" ELSE status[s]]
    /\ txn' = [s \in Sessions |-> [txn[s] EXCEPT !.mu = None]]
    /\ outcome' = [w \in Statements |->
                      IF outcome[w] = "pending" THEN "unknown" ELSE outcome[w]]
    /\ UNCHANGED <<leveldbVars, keys, ipns, objects, saved, target, keyHolders>>

-----------------------------------------------------------------------------

Arrival(h) ==
    \/ \E d \in DBs : \/ CallSelect(h, d)
                      \/ \E w \in Statements : CallWrite(h, d, w)
                      \/ \E s \in Sessions : CallBegin(h, d, s)
                      \/ CallCreate(h, d)
                      \/ CallDelete(h, d)
    \/ \E s \in Sessions : \/ \E w \in Writes : CallExec(h, s, w)
                           \/ CallCommit(h, s)
                           \/ CallRollback(h, s)

Load(t) == \/ ReadCache(t) \/ ReadEntry(t) \/ Resolve(t) \/ FillCache(t)
           \/ AnswerRead(t) \/ ReturnError(t)

HandlerStep(h) ==
    \/ FindQueue(h) \/ Enqueue(h)
    \/ LockForBegin(h) \/ OpenTransaction(h)
    \/ LookUpTransaction(h) \/ RunInTransaction(h)
    \/ TakeForCommit(h) \/ CommitAdd(h) \/ CommitStore(h)
    \/ RollbackTransaction(h)
    \/ GenerateKey(h) \/ Register(h) \/ CacheNew(h) \/ DeleteDatabase(h)
    \/ Reply(h)

WorkerStep(d) == TakeJob(d) \/ ExecuteJob(d) \/ StoreJob(d) \/ AnswerJob(d)

Next ==
    \/ \E h \in Handlers : Arrival(h) \/ HandlerStep(h)
    \/ \E d \in DBs : WorkerStep(d)
    \/ \E t \in Goroutines : Load(t)
    \/ \E s \in Sessions : CleanupStale(s)
    \/ \E p \in publishes : FindEntry(p) \/ Publish(p) \/ PublishFails(p)
    \/ Crash

Spec == Init /\ [][Next]_vars

\* A goroutine that can take a step takes it; sync.Mutex lets no goroutine
\* that waits for it starve, and the cleanup loop never ends.  Clients need
\* not call and the server need not crash.
Fairness ==
    /\ \A h \in Handlers : SF_vars(HandlerStep(h) \/ Load(h))
    /\ \A d \in DBs : WF_vars(WorkerStep(d) \/ Load(d))
    /\ \A s \in Sessions : SF_vars(CleanupStale(s))

FairSpec == Spec /\ Fairness

-----------------------------------------------------------------------------
(* Safety *)

\* The program counters of a call of each kind.
Steps(op, pc) ==
    \/ op = "none"     /\ pc = "idle"
    \/ op = "select"   /\ pc \in {"load", "entry", "resolve", "fill", "loaded", "reply"}
    \/ op = "write"    /\ pc \in {"dispatch", "enqueue", "wait", "reply"}
    \/ op = "job"      /\ pc \in {"load", "entry", "resolve", "fill", "loaded", "store", "answer"}
    \/ op = "begin"    /\ pc \in {"lock", "load", "entry", "resolve", "fill", "loaded", "reply"}
    \/ op = "exec"     /\ pc \in {"lookup", "run", "reply"}
    \/ op = "commit"   /\ pc \in {"take", "commitAdd", "commitStore", "reply"}
    \/ op = "rollback" /\ pc \in {"discard", "reply"}
    \/ op = "create"   /\ pc \in {"keygen", "register", "cacheNew", "reply"}
    \/ op = "delete"   /\ pc \in {"unregister", "reply"}

\* What a goroutine has at hand for the step it is at.
HasArguments(k) ==
    /\ k.op \in {"select", "write", "job", "begin", "create", "delete"} => k.db \in DBs
    /\ k.op \in {"begin", "exec", "commit", "rollback"} => k.ses \in Sessions
    /\ k.op \in {"write", "job"} => k.stmt \in Statements
    /\ k.op = "exec" \/ k.pc = "store" => k.stmt \in Writes
    /\ k.op = "job" => k.from \in Handlers
    /\ k.pc \in {"fill", "loaded", "store", "commitStore", "keygen", "register", "cacheNew"}
          => k.ver \in Versions
    /\ k.pc \in {"answer", "reply"} => k.res \in {"ok", "error"}

\* No goroutine ever runs into a step without what the step needs: a call that
\* waits in a queue is still waiting there, and a statement that found its
\* transaction finds a database in it, however the calls interleave.
ControlOK ==
    /\ \A t \in Goroutines : Steps(task[t].op, task[t].pc) /\ HasArguments(task[t])
    /\ \A t \in Goroutines : task[t].op = "job" => t \in DBs /\ task[t].db = t
    /\ \A d \in DBs : task[d].op \in {"none", "job"}
    /\ \A d \in DBs : \A i \in 1..Len(queues[d]) :
          At(queues[d][i], "write", "wait") /\ task[queues[d][i]].db = d
    /\ \A s \in Sessions : status[s] # "unused" =>
          txn[s].db \in DBs /\ txn[s].ver \in Versions
    /\ \A h \in Handlers : task[h].op \in {"exec", "commit", "rollback"} =>
          status[task[h].ses] # "unused"

\* A handler blocked on ErrChan has its job in exactly one place, the channel
\* or the worker, so that it gets one answer and not two, and a job belongs to
\* a handler that still waits for it.
OneJobPerWaiter ==
    /\ \A h \in Handlers : task[h].pc = "wait" =>
          \/ \E i \in 1..Len(queues[task[h].db]) : queues[task[h].db][i] = h
          \/ task[task[h].db].op = "job" /\ task[task[h].db].from = h
    /\ \A d \in DBs : \A i, j \in 1..Len(queues[d]) :
          queues[d][i] = queues[d][j] => i = j
    /\ \A d \in DBs : task[d].op = "job" =>
          /\ At(task[d].from, "write", "wait") /\ task[task[d].from].db = d
          /\ \A i \in 1..Len(queues[d]) : queues[d][i] # task[d].from

Inv == TypeOK /\ ControlOK /\ OneJobPerWaiter

\* A pointer is written after what it points to: whatever the LevelDB cache,
\* an IPNS record or a pending publication names has been added to IPFS, also
\* when the process dies between two steps (AddObject before UpdateCache and
\* PublishAsync in ExecuteQuery, CommitTransaction, CreateDatabase).
StoredBeforeReferenced ==
    /\ \A d \in DBs : cache[d] \in objects \cup {None} /\ ipns[d] \in objects \cup {None}
    /\ \A p \in publishes : p.ver \in objects
    /\ \A t \in Goroutines :
          task[t].pc \in {"fill", "store", "commitStore", "register", "cacheNew"}
             => task[t].ver \in objects

\* The versions a client of name d can reach, or is about to be able to.
Visible(d) ==
    ({cache[d], ipns[d]} \ {None}) \cup {p.ver : p \in {q \in publishes : q.db = d}}

\* Names never cross: what name d resolves to is a version that carries the
\* key of the database d was created or forked as, whichever goroutine of
\* whichever call wrote the pointer last.
OwnVersions ==
    \A d \in DBs : \A v \in Visible(d) : v.owner = d

\* Statements of a session are seen by nobody before its COMMIT, and never if
\* it is rolled back, dropped by cleanupStaleTransactions, lost in a crash, or
\* its COMMIT fails.
UncommittedInvisible ==
    \A d \in DBs : \A v \in Visible(d) : \A w \in Applied(v) :
        target[w] \in Sessions => status[target[w]] = "committed"

SavedWrites(s) ==
    IF saved[s] = None THEN {} ELSE {w \in Applied(saved[s]) : target[w] = s}

\* A committed transaction is one unit: a version that shows one of its
\* statements shows all of those its COMMIT stored.
CommitAllOrNothing ==
    \A d \in DBs : \A v \in Visible(d) : \A w \in Applied(v) :
        target[w] \in Sessions => SavedWrites(target[w]) \subseteq Applied(v)

\* A statement whose client got an error has no effect anywhere: no version
\* added to IPFS contains it.
ErrorLeavesNoTrace ==
    \A v \in objects : \A w \in Applied(v) : outcome[w] # "error"

\* d.mu is held across calls only by a BEGIN that is loading, a transaction's
\* mutex only by the one COMMIT that is storing it: no return path keeps one.
LocksReleased ==
    /\ dmu # None => /\ task[dmu].op = "begin"
                     /\ task[dmu].pc \in {"load", "entry", "resolve", "fill", "loaded"}
    /\ \A s \in Sessions : txn[s].mu # None =>
          /\ At(txn[s].mu, "commit", "commitStore")
          /\ task[txn[s].mu].ses = s

\* At most one COMMIT of a session gets past the map, whatever other COMMIT,
\* ROLLBACK or cleanup of the session runs at the same time.
CommitOnce ==
    \A s \in Sessions :
        LET committers == {h \in Handlers : /\ task[h].ses = s
                              /\ task[h].pc \in {"commitAdd", "commitStore"}}
        IN  Cardinality(committers) = IF status[s] = "committing" THEN 1 ELSE 0

\* One call creates a name: while it is past KeyGen no other is, and none ever
\* is again once its private key has been handed out.
OneCreator ==
    \A d \in DBs :
        LET creators == {h \in Handlers : At(h, "create", "register") \/ At(h, "create", "cacheNew")
                             \/ (At(h, "create", "reply") /\ task[h].res = "ok")}
        IN  Cardinality({h \in creators : task[h].db = d})
               + (IF d \in keyHolders THEN 1 ELSE 0) <= 1

\* A database whose creation was acknowledged, and that is still registered,
\* loads from local state alone, whatever IPNS answers, as long as no cache
\* write failed.
AckedDatabaseLoadable ==
    faults = 0 => \A d \in keyHolders \cap registry : cache[d] # None

\* The current version contains every statement whose client was told, outside
\* a session, that it succeeded.
AckedWritesDurable ==
    \A w \in Writes : outcome[w] = "ok" /\ target[w] \in DBs =>
        /\ cache[target[w]] # None
        /\ w \in Applied(cache[target[w]])

\* "COMMIT: Saves all changes made during the transaction": every statement
\* acknowledged in a committed session is in the version its COMMIT stored.
CommitSavesAll ==
    \A s \in Sessions, w \in Writes :
        status[s] = "committed" /\ target[w] = s /\ outcome[w] = "ok"
            => w \in Applied(saved[s])

(* Liveness *)

\* Every call that arrives is answered, if only by the server's death: no
\* handler waits for ever on d.mu, a transaction's mutex, a full queue or its
\* ErrChan.
EveryCallAnswered ==
    \A h \in Handlers : task[h].pc # "idle" ~> task[h].pc = "idle"

\* A session its client abandons does not stay in the map for ever.
SessionsEnd ==
    \A s \in Sessions : status[s] = "active" ~> status[s] # "active"
=============================================================================
