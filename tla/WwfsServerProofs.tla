-------------------------- MODULE WwfsServerProofs --------------------------
(***************************************************************************)
(* Theorems about WwfsServer for any number of handlers, databases,        *)
(* sessions, statements, crashes and failed writes.  First what holds of   *)
(* the dispatcher and the tasks; then the locks and the ends of sessions   *)
(* (LocksReleased, CommitOnce); names: what a name resolves to is a        *)
(* version of its own database (OwnVersions), one call creates it          *)
(* (OneCreator), and it loads (AckedDatabaseLoadable); isolation: nobody   *)
(* sees a statement of a session before its COMMIT (UncommittedInvisible), *)
(* and after it everybody who sees one sees all (CommitAllOrNothing).      *)
(*                                                                         *)
(* Then errors: a statement whose client was told it failed is in no       *)
(* version (ErrorLeavesNoTrace).  Last, acknowledged statements stay       *)
(* (AckedWritesDurable), and without sessions queue, worker and cache      *)
(* implement a serial database (ImplementsSerial), where the worker of a   *)
(* database alone writes its entry.                                        *)
(***************************************************************************)
EXTENDS AutocommitRefinement, TLAPS, FiniteSetTheorems

-----------------------------------------------------------------------------
(* What the helpers return *)

\* A statement turns a version into a version.
LEMMA ExecuteType ==
    ASSUME NEW v \in Versions, NEW w \in Writes
    PROVE  Execute(v, w) \in Versions
  BY DEF Execute, Versions

\* An empty database and a fork are versions.
LEMMA EmptyVersionType ==
    ASSUME NEW d \in DBs
    PROVE  EmptyVersion(d) \in Versions
  BY DEF EmptyVersion, Versions

LEMMA ForkVersionType ==
    ASSUME NEW d \in DBs, NEW v \in Versions
    PROVE  ForkVersion(d, v) \in Versions
  BY DEF ForkVersion, Versions

\* A fresh task is a task.
LEMMA NoTaskType == NoTask \in Tasks
  BY DEF NoTask, Tasks, Ops, PCs, CIDs

\* A cache write, also one that fails, leaves the cache well typed.
LEMMA UpdateCacheType ==
    ASSUME cache \in [DBs -> CIDs], faults \in 0..MaxCacheFaults,
           NEW d \in DBs, NEW v \in CIDs, UpdateCache(d, v)
    PROVE  cache' \in [DBs -> CIDs] /\ faults' \in 0..MaxCacheFaults
  <1>1. MaxCacheFaults \in Nat
    BY ConstantsAssumption
  <1> QED
    BY <1>1 DEF UpdateCache

-----------------------------------------------------------------------------
(* Inv is inductive: one lemma per group of actions *)

LEMMA InitInv == Init => Inv
  <1> SUFFICES ASSUME Init PROVE Inv
    OBVIOUS
  <1>1. TypeOK
    <2> \A d \in DBs : EmptyVersion(d) \in Versions
      BY EmptyVersionType
    <2>1. cache \in [DBs -> CIDs] /\ ipns \in [DBs -> CIDs]
      BY DEF Init, CIDs
    <2>2. objects \subseteq Versions
      BY ConstantsAssumption DEF Init
    <2>3. task \in [Goroutines -> Tasks]
      BY NoTaskType DEF Init
    <2>4. txn \in [Sessions -> Txns]
      BY DEF Init, NoTxn, Txns, CIDs
    <2>5. registry \subseteq DBs /\ keys \subseteq DBs /\ keyHolders \subseteq DBs
      BY ConstantsAssumption DEF Init
    <2>6. crashes \in 0..MaxCrashes /\ faults \in 0..MaxCacheFaults
      BY ConstantsAssumption DEF Init
    <2>7. queues \in [DBs -> Seq(Handlers)]
      BY DEF Init
    <2>8. /\ publishes \subseteq Publications
          /\ dmu \in Handlers \cup {None}
          /\ status \in [Sessions -> Statuses]
          /\ saved \in [Sessions -> CIDs]
          /\ outcome \in [Statements -> {"unsent", "pending", "ok", "error", "unknown"}]
          /\ target \in [Statements -> DBs \cup Sessions \cup {None}]
      BY DEF Init, Statuses, CIDs
    <2> QED
      BY <2>1, <2>2, <2>3, <2>4, <2>5, <2>6, <2>7, <2>8 DEF TypeOK
  <1>2. ControlOK
    BY DEF Init, ControlOK, NoTask, Steps, HasArguments, Goroutines, At
  <1>3. OneJobPerWaiter
    BY DEF Init, OneJobPerWaiter, NoTask, Goroutines
  <1> QED
    BY <1>1, <1>2, <1>3 DEF Inv

\* A session that was opened stays opened, with a database in its transaction.
SessionsKept ==
    \A s \in Sessions :
        /\ status[s] # "unused" => status'[s] # "unused"
        /\ status'[s] # "unused" => txn'[s].db \in DBs /\ txn'[s].ver \in Versions

LEMMA SessionsUnchanged == Inv /\ UNCHANGED <<status, txn>> => SessionsKept
  BY DEF Inv, ControlOK, SessionsKept

TasksOK == task \in [Goroutines -> Tasks] /\ ControlOK /\ OneJobPerWaiter

\* A task that changes to one that fits its goroutine leaves ControlOK and
\* OneJobPerWaiter true, as long as no job is taken, answered or queued.
LEMMA TaskStep ==
    ASSUME Inv, NEW t \in Goroutines, NEW k \in Tasks,
           task' = [task EXCEPT ![t] = k],
           Steps(k.op, k.pc), HasArguments(k),
           k.op = "job" => t \in DBs /\ k.db = t,
           k.op \in {"exec", "commit", "rollback"} => status'[k.ses] # "unused",
           t \in DBs => k.op = task[t].op /\ k.from = task[t].from,
           task[t].pc # "wait", k.pc # "wait",
           SessionsKept, UNCHANGED queues
    PROVE  TasksOK'
  <1>1. task' \in [Goroutines -> Tasks]
    BY DEF Inv, TypeOK
  <1>2. \A u \in Goroutines : task'[u] = IF u = t THEN k ELSE task[u]
    BY DEF Inv, TypeOK
  <1>3. \A d \in DBs : d \in Goroutines
    BY DEF Goroutines
  <1>4. \A h \in Handlers : h \in Goroutines
    BY DEF Goroutines
  <1>5. \A d \in DBs : \A i \in 1..Len(queues[d]) : queues[d][i] \in Goroutines
    BY <1>4 DEF Inv, TypeOK
  <1>6. \A u \in Goroutines : Steps(task'[u].op, task'[u].pc) /\ HasArguments(task'[u])
    BY <1>2 DEF Inv, ControlOK
  <1>7. \A u \in Goroutines : task'[u].op = "job" => u \in DBs /\ task'[u].db = u
    BY <1>2 DEF Inv, ControlOK
  <1>8. \A d \in DBs : task'[d].op \in {"none", "job"}
    BY <1>2, <1>3 DEF Inv, ControlOK
  <1>9. \A d \in DBs : \A i \in 1..Len(queues[d]) :
           /\ task'[queues[d][i]].op = "write" /\ task'[queues[d][i]].pc = "wait"
           /\ task'[queues[d][i]].db = d
    BY <1>2, <1>5 DEF Inv, ControlOK, At
  <1>10. \A h \in Handlers : task'[h].op \in {"exec", "commit", "rollback"} =>
           status'[task'[h].ses] # "unused"
    <2> SUFFICES ASSUME NEW h \in Handlers,
                        task'[h].op \in {"exec", "commit", "rollback"}, h # t
                 PROVE  status'[task'[h].ses] # "unused"
      BY <1>2, <1>4
    <2>1. task'[h] = task[h] /\ status[task[h].ses] # "unused"
      BY <1>2, <1>4 DEF Inv, ControlOK
    <2>2. task[h].ses \in Sessions
      BY <1>4, <2>1 DEF Inv, ControlOK, HasArguments
    <2> QED
      BY <2>1, <2>2 DEF SessionsKept
  <1>11. \A s \in Sessions : status'[s] # "unused" =>
           txn'[s].db \in DBs /\ txn'[s].ver \in Versions
    BY DEF SessionsKept
  <1>12. ControlOK'
    BY <1>6, <1>7, <1>8, <1>9, <1>10, <1>11 DEF ControlOK, At
  <1>13. OneJobPerWaiter'
    <2>1. \A d \in DBs : task'[d].op = task[d].op /\ task'[d].from = task[d].from
      BY <1>2, <1>3
    <2>2. \A h \in Handlers : task[h].pc = "wait" \/ task'[h].pc = "wait" => task'[h] = task[h]
      BY <1>2, <1>4
    <2>3. \A d \in DBs : task[d].op = "job" => task[d].from \in Handlers
      BY <1>3 DEF Inv, ControlOK, HasArguments
    <2>4. \A h \in Handlers : task[h].pc = "wait" => task[h].db \in DBs
      BY <1>4 DEF Inv, ControlOK, Steps, HasArguments
    <2>5. \A h \in Handlers : task'[h].pc = "wait" =>
             \/ \E i \in 1..Len(queues[task'[h].db]) : queues[task'[h].db][i] = h
             \/ task'[task'[h].db].op = "job" /\ task'[task'[h].db].from = h
      BY <2>1, <2>2, <2>4 DEF Inv, OneJobPerWaiter
    <2>6. ASSUME NEW d \in DBs, task'[d].op = "job"
          PROVE  /\ task'[task'[d].from].op = "write" /\ task'[task'[d].from].pc = "wait"
                 /\ task'[task'[d].from].db = d
                 /\ \A i \in 1..Len(queues[d]) : queues[d][i] # task'[d].from
      <3>1. task[d].op = "job" /\ task'[d].from = task[d].from /\ task[d].from \in Handlers
        BY <2>1, <2>3, <2>6
      <3>2. /\ task[task[d].from].op = "write" /\ task[task[d].from].pc = "wait"
            /\ task[task[d].from].db = d
            /\ \A i \in 1..Len(queues[d]) : queues[d][i] # task[d].from
        BY <3>1 DEF Inv, OneJobPerWaiter, At
      <3> QED
        BY <2>2, <3>1, <3>2
    <2>7. \A d \in DBs : \A i, j \in 1..Len(queues[d]) : queues[d][i] = queues[d][j] => i = j
      BY DEF Inv, OneJobPerWaiter
    <2> QED
      BY <2>5, <2>6, <2>7 DEF OneJobPerWaiter, At
  <1> QED
    BY <1>1, <1>12, <1>13 DEF TasksOK

\* What ControlOK says of the goroutine that takes a step.
LEMMA Running ==
    ASSUME Inv, NEW t \in Goroutines, task[t].pc # "idle"
    PROVE  /\ task[t] \in Tasks
           /\ Steps(task[t].op, task[t].pc) /\ HasArguments(task[t])
           /\ task[t].op # "none"
           /\ task[t].op = "job" => t \in DBs /\ task[t].db = t
           /\ t \in DBs => task[t].op = "job"
           /\ t \in Handlers => task[t].op # "job"
           /\ task[t].op \in {"exec", "commit", "rollback"} =>
                 task[t].ses \in Sessions /\ status[task[t].ses] # "unused"
  <1>1. /\ task[t] \in Tasks /\ Steps(task[t].op, task[t].pc) /\ HasArguments(task[t])
        /\ task[t].op = "job" => t \in DBs /\ task[t].db = t
    BY DEF Inv, TypeOK, ControlOK
  <1>2. task[t].op # "none"
    BY <1>1 DEF Steps
  <1>3. t \in DBs => task[t].op = "job"
    BY <1>2 DEF Inv, ControlOK
  <1>4. t \in Handlers => task[t].op # "job"
    BY <1>1, ConstantsAssumption
  <1>5. task[t].op \in {"exec", "commit", "rollback"} =>
           task[t].ses \in Sessions /\ status[task[t].ses] # "unused"
    <2> SUFFICES ASSUME task[t].op \in {"exec", "commit", "rollback"}
                 PROVE  task[t].ses \in Sessions /\ status[task[t].ses] # "unused"
      OBVIOUS
    <2>1. t \in Handlers
      BY <1>3 DEF Goroutines
    <2> QED
      BY <1>1, <2>1 DEF Inv, ControlOK, HasArguments
  <1> QED
    BY <1>1, <1>2, <1>3, <1>4, <1>5

\* A goroutine goes on to a step of its call for which it has what is needed.
LEMMA GoStep ==
    ASSUME Inv, NEW t \in Goroutines, NEW pc \in PCs, NEW v \in CIDs,
           NEW r \in {"none", "ok", "error"},
           task' = [task EXCEPT ![t] = [@ EXCEPT !.pc = pc, !.ver = v, !.res = r]],
           task[t].pc \notin {"idle", "wait"}, pc # "wait",
           Steps(task[t].op, pc),
           pc = "store" => task[t].stmt \in Writes,
           pc \in {"answer", "reply"} => r \in {"ok", "error"},
           pc \in {"fill", "loaded", "store", "commitStore", "keygen", "register",
                   "cacheNew"} => v \in Versions,
           SessionsKept, UNCHANGED queues
    PROVE  TasksOK'
  <1> DEFINE k == [task[t] EXCEPT !.pc = pc, !.ver = v, !.res = r]
  <1>1. /\ task[t] \in Tasks /\ HasArguments(task[t])
        /\ task[t].op = "job" => t \in DBs /\ task[t].db = t
        /\ t \in DBs => task[t].op = "job"
        /\ task[t].op \in {"exec", "commit", "rollback"} =>
              task[t].ses \in Sessions /\ status[task[t].ses] # "unused"
    BY Running
  <1>2. /\ k \in Tasks /\ k.op = task[t].op /\ k.pc = pc /\ k.ver = v /\ k.db = task[t].db
        /\ k.ses = task[t].ses /\ k.res = r /\ k.stmt = task[t].stmt /\ k.from = task[t].from
    BY <1>1 DEF Tasks
  <1>3. task' = [task EXCEPT ![t] = k]
    BY <1>1 DEF Inv, TypeOK
  <1> HIDE DEF k
  <1>4. HasArguments(k)
    BY <1>1, <1>2 DEF HasArguments
  <1>5. k.op \in {"exec", "commit", "rollback"} => status'[k.ses] # "unused"
    BY <1>1, <1>2 DEF SessionsKept
  <1>6. Steps(k.op, k.pc)
    BY <1>2
  <1> QED
    BY <1>1, <1>2, <1>3, <1>4, <1>5, <1>6, TaskStep

\* GoStep for a step that keeps the version and the result.
LEMMA GotoStep ==
    ASSUME Inv, NEW t \in Goroutines, NEW pc \in PCs, Goto(t, pc),
           task[t].pc \notin {"idle", "wait"}, Steps(task[t].op, pc),
           pc = "store" => task[t].stmt \in Writes,
           pc \notin {"wait", "answer", "reply"},
           pc \in {"fill", "loaded", "store", "commitStore", "keygen", "register",
                   "cacheNew"} => task[t].ver \in Versions,
           SessionsKept, UNCHANGED queues
    PROVE  TasksOK'
  <1>1. task[t].ver \in CIDs /\ task[t].res \in {"none", "ok", "error"}
    BY DEF Inv, TypeOK, Tasks
  <1>2. task' = [task EXCEPT ![t] =
                   [@ EXCEPT !.pc = pc, !.ver = task[t].ver, !.res = task[t].res]]
    BY DEF Goto, Inv, TypeOK, Tasks
  <1> QED
    BY <1>1, <1>2, GoStep

\* GoStep for a step that keeps the result.
LEMMA GotoWithStep ==
    ASSUME Inv, NEW t \in Goroutines, NEW pc \in PCs, NEW v \in Versions,
           GotoWith(t, pc, v),
           task[t].pc \notin {"idle", "wait"}, Steps(task[t].op, pc),
           pc = "store" => task[t].stmt \in Writes,
           pc \notin {"wait", "answer", "reply"},
           SessionsKept, UNCHANGED queues
    PROVE  TasksOK'
  <1>1. v \in CIDs /\ task[t].res \in {"none", "ok", "error"}
    BY DEF Inv, TypeOK, Tasks, CIDs
  <1>2. task' = [task EXCEPT ![t] = [@ EXCEPT !.pc = pc, !.ver = v, !.res = task[t].res]]
    BY DEF GotoWith, Inv, TypeOK, Tasks
  <1> QED
    BY <1>1, <1>2, GoStep

\* A call returns to its client, or a job to its handler.
LEMMA ReturnStep ==
    ASSUME Inv, NEW t \in Goroutines, NEW r \in {"ok", "error"}, Return(t, r),
           task[t].pc \notin {"idle", "wait"},
           SessionsKept, UNCHANGED queues
    PROVE  TasksOK' /\ dmu' \in Handlers \cup {None}
  <1> DEFINE pc == IF t \in Handlers THEN "reply" ELSE "answer"
  <1>1. /\ task[t] \in Tasks /\ task[t].op # "none"
        /\ t \in DBs => task[t].op = "job"
        /\ t \in Handlers => task[t].op # "job"
    BY Running
  <1>2. pc \in PCs /\ pc \in {"reply", "answer"}
    BY DEF PCs
  <1>3. Steps(task[t].op, pc)
    BY <1>1 DEF Steps, Tasks, Ops, Goroutines
  <1>4. task[t].ver \in CIDs
    BY <1>1 DEF Tasks
  <1>5. task' = [task EXCEPT ![t] = [@ EXCEPT !.pc = pc, !.ver = task[t].ver, !.res = r]]
    BY <1>1 DEF Return, Inv, TypeOK, Tasks
  <1> HIDE DEF pc
  <1>6. TasksOK'
    BY <1>2, <1>3, <1>4, <1>5, GoStep
  <1>7. dmu' \in Handlers \cup {None}
    BY DEF Return, Inv, TypeOK
  <1> QED
    BY <1>6, <1>7

-----------------------------------------------------------------------------
(* Arrivals and replies *)

LEMMA ArriveStep ==
    ASSUME Inv, NEW h \in Handlers, NEW k \in Tasks, Arrive(h, k),
           Steps(k.op, k.pc), HasArguments(k), k.op # "job",
           k.pc # "wait",
           k.op \in {"exec", "commit", "rollback"} => status[k.ses] # "unused",
           \/ NothingSent
           \/ \E w \in Statements, to \in DBs \cup Sessions : Send(w, to)
    PROVE  Inv'
  <1>1. h \in Goroutines /\ h \notin DBs
    BY ConstantsAssumption DEF Goroutines
  <1>2. SessionsKept
    BY SessionsUnchanged DEF Arrive, txnVars
  <1>3. task[h].pc # "wait"
    BY DEF Arrive
  <1>4. TasksOK'
    BY <1>1, <1>2, <1>3, TaskStep DEF Arrive, txnVars
  <1>5. /\ outcome' \in [Statements -> {"unsent", "pending", "ok", "error", "unknown"}]
        /\ target' \in [Statements -> DBs \cup Sessions \cup {None}]
    BY DEF NothingSent, Send, Inv, TypeOK
  <1> QED
    BY <1>4, <1>5 DEF TasksOK, Inv, TypeOK, Arrive, leveldbVars, ipfsVars, txnVars

LEMMA ArrivalInv ==
    ASSUME Inv, NEW h \in Handlers, Arrival(h)
    PROVE  Inv'
  <1> USE DEF NoTask, Tasks, Ops, PCs, CIDs, Steps, HasArguments
  <1>1. ASSUME NEW d \in DBs, CallSelect(h, d) PROVE Inv'
    BY <1>1, ArriveStep DEF CallSelect
  <1>2. ASSUME NEW d \in DBs, NEW w \in Statements, CallWrite(h, d, w) PROVE Inv'
    BY <1>2, ArriveStep DEF CallWrite
  <1>3. ASSUME NEW d \in DBs, NEW s \in Sessions, CallBegin(h, d, s) PROVE Inv'
    BY <1>3, ArriveStep DEF CallBegin
  <1>4. ASSUME NEW d \in DBs, CallCreate(h, d) PROVE Inv'
    <2>1. PICK v \in {EmptyVersion(d)} \cup ({cache[e] : e \in DBs} \ {None}) :
            Arrive(h, [NoTask EXCEPT !.op = "create", !.pc = "keygen", !.db = d,
                                     !.ver = ForkVersion(d, v)])
      BY <1>4 DEF CallCreate
    <2>2. v \in Versions
      BY EmptyVersionType DEF Inv, TypeOK
    <2>3. ForkVersion(d, v) \in Versions
      BY <2>2, ForkVersionType
    <2> QED
      BY <1>4, <2>1, <2>3, ArriveStep DEF CallCreate
  <1>5. ASSUME NEW d \in DBs, CallDelete(h, d) PROVE Inv'
    BY <1>5, ArriveStep DEF CallDelete
  <1>6. ASSUME NEW s \in Sessions, NEW w \in Writes, CallExec(h, s, w) PROVE Inv'
    BY <1>6, ArriveStep DEF CallExec, Known, Statements
  <1>7. ASSUME NEW s \in Sessions, CallCommit(h, s) PROVE Inv'
    BY <1>7, ArriveStep DEF CallCommit, Known
  <1>8. ASSUME NEW s \in Sessions, CallRollback(h, s) PROVE Inv'
    BY <1>8, ArriveStep DEF CallRollback, Known
  <1> QED
    BY <1>1, <1>2, <1>3, <1>4, <1>5, <1>6, <1>7, <1>8 DEF Arrival

LEMMA ReplyInv ==
    ASSUME Inv, NEW h \in Handlers, Reply(h)
    PROVE  Inv'
  <1>1. h \in Goroutines /\ h \notin DBs
    BY ConstantsAssumption DEF Goroutines
  <1>2. SessionsKept
    BY SessionsUnchanged DEF Reply, txnVars
  <1>3. TasksOK'
    BY <1>1, <1>2, NoTaskType, TaskStep DEF Reply, NoTask, Steps, HasArguments
  <1>4. task[h] \in Tasks /\ Steps(task[h].op, "reply") /\ HasArguments(task[h])
    BY <1>1, Running DEF Reply
  <1>5. outcome' \in [Statements -> {"unsent", "pending", "ok", "error", "unknown"}]
    BY <1>4 DEF Reply, Inv, TypeOK, HasArguments
  <1>6. keyHolders' \subseteq DBs
    BY <1>4 DEF Reply, Inv, TypeOK, HasArguments
  <1> QED
    BY <1>3, <1>5, <1>6
    DEF TasksOK, Inv, TypeOK, Reply, leveldbVars, ipfsVars, txnVars

-----------------------------------------------------------------------------
(* Loading, and the worker of a database *)

LEMMA LoadInv ==
    ASSUME Inv, NEW t \in Goroutines, Load(t)
    PROVE  Inv'
  <1> USE DEF leveldbVars, ipfsVars, txnVars, clientVars
  <1>1. UNCHANGED <<status, txn, queues>>
    BY DEF Load, ReadCache, ReadEntry, Resolve, FillCache, AnswerRead, ReturnError
  <1>2. SessionsKept
    BY <1>1, SessionsUnchanged
  <1>3. task[t].pc \in {"load", "entry", "resolve", "fill", "loaded", "keygen", "register"}
    BY DEF Load, ReadCache, ReadEntry, Resolve, FillCache, AnswerRead, ReturnError, FailurePoints
  <1>4. task[t] \in Tasks /\ Steps(task[t].op, task[t].pc) /\ HasArguments(task[t])
    BY <1>3, Running
  <1>5. ASSUME task[t].pc \in {"load", "entry", "resolve", "fill"}
        PROVE  /\ task[t].db \in DBs
               /\ \A pc \in {"entry", "resolve", "fill", "loaded"} : pc \in PCs /\ Steps(task[t].op, pc)
    BY <1>4, <1>5 DEF Steps, HasArguments, PCs
  <1>6. ASSUME NEW r \in {"ok", "error"}, Return(t, r)
        PROVE  TasksOK' /\ dmu' \in Handlers \cup {None}
    BY <1>1, <1>2, <1>3, <1>6, ReturnStep
  <1>7. ASSUME ReadCache(t) PROVE Inv'
    <2>1. task[t].db \in DBs /\ "entry" \in PCs /\ "loaded" \in PCs
      BY <1>5, <1>7 DEF ReadCache
    <2>2. cache[task[t].db] # None => cache[task[t].db] \in Versions
      BY <2>1 DEF Inv, TypeOK, CIDs
    <2>3. TasksOK'
      <3>1. CASE cache[task[t].db] # None
        BY <1>1, <1>2, <1>5, <1>7, <2>1, <2>2, <3>1, GotoWithStep DEF ReadCache
      <3>2. CASE cache[task[t].db] = None
        BY <1>1, <1>2, <1>5, <1>7, <2>1, <3>2, GotoStep DEF ReadCache
      <3> QED
        BY <3>1, <3>2
    <2> QED
      BY <1>7, <2>3 DEF ReadCache, TasksOK, Inv, TypeOK
  <1>8a. ASSUME ReadEntry(t) PROVE Inv'
    <2>1. task[t].db \in DBs /\ "resolve" \in PCs
      BY <1>5, <1>8a DEF ReadEntry
    <2>2. TasksOK' /\ dmu' \in Handlers \cup {None}
      <3>1. CASE task[t].db \in registry
        <4>1. TasksOK'
          BY <1>1, <1>2, <1>5, <1>8a, <2>1, <3>1, GotoStep DEF ReadEntry
        <4> QED
          BY <1>8a, <3>1, <4>1 DEF ReadEntry, Inv, TypeOK
      <3>2. CASE task[t].db \notin registry
        BY <1>6, <1>8a, <3>2 DEF ReadEntry
      <3> QED
        BY <3>1, <3>2
    <2> QED
      BY <1>8a, <2>2 DEF ReadEntry, TasksOK, Inv, TypeOK
  <1>8. ASSUME Resolve(t) PROVE Inv'
    <2>1. task[t].db \in DBs /\ "fill" \in PCs
      BY <1>5, <1>8 DEF Resolve
    <2>2. ipns[task[t].db] # None => ipns[task[t].db] \in Versions
      BY <2>1 DEF Inv, TypeOK, CIDs
    <2>3. TasksOK' /\ dmu' \in Handlers \cup {None}
      <3>1. CASE ipns[task[t].db] # None
        <4>1. TasksOK'
          BY <1>1, <1>2, <1>5, <1>8, <2>1, <2>2, <3>1, GotoWithStep DEF Resolve
        <4> QED
          BY <1>8, <3>1, <4>1 DEF Resolve, Inv, TypeOK
      <3>2. CASE ipns[task[t].db] = None
        BY <1>6, <1>8, <3>2 DEF Resolve
      <3> QED
        BY <3>1, <3>2
    <2> QED
      BY <1>8, <2>3 DEF Resolve, TasksOK, Inv, TypeOK
  <1>9. ASSUME FillCache(t) PROVE Inv'
    <2>1. task[t].db \in DBs /\ "loaded" \in PCs
      BY <1>5, <1>9 DEF FillCache
    <2>2. task[t].ver \in Versions
      BY <1>4, <1>9 DEF FillCache, HasArguments
    <2>3. TasksOK'
      BY <1>1, <1>2, <1>5, <1>9, <2>1, <2>2, GotoStep DEF FillCache
    <2>4. cache' \in [DBs -> CIDs] /\ faults' \in 0..MaxCacheFaults
      BY <1>9, <2>1, <2>2, UpdateCacheType DEF FillCache, CIDs, Inv, TypeOK
    <2> QED
      BY <1>9, <2>3, <2>4 DEF FillCache, TasksOK, Inv, TypeOK
  <1>10. ASSUME AnswerRead(t) \/ ReturnError(t) PROVE Inv'
    BY <1>6, <1>10 DEF AnswerRead, ReturnError, TasksOK, Inv, TypeOK
  <1> QED
    BY <1>7, <1>8a, <1>8, <1>9, <1>10 DEF Load

\* The two steps that add a new version change objects and publishes.
LEMMA PublicationType ==
    ASSUME NEW d \in DBs, NEW v \in Versions, NEW by \in Writes \cup Sessions \cup DBs,
           publishes \subseteq Publications, Spawn(d, v, by)
    PROVE  publishes' \subseteq Publications
  <1> DEFINE p == [db |-> d, ver |-> v, by |-> by, found |-> by \in DBs]
  <1>1. (by \in DBs) \in BOOLEAN
    OBVIOUS
  <1>2. p \in Publications
    BY <1>1 DEF Publications
  <1>3. publishes' = publishes \cup {p}
    BY DEF Spawn
  <1> QED
    BY <1>2, <1>3

\* The publication that joins the others has the name and version given.
LEMMA SpawnEffect ==
    ASSUME NEW d, NEW v, NEW by, Spawn(d, v, by), NEW q \in publishes'
    PROVE  q \in publishes \/ (q.db = d /\ q.ver = v)
  BY DEF Spawn

\* A step of a publication makes no new one: each that is left has the name and
\* the version of one there was.
NoNewPublication == \A q \in publishes' : \E p \in publishes : q.db = p.db /\ q.ver = p.ver

LEMMA PublicationStep ==
    ASSUME Inv, NEW p \in publishes, FindEntry(p) \/ Publish(p) \/ PublishFails(p)
    PROVE  NoNewPublication /\ publishes' \subseteq Publications
  <1>1. p \in Publications /\ publishes \subseteq Publications
    BY DEF Inv, TypeOK
  <1>2. CASE FindEntry(p)
    <2> DEFINE r == [p EXCEPT !.found = TRUE]
    <2>1. r \in Publications /\ r.db = p.db /\ r.ver = p.ver
      BY <1>1 DEF Publications
    <2>2. publishes' = (publishes \ {p}) \cup {r}
      BY <1>2 DEF FindEntry
    <2> QED
      BY <1>1, <2>1, <2>2 DEF NoNewPublication
  <1>3. CASE Publish(p) \/ PublishFails(p)
    BY <1>1, <1>3 DEF Publish, PublishFails, NoNewPublication
  <1> QED
    BY <1>2, <1>3

LEMMA WorkerInv ==
    ASSUME Inv, NEW d \in DBs, ExecuteJob(d) \/ StoreJob(d)
    PROVE  Inv'
  <1> USE DEF leveldbVars, ipfsVars, txnVars, clientVars
  <1>1. UNCHANGED <<status, txn, queues>>
    BY DEF ExecuteJob, StoreJob
  <1>2. SessionsKept
    BY <1>1, SessionsUnchanged
  <1>3. d \in Goroutines
    BY DEF Goroutines
  <1>4. task[d].op = "job" /\ task[d].pc \in {"loaded", "store"}
    BY DEF ExecuteJob, StoreJob, At
  <1>5. task[d].ver \in Versions
    BY <1>3, <1>4, Running DEF HasArguments
  <1>6. ASSUME ExecuteJob(d) PROVE Inv'
    <2> DEFINE new == Execute(task[d].ver, task[d].stmt)
    <2>1. task[d].stmt \in Writes /\ new \in Versions
      BY <1>5, <1>6, ExecuteType DEF ExecuteJob
    <2>2. GotoWith(d, "store", new) /\ objects' = objects \cup {new}
      BY <1>6 DEF ExecuteJob, AddObject
    <2>3. "store" \in PCs /\ Steps(task[d].op, "store")
      BY <1>4 DEF PCs, Steps
    <2> HIDE DEF new
    <2>4. TasksOK'
      BY <1>1, <1>2, <1>3, <1>4, <2>1, <2>2, <2>3, GotoWithStep
    <2>5. objects' \subseteq Versions
      BY <2>1, <2>2 DEF Inv, TypeOK
    <2> QED
      BY <1>6, <2>4, <2>5 DEF ExecuteJob, TasksOK, Inv, TypeOK
  <1>7. ASSUME StoreJob(d) PROVE Inv'
    <2>1. task[d].stmt \in Writes
      BY <1>3, <1>7, Running DEF StoreJob, At, HasArguments
    <2>2. TasksOK' /\ dmu' \in Handlers \cup {None}
      BY <1>1, <1>2, <1>3, <1>4, <1>7, ReturnStep DEF StoreJob
    <2>3. cache' \in [DBs -> CIDs] /\ faults' \in 0..MaxCacheFaults
      BY <1>5, <1>7, UpdateCacheType DEF StoreJob, CIDs, Inv, TypeOK
    <2>4. publishes' \subseteq Publications
      BY <1>5, <1>7, <2>1, PublicationType DEF StoreJob, Inv, TypeOK
    <2> QED
      BY <1>7, <2>2, <2>3, <2>4 DEF StoreJob, TasksOK, Inv, TypeOK
  <1> QED
    BY <1>6, <1>7

-----------------------------------------------------------------------------
(* The job queue: steps that move a call in or out of a channel *)

\* A handler at the back of the queue is the one that just began to wait.
LEMMA EnqueueInv ==
    ASSUME Inv, NEW h \in Handlers, Enqueue(h)
    PROVE  Inv'
  <1> USE DEF leveldbVars, ipfsVars, txnVars, clientVars
  <1> DEFINE d == task[h].db
             k == [task[h] EXCEPT !.pc = "wait"]
  <1>1. h \in Goroutines /\ \A g \in Handlers : g \in Goroutines
    BY DEF Goroutines
  <1>2. task[h].op = "write" /\ task[h].pc = "enqueue"
    BY DEF Enqueue, At
  <1>3. d \in DBs /\ task[h] \in Tasks /\ HasArguments(task[h])
    BY <1>1, <1>2, Running DEF HasArguments
  <1>4. /\ k \in Tasks /\ k.op = "write" /\ k.pc = "wait" /\ k.db = d /\ k.ses = task[h].ses
        /\ k.stmt = task[h].stmt
    BY <1>2, <1>3 DEF Tasks, PCs
  <1>5. task' = [task EXCEPT ![h] = k]
    BY <1>3 DEF Enqueue, Goto, Tasks
  <1>6. queues' = [queues EXCEPT ![d] = Append(@, h)]
    BY DEF Enqueue
  <1>7. HasArguments(k) /\ Steps(k.op, k.pc)
    BY <1>2, <1>3, <1>4 DEF HasArguments, Steps
  <1> HIDE DEF k, d
  <1>8. \A u \in Goroutines : task'[u] = IF u = h THEN k ELSE task[u]
    BY <1>5 DEF Inv, TypeOK
  <1>9. /\ task' \in [Goroutines -> Tasks]
        /\ queues' \in [DBs -> Seq(Handlers)]
    <2>1. task' \in [Goroutines -> Tasks]
      BY <1>4, <1>5 DEF Inv, TypeOK
    <2>2. queues' \in [DBs -> Seq(Handlers)]
      BY <1>3, <1>6 DEF Inv, TypeOK
    <2> QED
      BY <2>1, <2>2
  <1>10. \A u \in Goroutines : Steps(task'[u].op, task'[u].pc) /\ HasArguments(task'[u])
    BY <1>7, <1>8 DEF Inv, ControlOK
  <1>16. \A u \in Goroutines : task'[u].op = "job" => u \in DBs /\ task'[u].db = u
    BY <1>4, <1>8 DEF Inv, ControlOK
  <1>11. \A e \in DBs : task'[e].op \in {"none", "job"}
    BY <1>2, <1>8 DEF Inv, ControlOK, Goroutines
  <1>12. \A e \in DBs : \A i \in 1..Len(queues'[e]) :
           /\ task'[queues'[e][i]].op = "write" /\ task'[queues'[e][i]].pc = "wait"
           /\ task'[queues'[e][i]].db = e
    <2> SUFFICES ASSUME NEW e \in DBs, NEW i \in 1..Len(queues'[e])
                 PROVE  /\ task'[queues'[e][i]].op = "write"
                        /\ task'[queues'[e][i]].pc = "wait"
                        /\ task'[queues'[e][i]].db = e
      OBVIOUS
    <2>1. queues[e] \in Seq(Handlers)
      BY DEF Inv, TypeOK
    <2>2. CASE e = d /\ i = Len(queues[e]) + 1
      <3>1. queues'[e][i] = h
        BY <1>6, <2>1, <2>2 DEF Inv, TypeOK
      <3> QED
        BY <1>1, <1>4, <1>8, <2>2, <3>1
    <2>3. CASE ~(e = d /\ i = Len(queues[e]) + 1)
      <3>1. i \in 1..Len(queues[e]) /\ queues'[e][i] = queues[e][i]
        BY <1>6, <2>1, <2>3 DEF Inv, TypeOK
      <3>2. queues[e][i] \in Goroutines
        BY <1>1, <2>1, <3>1
      <3>3. At(queues[e][i], "write", "wait") /\ task[queues[e][i]].db = e
        BY <3>1 DEF Inv, ControlOK
      <3>4. queues[e][i] # h
        BY <1>2, <3>3 DEF At
      <3> QED
        BY <1>8, <3>1, <3>2, <3>3, <3>4 DEF At
    <2> QED
      BY <2>2, <2>3
  <1>13. \A g \in Handlers : task'[g].op \in {"exec", "commit", "rollback"} =>
           status'[task'[g].ses] # "unused"
    BY <1>1, <1>4, <1>8 DEF Enqueue, Inv, ControlOK
  <1>14. SessionsKept
    BY SessionsUnchanged DEF Enqueue
  <1>15. ControlOK'
    BY <1>10, <1>11, <1>12, <1>13, <1>14, <1>16 DEF SessionsKept, ControlOK, At
  <1>17. OneJobPerWaiter'
    <2>0. \A e \in DBs : task'[e] = task[e]
      BY <1>2, <1>8 DEF Inv, ControlOK, Goroutines
    <2>1. \A e \in DBs : queues[e] \in Seq(Handlers)
      BY DEF Inv, TypeOK
    <2>7. \A e \in DBs : task[e].op = "job" => task[e].from \in Handlers
      BY DEF Inv, ControlOK, HasArguments, Goroutines
    <2>2. ASSUME NEW e \in DBs
          PROVE  /\ Len(queues[e]) \in Nat /\ Len(queues'[e]) \in Nat
                 /\ Len(queues[e]) <= Len(queues'[e])
                 /\ \A i \in 1..Len(queues[e]) : queues'[e][i] = queues[e][i]
                 /\ \A i \in 1..Len(queues'[e]) : i \notin 1..Len(queues[e]) =>
                       i = Len(queues[e]) + 1 /\ e = d /\ queues'[e][i] = h
      <3>1. CASE e = d
        <4>1. queues'[e] = Append(queues[e], h)
          BY <1>3, <1>6, <3>1 DEF Inv, TypeOK
        <4> QED
          BY <2>1, <3>1, <4>1
      <3>2. CASE e # d
        <4>1. queues'[e] = queues[e]
          BY <1>3, <1>6, <3>2 DEF Inv, TypeOK
        <4> QED
          BY <2>1, <4>1
      <3> QED
        BY <3>1, <3>2
    <2>3. \A e \in DBs : \A i \in 1..Len(queues[e]) : queues[e][i] # h
      BY <1>2 DEF Inv, ControlOK, At
    <2>4. ASSUME NEW e \in DBs, NEW i \in 1..Len(queues'[e]), NEW j \in 1..Len(queues'[e]),
                 queues'[e][i] = queues'[e][j]
          PROVE  i = j
      <3>1. \A m \in 1..Len(queues[e]), n \in 1..Len(queues[e]) :
               queues[e][m] = queues[e][n] => m = n
        BY DEF Inv, OneJobPerWaiter
      <3>2. /\ \A m \in 1..Len(queues[e]) : queues'[e][m] = queues[e][m] /\ queues[e][m] # h
            /\ \A m \in 1..Len(queues'[e]) : m \notin 1..Len(queues[e]) =>
                  m = Len(queues[e]) + 1 /\ queues'[e][m] = h
        BY <2>2, <2>3
      <3>3. CASE i \in 1..Len(queues[e]) /\ j \in 1..Len(queues[e])
        BY <2>4, <3>1, <3>2, <3>3
      <3>4. CASE i \notin 1..Len(queues[e]) \/ j \notin 1..Len(queues[e])
        BY <2>4, <3>2, <3>4
      <3> QED
        BY <3>3, <3>4
    <2>5. ASSUME NEW e \in DBs, task'[e].op = "job"
          PROVE  /\ task'[task'[e].from].op = "write" /\ task'[task'[e].from].pc = "wait"
                 /\ task'[task'[e].from].db = e
                 /\ \A i \in 1..Len(queues'[e]) : queues'[e][i] # task'[e].from
      <3>1. task[e].op = "job" /\ task[e].from \in Handlers /\ task'[e].from = task[e].from
        BY <2>0, <2>5, <2>7
      <3>2. /\ task[task[e].from].op = "write" /\ task[task[e].from].pc = "wait"
            /\ task[task[e].from].db = e
            /\ \A i \in 1..Len(queues[e]) : queues[e][i] # task[e].from
        BY <3>1 DEF Inv, OneJobPerWaiter, At
      <3>3. task[e].from # h
        BY <1>2, <3>2
      <3> QED
        BY <1>1, <1>8, <2>2, <3>1, <3>2, <3>3
    <2>6. ASSUME NEW g \in Handlers, task'[g].pc = "wait"
          PROVE  \/ \E i \in 1..Len(queues'[task'[g].db]) : queues'[task'[g].db][i] = g
                 \/ task'[task'[g].db].op = "job" /\ task'[task'[g].db].from = g
      <3>1. CASE g = h
        <4>1. task'[g].db = d
          BY <1>1, <1>4, <1>8, <3>1
        <4>2. queues'[d] = Append(queues[d], h)
          BY <1>3, <1>6 DEF Inv, TypeOK
        <4>3. /\ Len(queues'[d]) = Len(queues[d]) + 1 /\ Len(queues[d]) \in Nat
              /\ queues'[d][Len(queues[d]) + 1] = h
          BY <1>3, <2>1, <4>2
        <4> QED
          BY <3>1, <4>1, <4>3
      <3>2. CASE g # h
        <4>1. task'[g] = task[g] /\ task[g].pc = "wait"
          BY <1>1, <1>8, <2>6, <3>2
        <4>2. task[g].db \in DBs
          BY <1>1, <4>1 DEF Inv, ControlOK, Steps, HasArguments
        <4>3. \/ \E i \in 1..Len(queues[task[g].db]) : queues[task[g].db][i] = g
              \/ task[task[g].db].op = "job" /\ task[task[g].db].from = g
          BY <4>1 DEF Inv, OneJobPerWaiter
        <4>4. \A i \in 1..Len(queues[task[g].db]) :
                 /\ i \in 1..Len(queues'[task[g].db])
                 /\ queues'[task[g].db][i] = queues[task[g].db][i]
          <5>1. /\ Len(queues[task[g].db]) \in Nat /\ Len(queues'[task[g].db]) \in Nat
                /\ Len(queues[task[g].db]) <= Len(queues'[task[g].db])
                /\ \A i \in 1..Len(queues[task[g].db]) :
                      queues'[task[g].db][i] = queues[task[g].db][i]
            BY <2>2, <4>2
          <5> QED
            BY <5>1
        <4>5. task'[task[g].db] = task[task[g].db]
          BY <2>0, <4>2
        <4>6. task'[g].db = task[g].db
          BY <4>1
        <4> QED
          BY <4>3, <4>4, <4>5, <4>6
      <3> QED
        BY <3>1, <3>2
    <2> QED
      BY <2>4, <2>5, <2>6 DEF OneJobPerWaiter, At
  <1> QED
    BY <1>9, <1>15, <1>17 DEF Enqueue, Inv, TypeOK

\* The worker takes the job at the head: its handler leaves the channel.
LEMMA TakeJobInv ==
    ASSUME Inv, NEW d \in DBs, TakeJob(d)
    PROVE  Inv'
  <1> USE DEF leveldbVars, ipfsVars, txnVars, clientVars
  <1> DEFINE h == Head(queues[d])
             k == [NoTask EXCEPT !.op = "job", !.pc = "load", !.db = d,
                                 !.stmt = task[h].stmt, !.from = h]
  <1>1. /\ d \in Goroutines /\ \A e \in DBs : e \in Goroutines
        /\ \A g \in Handlers : g \in Goroutines /\ g \notin DBs
    BY ConstantsAssumption DEF Goroutines
  <1>2. \A e \in DBs : queues[e] \in Seq(Handlers)
    BY DEF Inv, TypeOK
  <1>3. /\ h \in Handlers /\ h = queues[d][1]
        /\ 1 \in 1..Len(queues[d]) /\ Len(queues[d]) \in Nat
    BY <1>2 DEF TakeJob
  <1>4. task[h].op = "write" /\ task[h].pc = "wait" /\ task[h].db = d
    BY <1>3 DEF Inv, ControlOK, At
  <1>5. task[h].stmt \in Statements
    BY <1>1, <1>3, <1>4 DEF Inv, ControlOK, HasArguments
  <1>6. /\ k \in Tasks /\ Steps(k.op, k.pc) /\ HasArguments(k)
        /\ k.op = "job" /\ k.db = d /\ k.from = h /\ k.pc = "load"
    BY <1>3, <1>5 DEF NoTask, Tasks, Ops, PCs, CIDs, Steps, HasArguments
  <1>7. task' = [task EXCEPT ![d] = k] /\ queues' = [queues EXCEPT ![d] = Tail(@)]
    BY DEF TakeJob, Receive
  <1>8. task[d].op = "none"
    BY <1>1 DEF TakeJob, Inv, ControlOK, Steps
  <1> HIDE DEF k, h
  <1>9. \A u \in Goroutines : task'[u] = IF u = d THEN k ELSE task[u]
    BY <1>7 DEF Inv, TypeOK
  <1>10. \A g \in Handlers : task'[g] = task[g]
    BY <1>1, <1>9
  <1>11. \A e \in DBs : e # d => task'[e] = task[e] /\ queues'[e] = queues[e]
    BY <1>1, <1>7, <1>9 DEF Inv, TypeOK
  <1>12. /\ queues'[d] = Tail(queues[d]) /\ queues'[d] \in Seq(Handlers)
         /\ Len(queues'[d]) = Len(queues[d]) - 1
         /\ \A i \in 1..Len(queues'[d]) : queues'[d][i] = queues[d][i + 1]
    BY <1>2, <1>3, <1>7 DEF Inv, TypeOK
  <1>13. task' \in [Goroutines -> Tasks]
    BY <1>6, <1>7 DEF Inv, TypeOK
  <1>14. queues' \in [DBs -> Seq(Handlers)]
    BY <1>7, <1>12 DEF Inv, TypeOK
  <1>15. ControlOK'
    <2>1. \A u \in Goroutines : Steps(task'[u].op, task'[u].pc) /\ HasArguments(task'[u])
      BY <1>6, <1>9 DEF Inv, ControlOK
    <2>2. \A u \in Goroutines : task'[u].op = "job" => u \in DBs /\ task'[u].db = u
      BY <1>6, <1>9 DEF Inv, ControlOK
    <2>3. \A e \in DBs : task'[e].op \in {"none", "job"}
      BY <1>1, <1>6, <1>9 DEF Inv, ControlOK
    <2>4. ASSUME NEW e \in DBs, NEW i \in 1..Len(queues'[e])
          PROVE  /\ task'[queues'[e][i]].op = "write" /\ task'[queues'[e][i]].pc = "wait"
                 /\ task'[queues'[e][i]].db = e
      <3>1. PICK j \in 1..Len(queues[e]) : queues'[e][i] = queues[e][j]
        <4>1. CASE e = d
          <5>1. i \in 1..Len(queues'[d])
            BY <4>1
          <5>2. i + 1 \in 1..Len(queues[d]) /\ queues'[d][i] = queues[d][i + 1]
            BY <1>3, <1>12, <5>1
          <5> QED
            BY <4>1, <5>2
        <4>2. CASE e # d
          BY <1>11, <4>2
        <4> QED
          BY <4>1, <4>2
      <3>2. /\ task[queues[e][j]].op = "write" /\ task[queues[e][j]].pc = "wait"
            /\ task[queues[e][j]].db = e
        BY <3>1 DEF Inv, ControlOK, At
      <3>3. queues[e][j] \in Handlers
        BY <1>2, <3>1
      <3> QED
        BY <1>10, <3>1, <3>2, <3>3
    <2>5. \A g \in Handlers : task'[g].op \in {"exec", "commit", "rollback"} =>
             status'[task'[g].ses] # "unused"
      BY <1>10 DEF TakeJob, Inv, ControlOK
    <2>6. SessionsKept
      BY SessionsUnchanged DEF TakeJob
    <2> QED
      BY <2>1, <2>2, <2>3, <2>4, <2>5, <2>6 DEF SessionsKept, ControlOK, At
  <1>16. OneJobPerWaiter'
    <2>1. \A i, j \in 1..Len(queues[d]) : queues[d][i] = queues[d][j] => i = j
      BY DEF Inv, OneJobPerWaiter
    <2>2. \A i \in 1..Len(queues'[d]) : queues'[d][i] # h
      <3> SUFFICES ASSUME NEW i \in 1..Len(queues'[d]), queues'[d][i] = h PROVE FALSE
        OBVIOUS
      <3>1. i + 1 \in 1..Len(queues[d]) /\ queues[d][i + 1] = queues[d][1] /\ i \in Nat
        BY <1>3, <1>12
      <3>2. i + 1 = 1
        BY <1>3, <2>1, <3>1
      <3> QED
        BY <3>1, <3>2
    <2>3. \A e \in DBs : \A i, j \in 1..Len(queues'[e]) :
             queues'[e][i] = queues'[e][j] => i = j
      <3>1. \A i, j \in 1..Len(queues'[d]) : queues'[d][i] = queues'[d][j] => i = j
        BY <1>3, <1>12, <2>1
      <3>2. \A e \in DBs : e # d => \A i, j \in 1..Len(queues'[e]) :
               queues'[e][i] = queues'[e][j] => i = j
        BY <1>11 DEF Inv, OneJobPerWaiter
      <3> QED
        BY <3>1, <3>2
    <2>4. ASSUME NEW e \in DBs, task'[e].op = "job"
          PROVE  /\ task'[task'[e].from].op = "write" /\ task'[task'[e].from].pc = "wait"
                 /\ task'[task'[e].from].db = e
                 /\ \A i \in 1..Len(queues'[e]) : queues'[e][i] # task'[e].from
      <3>1. CASE e = d
        <4>1. task'[e].from = h
          BY <1>1, <1>6, <1>9, <3>1
        <4> QED
          BY <1>3, <1>4, <1>10, <2>2, <3>1, <4>1
      <3>2. CASE e # d
        <4>1. task'[e] = task[e] /\ queues'[e] = queues[e]
          BY <1>11, <3>2
        <4>2. task[e].op = "job"
          BY <2>4, <4>1
        <4>3. task[e].from \in Handlers
          BY <1>1, <4>2 DEF Inv, ControlOK, HasArguments
        <4>4. /\ task[task[e].from].op = "write" /\ task[task[e].from].pc = "wait"
              /\ task[task[e].from].db = e
              /\ \A i \in 1..Len(queues[e]) : queues[e][i] # task[e].from
          BY <4>2 DEF Inv, OneJobPerWaiter, At
        <4> QED
          BY <1>10, <4>1, <4>3, <4>4
      <3> QED
        BY <3>1, <3>2
    <2>5. ASSUME NEW g \in Handlers, task'[g].pc = "wait"
          PROVE  \/ \E i \in 1..Len(queues'[task'[g].db]) : queues'[task'[g].db][i] = g
                 \/ task'[task'[g].db].op = "job" /\ task'[task'[g].db].from = g
      <3> DEFINE e == task[g].db
      <3>1. task'[g] = task[g] /\ task[g].pc = "wait"
        BY <1>10, <2>5
      <3>2. e \in DBs
        BY <1>1, <3>1 DEF Inv, ControlOK, Steps, HasArguments
      <3>3. \/ \E i \in 1..Len(queues[e]) : queues[e][i] = g
            \/ task[e].op = "job" /\ task[e].from = g
        BY <3>1 DEF Inv, OneJobPerWaiter
      <3> HIDE DEF e
      <3>4. \/ \E i \in 1..Len(queues'[e]) : queues'[e][i] = g
            \/ task'[e].op = "job" /\ task'[e].from = g
        <4>1. CASE e # d
          <5>1. task'[e] = task[e] /\ queues'[e] = queues[e]
            BY <1>11, <3>2, <4>1
          <5> QED
            BY <3>3, <5>1
        <4>2. CASE e = d
          <5>1. PICK i \in 1..Len(queues[d]) : queues[d][i] = g
            BY <1>8, <3>3, <4>2
          <5>2. CASE i = 1
            BY <1>1, <1>3, <1>6, <1>9, <4>2, <5>1, <5>2
          <5>3. CASE i # 1
            <6>1. i - 1 \in 1..Len(queues'[d]) /\ queues'[d][i - 1] = g
              BY <1>3, <1>12, <5>1, <5>3
            <6> QED
              BY <4>2, <6>1
          <5> QED
            BY <5>2, <5>3
        <4> QED
          BY <4>1, <4>2
      <3> QED
        BY <3>1, <3>4 DEF e
    <2> QED
      BY <2>3, <2>4, <2>5 DEF OneJobPerWaiter, At
  <1> QED
    BY <1>13, <1>14, <1>15, <1>16 DEF TakeJob, Inv, TypeOK

\* The worker hands the result to the handler that waits for it.
LEMMA AnswerJobInv ==
    ASSUME Inv, NEW d \in DBs, AnswerJob(d)
    PROVE  Inv'
  <1> USE DEF leveldbVars, ipfsVars, txnVars, clientVars
  <1> DEFINE h == task[d].from
             k == [task[h] EXCEPT !.pc = "reply", !.res = task[d].res]
  <1>1. /\ d \in Goroutines /\ \A e \in DBs : e \in Goroutines
        /\ \A g \in Handlers : g \in Goroutines /\ g \notin DBs
    BY ConstantsAssumption DEF Goroutines
  <1>2. task[d].op = "job" /\ task[d].pc = "answer" /\ task[h].pc = "wait"
    BY DEF AnswerJob, At
  <1>3. h \in Handlers /\ task[d].res \in {"ok", "error"}
    BY <1>1, <1>2 DEF Inv, ControlOK, HasArguments
  <1>4. /\ task[h].op = "write" /\ task[h].db = d
        /\ \A i \in 1..Len(queues[d]) : queues[d][i] # h
    BY <1>2 DEF Inv, OneJobPerWaiter, At
  <1>5. task[h] \in Tasks /\ HasArguments(task[h])
    BY <1>1, <1>3 DEF Inv, TypeOK, ControlOK
  <1>6. /\ k \in Tasks /\ k.op = "write" /\ k.pc = "reply" /\ k.res = task[d].res
        /\ k.db = d /\ k.stmt = task[h].stmt
    BY <1>3, <1>4, <1>5, ZenonT(60) DEF Tasks, PCs
  <1>7. Steps(k.op, k.pc) /\ HasArguments(k)
    BY <1>3, <1>4, <1>5, <1>6 DEF Steps, HasArguments
  <1>8. task' = [task EXCEPT ![h] = k, ![d] = NoTask]
    BY DEF AnswerJob
  <1> HIDE DEF h, k
  <1>9. \A u \in Goroutines :
           task'[u] = IF u = d THEN NoTask ELSE IF u = h THEN k ELSE task[u]
    BY <1>8 DEF Inv, TypeOK
  <1>10. task' \in [Goroutines -> Tasks]
    BY <1>6, <1>8, NoTaskType DEF Inv, TypeOK
  <1>11. \A g \in Handlers : task'[g] = IF g = h THEN k ELSE task[g]
    BY <1>1, <1>9
  <1>12. \A e \in DBs : task'[e] = IF e = d THEN NoTask ELSE task[e]
    BY <1>1, <1>3, <1>9
  <1>13. \A e \in DBs : \A i \in 1..Len(queues[e]) :
           queues[e][i] \in Handlers /\ queues[e][i] # h
    BY <1>4 DEF Inv, TypeOK, ControlOK
  <1>14. NoTask.op = "none" /\ Steps(NoTask.op, NoTask.pc) /\ HasArguments(NoTask)
    BY DEF NoTask, Steps, HasArguments
  <1>15. ControlOK'
    <2>1. \A u \in Goroutines : Steps(task'[u].op, task'[u].pc) /\ HasArguments(task'[u])
      BY <1>7, <1>9, <1>14 DEF Inv, ControlOK
    <2>2. \A u \in Goroutines : task'[u].op = "job" => u \in DBs /\ task'[u].db = u
      BY <1>6, <1>9, <1>14 DEF Inv, ControlOK
    <2>3. \A e \in DBs : task'[e].op \in {"none", "job"}
      BY <1>12, <1>14 DEF Inv, ControlOK
    <2>4. \A e \in DBs : \A i \in 1..Len(queues[e]) :
             /\ task'[queues[e][i]].op = "write" /\ task'[queues[e][i]].pc = "wait"
             /\ task'[queues[e][i]].db = e
      BY <1>11, <1>13 DEF Inv, ControlOK, At
    <2>5. \A g \in Handlers : task'[g].op \in {"exec", "commit", "rollback"} =>
             status[task'[g].ses] # "unused"
      BY <1>6, <1>11 DEF Inv, ControlOK
    <2>6. SessionsKept /\ UNCHANGED <<status, queues>>
      BY SessionsUnchanged DEF AnswerJob
    <2> QED
      BY <2>1, <2>2, <2>3, <2>4, <2>5, <2>6 DEF SessionsKept, ControlOK, At
  <1>16. OneJobPerWaiter'
    <2>1. ASSUME NEW e \in DBs, task'[e].op = "job"
          PROVE  /\ task'[task'[e].from].op = "write" /\ task'[task'[e].from].pc = "wait"
                 /\ task'[task'[e].from].db = e
                 /\ \A i \in 1..Len(queues[e]) : queues[e][i] # task'[e].from
      <3>1. e # d /\ task'[e] = task[e]
        BY <1>12, <1>14, <2>1
      <3>2. task[e].from \in Handlers
        BY <1>1, <2>1, <3>1 DEF Inv, ControlOK, HasArguments
      <3>3. /\ task[task[e].from].op = "write" /\ task[task[e].from].pc = "wait"
            /\ task[task[e].from].db = e
            /\ \A i \in 1..Len(queues[e]) : queues[e][i] # task[e].from
        BY <2>1, <3>1 DEF Inv, OneJobPerWaiter, At
      <3>4. task[e].from # h
        BY <1>4, <3>1, <3>3
      <3> QED
        BY <1>11, <3>1, <3>2, <3>3, <3>4
    <2>2. ASSUME NEW g \in Handlers, task'[g].pc = "wait"
          PROVE  \/ \E i \in 1..Len(queues[task'[g].db]) : queues[task'[g].db][i] = g
                 \/ task'[task'[g].db].op = "job" /\ task'[task'[g].db].from = g
      <3>1. g # h /\ task'[g] = task[g] /\ task[g].pc = "wait"
        BY <1>6, <1>11, <2>2
      <3>2. task[g].db \in DBs
        BY <1>1, <3>1 DEF Inv, ControlOK, Steps, HasArguments
      <3>3. \/ \E i \in 1..Len(queues[task[g].db]) : queues[task[g].db][i] = g
            \/ task[task[g].db].op = "job" /\ task[task[g].db].from = g
        BY <3>1 DEF Inv, OneJobPerWaiter
      <3>4. ASSUME task[task[g].db].op = "job", task[task[g].db].from = g
            PROVE  task'[task[g].db] = task[task[g].db]
        BY <1>12, <3>1, <3>2, <3>4 DEF h
      <3> QED
        BY <3>1, <3>3, <3>4
    <2>3. \A e \in DBs : \A i, j \in 1..Len(queues[e]) : queues[e][i] = queues[e][j] => i = j
      BY DEF Inv, OneJobPerWaiter
    <2>4. UNCHANGED queues
      BY DEF AnswerJob
    <2> QED
      BY <2>1, <2>2, <2>3, <2>4 DEF OneJobPerWaiter, At
  <1> QED
    BY <1>10, <1>15, <1>16 DEF AnswerJob, Inv, TypeOK

-----------------------------------------------------------------------------
(* Transactions, creation and deletion *)

\* What a handler has at hand in a step of HandlerStep.
LEMMA Handling ==
    ASSUME Inv, NEW h \in Handlers, task[h].pc \notin {"idle", "wait"}
    PROVE  /\ h \in Goroutines /\ task[h] \in Tasks /\ HasArguments(task[h])
           /\ task[h].op \in {"exec", "commit", "rollback"} =>
                 /\ task[h].ses \in Sessions
                 /\ status[task[h].ses] # "unused"
                 /\ txn[task[h].ses].db \in DBs /\ txn[task[h].ses].ver \in Versions
  <1>1. h \in Goroutines
    BY DEF Goroutines
  <1>2. /\ task[h] \in Tasks /\ HasArguments(task[h])
        /\ task[h].op \in {"exec", "commit", "rollback"} =>
              task[h].ses \in Sessions /\ status[task[h].ses] # "unused"
    BY <1>1, Running
  <1> QED
    BY <1>1, <1>2 DEF Inv, ControlOK

\* A session that ends stays one that was opened.
LEMMA SessionEnds ==
    ASSUME Inv, NEW s \in Sessions, NEW st \in Statuses \ {"unused"},
           status[s] # "unused", status' = [status EXCEPT ![s] = st], UNCHANGED txn
    PROVE  SessionsKept /\ status' \in [Sessions -> Statuses]
  <1>1. \A r \in Sessions : status'[r] = IF r = s THEN st ELSE status[r]
    BY DEF Inv, TypeOK
  <1>2. SessionsKept
    BY <1>1 DEF SessionsKept, Inv, ControlOK
  <1>3. status' \in [Sessions -> Statuses]
    BY DEF Inv, TypeOK
  <1> QED
    BY <1>2, <1>3

\* FindQueue, LockForBegin and LookUpTransaction only move the handler on.
LEMMA MoveInv ==
    ASSUME Inv, NEW h \in Handlers,
           FindQueue(h) \/ LockForBegin(h) \/ LookUpTransaction(h)
    PROVE  Inv'
  <1> USE DEF leveldbVars, ipfsVars, txnVars, clientVars
  <1>1. UNCHANGED <<status, txn, queues>>
    BY DEF FindQueue, LockForBegin, LookUpTransaction
  <1>2. SessionsKept
    BY <1>1, SessionsUnchanged
  <1>3. task[h].pc \in {"dispatch", "lock", "lookup"} /\ h \in Goroutines
    BY DEF FindQueue, LockForBegin, LookUpTransaction, At, Goroutines
  <1>4. "enqueue" \in PCs /\ "load" \in PCs /\ "run" \in PCs
    BY DEF PCs
  <1>5. CASE FindQueue(h)
    <2>1. Steps(task[h].op, "enqueue")
      BY <1>5 DEF FindQueue, At, Steps
    <2>2. TasksOK'
      BY <1>1, <1>2, <1>3, <1>4, <1>5, <2>1, GotoStep DEF FindQueue
    <2> QED
      BY <1>5, <2>2 DEF FindQueue, TasksOK, Inv, TypeOK
  <1>6. CASE LockForBegin(h)
    <2>1. Steps(task[h].op, "load")
      BY <1>6 DEF LockForBegin, At, Steps
    <2>2. TasksOK'
      BY <1>1, <1>2, <1>3, <1>4, <1>6, <2>1, GotoStep DEF LockForBegin
    <2> QED
      BY <1>6, <2>2 DEF LockForBegin, TasksOK, Inv, TypeOK
  <1>7. CASE LookUpTransaction(h)
    <2>1. Steps(task[h].op, "run")
      BY <1>7 DEF LookUpTransaction, At, Steps
    <2>2. CASE Goto(h, "run") /\ UNCHANGED dmu
      <3>1. TasksOK'
        BY <1>1, <1>2, <1>3, <1>4, <2>1, <2>2, GotoStep
      <3> QED
        BY <1>7, <2>2, <3>1 DEF LookUpTransaction, TasksOK, Inv, TypeOK
    <2>3. CASE Return(h, "error")
      <3>1. TasksOK' /\ dmu' \in Handlers \cup {None}
        BY <1>1, <1>2, <1>3, <2>3, ReturnStep
      <3> QED
        BY <1>7, <3>1 DEF LookUpTransaction, TasksOK, Inv, TypeOK
    <2> QED
      BY <1>7, <2>2, <2>3 DEF LookUpTransaction
  <1> QED
    BY <1>5, <1>6, <1>7

LEMMA OpenTransactionInv ==
    ASSUME Inv, NEW h \in Handlers, OpenTransaction(h)
    PROVE  Inv'
  <1> USE DEF leveldbVars, ipfsVars, txnVars, clientVars
  <1> DEFINE s == task[h].ses
             x == [db |-> task[h].db, ver |-> task[h].ver, mu |-> None]
  <1>1. task[h].op = "begin" /\ task[h].pc = "loaded"
    BY DEF OpenTransaction, At
  <1>2. /\ h \in Goroutines /\ s \in Sessions
        /\ task[h].db \in DBs /\ task[h].ver \in Versions
    BY <1>1, Handling DEF HasArguments
  <1>3. x \in Txns /\ x.db \in DBs /\ x.ver \in Versions
    BY <1>2 DEF Txns, CIDs
  <1>4. status' = [status EXCEPT ![s] = "active"] /\ txn' = [txn EXCEPT ![s] = x]
    BY DEF OpenTransaction
  <1> HIDE DEF s, x
  <1>5. /\ \A r \in Sessions : status'[r] = IF r = s THEN "active" ELSE status[r]
        /\ \A r \in Sessions : txn'[r] = IF r = s THEN x ELSE txn[r]
    <2>1. \A r \in Sessions : status'[r] = IF r = s THEN "active" ELSE status[r]
      BY <1>4 DEF Inv, TypeOK
    <2>2. \A r \in Sessions : txn'[r] = IF r = s THEN x ELSE txn[r]
      BY <1>4 DEF Inv, TypeOK
    <2> QED
      BY <2>1, <2>2
  <1>6. SessionsKept
    <2>1. \A r \in Sessions : status[r] # "unused" => txn[r].db \in DBs /\ txn[r].ver \in Versions
      BY DEF Inv, ControlOK
    <2>2. ASSUME NEW r \in Sessions, status'[r] # "unused"
          PROVE  txn'[r].db \in DBs /\ txn'[r].ver \in Versions
      BY <1>3, <1>5, <2>1, <2>2
    <2>3. \A r \in Sessions : status[r] # "unused" => status'[r] # "unused"
      BY <1>5
    <2> QED
      BY <2>2, <2>3 DEF SessionsKept
  <1>7. status' \in [Sessions -> Statuses] /\ txn' \in [Sessions -> Txns]
    <2>1. "active" \in Statuses
      BY DEF Statuses
    <2>2. status \in [Sessions -> Statuses] /\ txn \in [Sessions -> Txns]
      BY DEF Inv, TypeOK
    <2> QED
      BY <1>3, <1>4, <2>1, <2>2
  <1>8. TasksOK' /\ dmu' \in Handlers \cup {None}
    BY <1>1, <1>2, <1>6, ReturnStep DEF OpenTransaction
  <1> QED
    BY <1>7, <1>8 DEF OpenTransaction, TasksOK, Inv, TypeOK

LEMMA RunInTransactionInv ==
    ASSUME Inv, NEW h \in Handlers, RunInTransaction(h)
    PROVE  Inv'
  <1> USE DEF leveldbVars, ipfsVars, txnVars, clientVars
  <1> DEFINE s == task[h].ses
             new == Execute(txn[s].ver, task[h].stmt)
  <1>1. task[h].op = "exec" /\ task[h].pc = "run"
    BY DEF RunInTransaction, At
  <1>2. /\ h \in Goroutines /\ s \in Sessions /\ task[h].stmt \in Writes
        /\ txn[s].db \in DBs /\ txn[s].ver \in Versions
    BY <1>1, Handling DEF HasArguments
  <1>3. new \in Versions /\ new \in CIDs
    BY <1>2, ExecuteType DEF CIDs
  <1>4. \/ SetState(s, new) /\ Return(h, "ok")
        \/ Return(h, "error") /\ UNCHANGED <<cache, txn>>
    BY Zenon DEF RunInTransaction
  <1>5. UNCHANGED <<registry, faults, ipfsVars, queues, status, saved, clientVars, crashes>>
    BY Zenon DEF RunInTransaction
  <1> HIDE DEF new
  <1>8. (txn' = [txn EXCEPT ![s].ver = new] \/ UNCHANGED txn) /\ UNCHANGED cache
    BY <1>4 DEF SetState
  <1> HIDE DEF s
  <1>6. txn' \in [Sessions -> Txns] /\ SessionsKept
    <2>1. CASE txn' = [txn EXCEPT ![s].ver = new]
      <3>1. txn[s] \in Txns
        BY <1>2 DEF Inv, TypeOK
      <3>2. \A r \in Sessions : txn'[r] = IF r = s THEN [txn[s] EXCEPT !.ver = new] ELSE txn[r]
        BY <1>2, <2>1 DEF Inv, TypeOK
      <3>3. /\ [txn[s] EXCEPT !.ver = new] \in Txns
            /\ [txn[s] EXCEPT !.ver = new].db = txn[s].db
            /\ [txn[s] EXCEPT !.ver = new].ver = new
        BY <1>3, <3>1 DEF Txns
      <3>4. txn' \in [Sessions -> Txns]
        BY <2>1, <3>1, <3>3 DEF Inv, TypeOK
      <3>5. \A r \in Sessions : status[r] # "unused" => txn'[r].db \in DBs /\ txn'[r].ver \in Versions
        BY <1>2, <1>3, <3>2, <3>3 DEF Inv, ControlOK
      <3> QED
        BY <1>5, <3>4, <3>5 DEF SessionsKept
    <2>2. CASE UNCHANGED txn
      BY <1>5, <2>2, SessionsUnchanged DEF Inv, TypeOK
    <2> QED
      BY <1>8, <2>1, <2>2
  <1>7. TasksOK' /\ dmu' \in Handlers \cup {None}
    <2>1. CASE Return(h, "ok")
      BY <1>1, <1>2, <1>5, <1>6, <2>1, ReturnStep
    <2>2. CASE Return(h, "error")
      BY <1>1, <1>2, <1>5, <1>6, <2>2, ReturnStep
    <2> QED
      BY <1>4, <2>1, <2>2
  <1> QED
    BY <1>5, <1>6, <1>7, <1>8 DEF TasksOK, Inv, TypeOK

\* COMMIT and ROLLBACK take the session out of the map.
LEMMA RemovalInv ==
    ASSUME Inv, NEW h \in Handlers, TakeForCommit(h) \/ RollbackTransaction(h)
    PROVE  Inv'
  <1> USE DEF leveldbVars, ipfsVars, txnVars, clientVars
  <1> DEFINE s == task[h].ses
  <1>1. task[h].op \in {"commit", "rollback"} /\ task[h].pc \in {"take", "discard"}
    BY DEF TakeForCommit, RollbackTransaction, At
  <1>2. h \in Goroutines /\ s \in Sessions /\ status[s] # "unused"
    BY <1>1, Handling
  <1>3. UNCHANGED <<txn, queues>>
    BY DEF TakeForCommit, RollbackTransaction
  <1>4. \/ status' = [status EXCEPT ![s] = "committing"]
        \/ status' = [status EXCEPT ![s] = "rolledback"]
        \/ UNCHANGED status
    BY DEF TakeForCommit, RollbackTransaction, RemoveFromMap
  <1>5. SessionsKept /\ status' \in [Sessions -> Statuses]
    <2>1. CASE UNCHANGED status
      BY <1>3, <2>1, SessionsUnchanged DEF Inv, TypeOK
    <2>2. CASE status' = [status EXCEPT ![s] = "committing"]
      BY <1>2, <1>3, <2>2, SessionEnds DEF Statuses
    <2>3. CASE status' = [status EXCEPT ![s] = "rolledback"]
      BY <1>2, <1>3, <2>3, SessionEnds DEF Statuses
    <2> QED
      BY <1>4, <2>1, <2>2, <2>3
  <1>6. TasksOK' /\ dmu' \in Handlers \cup {None}
    <2>1. CASE Return(h, "ok")
      BY <1>1, <1>2, <1>3, <1>5, <2>1, ReturnStep
    <2>2. CASE Return(h, "error")
      BY <1>1, <1>2, <1>3, <1>5, <2>2, ReturnStep
    <2>3. CASE TakeForCommit(h) /\ Goto(h, "commitAdd") /\ UNCHANGED dmu
      <3>1. "commitAdd" \in PCs /\ Steps(task[h].op, "commitAdd")
        BY <2>3 DEF TakeForCommit, At, PCs, Steps
      <3>2. TasksOK'
        BY <1>1, <1>2, <1>3, <1>5, <2>3, <3>1, GotoStep
      <3> QED
        BY <2>3, <3>2 DEF Inv, TypeOK
    <2> QED
      BY <2>1, <2>2, <2>3 DEF TakeForCommit, RollbackTransaction
  <1> QED
    BY <1>5, <1>6 DEF TakeForCommit, RollbackTransaction, TasksOK, Inv, TypeOK

LEMMA CommitAddInv ==
    ASSUME Inv, NEW h \in Handlers, CommitAdd(h)
    PROVE  Inv'
  <1> USE DEF leveldbVars, ipfsVars, txnVars, clientVars
  <1> DEFINE s == task[h].ses
             v == txn[s].ver
  <1>1. task[h].op = "commit" /\ task[h].pc = "commitAdd"
    BY DEF CommitAdd, At
  <1>2. /\ h \in Goroutines /\ s \in Sessions /\ status[s] # "unused"
        /\ txn[s].db \in DBs /\ v \in Versions
    BY <1>1, Handling
  <1>3. /\ UNCHANGED <<cache, registry, faults, keys, ipns, publishes, queues,
                       outcome, target, keyHolders, crashes>>
        /\ \/ /\ AddObject(v) /\ saved' = [saved EXCEPT ![s] = v]
              /\ txn' = [txn EXCEPT ![s].mu = h] /\ GotoWith(h, "commitStore", v)
              /\ UNCHANGED <<status, dmu>>
           \/ /\ status' = [status EXCEPT ![s] = "failed"] /\ Return(h, "error")
              /\ UNCHANGED <<objects, saved, txn>>
    BY DEF CommitAdd
  <1> HIDE DEF v, s
  <1>4. CASE /\ AddObject(v) /\ saved' = [saved EXCEPT ![s] = v]
             /\ txn' = [txn EXCEPT ![s].mu = h] /\ GotoWith(h, "commitStore", v)
             /\ UNCHANGED <<status, dmu>>
    <2>1. txn' \in [Sessions -> Txns] /\ SessionsKept
      <3>1. \A r \in Sessions : txn[r] \in Txns
        BY DEF Inv, TypeOK
      <3>2. \A r \in Sessions : txn'[r] = IF r = s THEN [txn[s] EXCEPT !.mu = h] ELSE txn[r]
        BY <1>2, <1>4 DEF Inv, TypeOK
      <3>3. /\ [txn[s] EXCEPT !.mu = h] \in Txns
            /\ [txn[s] EXCEPT !.mu = h].db = txn[s].db
            /\ [txn[s] EXCEPT !.mu = h].ver = txn[s].ver
        BY <1>2, <3>1 DEF Txns
      <3>4. txn' \in [Sessions -> Txns]
        BY <1>4, <3>3, <1>2 DEF Inv, TypeOK
      <3>5. \A r \in Sessions : txn'[r].db = txn[r].db /\ txn'[r].ver = txn[r].ver
        BY <3>2, <3>3
      <3> QED
        BY <1>4, <3>4, <3>5 DEF SessionsKept, Inv, ControlOK
    <2>2. "commitStore" \in PCs /\ Steps(task[h].op, "commitStore")
      BY <1>1 DEF PCs, Steps
    <2>3. TasksOK'
      BY <1>1, <1>2, <1>3, <1>4, <2>1, <2>2, GotoWithStep
    <2>4. objects' \subseteq Versions /\ saved' \in [Sessions -> CIDs]
      BY <1>2, <1>4 DEF AddObject, Inv, TypeOK, CIDs
    <2> QED
      BY <1>3, <1>4, <2>1, <2>3, <2>4 DEF TasksOK, Inv, TypeOK
  <1>5. CASE /\ status' = [status EXCEPT ![s] = "failed"] /\ Return(h, "error")
             /\ UNCHANGED <<objects, saved, txn>>
    <2>1. SessionsKept /\ status' \in [Sessions -> Statuses]
      BY <1>2, <1>5, SessionEnds DEF Statuses
    <2>2. TasksOK' /\ dmu' \in Handlers \cup {None}
      BY <1>1, <1>2, <1>3, <1>5, <2>1, ReturnStep
    <2> QED
      BY <1>3, <1>5, <2>1, <2>2 DEF TasksOK, Inv, TypeOK
  <1> QED
    BY <1>3, <1>4, <1>5

LEMMA CommitStoreInv ==
    ASSUME Inv, NEW h \in Handlers, CommitStore(h)
    PROVE  Inv'
  <1> USE DEF leveldbVars, ipfsVars, txnVars, clientVars
  <1> DEFINE s == task[h].ses
             d == txn[s].db
             v == task[h].ver
  <1>1. task[h].op = "commit" /\ task[h].pc = "commitStore"
    BY DEF CommitStore, At
  <1>2. /\ h \in Goroutines /\ s \in Sessions /\ status[s] # "unused"
        /\ d \in DBs /\ v \in Versions
    BY <1>1, Handling DEF HasArguments
  <1>3. /\ UpdateCache(d, v) /\ Spawn(d, v, s)
        /\ txn' = [txn EXCEPT ![s].mu = None]
        /\ status' = [status EXCEPT ![s] = "committed"]
        /\ Return(h, "ok")
        /\ UNCHANGED <<registry, keys, ipns, objects, queues, saved, outcome, target,
                       keyHolders, crashes>>
    BY DEF CommitStore, Unlock
  <1> HIDE DEF v, s, d
  <1>4. txn' \in [Sessions -> Txns] /\ status' \in [Sessions -> Statuses] /\ SessionsKept
    <2>1. \A r \in Sessions : txn[r] \in Txns
      BY DEF Inv, TypeOK
    <2>2. \A r \in Sessions : txn'[r] = IF r = s THEN [txn[s] EXCEPT !.mu = None] ELSE txn[r]
      BY <1>2, <1>3 DEF Inv, TypeOK
    <2>3. /\ [txn[s] EXCEPT !.mu = None] \in Txns
          /\ [txn[s] EXCEPT !.mu = None].db = txn[s].db
          /\ [txn[s] EXCEPT !.mu = None].ver = txn[s].ver
      BY <1>2, <2>1 DEF Txns
    <2>4. txn' \in [Sessions -> Txns]
      BY <1>2, <1>3, <2>3 DEF Inv, TypeOK
    <2>5. \A r \in Sessions : txn'[r].db = txn[r].db /\ txn'[r].ver = txn[r].ver
      BY <2>2, <2>3
    <2>6. \A r \in Sessions : status'[r] = IF r = s THEN "committed" ELSE status[r]
      BY <1>2, <1>3 DEF Inv, TypeOK
    <2>7. status' \in [Sessions -> Statuses]
      BY <1>3 DEF Inv, TypeOK, Statuses
    <2>8. \A r \in Sessions : (status[r] # "unused") = (status'[r] # "unused")
      BY <1>2, <2>6
    <2> QED
      BY <2>4, <2>5, <2>7, <2>8 DEF SessionsKept, Inv, ControlOK
  <1>5. TasksOK' /\ dmu' \in Handlers \cup {None}
    BY <1>1, <1>2, <1>3, <1>4, ReturnStep
  <1>6. cache' \in [DBs -> CIDs] /\ faults' \in 0..MaxCacheFaults
    BY <1>2, <1>3, UpdateCacheType DEF CIDs, Inv, TypeOK
  <1>7. publishes' \subseteq Publications
    BY <1>2, <1>3, PublicationType DEF Inv, TypeOK
  <1> QED
    BY <1>3, <1>4, <1>5, <1>6, <1>7 DEF TasksOK, Inv, TypeOK

LEMMA CreateDeleteInv ==
    ASSUME Inv, NEW h \in Handlers,
           GenerateKey(h) \/ Register(h) \/ CacheNew(h) \/ DeleteDatabase(h)
    PROVE  Inv'
  <1> USE DEF leveldbVars, ipfsVars, txnVars, clientVars
  <1> DEFINE d == task[h].db
             v == task[h].ver
  <1>1. /\ UNCHANGED <<status, txn, queues>>
        /\ task[h].pc \in {"keygen", "register", "cacheNew", "unregister"}
        /\ task[h].op \in {"create", "delete"}
    BY DEF GenerateKey, Register, CacheNew, DeleteDatabase, At
  <1>2. SessionsKept
    BY <1>1, SessionsUnchanged
  <1>3. h \in Goroutines /\ d \in DBs
    BY <1>1, Handling DEF HasArguments
  <1>4. task[h].pc # "unregister" => v \in Versions
    BY <1>1, Handling DEF HasArguments
  <1>5. ASSUME NEW r \in {"ok", "error"}, Return(h, r)
        PROVE  TasksOK' /\ dmu' \in Handlers \cup {None}
    BY <1>1, <1>2, <1>3, <1>5, ReturnStep
  <1> HIDE DEF d, v
  <1>6. CASE GenerateKey(h)
    <2>1. /\ task[h].pc = "keygen" /\ task[h].op = "create" /\ objects' = objects \cup {v}
          /\ UNCHANGED <<cache, registry, faults, ipns, saved, outcome, target, keyHolders,
                         crashes>>
          /\ \/ Return(h, "error") /\ UNCHANGED <<keys, publishes>>
             \/ /\ keys' = keys \cup {d} /\ Spawn(d, v, d)
                /\ Goto(h, "register") /\ UNCHANGED dmu
      BY <1>6 DEF GenerateKey, At, AddObject, d, v
    <2>2. objects' \subseteq Versions
      BY <1>4, <2>1 DEF Inv, TypeOK
    <2>3. CASE Return(h, "error") /\ UNCHANGED <<keys, publishes>>
      BY <1>1, <1>5, <2>1, <2>2, <2>3 DEF TasksOK, Inv, TypeOK
    <2>4. CASE /\ keys' = keys \cup {d} /\ Spawn(d, v, d)
               /\ Goto(h, "register") /\ UNCHANGED dmu
      <3>1. publishes' \subseteq Publications
        BY <1>3, <1>4, <2>1, <2>4, PublicationType DEF Inv, TypeOK
      <3>2. "register" \in PCs /\ Steps(task[h].op, "register")
        BY <2>1 DEF PCs, Steps
      <3>3. TasksOK'
        BY <1>1, <1>2, <1>3, <1>4, <2>1, <2>4, <3>2, GotoStep DEF v
      <3>4. keys' \subseteq DBs
        BY <1>3, <2>4 DEF Inv, TypeOK
      <3> QED
        BY <1>1, <2>1, <2>2, <2>4, <3>1, <3>3, <3>4 DEF TasksOK, Inv, TypeOK
    <2> QED
      BY <2>1, <2>3, <2>4
  <1>7. CASE Register(h)
    <2>1. "cacheNew" \in PCs /\ Steps(task[h].op, "cacheNew") /\ task[h].pc = "register"
      BY <1>7 DEF Register, At, PCs, Steps
    <2>2. TasksOK'
      BY <1>1, <1>2, <1>3, <1>4, <1>7, <2>1, GotoStep DEF Register, v
    <2>3. registry' \subseteq DBs
      BY <1>3, <1>7 DEF Register, d, Inv, TypeOK
    <2> QED
      BY <1>7, <2>2, <2>3 DEF Register, TasksOK, Inv, TypeOK
  <1>8. CASE CacheNew(h)
    <2>1. UpdateCache(d, v) /\ Return(h, "ok") /\ task[h].pc = "cacheNew"
      BY <1>8 DEF CacheNew, At, d, v
    <2>2. cache' \in [DBs -> CIDs] /\ faults' \in 0..MaxCacheFaults
      BY <1>3, <1>4, <2>1, UpdateCacheType DEF CIDs, Inv, TypeOK
    <2> QED
      BY <1>5, <1>8, <2>1, <2>2 DEF CacheNew, TasksOK, Inv, TypeOK
  <1>9. CASE DeleteDatabase(h)
    <2>1. registry' \subseteq DBs
      BY <1>9 DEF DeleteDatabase, Inv, TypeOK
    <2> QED
      BY <1>5, <1>9, <2>1 DEF DeleteDatabase, TasksOK, Inv, TypeOK
  <1> QED
    BY <1>6, <1>7, <1>8, <1>9

-----------------------------------------------------------------------------
(* The steps of no call, and the theorems *)

\* A step that leaves the goroutines, queues and sessions alone.
LEMMA TasksUnchanged ==
    ASSUME Inv, UNCHANGED <<task, queues>>, SessionsKept
    PROVE  TasksOK'
  <1>1. \A h \in Handlers : task[h].op \in {"exec", "commit", "rollback"} =>
           status'[task[h].ses] # "unused"
    <2> SUFFICES ASSUME NEW h \in Handlers, task[h].op \in {"exec", "commit", "rollback"}
                 PROVE  status'[task[h].ses] # "unused"
      OBVIOUS
    <2>1. task[h].ses \in Sessions /\ status[task[h].ses] # "unused"
      BY DEF Inv, ControlOK, HasArguments, Goroutines
    <2> QED
      BY <2>1 DEF SessionsKept
  <1>2. \A s \in Sessions : status'[s] # "unused" =>
           txn'[s].db \in DBs /\ txn'[s].ver \in Versions
    BY DEF SessionsKept
  <1>3. ControlOK'
    BY <1>1, <1>2 DEF Inv, ControlOK, At
  <1>4. OneJobPerWaiter'
    BY DEF Inv, OneJobPerWaiter, At
  <1> QED
    BY <1>3, <1>4 DEF Inv, TypeOK, TasksOK

LEMMA BackgroundInv ==
    ASSUME Inv, \/ \E s \in Sessions : CleanupStale(s)
                \/ \E p \in publishes : FindEntry(p) \/ Publish(p) \/ PublishFails(p)
    PROVE  Inv'
  <1> USE DEF leveldbVars, ipfsVars, txnVars, clientVars
  <1>1. ASSUME NEW s \in Sessions, CleanupStale(s) PROVE Inv'
    <2>1. status' = [status EXCEPT ![s] = "expired"] /\ UNCHANGED txn /\ status[s] = "active"
      BY <1>1 DEF CleanupStale, RemoveFromMap
    <2>2. SessionsKept /\ status' \in [Sessions -> Statuses]
      BY <2>1, SessionEnds DEF Statuses
    <2>3. TasksOK'
      BY <1>1, <2>2, TasksUnchanged DEF CleanupStale
    <2> QED
      BY <1>1, <2>2, <2>3 DEF CleanupStale, TasksOK, Inv, TypeOK
  <1>2. ASSUME NEW p \in publishes, FindEntry(p) \/ Publish(p) \/ PublishFails(p) PROVE Inv'
    <2>1. TasksOK'
      BY <1>2, SessionsUnchanged, TasksUnchanged DEF FindEntry, Publish, PublishFails
    <2>2. p.db \in DBs /\ p.ver \in Versions
      BY DEF Inv, TypeOK, Publications
    <2>3. ipns' \in [DBs -> CIDs] /\ publishes' \subseteq Publications
      BY <1>2, <2>2, PublicationStep DEF FindEntry, Publish, PublishFails, Inv, TypeOK, CIDs
    <2> QED
      BY <1>2, <2>1, <2>3 DEF FindEntry, Publish, PublishFails, TasksOK, Inv, TypeOK
  <1> QED
    BY <1>1, <1>2

LEMMA CrashInv ==
    ASSUME Inv, Crash
    PROVE  Inv'
  <1> USE DEF leveldbVars
  <1>1. crashes' \in 0..MaxCrashes
    BY ConstantsAssumption DEF Crash, Inv, TypeOK
  <1>2. task' \in [Goroutines -> Tasks] /\ \A t \in Goroutines : task'[t] = NoTask
    BY NoTaskType DEF Crash
  <1>3. queues' \in [DBs -> Seq(Handlers)] /\ \A d \in DBs : Len(queues'[d]) = 0
    BY DEF Crash
  <1>4. /\ status' \in [Sessions -> Statuses]
        /\ \A s \in Sessions : (status'[s] # "unused") = (status[s] # "unused")
    BY DEF Crash, Inv, TypeOK, Statuses
  <1>5. /\ txn' \in [Sessions -> Txns]
        /\ \A s \in Sessions : txn'[s].db = txn[s].db /\ txn'[s].ver = txn[s].ver
    <2> DEFINE free(s) == [txn[s] EXCEPT !.mu = None]
    <2>1. \A s \in Sessions : txn[s] \in Txns
      BY DEF Inv, TypeOK
    <2>2. \A s \in Sessions : /\ free(s) \in Txns
                              /\ free(s).db = txn[s].db /\ free(s).ver = txn[s].ver
      BY <2>1 DEF Txns
    <2>3. txn' = [s \in Sessions |-> free(s)]
      BY DEF Crash
    <2> HIDE DEF free
    <2> QED
      BY <2>2, <2>3
  <1>6. outcome' \in [Statements -> {"unsent", "pending", "ok", "error", "unknown"}]
    BY DEF Crash, Inv, TypeOK
  <1>7. publishes' \subseteq Publications /\ dmu' \in Handlers \cup {None}
    BY DEF Crash
  <1>8. ControlOK'
    <2>1. \A t \in Goroutines : Steps(task'[t].op, task'[t].pc) /\ HasArguments(task'[t])
      BY <1>2 DEF NoTask, Steps, HasArguments
    <2>2. \A t \in Goroutines : task'[t].op = "none"
      BY <1>2 DEF NoTask
    <2>3. \A s \in Sessions : status'[s] # "unused" =>
             txn'[s].db \in DBs /\ txn'[s].ver \in Versions
      BY <1>4, <1>5 DEF Inv, ControlOK
    <2> QED
      BY <1>3, <2>1, <2>2, <2>3 DEF ControlOK, Goroutines
  <1>9. OneJobPerWaiter'
    BY <1>2, <1>3 DEF OneJobPerWaiter, Goroutines, NoTask
  <1> QED
    BY <1>1, <1>2, <1>3, <1>4, <1>5, <1>6, <1>7, <1>8, <1>9 DEF Crash, Inv, TypeOK

\* Every step of the server preserves the inductive invariant.
LEMMA NextInv == Inv /\ [Next]_vars => Inv'
  <1> SUFFICES ASSUME Inv, [Next]_vars PROVE Inv'
    OBVIOUS
  <1>1. CASE UNCHANGED vars
    <2>1. UNCHANGED <<cache, registry, faults, keys, ipns, objects, publishes, queues,
                      task, dmu, status, txn, saved, outcome, target, keyHolders, crashes>>
      BY <1>1 DEF vars, leveldbVars, ipfsVars, txnVars, clientVars
    <2>2. TasksOK'
      BY <2>1, SessionsUnchanged, TasksUnchanged
    <2> QED
      BY <2>1, <2>2 DEF TasksOK, Inv, TypeOK
  <1>2. ASSUME NEW h \in Handlers, Arrival(h) \/ HandlerStep(h) PROVE Inv'
    BY <1>2, ArrivalInv, ReplyInv, MoveInv, EnqueueInv, OpenTransactionInv,
       RunInTransactionInv, RemovalInv, CommitAddInv, CommitStoreInv, CreateDeleteInv
    DEF HandlerStep
  <1>3. ASSUME NEW d \in DBs, WorkerStep(d) PROVE Inv'
    BY <1>3, TakeJobInv, WorkerInv, AnswerJobInv DEF WorkerStep
  <1>4. ASSUME NEW t \in Goroutines, Load(t) PROVE Inv'
    BY <1>4, LoadInv
  <1>5. CASE \/ \E s \in Sessions : CleanupStale(s)
             \/ \E p \in publishes : FindEntry(p) \/ Publish(p) \/ PublishFails(p)
    BY <1>5, BackgroundInv
  <1>6. CASE Crash
    BY <1>6, CrashInv
  <1> QED
    BY <1>1, <1>2, <1>3, <1>4, <1>5, <1>6 DEF Next

\* Inv holds throughout, whatever the number of handlers, databases, sessions
\* and statements, the queue's capacity and the number of crashes.
THEOREM Invariance == Spec => []Inv
  <1> QED
    BY InitInv, NextInv, PTL DEF Spec

\* Every variable keeps its type: statements only ever run on database
\* versions, and a queue only ever holds handlers.
THEOREM TypeCorrect == Spec => []TypeOK
  <1>1. Inv => TypeOK
    BY DEF Inv
  <1> QED
    BY <1>1, Invariance, PTL

\* No goroutine runs into a step of its call without what the step needs, and
\* a session's transaction always has a database, however calls interleave.
THEOREM ControlCorrect == Spec => []ControlOK
  <1>1. Inv => ControlOK
    BY DEF Inv
  <1> QED
    BY <1>1, Invariance, PTL

\* Each handler blocked in Dispatch has exactly one job, in the channel or
\* with the worker, and each job a handler that waits: Dispatcher.worker
\* answers every job once and is never left with an answer nobody takes.
THEOREM OneAnswer == Spec => []OneJobPerWaiter
  <1>1. Inv => OneJobPerWaiter
    BY DEF Inv
  <1> QED
    BY <1>1, Invariance, PTL

-----------------------------------------------------------------------------
(* Pointers: nothing is referenced before it is stored *)

\* The program counters at which a goroutine is about to write its version
\* to a pointer.
Writing == {"fill", "store", "commitStore", "register", "cacheNew"}

PointersStored ==
    /\ \A d \in DBs : cache[d] \in objects \cup {None} /\ ipns[d] \in objects \cup {None}
    /\ \A p \in publishes : p.ver \in objects

TasksStored == \A t \in Goroutines : task[t].pc \in Writing => task[t].ver \in objects

Stored == PointersStored /\ TasksStored

LEMMA StoredParts == Stored => StoredBeforeReferenced
  BY DEF Stored, StoredBeforeReferenced, PointersStored, TasksStored, Writing

LEMMA InitStored == Init => Stored
  BY ConstantsAssumption
  DEF Init, Stored, PointersStored, TasksStored, Writing, NoTask, Goroutines

-----------------------------------------------------------------------------

\* One goroutine moves; if it is to write its version, that has been added.
LEMMA OneTaskStored ==
    ASSUME TasksStored, NEW t \in Goroutines, objects \subseteq objects',
           \A u \in Goroutines : u # t => task'[u] = task[u],
           task'[t].pc \in Writing => task'[t].ver \in objects'
    PROVE  TasksStored'
  BY DEF TasksStored, Writing

\* What the ways to move a goroutine do to its program counter and version.
LEMMA GotoEffect ==
    ASSUME Inv, NEW t \in Goroutines, NEW pc, Goto(t, pc)
    PROVE  /\ \A u \in Goroutines : u # t => task'[u] = task[u]
           /\ task'[t].pc = pc /\ task'[t].ver = task[t].ver
  BY DEF Goto, Inv, TypeOK, Tasks

LEMMA GotoWithEffect ==
    ASSUME Inv, NEW t \in Goroutines, NEW pc, NEW v, GotoWith(t, pc, v)
    PROVE  /\ \A u \in Goroutines : u # t => task'[u] = task[u]
           /\ task'[t].pc = pc /\ task'[t].ver = v
  BY DEF GotoWith, Inv, TypeOK, Tasks

LEMMA ReturnEffect ==
    ASSUME Inv, NEW t \in Goroutines, NEW r, Return(t, r)
    PROVE  /\ \A u \in Goroutines : u # t => task'[u] = task[u]
           /\ task'[t].pc \in {"reply", "answer"} /\ task'[t].ver = task[t].ver
           /\ task'[t].pc \notin Writing
  <1> DEFINE pc == IF t \in Handlers THEN "reply" ELSE "answer"
  <1>1. task' = [task EXCEPT ![t] = [@ EXCEPT !.pc = pc, !.res = r]]
    BY DEF Return
  <1>2. pc \in {"reply", "answer"}
    OBVIOUS
  <1> HIDE DEF pc
  <1>3. task[t] \in Tasks /\ task \in [Goroutines -> Tasks]
    BY DEF Inv, TypeOK
  <1>4. task'[t] = [task[t] EXCEPT !.pc = pc, !.res = r]
    BY <1>1, <1>3
  <1>5. task'[t].pc = pc /\ task'[t].ver = task[t].ver
    BY <1>3, <1>4 DEF Tasks
  <1>6. \A u \in Goroutines : u # t => task'[u] = task[u]
    BY <1>1, <1>3
  <1> QED
    BY <1>2, <1>5, <1>6 DEF Writing

\* A call that returns writes nothing any more.
LEMMA ReturnStored ==
    ASSUME Inv, TasksStored, NEW t \in Goroutines, NEW r, Return(t, r),
           objects \subseteq objects'
    PROVE  TasksStored'
  BY ReturnEffect, OneTaskStored

\* A cache write and a spawned publication name a version that was added.
LEMMA UpdateCacheStored ==
    ASSUME Inv, PointersStored, NEW d \in DBs, NEW v \in objects, UpdateCache(d, v),
           UNCHANGED <<objects, ipns, publishes>>
    PROVE  PointersStored'
  BY DEF PointersStored, UpdateCache, Inv, TypeOK

-----------------------------------------------------------------------------

\* A new task, and one that has ended, is not about to write.
LEMMA FreshStored ==
    ASSUME Inv, TasksStored, NEW t \in Goroutines, NEW k \in Tasks,
           task' = [task EXCEPT ![t] = k], k.pc \notin Writing, UNCHANGED objects
    PROVE  TasksStored'
  <1>1. task'[t] = k /\ \A u \in Goroutines : u # t => task'[u] = task[u]
    BY DEF Inv, TypeOK
  <1> QED
    BY <1>1, OneTaskStored

LEMMA ArrivalStored ==
    ASSUME Inv, Stored, NEW h \in Handlers, Arrival(h) \/ Reply(h)
    PROVE  Stored'
  <1> USE DEF leveldbVars, ipfsVars, Writing
  <1>1. UNCHANGED <<cache, ipns, objects, publishes>>
    BY DEF Arrival, CallSelect, CallWrite, CallBegin, CallExec, CallCommit, CallRollback,
           CallCreate, CallDelete, Arrive, Reply
  <1>2. PointersStored /\ TasksStored
    BY DEF Stored
  <1>3. PointersStored'
    BY <1>1, <1>2 DEF PointersStored
  <1>4. h \in Goroutines
    BY DEF Goroutines
  <1>5. PICK k : task' = [task EXCEPT ![h] = k] /\ k.pc \notin Writing
    <2>1. ASSUME NEW c, Arrive(h, c), c.pc \notin Writing
          PROVE  \E k : task' = [task EXCEPT ![h] = k] /\ k.pc \notin Writing
      BY <2>1 DEF Arrive
    <2>2. CASE Reply(h)
      <3>1. NoTask.pc \notin Writing
        BY DEF NoTask
      <3>2. task' = [task EXCEPT ![h] = NoTask]
        BY <2>2 DEF Reply
      <3> QED
        BY <3>1, <3>2
    <2>3. ASSUME NEW d \in DBs, CallCreate(h, d)
          PROVE  \E k : task' = [task EXCEPT ![h] = k] /\ k.pc \notin Writing
      BY <2>1, <2>3 DEF CallCreate, NoTask
    <2> QED
      BY <2>1, <2>2, <2>3 DEF Arrival, CallSelect, CallWrite, CallBegin, CallExec, CallCommit,
         CallRollback, CallDelete, NoTask
  <1>6. task'[h] = k /\ \A u \in Goroutines : u # h => task'[u] = task[u]
    BY <1>4, <1>5 DEF Inv, TypeOK
  <1>7. TasksStored'
    BY <1>1, <1>2, <1>4, <1>5, <1>6, OneTaskStored
  <1> QED
    BY <1>3, <1>7 DEF Stored

LEMMA LoadStored ==
    ASSUME Inv, Stored, NEW t \in Goroutines, Load(t)
    PROVE  Stored'
  <1> USE DEF leveldbVars, ipfsVars
  <1>1. PointersStored /\ TasksStored
    BY DEF Stored
  <1>2. UNCHANGED <<objects, ipns, publishes>>
    BY DEF Load, ReadCache, ReadEntry, Resolve, FillCache, AnswerRead, ReturnError
  <1>3. CASE ReadCache(t)
    <2>1. PointersStored'
      BY <1>1, <1>2, <1>3 DEF ReadCache, PointersStored
    <2>2. TasksStored'
      BY <1>1, <1>2, <1>3, GotoEffect, GotoWithEffect, OneTaskStored DEF ReadCache, Writing
    <2> QED
      BY <2>1, <2>2 DEF Stored
  <1>4a. CASE ReadEntry(t)
    <2>1. PointersStored'
      BY <1>1, <1>2, <1>4a DEF ReadEntry, PointersStored
    <2>2. TasksStored'
      BY <1>1, <1>2, <1>4a, GotoEffect, ReturnStored, OneTaskStored DEF ReadEntry, Writing
    <2> QED
      BY <2>1, <2>2 DEF Stored
  <1>4. CASE Resolve(t)
    <2>1. PointersStored'
      BY <1>1, <1>2, <1>4 DEF Resolve, PointersStored
    <2>2. task[t].db \in DBs
      BY <1>4, Running DEF Resolve, Steps, HasArguments
    <2>3. ipns[task[t].db] # None => ipns[task[t].db] \in objects
      BY <1>1, <2>2 DEF PointersStored
    <2>4. ASSUME ipns[task[t].db] # None PROVE TasksStored'
      BY <1>1, <1>2, <1>4, <2>3, <2>4, GotoWithEffect, OneTaskStored DEF Resolve
    <2>5. ASSUME ipns[task[t].db] = None PROVE TasksStored'
      BY <1>1, <1>2, <1>4, <2>5, ReturnStored DEF Resolve
    <2> QED
      BY <2>1, <2>4, <2>5 DEF Stored
  <1>5. CASE FillCache(t)
    <2>1. task[t].db \in DBs
      BY <1>5, Running DEF FillCache, Steps, HasArguments
    <2>2. task[t].ver \in objects
      BY <1>1, <1>5 DEF FillCache, TasksStored, Writing
    <2>3. PointersStored'
      BY <1>1, <1>2, <1>5, <2>1, <2>2, UpdateCacheStored DEF FillCache
    <2>4. TasksStored'
      BY <1>1, <1>2, <1>5, GotoEffect, OneTaskStored DEF FillCache, Writing
    <2> QED
      BY <2>3, <2>4 DEF Stored
  <1>6. CASE AnswerRead(t) \/ ReturnError(t)
    <2>1. PointersStored'
      BY <1>1, <1>2, <1>6 DEF AnswerRead, ReturnError, PointersStored
    <2>2. TasksStored'
      BY <1>1, <1>2, <1>6, ReturnStored DEF AnswerRead, ReturnError
    <2> QED
      BY <2>1, <2>2 DEF Stored
  <1> QED
    BY <1>3, <1>4a, <1>4, <1>5, <1>6 DEF Load

LEMMA WorkerStored ==
    ASSUME Inv, Stored, NEW d \in DBs, WorkerStep(d)
    PROVE  Stored'
  <1> USE DEF leveldbVars, ipfsVars
  <1>1. PointersStored /\ TasksStored
    BY DEF Stored
  <1>2. d \in Goroutines /\ \A g \in Handlers : g \in Goroutines /\ g \notin DBs
    BY ConstantsAssumption DEF Goroutines
  <1>3. CASE TakeJob(d)
    <2>1. UNCHANGED <<cache, ipns, objects, publishes>>
      BY <1>3 DEF TakeJob
    <2>2. task'[d].pc \notin Writing /\ \A u \in Goroutines : u # d => task'[u] = task[u]
      BY <1>2, <1>3 DEF TakeJob, Inv, TypeOK, NoTask, Writing
    <2>3. TasksStored'
      BY <1>1, <1>2, <2>1, <2>2, OneTaskStored
    <2> QED
      BY <1>1, <2>1, <2>3 DEF Stored, PointersStored
  <1>4. CASE ExecuteJob(d)
    <2> DEFINE new == Execute(task[d].ver, task[d].stmt)
    <2>1. /\ GotoWith(d, "store", new) /\ objects' = objects \cup {new}
          /\ UNCHANGED <<cache, ipns, publishes>>
      BY <1>4 DEF ExecuteJob, AddObject
    <2> HIDE DEF new
    <2>2. TasksStored'
      BY <1>1, <1>2, <2>1, GotoWithEffect, OneTaskStored
    <2> QED
      BY <1>1, <2>1, <2>2 DEF Stored, PointersStored
  <1>5. CASE StoreJob(d)
    <2>1. task[d].ver \in objects
      BY <1>1, <1>2, <1>5 DEF StoreJob, At, TasksStored, Writing
    <2>2. /\ UpdateCache(d, task[d].ver) /\ Spawn(d, task[d].ver, task[d].stmt)
          /\ Return(d, "ok") /\ UNCHANGED <<ipns, objects>>
      BY <1>5 DEF StoreJob
    <2>3. /\ \A q \in publishes' : q \in publishes \/ q.ver = task[d].ver
          /\ \A e \in DBs : cache'[e] \in {cache[e], task[d].ver}
      BY <2>2, SpawnEffect DEF UpdateCache, Inv, TypeOK
    <2>3a. PointersStored'
      BY <1>1, <2>1, <2>2, <2>3 DEF PointersStored
    <2>4. TasksStored'
      BY <1>1, <1>2, <2>2, ReturnStored
    <2> QED
      BY <2>3a, <2>4 DEF Stored
  <1>6. CASE AnswerJob(d)
    <2> DEFINE h == task[d].from
    <2>1. UNCHANGED <<cache, ipns, objects, publishes>>
      BY <1>6 DEF AnswerJob
    <2>2. h \in Handlers
      BY <1>2, <1>6, Running DEF AnswerJob, At, HasArguments
    <2>3. task[h] \in Tasks
      BY <1>2, <2>2 DEF Inv, TypeOK
    <2>4. /\ task'[d] = NoTask
          /\ task'[h].pc = "reply"
          /\ \A u \in Goroutines : u # d /\ u # h => task'[u] = task[u]
      BY <1>2, <1>6, <2>2, <2>3 DEF AnswerJob, Inv, TypeOK, Tasks
    <2>5. NoTask.pc \notin Writing /\ "reply" \notin Writing
      BY DEF NoTask, Writing
    <2>6. TasksStored'
      BY <1>1, <2>1, <2>4, <2>5 DEF TasksStored, Writing
    <2> QED
      BY <1>1, <2>1, <2>6 DEF Stored, PointersStored
  <1> QED
    BY <1>3, <1>4, <1>5, <1>6 DEF WorkerStep

LEMMA HandlerStored ==
    ASSUME Inv, Stored, NEW h \in Handlers, HandlerStep(h)
    PROVE  Stored'
  <1> USE DEF leveldbVars, ipfsVars
  <1>1. PointersStored /\ TasksStored /\ h \in Goroutines
    BY DEF Stored, Goroutines
  <1>2. CASE FindQueue(h) \/ Enqueue(h) \/ LockForBegin(h)
    <2>1. UNCHANGED <<cache, ipns, objects, publishes>>
      BY <1>2 DEF FindQueue, Enqueue, LockForBegin
    <2>2. PICK pc \in {"enqueue", "wait", "load"} : Goto(h, pc)
      BY <1>2 DEF FindQueue, Enqueue, LockForBegin
    <2>3. TasksStored'
      BY <1>1, <2>1, <2>2, GotoEffect, OneTaskStored DEF Writing
    <2> QED
      BY <1>1, <2>1, <2>3 DEF Stored, PointersStored
  <1>3. CASE \/ OpenTransaction(h) \/ LookUpTransaction(h) \/ RunInTransaction(h)
             \/ TakeForCommit(h) \/ RollbackTransaction(h) \/ DeleteDatabase(h)
    <2>1. UNCHANGED <<cache, ipns, objects, publishes>>
      BY <1>3 DEF OpenTransaction, LookUpTransaction, RunInTransaction, SetState,
         TakeForCommit, RollbackTransaction, DeleteDatabase
    <2>2. (\E r \in {"ok", "error"} : Return(h, r)) \/ (\E pc \in {"run", "commitAdd"} : Goto(h, pc))
      BY <1>3 DEF OpenTransaction, LookUpTransaction, RunInTransaction,
         TakeForCommit, RollbackTransaction, DeleteDatabase
    <2>3. TasksStored'
      <3>1. ASSUME NEW r, Return(h, r) PROVE TasksStored'
        BY <1>1, <2>1, <3>1, ReturnStored
      <3>2. ASSUME NEW pc \in {"run", "commitAdd"}, Goto(h, pc) PROVE TasksStored'
        BY <1>1, <2>1, <3>2, GotoEffect, OneTaskStored DEF Writing
      <3> QED
        BY <2>2, <3>1, <3>2
    <2> QED
      BY <1>1, <2>1, <2>3 DEF Stored, PointersStored
  <1>4. CASE CommitAdd(h)
    <2> DEFINE v == txn[task[h].ses].ver
    <2>1. UNCHANGED <<cache, ipns, publishes>>
      BY <1>4 DEF CommitAdd
    <2>2. \/ AddObject(v) /\ GotoWith(h, "commitStore", v)
          \/ Return(h, "error") /\ UNCHANGED objects
      BY <1>4 DEF CommitAdd
    <2> HIDE DEF v
    <2>3. TasksStored' /\ objects \subseteq objects'
      <3>1. ASSUME AddObject(v), GotoWith(h, "commitStore", v)
            PROVE  TasksStored' /\ objects \subseteq objects'
        <4>1. objects' = objects \cup {v}
          BY <3>1 DEF AddObject
        <4> QED
          BY <1>1, <3>1, <4>1, GotoWithEffect, OneTaskStored
      <3>2. ASSUME Return(h, "error"), UNCHANGED objects
            PROVE  TasksStored' /\ objects \subseteq objects'
        BY <1>1, <3>2, ReturnStored
      <3> QED
        BY <2>2, <3>1, <3>2
    <2> QED
      BY <1>1, <2>1, <2>3 DEF Stored, PointersStored
  <1>5. CASE CommitStore(h)
    <2> DEFINE d == txn[task[h].ses].db
               v == task[h].ver
    <2>1. d \in DBs
      BY <1>5, Handling DEF CommitStore, At
    <2>2. v \in objects
      BY <1>1, <1>5 DEF CommitStore, At, TasksStored, Writing
    <2>3. /\ UpdateCache(d, v) /\ Spawn(d, v, task[h].ses) /\ Return(h, "ok")
          /\ UNCHANGED <<ipns, objects>>
      BY <1>5 DEF CommitStore
    <2> HIDE DEF d, v
    <2>4. PointersStored'
      <3>1. \A e \in DBs : cache'[e] \in {cache[e], v}
        BY <2>1, <2>3 DEF UpdateCache, Inv, TypeOK
      <3>2. \A p \in publishes' : p \in publishes \/ p.ver = v
        BY <2>3 DEF Spawn
      <3> QED
        BY <1>1, <2>2, <2>3, <3>1, <3>2 DEF PointersStored
    <2>5. TasksStored'
      BY <1>1, <2>3, ReturnStored
    <2> QED
      BY <2>4, <2>5 DEF Stored
  <1>6. CASE GenerateKey(h)
    <2> DEFINE v == task[h].ver
    <2>1. objects' = objects \cup {v} /\ UNCHANGED <<cache, ipns>>
      BY <1>6 DEF GenerateKey, AddObject
    <2>2. publishes' = publishes \/ Spawn(task[h].db, v, task[h].db)
      BY <1>6 DEF GenerateKey
    <2>3. Return(h, "error") \/ Goto(h, "register")
      BY <1>6 DEF GenerateKey
    <2>4. PointersStored'
      BY <1>1, <2>1, <2>2 DEF PointersStored, Spawn
    <2>5. TasksStored'
      <3>1. ASSUME Return(h, "error") PROVE TasksStored'
        BY <1>1, <2>1, <3>1, ReturnStored
      <3>2. ASSUME Goto(h, "register") PROVE TasksStored'
        BY <1>1, <2>1, <3>2, GotoEffect, OneTaskStored
      <3> QED
        BY <2>3, <3>1, <3>2
    <2> QED
      BY <2>4, <2>5 DEF Stored
  <1>7. CASE Register(h)
    <2>1. Goto(h, "cacheNew") /\ UNCHANGED <<cache, ipns, objects, publishes>>
      BY <1>7 DEF Register
    <2>2. task[h].ver \in objects
      BY <1>1, <1>7 DEF Register, At, TasksStored, Writing
    <2>3. TasksStored'
      BY <1>1, <2>1, <2>2, GotoEffect, OneTaskStored
    <2> QED
      BY <1>1, <2>1, <2>3 DEF Stored, PointersStored
  <1>8. CASE CacheNew(h)
    <2>1. /\ UpdateCache(task[h].db, task[h].ver) /\ Return(h, "ok")
          /\ UNCHANGED <<ipns, objects, publishes>>
      BY <1>8 DEF CacheNew
    <2>2. task[h].ver \in objects /\ task[h].db \in DBs
      BY <1>1, <1>8, Handling DEF CacheNew, At, TasksStored, Writing, HasArguments
    <2>3. PointersStored'
      BY <1>1, <2>1, <2>2, UpdateCacheStored
    <2>4. TasksStored'
      BY <1>1, <2>1, ReturnStored
    <2> QED
      BY <2>3, <2>4 DEF Stored
  <1>9. CASE Reply(h)
    BY <1>9, ArrivalStored
  <1> QED
    BY <1>2, <1>3, <1>4, <1>5, <1>6, <1>7, <1>8, <1>9 DEF HandlerStep

LEMMA BackgroundStored ==
    ASSUME Inv, Stored,
           \/ \E s \in Sessions : CleanupStale(s)
           \/ \E p \in publishes : FindEntry(p) \/ Publish(p) \/ PublishFails(p)
           \/ Crash
           \/ UNCHANGED vars
    PROVE  Stored'
  <1> USE DEF leveldbVars, ipfsVars, vars
  <1>1. PointersStored /\ TasksStored
    BY DEF Stored
  <1>2. CASE (\E s \in Sessions : CleanupStale(s)) \/ UNCHANGED vars
    BY <1>1, <1>2 DEF CleanupStale, Stored, PointersStored, TasksStored
  <1>3. ASSUME NEW p \in publishes, FindEntry(p) \/ Publish(p) \/ PublishFails(p) PROVE Stored'
    <2>1. UNCHANGED <<cache, objects, task>> /\ NoNewPublication
      BY <1>3, PublicationStep DEF FindEntry, Publish, PublishFails
    <2>2. \A d \in DBs : ipns'[d] \in {ipns[d], p.ver}
      BY <1>3 DEF FindEntry, Publish, PublishFails, Inv, TypeOK
    <2> QED
      BY <1>1, <2>1, <2>2 DEF NoNewPublication, Stored, PointersStored, TasksStored
  <1>4. CASE Crash
    BY <1>1, <1>4 DEF Crash, Stored, PointersStored, TasksStored, Writing, NoTask
  <1> QED
    BY <1>2, <1>3, <1>4

\* Whatever LevelDB, IPNS or a pending publication names has been added to
\* IPFS, through every interleaving, failure and crash: no reader is ever sent
\* to a version that does not exist.
THEOREM PointersResolve == Spec => []StoredBeforeReferenced
  <1>1. Inv /\ Stored /\ [Next]_vars => Stored'
    BY ArrivalStored, HandlerStored, WorkerStored, LoadStored, BackgroundStored DEF Next
  <1> QED
    BY <1>1, InitStored, StoredParts, Invariance, PTL DEF Spec

-----------------------------------------------------------------------------
(* The locks and the ends of sessions.                                       *)

\* The program counters of a COMMIT that has taken its session out of the map,
\* and of a BEGIN that may hold d.mu.
Committing == {"commitAdd", "commitStore"}
Loading == {"load", "entry", "resolve", "fill", "loaded"}

InCommit(h, s) == task[h].ses = s /\ task[h].pc \in Committing

\* A BEGIN that has not opened its session is the only call that has the id.
BeginsAlone ==
    \A h \in Handlers : task[h].op = "begin" /\ task[h].pc # "reply" =>
        /\ status[task[h].ses] = "unused"
        /\ \A g \in Handlers : g # h => task[g].ses # task[h].ses

\* A session is committing while exactly one call commits it.
CommitsAlone ==
    \A s \in Sessions :
        /\ \A g, h \in Handlers : InCommit(g, s) /\ InCommit(h, s) => g = h
        /\ (\E h \in Handlers : InCommit(h, s)) <=> status[s] = "committing"

SessionInv == LocksReleased /\ BeginsAlone /\ CommitsAlone

\* No call holds a lock, begins or commits when the server starts.
LEMMA InitSession == Init => SessionInv
  <1> SUFFICES ASSUME Init PROVE SessionInv
    OBVIOUS
  <1>1. \A h \in Handlers : task[h] = NoTask
    BY DEF Init, Goroutines
  <1>2. LocksReleased
    BY DEF Init, LocksReleased, NoTxn
  <1>3. BeginsAlone
    BY <1>1 DEF BeginsAlone, NoTask
  <1>4. CommitsAlone
    BY <1>1 DEF Init, CommitsAlone, InCommit, Committing, NoTask
  <1> QED
    BY <1>2, <1>3, <1>4 DEF SessionInv

-----------------------------------------------------------------------------

\* A goroutine that moves keeps its call, and no other goroutine changes.
Moves(t) ==
    /\ \A u \in Goroutines : u # t => task'[u] = task[u]
    /\ task'[t].op = task[t].op /\ task'[t].ses = task[t].ses
    /\ task'[t].db = task[t].db /\ task'[t].stmt = task[t].stmt
    /\ task'[t].from = task[t].from

\* What the ways to move a goroutine do to its call and program counter.
LEMMA GotoMoves ==
    ASSUME Inv, NEW t \in Goroutines, NEW pc, Goto(t, pc)
    PROVE  Moves(t) /\ task'[t].pc = pc
  BY DEF Goto, Inv, TypeOK, Tasks, Moves

\* The same, for a goroutine that takes a version along.
LEMMA GotoWithMoves ==
    ASSUME Inv, NEW t \in Goroutines, NEW pc, NEW v, GotoWith(t, pc, v)
    PROVE  Moves(t) /\ task'[t].pc = pc
  BY DEF GotoWith, Inv, TypeOK, Tasks, Moves

\* A call that returns gives d.mu back and keeps its arguments.
LEMMA ReturnMoves ==
    ASSUME Inv, NEW t \in Goroutines, NEW r, Return(t, r)
    PROVE  /\ Moves(t)
           /\ task'[t].pc = (IF t \in Handlers THEN "reply" ELSE "answer")
           /\ task'[t].res = r
           /\ dmu' = IF dmu = t THEN None ELSE dmu
  <1> DEFINE pc == IF t \in Handlers THEN "reply" ELSE "answer"
  <1>1. task' = [task EXCEPT ![t] = [@ EXCEPT !.pc = pc, !.res = r]]
    BY DEF Return
  <1> HIDE DEF pc
  <1>2. task[t] \in Tasks /\ task \in [Goroutines -> Tasks]
    BY DEF Inv, TypeOK
  <1>3. task'[t] = [task[t] EXCEPT !.pc = pc, !.res = r]
    BY <1>1, <1>2
  <1>4. /\ task'[t].pc = pc /\ task'[t].res = r
        /\ task'[t].op = task[t].op /\ task'[t].ses = task[t].ses
        /\ task'[t].db = task[t].db /\ task'[t].stmt = task[t].stmt
        /\ task'[t].from = task[t].from
    BY <1>2, <1>3 DEF Tasks
  <1>5. \A u \in Goroutines : u # t => task'[u] = task[u]
    BY <1>1, <1>2
  <1> QED
    BY <1>4, <1>5 DEF Moves, Return, pc

\* A step of one goroutine that neither begins nor ends a COMMIT, and that
\* keeps d.mu only where a BEGIN loads.
LEMMA MoveKeeps ==
    ASSUME Inv, SessionInv, NEW t \in Goroutines, Moves(t),
           \A s \in Sessions : txn'[s].mu = txn[s].mu,
           \A s \in Sessions : (status'[s] = "unused" <=> status[s] = "unused")
                            /\ (status'[s] = "committing" <=> status[s] = "committing"),
           dmu' \in {dmu, None, t},
           dmu' = t /\ t # None => task[t].op = "begin" /\ task'[t].pc \in Loading,
           task[t].pc \notin Committing \cup {"reply"}, task'[t].pc \notin Committing
    PROVE  SessionInv'
  <1> USE DEF Moves
  <1>1. /\ LocksReleased /\ BeginsAlone /\ CommitsAlone
        /\ \A h \in Handlers : h \in Goroutines
    BY DEF SessionInv, Goroutines
  <1>2. LocksReleased'
    <2>1. dmu' # None => task'[dmu'].op = "begin" /\ task'[dmu'].pc \in Loading
      <3>1. SUFFICES ASSUME dmu' # None, dmu' # t
                     PROVE  task'[dmu'].op = "begin" /\ task'[dmu'].pc \in Loading
        OBVIOUS
      <3>2. dmu' = dmu /\ dmu \in Goroutines
        BY <1>1, <3>1 DEF Inv, TypeOK
      <3> QED
        BY <1>1, <3>1, <3>2 DEF LocksReleased, Loading
    <2>2. ASSUME NEW s \in Sessions, txn[s].mu # None
          PROVE  At(txn[s].mu, "commit", "commitStore")' /\ task'[txn[s].mu].ses = s
      <3>1. /\ At(txn[s].mu, "commit", "commitStore") /\ task[txn[s].mu].ses = s
            /\ txn[s].mu \in Goroutines
        BY <1>1, <2>2 DEF LocksReleased, Inv, TypeOK, Txns
      <3>2. txn[s].mu # t
        BY <3>1 DEF At, Committing
      <3>3. UNCHANGED txn[s].mu
        OBVIOUS
      <3>4. task'[txn[s].mu] = task[txn[s].mu]
        BY <3>1, <3>2
      <3> QED
        BY <3>1, <3>3, <3>4 DEF At
    <2> QED
      BY <2>1, <2>2 DEF LocksReleased, Loading
  <1>3. BeginsAlone'
    <2>1. SUFFICES ASSUME NEW h \in Handlers, task'[h].op = "begin", task'[h].pc # "reply"
                   PROVE  /\ status'[task'[h].ses] = "unused"
                          /\ \A g \in Handlers : g # h => task'[g].ses # task'[h].ses
      BY DEF BeginsAlone
    <2>2. \A g \in Handlers : task'[g].ses = task[g].ses
      BY <1>1
    <2>3. task[h].op = "begin" /\ task[h].pc # "reply"
      BY <1>1, <2>1
    <2>4. task[h].ses \in Sessions
      BY <1>1, <2>3 DEF Inv, ControlOK, HasArguments
    <2> QED
      BY <1>1, <2>2, <2>3, <2>4 DEF BeginsAlone
  <1>4. CommitsAlone'
    <2>1. \A h \in Handlers, s \in Sessions : InCommit(h, s)' <=> InCommit(h, s)
      BY <1>1 DEF InCommit
    <2> QED
      BY <1>1, <2>1 DEF CommitsAlone
  <1> QED
    BY <1>2, <1>3, <1>4 DEF SessionInv

\* The same for a goroutine whose call is no BEGIN and takes no lock.
LEMMA OtherKeeps ==
    ASSUME Inv, SessionInv, NEW t \in Goroutines, Moves(t),
           \A s \in Sessions : txn'[s].mu = txn[s].mu,
           \A s \in Sessions : (status'[s] = "unused" <=> status[s] = "unused")
                            /\ (status'[s] = "committing" <=> status[s] = "committing"),
           dmu' = dmu \/ dmu' = None, task[t].op # "begin",
           task[t].pc \notin Committing \cup {"reply"}, task'[t].pc \notin Committing
    PROVE  SessionInv'
  <1>1. dmu = t /\ t # None => task[t].op = "begin"
    BY DEF SessionInv, LocksReleased
  <1> QED
    BY <1>1, MoveKeeps

\* A call arrives, or a handler has sent its reply: a BEGIN that arrives has a
\* session id of its own, and no other call comes with the id of a BEGIN that
\* has not opened its session.
LEMMA NewCall ==
    ASSUME Inv, SessionInv, NEW h \in Handlers, NEW k, task' = [task EXCEPT ![h] = k],
           task[h].pc \in {"idle", "reply"}, k.pc \notin Committing,
           k.op = "begin" => /\ status[k.ses] = "unused"
                             /\ \A g \in Handlers : task[g].ses # k.ses,
           \A g \in Handlers : g # h /\ task[g].op = "begin" /\ task[g].pc # "reply"
              => task[g].ses # k.ses,
           UNCHANGED <<dmu, status, txn>>
    PROVE  SessionInv'
  <1>1. /\ LocksReleased /\ BeginsAlone /\ CommitsAlone
        /\ \A g \in Handlers : g \in Goroutines
    BY DEF SessionInv, Goroutines
  <1>2. task'[h] = k /\ \A u \in Goroutines : u # h => task'[u] = task[u]
    BY <1>1 DEF Inv, TypeOK
  <1>3. LocksReleased'
    <2>1. dmu # None => dmu \in Goroutines /\ dmu # h
      BY <1>1 DEF LocksReleased, Inv, TypeOK
    <2>2. ASSUME NEW s \in Sessions, txn[s].mu # None
          PROVE  txn[s].mu \in Goroutines /\ txn[s].mu # h
      BY <1>1, <2>2 DEF LocksReleased, At, Inv, TypeOK, Txns
    <2> QED
      BY <1>1, <1>2, <2>1, <2>2 DEF LocksReleased, At
  <1>4. BeginsAlone'
    BY <1>1, <1>2 DEF BeginsAlone
  <1>5. CommitsAlone'
    <2>1. \A g \in Handlers, s \in Sessions : InCommit(g, s)' <=> InCommit(g, s)
      BY <1>1, <1>2 DEF InCommit, Committing
    <2> QED
      BY <1>1, <2>1 DEF CommitsAlone
  <1> QED
    BY <1>3, <1>4, <1>5 DEF SessionInv

\* Calls and replies.
LEMMA ArrivalSession ==
    ASSUME Inv, SessionInv, NEW h \in Handlers, Arrival(h) \/ Reply(h)
    PROVE  SessionInv'
  <1> USE DEF txnVars
  <1>1. h \in Goroutines /\ None \notin Sessions
    BY ConstantsAssumption DEF Goroutines
  <1>2. \A g \in Handlers : task[g].op = "begin" => task[g].ses \in Sessions
    BY DEF Inv, ControlOK, HasArguments, Goroutines
  <1>3. CASE Reply(h)
    <2>1. /\ task[h].pc = "reply" /\ task' = [task EXCEPT ![h] = NoTask]
          /\ UNCHANGED <<dmu, status, txn>>
      BY <1>3 DEF Reply
    <2>2. NoTask.pc \notin Committing /\ NoTask.op # "begin" /\ NoTask.ses = None
      BY DEF NoTask, Committing
    <2> QED
      BY <1>1, <1>2, <2>1, <2>2, NewCall
  <1>4. ASSUME NEW c, Arrive(h, c), c.op # "begin", c.pc \notin Committing,
               c.ses = None \/ Known(c.ses)
        PROVE  SessionInv'
    <2>1. /\ task[h].pc = "idle" /\ task' = [task EXCEPT ![h] = c]
          /\ UNCHANGED <<dmu, status, txn>>
      BY <1>4 DEF Arrive
    <2>2. \A g \in Handlers : task[g].op = "begin" => task[g].ses # c.ses
      BY <1>1, <1>2, <1>4 DEF Known
    <2> QED
      BY <1>4, <2>1, <2>2, NewCall
  <1>5. ASSUME NEW d \in DBs, NEW s \in Sessions, CallBegin(h, d, s) PROVE SessionInv'
    <2> DEFINE c == [NoTask EXCEPT !.op = "begin", !.pc = "lock", !.db = d, !.ses = s]
    <2>1. c.ses = s /\ c.pc = "lock"
      BY DEF NoTask
    <2>2. Arrive(h, c) /\ status[s] = "unused" /\ \A g \in Handlers : task[g].ses # s
      BY <1>5 DEF CallBegin
    <2>3. /\ task[h].pc = "idle" /\ task' = [task EXCEPT ![h] = c]
          /\ UNCHANGED <<dmu, status, txn>>
      BY <2>2 DEF Arrive
    <2> HIDE DEF c
    <2> QED
      BY <2>1, <2>2, <2>3, NewCall DEF Committing
  <1>6. ASSUME NEW d \in DBs, \/ CallSelect(h, d) \/ CallDelete(h, d) \/ CallCreate(h, d)
                              \/ \E w \in Statements : CallWrite(h, d, w)
        PROVE  SessionInv'
    BY <1>4, <1>6 DEF CallSelect, CallDelete, CallCreate, CallWrite, NoTask, Committing
  <1>7. ASSUME NEW s \in Sessions, \/ CallCommit(h, s) \/ CallRollback(h, s)
                                   \/ \E w \in Writes : CallExec(h, s, w)
        PROVE  SessionInv'
    BY <1>4, <1>7 DEF CallCommit, CallRollback, CallExec, NoTask, Committing
  <1> QED
    BY <1>3, <1>5, <1>6, <1>7 DEF Arrival

-----------------------------------------------------------------------------

\* A goroutine that loads a database, or fails to.
LEMMA LoadSession ==
    ASSUME Inv, SessionInv, NEW t \in Goroutines, Load(t)
    PROVE  SessionInv'
  <1> USE DEF txnVars
  <1>1. UNCHANGED <<status, txn>>
    BY DEF Load, ReadCache, ReadEntry, Resolve, FillCache, AnswerRead, ReturnError
  <1>2. None \notin Handlers
    BY ConstantsAssumption
  <1>3. dmu = t /\ dmu # None => task[t].op = "begin"
    BY DEF SessionInv, LocksReleased
  <1>4. task[t].pc \in {"load", "entry", "resolve", "fill", "loaded", "store", "keygen", "register"}
    BY DEF Load, ReadCache, ReadEntry, Resolve, FillCache, AnswerRead, ReturnError, FailurePoints
  <1>5. ASSUME NEW r, Return(t, r) PROVE SessionInv'
    <2>1. /\ Moves(t) /\ task'[t].pc \in {"reply", "answer"}
          /\ dmu' = IF dmu = t THEN None ELSE dmu
      BY <1>5, ReturnMoves
    <2>2. task'[t].pc \notin Committing /\ task[t].pc \notin Committing \cup {"reply"}
      BY <1>4, <2>1 DEF Committing
    <2>3. dmu' = dmu \/ dmu' = None
      BY <2>1
    <2>4. dmu' = t => t = None
      BY <2>1
    <2> QED
      BY <1>1, <2>1, <2>2, <2>3, <2>4, MoveKeeps
  <1>6. ASSUME NEW pc \in Loading, Goto(t, pc) \/ \E v : GotoWith(t, pc, v), UNCHANGED dmu
        PROVE  SessionInv'
    <2>1. Moves(t) /\ task'[t].pc = pc
      BY <1>6, GotoMoves, GotoWithMoves
    <2>2. task'[t].pc \notin Committing /\ task[t].pc \notin Committing \cup {"reply"}
      BY <1>4, <2>1 DEF Committing, Loading
    <2> QED
      BY <1>1, <1>3, <1>6, <2>1, <2>2, MoveKeeps
  <1>7. CASE ReadCache(t)
    <2>1. UNCHANGED dmu /\ \E pc \in Loading : Goto(t, pc) \/ \E v : GotoWith(t, pc, v)
      BY <1>7 DEF ReadCache, Loading
    <2> QED
      BY <1>6, <2>1
  <1>8a. CASE ReadEntry(t)
    <2>1. (\E r : Return(t, r)) \/ (UNCHANGED dmu /\ Goto(t, "resolve"))
      BY <1>8a DEF ReadEntry
    <2>2. "resolve" \in Loading
      BY DEF Loading
    <2> QED
      BY <1>5, <1>6, <2>1, <2>2
  <1>8. CASE Resolve(t)
    <2>1. \/ \E r : Return(t, r)
          \/ UNCHANGED dmu /\ GotoWith(t, "fill", ipns[task[t].db])
      BY <1>8 DEF Resolve
    <2>2. "fill" \in Loading
      BY DEF Loading
    <2> QED
      BY <1>5, <1>6, <2>1, <2>2
  <1>9. CASE FillCache(t)
    <2>1. UNCHANGED dmu /\ Goto(t, "loaded") /\ "loaded" \in Loading
      BY <1>9 DEF FillCache, Loading
    <2> QED
      BY <1>6, <2>1
  <1>10. CASE AnswerRead(t) \/ ReturnError(t)
    BY <1>5, <1>10 DEF AnswerRead, ReturnError
  <1> QED
    BY <1>7, <1>8a, <1>8, <1>9, <1>10 DEF Load

\* The worker of a database holds no lock and belongs to no session.
LEMMA WorkerSession ==
    ASSUME Inv, SessionInv, NEW d \in DBs, WorkerStep(d)
    PROVE  SessionInv'
  <1> USE DEF txnVars
  <1>1. d \in Goroutines /\ \A g \in Handlers : g \in Goroutines /\ g \notin DBs
    BY ConstantsAssumption DEF Goroutines
  <1>2. UNCHANGED <<status, txn>>
    BY DEF WorkerStep, TakeJob, ExecuteJob, StoreJob, AnswerJob
  <1>3. LocksReleased /\ BeginsAlone /\ CommitsAlone
    BY DEF SessionInv
  <1>4. CASE TakeJob(d)
    <2>1. UNCHANGED dmu /\ \A u \in Goroutines : u # d => task'[u] = task[u]
      BY <1>1, <1>4 DEF TakeJob, Inv, TypeOK
    <2>2. \A g \in Handlers : task'[g] = task[g]
      BY <1>1, <2>1
    <2>3. dmu \in Handlers \cup {None} /\ \A s \in Sessions : txn[s].mu \in Handlers \cup {None}
      BY DEF Inv, TypeOK, Txns
    <2>4. LocksReleased'
      BY <1>2, <1>3, <2>1, <2>2, <2>3 DEF LocksReleased, At
    <2> QED
      BY <1>2, <1>3, <2>2, <2>4 DEF SessionInv, BeginsAlone, CommitsAlone, InCommit
  <1>5. CASE ExecuteJob(d)
    <2>1. PICK v : GotoWith(d, "store", v)
      BY <1>5 DEF ExecuteJob
    <2>2. Moves(d) /\ task'[d].pc = "store"
      BY <1>1, <2>1, GotoWithMoves
    <2> QED
      BY <1>1, <1>2, <1>5, <2>2, OtherKeeps DEF ExecuteJob, At, Committing
  <1>6. CASE StoreJob(d)
    <2>1. /\ Moves(d) /\ task'[d].pc \in {"reply", "answer"}
          /\ dmu' = dmu \/ dmu' = None
      BY <1>1, <1>6, ReturnMoves DEF StoreJob
    <2>2. At(d, "job", "store")
      BY <1>6 DEF StoreJob
    <2> QED
      BY <1>1, <1>2, <2>1, <2>2, OtherKeeps DEF At, Committing
  <1>7. CASE AnswerJob(d)
    <2> DEFINE h == task[d].from
    <2>1. h \in Handlers /\ h # d /\ h # None
      BY <1>1, <1>7, Running, ConstantsAssumption DEF AnswerJob, At, HasArguments
    <2>2. /\ task[h].pc = "wait" /\ UNCHANGED dmu
          /\ task' = [task EXCEPT ![h] = [@ EXCEPT !.pc = "reply", !.res = task[d].res],
                                  ![d] = NoTask]
      BY <1>7 DEF AnswerJob
    <2> HIDE DEF h
    <2>3. task[h] \in Tasks /\ task \in [Goroutines -> Tasks]
      BY <1>1, <2>1 DEF Inv, TypeOK
    <2>4. task[h].op = "write"
      <3>1. Steps(task[h].op, task[h].pc)
        BY <1>1, <2>1 DEF Inv, ControlOK
      <3> QED
        BY <2>2, <3>1 DEF Steps
    <2>5. /\ task'[h].pc = "reply" /\ task'[h].ses = task[h].ses /\ task'[h].op = task[h].op
          /\ \A g \in Handlers : g # h => task'[g] = task[g]
      BY <1>1, <2>1, <2>2, <2>3 DEF Tasks
    <2>6. dmu # h /\ \A s \in Sessions : txn[s].mu = h => txn[s].mu = None
      BY <1>3, <2>1, <2>4 DEF LocksReleased, At
    <2>7. LocksReleased'
      <3>1. dmu \in Handlers \cup {None} /\ \A s \in Sessions : txn[s].mu \in Handlers \cup {None}
        BY DEF Inv, TypeOK, Txns
      <3>2. LocksReleased'
        <4>1. dmu # None => task'[dmu] = task[dmu]
          BY <2>5, <2>6, <3>1
        <4>2. \A s \in Sessions : txn[s].mu # None => task'[txn[s].mu] = task[txn[s].mu]
          BY <2>5, <2>6, <3>1
        <4>3. UNCHANGED <<dmu, txn>>
          BY <1>2, <2>2
        <4> QED
          BY <1>3, <4>1, <4>2, <4>3 DEF LocksReleased, At
      <3> QED
        BY <3>2
    <2>8. BeginsAlone'
      BY <1>2, <1>3, <2>1, <2>4, <2>5 DEF BeginsAlone
    <2>9. \A g \in Handlers, s \in Sessions : InCommit(g, s)' <=> InCommit(g, s)
      BY <2>1, <2>2, <2>5 DEF InCommit, Committing
    <2> QED
      BY <1>2, <1>3, <2>7, <2>8, <2>9 DEF SessionInv, CommitsAlone
  <1> QED
    BY <1>4, <1>5, <1>6, <1>7 DEF WorkerStep

-----------------------------------------------------------------------------

\* A handler that is in no BEGIN and in the middle of no COMMIT.
LEMMA PlainHandlerSession ==
    ASSUME Inv, SessionInv, NEW h \in Handlers,
           \/ FindQueue(h) \/ Enqueue(h) \/ LookUpTransaction(h) \/ RunInTransaction(h)
           \/ RollbackTransaction(h) \/ GenerateKey(h) \/ Register(h) \/ CacheNew(h)
           \/ DeleteDatabase(h)
    PROVE  SessionInv'
  <1> USE DEF txnVars
  <1>1. h \in Goroutines
    BY DEF Goroutines
  <1>2. task[h].op # "begin" /\ task[h].pc \notin Committing \cup {"reply"}
    BY DEF FindQueue, Enqueue, LookUpTransaction, RunInTransaction, RollbackTransaction,
       GenerateKey, Register, CacheNew, DeleteDatabase, At, Committing
  <1>3. \/ \E r : Return(h, r)
        \/ UNCHANGED dmu /\ \E pc \in {"enqueue", "wait", "run", "register", "cacheNew"} : Goto(h, pc)
    BY DEF FindQueue, Enqueue, LookUpTransaction, RunInTransaction, RollbackTransaction,
       GenerateKey, Register, CacheNew, DeleteDatabase
  <1>4. Moves(h) /\ (dmu' = dmu \/ dmu' = None) /\ task'[h].pc \notin Committing
    <2>1. ASSUME NEW r, Return(h, r)
          PROVE  Moves(h) /\ (dmu' = dmu \/ dmu' = None) /\ task'[h].pc \notin Committing
      BY <1>1, <2>1, ReturnMoves DEF Committing
    <2>2. ASSUME UNCHANGED dmu,
                 NEW pc \in {"enqueue", "wait", "run", "register", "cacheNew"}, Goto(h, pc)
          PROVE  Moves(h) /\ (dmu' = dmu \/ dmu' = None) /\ task'[h].pc \notin Committing
      BY <1>1, <2>2, GotoMoves DEF Committing
    <2> QED
      BY <1>3, <2>1, <2>2
  <1>5. \A s \in Sessions : txn'[s].mu = txn[s].mu
    <2>1. CASE RunInTransaction(h)
      <3>1. txn' = txn \/ \E v : txn' = [txn EXCEPT ![task[h].ses].ver = v]
        BY <2>1 DEF RunInTransaction, SetState
      <3>2. txn \in [Sessions -> Txns]
        BY DEF Inv, TypeOK
      <3> QED
        BY <3>1, <3>2, ZenonT(60) DEF Txns
    <2>2. CASE ~RunInTransaction(h)
      BY <2>2 DEF FindQueue, Enqueue, LookUpTransaction, RollbackTransaction,
         GenerateKey, Register, CacheNew, DeleteDatabase
    <2> QED
      BY <2>1, <2>2
  <1>6. \A s \in Sessions : (status'[s] = "unused" <=> status[s] = "unused")
                         /\ (status'[s] = "committing" <=> status[s] = "committing")
    <2>1. CASE RollbackTransaction(h)
      <3>1. \/ UNCHANGED status
            \/ /\ status[task[h].ses] = "active"
               /\ status' = [status EXCEPT ![task[h].ses] = "rolledback"]
        BY <2>1 DEF RollbackTransaction, RemoveFromMap
      <3> QED
        BY <3>1 DEF Inv, TypeOK
    <2>2. CASE ~RollbackTransaction(h)
      BY <2>2 DEF FindQueue, Enqueue, LookUpTransaction, RunInTransaction,
         GenerateKey, Register, CacheNew, DeleteDatabase
    <2> QED
      BY <2>1, <2>2
  <1> QED
    BY <1>1, <1>2, <1>4, <1>5, <1>6, OtherKeeps

\* BEGIN takes d.mu, and gives it back when the session is open; nobody else
\* can have used the session before.
LEMMA BeginSession ==
    ASSUME Inv, SessionInv, NEW h \in Handlers, LockForBegin(h) \/ OpenTransaction(h)
    PROVE  SessionInv'
  <1> USE DEF txnVars
  <1>1. /\ h \in Goroutines /\ \A g \in Handlers : g \in Goroutines
        /\ LocksReleased /\ BeginsAlone /\ CommitsAlone
    BY DEF Goroutines, SessionInv
  <1>2. CASE LockForBegin(h)
    <2>1. Moves(h) /\ task'[h].pc = "load"
      BY <1>1, <1>2, GotoMoves DEF LockForBegin
    <2>2. task[h].op = "begin" /\ task[h].pc = "lock" /\ dmu' = h /\ UNCHANGED <<status, txn>>
      BY <1>2 DEF LockForBegin, At
    <2> QED
      BY <1>1, <2>1, <2>2, MoveKeeps DEF Loading, Committing
  <1>3. CASE OpenTransaction(h)
    <2> DEFINE s == task[h].ses
               x == [db |-> task[h].db, ver |-> task[h].ver, mu |-> None]
    <2>1. task[h].op = "begin" /\ task[h].pc = "loaded"
      BY <1>3 DEF OpenTransaction, At
    <2>2. s \in Sessions /\ status[s] = "unused"
      BY <1>1, <2>1 DEF BeginsAlone, Inv, ControlOK, HasArguments
    <2>3. /\ Return(h, "ok") /\ status' = [status EXCEPT ![s] = "active"]
          /\ txn' = [txn EXCEPT ![s] = x]
      BY <1>3 DEF OpenTransaction
    <2>4. x.mu = None
      OBVIOUS
    <2> HIDE DEF s, x
    <2>5. /\ Moves(h) /\ task'[h].pc = "reply" /\ task'[h].ses = s
          /\ dmu' = IF dmu = h THEN None ELSE dmu
      BY <1>1, <2>3, ReturnMoves DEF Moves, s
    <2>6. /\ status'[s] = "active" /\ txn'[s].mu = None
          /\ \A r \in Sessions : r # s => status'[r] = status[r] /\ txn'[r].mu = txn[r].mu
      BY <2>2, <2>3, <2>4 DEF Inv, TypeOK
    <2>7. LocksReleased'
      <3>1. dmu' # None => dmu' = dmu /\ dmu \in Goroutines /\ task'[dmu] = task[dmu]
        BY <1>1, <2>5 DEF Moves, Inv, TypeOK
      <3>2. ASSUME NEW r \in Sessions, txn'[r].mu # None
            PROVE  At(txn[r].mu, "commit", "commitStore")' /\ task'[txn'[r].mu].ses = r
        <4>1. /\ txn'[r].mu = txn[r].mu /\ At(txn[r].mu, "commit", "commitStore")
              /\ task[txn[r].mu].ses = r /\ txn[r].mu \in Goroutines
          BY <1>1, <2>6, <3>2 DEF LocksReleased, Inv, TypeOK, Txns
        <4>2. task'[txn[r].mu] = task[txn[r].mu]
          BY <2>1, <2>5, <4>1 DEF Moves, At
        <4> QED
          BY <4>1, <4>2 DEF At
      <3>3. ASSUME NEW r \in Sessions, txn'[r].mu # None
            PROVE  txn'[r].mu = txn[r].mu
        BY <2>6, <3>3
      <3> QED
        BY <1>1, <3>1, <3>2, <3>3 DEF LocksReleased, At
    <2>8. BeginsAlone'
      BY <1>1, <2>1, <2>2, <2>5, <2>6
      DEF BeginsAlone, Moves, Inv, ControlOK, HasArguments, s
    <2>9. \A g \in Handlers, r \in Sessions : InCommit(g, r)' <=> InCommit(g, r)
      BY <1>1, <2>1, <2>5 DEF InCommit, Committing, Moves
    <2>10. \A r \in Sessions : status'[r] = "committing" <=> status[r] = "committing"
      BY <2>2, <2>6
    <2> QED
      BY <1>1, <2>7, <2>8, <2>9, <2>10 DEF SessionInv, CommitsAlone
  <1> QED
    BY <1>2, <1>3

-----------------------------------------------------------------------------

\* A step of a COMMIT: it changes the state and the mutex of its own session
\* only, and what is left to show is that the session is committing exactly
\* while its COMMIT goes on.
LEMMA CommitStep ==
    ASSUME Inv, SessionInv, NEW h \in Handlers, NEW s \in Sessions,
           Moves(h), task[h].op = "commit", task[h].ses = s,
           dmu' = dmu \/ dmu' = None,
           \A r \in Sessions : r # s => status'[r] = status[r] /\ txn'[r].mu = txn[r].mu,
           status[s] # "unused", status'[s] # "unused",
           InCommit(h, s) \/ status[s] = "active",
           status'[s] = "committing" <=> task'[h].pc \in Committing,
           txn'[s].mu = None \/ txn'[s].mu = h,
           txn'[s].mu = h => task'[h].pc = "commitStore"
    PROVE  SessionInv'
  <1> USE DEF Moves
  <1>1. /\ LocksReleased /\ BeginsAlone /\ CommitsAlone
        /\ h \in Goroutines /\ \A g \in Handlers : g \in Goroutines
    BY DEF SessionInv, Goroutines
  <1>2. LocksReleased'
    <2>1. dmu' # None => dmu' = dmu /\ dmu \in Goroutines /\ task'[dmu] = task[dmu]
      BY <1>1 DEF LocksReleased, Inv, TypeOK
    <2>2. ASSUME NEW r \in Sessions, txn'[r].mu # None
          PROVE  At(txn[r].mu, "commit", "commitStore")' /\ task'[txn'[r].mu].ses = r
      <3>1. CASE r = s
        BY <1>1, <2>2, <3>1 DEF At
      <3>2. CASE r # s
        <4>1. /\ txn'[r].mu = txn[r].mu /\ At(txn[r].mu, "commit", "commitStore")
              /\ task[txn[r].mu].ses = r /\ txn[r].mu \in Goroutines
          BY <1>1, <2>2, <3>2 DEF LocksReleased, Inv, TypeOK, Txns
        <4>2. txn[r].mu # h
          BY <3>2, <4>1
        <4>3. task'[txn[r].mu] = task[txn[r].mu]
          BY <4>1, <4>2
        <4> QED
          BY <4>1, <4>3 DEF At
      <3> QED
        BY <3>1, <3>2
    <2> QED
      BY <1>1, <2>1, <2>2 DEF LocksReleased, At
  <1>3. BeginsAlone'
    <2>1. \A g \in Handlers : task[g].op = "begin" => task[g].ses \in Sessions
      BY <1>1 DEF Inv, ControlOK, HasArguments
    <2>2. \A g \in Handlers : task'[g].ses = task[g].ses /\ (g # h => task'[g] = task[g])
      BY <1>1
    <2> QED
      BY <1>1, <2>1, <2>2 DEF BeginsAlone
  <1>4. CommitsAlone'
    <2>1. \A g \in Handlers, r \in Sessions : g # h \/ r # s => (InCommit(g, r)' <=> InCommit(g, r))
      BY <1>1 DEF InCommit
    <2>2. \A g \in Handlers : g # h => ~InCommit(g, s)
      BY <1>1 DEF CommitsAlone
    <2>3. InCommit(h, s)' <=> status'[s] = "committing"
      BY <1>1 DEF InCommit
    <2> QED
      BY <1>1, <2>1, <2>2, <2>3 DEF CommitsAlone
  <1> QED
    BY <1>2, <1>3, <1>4 DEF SessionInv

\* COMMIT takes the session out of the map, so that no other COMMIT finds it.
LEMMA CommitSession ==
    ASSUME Inv, SessionInv, NEW h \in Handlers,
           TakeForCommit(h) \/ CommitAdd(h) \/ CommitStore(h)
    PROVE  SessionInv'
  <1> USE DEF txnVars
  <1> DEFINE s == task[h].ses
  <1>1. h \in Goroutines /\ h # None
    BY ConstantsAssumption DEF Goroutines
  <1>2. task[h].op = "commit" /\ task[h].pc \in {"take", "commitAdd", "commitStore"}
    BY DEF TakeForCommit, CommitAdd, CommitStore, At
  <1>3. s \in Sessions /\ status[s] # "unused"
    BY <1>2, Handling
  <1>4. /\ status \in [Sessions -> Statuses] /\ txn \in [Sessions -> Txns]
        /\ CommitsAlone /\ LocksReleased
    BY DEF Inv, TypeOK, SessionInv
  <1>5. task[h].pc # "take" => InCommit(h, s) /\ status[s] = "committing"
    BY <1>2, <1>3, <1>4 DEF InCommit, Committing, CommitsAlone
  <1>6. CASE TakeForCommit(h)
    <2>1. task[h].pc = "take" /\ UNCHANGED txn
      BY <1>6 DEF TakeForCommit, At
    <2>2. ASSUME status[s] = "active", status' = [status EXCEPT ![s] = "committing"],
                 Goto(h, "commitAdd"), UNCHANGED dmu
          PROVE  SessionInv'
      <3>1. Moves(h) /\ task'[h].pc = "commitAdd"
        BY <1>1, <2>2, GotoMoves
      <3>2. txn[s].mu = None
        <4>1. SUFFICES ASSUME txn[s].mu # None PROVE FALSE
          OBVIOUS
        <4>2. txn[s].mu \in Handlers /\ InCommit(txn[s].mu, s)
          BY <1>3, <1>4, <4>1 DEF LocksReleased, At, InCommit, Committing, Txns
        <4> QED
          BY <1>3, <1>4, <2>2, <4>2 DEF CommitsAlone
      <3>3. status'[s] = "committing" /\ \A r \in Sessions : r # s => status'[r] = status[r]
        BY <1>3, <1>4, <2>2
      <3> QED
        BY <1>1, <1>2, <1>3, <2>1, <2>2, <3>1, <3>2, <3>3, CommitStep DEF Committing
    <2>3. ASSUME Return(h, "error"), UNCHANGED status PROVE SessionInv'
      <3>1. /\ Moves(h) /\ task'[h].pc = "reply"
            /\ dmu' = dmu \/ dmu' = None
        BY <1>1, <2>3, ReturnMoves
      <3> QED
        BY <1>1, <1>2, <2>1, <2>3, <3>1, OtherKeeps DEF Committing
    <2> QED
      BY <1>6, <2>2, <2>3 DEF TakeForCommit, RemoveFromMap
  <1>7. CASE CommitAdd(h)
    <2>1. txn[s].mu = None /\ task[h].pc = "commitAdd"
      BY <1>7 DEF CommitAdd, At
    <2>2. ASSUME txn' = [txn EXCEPT ![s].mu = h], NEW v, GotoWith(h, "commitStore", v),
                 UNCHANGED <<status, dmu>>
          PROVE  SessionInv'
      <3>1. Moves(h) /\ task'[h].pc = "commitStore"
        BY <1>1, <2>2, GotoWithMoves
      <3>2. txn'[s].mu = h /\ \A r \in Sessions : r # s => txn'[r].mu = txn[r].mu
        BY <1>3, <1>4, <2>2 DEF Txns
      <3> QED
        BY <1>2, <1>3, <1>5, <2>1, <2>2, <3>1, <3>2, CommitStep DEF Committing
    <2>3. ASSUME status' = [status EXCEPT ![s] = "failed"], Return(h, "error"), UNCHANGED txn
          PROVE  SessionInv'
      <3>1. /\ Moves(h) /\ task'[h].pc = "reply"
            /\ dmu' = dmu \/ dmu' = None
        BY <1>1, <2>3, ReturnMoves
      <3>2. status'[s] = "failed" /\ \A r \in Sessions : r # s => status'[r] = status[r]
        BY <1>3, <1>4, <2>3
      <3> QED
        BY <1>1, <1>2, <1>3, <1>5, <2>1, <2>3, <3>1, <3>2, CommitStep DEF Committing
    <2> QED
      BY <1>7, <2>2, <2>3 DEF CommitAdd
  <1>8. CASE CommitStore(h)
    <2>1. /\ txn' = [txn EXCEPT ![s].mu = None] /\ Return(h, "ok")
          /\ status' = [status EXCEPT ![s] = "committed"]
      BY <1>8 DEF CommitStore, Unlock
    <2>2. task[h].pc = "commitStore"
      BY <1>8 DEF CommitStore, At
    <2>3. /\ Moves(h) /\ task'[h].pc = "reply"
          /\ dmu' = dmu \/ dmu' = None
      BY <1>1, <2>1, ReturnMoves
    <2>4. /\ status'[s] = "committed" /\ txn'[s].mu = None
          /\ \A r \in Sessions : r # s => status'[r] = status[r] /\ txn'[r].mu = txn[r].mu
      BY <1>3, <1>4, <2>1 DEF Txns
    <2> QED
      BY <1>1, <1>2, <1>3, <1>5, <2>2, <2>3, <2>4, CommitStep DEF Committing
  <1> QED
    BY <1>6, <1>7, <1>8

\* Cleanup, publications and the death of the process.
LEMMA BackgroundSession ==
    ASSUME Inv, SessionInv,
           \/ \E s \in Sessions : CleanupStale(s)
           \/ \E p \in publishes : FindEntry(p) \/ Publish(p) \/ PublishFails(p)
           \/ Crash
           \/ UNCHANGED vars
    PROVE  SessionInv'
  <1> USE DEF txnVars, vars
  <1>1. LocksReleased /\ BeginsAlone /\ CommitsAlone
    BY DEF SessionInv
  <1>2. CASE (\E p \in publishes : FindEntry(p) \/ Publish(p) \/ PublishFails(p)) \/ UNCHANGED vars
    <2>1. UNCHANGED <<task, dmu, status, txn>>
      BY <1>2 DEF FindEntry, Publish, PublishFails
    <2> QED
      BY <1>1, <2>1 DEF SessionInv, LocksReleased, BeginsAlone, CommitsAlone, InCommit, At
  <1>3. ASSUME NEW s \in Sessions, CleanupStale(s) PROVE SessionInv'
    <2>1. UNCHANGED <<task, dmu, txn>>
      BY <1>3 DEF CleanupStale
    <2>2. \A r \in Sessions : (status'[r] = "unused" <=> status[r] = "unused")
                           /\ (status'[r] = "committing" <=> status[r] = "committing")
      BY <1>3 DEF CleanupStale, RemoveFromMap, Inv, TypeOK
    <2>3. \A h \in Handlers : task[h].op = "begin" => task[h].ses \in Sessions
      BY DEF Inv, ControlOK, HasArguments, Goroutines
    <2> QED
      BY <1>1, <2>1, <2>2, <2>3
      DEF SessionInv, LocksReleased, BeginsAlone, CommitsAlone, InCommit, At
  <1>4. CASE Crash
    <2>1. /\ \A h \in Handlers : task'[h] = NoTask
          /\ dmu' = None
          /\ \A s \in Sessions : txn'[s].mu = None /\ status'[s] # "committing"
      BY <1>4 DEF Crash, Goroutines, Inv, TypeOK, Txns
    <2>2. NoTask.op # "begin" /\ NoTask.pc \notin Committing
      BY DEF NoTask, Committing
    <2> QED
      BY <2>1, <2>2 DEF SessionInv, LocksReleased, BeginsAlone, CommitsAlone, InCommit
  <1> QED
    BY <1>2, <1>3, <1>4

-----------------------------------------------------------------------------

\* SessionInv holds in every state.
LEMMA SessionInvariance == Spec => []SessionInv
  <1>1. Inv /\ SessionInv /\ [Next]_vars => SessionInv'
    BY ArrivalSession, LoadSession, WorkerSession, PlainHandlerSession, BeginSession,
       CommitSession, BackgroundSession
    DEF Next, HandlerStep
  <1> QED
    BY <1>1, InitSession, Invariance, PTL DEF Spec

\* No return path keeps a lock: d.mu is held across steps by a BEGIN that is
\* loading, the mutex of a transaction by the COMMIT that is storing it, and
\* by nothing else, through every failure, cleanup and crash.
THEOREM LocksFree == Spec => []LocksReleased
  <1>1. SessionInv => LocksReleased
    BY DEF SessionInv
  <1> QED
    BY <1>1, SessionInvariance, PTL

\* However many COMMITs of a session arrive, and whatever ROLLBACK or cleanup
\* runs with them, one at most gets past the map.
THEOREM OneCommit == Spec => []CommitOnce
  <1>1. SessionInv => CommitOnce
    <2> SUFFICES ASSUME SessionInv, NEW s \in Sessions
                 PROVE  Cardinality({h \in Handlers : InCommit(h, s)})
                           = IF status[s] = "committing" THEN 1 ELSE 0
      BY DEF CommitOnce, InCommit, Committing
    <2>1. CASE status[s] = "committing"
      <3>1. PICK h \in Handlers : InCommit(h, s)
        BY <2>1 DEF SessionInv, CommitsAlone
      <3>2. {g \in Handlers : InCommit(g, s)} = {h}
        BY <3>1 DEF SessionInv, CommitsAlone
      <3> QED
        BY <2>1, <3>2, FS_Singleton
    <2>2. CASE status[s] # "committing"
      <3>1. {g \in Handlers : InCommit(g, s)} = {}
        BY <2>2 DEF SessionInv, CommitsAlone
      <3> QED
        BY <2>2, <3>1, FS_EmptySet
    <2> QED
      BY <2>1, <2>2
  <1> QED
    BY <1>1, SessionInvariance, PTL

-----------------------------------------------------------------------------
(* Names *)

\* The program counters at which a goroutine carries a version of the
\* database it works on.
Carrying == {"fill", "loaded", "store", "keygen", "register", "cacheNew"}

OwnTask(t) ==
    /\ task[t].pc \in Carrying => task[t].ver.owner = task[t].db
    /\ task[t].pc = "commitStore" => task[t].ver.owner = txn[task[t].ses].db

PointersOwn ==
    /\ \A d \in DBs : cache[d] # None => cache[d].owner = d
    /\ \A d \in DBs : ipns[d] # None => ipns[d].owner = d
    /\ \A p \in publishes : p.ver.owner = p.db

TasksOwn == \A t \in Goroutines : OwnTask(t)
TxnsOwn  == \A s \in Sessions : status[s] # "unused" => txn[s].ver.owner = txn[s].db

Own == PointersOwn /\ TasksOwn /\ TxnsOwn

\* What a client of a name reaches is then of that name.
LEMMA OwnParts == Own => OwnVersions
  BY DEF Own, PointersOwn, OwnVersions, Visible

\* The databases of an earlier run are their own.
LEMMA InitOwn == Init => Own
  BY ConstantsAssumption
  DEF Init, Own, PointersOwn, TasksOwn, TxnsOwn, OwnTask, Carrying, NoTask, EmptyVersion

-----------------------------------------------------------------------------

\* A statement keeps the owner of the version it runs on.
LEMMA ExecuteOwner ==
    ASSUME NEW v \in Versions, NEW w
    PROVE  Execute(v, w).owner = v.owner
  BY DEF Execute, Versions

\* One goroutine moves and carries what it should; the database of an open
\* transaction stays what it is.
LEMMA OneTaskOwn ==
    ASSUME Inv, TasksOwn, NEW t \in Goroutines,
           \A u \in Goroutines : u # t => task'[u] = task[u],
           \A s \in Sessions : status[s] # "unused" => txn'[s].db = txn[s].db,
           OwnTask(t)'
    PROVE  TasksOwn'
  <1> SUFFICES ASSUME NEW u \in Goroutines, u # t PROVE OwnTask(u)'
    BY DEF TasksOwn
  <1>1. task'[u] = task[u] /\ OwnTask(u)
    BY DEF TasksOwn
  <1>2. task[u].pc = "commitStore" => task[u].op = "commit"
    BY DEF Inv, ControlOK, Steps
  <1>3. task[u].pc = "commitStore" =>
           task[u].ses \in Sessions /\ status[task[u].ses] # "unused"
    BY <1>2, Running
  <1> QED
    BY <1>1, <1>3 DEF OwnTask

\* A call that returns carries nothing any more.
LEMMA ReturnOwn ==
    ASSUME Inv, TasksOwn, NEW t \in Goroutines, NEW r, Return(t, r),
           \A s \in Sessions : status[s] # "unused" => txn'[s].db = txn[s].db
    PROVE  TasksOwn'
  <1>1. task'[t].pc \in {"reply", "answer"} /\ \A u \in Goroutines : u # t => task'[u] = task[u]
    BY ReturnEffect
  <1>2. OwnTask(t)'
    BY <1>1 DEF OwnTask, Carrying
  <1> QED
    BY <1>1, <1>2, OneTaskOwn

\* A goroutine that goes on either carries nothing afterwards, or carried it
\* before.
LEMMA GotoOwn ==
    ASSUME Inv, TasksOwn, NEW t \in Goroutines, NEW pc, Goto(t, pc), pc # "commitStore",
           pc \in Carrying => task[t].pc \in Carrying, UNCHANGED txn
    PROVE  TasksOwn'
  <1>1. /\ task'[t].pc = pc /\ task'[t].ver = task[t].ver /\ task'[t].db = task[t].db
        /\ \A u \in Goroutines : u # t => task'[u] = task[u]
    BY GotoEffect, GotoMoves DEF Moves
  <1>2. OwnTask(t)'
    BY <1>1 DEF OwnTask, TasksOwn
  <1> QED
    BY <1>1, <1>2, OneTaskOwn

\* A goroutine that takes a version of its database along.
LEMMA GotoWithOwn ==
    ASSUME Inv, TasksOwn, NEW t \in Goroutines, NEW pc, NEW v, GotoWith(t, pc, v),
           pc # "commitStore", v.owner = task[t].db, UNCHANGED txn
    PROVE  TasksOwn'
  <1>1. /\ task'[t].pc = pc /\ task'[t].ver = v /\ task'[t].db = task[t].db
        /\ \A u \in Goroutines : u # t => task'[u] = task[u]
    BY GotoWithEffect, GotoWithMoves DEF Moves
  <1>2. OwnTask(t)'
    BY <1>1 DEF OwnTask
  <1> QED
    BY <1>1, <1>2, OneTaskOwn

\* A cache write of a version of the name it is written under.
LEMMA UpdateCacheOwn ==
    ASSUME Inv, PointersOwn, NEW d \in DBs, NEW v, v.owner = d, UpdateCache(d, v),
           UNCHANGED ipns, \A p \in publishes' : p \in publishes \/ p.ver.owner = p.db
    PROVE  PointersOwn'
  BY DEF PointersOwn, UpdateCache, Inv, TypeOK

-----------------------------------------------------------------------------

\* Calls and replies; a fork carries the name it is made for.
LEMMA ArrivalOwn ==
    ASSUME Inv, Own, NEW h \in Handlers, Arrival(h) \/ Reply(h)
    PROVE  Own'
  <1> USE DEF leveldbVars, ipfsVars, txnVars
  <1>1. /\ UNCHANGED <<cache, ipns, publishes, txn, status>>
        /\ h \in Goroutines /\ PointersOwn /\ TasksOwn /\ TxnsOwn
    BY DEF Arrival, CallSelect, CallWrite, CallBegin, CallExec, CallCommit, CallRollback,
           CallCreate, CallDelete, Arrive, Reply, Goroutines, Own
  <1>2. PointersOwn' /\ TxnsOwn'
    BY <1>1 DEF PointersOwn, TxnsOwn
  <1>3. ASSUME NEW k, task' = [task EXCEPT ![h] = k], k.pc # "commitStore",
               k.pc \in Carrying => k.ver.owner = k.db
        PROVE  TasksOwn'
    <2>1. task'[h] = k /\ \A u \in Goroutines : u # h => task'[u] = task[u]
      BY <1>1, <1>3 DEF Inv, TypeOK
    <2>2. OwnTask(h)'
      BY <1>3, <2>1 DEF OwnTask
    <2> QED
      BY <1>1, <2>1, <2>2, OneTaskOwn
  <1>4. CASE Reply(h)
    <2>1. NoTask.pc = "idle" /\ task' = [task EXCEPT ![h] = NoTask]
      BY <1>4 DEF Reply, NoTask
    <2> QED
      BY <1>2, <1>3, <2>1 DEF Own, Carrying
  <1>5. ASSUME NEW d \in DBs, CallCreate(h, d) PROVE TasksOwn'
    <2>1. PICK v : Arrive(h, [NoTask EXCEPT !.op = "create", !.pc = "keygen", !.db = d,
                                            !.ver = ForkVersion(d, v)])
      BY <1>5 DEF CallCreate
    <2> DEFINE k == [NoTask EXCEPT !.op = "create", !.pc = "keygen", !.db = d,
                                   !.ver = ForkVersion(d, v)]
    <2>2. k.pc = "keygen" /\ k.db = d /\ k.ver.owner = d
      BY DEF NoTask, ForkVersion
    <2>3. task' = [task EXCEPT ![h] = k]
      BY <2>1 DEF Arrive
    <2> HIDE DEF k
    <2> QED
      BY <1>3, <2>2, <2>3
  <1>6. ASSUME NEW c, Arrive(h, c), c.pc \notin Carrying \cup {"commitStore"} PROVE TasksOwn'
    BY <1>3, <1>6 DEF Arrive
  <1>7. ASSUME NEW d \in DBs, \/ CallSelect(h, d) \/ CallDelete(h, d)
                              \/ \E w \in Statements : CallWrite(h, d, w)
                              \/ \E s \in Sessions : CallBegin(h, d, s)
        PROVE  TasksOwn'
    BY <1>6, <1>7 DEF CallSelect, CallDelete, CallWrite, CallBegin, NoTask, Carrying
  <1>8. ASSUME NEW s \in Sessions, \/ CallCommit(h, s) \/ CallRollback(h, s)
                                   \/ \E w \in Writes : CallExec(h, s, w)
        PROVE  TasksOwn'
    BY <1>6, <1>8 DEF CallCommit, CallRollback, CallExec, NoTask, Carrying
  <1> QED
    BY <1>2, <1>4, <1>5, <1>7, <1>8 DEF Arrival, Own

\* A load yields what the name it was asked for resolves to.
LEMMA LoadOwn ==
    ASSUME Inv, Own, NEW t \in Goroutines, Load(t)
    PROVE  Own'
  <1> USE DEF leveldbVars, ipfsVars, txnVars
  <1>1. /\ UNCHANGED <<txn, status, ipns, publishes>>
        /\ PointersOwn /\ TasksOwn /\ TxnsOwn
    BY DEF Load, ReadCache, ReadEntry, Resolve, FillCache, AnswerRead, ReturnError, Own
  <1>2. TxnsOwn'
    BY <1>1 DEF TxnsOwn
  <1>3. task[t].pc \in {"load", "entry", "resolve", "fill"} => task[t].db \in DBs
    BY Running DEF Steps, HasArguments
  <1>4. CASE ReadCache(t)
    <2>1. task[t].pc = "load" /\ UNCHANGED cache
      BY <1>4 DEF ReadCache
    <2>2. cache[task[t].db] # None => cache[task[t].db].owner = task[t].db
      BY <1>1, <1>3, <2>1 DEF PointersOwn
    <2>3. TasksOwn'
      <3>1. ASSUME cache[task[t].db] # None PROVE TasksOwn'
        BY <1>1, <1>4, <2>2, <3>1, GotoWithOwn DEF ReadCache
      <3>2. ASSUME cache[task[t].db] = None PROVE TasksOwn'
        BY <1>1, <1>4, <3>2, GotoOwn DEF ReadCache, Carrying
      <3> QED
        BY <3>1, <3>2
    <2> QED
      BY <1>1, <1>2, <2>1, <2>3 DEF Own, PointersOwn
  <1>5a. CASE ReadEntry(t)
    <2>1. UNCHANGED cache /\ (Goto(t, "resolve") \/ Return(t, "error"))
      BY <1>5a DEF ReadEntry
    <2>2. TasksOwn'
      BY <1>1, <2>1, GotoOwn, ReturnOwn DEF Carrying
    <2> QED
      BY <1>1, <1>2, <2>1, <2>2 DEF Own, PointersOwn
  <1>5. CASE Resolve(t)
    <2>1. task[t].pc = "resolve" /\ UNCHANGED cache
      BY <1>5 DEF Resolve
    <2>2. ipns[task[t].db] # None => ipns[task[t].db].owner = task[t].db
      BY <1>1, <1>3, <2>1 DEF PointersOwn
    <2>3. TasksOwn'
      <3>1. \/ ipns[task[t].db] # None /\ GotoWith(t, "fill", ipns[task[t].db])
            \/ Return(t, "error")
        BY <1>5 DEF Resolve
      <3> QED
        BY <1>1, <2>2, <3>1, GotoWithOwn, ReturnOwn
    <2> QED
      BY <1>1, <1>2, <2>1, <2>3 DEF Own, PointersOwn
  <1>6. CASE FillCache(t)
    <2>1. task[t].pc = "fill" /\ UpdateCache(task[t].db, task[t].ver) /\ Goto(t, "loaded")
      BY <1>6 DEF FillCache
    <2>2. task[t].ver.owner = task[t].db
      BY <1>1, <2>1 DEF TasksOwn, OwnTask, Carrying
    <2>3. PointersOwn'
      BY <1>1, <1>3, <2>1, <2>2, UpdateCacheOwn
    <2>4. TasksOwn'
      BY <1>1, <2>1, GotoOwn DEF Carrying
    <2> QED
      BY <1>2, <2>3, <2>4 DEF Own
  <1>7. CASE AnswerRead(t) \/ ReturnError(t)
    <2>1. UNCHANGED cache /\ \E r : Return(t, r)
      BY <1>7 DEF AnswerRead, ReturnError
    <2>2. TasksOwn'
      BY <1>1, <2>1, ReturnOwn
    <2> QED
      BY <1>1, <1>2, <2>1, <2>2 DEF Own, PointersOwn
  <1> QED
    BY <1>4, <1>5a, <1>5, <1>6, <1>7 DEF Load

\* A worker writes under the name it is the worker of.
LEMMA WorkerOwn ==
    ASSUME Inv, Own, NEW d \in DBs, WorkerStep(d)
    PROVE  Own'
  <1> USE DEF leveldbVars, ipfsVars, txnVars
  <1>1. /\ UNCHANGED <<txn, status, ipns>>
        /\ PointersOwn /\ TasksOwn /\ TxnsOwn
        /\ d \in Goroutines /\ \A g \in Handlers : g \in Goroutines /\ g \notin DBs
    BY ConstantsAssumption
    DEF WorkerStep, TakeJob, ExecuteJob, StoreJob, AnswerJob, Own, Goroutines
  <1>2. TxnsOwn'
    BY <1>1 DEF TxnsOwn
  <1>3. task[d].op = "job" => task[d].db = d
    BY <1>1 DEF Inv, ControlOK
  <1>4. CASE TakeJob(d)
    <2>1. UNCHANGED <<cache, publishes>>
      BY <1>4 DEF TakeJob
    <2>2. task'[d].pc = "load" /\ \A u \in Goroutines : u # d => task'[u] = task[u]
      BY <1>1, <1>4 DEF TakeJob, Inv, TypeOK, NoTask
    <2>3. OwnTask(d)'
      BY <2>2 DEF OwnTask, Carrying
    <2>4. TasksOwn'
      BY <1>1, <2>2, <2>3, OneTaskOwn
    <2> QED
      BY <1>1, <1>2, <2>1, <2>4 DEF Own, PointersOwn
  <1>5. CASE ExecuteJob(d)
    <2> DEFINE v == Execute(task[d].ver, task[d].stmt)
    <2>1. UNCHANGED <<cache, publishes>> /\ GotoWith(d, "store", v) /\ At(d, "job", "loaded")
      BY <1>5 DEF ExecuteJob
    <2>2. task[d].ver \in Versions
      BY <1>1, <2>1 DEF At, Inv, ControlOK, HasArguments
    <2>3. v.owner = task[d].db
      BY <1>1, <2>1, <2>2, ExecuteOwner DEF At, TasksOwn, OwnTask, Carrying
    <2> HIDE DEF v
    <2>4. TasksOwn'
      BY <1>1, <2>1, <2>3, GotoWithOwn
    <2> QED
      BY <1>1, <1>2, <2>1, <2>4 DEF Own, PointersOwn
  <1>6. CASE StoreJob(d)
    <2>1. /\ At(d, "job", "store") /\ UpdateCache(d, task[d].ver)
          /\ Spawn(d, task[d].ver, task[d].stmt) /\ Return(d, "ok")
      BY <1>6 DEF StoreJob
    <2>2. task[d].ver.owner = d
      BY <1>1, <1>3, <2>1 DEF At, TasksOwn, OwnTask, Carrying
    <2>3. \A p \in publishes' : p \in publishes \/ p.ver.owner = p.db
      BY <2>1, <2>2 DEF Spawn
    <2>4. PointersOwn'
      BY <1>1, <2>1, <2>2, <2>3, UpdateCacheOwn
    <2>5. TasksOwn'
      BY <1>1, <2>1, ReturnOwn
    <2> QED
      BY <1>2, <2>4, <2>5 DEF Own
  <1>7. CASE AnswerJob(d)
    <2>1. UNCHANGED <<cache, publishes>>
      BY <1>7 DEF AnswerJob
    <2>2. PICK h \in Handlers : h = task[d].from /\ task[h] \in Tasks
      BY <1>1, <1>7, Running DEF AnswerJob, At, HasArguments, Inv, TypeOK
    <2>3. /\ task'[d] = NoTask /\ task'[h].pc = "reply"
          /\ \A u \in Goroutines : u # d /\ u # h => task'[u] = task[u]
      BY <1>1, <1>7, <2>2 DEF AnswerJob, Inv, TypeOK, Tasks
    <2>4. OwnTask(h)'
      BY <2>3 DEF OwnTask, Carrying
    <2>5. OwnTask(d)'
      <3>1. task'[d].pc = "idle"
        BY <2>3 DEF NoTask
      <3> QED
        BY <3>1 DEF OwnTask, Carrying
    <2>6. \A u \in Goroutines : u # d /\ u # h => OwnTask(u)'
      BY <1>1, <2>3 DEF TasksOwn, OwnTask
    <2>7. TasksOwn'
      BY <2>4, <2>5, <2>6 DEF TasksOwn
    <2> QED
      BY <1>1, <1>2, <2>1, <2>7 DEF Own, PointersOwn
  <1> QED
    BY <1>4, <1>5, <1>6, <1>7 DEF WorkerStep

\* A handler outside the store of a COMMIT: what it writes to a pointer or to
\* a transaction carries the name it is written under.
LEMMA HandlerOwn ==
    ASSUME Inv, SessionInv, Own, NEW h \in Handlers, HandlerStep(h)
    PROVE  Own'
  <1> USE DEF leveldbVars, ipfsVars, txnVars
  <1>1. /\ PointersOwn /\ TasksOwn /\ TxnsOwn /\ h \in Goroutines
        /\ txn \in [Sessions -> Txns] /\ status \in [Sessions -> Statuses]
    BY DEF Own, Goroutines, Inv, TypeOK
  <1>2. CASE \/ FindQueue(h) \/ Enqueue(h) \/ LockForBegin(h) \/ LookUpTransaction(h)
             \/ DeleteDatabase(h)
    <2>1. UNCHANGED <<cache, ipns, publishes, txn, status>>
      BY <1>2 DEF FindQueue, Enqueue, LockForBegin, LookUpTransaction, DeleteDatabase
    <2>2. \/ \E r : Return(h, r)
          \/ \E pc \in {"enqueue", "wait", "load", "run"} : Goto(h, pc)
      BY <1>2 DEF FindQueue, Enqueue, LockForBegin, LookUpTransaction, DeleteDatabase
    <2>3. TasksOwn'
      BY <1>1, <2>1, <2>2, ReturnOwn, GotoOwn DEF Carrying
    <2> QED
      BY <1>1, <2>1, <2>3 DEF Own, PointersOwn, TxnsOwn
  <1>3. CASE TakeForCommit(h) \/ RollbackTransaction(h)
    <2>1. UNCHANGED <<cache, ipns, publishes, txn>>
      BY <1>3 DEF TakeForCommit, RollbackTransaction
    <2>2. (\E r : Return(h, r)) \/ Goto(h, "commitAdd")
      BY <1>3 DEF TakeForCommit, RollbackTransaction
    <2>3. TasksOwn'
      BY <1>1, <2>1, <2>2, ReturnOwn, GotoOwn DEF Carrying
    <2>4. \A s \in Sessions : status'[s] # "unused" => status[s] # "unused"
      BY <1>1, <1>3 DEF TakeForCommit, RollbackTransaction, RemoveFromMap
    <2> QED
      BY <1>1, <2>1, <2>3, <2>4 DEF Own, PointersOwn, TxnsOwn
  <1>4. CASE OpenTransaction(h)
    <2> DEFINE s == task[h].ses
               x == [db |-> task[h].db, ver |-> task[h].ver, mu |-> None]
    <2>1. /\ At(h, "begin", "loaded") /\ Return(h, "ok")
          /\ status' = [status EXCEPT ![s] = "active"] /\ txn' = [txn EXCEPT ![s] = x]
          /\ UNCHANGED <<cache, ipns, publishes>>
      BY <1>4 DEF OpenTransaction
    <2>2. s \in Sessions /\ status[s] = "unused" /\ x.ver.owner = x.db
      <3>1. s \in Sessions /\ status[s] = "unused"
        BY <1>1, <2>1 DEF At, SessionInv, BeginsAlone, Inv, ControlOK, HasArguments
      <3>2. task[h].ver.owner = task[h].db
        BY <1>1, <2>1 DEF At, TasksOwn, OwnTask, Carrying
      <3> QED
        BY <3>1, <3>2
    <2> HIDE DEF s, x
    <2>3. /\ txn'[s] = x
          /\ \A r \in Sessions : r # s => txn'[r] = txn[r] /\ status'[r] = status[r]
      BY <1>1, <2>1, <2>2
    <2>4. TxnsOwn'
      BY <1>1, <2>2, <2>3 DEF TxnsOwn
    <2>5. TasksOwn'
      BY <1>1, <2>1, <2>2, <2>3, ReturnOwn
    <2> QED
      BY <1>1, <2>1, <2>4, <2>5 DEF Own, PointersOwn
  <1>5. CASE RunInTransaction(h)
    <2> DEFINE s == task[h].ses
               v == Execute(txn[s].ver, task[h].stmt)
    <2>1. /\ UNCHANGED <<cache, ipns, publishes, status>> /\ \E r : Return(h, r)
          /\ txn' = txn \/ txn' = [txn EXCEPT ![s].ver = v]
      BY <1>5 DEF RunInTransaction, SetState
    <2>2. s \in Sessions /\ status[s] # "unused" /\ txn[s].ver \in Versions
      BY <1>5, Handling DEF RunInTransaction, At
    <2>3. v.owner = txn[s].ver.owner
      BY <2>2, ExecuteOwner
    <2> HIDE DEF s, v
    <2>4. \A r \in Sessions : txn'[r].db = txn[r].db
                           /\ (txn'[r].ver = txn[r].ver \/ (r = s /\ txn'[r].ver = v))
      BY <1>1, <2>1, <2>2 DEF Txns
    <2>5. TxnsOwn'
      BY <1>1, <2>1, <2>3, <2>4 DEF TxnsOwn
    <2>6. TasksOwn'
      BY <1>1, <2>1, <2>4, ReturnOwn
    <2> QED
      BY <1>1, <2>1, <2>5, <2>6 DEF Own, PointersOwn
  <1>6. CASE CommitAdd(h)
    <2> DEFINE s == task[h].ses
    <2>1. s \in Sessions /\ status[s] # "unused"
      BY <1>6, Handling DEF CommitAdd, At
    <2>2. UNCHANGED <<cache, ipns, publishes>>
      BY <1>6 DEF CommitAdd
    <2>3. ASSUME txn' = [txn EXCEPT ![s].mu = h], GotoWith(h, "commitStore", txn[s].ver),
                 UNCHANGED status
          PROVE  TasksOwn' /\ TxnsOwn'
      <3>1. \A r \in Sessions : txn'[r].db = txn[r].db /\ txn'[r].ver = txn[r].ver
        BY <1>1, <2>1, <2>3 DEF Txns
      <3>2. /\ task'[h].pc = "commitStore" /\ task'[h].ver = txn[s].ver /\ task'[h].ses = s
            /\ \A u \in Goroutines : u # h => task'[u] = task[u]
        BY <1>1, <2>3, GotoWithEffect, GotoWithMoves DEF Moves
      <3> HIDE DEF s
      <3>3. OwnTask(h)'
        BY <1>1, <2>1, <3>1, <3>2 DEF OwnTask, Carrying, TxnsOwn
      <3>4. TasksOwn'
        BY <1>1, <3>1, <3>2, <3>3, OneTaskOwn
      <3> QED
        BY <1>1, <2>3, <3>1, <3>4 DEF TxnsOwn
    <2>4. ASSUME status' = [status EXCEPT ![s] = "failed"], Return(h, "error"), UNCHANGED txn
          PROVE  TasksOwn' /\ TxnsOwn'
      <3>1. TasksOwn'
        BY <1>1, <2>4, ReturnOwn
      <3>2. \A r \in Sessions : status'[r] # "unused" => status[r] # "unused"
        BY <1>1, <2>1, <2>4
      <3> QED
        BY <1>1, <2>4, <3>1, <3>2 DEF TxnsOwn
    <2>5. TasksOwn' /\ TxnsOwn'
      BY <1>6, <2>3, <2>4 DEF CommitAdd
    <2> QED
      BY <1>1, <2>2, <2>5 DEF Own, PointersOwn
  <1>7. CASE CommitStore(h)
    <2> DEFINE s == task[h].ses
               d == txn[s].db
               v == task[h].ver
    <2>1. s \in Sessions /\ status[s] # "unused" /\ d \in DBs
      BY <1>7, Handling DEF CommitStore, At
    <2>2. /\ UpdateCache(d, v) /\ Spawn(d, v, s) /\ Return(h, "ok") /\ UNCHANGED ipns
          /\ txn' = [txn EXCEPT ![s].mu = None]
          /\ status' = [status EXCEPT ![s] = "committed"]
      BY <1>7 DEF CommitStore, Unlock
    <2>3. v.owner = d
      BY <1>1, <1>7 DEF CommitStore, At, TasksOwn, OwnTask
    <2>4. \A r \in Sessions : txn'[r].db = txn[r].db /\ txn'[r].ver = txn[r].ver
      BY <1>1, <2>1, <2>2 DEF Txns
    <2> HIDE DEF s, d, v
    <2>5. \A p \in publishes' : p \in publishes \/ p.ver.owner = p.db
      BY <2>2, <2>3 DEF Spawn
    <2>6. PointersOwn'
      BY <1>1, <2>1, <2>2, <2>3, <2>5, UpdateCacheOwn
    <2>7. TasksOwn'
      BY <1>1, <2>2, <2>4, ReturnOwn
    <2>8. TxnsOwn'
      <3>1. \A r \in Sessions : status'[r] # "unused" => status[r] # "unused"
        BY <1>1, <2>1, <2>2
      <3> QED
        BY <1>1, <2>4, <3>1 DEF TxnsOwn
    <2> QED
      BY <2>6, <2>7, <2>8 DEF Own
  <1>8. CASE GenerateKey(h)
    <2> DEFINE d == task[h].db
               v == task[h].ver
    <2>1. At(h, "create", "keygen") /\ UNCHANGED <<cache, ipns, txn, status>>
      BY <1>8 DEF GenerateKey
    <2>2. v.owner = d
      BY <1>1, <2>1 DEF At, TasksOwn, OwnTask, Carrying
    <2>3. /\ UNCHANGED publishes \/ Spawn(d, v, d)
          /\ Return(h, "error") \/ Goto(h, "register")
      BY <1>8 DEF GenerateKey
    <2>4. TasksOwn'
      BY <1>1, <2>1, <2>3, ReturnOwn, GotoOwn DEF At, Carrying
    <2> HIDE DEF d, v
    <2>5. \A p \in publishes' : p \in publishes \/ p.ver.owner = p.db
      BY <2>2, <2>3 DEF Spawn
    <2> QED
      BY <1>1, <2>1, <2>4, <2>5 DEF Own, PointersOwn, TxnsOwn
  <1>9. CASE Register(h)
    <2>1. /\ At(h, "create", "register") /\ Goto(h, "cacheNew")
          /\ UNCHANGED <<cache, ipns, publishes, txn, status>>
      BY <1>9 DEF Register
    <2>2. TasksOwn'
      BY <1>1, <2>1, GotoOwn DEF At, Carrying
    <2> QED
      BY <1>1, <2>1, <2>2 DEF Own, PointersOwn, TxnsOwn
  <1>10. CASE CacheNew(h)
    <2>1. /\ At(h, "create", "cacheNew") /\ UpdateCache(task[h].db, task[h].ver)
          /\ Return(h, "ok") /\ UNCHANGED <<ipns, publishes, txn, status>>
      BY <1>10 DEF CacheNew
    <2>2. task[h].ver.owner = task[h].db /\ task[h].db \in DBs
      BY <1>1, <2>1 DEF At, TasksOwn, OwnTask, Carrying, Inv, ControlOK, HasArguments
    <2>3. PointersOwn'
      BY <1>1, <2>1, <2>2, UpdateCacheOwn
    <2>4. TasksOwn'
      BY <1>1, <2>1, ReturnOwn
    <2> QED
      BY <1>1, <2>1, <2>3, <2>4 DEF Own, TxnsOwn
  <1>11. CASE Reply(h)
    BY <1>11, ArrivalOwn
  <1> QED
    BY <1>2, <1>3, <1>4, <1>5, <1>6, <1>7, <1>8, <1>9, <1>10, <1>11 DEF HandlerStep

\* Publications write under the name they were made for; a crash carries
\* nothing over.
LEMMA BackgroundOwn ==
    ASSUME Inv, Own,
           \/ \E s \in Sessions : CleanupStale(s)
           \/ \E p \in publishes : FindEntry(p) \/ Publish(p) \/ PublishFails(p)
           \/ Crash
           \/ UNCHANGED vars
    PROVE  Own'
  <1> USE DEF leveldbVars, ipfsVars, txnVars, vars
  <1>1. /\ PointersOwn /\ TasksOwn /\ TxnsOwn
        /\ txn \in [Sessions -> Txns] /\ status \in [Sessions -> Statuses]
    BY DEF Own, Inv, TypeOK
  <1>2. CASE UNCHANGED vars
    BY <1>1, <1>2 DEF Own, PointersOwn, TasksOwn, TxnsOwn, OwnTask
  <1>3. ASSUME NEW s \in Sessions, CleanupStale(s) PROVE Own'
    <2>1. UNCHANGED <<cache, ipns, publishes, task, txn>>
      BY <1>3 DEF CleanupStale
    <2>2. \A r \in Sessions : status'[r] # "unused" => status[r] # "unused"
      BY <1>1, <1>3 DEF CleanupStale, RemoveFromMap
    <2> QED
      BY <1>1, <2>1, <2>2 DEF Own, PointersOwn, TasksOwn, TxnsOwn, OwnTask
  <1>4. ASSUME NEW p \in publishes, FindEntry(p) \/ Publish(p) \/ PublishFails(p) PROVE Own'
    <2>1. UNCHANGED <<cache, task, txn, status>> /\ NoNewPublication
      BY <1>4, PublicationStep DEF FindEntry, Publish, PublishFails
    <2>2. \A d \in DBs : ipns'[d] = ipns[d] \/ (d = p.db /\ ipns'[d] = p.ver)
      BY <1>4 DEF FindEntry, Publish, PublishFails, Inv, TypeOK
    <2> QED
      BY <1>1, <1>4, <2>1, <2>2 DEF NoNewPublication, Own, PointersOwn, TasksOwn, TxnsOwn, OwnTask
  <1>5. CASE Crash
    <2>1. /\ UNCHANGED <<cache, ipns>> /\ publishes' = {}
          /\ \A t \in Goroutines : task'[t] = NoTask
      BY <1>5 DEF Crash
    <2>2. \A r \in Sessions : /\ txn'[r].db = txn[r].db /\ txn'[r].ver = txn[r].ver
                              /\ status'[r] # "unused" => status[r] # "unused"
      BY <1>1, <1>5 DEF Crash, Txns
    <2>3. NoTask.pc = "idle"
      BY DEF NoTask
    <2>4. TasksOwn'
      BY <2>1, <2>3 DEF TasksOwn, OwnTask, Carrying
    <2> QED
      BY <1>1, <2>1, <2>2, <2>4 DEF Own, PointersOwn, TxnsOwn
  <1> QED
    BY <1>2, <1>3, <1>4, <1>5

\* Own holds in every state.
LEMMA OwnInvariance == Spec => []Own
  <1>1. Inv /\ SessionInv /\ Own /\ [Next]_vars => Own'
    BY ArrivalOwn, LoadOwn, WorkerOwn, HandlerOwn, BackgroundOwn DEF Next
  <1> QED
    BY <1>1, InitOwn, Invariance, SessionInvariance, PTL DEF Spec

\* Names never cross: whatever writes the cache entry or the IPNS record of a
\* name, a worker, a COMMIT, a reader that missed the cache, a creation, a
\* fork or a late publication, what it writes carries the key of that name.
THEOREM NamesNeverCross == Spec => []OwnVersions
  BY OwnParts, OwnInvariance, PTL

-----------------------------------------------------------------------------
(* One creator *)

\* h is past KeyGen in the creation of d and has not answered with an error.
Creating(h, d) ==
    /\ task[h].db = d
    /\ \/ At(h, "create", "register") \/ At(h, "create", "cacheNew")
       \/ At(h, "create", "reply") /\ task[h].res = "ok"

\* The key the IPFS node holds for a name is what shuts out a second creator.
CreatorsAlone ==
    \A d \in DBs :
        /\ \A g, h \in Handlers : Creating(g, d) /\ Creating(h, d) => g = h
        /\ \A h \in Handlers : Creating(h, d) => d \in keys /\ d \notin keyHolders
        /\ d \in keyHolders => d \in keys

\* A step after which nobody creates a name who did not before.
LEMMA NoNewCreator ==
    ASSUME CreatorsAlone, keys \subseteq keys', UNCHANGED keyHolders,
           \A h \in Handlers, d \in DBs : Creating(h, d)' => Creating(h, d)
    PROVE  CreatorsAlone'
  BY DEF CreatorsAlone

\* One goroutine moves, and is not creating afterwards unless it was before.
LEMMA OneMovesCreator ==
    ASSUME Inv, CreatorsAlone, NEW t \in Goroutines,
           \A u \in Goroutines : u # t => task'[u] = task[u],
           keys \subseteq keys', UNCHANGED keyHolders,
           \A d \in DBs : Creating(t, d)' => Creating(t, d)
    PROVE  CreatorsAlone'
  <1>1. \A h \in Handlers, d \in DBs : Creating(h, d)' => Creating(h, d)
    BY DEF Creating, At, Goroutines
  <1> QED
    BY <1>1, NoNewCreator

\* A call that is no creation stays none.
LEMMA OtherCreator ==
    ASSUME Inv, CreatorsAlone, NEW t \in Goroutines, Moves(t), task[t].op # "create",
           keys \subseteq keys', UNCHANGED keyHolders
    PROVE  CreatorsAlone'
  BY OneMovesCreator DEF Moves, Creating, At

\* A call that fails creates nothing any more.
LEMMA ErrorCreator ==
    ASSUME Inv, CreatorsAlone, NEW t \in Goroutines, Return(t, "error"),
           keys \subseteq keys', UNCHANGED keyHolders
    PROVE  CreatorsAlone'
  <1>1. Moves(t) /\ task'[t].res = "error" /\ task'[t].pc \in {"reply", "answer"}
    BY ReturnMoves
  <1> QED
    BY <1>1, OneMovesCreator DEF Moves, Creating, At

\* Nobody creates a name when the server starts.
LEMMA InitCreators == Init => CreatorsAlone
  <1> SUFFICES ASSUME Init PROVE CreatorsAlone
    OBVIOUS
  <1>1. \A h \in Handlers : task[h] = NoTask
    BY DEF Init, Goroutines
  <1> QED
    BY <1>1 DEF Init, CreatorsAlone, Creating, At, NoTask

\* A call that arrives has created nothing; the reply to a creation hands out
\* the key and ends it.
LEMMA ArrivalCreators ==
    ASSUME Inv, CreatorsAlone, NEW h \in Handlers, Arrival(h) \/ Reply(h)
    PROVE  CreatorsAlone'
  <1> USE DEF ipfsVars
  <1>1. h \in Goroutines /\ UNCHANGED keys
    BY DEF Goroutines, Arrival, CallSelect, CallWrite, CallBegin, CallExec, CallCommit,
       CallRollback, CallCreate, CallDelete, Arrive, Reply
  <1>2. CASE Arrival(h)
    <2>1. ASSUME NEW c, Arrive(h, c), c.pc \notin {"register", "cacheNew", "reply"}
          PROVE  CreatorsAlone'
      <3>1. /\ task'[h] = c /\ UNCHANGED keyHolders
            /\ \A u \in Goroutines : u # h => task'[u] = task[u]
        BY <1>1, <2>1 DEF Arrive, Inv, TypeOK
      <3> QED
        BY <1>1, <2>1, <3>1, OneMovesCreator DEF Creating, At
    <2>2. ASSUME NEW d \in DBs, \/ CallSelect(h, d) \/ CallDelete(h, d) \/ CallCreate(h, d)
                                \/ \E w \in Statements : CallWrite(h, d, w)
                                \/ \E s \in Sessions : CallBegin(h, d, s)
          PROVE  CreatorsAlone'
      BY <2>1, <2>2 DEF CallSelect, CallDelete, CallCreate, CallWrite, CallBegin, NoTask
    <2>3. ASSUME NEW s \in Sessions, \/ CallCommit(h, s) \/ CallRollback(h, s)
                                     \/ \E w \in Writes : CallExec(h, s, w)
          PROVE  CreatorsAlone'
      BY <2>1, <2>3 DEF CallCommit, CallRollback, CallExec, NoTask
    <2> QED
      BY <1>2, <2>2, <2>3 DEF Arrival
  <1>3. CASE Reply(h)
    <2>1. /\ task[h].pc = "reply" /\ task'[h].pc = "idle"
          /\ \A u \in Goroutines : u # h => task'[u] = task[u]
      BY <1>1, <1>3 DEF Reply, Inv, TypeOK, NoTask
    <2>2. \A g \in Handlers, d \in DBs : Creating(g, d)' => g # h /\ Creating(g, d)
      BY <2>1 DEF Creating, At, Goroutines
    <2>3. CASE task[h].op = "create" /\ task[h].res = "ok"
      <3>1. keyHolders' = keyHolders \cup {task[h].db} /\ Creating(h, task[h].db)
        BY <1>3, <2>1, <2>3 DEF Reply, Creating, At
      <3> QED
        BY <1>1, <2>2, <3>1 DEF CreatorsAlone
    <2>4. CASE ~(task[h].op = "create" /\ task[h].res = "ok")
      BY <1>1, <1>3, <2>2, <2>4, NoNewCreator DEF Reply
    <2> QED
      BY <2>3, <2>4
  <1> QED
    BY <1>2, <1>3

\* A load is part of no creation.
LEMMA LoadCreators ==
    ASSUME Inv, CreatorsAlone, NEW t \in Goroutines, Load(t)
    PROVE  CreatorsAlone'
  <1> USE DEF ipfsVars, clientVars
  <1>1. UNCHANGED <<keys, keyHolders>>
    BY DEF Load, ReadCache, ReadEntry, Resolve, FillCache, AnswerRead, ReturnError
  <1>2. \/ Return(t, "error")
        \/ Moves(t) /\ task[t].op # "create"
    <2>1. CASE ReadCache(t) \/ FillCache(t)
      <3>1. task[t].op # "create"
        BY <2>1, Running DEF ReadCache, FillCache, Steps
      <3> QED
        BY <2>1, <3>1, GotoMoves, GotoWithMoves DEF ReadCache, FillCache
    <2>2. CASE ReadEntry(t) \/ Resolve(t)
      <3>1. task[t].op # "create"
        BY <2>2, Running DEF ReadEntry, Resolve, Steps
      <3> QED
        BY <2>2, <3>1, GotoMoves, GotoWithMoves DEF ReadEntry, Resolve
    <2>3. CASE AnswerRead(t) \/ ReturnError(t)
      BY <2>3, ReturnMoves DEF AnswerRead, ReturnError
    <2> QED
      BY <2>1, <2>2, <2>3 DEF Load
  <1> QED
    BY <1>1, <1>2, ErrorCreator, OtherCreator

\* A worker creates nothing.
LEMMA WorkerCreators ==
    ASSUME Inv, CreatorsAlone, NEW d \in DBs, WorkerStep(d)
    PROVE  CreatorsAlone'
  <1> USE DEF ipfsVars, clientVars
  <1>1. UNCHANGED <<keys, keyHolders>>
    BY DEF WorkerStep, TakeJob, ExecuteJob, StoreJob, AnswerJob
  <1>2. d \in Goroutines /\ \A h \in Handlers : h \in Goroutines /\ h # d
    BY ConstantsAssumption DEF Goroutines
  <1>3. CASE TakeJob(d)
    <2>1. \A h \in Handlers : task'[h] = task[h]
      BY <1>2, <1>3 DEF TakeJob, Inv, TypeOK
    <2> QED
      BY <1>1, <2>1, NoNewCreator DEF Creating, At
  <1>4. CASE ExecuteJob(d) \/ StoreJob(d)
    <2>1. task[d].op # "create"
      BY <1>4 DEF ExecuteJob, StoreJob, At
    <2>2. (\E v : GotoWith(d, "store", v)) \/ Return(d, "ok")
      BY <1>4 DEF ExecuteJob, StoreJob
    <2>3. Moves(d)
      BY <1>2, <2>2, GotoWithMoves, ReturnMoves
    <2> QED
      BY <1>1, <1>2, <2>1, <2>3, OtherCreator
  <1>5. CASE AnswerJob(d)
    <2>1. PICK h \in Handlers : h = task[d].from /\ task[h] \in Tasks
      BY <1>2, <1>5, Running DEF AnswerJob, At, HasArguments, Inv, TypeOK
    <2>2. task[h].pc = "wait"
      BY <1>5, <2>1 DEF AnswerJob
    <2>3. task[h].op = "write"
      BY <1>2, <2>1, <2>2 DEF Inv, ControlOK, Steps
    <2>4. /\ task'[h].op = task[h].op
          /\ \A u \in Handlers : u # h => task'[u] = task[u]
      BY <1>2, <1>5, <2>1 DEF AnswerJob, Inv, TypeOK, Tasks
    <2> QED
      BY <1>1, <2>3, <2>4, NoNewCreator DEF Creating, At
  <1> QED
    BY <1>3, <1>4, <1>5 DEF WorkerStep

\* KeyGen lets one creation of a name through.
LEMMA HandlerCreators ==
    ASSUME Inv, CreatorsAlone, NEW h \in Handlers, HandlerStep(h)
    PROVE  CreatorsAlone'
  <1> USE DEF ipfsVars, clientVars
  <1>1. h \in Goroutines
    BY DEF Goroutines
  <1>2. CASE \/ FindQueue(h) \/ Enqueue(h) \/ LockForBegin(h) \/ OpenTransaction(h)
             \/ LookUpTransaction(h) \/ RunInTransaction(h) \/ TakeForCommit(h)
             \/ CommitAdd(h) \/ CommitStore(h) \/ RollbackTransaction(h) \/ DeleteDatabase(h)
    <2>1. UNCHANGED <<keys, keyHolders>> /\ task[h].op # "create"
      BY <1>2 DEF FindQueue, Enqueue, LockForBegin, OpenTransaction, LookUpTransaction,
         RunInTransaction, TakeForCommit, CommitAdd, CommitStore, RollbackTransaction,
         DeleteDatabase, At
    <2>2. (\E r : Return(h, r)) \/ (\E pc : Goto(h, pc)) \/ (\E pc, v : GotoWith(h, pc, v))
      <3>1. CASE FindQueue(h) \/ Enqueue(h) \/ LockForBegin(h) \/ OpenTransaction(h)
        BY <3>1 DEF FindQueue, Enqueue, LockForBegin, OpenTransaction
      <3>2. CASE LookUpTransaction(h) \/ RunInTransaction(h) \/ TakeForCommit(h)
        BY <3>2 DEF LookUpTransaction, RunInTransaction, TakeForCommit
      <3>3. CASE \/ CommitAdd(h) \/ CommitStore(h) \/ RollbackTransaction(h)
                 \/ DeleteDatabase(h)
        BY <3>3 DEF CommitAdd, CommitStore, RollbackTransaction, DeleteDatabase
      <3> QED
        BY <1>2, <3>1, <3>2, <3>3
    <2>3. Moves(h)
      BY <1>1, <2>2, GotoMoves, GotoWithMoves, ReturnMoves
    <2> QED
      BY <1>1, <2>1, <2>3, OtherCreator
  <1>3. CASE GenerateKey(h)
    <2>1. At(h, "create", "keygen") /\ UNCHANGED keyHolders
      BY <1>3 DEF GenerateKey
    <2>2. ASSUME Return(h, "error"), UNCHANGED keys PROVE CreatorsAlone'
      BY <1>1, <2>1, <2>2, ErrorCreator
    <2>3. ASSUME ~NameTaken(task[h].db), keys' = keys \cup {task[h].db}, Goto(h, "register")
          PROVE  CreatorsAlone'
      <3>1. /\ task'[h].db = task[h].db
            /\ \A u \in Goroutines : u # h => task'[u] = task[u]
        BY <1>1, <2>3, GotoMoves DEF Moves
      <3>2. \A g \in Handlers, d \in DBs :
               Creating(g, d)' => (g = h /\ d = task[h].db) \/ (g # h /\ Creating(g, d))
        BY <3>1 DEF Creating, At, Goroutines
      <3> QED
        BY <2>1, <2>3, <3>2 DEF CreatorsAlone, NameTaken
    <2> QED
      BY <1>3, <2>2, <2>3 DEF GenerateKey
  <1>4. CASE Register(h) \/ CacheNew(h)
    <2>1. /\ UNCHANGED <<keys, keyHolders>>
          /\ At(h, "create", "register") \/ At(h, "create", "cacheNew")
      BY <1>4 DEF Register, CacheNew
    <2>2. Moves(h)
      BY <1>1, <1>4, GotoMoves, ReturnMoves DEF Register, CacheNew
    <2> QED
      BY <1>1, <2>1, <2>2, OneMovesCreator DEF Moves, Creating
  <1>5. CASE Reply(h)
    BY <1>5, ArrivalCreators
  <1> QED
    BY <1>2, <1>3, <1>4, <1>5 DEF HandlerStep

\* A crash ends all creations and forgets no key.
LEMMA BackgroundCreators ==
    ASSUME Inv, CreatorsAlone,
           \/ \E s \in Sessions : CleanupStale(s)
           \/ \E p \in publishes : FindEntry(p) \/ Publish(p) \/ PublishFails(p)
           \/ Crash
           \/ UNCHANGED vars
    PROVE  CreatorsAlone'
  <1> USE DEF ipfsVars, clientVars, vars
  <1>1. CASE ~Crash
    <2>1. UNCHANGED <<keys, keyHolders, task>>
      BY <1>1 DEF CleanupStale, FindEntry, Publish, PublishFails
    <2> QED
      BY <2>1, NoNewCreator DEF Creating, At
  <1>2. CASE Crash
    <2>1. UNCHANGED <<keys, keyHolders>> /\ \A h \in Handlers : task'[h] = NoTask
      BY <1>2 DEF Crash, Goroutines
    <2> QED
      BY <2>1, NoNewCreator DEF Creating, At, NoTask
  <1> QED
    BY <1>1, <1>2

\* One call creates a name, whatever other creations and forks of the name
\* run with it, and none does after its key has been handed out.
THEOREM NamesCreatedOnce == Spec => []OneCreator
  <1>1. Inv /\ CreatorsAlone /\ [Next]_vars => CreatorsAlone'
    BY ArrivalCreators, LoadCreators, WorkerCreators, HandlerCreators, BackgroundCreators
    DEF Next
  <1>2. CreatorsAlone => OneCreator
    <2> SUFFICES ASSUME CreatorsAlone, NEW d \in DBs
                 PROVE  Cardinality({h \in Handlers : Creating(h, d)})
                           + (IF d \in keyHolders THEN 1 ELSE 0) <= 1
      <3>1. \A d \in DBs :
               {h \in Handlers : Creating(h, d)}
                  = {h \in {g \in Handlers : \/ At(g, "create", "register")
                                             \/ At(g, "create", "cacheNew")
                                             \/ (At(g, "create", "reply") /\ task[g].res = "ok")} :
                        task[h].db = d}
        BY DEF Creating
      <3> QED
        BY <3>1 DEF OneCreator
    <2>1. CASE \E h \in Handlers : Creating(h, d)
      <3>1. PICK h \in Handlers : Creating(h, d)
        BY <2>1
      <3>2. {g \in Handlers : Creating(g, d)} = {h} /\ d \notin keyHolders
        BY <3>1 DEF CreatorsAlone
      <3> QED
        BY <3>2, FS_Singleton
    <2>2. CASE ~\E h \in Handlers : Creating(h, d)
      <3>1. {g \in Handlers : Creating(g, d)} = {}
        BY <2>2
      <3> QED
        BY <3>1, FS_EmptySet
    <2> QED
      BY <2>1, <2>2
  <1> QED
    BY <1>1, <1>2, InitCreators, Invariance, PTL DEF Spec

-----------------------------------------------------------------------------
(* A name whose creation was acknowledged loads from the cache *)

\* The creation of a name has succeeded and its reply is on the way.
Created(h) == At(h, "create", "reply") /\ task[h].res = "ok"

Cached == faults = 0 => /\ \A d \in keyHolders : cache[d] # None
                        /\ \A h \in Handlers : Created(h) => cache[task[h].db] # None

\* As long as no cache write fails, an entry is replaced but never removed.
CacheStays == faults' = 0 => faults = 0 /\ \A d \in DBs : cache[d] # None => cache'[d] # None

\* A cache write that succeeds leaves an entry.
LEMMA UpdateCacheStays ==
    ASSUME Inv, NEW d \in DBs, NEW v \in Versions, UpdateCache(d, v)
    PROVE  CacheStays /\ (faults' = 0 => cache'[d] # None)
  <1>1. cache \in [DBs -> CIDs] /\ faults \in Nat /\ v # None
    BY ConstantsAssumption DEF Inv, TypeOK
  <1>2. CASE cache' = [cache EXCEPT ![d] = v] /\ UNCHANGED faults
    BY <1>1, <1>2 DEF CacheStays
  <1>3. CASE faults' = faults + 1
    BY <1>1, <1>3 DEF CacheStays
  <1> QED
    BY <1>2, <1>3 DEF UpdateCache

\* Cached is kept when nobody else gets to know that a creation succeeded.
LEMMA CachedKept ==
    ASSUME Inv, Cached, CacheStays, UNCHANGED keyHolders,
           \A h \in Handlers : Created(h)' => Created(h) /\ task'[h].db = task[h].db
    PROVE  Cached'
  <1>1. \A h \in Handlers : Created(h) => task[h].db \in DBs
    BY DEF Created, At, Inv, ControlOK, HasArguments, Goroutines
  <1>2. keyHolders \subseteq DBs
    BY DEF Inv, TypeOK
  <1> QED
    BY <1>1, <1>2 DEF Cached, CacheStays

\* One goroutine moves, and not by completing a creation.
LEMMA MoveCached ==
    ASSUME Inv, Cached, CacheStays, UNCHANGED keyHolders, NEW t \in Goroutines, Moves(t),
           task[t].op # "create" \/ task'[t].pc # "reply" \/ task'[t].res # "ok"
    PROVE  Cached'
  <1>1. \A h \in Handlers : Created(h)' => Created(h) /\ task'[h].db = task[h].db
    BY DEF Created, At, Moves, Goroutines
  <1> QED
    BY <1>1, CachedKept

\* The server starts with the databases an earlier run created in its cache.
LEMMA InitCached == Init => Cached
  <1> SUFFICES ASSUME Init PROVE Cached
    OBVIOUS
  <1>1. \A d \in Existing : cache[d] \in Versions
    BY EmptyVersionType, ConstantsAssumption DEF Init
  <1>2. \A h \in Handlers : ~Created(h)
    BY DEF Init, Created, At, NoTask, Goroutines
  <1> QED
    BY <1>1, <1>2, ConstantsAssumption DEF Init, Cached

\* The reply to a creation tells its client of an entry that is there.
LEMMA ArrivalCached ==
    ASSUME Inv, Cached, NEW h \in Handlers, Arrival(h) \/ Reply(h)
    PROVE  Cached'
  <1> USE DEF leveldbVars
  <1>1. h \in Goroutines /\ UNCHANGED <<cache, faults>>
    BY DEF Goroutines, Arrival, CallSelect, CallWrite, CallBegin, CallExec, CallCommit,
       CallRollback, CallCreate, CallDelete, Arrive, Reply
  <1>2. CacheStays
    BY <1>1 DEF CacheStays
  <1>3. CASE Arrival(h)
    <2>1. ASSUME NEW c, Arrive(h, c), c.pc # "reply" PROVE Cached'
      <3>1. /\ task'[h] = c /\ UNCHANGED keyHolders
            /\ \A u \in Goroutines : u # h => task'[u] = task[u]
        BY <1>1, <2>1 DEF Arrive, Inv, TypeOK
      <3>2. \A g \in Handlers : Created(g)' => Created(g) /\ task'[g].db = task[g].db
        BY <2>1, <3>1 DEF Created, At, Goroutines
      <3> QED
        BY <1>2, <3>1, <3>2, CachedKept
    <2>2. ASSUME NEW d \in DBs, \/ CallSelect(h, d) \/ CallDelete(h, d) \/ CallCreate(h, d)
                                \/ \E w \in Statements : CallWrite(h, d, w)
                                \/ \E s \in Sessions : CallBegin(h, d, s)
          PROVE  Cached'
      BY <2>1, <2>2 DEF CallSelect, CallDelete, CallCreate, CallWrite, CallBegin, NoTask
    <2>3. ASSUME NEW s \in Sessions, \/ CallCommit(h, s) \/ CallRollback(h, s)
                                     \/ \E w \in Writes : CallExec(h, s, w)
          PROVE  Cached'
      BY <2>1, <2>3 DEF CallCommit, CallRollback, CallExec, NoTask
    <2> QED
      BY <1>3, <2>2, <2>3 DEF Arrival
  <1>4. CASE Reply(h)
    <2>1. /\ task'[h].pc = "idle" /\ \A u \in Goroutines : u # h => task'[u] = task[u]
      BY <1>1, <1>4 DEF Reply, Inv, TypeOK, NoTask
    <2>2. \A g \in Handlers : Created(g)' => Created(g) /\ task'[g].db = task[g].db
      BY <2>1 DEF Created, At, Goroutines
    <2>3. \/ keyHolders' = keyHolders
          \/ keyHolders' = keyHolders \cup {task[h].db} /\ Created(h)
      BY <1>4 DEF Reply, Created, At
    <2> QED
      BY <1>1, <1>2, <2>2, <2>3, CachedKept DEF Cached
  <1> QED
    BY <1>3, <1>4

\* A load creates nothing.
LEMMA LoadCached ==
    ASSUME Inv, Cached, NEW t \in Goroutines, Load(t)
    PROVE  Cached'
  <1> USE DEF leveldbVars, clientVars
  <1>1. UNCHANGED keyHolders
    BY DEF Load, ReadCache, ReadEntry, Resolve, FillCache, AnswerRead, ReturnError
  <1>2. CacheStays
    <2>1. CASE FillCache(t)
      <3>1. task[t].pc = "fill" /\ UpdateCache(task[t].db, task[t].ver)
        BY <2>1 DEF FillCache
      <3>2. task[t].db \in DBs /\ task[t].ver \in Versions
        BY <3>1, Running DEF HasArguments, Steps
      <3> QED
        BY <3>1, <3>2, UpdateCacheStays
    <2>2. CASE ReadCache(t) \/ ReadEntry(t) \/ Resolve(t) \/ AnswerRead(t) \/ ReturnError(t)
      BY <2>2 DEF ReadCache, ReadEntry, Resolve, AnswerRead, ReturnError, CacheStays
    <2> QED
      BY <2>1, <2>2 DEF Load
  <1>3. Moves(t) /\ (task[t].op # "create" \/ task'[t].res # "ok" \/ task'[t].pc # "reply")
    <2>1. CASE Return(t, "error")
      BY <2>1, ReturnMoves
    <2>2. CASE AnswerRead(t)
      BY <2>2, ReturnMoves DEF AnswerRead
    <2>3. CASE (\E pc \in {"entry", "resolve", "loaded"} : Goto(t, pc))
               \/ (\E v : \E pc \in {"loaded", "fill"} : GotoWith(t, pc, v))
      BY <2>3, GotoMoves, GotoWithMoves
    <2> QED
      BY <2>1, <2>2, <2>3 DEF Load, ReadCache, ReadEntry, Resolve, FillCache, ReturnError
  <1> QED
    BY <1>1, <1>2, <1>3, MoveCached

\* A worker creates nothing.
LEMMA WorkerCached ==
    ASSUME Inv, Cached, NEW d \in DBs, WorkerStep(d)
    PROVE  Cached'
  <1> USE DEF leveldbVars, clientVars
  <1>1. /\ UNCHANGED keyHolders /\ d \in Goroutines
        /\ \A h \in Handlers : h \in Goroutines /\ h # d
    BY ConstantsAssumption
    DEF WorkerStep, TakeJob, ExecuteJob, StoreJob, AnswerJob, Goroutines
  <1>2. CacheStays
    <2>1. CASE StoreJob(d)
      <3>1. At(d, "job", "store") /\ UpdateCache(d, task[d].ver)
        BY <2>1 DEF StoreJob
      <3>2. task[d].ver \in Versions
        BY <1>1, <3>1 DEF At, Inv, ControlOK, HasArguments
      <3> QED
        BY <3>1, <3>2, UpdateCacheStays
    <2>2. CASE TakeJob(d) \/ ExecuteJob(d) \/ AnswerJob(d)
      BY <2>2 DEF TakeJob, ExecuteJob, AnswerJob, CacheStays
    <2> QED
      BY <2>1, <2>2 DEF WorkerStep
  <1>3. CASE TakeJob(d)
    <2>1. \A h \in Handlers : task'[h] = task[h]
      BY <1>1, <1>3 DEF TakeJob, Inv, TypeOK
    <2> QED
      BY <1>1, <1>2, <2>1, CachedKept DEF Created, At
  <1>4. CASE ExecuteJob(d) \/ StoreJob(d)
    <2>1. task[d].op # "create" /\ ((\E v : GotoWith(d, "store", v)) \/ Return(d, "ok"))
      BY <1>4 DEF ExecuteJob, StoreJob, At
    <2>2. Moves(d)
      BY <1>1, <2>1, GotoWithMoves, ReturnMoves
    <2> QED
      BY <1>1, <1>2, <2>1, <2>2, MoveCached
  <1>5. CASE AnswerJob(d)
    <2>1. PICK h \in Handlers : h = task[d].from /\ task[h] \in Tasks
      BY <1>1, <1>5, Running DEF AnswerJob, At, HasArguments, Inv, TypeOK
    <2>2. task[h].op = "write"
      BY <1>1, <1>5, <2>1 DEF AnswerJob, Inv, ControlOK, Steps
    <2>3. task'[h].op = task[h].op /\ \A u \in Handlers : u # h => task'[u] = task[u]
      BY <1>1, <1>5, <2>1 DEF AnswerJob, Inv, TypeOK, Tasks
    <2> QED
      BY <1>1, <1>2, <2>2, <2>3, CachedKept DEF Created, At
  <1> QED
    BY <1>3, <1>4, <1>5 DEF WorkerStep

\* A creation succeeds with its cache write.
LEMMA HandlerCached ==
    ASSUME Inv, Cached, NEW h \in Handlers, HandlerStep(h)
    PROVE  Cached'
  <1> USE DEF leveldbVars, clientVars
  <1>1. h \in Goroutines
    BY DEF Goroutines
  <1>2. CASE \/ FindQueue(h) \/ Enqueue(h) \/ LockForBegin(h) \/ OpenTransaction(h)
             \/ LookUpTransaction(h) \/ RunInTransaction(h) \/ TakeForCommit(h)
             \/ CommitAdd(h) \/ RollbackTransaction(h) \/ DeleteDatabase(h)
    <2>1. task[h].op # "create" /\ UNCHANGED <<cache, faults, keyHolders>>
      BY <1>2 DEF FindQueue, Enqueue, LockForBegin, OpenTransaction, LookUpTransaction,
         RunInTransaction, SetState, TakeForCommit, CommitAdd, RollbackTransaction,
         DeleteDatabase, At
    <2>2. (\E r : Return(h, r)) \/ (\E pc : Goto(h, pc)) \/ (\E pc, v : GotoWith(h, pc, v))
      <3>1. CASE FindQueue(h) \/ Enqueue(h) \/ LockForBegin(h) \/ OpenTransaction(h)
        BY <3>1 DEF FindQueue, Enqueue, LockForBegin, OpenTransaction
      <3>2. CASE LookUpTransaction(h) \/ RunInTransaction(h) \/ TakeForCommit(h)
        BY <3>2 DEF LookUpTransaction, RunInTransaction, TakeForCommit
      <3>3. CASE CommitAdd(h) \/ RollbackTransaction(h) \/ DeleteDatabase(h)
        BY <3>3 DEF CommitAdd, RollbackTransaction, DeleteDatabase
      <3> QED
        BY <1>2, <3>1, <3>2, <3>3
    <2>3. Moves(h)
      BY <1>1, <2>2, GotoMoves, GotoWithMoves, ReturnMoves
    <2> QED
      BY <1>1, <2>1, <2>3, MoveCached DEF CacheStays
  <1>3. CASE CommitStore(h)
    <2>1. At(h, "commit", "commitStore") /\ Return(h, "ok") /\ UNCHANGED keyHolders
          /\ UpdateCache(txn[task[h].ses].db, task[h].ver)
      BY <1>3 DEF CommitStore
    <2>2. txn[task[h].ses].db \in DBs /\ task[h].ver \in Versions
      BY <2>1, Handling DEF At, HasArguments
    <2>3. CacheStays
      BY <2>1, <2>2, UpdateCacheStays
    <2>4. Moves(h)
      BY <1>1, <2>1, ReturnMoves
    <2> QED
      BY <1>1, <2>1, <2>3, <2>4, MoveCached DEF At
  <1>4. CASE GenerateKey(h) \/ Register(h)
    <2>1. UNCHANGED <<cache, faults, keyHolders>>
          /\ (Return(h, "error") \/ Goto(h, "register") \/ Goto(h, "cacheNew"))
      BY <1>4 DEF GenerateKey, Register
    <2>2. Moves(h) /\ (task'[h].pc # "reply" \/ task'[h].res # "ok")
      BY <1>1, <2>1, GotoMoves, ReturnMoves
    <2> QED
      BY <1>1, <2>1, <2>2, MoveCached DEF CacheStays
  <1>5. CASE CacheNew(h)
    <2>1. /\ At(h, "create", "cacheNew") /\ UpdateCache(task[h].db, task[h].ver)
          /\ Return(h, "ok") /\ UNCHANGED keyHolders
      BY <1>5 DEF CacheNew
    <2>2. task[h].db \in DBs /\ task[h].ver \in Versions
      BY <2>1, Handling DEF At, HasArguments
    <2>3. CacheStays /\ (faults' = 0 => cache'[task[h].db] # None)
      BY <2>1, <2>2, UpdateCacheStays
    <2>4. Moves(h)
      BY <1>1, <2>1, ReturnMoves
    <2>5. \A g \in Handlers : Created(g) => task[g].db \in DBs
      BY DEF Created, At, Inv, ControlOK, HasArguments, Goroutines
    <2>6. \A g \in Handlers : Created(g)' => /\ task'[g].db = task[g].db
                                             /\ g = h \/ Created(g)
      BY <2>4 DEF Created, At, Moves, Goroutines
    <2>7. keyHolders \subseteq DBs
      BY DEF Inv, TypeOK
    <2> QED
      BY <2>1, <2>3, <2>5, <2>6, <2>7 DEF Cached, CacheStays
  <1>6. CASE Reply(h)
    BY <1>6, ArrivalCached
  <1> QED
    BY <1>2, <1>3, <1>4, <1>5, <1>6 DEF HandlerStep

\* The LevelDB cache survives a crash; no other background step writes it.
LEMMA BackgroundCached ==
    ASSUME Inv, Cached,
           \/ \E s \in Sessions : CleanupStale(s)
           \/ \E p \in publishes : FindEntry(p) \/ Publish(p) \/ PublishFails(p)
           \/ Crash
           \/ UNCHANGED vars
    PROVE  Cached'
  <1> USE DEF leveldbVars, clientVars, vars
  <1>1. UNCHANGED <<cache, faults, keyHolders>>
    BY DEF CleanupStale, FindEntry, Publish, PublishFails, Crash
  <1>2. \A h \in Handlers : Created(h)' => Created(h) /\ task'[h].db = task[h].db
    <2>1. CASE ~Crash
      <3>1. UNCHANGED task
        BY <2>1 DEF CleanupStale, FindEntry, Publish, PublishFails
      <3> QED
        BY <3>1 DEF Created, At
    <2>2. CASE Crash
      BY <2>2 DEF Crash, Created, At, NoTask, Goroutines
    <2> QED
      BY <2>1, <2>2
  <1> QED
    BY <1>1, <1>2, CachedKept DEF CacheStays

\* A client that has been given the key of a new database can use it at once,
\* whatever IPNS answers, unless the LevelDB write of some call has failed.
THEOREM CreatedNamesLoad == Spec => []AckedDatabaseLoadable
  <1>1. Inv /\ Cached /\ [Next]_vars => Cached'
    BY ArrivalCached, LoadCached, WorkerCached, HandlerCached, BackgroundCached DEF Next
  <1>2. Cached => AckedDatabaseLoadable
    BY DEF Cached, AckedDatabaseLoadable
  <1> QED
    BY <1>1, <1>2, InitCached, Invariance, PTL DEF Spec

-----------------------------------------------------------------------------
(* Isolation *)

\* Statements anyone may see, and those a session may see besides.
Shown     == {w \in Writes : /\ outcome[w] # "unsent"
                             /\ target[w] \in Sessions => status[target[w]] = "committed"}
SentTo(s) == {w \in Writes : outcome[w] # "unsent" /\ target[w] = s}

TaskClean(t) ==
    /\ task[t].pc \in Carrying => Applied(task[t].ver) \subseteq Shown
    /\ task[t].pc = "commitStore" => Applied(task[t].ver) \subseteq Shown \cup SentTo(task[t].ses)
    /\ task[t].op \in {"write", "job"} /\ task[t].stmt \in Writes => task[t].stmt \in Shown
    /\ task[t].op = "exec" => task[t].stmt \in SentTo(task[t].ses)

PointersClean ==
    /\ \A d \in DBs : cache[d] # None => Applied(cache[d]) \subseteq Shown
    /\ \A d \in DBs : ipns[d] # None => Applied(ipns[d]) \subseteq Shown
    /\ \A p \in publishes : Applied(p.ver) \subseteq Shown

TasksClean == \A t \in Goroutines : TaskClean(t)
TxnsClean  == \A s \in Sessions : status[s] # "unused" =>
                  Applied(txn[s].ver) \subseteq Shown \cup SentTo(s)

Clean == PointersClean /\ TasksClean /\ TxnsClean

\* What is shown stays shown, and a statement is sent to one place for ever.
Kept == Shown \subseteq Shown' /\ \A s \in Sessions : SentTo(s) \subseteq SentTo(s)'

\* What a client of a name reaches is then without uncommitted statements.
LEMMA CleanParts == Clean => UncommittedInvisible
  BY DEF Clean, PointersClean, UncommittedInvisible, Visible, Shown

\* Databases start empty.
LEMMA InitClean == Init => Clean
  <1> SUFFICES ASSUME Init PROVE Clean
    OBVIOUS
  <1>1. \A d \in DBs : Applied(EmptyVersion(d)) = {}
    BY DEF EmptyVersion, Applied
  <1>2. PointersClean
    BY <1>1 DEF Init, PointersClean
  <1>3. TasksClean
    BY DEF Init, TasksClean, TaskClean, Carrying, NoTask
  <1>4. TxnsClean
    BY DEF Init, TxnsClean
  <1> QED
    BY <1>2, <1>3, <1>4 DEF Clean

-----------------------------------------------------------------------------

\* A statement adds itself to what is in the version it runs on.
LEMMA ExecuteApplied ==
    ASSUME NEW v \in Versions, NEW w \in Writes
    PROVE  Applied(Execute(v, w)) \subseteq Applied(v) \cup {w}
  <1>1. v.log \in Seq(Writes) /\ Execute(v, w).log = Append(v.log, w)
    BY DEF Execute, Versions
  <1>2. ASSUME NEW i \in 1..Len(Append(v.log, w))
        PROVE  Append(v.log, w)[i] = w \/ \E j \in 1..Len(v.log) : Append(v.log, w)[i] = v.log[j]
    BY <1>1, <1>2
  <1> QED
    BY <1>1, <1>2 DEF Applied

\* Kept holds of every step that forgets no statement and no COMMIT.
LEMMA KeptBy ==
    ASSUME \A w \in Writes : outcome[w] # "unsent" =>
              outcome'[w] # "unsent" /\ target'[w] = target[w],
           \A s \in Sessions : status[s] = "committed" => status'[s] = "committed"
    PROVE  Kept
  BY DEF Kept, Shown, SentTo

\* One goroutine moves and is clean afterwards.
LEMMA OneTaskClean ==
    ASSUME Inv, TasksClean, Kept, NEW t \in Goroutines,
           \A u \in Goroutines : u # t => task'[u] = task[u],
           TaskClean(t)'
    PROVE  TasksClean'
  <1> SUFFICES ASSUME NEW u \in Goroutines, u # t PROVE TaskClean(u)'
    BY DEF TasksClean
  <1>1. task'[u] = task[u] /\ TaskClean(u)
    BY DEF TasksClean
  <1>2. task[u].pc = "commitStore" => task[u].op = "commit"
    BY DEF Inv, ControlOK, Steps
  <1>3. task[u].op \in {"commit", "exec"} => task[u].ses \in Sessions
    BY DEF Inv, ControlOK, HasArguments
  <1> QED
    BY <1>1, <1>2, <1>3 DEF TaskClean, Kept

\* A goroutine that moves and carries what may be seen.
LEMMA MoveClean ==
    ASSUME Inv, TasksClean, Kept, NEW t \in Goroutines, Moves(t), task'[t].pc # "commitStore",
           task'[t].pc \in Carrying => Applied(task'[t].ver) \subseteq Shown'
    PROVE  TasksClean'
  <1>1. TaskClean(t)
    BY DEF TasksClean
  <1>2. task[t].op = "exec" => task[t].ses \in Sessions
    BY DEF Inv, ControlOK, HasArguments
  <1>3. TaskClean(t)'
    BY <1>1, <1>2 DEF TaskClean, Moves, Kept
  <1> QED
    BY <1>3, OneTaskClean DEF Moves

\* A call that returns carries nothing any more.
LEMMA ReturnClean ==
    ASSUME Inv, TasksClean, Kept, NEW t \in Goroutines, NEW r, Return(t, r)
    PROVE  TasksClean'
  BY ReturnMoves, MoveClean DEF Carrying

\* A goroutine that goes on carries nothing, or what it carried before.
LEMMA GotoClean ==
    ASSUME Inv, TasksClean, Kept, NEW t \in Goroutines, NEW pc, Goto(t, pc),
           pc # "commitStore", pc \in Carrying => task[t].pc \in Carrying
    PROVE  TasksClean'
  <1>1. Moves(t) /\ task'[t].pc = pc /\ task'[t].ver = task[t].ver
    BY GotoMoves, GotoEffect
  <1>2. pc \in Carrying => Applied(task'[t].ver) \subseteq Shown'
    BY <1>1 DEF TasksClean, TaskClean, Kept
  <1> QED
    BY <1>1, <1>2, MoveClean

\* A goroutine that takes along what may be seen.
LEMMA GotoWithClean ==
    ASSUME Inv, TasksClean, Kept, NEW t \in Goroutines, NEW pc, NEW v, GotoWith(t, pc, v),
           pc # "commitStore", Applied(v) \subseteq Shown'
    PROVE  TasksClean'
  <1>1. Moves(t) /\ task'[t].pc = pc /\ task'[t].ver = v
    BY GotoWithMoves, GotoWithEffect
  <1> QED
    BY <1>1, MoveClean

\* Pointers stay clean when they stay, and when what is written to one is.
LEMMA PointersKept ==
    ASSUME PointersClean, Kept, UNCHANGED <<cache, ipns>>,
           \A p \in publishes' : p \in publishes \/ Applied(p.ver) \subseteq Shown'
    PROVE  PointersClean'
  BY DEF PointersClean, Kept

\* The same when a version without uncommitted statements is cached.
LEMMA UpdateCacheClean ==
    ASSUME Inv, PointersClean, Kept, NEW d \in DBs, NEW v, UpdateCache(d, v),
           Applied(v) \subseteq Shown', UNCHANGED ipns,
           \A p \in publishes' : p \in publishes \/ Applied(p.ver) \subseteq Shown'
    PROVE  PointersClean'
  <1>1. \A e \in DBs : cache'[e] = cache[e] \/ cache'[e] = v
    BY DEF UpdateCache, Inv, TypeOK
  <1> QED
    BY <1>1 DEF PointersClean, Kept

\* Transactions stay clean when they stay.
LEMMA TxnsKept ==
    ASSUME TxnsClean, Kept,
           \A s \in Sessions : txn'[s].ver = txn[s].ver
                            /\ (status'[s] # "unused" => status[s] # "unused")
    PROVE  TxnsClean'
  BY DEF TxnsClean, Kept

-----------------------------------------------------------------------------

\* A statement that is sent was not sent before.
LEMMA SendKept ==
    ASSUME Inv, NEW w \in Statements, NEW x, Send(w, x), UNCHANGED status
    PROVE  /\ Kept
           /\ w \in Writes /\ x \notin Sessions => w \in Shown'
           /\ w \in Writes => w \in SentTo(x)'
  <1>1. /\ outcome'[w] = "pending" /\ target'[w] = x /\ outcome[w] = "unsent"
        /\ \A u \in Statements : u # w => outcome'[u] = outcome[u] /\ target'[u] = target[u]
    BY DEF Send, Inv, TypeOK
  <1>2. Kept
    BY <1>1, KeptBy DEF Statements
  <1> QED
    BY <1>1, <1>2 DEF Shown, SentTo

\* A fork has the statements of the version it is made of, an empty database
\* none.
LEMMA NewVersionApplied ==
    ASSUME PointersClean, NEW d \in DBs,
           NEW v \in {EmptyVersion(d)} \cup ({cache[e] : e \in DBs} \ {None})
    PROVE  Applied(ForkVersion(d, v)) \subseteq Shown
  <1>1. Applied(ForkVersion(d, v)) = Applied(v)
    BY DEF ForkVersion, Applied
  <1>2. Applied(EmptyVersion(d)) = {}
    BY DEF EmptyVersion, Applied
  <1> QED
    BY <1>1, <1>2 DEF PointersClean

\* Calls and replies: a write outside a session is for everyone to see once it
\* is executed, a statement of a session for the session.
LEMMA ArrivalClean ==
    ASSUME Inv, Clean, NEW h \in Handlers, Arrival(h) \/ Reply(h)
    PROVE  Clean'
  <1> USE DEF leveldbVars, ipfsVars, txnVars
  <1>1. /\ UNCHANGED <<cache, ipns, publishes, txn, status>>
        /\ h \in Goroutines /\ PointersClean /\ TasksClean /\ TxnsClean
    BY DEF Arrival, CallSelect, CallWrite, CallBegin, CallExec, CallCommit, CallRollback,
           CallCreate, CallDelete, Arrive, Reply, Goroutines, Clean
  <1>2. Kept => PointersClean' /\ TxnsClean'
    BY <1>1, PointersKept, TxnsKept
  <1>3. NothingSent => Kept
    BY <1>1, KeptBy DEF NothingSent
  <1>4. ASSUME NEW k, task' = [task EXCEPT ![h] = k], Kept, k.pc # "commitStore",
               k.pc \in Carrying => Applied(k.ver) \subseteq Shown',
               k.op \in {"write", "job"} /\ k.stmt \in Writes => k.stmt \in Shown',
               k.op = "exec" => k.stmt \in SentTo(k.ses)'
        PROVE  Clean'
    <2>1. task'[h] = k /\ \A u \in Goroutines : u # h => task'[u] = task[u]
      BY <1>1, <1>4 DEF Inv, TypeOK
    <2>2. TaskClean(h)'
      BY <1>4, <2>1 DEF TaskClean, SentTo
    <2>3. TasksClean'
      BY <1>1, <1>4, <2>1, <2>2, OneTaskClean
    <2> QED
      BY <1>2, <1>4, <2>3 DEF Clean
  <1>5. ASSUME NEW c, Arrive(h, c), NothingSent, c.op \notin {"write", "job", "exec"},
               c.pc \notin Carrying \cup {"commitStore"}
        PROVE  Clean'
    BY <1>3, <1>4, <1>5 DEF Arrive
  <1>6. CASE Reply(h)
    <2>1. task' = [task EXCEPT ![h] = NoTask] /\ task[h].pc = "reply" /\ UNCHANGED target
      BY <1>6 DEF Reply
    <2>2. NoTask.pc \notin Carrying \cup {"commitStore"} /\ NoTask.op \notin {"write", "job", "exec"}
      BY DEF NoTask, Carrying
    <2>3. task[h].res \in {"ok", "error"}
      BY <1>1, <2>1 DEF Inv, ControlOK, HasArguments
    <2>4. \A w \in Writes : outcome[w] # "unsent" => outcome'[w] # "unsent"
      BY <1>6, <2>3 DEF Reply, Inv, TypeOK, Statements
    <2>5. Kept
      BY <1>1, <2>1, <2>4, KeptBy
    <2> QED
      BY <1>4, <2>1, <2>2, <2>5
  <1>7. ASSUME NEW d \in DBs, NEW w \in Statements, CallWrite(h, d, w) PROVE Clean'
    <2> DEFINE c == [NoTask EXCEPT !.op = "write", !.pc = "dispatch", !.db = d, !.stmt = w]
    <2>1. c.op = "write" /\ c.pc = "dispatch" /\ c.stmt = w
      BY DEF NoTask
    <2>2. task' = [task EXCEPT ![h] = c] /\ Send(w, d)
      BY <1>7 DEF CallWrite, Arrive
    <2>3. Kept /\ (w \in Writes => w \in Shown')
      BY <1>1, <2>2, SendKept, ConstantsAssumption
    <2> HIDE DEF c
    <2> QED
      BY <1>4, <2>1, <2>2, <2>3 DEF Carrying
  <1>8. ASSUME NEW s \in Sessions, NEW w \in Writes, CallExec(h, s, w) PROVE Clean'
    <2> DEFINE c == [NoTask EXCEPT !.op = "exec", !.pc = "lookup", !.ses = s, !.stmt = w]
    <2>1. c.op = "exec" /\ c.pc = "lookup" /\ c.stmt = w /\ c.ses = s
      BY DEF NoTask
    <2>2. task' = [task EXCEPT ![h] = c] /\ Send(w, s) /\ w \in Statements
      BY <1>8 DEF CallExec, Arrive, Statements
    <2>3. Kept /\ w \in SentTo(s)'
      BY <1>1, <2>2, SendKept
    <2> HIDE DEF c
    <2>4. c.stmt \in SentTo(c.ses)'
      BY <2>1, <2>3
    <2> QED
      BY <1>4, <2>1, <2>2, <2>3, <2>4 DEF Carrying
  <1>9. ASSUME NEW d \in DBs, CallCreate(h, d) PROVE Clean'
    <2>1. PICK v \in {EmptyVersion(d)} \cup ({cache[e] : e \in DBs} \ {None}) :
             /\ Arrive(h, [NoTask EXCEPT !.op = "create", !.pc = "keygen", !.db = d,
                                         !.ver = ForkVersion(d, v)])
             /\ NothingSent
      BY <1>9 DEF CallCreate
    <2> DEFINE c == [NoTask EXCEPT !.op = "create", !.pc = "keygen", !.db = d,
                                   !.ver = ForkVersion(d, v)]
    <2>2. c.op = "create" /\ c.pc = "keygen" /\ c.ver = ForkVersion(d, v)
      BY DEF NoTask
    <2>3. task' = [task EXCEPT ![h] = c] /\ Kept
      BY <1>3, <2>1 DEF Arrive
    <2>4. Applied(c.ver) \subseteq Shown'
      BY <1>1, <2>2, <2>3, NewVersionApplied DEF Kept
    <2> HIDE DEF c
    <2> QED
      BY <1>4, <2>2, <2>3, <2>4
  <1>10. ASSUME NEW d \in DBs, \/ CallSelect(h, d) \/ CallDelete(h, d)
                               \/ \E s \in Sessions : CallBegin(h, d, s)
         PROVE  Clean'
    BY <1>5, <1>10 DEF CallSelect, CallDelete, CallBegin, NoTask, Carrying
  <1>11. ASSUME NEW s \in Sessions, CallCommit(h, s) \/ CallRollback(h, s) PROVE Clean'
    BY <1>5, <1>11 DEF CallCommit, CallRollback, NoTask, Carrying
  <1> QED
    BY <1>6, <1>7, <1>8, <1>9, <1>10, <1>11 DEF Arrival

\* A load yields what a name resolves to, which is clean.
LEMMA LoadClean ==
    ASSUME Inv, Clean, NEW t \in Goroutines, Load(t)
    PROVE  Clean'
  <1> USE DEF leveldbVars, ipfsVars, txnVars, clientVars
  <1>1. /\ UNCHANGED <<txn, status, ipns, publishes>>
        /\ PointersClean /\ TasksClean /\ TxnsClean
    BY DEF Load, ReadCache, ReadEntry, Resolve, FillCache, AnswerRead, ReturnError, Clean
  <1>2. Kept
    <2>1. UNCHANGED <<outcome, target>>
      BY DEF Load, ReadCache, ReadEntry, Resolve, FillCache, AnswerRead, ReturnError
    <2> QED
      BY <1>1, <2>1, KeptBy
  <1>3. TxnsClean' /\ (UNCHANGED cache => PointersClean')
    BY <1>1, <1>2, TxnsKept, PointersKept
  <1>4. task[t].pc \in {"load", "entry", "resolve", "fill"} => task[t].db \in DBs
    BY Running DEF Steps, HasArguments
  <1>5. CASE ReadCache(t)
    <2>1. task[t].pc = "load" /\ UNCHANGED cache
      BY <1>5 DEF ReadCache
    <2>2. cache[task[t].db] # None => Applied(cache[task[t].db]) \subseteq Shown'
      BY <1>1, <1>2, <1>4, <2>1 DEF PointersClean, Kept
    <2>3. TasksClean'
      <3>1. ASSUME cache[task[t].db] # None PROVE TasksClean'
        BY <1>1, <1>2, <1>5, <2>2, <3>1, GotoWithClean DEF ReadCache
      <3>2. ASSUME cache[task[t].db] = None PROVE TasksClean'
        BY <1>1, <1>2, <1>5, <3>2, GotoClean DEF ReadCache, Carrying
      <3> QED
        BY <3>1, <3>2
    <2> QED
      BY <1>3, <2>1, <2>3 DEF Clean
  <1>6a. CASE ReadEntry(t)
    <2>1. UNCHANGED cache /\ (Goto(t, "resolve") \/ Return(t, "error"))
      BY <1>6a DEF ReadEntry
    <2>2. TasksClean'
      BY <1>1, <1>2, <2>1, GotoClean, ReturnClean DEF Carrying
    <2> QED
      BY <1>3, <2>1, <2>2 DEF Clean
  <1>6. CASE Resolve(t)
    <2>1. task[t].pc = "resolve" /\ UNCHANGED cache
      BY <1>6 DEF Resolve
    <2>2. ipns[task[t].db] # None => Applied(ipns[task[t].db]) \subseteq Shown'
      BY <1>1, <1>2, <1>4, <2>1 DEF PointersClean, Kept
    <2>3. TasksClean'
      <3>1. \/ ipns[task[t].db] # None /\ GotoWith(t, "fill", ipns[task[t].db])
            \/ Return(t, "error")
        BY <1>6 DEF Resolve
      <3> QED
        BY <1>1, <1>2, <2>2, <3>1, GotoWithClean, ReturnClean
    <2> QED
      BY <1>3, <2>1, <2>3 DEF Clean
  <1>7. CASE FillCache(t)
    <2>1. task[t].pc = "fill" /\ UpdateCache(task[t].db, task[t].ver) /\ Goto(t, "loaded")
      BY <1>7 DEF FillCache
    <2>2. Applied(task[t].ver) \subseteq Shown'
      BY <1>1, <1>2, <2>1 DEF TasksClean, TaskClean, Carrying, Kept
    <2>3. PointersClean'
      BY <1>1, <1>2, <1>4, <2>1, <2>2, UpdateCacheClean
    <2>4. TasksClean'
      BY <1>1, <1>2, <2>1, GotoClean DEF Carrying
    <2> QED
      BY <1>3, <2>3, <2>4 DEF Clean
  <1>8. CASE AnswerRead(t) \/ ReturnError(t)
    <2>1. UNCHANGED cache /\ \E r : Return(t, r)
      BY <1>8 DEF AnswerRead, ReturnError
    <2>2. TasksClean'
      BY <1>1, <1>2, <2>1, ReturnClean
    <2> QED
      BY <1>3, <2>1, <2>2 DEF Clean
  <1> QED
    BY <1>5, <1>6a, <1>6, <1>7, <1>8 DEF Load

\* A worker executes statements for everyone to see, on what everyone sees.
LEMMA WorkerClean ==
    ASSUME Inv, Clean, NEW d \in DBs, WorkerStep(d)
    PROVE  Clean'
  <1> USE DEF leveldbVars, ipfsVars, txnVars, clientVars
  <1>1. /\ UNCHANGED <<txn, status, ipns>>
        /\ PointersClean /\ TasksClean /\ TxnsClean
        /\ d \in Goroutines /\ \A g \in Handlers : g \in Goroutines /\ g \notin DBs
    BY ConstantsAssumption
    DEF WorkerStep, TakeJob, ExecuteJob, StoreJob, AnswerJob, Clean, Goroutines
  <1>2. Kept
    <2>1. UNCHANGED <<outcome, target>>
      BY DEF WorkerStep, TakeJob, ExecuteJob, StoreJob, AnswerJob
    <2> QED
      BY <1>1, <2>1, KeptBy
  <1>3. TxnsClean' /\ (UNCHANGED <<cache, publishes>> => PointersClean')
    BY <1>1, <1>2, TxnsKept, PointersKept
  <1>4. CASE TakeJob(d)
    <2>1. UNCHANGED <<cache, publishes>>
      BY <1>4 DEF TakeJob
    <2>2. PICK h \in Handlers : At(h, "write", "wait") /\ h = Head(queues[d])
      <3>1. queues[d] \in Seq(Handlers) /\ queues[d] # <<>>
        BY <1>4 DEF TakeJob, Inv, TypeOK
      <3>2. Head(queues[d]) = queues[d][1] /\ 1 \in 1..Len(queues[d]) /\ Head(queues[d]) \in Handlers
        BY <3>1
      <3> QED
        BY <3>2 DEF Inv, ControlOK
    <2> DEFINE k == [NoTask EXCEPT !.op = "job", !.pc = "load", !.db = d,
                                   !.stmt = task[h].stmt, !.from = h]
    <2>3. k.op = "job" /\ k.pc = "load" /\ k.stmt = task[h].stmt
      BY DEF NoTask
    <2>4. task' = [task EXCEPT ![d] = k]
      BY <1>4, <2>2 DEF TakeJob
    <2> HIDE DEF k
    <2>5. task'[d] = k /\ \A u \in Goroutines : u # d => task'[u] = task[u]
      BY <1>1, <2>4 DEF Inv, TypeOK
    <2>6. task[h].stmt \in Writes => task[h].stmt \in Shown'
      BY <1>1, <1>2, <2>2 DEF At, TasksClean, TaskClean, Kept
    <2>7. TaskClean(d)'
      BY <2>3, <2>5, <2>6 DEF TaskClean, Carrying
    <2>8. TasksClean'
      BY <1>1, <1>2, <2>5, <2>7, OneTaskClean
    <2> QED
      BY <1>3, <2>1, <2>8 DEF Clean
  <1>5. CASE ExecuteJob(d)
    <2> DEFINE v == Execute(task[d].ver, task[d].stmt)
    <2>1. /\ UNCHANGED <<cache, publishes>> /\ GotoWith(d, "store", v) /\ At(d, "job", "loaded")
          /\ task[d].stmt \in Writes
      BY <1>5 DEF ExecuteJob
    <2>2. task[d].ver \in Versions
      BY <1>1, <2>1 DEF At, Inv, ControlOK, HasArguments
    <2>3. Applied(task[d].ver) \subseteq Shown /\ task[d].stmt \in Shown
      BY <1>1, <2>1 DEF At, TasksClean, TaskClean, Carrying
    <2>4. Applied(v) \subseteq Shown'
      BY <1>2, <2>1, <2>2, <2>3, ExecuteApplied DEF Kept
    <2> HIDE DEF v
    <2>5. TasksClean'
      BY <1>1, <1>2, <2>1, <2>4, GotoWithClean
    <2> QED
      BY <1>3, <2>1, <2>5 DEF Clean
  <1>6. CASE StoreJob(d)
    <2>1. /\ At(d, "job", "store") /\ UpdateCache(d, task[d].ver)
          /\ Spawn(d, task[d].ver, task[d].stmt) /\ Return(d, "ok")
      BY <1>6 DEF StoreJob
    <2>2. Applied(task[d].ver) \subseteq Shown'
      BY <1>1, <1>2, <2>1 DEF At, TasksClean, TaskClean, Carrying, Kept
    <2>3. \A p \in publishes' : p \in publishes \/ Applied(p.ver) \subseteq Shown'
      BY <2>1, <2>2 DEF Spawn
    <2>4. PointersClean'
      BY <1>1, <1>2, <2>1, <2>2, <2>3, UpdateCacheClean
    <2>5. TasksClean'
      BY <1>1, <1>2, <2>1, ReturnClean
    <2> QED
      BY <1>3, <2>4, <2>5 DEF Clean
  <1>7. CASE AnswerJob(d)
    <2>1. UNCHANGED <<cache, publishes>>
      BY <1>7 DEF AnswerJob
    <2>2. PICK h \in Handlers : h = task[d].from /\ task[h] \in Tasks
      BY <1>1, <1>7, Running DEF AnswerJob, At, HasArguments, Inv, TypeOK
    <2>3. task[h].op = "write"
      <3>1. task[h].pc = "wait"
        BY <1>7, <2>2 DEF AnswerJob
      <3> QED
        BY <1>1, <2>2, <3>1 DEF Inv, ControlOK, Steps
    <2>4. /\ task'[d] = NoTask /\ task'[h].pc = "reply"
          /\ task'[h].op = task[h].op /\ task'[h].stmt = task[h].stmt
          /\ \A u \in Goroutines : u # d /\ u # h => task'[u] = task[u]
      BY <1>1, <1>7, <2>2 DEF AnswerJob, Inv, TypeOK, Tasks
    <2>5. TaskClean(h)'
      BY <1>1, <1>2, <2>2, <2>3, <2>4 DEF TasksClean, TaskClean, Carrying, Kept
    <2>6. TaskClean(d)'
      <3>1. task'[d].pc = "idle" /\ task'[d].op = "none"
        BY <2>4 DEF NoTask
      <3> QED
        BY <3>1 DEF TaskClean, Carrying
    <2>7. ASSUME NEW u \in Goroutines, u # d, u # h PROVE TaskClean(u)'
      <3>1. task'[u] = task[u] /\ TaskClean(u)
        BY <1>1, <2>4, <2>7 DEF TasksClean
      <3>2. task[u].pc = "commitStore" => task[u].op = "commit"
        BY DEF Inv, ControlOK, Steps
      <3>3. task[u].op \in {"commit", "exec"} => task[u].ses \in Sessions
        BY DEF Inv, ControlOK, HasArguments
      <3> QED
        BY <1>2, <3>1, <3>2, <3>3 DEF TaskClean, Kept
    <2>8. TasksClean'
      BY <2>5, <2>6, <2>7 DEF TasksClean
    <2> QED
      BY <1>3, <2>1, <2>8 DEF Clean
  <1> QED
    BY <1>4, <1>5, <1>6, <1>7 DEF WorkerStep

\* A session that is committed stays committed.
LEMMA HandlerKept ==
    ASSUME Inv, SessionInv, NEW h \in Handlers, HandlerStep(h)
    PROVE  Kept
  <1> USE DEF txnVars, clientVars
  <1>1. status \in [Sessions -> Statuses] /\ h \in Goroutines
    BY DEF Inv, TypeOK, Goroutines
  <1>2. CASE Reply(h)
    <2>1. task[h].pc = "reply" /\ UNCHANGED <<target, status>>
      BY <1>2 DEF Reply
    <2>2. task[h].res \in {"ok", "error"}
      BY <1>1, <2>1 DEF Inv, ControlOK, HasArguments
    <2>3. \A w \in Writes : outcome[w] # "unsent" => outcome'[w] # "unsent"
      BY <1>2, <2>2 DEF Reply, Inv, TypeOK, Statements
    <2> QED
      BY <2>1, <2>3, KeptBy
  <1>3. CASE OpenTransaction(h)
    <2>1. /\ At(h, "begin", "loaded") /\ UNCHANGED <<outcome, target>>
          /\ status' = [status EXCEPT ![task[h].ses] = "active"]
      BY <1>3 DEF OpenTransaction
    <2>2. status[task[h].ses] = "unused"
      BY <2>1 DEF At, SessionInv, BeginsAlone
    <2> QED
      BY <1>1, <2>1, <2>2, KeptBy
  <1>4. CASE TakeForCommit(h) \/ RollbackTransaction(h)
    <2>1. UNCHANGED <<outcome, target>>
      BY <1>4 DEF TakeForCommit, RollbackTransaction
    <2>2. \A s \in Sessions : status[s] = "committed" => status'[s] = "committed"
      BY <1>1, <1>4 DEF TakeForCommit, RollbackTransaction, RemoveFromMap
    <2> QED
      BY <2>1, <2>2, KeptBy
  <1>5. CASE CommitAdd(h) \/ CommitStore(h)
    <2>1. UNCHANGED <<outcome, target>>
      BY <1>5 DEF CommitAdd, CommitStore
    <2>2. task[h].op = "commit" /\ task[h].pc \in Committing
      BY <1>5 DEF CommitAdd, CommitStore, At, Committing
    <2>3. status[task[h].ses] = "committing"
      <3>1. task[h].ses \in Sessions
        BY <1>1, <2>2 DEF Inv, ControlOK, HasArguments
      <3> QED
        BY <2>2, <3>1 DEF SessionInv, CommitsAlone, InCommit
    <2>4. \A s \in Sessions : status[s] = "committed" => status'[s] = "committed"
      BY <1>1, <1>5, <2>3 DEF CommitAdd, CommitStore
    <2> QED
      BY <2>1, <2>4, KeptBy
  <1>6. CASE \/ FindQueue(h) \/ Enqueue(h) \/ LockForBegin(h) \/ LookUpTransaction(h)
             \/ RunInTransaction(h) \/ GenerateKey(h) \/ Register(h) \/ CacheNew(h)
             \/ DeleteDatabase(h)
    <2>1. UNCHANGED <<outcome, target, status>>
      BY <1>6 DEF FindQueue, Enqueue, LockForBegin, LookUpTransaction, RunInTransaction,
         GenerateKey, Register, CacheNew, DeleteDatabase
    <2> QED
      BY <2>1, KeptBy
  <1> QED
    BY <1>2, <1>3, <1>4, <1>5, <1>6 DEF HandlerStep

\* A handler: what a session does stays in its transaction until the step in
\* which COMMIT stores it, and that step makes the session committed.
LEMMA HandlerClean ==
    ASSUME Inv, SessionInv, Clean, NEW h \in Handlers, HandlerStep(h)
    PROVE  Clean'
  <1> USE DEF leveldbVars, ipfsVars, txnVars, clientVars
  <1>1. /\ PointersClean /\ TasksClean /\ TxnsClean /\ h \in Goroutines /\ Kept
        /\ txn \in [Sessions -> Txns] /\ status \in [Sessions -> Statuses]
    BY HandlerKept DEF Clean, Goroutines, Inv, TypeOK
  <1>2. UNCHANGED <<cache, ipns, publishes>> => PointersClean'
    BY <1>1, PointersKept
  <1>3. CASE \/ FindQueue(h) \/ Enqueue(h) \/ LockForBegin(h) \/ LookUpTransaction(h)
             \/ DeleteDatabase(h) \/ TakeForCommit(h) \/ RollbackTransaction(h)
    <2>1. UNCHANGED <<cache, ipns, publishes, txn>>
      BY <1>3 DEF FindQueue, Enqueue, LockForBegin, LookUpTransaction, DeleteDatabase,
         TakeForCommit, RollbackTransaction
    <2>2. \/ \E r : Return(h, r)
          \/ \E pc \in {"enqueue", "wait", "load", "run", "commitAdd"} : Goto(h, pc)
      BY <1>3 DEF FindQueue, Enqueue, LockForBegin, LookUpTransaction, DeleteDatabase,
         TakeForCommit, RollbackTransaction
    <2>3. TasksClean'
      BY <1>1, <2>2, ReturnClean, GotoClean DEF Carrying
    <2>4. \A s \in Sessions : status'[s] # "unused" => status[s] # "unused"
      BY <1>1, <1>3 DEF FindQueue, Enqueue, LockForBegin, LookUpTransaction, DeleteDatabase,
         TakeForCommit, RollbackTransaction, RemoveFromMap
    <2>5. TxnsClean'
      BY <1>1, <2>1, <2>4, TxnsKept
    <2> QED
      BY <1>2, <2>1, <2>3, <2>5 DEF Clean
  <1>4. CASE OpenTransaction(h)
    <2> DEFINE s == task[h].ses
               x == [db |-> task[h].db, ver |-> task[h].ver, mu |-> None]
    <2>1. /\ At(h, "begin", "loaded") /\ Return(h, "ok")
          /\ status' = [status EXCEPT ![s] = "active"] /\ txn' = [txn EXCEPT ![s] = x]
          /\ UNCHANGED <<cache, ipns, publishes>>
      BY <1>4 DEF OpenTransaction
    <2>2. s \in Sessions /\ Applied(x.ver) \subseteq Shown
      <3>1. s \in Sessions
        BY <1>1, <2>1 DEF At, Inv, ControlOK, HasArguments
      <3>2. Applied(task[h].ver) \subseteq Shown
        BY <1>1, <2>1 DEF At, TasksClean, TaskClean, Carrying
      <3> QED
        BY <3>1, <3>2
    <2> HIDE DEF s, x
    <2>3. /\ txn'[s] = x
          /\ \A r \in Sessions : r # s => txn'[r] = txn[r] /\ status'[r] = status[r]
      BY <1>1, <2>1, <2>2
    <2>4. \A r \in Sessions : status'[r] # "unused" =>
             Applied(txn'[r].ver) \subseteq Shown' \cup SentTo(r)'
      BY <1>1, <2>2, <2>3 DEF TxnsClean, Kept
    <2>5. TasksClean'
      BY <1>1, <2>1, ReturnClean
    <2> QED
      BY <1>2, <2>1, <2>4, <2>5 DEF Clean, TxnsClean
  <1>5. CASE RunInTransaction(h)
    <2> DEFINE s == task[h].ses
               v == Execute(txn[s].ver, task[h].stmt)
    <2>1. /\ UNCHANGED <<cache, ipns, publishes, status>> /\ \E r : Return(h, r)
          /\ txn' = txn \/ txn' = [txn EXCEPT ![s].ver = v]
          /\ At(h, "exec", "run")
      BY <1>5 DEF RunInTransaction, SetState
    <2>2. /\ s \in Sessions /\ status[s] # "unused" /\ txn[s].ver \in Versions
          /\ task[h].stmt \in Writes
      BY <2>1, Handling DEF At, HasArguments
    <2>3. task[h].stmt \in SentTo(s) /\ Applied(txn[s].ver) \subseteq Shown \cup SentTo(s)
      BY <1>1, <2>1, <2>2 DEF At, TasksClean, TaskClean, TxnsClean
    <2>4. Applied(v) \subseteq Shown \cup SentTo(s)
      BY <2>2, <2>3, ExecuteApplied
    <2> HIDE DEF s, v
    <2>5. \A r \in Sessions : txn'[r].ver = txn[r].ver \/ (r = s /\ txn'[r].ver = v)
      BY <1>1, <2>1, <2>2 DEF Txns
    <2>6. \A r \in Sessions : status'[r] # "unused" =>
             Applied(txn'[r].ver) \subseteq Shown' \cup SentTo(r)'
      BY <1>1, <2>1, <2>4, <2>5 DEF TxnsClean, Kept
    <2>7. TasksClean'
      BY <1>1, <2>1, ReturnClean
    <2> QED
      BY <1>2, <2>1, <2>6, <2>7 DEF Clean, TxnsClean
  <1>6. CASE CommitAdd(h)
    <2>1. /\ UNCHANGED <<cache, ipns, publishes>> /\ At(h, "commit", "commitAdd")
      BY <1>6 DEF CommitAdd
    <2>2. PICK s \in Sessions : s = task[h].ses /\ status[s] # "unused"
      BY <2>1, Handling DEF At
    <2>3. \/ /\ txn' = [txn EXCEPT ![s].mu = h] /\ GotoWith(h, "commitStore", txn[s].ver)
             /\ UNCHANGED status
          \/ status' = [status EXCEPT ![s] = "failed"] /\ Return(h, "error") /\ UNCHANGED txn
      BY <1>6, <2>2 DEF CommitAdd
    <2>4. \A r \in Sessions : txn'[r].ver = txn[r].ver
                           /\ (status'[r] # "unused" => status[r] # "unused")
      BY <1>1, <2>2, <2>3 DEF Txns
    <2>5. TxnsClean'
      BY <1>1, <2>4, TxnsKept
    <2>6. ASSUME GotoWith(h, "commitStore", txn[s].ver) PROVE TasksClean'
      <3>1. /\ Moves(h) /\ task'[h].pc = "commitStore" /\ task'[h].ver = txn[s].ver
            /\ task'[h].ses = s /\ task'[h].op = "commit"
        BY <1>1, <2>1, <2>2, <2>6, GotoWithMoves, GotoWithEffect DEF Moves, At
      <3>2. Applied(txn[s].ver) \subseteq Shown' \cup SentTo(s)'
        BY <1>1, <2>2 DEF TxnsClean, Kept
      <3>3. TaskClean(h)'
        BY <3>1, <3>2 DEF TaskClean, Carrying, SentTo
      <3> QED
        BY <1>1, <3>1, <3>3, OneTaskClean DEF Moves
    <2>7. TasksClean'
      BY <1>1, <2>3, <2>6, ReturnClean
    <2> QED
      BY <1>2, <2>1, <2>5, <2>7 DEF Clean
  <1>7. CASE CommitStore(h)
    <2>1. PICK s \in Sessions : s = task[h].ses /\ status[s] # "unused" /\ txn[s].db \in DBs
      BY <1>7, Handling DEF CommitStore, At
    <2> DEFINE d == txn[s].db
               v == task[h].ver
    <2>2. /\ UpdateCache(d, v) /\ Spawn(d, v, s) /\ Return(h, "ok")
          /\ UNCHANGED <<ipns, outcome, target>>
          /\ txn' = [txn EXCEPT ![s].mu = None]
          /\ status' = [status EXCEPT ![s] = "committed"]
      BY <1>7, <2>1 DEF CommitStore, Unlock
    <2>3. Applied(v) \subseteq Shown \cup SentTo(s)
      BY <1>1, <1>7, <2>1 DEF CommitStore, At, TasksClean, TaskClean
    <2>4. SentTo(s) \subseteq Shown'
      <3>1. status'[s] = "committed"
        BY <1>1, <2>2
      <3> QED
        BY <2>2, <3>1 DEF SentTo, Shown
    <2>5. Applied(v) \subseteq Shown'
      BY <1>1, <2>3, <2>4 DEF Kept
    <2>6. d \in DBs
      BY <2>1
    <2> HIDE DEF d, v
    <2>7. \A p \in publishes' : p \in publishes \/ Applied(p.ver) \subseteq Shown'
      BY <2>2, <2>5 DEF Spawn
    <2>8. PointersClean'
      BY <1>1, <2>2, <2>5, <2>6, <2>7, UpdateCacheClean
    <2>9. TasksClean'
      BY <1>1, <2>2, ReturnClean
    <2>10. TxnsClean'
      <3>1. \A r \in Sessions : txn'[r].ver = txn[r].ver
                             /\ (status'[r] # "unused" => status[r] # "unused")
        BY <1>1, <2>1, <2>2 DEF Txns
      <3> QED
        BY <1>1, <3>1, TxnsKept
    <2> QED
      BY <2>8, <2>9, <2>10 DEF Clean
  <1>8. CASE GenerateKey(h) \/ Register(h)
    <2>1. /\ UNCHANGED <<cache, ipns, txn, status>>
          /\ At(h, "create", "keygen") \/ At(h, "create", "register")
          /\ UNCHANGED publishes \/ Spawn(task[h].db, task[h].ver, task[h].db)
          /\ Return(h, "error") \/ Goto(h, "register") \/ Goto(h, "cacheNew")
      BY <1>8 DEF GenerateKey, Register
    <2>2. Applied(task[h].ver) \subseteq Shown'
      BY <1>1, <2>1 DEF At, TasksClean, TaskClean, Carrying, Kept
    <2>3. \A p \in publishes' : p \in publishes \/ Applied(p.ver) \subseteq Shown'
      BY <2>1, <2>2 DEF Spawn
    <2>4. TasksClean'
      BY <1>1, <2>1, ReturnClean, GotoClean DEF At, Carrying
    <2>5. PointersClean' /\ TxnsClean'
      BY <1>1, <2>1, <2>3, PointersKept, TxnsKept
    <2> QED
      BY <2>4, <2>5 DEF Clean
  <1>9. CASE CacheNew(h)
    <2>1. /\ At(h, "create", "cacheNew") /\ UpdateCache(task[h].db, task[h].ver)
          /\ Return(h, "ok") /\ UNCHANGED <<ipns, publishes, txn, status>>
      BY <1>9 DEF CacheNew
    <2>2. Applied(task[h].ver) \subseteq Shown' /\ task[h].db \in DBs
      BY <1>1, <2>1 DEF At, TasksClean, TaskClean, Carrying, Kept, Inv, ControlOK, HasArguments
    <2>3. PointersClean' /\ TasksClean' /\ TxnsClean'
      BY <1>1, <2>1, <2>2, UpdateCacheClean, ReturnClean, TxnsKept
    <2> QED
      BY <2>3 DEF Clean
  <1>10. CASE Reply(h)
    BY <1>10, ArrivalClean
  <1> QED
    BY <1>3, <1>4, <1>5, <1>6, <1>7, <1>8, <1>9, <1>10 DEF HandlerStep

\* Cleanup, publications and crashes show nothing new.
LEMMA BackgroundClean ==
    ASSUME Inv, Clean,
           \/ \E s \in Sessions : CleanupStale(s)
           \/ \E p \in publishes : FindEntry(p) \/ Publish(p) \/ PublishFails(p)
           \/ Crash
           \/ UNCHANGED vars
    PROVE  Clean'
  <1> USE DEF leveldbVars, ipfsVars, txnVars, clientVars, vars
  <1>1. /\ PointersClean /\ TasksClean /\ TxnsClean
        /\ txn \in [Sessions -> Txns] /\ status \in [Sessions -> Statuses]
        /\ outcome \in [Statements ->
                           {"unsent", "pending", "ok", "error", "unknown"}]
    BY DEF Clean, Inv, TypeOK
  <1>2. CASE ~Crash
    <2>1. UNCHANGED <<cache, task, txn, outcome, target>>
      BY <1>2 DEF CleanupStale, FindEntry, Publish, PublishFails
    <2>2. \A s \in Sessions : /\ status[s] = "committed" => status'[s] = "committed"
                              /\ status'[s] # "unused" => status[s] # "unused"
      BY <1>1, <1>2 DEF CleanupStale, RemoveFromMap, FindEntry, Publish, PublishFails
    <2>3. Kept
      BY <2>1, <2>2, KeptBy
    <2>4. TxnsClean'
      BY <1>1, <2>1, <2>2, <2>3, TxnsKept
    <2>5. PointersClean'
      <3>1. CASE UNCHANGED <<ipns, publishes>>
        BY <1>1, <2>1, <2>3, <3>1, PointersKept
      <3>2. ASSUME NEW p \in publishes, FindEntry(p) \/ Publish(p) \/ PublishFails(p) PROVE PointersClean'
        <4>1. NoNewPublication
          BY <3>2, PublicationStep
        <4>2. \A d \in DBs : ipns'[d] = ipns[d] \/ ipns'[d] = p.ver
          BY <3>2 DEF FindEntry, Publish, PublishFails, Inv, TypeOK
        <4> QED
          BY <1>1, <2>1, <2>3, <4>1, <4>2 DEF NoNewPublication, PointersClean, Kept
      <3> QED
        BY <1>2, <3>1, <3>2 DEF CleanupStale
    <2>6. TasksClean'
      <3>1. ASSUME NEW t \in Goroutines PROVE TaskClean(t)'
        <4>1. task'[t] = task[t] /\ TaskClean(t)
          BY <1>1, <2>1, <3>1 DEF TasksClean
        <4>2. task[t].pc = "commitStore" => task[t].op = "commit"
          BY <3>1 DEF Inv, ControlOK, Steps
        <4>3. task[t].op \in {"commit", "exec"} => task[t].ses \in Sessions
          BY <3>1 DEF Inv, ControlOK, HasArguments
        <4> QED
          BY <2>3, <4>1, <4>2, <4>3 DEF TaskClean, Kept
      <3> QED
        BY <3>1 DEF TasksClean
    <2> QED
      BY <2>4, <2>5, <2>6 DEF Clean
  <1>3. CASE Crash
    <2>1. /\ UNCHANGED <<cache, ipns, target>> /\ publishes' = {}
          /\ \A t \in Goroutines : task'[t] = NoTask
      BY <1>3 DEF Crash
    <2>2. \A r \in Sessions : /\ txn'[r].ver = txn[r].ver
                              /\ status'[r] # "unused" => status[r] # "unused"
                              /\ status[r] = "committed" => status'[r] = "committed"
      BY <1>1, <1>3 DEF Crash, Txns
    <2>3. \A w \in Writes : outcome[w] # "unsent" => outcome'[w] # "unsent"
      BY <1>1, <1>3 DEF Crash, Statements
    <2>4. Kept
      BY <2>1, <2>2, <2>3, KeptBy
    <2>5. PointersClean' /\ TxnsClean'
      BY <1>1, <2>1, <2>2, <2>4, PointersKept, TxnsKept
    <2>6. NoTask.pc = "idle" /\ NoTask.op = "none"
      BY DEF NoTask
    <2>7. TasksClean'
      BY <2>1, <2>6 DEF TasksClean, TaskClean, Carrying
    <2> QED
      BY <2>5, <2>7 DEF Clean
  <1> QED
    BY <1>2, <1>3

\* Versions and goroutines are clean throughout.
LEMMA IsolationInvariance == Spec => []Clean
  <1>1. Inv /\ SessionInv /\ Clean /\ [Next]_vars => Clean'
    BY ArrivalClean, LoadClean, WorkerClean, HandlerClean, BackgroundClean DEF Next
  <1> QED
    BY <1>1, InitClean, Invariance, SessionInvariance, PTL DEF Spec

\* No SELECT, reader, fork or publication of a name ever shows a statement of
\* a session that has not been committed: not while it is open, not when it is
\* rolled back, dropped by the cleanup, lost in a crash or its COMMIT failed.
THEOREM Isolation == Spec => []UncommittedInvisible
  BY IsolationInvariance, CleanParts, PTL

-----------------------------------------------------------------------------
(* Committed transactions are units *)

\* Versions that show, of every session but s, all statements its COMMIT
\* stored as soon as they show one.  (With None for s: of every session.)
Sent     == {w \in Writes : outcome[w] # "unsent"}
Units(s) == {v \in Versions :
                /\ Applied(v) \subseteq Sent
                /\ \A r \in Sessions \ {s} : (\E w \in Applied(v) : target[w] = r) =>
                      saved[r] # None /\ SavedWrites(r) \subseteq Applied(v)}

\* Statements sent to a database.
Plain == {w \in Sent : target[w] \notin Sessions}

TaskWhole(t) ==
    /\ task[t].pc \in Carrying => task[t].ver \in Units(None)
    /\ task[t].pc = "commitAdd" => saved[task[t].ses] = None
    /\ task[t].pc = "commitStore" =>
          saved[task[t].ses] # None /\ task[t].ver = saved[task[t].ses]
    /\ task[t].op \in {"write", "job"} /\ task[t].stmt \in Writes => task[t].stmt \in Plain
    /\ task[t].op = "exec" => task[t].stmt \in SentTo(task[t].ses)

PointersWhole ==
    /\ \A d \in DBs : cache[d] # None => cache[d] \in Units(None)
    /\ \A d \in DBs : ipns[d] # None => ipns[d] \in Units(None)
    /\ \A p \in publishes : p.ver \in Units(None)

TasksWhole == \A t \in Goroutines : TaskWhole(t)
TxnsWhole  == \A s \in Sessions : status[s] # "unused" => txn[s].ver \in Units(s)
SavedWhole == \A s \in Sessions : saved[s] # None =>
                  status[s] \notin {"unused", "active"} /\ saved[s] \in Units(s)

Whole == PointersWhole /\ TasksWhole /\ TxnsWhole /\ SavedWhole

\* What has been sent stays sent, and a version that is a unit stays one.
Grown == /\ Plain \subseteq Plain' /\ Units(None) \subseteq Units(None)'
         /\ \A s \in Sessions : SentTo(s) \subseteq SentTo(s)' /\ Units(s) \subseteq Units(s)'

\* What a client of a name reaches then shows transactions as units.
LEMMA WholeParts == Whole => CommitAllOrNothing
  <1> SUFFICES ASSUME Whole, NEW d \in DBs, NEW v \in Visible(d), NEW w \in Applied(v),
                      target[w] \in Sessions
               PROVE  SavedWrites(target[w]) \subseteq Applied(v)
    BY DEF CommitAllOrNothing
  <1>1. v \in Units(None)
    BY DEF Whole, PointersWhole, Visible
  <1> QED
    BY <1>1, ConstantsAssumption DEF Units

\* Databases start empty.
LEMMA InitWhole == Init => Whole
  <1> SUFFICES ASSUME Init PROVE Whole
    OBVIOUS
  <1>1. \A d \in DBs : EmptyVersion(d) \in Units(None)
    <2>1. \A d \in DBs : Applied(EmptyVersion(d)) = {}
      BY DEF EmptyVersion, Applied
    <2> QED
      BY <2>1, EmptyVersionType DEF Units
  <1>2. PointersWhole
    BY <1>1 DEF Init, PointersWhole
  <1>3. TasksWhole
    BY DEF Init, TasksWhole, TaskWhole, Carrying, NoTask
  <1>4. TxnsWhole /\ SavedWhole
    BY DEF Init, TxnsWhole, SavedWhole
  <1> QED
    BY <1>2, <1>3, <1>4 DEF Whole

\* A version that is a unit whatever the session is one for each of them; what
\* a COMMIT stored is a unit for its own session as well.
LEMMA UnitsOf ==
    ASSUME NEW s \in Sessions
    PROVE  /\ Units(None) \subseteq Units(s)
           /\ saved[s] # None /\ saved[s] \in Units(s) => saved[s] \in Units(None)
  <1>1. saved[s] # None => SavedWrites(s) \subseteq Applied(saved[s])
    BY DEF SavedWrites
  <1> QED
    BY <1>1, ConstantsAssumption DEF Units

\* A statement extends a unit, if it belongs to the session the version is
\* allowed to be incomplete for or to none.
LEMMA ExecuteUnits ==
    ASSUME NEW s, NEW v \in Units(s), NEW w \in Sent, target[w] \in Sessions => target[w] = s
    PROVE  Execute(v, w) \in Units(s)
  <1>1. v \in Versions /\ w \in Writes
    BY DEF Units, Sent
  <1>2. Applied(Execute(v, w)) \subseteq Applied(v) \cup {w}
    BY <1>1, ExecuteApplied
  <1>3. Applied(v) \subseteq Applied(Execute(v, w))
    <2>1. v.log \in Seq(Writes) /\ Execute(v, w).log = Append(v.log, w)
      BY <1>1 DEF Execute, Versions
    <2>2. \A i \in 1..Len(v.log) : /\ i \in 1..Len(Append(v.log, w))
                                   /\ Append(v.log, w)[i] = v.log[i]
      BY <1>1, <2>1
    <2> QED
      BY <2>1, <2>2 DEF Applied
  <1>4. Execute(v, w) \in Versions
    BY <1>1, ExecuteType
  <1> QED
    BY <1>2, <1>3, <1>4 DEF Units

\* Grown holds of every step that forgets no statement and nothing saved.
LEMMA GrownBy ==
    ASSUME SavedWhole,
           \A w \in Writes : outcome[w] # "unsent" =>
              outcome'[w] # "unsent" /\ target'[w] = target[w],
           \A s \in Sessions : saved[s] # None => saved'[s] = saved[s]
    PROVE  Grown
  <1>1. Sent \subseteq Sent' /\ \A w \in Sent : target'[w] = target[w]
    BY DEF Sent
  <1>2. ASSUME NEW s \in Sessions, saved[s] # None
        PROVE  SavedWrites(s)' \subseteq SavedWrites(s) /\ saved'[s] # None
    <2>1. Applied(saved[s]) \subseteq Sent /\ saved'[s] = saved[s]
      BY <1>2 DEF SavedWhole, Units
    <2> QED
      BY <1>1, <1>2, <2>1 DEF SavedWrites
  <1>3. ASSUME NEW s, NEW v \in Units(s) PROVE v \in Units(s)'
    <2>1. v \in Versions /\ Applied(v) \subseteq Sent
      BY DEF Units
    <2>2. ASSUME NEW r \in Sessions \ {s}, NEW w \in Applied(v), target'[w] = r
          PROVE  saved'[r] # None /\ SavedWrites(r)' \subseteq Applied(v)
      <3>1. target[w] = r
        BY <1>1, <2>1, <2>2
      <3>2. saved[r] # None /\ SavedWrites(r) \subseteq Applied(v)
        BY <3>1 DEF Units
      <3> QED
        BY <1>2, <3>2
    <2> QED
      BY <1>1, <2>1, <2>2 DEF Units
  <1> QED
    BY <1>1, <1>3 DEF Grown, Plain, SentTo, Sent

-----------------------------------------------------------------------------

\* One goroutine moves, and carries a unit if it carries anything.
LEMMA OneTaskWhole ==
    ASSUME Inv, TasksWhole, Grown, UNCHANGED saved, NEW t \in Goroutines,
           \A u \in Goroutines : u # t => task'[u] = task[u],
           TaskWhole(t)'
    PROVE  TasksWhole'
  <1> SUFFICES ASSUME NEW u \in Goroutines, u # t PROVE TaskWhole(u)'
    BY DEF TasksWhole
  <1>1. task'[u] = task[u] /\ TaskWhole(u)
    BY DEF TasksWhole
  <1>2. task[u].op = "exec" => task[u].ses \in Sessions
    BY DEF Inv, ControlOK, HasArguments
  <1> QED
    BY <1>1, <1>2 DEF TaskWhole, Grown

\* A goroutine that moves and does not commit.
LEMMA MoveWhole ==
    ASSUME Inv, TasksWhole, Grown, UNCHANGED saved, NEW t \in Goroutines, Moves(t),
           task'[t].pc \notin Committing,
           task'[t].pc \in Carrying => task'[t].ver \in Units(None)'
    PROVE  TasksWhole'
  <1>1. TaskWhole(t)
    BY DEF TasksWhole
  <1>2. task[t].op = "exec" => task[t].ses \in Sessions
    BY DEF Inv, ControlOK, HasArguments
  <1>3. TaskWhole(t)'
    BY <1>1, <1>2 DEF TaskWhole, Moves, Grown, Committing
  <1> QED
    BY <1>3, OneTaskWhole DEF Moves

\* A call that returns carries nothing any more.
LEMMA ReturnWhole ==
    ASSUME Inv, TasksWhole, Grown, UNCHANGED saved, NEW t \in Goroutines, NEW r, Return(t, r)
    PROVE  TasksWhole'
  BY ReturnMoves, MoveWhole DEF Carrying, Committing

\* A goroutine that goes on carries nothing, or what it carried before.
LEMMA GotoWhole ==
    ASSUME Inv, TasksWhole, Grown, UNCHANGED saved, NEW t \in Goroutines, NEW pc, Goto(t, pc),
           pc \notin Committing, pc \in Carrying => task[t].pc \in Carrying
    PROVE  TasksWhole'
  <1>1. Moves(t) /\ task'[t].pc = pc /\ task'[t].ver = task[t].ver
    BY GotoMoves, GotoEffect
  <1>2. pc \in Carrying => task'[t].ver \in Units(None)'
    BY <1>1 DEF TasksWhole, TaskWhole, Grown
  <1> QED
    BY <1>1, <1>2, MoveWhole

\* A goroutine that takes a unit along.
LEMMA GotoWithWhole ==
    ASSUME Inv, TasksWhole, Grown, UNCHANGED saved, NEW t \in Goroutines, NEW pc, NEW v,
           GotoWith(t, pc, v), pc \notin Committing, v \in Units(None)'
    PROVE  TasksWhole'
  <1>1. Moves(t) /\ task'[t].pc = pc /\ task'[t].ver = v
    BY GotoWithMoves, GotoWithEffect
  <1> QED
    BY <1>1, MoveWhole

\* Pointers name units as long as only units are written to them.
LEMMA PointersStayWhole ==
    ASSUME PointersWhole, Grown, UNCHANGED <<cache, ipns>>,
           \A p \in publishes' : p \in publishes \/ p.ver \in Units(None)'
    PROVE  PointersWhole'
  BY DEF PointersWhole, Grown

\* The same when a unit is cached.
LEMMA UpdateCacheWhole ==
    ASSUME Inv, PointersWhole, Grown, NEW d \in DBs, NEW v, UpdateCache(d, v),
           v \in Units(None)', UNCHANGED ipns,
           \A p \in publishes' : p \in publishes \/ p.ver \in Units(None)'
    PROVE  PointersWhole'
  <1>1. \A e \in DBs : cache'[e] = cache[e] \/ cache'[e] = v
    BY DEF UpdateCache, Inv, TypeOK
  <1> QED
    BY <1>1 DEF PointersWhole, Grown

\* Transactions and what was saved of them, when neither is touched.
LEMMA SessionsStayWhole ==
    ASSUME TxnsWhole, SavedWhole, Grown, UNCHANGED saved,
           \A s \in Sessions :
              /\ txn'[s].ver = txn[s].ver
              /\ status'[s] # "unused" => status[s] # "unused"
              /\ status[s] \notin {"unused", "active"} => status'[s] \notin {"unused", "active"}
    PROVE  TxnsWhole' /\ SavedWhole'
  <1>1. TxnsWhole'
    BY DEF TxnsWhole, Grown
  <1>2. SavedWhole'
    BY DEF SavedWhole, Grown
  <1> QED
    BY <1>1, <1>2

-----------------------------------------------------------------------------

\* Calls and replies: a statement is sent to a database or to a session, once.
LEMMA ArrivalWhole ==
    ASSUME Inv, Whole, NEW h \in Handlers, Arrival(h) \/ Reply(h)
    PROVE  Whole'
  <1> USE DEF leveldbVars, ipfsVars, txnVars
  <1>1. /\ UNCHANGED <<cache, ipns, publishes, txn, status, saved>>
        /\ h \in Goroutines /\ PointersWhole /\ TasksWhole /\ TxnsWhole /\ SavedWhole
    BY DEF Arrival, CallSelect, CallWrite, CallBegin, CallExec, CallCommit, CallRollback,
           CallCreate, CallDelete, Arrive, Reply, Goroutines, Whole
  <1>2. Grown => PointersWhole' /\ TxnsWhole' /\ SavedWhole'
    BY <1>1, PointersStayWhole, SessionsStayWhole
  <1>3. NothingSent => Grown
    BY <1>1, GrownBy DEF NothingSent
  <1>4. ASSUME NEW k, task' = [task EXCEPT ![h] = k], Grown, k.pc \notin Committing,
               k.pc \in Carrying => k.ver \in Units(None)',
               k.op \in {"write", "job"} /\ k.stmt \in Writes => k.stmt \in Plain',
               k.op = "exec" => k.stmt \in SentTo(k.ses)'
        PROVE  Whole'
    <2>1. task'[h] = k /\ \A u \in Goroutines : u # h => task'[u] = task[u]
      BY <1>1, <1>4 DEF Inv, TypeOK
    <2>2. TaskWhole(h)'
      BY <1>4, <2>1 DEF TaskWhole, SentTo, Committing
    <2>3. TasksWhole'
      BY <1>1, <1>4, <2>1, <2>2, OneTaskWhole
    <2> QED
      BY <1>2, <1>4, <2>3 DEF Whole
  <1>5. ASSUME NEW c, Arrive(h, c), NothingSent, c.op \notin {"write", "job", "exec"},
               c.pc \notin Carrying \cup Committing
        PROVE  Whole'
    BY <1>3, <1>4, <1>5 DEF Arrive
  <1>6. ASSUME NEW w \in Statements, NEW x, Send(w, x)
        PROVE  /\ Grown
               /\ w \in Writes /\ x \notin Sessions => w \in Plain'
               /\ w \in Writes => w \in SentTo(x)'
    <2>1. /\ outcome'[w] = "pending" /\ target'[w] = x /\ outcome[w] = "unsent"
          /\ \A u \in Statements : u # w => outcome'[u] = outcome[u] /\ target'[u] = target[u]
      BY <1>6 DEF Send, Inv, TypeOK
    <2>2. Grown
      BY <1>1, <2>1, GrownBy DEF Statements
    <2> QED
      BY <2>1, <2>2 DEF Plain, Sent, SentTo
  <1>7. CASE Reply(h)
    <2>1. task' = [task EXCEPT ![h] = NoTask] /\ task[h].pc = "reply" /\ UNCHANGED target
      BY <1>7 DEF Reply
    <2>2. NoTask.pc \notin Carrying \cup Committing /\ NoTask.op \notin {"write", "job", "exec"}
      BY DEF NoTask, Carrying, Committing
    <2>3. task[h].res \in {"ok", "error"}
      BY <1>1, <2>1 DEF Inv, ControlOK, HasArguments
    <2>4. \A w \in Writes : outcome[w] # "unsent" => outcome'[w] # "unsent"
      BY <1>7, <2>3 DEF Reply, Inv, TypeOK, Statements
    <2>5. Grown
      BY <1>1, <2>1, <2>4, GrownBy
    <2> QED
      BY <1>4, <2>1, <2>2, <2>5
  <1>8. ASSUME NEW d \in DBs, NEW w \in Statements, CallWrite(h, d, w) PROVE Whole'
    <2> DEFINE c == [NoTask EXCEPT !.op = "write", !.pc = "dispatch", !.db = d, !.stmt = w]
    <2>1. c.op = "write" /\ c.pc = "dispatch" /\ c.stmt = w
      BY DEF NoTask
    <2>2. task' = [task EXCEPT ![h] = c] /\ Send(w, d)
      BY <1>8 DEF CallWrite, Arrive
    <2>3. Grown /\ (w \in Writes => w \in Plain')
      BY <1>6, <2>2, ConstantsAssumption
    <2> HIDE DEF c
    <2> QED
      BY <1>4, <2>1, <2>2, <2>3 DEF Carrying, Committing
  <1>9. ASSUME NEW s \in Sessions, NEW w \in Writes, CallExec(h, s, w) PROVE Whole'
    <2> DEFINE c == [NoTask EXCEPT !.op = "exec", !.pc = "lookup", !.ses = s, !.stmt = w]
    <2>1. c.op = "exec" /\ c.pc = "lookup" /\ c.stmt = w /\ c.ses = s
      BY DEF NoTask
    <2>2. task' = [task EXCEPT ![h] = c] /\ Send(w, s) /\ w \in Statements
      BY <1>9 DEF CallExec, Arrive, Statements
    <2>3. Grown /\ w \in SentTo(s)'
      BY <1>6, <2>2
    <2> HIDE DEF c
    <2>4. c.stmt \in SentTo(c.ses)'
      BY <2>1, <2>3
    <2> QED
      BY <1>4, <2>1, <2>2, <2>3, <2>4 DEF Carrying, Committing
  <1>10. ASSUME NEW d \in DBs, CallCreate(h, d) PROVE Whole'
    <2>1. PICK v \in {EmptyVersion(d)} \cup ({cache[e] : e \in DBs} \ {None}) :
             /\ Arrive(h, [NoTask EXCEPT !.op = "create", !.pc = "keygen", !.db = d,
                                         !.ver = ForkVersion(d, v)])
             /\ NothingSent
      BY <1>10 DEF CallCreate
    <2> DEFINE c == [NoTask EXCEPT !.op = "create", !.pc = "keygen", !.db = d,
                                   !.ver = ForkVersion(d, v)]
    <2>2. c.op = "create" /\ c.pc = "keygen" /\ c.ver = ForkVersion(d, v)
      BY DEF NoTask
    <2>3. task' = [task EXCEPT ![h] = c] /\ Grown
      BY <1>3, <2>1 DEF Arrive
    <2>4. ForkVersion(d, v) \in Units(None)
      <3>1. Applied(EmptyVersion(d)) = {} /\ Applied(ForkVersion(d, v)) = Applied(v)
        BY DEF EmptyVersion, ForkVersion, Applied
      <3>2. CASE v = EmptyVersion(d)
        BY <3>1, <3>2, EmptyVersionType, ForkVersionType DEF Units
      <3>3. CASE v \in Units(None)
        BY <3>1, <3>3, ForkVersionType DEF Units
      <3> QED
        BY <1>1, <3>2, <3>3 DEF PointersWhole
    <2>5. c.ver \in Units(None)'
      BY <2>2, <2>3, <2>4 DEF Grown
    <2> HIDE DEF c
    <2> QED
      BY <1>4, <2>2, <2>3, <2>5 DEF Committing
  <1>11. ASSUME NEW d \in DBs, \/ CallSelect(h, d) \/ CallDelete(h, d)
                               \/ \E s \in Sessions : CallBegin(h, d, s)
         PROVE  Whole'
    BY <1>5, <1>11 DEF CallSelect, CallDelete, CallBegin, NoTask, Carrying, Committing
  <1>12. ASSUME NEW s \in Sessions, CallCommit(h, s) \/ CallRollback(h, s) PROVE Whole'
    BY <1>5, <1>12 DEF CallCommit, CallRollback, NoTask, Carrying, Committing
  <1> QED
    BY <1>7, <1>8, <1>9, <1>10, <1>11, <1>12 DEF Arrival

\* A load yields what a name resolves to, which is a unit.
LEMMA LoadWhole ==
    ASSUME Inv, Whole, NEW t \in Goroutines, Load(t)
    PROVE  Whole'
  <1> USE DEF leveldbVars, ipfsVars, txnVars, clientVars
  <1>1. /\ UNCHANGED <<txn, status, saved, ipns, publishes, outcome, target>>
        /\ PointersWhole /\ TasksWhole /\ TxnsWhole /\ SavedWhole
    BY DEF Load, ReadCache, ReadEntry, Resolve, FillCache, AnswerRead, ReturnError, Whole
  <1>2. Grown
    BY <1>1, GrownBy
  <1>3. TxnsWhole' /\ SavedWhole' /\ (UNCHANGED cache => PointersWhole')
    BY <1>1, <1>2, SessionsStayWhole, PointersStayWhole
  <1>4. task[t].pc \in {"load", "entry", "resolve", "fill"} => task[t].db \in DBs
    BY Running DEF Steps, HasArguments
  <1>5. CASE ReadCache(t)
    <2>1. task[t].pc = "load" /\ UNCHANGED cache
      BY <1>5 DEF ReadCache
    <2>2. cache[task[t].db] # None => cache[task[t].db] \in Units(None)'
      BY <1>1, <1>2, <1>4, <2>1 DEF PointersWhole, Grown
    <2>3. TasksWhole'
      <3>1. ASSUME cache[task[t].db] # None PROVE TasksWhole'
        BY <1>1, <1>2, <1>5, <2>2, <3>1, GotoWithWhole DEF ReadCache, Committing
      <3>2. ASSUME cache[task[t].db] = None PROVE TasksWhole'
        BY <1>1, <1>2, <1>5, <3>2, GotoWhole DEF ReadCache, Carrying, Committing
      <3> QED
        BY <3>1, <3>2
    <2> QED
      BY <1>3, <2>1, <2>3 DEF Whole
  <1>6a. CASE ReadEntry(t)
    <2>1. UNCHANGED cache /\ (Goto(t, "resolve") \/ Return(t, "error"))
      BY <1>6a DEF ReadEntry
    <2>2. TasksWhole'
      BY <1>1, <1>2, <2>1, GotoWhole, ReturnWhole DEF Carrying, Committing
    <2> QED
      BY <1>3, <2>1, <2>2 DEF Whole
  <1>6. CASE Resolve(t)
    <2>1. task[t].pc = "resolve" /\ UNCHANGED cache
      BY <1>6 DEF Resolve
    <2>2. ipns[task[t].db] # None => ipns[task[t].db] \in Units(None)'
      BY <1>1, <1>2, <1>4, <2>1 DEF PointersWhole, Grown
    <2>3. TasksWhole'
      <3>1. \/ ipns[task[t].db] # None /\ GotoWith(t, "fill", ipns[task[t].db])
            \/ Return(t, "error")
        BY <1>6 DEF Resolve
      <3> QED
        BY <1>1, <1>2, <2>2, <3>1, GotoWithWhole, ReturnWhole DEF Committing
    <2> QED
      BY <1>3, <2>1, <2>3 DEF Whole
  <1>7. CASE FillCache(t)
    <2>1. task[t].pc = "fill" /\ UpdateCache(task[t].db, task[t].ver) /\ Goto(t, "loaded")
      BY <1>7 DEF FillCache
    <2>2. task[t].ver \in Units(None)'
      BY <1>1, <1>2, <2>1 DEF TasksWhole, TaskWhole, Carrying, Grown
    <2>3. PointersWhole'
      BY <1>1, <1>2, <1>4, <2>1, <2>2, UpdateCacheWhole
    <2>4. TasksWhole'
      BY <1>1, <1>2, <2>1, GotoWhole DEF Carrying, Committing
    <2> QED
      BY <1>3, <2>3, <2>4 DEF Whole
  <1>8. CASE AnswerRead(t) \/ ReturnError(t)
    <2>1. UNCHANGED cache /\ \E r : Return(t, r)
      BY <1>8 DEF AnswerRead, ReturnError
    <2>2. TasksWhole'
      BY <1>1, <1>2, <2>1, ReturnWhole
    <2> QED
      BY <1>3, <2>1, <2>2 DEF Whole
  <1> QED
    BY <1>5, <1>6a, <1>6, <1>7, <1>8 DEF Load

\* A worker executes statements that belong to no session.
LEMMA WorkerWhole ==
    ASSUME Inv, Whole, NEW d \in DBs, WorkerStep(d)
    PROVE  Whole'
  <1> USE DEF leveldbVars, ipfsVars, txnVars, clientVars
  <1>1. /\ UNCHANGED <<txn, status, saved, ipns, outcome, target>>
        /\ PointersWhole /\ TasksWhole /\ TxnsWhole /\ SavedWhole
        /\ d \in Goroutines /\ \A g \in Handlers : g \in Goroutines /\ g \notin DBs
    BY ConstantsAssumption
    DEF WorkerStep, TakeJob, ExecuteJob, StoreJob, AnswerJob, Whole, Goroutines
  <1>2. Grown
    BY <1>1, GrownBy
  <1>3. TxnsWhole' /\ SavedWhole' /\ (UNCHANGED <<cache, publishes>> => PointersWhole')
    BY <1>1, <1>2, SessionsStayWhole, PointersStayWhole
  <1>4. CASE TakeJob(d)
    <2>1. UNCHANGED <<cache, publishes>>
      BY <1>4 DEF TakeJob
    <2>2. PICK h \in Handlers : At(h, "write", "wait") /\ h = Head(queues[d])
      <3>1. queues[d] \in Seq(Handlers) /\ queues[d] # <<>>
        BY <1>4 DEF TakeJob, Inv, TypeOK
      <3>2. Head(queues[d]) = queues[d][1] /\ 1 \in 1..Len(queues[d]) /\ Head(queues[d]) \in Handlers
        BY <3>1
      <3> QED
        BY <3>2 DEF Inv, ControlOK
    <2> DEFINE k == [NoTask EXCEPT !.op = "job", !.pc = "load", !.db = d,
                                   !.stmt = task[h].stmt, !.from = h]
    <2>3. k.op = "job" /\ k.pc = "load" /\ k.stmt = task[h].stmt
      BY DEF NoTask
    <2>4. task' = [task EXCEPT ![d] = k]
      BY <1>4, <2>2 DEF TakeJob
    <2> HIDE DEF k
    <2>5. task'[d] = k /\ \A u \in Goroutines : u # d => task'[u] = task[u]
      BY <1>1, <2>4 DEF Inv, TypeOK
    <2>6. task[h].stmt \in Writes => task[h].stmt \in Plain'
      BY <1>1, <1>2, <2>2 DEF At, TasksWhole, TaskWhole, Grown
    <2>7. TaskWhole(d)'
      BY <2>3, <2>5, <2>6 DEF TaskWhole, Carrying
    <2>8. TasksWhole'
      BY <1>1, <1>2, <2>5, <2>7, OneTaskWhole
    <2> QED
      BY <1>3, <2>1, <2>8 DEF Whole
  <1>5. CASE ExecuteJob(d)
    <2> DEFINE v == Execute(task[d].ver, task[d].stmt)
    <2>1. /\ UNCHANGED <<cache, publishes>> /\ GotoWith(d, "store", v) /\ At(d, "job", "loaded")
          /\ task[d].stmt \in Writes
      BY <1>5 DEF ExecuteJob
    <2>2. task[d].ver \in Units(None) /\ task[d].stmt \in Plain
      BY <1>1, <2>1 DEF At, TasksWhole, TaskWhole, Carrying
    <2>3. v \in Units(None)
      BY <2>2, ExecuteUnits DEF Plain
    <2> HIDE DEF v
    <2>4. TasksWhole'
      BY <1>1, <1>2, <2>1, <2>3, GotoWithWhole DEF Grown, Committing
    <2> QED
      BY <1>3, <2>1, <2>4 DEF Whole
  <1>6. CASE StoreJob(d)
    <2>1. /\ At(d, "job", "store") /\ UpdateCache(d, task[d].ver)
          /\ Spawn(d, task[d].ver, task[d].stmt) /\ Return(d, "ok")
      BY <1>6 DEF StoreJob
    <2>2. task[d].ver \in Units(None)'
      BY <1>1, <1>2, <2>1 DEF At, TasksWhole, TaskWhole, Carrying, Grown
    <2>3. \A p \in publishes' : p \in publishes \/ p.ver \in Units(None)'
      BY <2>1, <2>2 DEF Spawn
    <2>4. PointersWhole'
      BY <1>1, <1>2, <2>1, <2>2, <2>3, UpdateCacheWhole
    <2>5. TasksWhole'
      BY <1>1, <1>2, <2>1, ReturnWhole
    <2> QED
      BY <1>3, <2>4, <2>5 DEF Whole
  <1>7. CASE AnswerJob(d)
    <2>1. UNCHANGED <<cache, publishes>>
      BY <1>7 DEF AnswerJob
    <2>2. PICK h \in Handlers : h = task[d].from /\ task[h] \in Tasks
      BY <1>1, <1>7, Running DEF AnswerJob, At, HasArguments, Inv, TypeOK
    <2>3. task[h].op = "write"
      <3>1. task[h].pc = "wait"
        BY <1>7, <2>2 DEF AnswerJob
      <3> QED
        BY <1>1, <2>2, <3>1 DEF Inv, ControlOK, Steps
    <2>4. /\ task'[d] = NoTask /\ task'[h].pc = "reply"
          /\ task'[h].op = task[h].op /\ task'[h].stmt = task[h].stmt
          /\ \A u \in Goroutines : u # d /\ u # h => task'[u] = task[u]
      BY <1>1, <1>7, <2>2 DEF AnswerJob, Inv, TypeOK, Tasks
    <2>5. TaskWhole(h)'
      BY <1>1, <1>2, <2>2, <2>3, <2>4 DEF TasksWhole, TaskWhole, Carrying, Grown
    <2>6. TaskWhole(d)'
      <3>1. task'[d].pc = "idle" /\ task'[d].op = "none"
        BY <2>4 DEF NoTask
      <3> QED
        BY <3>1 DEF TaskWhole, Carrying
    <2>7. ASSUME NEW u \in Goroutines, u # d, u # h PROVE TaskWhole(u)'
      <3>1. task'[u] = task[u] /\ TaskWhole(u)
        BY <1>1, <2>4, <2>7 DEF TasksWhole
      <3>2. task[u].op = "exec" => task[u].ses \in Sessions
        BY DEF Inv, ControlOK, HasArguments
      <3> QED
        BY <1>1, <1>2, <3>1, <3>2 DEF TaskWhole, Grown
    <2>8. TasksWhole'
      BY <2>5, <2>6, <2>7 DEF TasksWhole
    <2> QED
      BY <1>3, <2>1, <2>8 DEF Whole
  <1> QED
    BY <1>4, <1>5, <1>6, <1>7 DEF WorkerStep

\* A handler: a session saves once, what its transaction has then, and that is
\* what its COMMIT makes visible.
LEMMA HandlerWhole ==
    ASSUME Inv, SessionInv, Whole, NEW h \in Handlers, HandlerStep(h)
    PROVE  Whole'
  <1> USE DEF leveldbVars, ipfsVars, txnVars, clientVars
  <1>1. /\ PointersWhole /\ TasksWhole /\ TxnsWhole /\ SavedWhole /\ h \in Goroutines
        /\ txn \in [Sessions -> Txns] /\ status \in [Sessions -> Statuses]
        /\ saved \in [Sessions -> CIDs]
    BY DEF Whole, Goroutines, Inv, TypeOK
  <1>2. UNCHANGED <<outcome, target, saved>> => Grown
    BY <1>1, GrownBy
  <1>3. CASE \/ FindQueue(h) \/ Enqueue(h) \/ LockForBegin(h) \/ LookUpTransaction(h)
             \/ DeleteDatabase(h) \/ RollbackTransaction(h)
    <2>1. UNCHANGED <<cache, ipns, publishes, txn, outcome, target, saved>>
      BY <1>3 DEF FindQueue, Enqueue, LockForBegin, LookUpTransaction, DeleteDatabase,
         RollbackTransaction
    <2>2. \/ \E r : Return(h, r)
          \/ \E pc \in {"enqueue", "wait", "load", "run"} : Goto(h, pc)
      BY <1>3 DEF FindQueue, Enqueue, LockForBegin, LookUpTransaction, DeleteDatabase,
         RollbackTransaction
    <2>3. TasksWhole'
      BY <1>1, <1>2, <2>1, <2>2, ReturnWhole, GotoWhole DEF Carrying, Committing
    <2>4. \A s \in Sessions :
             /\ status'[s] # "unused" => status[s] # "unused"
             /\ status[s] \notin {"unused", "active"} => status'[s] \notin {"unused", "active"}
      BY <1>1, <1>3 DEF FindQueue, Enqueue, LockForBegin, LookUpTransaction, DeleteDatabase,
         RollbackTransaction, RemoveFromMap
    <2>5. TxnsWhole' /\ SavedWhole'
      BY <1>1, <1>2, <2>1, <2>4, SessionsStayWhole
    <2> QED
      BY <1>1, <1>2, <2>1, <2>3, <2>5, PointersStayWhole DEF Whole
  <1>4. CASE TakeForCommit(h)
    <2>1. /\ At(h, "commit", "take") /\ UNCHANGED <<cache, ipns, publishes, txn, outcome, target, saved>>
      BY <1>4 DEF TakeForCommit
    <2>2. PICK s \in Sessions : s = task[h].ses
      BY <1>1, <2>1 DEF At, Inv, ControlOK, HasArguments
    <2>3. \/ /\ status[s] = "active" /\ status' = [status EXCEPT ![s] = "committing"]
             /\ Goto(h, "commitAdd")
          \/ Return(h, "error") /\ UNCHANGED status
      BY <1>4, <2>2 DEF TakeForCommit, RemoveFromMap
    <2>4. TxnsWhole' /\ SavedWhole' /\ PointersWhole' /\ Grown
      <3>1. \A r \in Sessions :
             /\ status'[r] # "unused" => status[r] # "unused"
             /\ status[r] \notin {"unused", "active"} => status'[r] \notin {"unused", "active"}
        BY <1>1, <2>3
      <3> QED
        BY <1>1, <1>2, <2>1, <3>1, SessionsStayWhole, PointersStayWhole
    <2>5. ASSUME status[s] = "active", Goto(h, "commitAdd") PROVE TasksWhole'
      <3>1. /\ Moves(h) /\ task'[h].pc = "commitAdd" /\ task'[h].ses = s /\ task'[h].op = "commit"
        BY <1>1, <2>1, <2>2, <2>5, GotoMoves DEF Moves, At
      <3>2. saved'[s] = None
        BY <1>1, <2>1, <2>5 DEF SavedWhole
      <3>3. TaskWhole(h)'
        BY <3>1, <3>2 DEF TaskWhole, Carrying
      <3> QED
        BY <1>1, <2>1, <2>4, <3>1, <3>3, OneTaskWhole DEF Moves
    <2>6. TasksWhole'
      BY <1>1, <2>1, <2>3, <2>4, <2>5, ReturnWhole
    <2> QED
      BY <2>4, <2>6 DEF Whole
  <1>5. CASE OpenTransaction(h)
    <2>1. PICK s \in Sessions : s = task[h].ses /\ At(h, "begin", "loaded")
      BY <1>1, <1>5 DEF OpenTransaction, At, Inv, ControlOK, HasArguments
    <2>2. PICK x : x = [db |-> task[h].db, ver |-> task[h].ver, mu |-> None]
      OBVIOUS
    <2>3. /\ Return(h, "ok")
          /\ status' = [status EXCEPT ![s] = "active"] /\ txn' = [txn EXCEPT ![s] = x]
          /\ UNCHANGED <<cache, ipns, publishes, outcome, target, saved>>
      BY <1>5, <2>1, <2>2 DEF OpenTransaction
    <2>4. x.ver \in Units(s) /\ Grown
      BY <1>1, <1>2, <2>1, <2>2, <2>3, UnitsOf DEF At, TasksWhole, TaskWhole, Carrying
    <2>5. saved[s] = None
      BY <1>1, <2>1 DEF At, SessionInv, BeginsAlone, SavedWhole
    <2>6. \A r \in Sessions : r # s => txn'[r] = txn[r] /\ status'[r] = status[r]
      BY <2>3
    <2>7. TxnsWhole'
      BY <1>1, <2>3, <2>4, <2>6 DEF TxnsWhole, Grown
    <2>8. SavedWhole'
      BY <1>1, <2>3, <2>4, <2>5, <2>6 DEF SavedWhole, Grown
    <2>9. PointersWhole' /\ TasksWhole'
      BY <1>1, <2>3, <2>4, PointersStayWhole, ReturnWhole
    <2> QED
      BY <2>7, <2>8, <2>9 DEF Whole
  <1>6. CASE RunInTransaction(h)
    <2>1. PICK s \in Sessions : /\ s = task[h].ses /\ At(h, "exec", "run")
                                /\ status[s] # "unused" /\ txn[s].ver \in Versions
      BY <1>6, Handling DEF RunInTransaction, At
    <2>2. PICK w \in Writes : w = task[h].stmt
      BY <1>1, <2>1 DEF At, Inv, ControlOK, HasArguments
    <2>3. PICK v : v = Execute(txn[s].ver, w)
      OBVIOUS
    <2>4. /\ UNCHANGED <<cache, ipns, publishes, status, outcome, target, saved>>
          /\ \E r : Return(h, r)
          /\ txn' = txn \/ txn' = [txn EXCEPT ![s].ver = v]
      BY <1>6, <2>1, <2>2, <2>3 DEF RunInTransaction, SetState
    <2>5. w \in Sent /\ target[w] = s
      BY <1>1, <2>1, <2>2 DEF At, TasksWhole, TaskWhole, SentTo, Sent
    <2>6. v \in Units(s)
      BY <1>1, <2>1, <2>3, <2>5, ExecuteUnits DEF TxnsWhole
    <2>7. \A r \in Sessions : txn'[r].ver = txn[r].ver \/ (r = s /\ txn'[r].ver = v)
      BY <1>1, <2>4 DEF Txns
    <2>8. TxnsWhole'
      BY <1>1, <1>2, <2>4, <2>6, <2>7 DEF TxnsWhole, Grown
    <2>9. SavedWhole'
      BY <1>1, <1>2, <2>4 DEF SavedWhole, Grown
    <2>10. PointersWhole' /\ TasksWhole'
      BY <1>1, <1>2, <2>4, PointersStayWhole, ReturnWhole
    <2> QED
      BY <2>8, <2>9, <2>10 DEF Whole
  <1>7. CASE CommitAdd(h)
    <2>1. PICK s \in Sessions : /\ s = task[h].ses /\ At(h, "commit", "commitAdd")
                                /\ txn[s].ver \in Versions
      BY <1>7, Handling DEF CommitAdd, At
    <2>2. PICK v \in Versions : v = txn[s].ver
      BY <2>1
    <2>3. /\ UNCHANGED <<cache, ipns, publishes, outcome, target>>
          /\ \/ /\ saved' = [saved EXCEPT ![s] = v] /\ txn' = [txn EXCEPT ![s].mu = h]
                /\ GotoWith(h, "commitStore", v) /\ UNCHANGED status
             \/ /\ status' = [status EXCEPT ![s] = "failed"] /\ Return(h, "error")
                /\ UNCHANGED <<saved, txn>>
      BY <1>7, <2>1, <2>2 DEF CommitAdd
    <2>4. /\ saved[s] = None /\ status[s] = "committing"
          /\ \A g \in Handlers : g # h => ~InCommit(g, s)
      BY <1>1, <2>1 DEF At, TasksWhole, TaskWhole, SessionInv, CommitsAlone, InCommit, Committing
    <2>5. Grown
      BY <1>1, <2>3, <2>4, GrownBy
    <2>6. PointersWhole'
      BY <1>1, <2>3, <2>5, PointersStayWhole
    <2>7. CASE Return(h, "error") /\ status' = [status EXCEPT ![s] = "failed"]
                /\ UNCHANGED <<saved, txn>>
      <3>1. \A r \in Sessions :
               /\ status'[r] # "unused" => status[r] # "unused"
               /\ status[r] \notin {"unused", "active"} => status'[r] \notin {"unused", "active"}
        BY <1>1, <2>4, <2>7
      <3> QED
        BY <1>1, <2>5, <2>6, <2>7, <3>1, SessionsStayWhole, ReturnWhole DEF Whole
    <2>8. CASE /\ saved' = [saved EXCEPT ![s] = v] /\ txn' = [txn EXCEPT ![s].mu = h]
               /\ GotoWith(h, "commitStore", v) /\ UNCHANGED status
      <3>1. \A r \in Sessions : txn'[r].ver = txn[r].ver
        BY <1>1, <2>1, <2>8 DEF Txns
      <3>2. TxnsWhole'
        BY <1>1, <2>5, <2>8, <3>1 DEF TxnsWhole, Grown
      <3>3. v \in Units(s)
        BY <1>1, <2>2, <2>4 DEF TxnsWhole
      <3>4. SavedWhole'
        BY <1>1, <2>4, <2>5, <2>8, <3>3 DEF SavedWhole, Grown
      <3>5. /\ Moves(h) /\ task'[h].pc = "commitStore" /\ task'[h].ver = v
            /\ task'[h].ses = s /\ task'[h].op = "commit"
            /\ \A u \in Goroutines : u # h => task'[u] = task[u]
        BY <1>1, <2>1, <2>8, GotoWithMoves, GotoWithEffect DEF Moves, At
      <3>6. TaskWhole(h)'
        BY <1>1, <2>2, <2>8, <3>5, ConstantsAssumption DEF TaskWhole, Carrying
      <3>7. ASSUME NEW u \in Goroutines, u # h PROVE TaskWhole(u)'
        <4>1. task'[u] = task[u] /\ TaskWhole(u)
          BY <1>1, <3>5, <3>7 DEF TasksWhole
        <4>2. task[u].op = "exec" => task[u].ses \in Sessions
          BY DEF Inv, ControlOK, HasArguments
        <4>3. task[u].pc \in Committing =>
                 u \in Handlers /\ task[u].ses \in Sessions /\ task[u].ses # s
          <5>1. task[u].pc \in Committing => task[u].op = "commit"
            BY DEF Inv, ControlOK, Steps, Committing
          <5>2. task[u].op = "commit" => u \in Handlers /\ task[u].ses \in Sessions
            BY DEF Inv, ControlOK, HasArguments, Goroutines
          <5> QED
            BY <2>4, <3>7, <5>1, <5>2 DEF InCommit
        <4>4. task[u].pc \in Committing => saved'[task[u].ses] = saved[task[u].ses]
          BY <1>1, <2>8, <4>3
        <4> QED
          BY <2>5, <4>1, <4>2, <4>4 DEF TaskWhole, Grown, Committing
      <3> QED
        BY <2>6, <3>2, <3>4, <3>6, <3>7 DEF Whole, TasksWhole
    <2> QED
      BY <2>3, <2>7, <2>8
  <1>8. CASE CommitStore(h)
    <2>1. PICK s \in Sessions : /\ s = task[h].ses /\ At(h, "commit", "commitStore")
                                /\ txn[s].db \in DBs
      BY <1>8, Handling DEF CommitStore, At
    <2>2. PICK d \in DBs : d = txn[s].db
      BY <2>1
    <2> PICK v : v = task[h].ver
      OBVIOUS
    <2>3. /\ UpdateCache(d, v) /\ Spawn(d, v, s) /\ Return(h, "ok")
          /\ UNCHANGED <<ipns, outcome, target, saved>>
          /\ txn' = [txn EXCEPT ![s].mu = None]
          /\ status' = [status EXCEPT ![s] = "committed"]
      BY <1>8, <2>1, <2>2 DEF CommitStore, Unlock
    <2>4. v = saved[s] /\ saved[s] # None
      BY <1>1, <2>1, <2>2 DEF At, TasksWhole, TaskWhole
    <2>5. v \in Units(None)' /\ Grown
      BY <1>1, <1>2, <2>3, <2>4, UnitsOf DEF SavedWhole, Grown
    <2>6. \A p \in publishes' : p \in publishes \/ p.ver \in Units(None)'
      BY <2>3, <2>5 DEF Spawn
    <2>7. PointersWhole' /\ TasksWhole'
      BY <1>1, <2>3, <2>5, <2>6, UpdateCacheWhole, ReturnWhole
    <2>8. \A r \in Sessions :
             /\ txn'[r].ver = txn[r].ver
             /\ status'[r] # "unused" => status[r] # "unused"
             /\ status[r] \notin {"unused", "active"} => status'[r] \notin {"unused", "active"}
      <3>1. status[s] # "unused"
        BY <1>1, <2>4 DEF SavedWhole
      <3> QED
        BY <1>1, <2>1, <2>3, <3>1 DEF Txns
    <2>9. TxnsWhole' /\ SavedWhole'
      BY <1>1, <2>3, <2>5, <2>8, SessionsStayWhole
    <2> QED
      BY <2>7, <2>9 DEF Whole
  <1>9. CASE GenerateKey(h) \/ Register(h)
    <2>1. /\ UNCHANGED <<cache, ipns, txn, status, saved, outcome, target>>
          /\ At(h, "create", "keygen") \/ At(h, "create", "register")
          /\ UNCHANGED publishes \/ Spawn(task[h].db, task[h].ver, task[h].db)
          /\ Return(h, "error") \/ Goto(h, "register") \/ Goto(h, "cacheNew")
      BY <1>9 DEF GenerateKey, Register
    <2>2. task[h].ver \in Units(None)' /\ Grown
      BY <1>1, <1>2, <2>1 DEF At, TasksWhole, TaskWhole, Carrying, Grown
    <2>3. \A p \in publishes' : p \in publishes \/ p.ver \in Units(None)'
      BY <2>1, <2>2 DEF Spawn
    <2>4. TasksWhole'
      BY <1>1, <2>1, <2>2, ReturnWhole, GotoWhole DEF At, Carrying, Committing
    <2>5. PointersWhole' /\ TxnsWhole' /\ SavedWhole'
      BY <1>1, <2>1, <2>2, <2>3, PointersStayWhole, SessionsStayWhole
    <2> QED
      BY <2>4, <2>5 DEF Whole
  <1>10. CASE CacheNew(h)
    <2>1. /\ At(h, "create", "cacheNew") /\ UpdateCache(task[h].db, task[h].ver)
          /\ Return(h, "ok") /\ UNCHANGED <<ipns, publishes, txn, status, saved, outcome, target>>
      BY <1>10 DEF CacheNew
    <2>2. task[h].ver \in Units(None)' /\ task[h].db \in DBs /\ Grown
      BY <1>1, <1>2, <2>1
      DEF At, TasksWhole, TaskWhole, Carrying, Grown, Inv, ControlOK, HasArguments
    <2>3. PointersWhole' /\ TasksWhole' /\ TxnsWhole' /\ SavedWhole'
      BY <1>1, <2>1, <2>2, UpdateCacheWhole, ReturnWhole, SessionsStayWhole
    <2> QED
      BY <2>3 DEF Whole
  <1>11. CASE Reply(h)
    BY <1>11, ArrivalWhole
  <1> QED
    BY <1>3, <1>4, <1>5, <1>6, <1>7, <1>8, <1>9, <1>10, <1>11 DEF HandlerStep

\* Cleanup, publications and crashes make no version.
LEMMA BackgroundWhole ==
    ASSUME Inv, Whole,
           \/ \E s \in Sessions : CleanupStale(s)
           \/ \E p \in publishes : FindEntry(p) \/ Publish(p) \/ PublishFails(p)
           \/ Crash
           \/ UNCHANGED vars
    PROVE  Whole'
  <1> USE DEF leveldbVars, ipfsVars, txnVars, clientVars, vars
  <1>1. /\ PointersWhole /\ TasksWhole /\ TxnsWhole /\ SavedWhole
        /\ txn \in [Sessions -> Txns] /\ status \in [Sessions -> Statuses]
        /\ outcome \in [Statements -> {"unsent", "pending", "ok", "error", "unknown"}]
    BY DEF Whole, Inv, TypeOK
  <1>2. UNCHANGED <<cache, saved, target>>
    BY DEF CleanupStale, FindEntry, Publish, PublishFails, Crash
  <1>3. \A r \in Sessions :
           /\ txn'[r].ver = txn[r].ver
           /\ status'[r] # "unused" => status[r] # "unused"
           /\ status[r] \notin {"unused", "active"} => status'[r] \notin {"unused", "active"}
    BY <1>1 DEF CleanupStale, RemoveFromMap, FindEntry, Publish, PublishFails, Crash, Txns
  <1>4. \A w \in Writes : outcome[w] # "unsent" => outcome'[w] # "unsent"
    BY <1>1 DEF CleanupStale, FindEntry, Publish, PublishFails, Crash, Statements
  <1>5. Grown
    BY <1>1, <1>2, <1>4, GrownBy
  <1>6. TxnsWhole' /\ SavedWhole'
    BY <1>1, <1>2, <1>3, <1>5, SessionsStayWhole
  <1>7. PointersWhole'
    <2>1. CASE UNCHANGED ipns /\ publishes' \subseteq publishes
      BY <1>1, <1>2, <1>5, <2>1, PointersStayWhole
    <2>2. ASSUME NEW p \in publishes, FindEntry(p) \/ Publish(p) PROVE PointersWhole'
      <3>1. NoNewPublication
            /\ \A d \in DBs : ipns'[d] = ipns[d] \/ ipns'[d] = p.ver
        BY <2>2, PublicationStep DEF FindEntry, Publish, Inv, TypeOK
      <3> QED
        BY <1>1, <1>2, <1>5, <3>1 DEF NoNewPublication, PointersWhole, Grown
    <2> QED
      BY <2>1, <2>2 DEF CleanupStale, PublishFails, Crash
  <1>8. TasksWhole'
    <2>1. CASE Crash
      <3>1. NoTask.pc = "idle" /\ NoTask.op = "none" /\ \A t \in Goroutines : task'[t] = NoTask
        BY <2>1 DEF Crash, NoTask
      <3> QED
        BY <3>1 DEF TasksWhole, TaskWhole, Carrying
    <2>2. CASE UNCHANGED task
      <3> SUFFICES ASSUME NEW t \in Goroutines PROVE TaskWhole(t)'
        BY DEF TasksWhole
      <3>1. TaskWhole(t) /\ (task[t].op = "exec" => task[t].ses \in Sessions)
        BY <1>1 DEF TasksWhole, Inv, ControlOK, HasArguments
      <3> QED
        BY <1>2, <1>5, <2>2, <3>1 DEF TaskWhole, Grown
    <2> QED
      BY <2>1, <2>2 DEF CleanupStale, FindEntry, Publish, PublishFails
  <1> QED
    BY <1>6, <1>7, <1>8 DEF Whole

\* A committed transaction shows entirely or not at all, to every SELECT,
\* reader and fork of its database, however statements, COMMIT, other writers,
\* publications and crashes interleave.
THEOREM CommitsAreUnits == Spec => []CommitAllOrNothing
  <1>1. Inv /\ SessionInv /\ Whole /\ [Next]_vars => Whole'
    BY ArrivalWhole, LoadWhole, WorkerWhole, HandlerWhole, BackgroundWhole DEF Next
  <1> QED
    BY <1>1, WholeParts, InitWhole, Invariance, SessionInvariance, PTL DEF Spec

-----------------------------------------------------------------------------
(* Errors                                                                    *)


\* A goroutine that holds a statement it has not executed, or could not.
HoldsFresh(t) ==
    \/ task[t].op = "write" /\ task[t].pc \in {"dispatch", "enqueue"}
    \/ /\ task[t].op = "write" /\ task[t].pc = "wait"
       /\ \E i \in 1..Len(queues[task[t].db]) : queues[task[t].db][i] = t
    \/ task[t].op = "job" /\ task[t].pc \in {"load", "entry", "resolve", "fill", "loaded"}
    \/ task[t].op = "job" /\ task[t].pc = "answer" /\ task[t].res = "error"
    \/ task[t].op = "exec" /\ task[t].pc \in {"lookup", "run"}
    \/ task[t].op \in {"write", "exec"} /\ task[t].pc = "reply" /\ task[t].res = "error"

\* The statements that have left no trace, and never will unless executed.
Fresh == {w \in Writes : \/ outcome[w] \in {"unsent", "error"}
                         \/ \E t \in Goroutines : HoldsFresh(t) /\ task[t].stmt = w}

\* A statement is held by one call at a time, which will be answered, and by
\* the worker that has the job of that call.
Sending == {"write", "exec"}
HeldOnce ==
    /\ \A h \in Handlers : task[h].op \in Sending => outcome[task[h].stmt] = "pending"
    /\ \A g, h \in Handlers :
          task[g].op \in Sending /\ task[h].op \in Sending /\ task[g].stmt = task[h].stmt
             => g = h
    /\ \A d \in DBs : task[d].op = "job" => task[task[d].from].stmt = task[d].stmt
    /\ \A h \in Handlers : task[h].stmt # None => task[h].op \in Sending

TraceObjects == \A v \in objects : Applied(v) \cap Fresh = {}
TraceTxns    == \A s \in Sessions : status[s] # "unused" => Applied(txn[s].ver) \cap Fresh = {}
TraceTasks   == \A t \in Goroutines : task[t].pc \in Carrying \cup {"commitStore"} =>
                    Applied(task[t].ver) \cap Fresh = {}
Traceless    == TraceObjects /\ TraceTxns /\ TraceTasks

\* No version then has a statement that was answered with an error.
LEMMA TraceParts == Inv /\ Traceless => ErrorLeavesNoTrace
  <1> SUFFICES ASSUME Inv, Traceless, NEW v \in objects, NEW w \in Applied(v),
                      outcome[w] = "error"
               PROVE  FALSE
    BY DEF ErrorLeavesNoTrace
  <1>1. v \in Versions
    BY DEF Inv, TypeOK
  <1>2. w \in Writes
    BY <1>1 DEF Versions, Applied
  <1> QED
    BY <1>2 DEF Traceless, TraceObjects, Fresh

\* No statement has been sent when the server starts.
LEMMA InitTrace == Init => HeldOnce /\ Traceless
  <1> SUFFICES ASSUME Init PROVE HeldOnce /\ Traceless
    OBVIOUS
  <1>1. \A t \in Goroutines : task[t] = NoTask
    BY DEF Init
  <1>2. HeldOnce
    <2>1. \A t \in Goroutines : task[t].op = "none"
      BY <1>1 DEF NoTask
    <2>2. \A h \in Handlers : task[h].op \notin Sending
      BY <2>1 DEF Sending, Goroutines
    <2>3. \A d \in DBs : task[d].op # "job"
      BY <2>1 DEF Goroutines
    <2>4. \A h \in Handlers : task[h].stmt = None
      BY <1>1 DEF NoTask, Goroutines
    <2> QED
      BY <2>2, <2>3, <2>4 DEF HeldOnce
  <1>3. \A d \in DBs : Applied(EmptyVersion(d)) = {}
    BY DEF Applied, EmptyVersion
  <1>4. TraceObjects
    BY <1>3, ConstantsAssumption DEF Init, TraceObjects
  <1>5. TraceTxns /\ TraceTasks
    BY <1>1 DEF Init, TraceTxns, TraceTasks, NoTask, Carrying
  <1> QED
    BY <1>2, <1>4, <1>5 DEF Traceless

-----------------------------------------------------------------------------

\* A goroutine that moves holds its statement; it is fresh only if it was.
LEMMA MoveFresh ==
    ASSUME Inv, NEW t \in Goroutines, Moves(t), UNCHANGED <<outcome, queues>>,
           HoldsFresh(t)' => HoldsFresh(t)
    PROVE  Fresh' \subseteq Fresh
  <1>1. \A u \in Goroutines : task'[u].stmt = task[u].stmt
    BY DEF Moves
  <1>2. \A u \in Goroutines : HoldsFresh(u)' => HoldsFresh(u)
    <2> SUFFICES ASSUME NEW u \in Goroutines, u # t PROVE HoldsFresh(u)' => HoldsFresh(u)
      OBVIOUS
    <2>1. task'[u] = task[u]
      BY DEF Moves
    <2> QED
      BY <2>1 DEF HoldsFresh
  <1> QED
    BY <1>1, <1>2 DEF Fresh

\* A goroutine that moves keeps what it holds.
LEMMA MoveHeld ==
    ASSUME Inv, HeldOnce, NEW t \in Goroutines, Moves(t), UNCHANGED outcome
    PROVE  HeldOnce'
  <1>1. \A u \in Goroutines : /\ task'[u].op = task[u].op /\ task'[u].stmt = task[u].stmt
                              /\ task'[u].from = task[u].from
    BY DEF Moves
  <1>2. \A d \in DBs : d \in Goroutines /\ (task[d].op = "job" => task[d].from \in Goroutines)
    BY DEF Goroutines, Inv, ControlOK, HasArguments
  <1>3. \A h \in Handlers : h \in Goroutines
    BY DEF Goroutines
  <1> QED
    BY <1>1, <1>2, <1>3 DEF HeldOnce

\* What keeps every version without trace.
LEMMA TraceKept ==
    ASSUME Traceless, Fresh' \subseteq Fresh, NEW t \in Goroutines,
           \A u \in Goroutines : u # t => task'[u] = task[u],
           task'[t].pc \in Carrying \cup {"commitStore"} => Applied(task'[t].ver) \cap Fresh' = {},
           \A v \in objects' : v \in objects \/ Applied(v) \cap Fresh' = {},
           \A s \in Sessions : status'[s] # "unused" =>
              \/ status[s] # "unused" /\ txn'[s].ver = txn[s].ver
              \/ Applied(txn'[s].ver) \cap Fresh' = {}
    PROVE  Traceless'
  <1>1. TraceObjects'
    BY DEF Traceless, TraceObjects
  <1>2. TraceTxns'
    BY DEF Traceless, TraceTxns
  <1>3. TraceTasks'
    BY DEF Traceless, TraceTasks
  <1> QED
    BY <1>1, <1>2, <1>3 DEF Traceless

\* A goroutine that moves, without executing a statement.
LEMMA MoveTrace ==
    ASSUME Inv, HeldOnce, Traceless, NEW t \in Goroutines, Moves(t),
           UNCHANGED <<outcome, queues>>, HoldsFresh(t)' => HoldsFresh(t),
           task'[t].pc \in Carrying \cup {"commitStore"} => Applied(task'[t].ver) \cap Fresh = {},
           \A v \in objects' : v \in objects \/ Applied(v) \cap Fresh = {},
           \A s \in Sessions : status'[s] # "unused" =>
              \/ status[s] # "unused" /\ txn'[s].ver = txn[s].ver
              \/ Applied(txn'[s].ver) \cap Fresh = {}
    PROVE  HeldOnce' /\ Traceless'
  <1>1. Fresh' \subseteq Fresh
    BY MoveFresh
  <1>2. \A u \in Goroutines : u # t => task'[u] = task[u]
    BY DEF Moves
  <1>3. Traceless'
    BY <1>1, <1>2, TraceKept
  <1> QED
    BY <1>3, MoveHeld

\* A goroutine that loads a database gets a version that was added.
LEMMA LoadTrace ==
    ASSUME Inv, Stored, HeldOnce, Traceless, NEW t \in Goroutines, Load(t)
    PROVE  HeldOnce' /\ Traceless'
  <1> USE DEF leveldbVars, ipfsVars, txnVars, clientVars
  <1>1. UNCHANGED <<outcome, queues, objects, status, txn>>
    BY DEF Load, ReadCache, ReadEntry, Resolve, FillCache, AnswerRead, ReturnError
  <1>2. Steps(task[t].op, task[t].pc) /\ HasArguments(task[t])
    BY DEF Inv, ControlOK
  <1>3. \A v \in objects : Applied(v) \cap Fresh = {}
    BY DEF Traceless, TraceObjects
  <1>4. ASSUME Moves(t), HoldsFresh(t)' => HoldsFresh(t),
               task'[t].pc \in Carrying \cup {"commitStore"} => Applied(task'[t].ver) \cap Fresh = {}
        PROVE  HeldOnce' /\ Traceless'
    BY <1>1, <1>4, MoveTrace
  <1>5. ASSUME NEW r, Return(t, r), (r = "error" /\ task[t].op = "job" => HoldsFresh(t)),
               task[t].op \notin {"write", "exec"}
        PROVE  HeldOnce' /\ Traceless'
    <2>1. Moves(t) /\ task'[t].res = r /\ task'[t].pc \in {"reply", "answer"}
      BY <1>5, ReturnMoves
    <2>2. HoldsFresh(t)' => HoldsFresh(t)
      BY <1>5, <2>1 DEF HoldsFresh, Moves
    <2> QED
      BY <1>4, <2>1, <2>2 DEF Carrying
  <1>6. ASSUME NEW pc \in {"entry", "resolve", "fill", "loaded"},
               task[t].pc \in {"load", "entry", "resolve", "fill"},
               Moves(t), task'[t].pc = pc,
               pc \notin {"entry", "resolve"} => Applied(task'[t].ver) \cap Fresh = {}
        PROVE  HeldOnce' /\ Traceless'
    <2>1. HoldsFresh(t)' => HoldsFresh(t)
      BY <1>6 DEF HoldsFresh, Moves
    <2> QED
      BY <1>4, <1>6, <2>1 DEF Carrying
  <1>7. CASE ReadCache(t)
    <2>1. task[t].pc = "load"
      BY <1>7 DEF ReadCache
    <2>2. cache[task[t].db] # None => cache[task[t].db] \in objects
      <3>1. task[t].db \in DBs
        BY <1>2, <2>1 DEF Steps, HasArguments
      <3> QED
        BY <3>1 DEF Stored, PointersStored
    <2>3. CASE cache[task[t].db] # None
      <3>1. GotoWith(t, "loaded", cache[task[t].db])
        BY <1>7, <2>3 DEF ReadCache
      <3>2. Moves(t) /\ task'[t].pc = "loaded" /\ task'[t].ver = cache[task[t].db]
        BY <3>1, GotoWithMoves, GotoWithEffect
      <3> QED
        BY <1>3, <1>6, <2>1, <2>2, <2>3, <3>2
    <2>4. CASE cache[task[t].db] = None
      <3>1. Goto(t, "entry")
        BY <1>7, <2>4 DEF ReadCache
      <3>2. Moves(t) /\ task'[t].pc = "entry"
        BY <3>1, GotoMoves
      <3> QED
        BY <1>6, <2>1, <3>2
    <2> QED
      BY <2>3, <2>4
  <1>8a. CASE ReadEntry(t)
    <2>1. task[t].pc = "entry"
      BY <1>8a DEF ReadEntry
    <2>2. CASE Return(t, "error")
      BY <1>2, <1>5, <2>1, <2>2 DEF Steps, HoldsFresh
    <2>3. CASE Goto(t, "resolve")
      <3>1. Moves(t) /\ task'[t].pc = "resolve"
        BY <2>3, GotoMoves
      <3> QED
        BY <1>6, <2>1, <3>1
    <2> QED
      BY <1>8a, <2>2, <2>3 DEF ReadEntry
  <1>8. CASE Resolve(t)
    <2>1. task[t].pc = "resolve"
      BY <1>8 DEF Resolve
    <2>2. ipns[task[t].db] # None => ipns[task[t].db] \in objects
      <3>1. task[t].db \in DBs
        BY <1>2, <2>1 DEF Steps, HasArguments
      <3> QED
        BY <3>1 DEF Stored, PointersStored
    <2>3. CASE Return(t, "error")
      BY <1>2, <1>5, <2>1, <2>3 DEF Steps, HoldsFresh
    <2>4. CASE ipns[task[t].db] # None /\ GotoWith(t, "fill", ipns[task[t].db])
      <3>1. Moves(t) /\ task'[t].pc = "fill" /\ task'[t].ver = ipns[task[t].db]
        BY <2>4, GotoWithMoves, GotoWithEffect
      <3> QED
        BY <1>3, <1>6, <2>1, <2>2, <2>4, <3>1
    <2> QED
      BY <1>8, <2>3, <2>4 DEF Resolve
  <1>9. CASE FillCache(t)
    <2>1. task[t].pc = "fill" /\ Goto(t, "loaded")
      BY <1>9 DEF FillCache
    <2>2. Moves(t) /\ task'[t].pc = "loaded" /\ task'[t].ver = task[t].ver
      BY <2>1, GotoMoves, GotoEffect
    <2>3. Applied(task[t].ver) \cap Fresh = {}
      BY <2>1 DEF Traceless, TraceTasks, Carrying
    <2> QED
      BY <1>6, <2>1, <2>2, <2>3
  <1>10. CASE AnswerRead(t)
    BY <1>2, <1>5, <1>10 DEF AnswerRead, Steps
  <1>11. CASE ReturnError(t)
    BY <1>2, <1>5, <1>11 DEF ReturnError, FailurePoints, Steps, HoldsFresh
  <1> QED
    BY <1>7, <1>8a, <1>8, <1>9, <1>10, <1>11 DEF Load

\* A worker executes the one job it has taken; every other statement that is
\* waiting for its turn is another one.
LEMMA WorkerTrace ==
    ASSUME Inv, HeldOnce, Traceless, NEW d \in DBs, WorkerStep(d)
    PROVE  HeldOnce' /\ Traceless'
  <1> USE DEF leveldbVars, ipfsVars, txnVars, clientVars
  <1>1. /\ UNCHANGED <<outcome, status, txn>> /\ d \in Goroutines
        /\ \A g \in Handlers : g \in Goroutines /\ g \notin DBs
        /\ \A e \in DBs : e \in Goroutines
    BY ConstantsAssumption
    DEF WorkerStep, TakeJob, ExecuteJob, StoreJob, AnswerJob, Goroutines
  <1>2. CASE TakeJob(d)
    <2>1. queues[d] \in Seq(Handlers) /\ queues[d] # <<>> /\ task[d].pc = "idle"
          /\ queues \in [DBs -> Seq(Handlers)]
      BY <1>2 DEF TakeJob, Inv, TypeOK
    <2>2. PICK h \in Handlers : /\ h = Head(queues[d]) /\ h = queues[d][1]
                                /\ 1 \in 1..Len(queues[d])
      BY <2>1
    <2>3. At(h, "write", "wait") /\ task[h].db = d
      BY <2>2 DEF Inv, ControlOK
    <2> DEFINE k == [NoTask EXCEPT !.op = "job", !.pc = "load", !.db = d,
                                   !.stmt = task[h].stmt, !.from = h]
    <2>4. k.op = "job" /\ k.pc = "load" /\ k.stmt = task[h].stmt /\ k.from = h
      BY DEF NoTask
    <2>5. task' = [task EXCEPT ![d] = k] /\ queues' = [queues EXCEPT ![d] = Tail(@)]
          /\ UNCHANGED objects
      BY <1>2, <2>2 DEF TakeJob, Receive
    <2> HIDE DEF k
    <2>6. task'[d] = k /\ \A u \in Goroutines : u # d => task'[u] = task[u]
      BY <1>1, <2>5 DEF Inv, TypeOK
    <2>7. HoldsFresh(h)
      BY <2>2, <2>3 DEF HoldsFresh, At
    <2>8. \A e \in DBs : \A i \in 1..Len(queues'[e]) :
             \E j \in 1..Len(queues[e]) : queues'[e][i] = queues[e][j]
      <3>1. \A i \in 1..Len(Tail(queues[d])) :
               Tail(queues[d])[i] = queues[d][i + 1] /\ i + 1 \in 1..Len(queues[d])
        BY <2>1
      <3> QED
        BY <2>1, <2>5, <3>1
    <2>9. ASSUME NEW u \in Goroutines, u # d, HoldsFresh(u)' PROVE HoldsFresh(u)
      <3>1. task'[u] = task[u]
        BY <2>6, <2>9
      <3>2. task[u].op = "write" => task[u].db \in DBs
        BY DEF Inv, ControlOK, HasArguments
      <3> QED
        BY <2>8, <2>9, <3>1, <3>2, SMTT(60) DEF HoldsFresh
    <2>10. Fresh' \subseteq Fresh
      <3>1. ASSUME NEW u \in Goroutines, HoldsFresh(u)'
            PROVE  \E t \in Goroutines : HoldsFresh(t) /\ task[t].stmt = task'[u].stmt
        BY <1>1, <2>2, <2>4, <2>6, <2>7, <2>9, <3>1
      <3> QED
        BY <1>1, <3>1 DEF Fresh
    <2>11. Traceless'
      BY <1>1, <2>4, <2>5, <2>6, <2>10, TraceKept DEF Carrying
    <2>12. HeldOnce'
      <3>1. \A g \in Handlers : task'[g] = task[g]
        BY <1>1, <2>6
      <3>2. \A e \in DBs : task'[e].op = "job" => task'[e].from \in Handlers
               /\ task'[task'[e].from].stmt = task'[e].stmt
        <4>1. \A e \in DBs : task[e].op = "job" => task[e].from \in Handlers
          BY <1>1 DEF Inv, ControlOK, HasArguments
        <4> QED
          BY <1>1, <2>2, <2>4, <2>6, <3>1, <4>1 DEF HeldOnce
      <3> QED
        BY <1>1, <3>1, <3>2 DEF HeldOnce
    <2> QED
      BY <2>11, <2>12
  <1>3. CASE ExecuteJob(d)
    <2> DEFINE w == task[d].stmt
               v == Execute(task[d].ver, w)
    <2>1. /\ At(d, "job", "loaded") /\ w \in Writes /\ UNCHANGED queues
          /\ objects' = objects \cup {v} /\ GotoWith(d, "store", v)
      BY <1>3 DEF ExecuteJob, AddObject
    <2>2. task[d].ver \in Versions /\ task[d].from \in Handlers
      BY <1>1, <2>1 DEF At, Inv, ControlOK, HasArguments
    <2>3. Applied(v) \subseteq Applied(task[d].ver) \cup {w}
      BY <2>1, <2>2, ExecuteApplied
    <2>4. Applied(task[d].ver) \cap Fresh = {}
      BY <1>1, <2>1 DEF At, Traceless, TraceTasks, Carrying
    <2>5. /\ task[task[d].from].stmt = w /\ At(task[d].from, "write", "wait")
          /\ task[task[d].from].db = d
          /\ \A i \in 1..Len(queues[d]) : queues[d][i] # task[d].from
      BY <2>1 DEF At, HeldOnce, Inv, OneJobPerWaiter
    <2> HIDE DEF v
    <2>6. /\ Moves(d) /\ task'[d].pc = "store" /\ task'[d].ver = v
          /\ \A u \in Goroutines : u # d => task'[u] = task[u]
      BY <1>1, <2>1, GotoWithMoves, GotoWithEffect DEF Moves
    <2>7. ~HoldsFresh(d)'
      BY <2>6 DEF HoldsFresh
    <2>8. Fresh' \subseteq Fresh
      BY <1>1, <2>1, <2>6, <2>7, MoveFresh
    <2>9. w \notin Fresh'
      <3>1. outcome[w] = "pending"
        BY <2>2, <2>5 DEF HeldOnce, Sending, At
      <3>2. ASSUME NEW u \in Goroutines, HoldsFresh(u)', task'[u].stmt = w PROVE FALSE
        <4>1. u # d /\ task'[u] = task[u]
          BY <2>6, <2>7, <3>2
        <4>2. CASE u \in Handlers
          <5>1. task[u].op \in Sending
            BY <1>1, <3>2, <4>1, <4>2, ConstantsAssumption
            DEF HoldsFresh, Sending, Inv, ControlOK
          <5>2. u = task[d].from
            BY <2>2, <2>5, <3>2, <4>1, <4>2, <5>1 DEF HeldOnce, At, Sending
          <5> QED
            BY <2>1, <2>5, <3>2, <4>1, <5>2 DEF HoldsFresh, At
        <4>3. CASE u \in DBs
          <5>1. task[u].op = "job"
            BY <3>2, <4>1, <4>3 DEF HoldsFresh, Inv, ControlOK
          <5>2. /\ task[u].from \in Handlers /\ task[task[u].from].stmt = w
                /\ task[task[u].from].db = u /\ At(task[u].from, "write", "wait")
            BY <1>1, <3>2, <4>1, <4>3, <5>1
            DEF HeldOnce, Inv, OneJobPerWaiter, ControlOK, HasArguments
          <5>3. task[u].from = task[d].from
            BY <2>2, <2>5, <5>2 DEF HeldOnce, At, Sending
          <5> QED
            BY <2>5, <4>1, <5>2, <5>3
        <4> QED
          BY <4>2, <4>3 DEF Goroutines
      <3> QED
        BY <1>1, <3>1, <3>2 DEF Fresh
    <2> HIDE DEF w
    <2>10. Applied(v) \cap Fresh' = {}
      BY <2>3, <2>4, <2>8, <2>9
    <2>11. Traceless'
      BY <1>1, <2>1, <2>6, <2>8, <2>10, TraceKept
    <2> QED
      BY <1>1, <2>6, <2>11, MoveHeld
  <1>4. CASE StoreJob(d)
    <2>1. UNCHANGED <<queues, objects>> /\ Return(d, "ok") /\ At(d, "job", "store")
      BY <1>4 DEF StoreJob
    <2>2. Moves(d) /\ task'[d].pc \in {"answer", "reply"} /\ task'[d].res = "ok"
      BY <1>1, <2>1, ReturnMoves
    <2>3. ~HoldsFresh(d)'
      BY <2>1, <2>2 DEF HoldsFresh, Moves, At
    <2> QED
      BY <1>1, <2>1, <2>2, <2>3, MoveTrace DEF Carrying
  <1>5. CASE AnswerJob(d)
    <2>1. PICK h \in Handlers : h = task[d].from /\ task[h] \in Tasks
      BY <1>1, <1>5, Running DEF AnswerJob, At, HasArguments, Inv, TypeOK
    <2>2. At(d, "job", "answer") /\ task[h].pc = "wait" /\ UNCHANGED <<queues, objects>>
      BY <1>5, <2>1 DEF AnswerJob
    <2>3. task[h].op = "write" /\ task[h].stmt = task[d].stmt
      BY <2>1, <2>2 DEF Inv, OneJobPerWaiter, At, HeldOnce
    <2>4. /\ task'[d] = NoTask /\ task'[h].pc = "reply" /\ task'[h].res = task[d].res
          /\ task'[h].op = task[h].op /\ task'[h].stmt = task[h].stmt
          /\ \A u \in Goroutines : u # d /\ u # h => task'[u] = task[u]
      BY <1>1, <1>5, <2>1 DEF AnswerJob, Inv, TypeOK, Tasks
    <2>5. NoTask.op = "none" /\ NoTask.pc = "idle"
      BY DEF NoTask
    <2>6. ASSUME NEW u \in Goroutines, HoldsFresh(u)'
          PROVE  \E t \in Goroutines : HoldsFresh(t) /\ task[t].stmt = task'[u].stmt
      <3>1. u # d
        BY <2>4, <2>5, <2>6 DEF HoldsFresh
      <3>2. CASE u = h
        <4>1. task[d].res = "error"
          BY <2>3, <2>4, <2>6, <3>2 DEF HoldsFresh
        <4>2. HoldsFresh(d)
          BY <2>2, <4>1 DEF HoldsFresh, At
        <4> QED
          BY <1>1, <2>3, <2>4, <3>2, <4>2
      <3>3. CASE u # h
        <4>1. task'[u] = task[u]
          BY <2>4, <3>1, <3>3
        <4>2. HoldsFresh(u)
          BY <2>2, <2>6, <4>1 DEF HoldsFresh
        <4> QED
          BY <4>1, <4>2
      <3> QED
        BY <3>2, <3>3
    <2>7. Fresh' \subseteq Fresh
      BY <1>1, <2>6 DEF Fresh
    <2>8. TraceTasks'
      <3>1. ASSUME NEW u \in Goroutines, task'[u].pc \in Carrying \cup {"commitStore"}
            PROVE  task'[u] = task[u]
        BY <2>4, <2>5, <3>1 DEF Carrying
      <3> QED
        BY <2>7, <3>1 DEF Traceless, TraceTasks
    <2>9. TraceObjects' /\ TraceTxns'
      BY <1>1, <2>2, <2>7 DEF Traceless, TraceObjects, TraceTxns
    <2>10. HeldOnce'
      <3>1. \A g \in Handlers : task'[g].op = task[g].op /\ task'[g].stmt = task[g].stmt
        BY <1>1, <2>4
      <3>2. ASSUME NEW e \in DBs, task'[e].op = "job"
            PROVE  task'[task'[e].from].stmt = task'[e].stmt
        <4>1. e # d /\ task'[e] = task[e]
          BY <1>1, <2>1, <2>4, <2>5, <3>2
        <4>2. task[e].from \in Handlers
          BY <1>1, <3>2, <4>1 DEF Inv, ControlOK, HasArguments
        <4> QED
          BY <3>1, <3>2, <4>1, <4>2 DEF HeldOnce
      <3> QED
        BY <1>1, <3>1, <3>2 DEF HeldOnce
    <2> QED
      BY <2>8, <2>9, <2>10 DEF Traceless
  <1> QED
    BY <1>2, <1>3, <1>4, <1>5 DEF WorkerStep

\* A statement that arrives was fresh before it was sent; an error is told of
\* a statement that was not executed.
LEMMA ArrivalTrace ==
    ASSUME Inv, Stored, HeldOnce, Traceless, NEW h \in Handlers, Arrival(h) \/ Reply(h)
    PROVE  HeldOnce' /\ Traceless'
  <1> USE DEF leveldbVars, ipfsVars, txnVars, clientVars
  <1>1. /\ UNCHANGED <<queues, objects, status, txn>>
        /\ h \in Goroutines /\ h \notin DBs
        /\ \A g \in Handlers : g \in Goroutines
        /\ \A e \in DBs : e \in Goroutines
    BY ConstantsAssumption
    DEF Arrival, CallSelect, CallWrite, CallBegin, CallExec, CallCommit, CallRollback,
        CallCreate, CallDelete, Arrive, Reply, Goroutines
  <1>2. \A d \in DBs : task[d].op = "job" => task[d].from \in Handlers /\ At(task[d].from, "write", "wait")
    BY <1>1 DEF Inv, ControlOK, HasArguments, OneJobPerWaiter
  <1>3. ASSUME NEW k, task' = [task EXCEPT ![h] = k], task[h].pc \in {"idle", "reply"},
               \A g \in Handlers : g # h /\ task[g].op \in Sending => outcome'[task[g].stmt] = "pending",
               k.op \in Sending => /\ outcome'[k.stmt] = "pending"
                                   /\ \A g \in Handlers : task[g].op \in Sending => task[g].stmt # k.stmt,
               k.stmt # None => k.op \in Sending,
               Fresh' \subseteq Fresh, k.pc # "commitStore",
               k.pc \in Carrying => Applied(k.ver) \cap Fresh = {}
        PROVE  HeldOnce' /\ Traceless'
    <2>1. task'[h] = k /\ \A u \in Goroutines : u # h => task'[u] = task[u]
      BY <1>1, <1>3 DEF Inv, TypeOK
    <2>2. Traceless'
      BY <1>1, <1>3, <2>1, TraceKept
    <2>3. \A d \in DBs : task'[d] = task[d]
      BY <1>1, <2>1
    <2>4. \A d \in DBs : task[d].op = "job" => task'[task[d].from] = task[task[d].from]
      BY <1>1, <1>2, <1>3, <2>1 DEF At
    <2>5. \A d \in DBs : task'[d].op = "job" => task'[task'[d].from].stmt = task'[d].stmt
      BY <2>3, <2>4 DEF HeldOnce
    <2>6. \A g \in Handlers : task'[g].op \in Sending => outcome'[task'[g].stmt] = "pending"
      BY <1>1, <1>3, <2>1
    <2>7. \A g, u \in Handlers :
             task'[g].op \in Sending /\ task'[u].op \in Sending /\ task'[g].stmt = task'[u].stmt => g = u
      BY <1>1, <1>3, <2>1 DEF HeldOnce
    <2>8. \A g \in Handlers : task'[g].stmt # None => task'[g].op \in Sending
      BY <1>1, <1>3, <2>1 DEF HeldOnce
    <2> QED
      BY <2>2, <2>5, <2>6, <2>7, <2>8 DEF HeldOnce, Sending
  <1>4. ASSUME NEW k, task' = [task EXCEPT ![h] = k], ~HoldsFresh(h)', UNCHANGED outcome
        PROVE  Fresh' \subseteq Fresh
    <2>1. \A u \in Goroutines : u # h => task'[u] = task[u]
      BY <1>1, <1>4 DEF Inv, TypeOK
    <2>2. \A u \in Goroutines : HoldsFresh(u)' => HoldsFresh(u) /\ task'[u].stmt = task[u].stmt
      BY <1>1, <1>4, <2>1 DEF HoldsFresh
    <2> QED
      BY <1>4, <2>2 DEF Fresh
  <1>5. ASSUME NEW c, Arrive(h, c), NothingSent, c.op \notin {"write", "job", "exec"},
               c.stmt = None, c.pc # "commitStore", c.pc \in Carrying => Applied(c.ver) \cap Fresh = {}
        PROVE  HeldOnce' /\ Traceless'
    <2>1. /\ task' = [task EXCEPT ![h] = c] /\ task[h].pc = "idle" /\ UNCHANGED outcome
          /\ task'[h] = c
      BY <1>1, <1>5 DEF Arrive, NothingSent, Inv, TypeOK
    <2>2. ~HoldsFresh(h)'
      BY <1>5, <2>1 DEF HoldsFresh
    <2>3. Fresh' \subseteq Fresh
      BY <1>4, <2>1, <2>2
    <2> QED
      BY <1>3, <1>5, <2>1, <2>3 DEF HeldOnce, Sending
  <1>6. ASSUME NEW c, Arrive(h, c), c.op \in Sending, NEW x, Send(c.stmt, x),
               c.stmt \in Statements, c.pc \notin Carrying \cup {"commitStore"}
        PROVE  HeldOnce' /\ Traceless'
    <2> DEFINE w == c.stmt
    <2>1. /\ task' = [task EXCEPT ![h] = c] /\ task[h].pc = "idle"
          /\ task'[h] = c /\ \A u \in Goroutines : u # h => task'[u] = task[u]
      BY <1>1, <1>6 DEF Arrive, Inv, TypeOK
    <2>2. /\ outcome[w] = "unsent" /\ outcome'[w] = "pending"
          /\ \A v \in Statements : v # w => outcome'[v] = outcome[v]
      BY <1>6 DEF Send, Inv, TypeOK
    <2>3. \A g \in Handlers : task[g].op \in Sending => task[g].stmt \in Statements /\ task[g].stmt # w
      BY <1>1, <2>2 DEF HeldOnce, Inv, ControlOK, HasArguments, Sending, Statements
    <2>4. \A u \in Goroutines : u # h /\ HoldsFresh(u)' => HoldsFresh(u) /\ task'[u].stmt = task[u].stmt
      BY <1>1, <2>1 DEF HoldsFresh
    <2>5. Fresh' \subseteq Fresh
      <3> SUFFICES ASSUME NEW v \in Writes, v \in Fresh' PROVE v \in Fresh
        BY DEF Fresh
      <3>1. CASE v = w
        BY <2>2, <3>1 DEF Fresh
      <3>2. CASE v # w
        <4>1. outcome'[v] = outcome[v]
          BY <2>2, <3>2 DEF Statements
        <4>2. \A t \in Goroutines : HoldsFresh(t)' /\ task'[t].stmt = v =>
                 HoldsFresh(t) /\ task[t].stmt = v
          BY <2>1, <2>4, <3>2
        <4> QED
          BY <4>1, <4>2 DEF Fresh
      <3> QED
        BY <3>1, <3>2
    <2> HIDE DEF w
    <2>6. \A g \in Handlers : g # h /\ task[g].op \in Sending => outcome'[task[g].stmt] = "pending"
      BY <2>2, <2>3 DEF HeldOnce
    <2> QED
      BY <1>3, <1>6, <2>1, <2>2, <2>3, <2>5, <2>6 DEF w
  <1>7. CASE Reply(h)
    <2>1. /\ task' = [task EXCEPT ![h] = NoTask] /\ task[h].pc = "reply"
          /\ outcome' = IF task[h].stmt = None THEN outcome
                        ELSE [outcome EXCEPT ![task[h].stmt] = task[h].res]
          /\ \A u \in Goroutines : u # h => task'[u] = task[u]
          /\ task'[h] = NoTask
      BY <1>1, <1>7 DEF Reply, Inv, TypeOK
    <2>2. /\ NoTask.op = "none" /\ NoTask.pc = "idle" /\ NoTask.stmt = None
          /\ NoTask.op \notin Sending /\ NoTask.pc \notin Carrying \cup {"commitStore"}
          /\ outcome \in [Statements -> {"unsent", "pending", "ok", "error", "unknown"}]
      BY DEF NoTask, Inv, TypeOK, Sending, Carrying
    <2>3. task[h].res \in {"ok", "error"} /\ task[h].stmt \in Statements \cup {None}
      BY <1>1, <2>1 DEF Inv, TypeOK, Tasks, ControlOK, HasArguments
    <2>4. CASE task[h].stmt = None
      <3>1. UNCHANGED outcome /\ ~HoldsFresh(h)'
        BY <2>1, <2>2, <2>4 DEF HoldsFresh
      <3>2. Fresh' \subseteq Fresh
        BY <1>4, <2>1, <3>1
      <3>3. \A g \in Handlers : g # h /\ task[g].op \in Sending => outcome'[task[g].stmt] = "pending"
        BY <3>1 DEF HeldOnce
      <3> QED
        BY <1>3, <2>1, <2>2, <3>2, <3>3
    <2>5. CASE task[h].stmt # None
      <3> DEFINE w == task[h].stmt
      <3>1. /\ w \in Statements /\ task[h].op \in Sending /\ outcome'[w] = task[h].res
            /\ \A v \in Statements : v # w => outcome'[v] = outcome[v]
        BY <1>1, <2>1, <2>2, <2>3, <2>5 DEF HeldOnce
      <3>2. \A g \in Handlers : g # h /\ task[g].op \in Sending =>
               task[g].stmt \in Statements /\ task[g].stmt # w
        BY <1>1, <3>1 DEF HeldOnce, Inv, ControlOK, HasArguments, Sending, Statements
      <3>3. \A g \in Handlers : g # h /\ task[g].op \in Sending =>
               outcome'[task[g].stmt] = "pending"
        BY <3>1, <3>2 DEF HeldOnce
      <3>4. \A u \in Goroutines : HoldsFresh(u)' =>
               u # h /\ HoldsFresh(u) /\ task'[u].stmt = task[u].stmt
        BY <1>1, <2>1, <2>2 DEF HoldsFresh
      <3>5. task[h].res = "error" => HoldsFresh(h)
        BY <2>1, <3>1 DEF HoldsFresh, Sending
      <3>6. Fresh' \subseteq Fresh
        <4> SUFFICES ASSUME NEW v \in Writes, v \in Fresh' PROVE v \in Fresh
          BY DEF Fresh
        <4>1. CASE \E t \in Goroutines : HoldsFresh(t)' /\ task'[t].stmt = v
          BY <3>4, <4>1 DEF Fresh
        <4>2. CASE outcome'[v] \in {"unsent", "error"}
          <5>1. CASE v = w
            BY <1>1, <2>3, <3>1, <3>5, <4>2, <5>1 DEF Fresh
          <5>2. CASE v # w
            BY <3>1, <4>2, <5>2 DEF Fresh, Statements
          <5> QED
            BY <5>1, <5>2
        <4> QED
          BY <4>1, <4>2 DEF Fresh
      <3> QED
        BY <1>3, <2>1, <2>2, <3>3, <3>6
    <2> QED
      BY <2>4, <2>5
  <1>8. ASSUME NEW d \in DBs, NEW w \in Statements, CallWrite(h, d, w)
        PROVE  HeldOnce' /\ Traceless'
    <2> DEFINE c == [NoTask EXCEPT !.op = "write", !.pc = "dispatch", !.db = d, !.stmt = w]
    <2>1. c.op = "write" /\ c.pc = "dispatch" /\ c.stmt = w
      BY DEF NoTask
    <2>2. Arrive(h, c) /\ Send(w, d)
      BY <1>8 DEF CallWrite
    <2> HIDE DEF c
    <2> QED
      BY <1>6, <2>1, <2>2 DEF Sending, Carrying
  <1>9. ASSUME NEW s \in Sessions, NEW w \in Writes, CallExec(h, s, w)
        PROVE  HeldOnce' /\ Traceless'
    <2> DEFINE c == [NoTask EXCEPT !.op = "exec", !.pc = "lookup", !.ses = s, !.stmt = w]
    <2>1. c.op = "exec" /\ c.pc = "lookup" /\ c.stmt = w /\ w \in Statements
      BY DEF NoTask, Statements
    <2>2. Arrive(h, c) /\ Send(w, s)
      BY <1>9 DEF CallExec
    <2> HIDE DEF c
    <2> QED
      BY <1>6, <2>1, <2>2 DEF Sending, Carrying
  <1>10. ASSUME NEW d \in DBs, CallCreate(h, d) PROVE HeldOnce' /\ Traceless'
    <2>1. PICK v \in {EmptyVersion(d)} \cup ({cache[e] : e \in DBs} \ {None}) :
             /\ Arrive(h, [NoTask EXCEPT !.op = "create", !.pc = "keygen", !.db = d,
                                         !.ver = ForkVersion(d, v)])
             /\ NothingSent
      BY <1>10 DEF CallCreate
    <2> DEFINE c == [NoTask EXCEPT !.op = "create", !.pc = "keygen", !.db = d,
                                   !.ver = ForkVersion(d, v)]
    <2>2. /\ c.op = "create" /\ c.pc = "keygen" /\ c.ver = ForkVersion(d, v)
          /\ c.stmt = None
      BY DEF NoTask
    <2>3. Applied(EmptyVersion(d)) = {} /\ Applied(c.ver) = Applied(v)
      BY <2>2 DEF Applied, EmptyVersion, ForkVersion
    <2>4. v = EmptyVersion(d) \/ v \in objects
      BY DEF Stored, PointersStored
    <2>5. Applied(c.ver) \cap Fresh = {}
      BY <2>3, <2>4 DEF Traceless, TraceObjects
    <2>6. Arrive(h, c) /\ NothingSent
      BY <2>1
    <2> HIDE DEF c
    <2> QED
      BY <1>5, <2>2, <2>5, <2>6
  <1>11. ASSUME NEW d \in DBs, \/ CallSelect(h, d) \/ CallDelete(h, d)
                               \/ \E s \in Sessions : CallBegin(h, d, s)
         PROVE  HeldOnce' /\ Traceless'
    BY <1>5, <1>11 DEF CallSelect, CallDelete, CallBegin, NoTask, Carrying
  <1>12. ASSUME NEW s \in Sessions, CallCommit(h, s) \/ CallRollback(h, s)
         PROVE  HeldOnce' /\ Traceless'
    BY <1>5, <1>12 DEF CallCommit, CallRollback, NoTask, Carrying
  <1> QED
    BY <1>7, <1>8, <1>9, <1>10, <1>11, <1>12 DEF Arrival

\* A handler: the one step that executes a statement is RunInTransaction on the
\* object of its session; every other adds what was free of trace before.
LEMMA HandlerTrace ==
    ASSUME Inv, Stored, HeldOnce, Traceless, NEW h \in Handlers, HandlerStep(h)
    PROVE  HeldOnce' /\ Traceless'
  <1> USE DEF leveldbVars, ipfsVars, txnVars, clientVars
  <1>1. /\ h \in Goroutines /\ h \notin DBs
        /\ txn \in [Sessions -> Txns] /\ status \in [Sessions -> Statuses]
    BY ConstantsAssumption DEF Goroutines, Inv, TypeOK
  <1>2. ASSUME Moves(h), UNCHANGED <<outcome, queues>>, HoldsFresh(h)' => HoldsFresh(h),
               task'[h].pc \in Carrying \cup {"commitStore"} => Applied(task'[h].ver) \cap Fresh = {},
               \A v \in objects' : v \in objects \/ Applied(v) \cap Fresh = {},
               \A s \in Sessions : /\ status'[s] # "unused" => status[s] # "unused"
                                   /\ txn'[s].ver = txn[s].ver
        PROVE  HeldOnce' /\ Traceless'
    BY <1>1, <1>2, MoveTrace
  <1>3. CASE FindQueue(h) \/ LockForBegin(h) \/ LookUpTransaction(h)
    <2>1. UNCHANGED <<outcome, queues, objects, status, txn>>
      BY <1>3 DEF FindQueue, LockForBegin, LookUpTransaction
    <2>2. /\ \/ task[h].op = "write" /\ task[h].pc = "dispatch"
             \/ task[h].op = "begin"
             \/ task[h].op = "exec" /\ task[h].pc = "lookup"
          /\ (\E pc \in {"enqueue", "load", "run"} : Goto(h, pc)) \/ Return(h, "error")
      BY <1>3 DEF FindQueue, LockForBegin, LookUpTransaction, At
    <2>3. Moves(h) /\ task'[h].pc \in {"enqueue", "load", "run", "reply"}
      BY <1>1, <2>2, GotoMoves, ReturnMoves
    <2>4. HoldsFresh(h)' => HoldsFresh(h)
      BY <2>2, <2>3 DEF HoldsFresh, Moves
    <2> QED
      BY <1>2, <2>1, <2>3, <2>4 DEF Carrying
  <1>4. CASE \/ TakeForCommit(h) \/ RollbackTransaction(h) \/ DeleteDatabase(h)
             \/ Register(h) \/ CacheNew(h)
    <2>1. UNCHANGED <<outcome, queues, objects, txn>>
      BY <1>4 DEF TakeForCommit, RollbackTransaction, DeleteDatabase, Register, CacheNew
    <2>2. task[h].op \in {"commit", "rollback", "delete", "create"}
      BY <1>4 DEF TakeForCommit, RollbackTransaction, DeleteDatabase, Register, CacheNew, At
    <2>3. \A s \in Sessions : status'[s] # "unused" => status[s] # "unused"
      BY <1>1, <1>4 DEF TakeForCommit, RollbackTransaction, DeleteDatabase, Register, CacheNew,
         RemoveFromMap
    <2>4. \/ \E r : Return(h, r)
          \/ Goto(h, "commitAdd")
          \/ Goto(h, "cacheNew") /\ task[h].pc = "register"
      BY <1>4 DEF TakeForCommit, RollbackTransaction, DeleteDatabase, Register, CacheNew, At
    <2>5. Moves(h) /\ \/ task'[h].pc \in {"commitAdd", "reply"}
                      \/ task'[h].ver = task[h].ver /\ task[h].pc = "register"
                         /\ task'[h].pc = "cacheNew"
      BY <1>1, <2>4, GotoMoves, GotoEffect, ReturnMoves
    <2>6. task[h].pc = "register" => Applied(task[h].ver) \cap Fresh = {}
      BY <1>1 DEF Traceless, TraceTasks, Carrying
    <2>7. ~HoldsFresh(h)'
      BY <2>2, <2>5 DEF HoldsFresh, Moves
    <2> QED
      BY <1>2, <2>1, <2>3, <2>5, <2>6, <2>7 DEF Carrying
  <1>5. CASE OpenTransaction(h)
    <2>1. PICK s \in Sessions : /\ s = task[h].ses /\ At(h, "begin", "loaded")
      BY <1>1, <1>5 DEF OpenTransaction, At, Inv, ControlOK, HasArguments
    <2>2. PICK x : x = [db |-> task[h].db, ver |-> task[h].ver, mu |-> None]
      OBVIOUS
    <2>3. /\ Return(h, "ok") /\ UNCHANGED <<outcome, queues, objects>>
          /\ status' = [status EXCEPT ![s] = "active"] /\ txn' = [txn EXCEPT ![s] = x]
      BY <1>5, <2>1, <2>2 DEF OpenTransaction
    <2>4. x.ver = task[h].ver /\ Applied(task[h].ver) \cap Fresh = {}
      BY <1>1, <2>1, <2>2 DEF At, Traceless, TraceTasks, Carrying
    <2>5. Moves(h) /\ task'[h].pc = "reply"
      BY <1>1, <2>3, ReturnMoves
    <2>6. ~HoldsFresh(h)'
      BY <2>1, <2>5 DEF HoldsFresh, Moves, At
    <2>7. \A r \in Sessions : status'[r] # "unused" =>
             \/ status[r] # "unused" /\ txn'[r].ver = txn[r].ver
             \/ Applied(txn'[r].ver) \cap Fresh = {}
      BY <1>1, <2>3, <2>4
    <2> QED
      BY <1>1, <2>3, <2>5, <2>6, <2>7, MoveTrace DEF Carrying
  <1>6. CASE CommitAdd(h)
    <2>1. PICK s \in Sessions : s = task[h].ses /\ status[s] # "unused" /\ At(h, "commit", "commitAdd")
      BY <1>6, Handling DEF CommitAdd, At
    <2>2. /\ UNCHANGED <<outcome, queues>>
          /\ \/ /\ objects' = objects \cup {txn[s].ver} /\ UNCHANGED status
                /\ txn' = [txn EXCEPT ![s].mu = h] /\ GotoWith(h, "commitStore", txn[s].ver)
             \/ /\ status' = [status EXCEPT ![s] = "failed"] /\ Return(h, "error")
                /\ UNCHANGED <<objects, txn>>
      BY <1>6, <2>1 DEF CommitAdd, AddObject
    <2>3. Applied(txn[s].ver) \cap Fresh = {}
      BY <2>1 DEF Traceless, TraceTxns
    <2>4. Moves(h) /\ \/ task'[h].pc = "reply"
                      \/ task'[h].pc = "commitStore" /\ task'[h].ver = txn[s].ver
      BY <1>1, <2>2, GotoWithMoves, GotoWithEffect, ReturnMoves
    <2>5. ~HoldsFresh(h)'
      BY <2>1, <2>4 DEF HoldsFresh, Moves, At
    <2>6. \A r \in Sessions : /\ status'[r] # "unused" => status[r] # "unused"
                              /\ txn'[r].ver = txn[r].ver
      BY <1>1, <2>1, <2>2 DEF Txns
    <2>7. \A v \in objects' : v \in objects \/ Applied(v) \cap Fresh = {}
      BY <2>2, <2>3
    <2> QED
      BY <1>2, <2>2, <2>3, <2>4, <2>5, <2>6, <2>7 DEF Carrying
  <1>7. CASE CommitStore(h)
    <2>1. PICK s \in Sessions : s = task[h].ses /\ status[s] # "unused" /\ At(h, "commit", "commitStore")
      BY <1>7, Handling DEF CommitStore, At
    <2>2. /\ UNCHANGED <<outcome, queues, objects>> /\ Return(h, "ok")
          /\ txn' = [txn EXCEPT ![s].mu = None]
          /\ status' = [status EXCEPT ![s] = "committed"]
      BY <1>7, <2>1 DEF CommitStore, Unlock
    <2>3. Moves(h) /\ task'[h].pc = "reply"
      BY <1>1, <2>2, ReturnMoves
    <2>4. ~HoldsFresh(h)'
      BY <2>1, <2>3 DEF HoldsFresh, Moves, At
    <2>5. \A r \in Sessions : /\ status'[r] # "unused" => status[r] # "unused"
                              /\ txn'[r].ver = txn[r].ver
      BY <1>1, <2>1, <2>2 DEF Txns
    <2> QED
      BY <1>2, <2>2, <2>3, <2>4, <2>5 DEF Carrying
  <1>8. CASE GenerateKey(h)
    <2>1. /\ UNCHANGED <<outcome, queues, status, txn>> /\ At(h, "create", "keygen")
          /\ objects' = objects \cup {task[h].ver}
          /\ Return(h, "error") \/ Goto(h, "register")
      BY <1>8 DEF GenerateKey, AddObject
    <2>2. Applied(task[h].ver) \cap Fresh = {}
      BY <1>1, <2>1 DEF At, Traceless, TraceTasks, Carrying
    <2>3. Moves(h) /\ \/ task'[h].pc = "reply"
                      \/ task'[h].pc = "register" /\ task'[h].ver = task[h].ver
      BY <1>1, <2>1, GotoMoves, GotoEffect, ReturnMoves
    <2>4. ~HoldsFresh(h)'
      BY <2>1, <2>3 DEF HoldsFresh, Moves, At
    <2> QED
      BY <1>2, <2>1, <2>2, <2>3, <2>4 DEF Carrying
  <1>9. CASE Enqueue(h)
    <2>1. /\ At(h, "write", "enqueue") /\ UNCHANGED <<outcome, objects, status, txn>>
          /\ queues' = [queues EXCEPT ![task[h].db] = Append(@, h)] /\ Goto(h, "wait")
      BY <1>9 DEF Enqueue
    <2>2. PICK d \in DBs : d = task[h].db /\ queues \in [DBs -> Seq(Handlers)]
      BY <1>1, <2>1 DEF At, Inv, TypeOK, ControlOK, HasArguments
    <2>3. Moves(h) /\ task'[h].pc = "wait" /\ \A u \in Goroutines : u # h => task'[u] = task[u]
      BY <1>1, <2>1, GotoMoves, GotoEffect
    <2>4. HoldsFresh(h)
      BY <2>1 DEF HoldsFresh, At
    <2>5. queues'[d] = Append(queues[d], h) /\ \A e \in DBs : e # d => queues'[e] = queues[e]
      BY <2>1, <2>2
    <2>6. ASSUME NEW u \in Goroutines, u # h, HoldsFresh(u)' PROVE HoldsFresh(u)
      <3>1. task'[u] = task[u]
        BY <2>3, <2>6
      <3>2. ASSUME task[u].op = "write",
                   NEW i \in 1..Len(queues'[task[u].db]), queues'[task[u].db][i] = u
            PROVE  \E j \in 1..Len(queues[task[u].db]) : queues[task[u].db][j] = u
        <4>1. task[u].db \in DBs
          BY <3>2 DEF Inv, ControlOK, HasArguments
        <4>2. CASE task[u].db = d
          <5>1. i # Len(queues[d]) + 1
            BY <2>2, <2>5, <2>6, <3>2, <4>2
          <5> QED
            BY <2>2, <2>5, <3>2, <4>2, <5>1
        <4>3. CASE task[u].db # d
          BY <2>5, <3>2, <4>1, <4>3
        <4> QED
          BY <4>2, <4>3
      <3> QED
        BY <2>6, <3>1, <3>2 DEF HoldsFresh
    <2>7. Fresh' \subseteq Fresh
      <3>1. ASSUME NEW u \in Goroutines, HoldsFresh(u)'
            PROVE  HoldsFresh(u) /\ task'[u].stmt = task[u].stmt
        BY <2>3, <2>4, <2>6, <3>1 DEF Moves
      <3> QED
        BY <2>1, <3>1 DEF Fresh
    <2>8. Traceless'
      BY <1>1, <2>1, <2>3, <2>7, TraceKept DEF Carrying
    <2> QED
      BY <1>1, <2>1, <2>3, <2>8, MoveHeld
  <1>10. CASE RunInTransaction(h)
    <2>1. PICK s \in Sessions : s = task[h].ses /\ At(h, "exec", "run") /\ txn[s].ver \in Versions
      BY <1>10, Handling DEF RunInTransaction, At
    <2>2. PICK w \in Writes : w = task[h].stmt
      BY <1>1, <2>1 DEF At, Inv, ControlOK, HasArguments
    <2>3. PICK v : v = Execute(txn[s].ver, w)
      OBVIOUS
    <2>4. /\ UNCHANGED <<outcome, queues, objects, status>>
          /\ \/ txn' = [txn EXCEPT ![s].ver = v] /\ Return(h, "ok")
             \/ UNCHANGED txn /\ Return(h, "error")
      BY <1>10, <2>1, <2>2, <2>3 DEF RunInTransaction, SetState
    <2>5. CASE UNCHANGED txn /\ Return(h, "error")
      <3>1. Moves(h) /\ task'[h].pc = "reply" /\ HoldsFresh(h)
        BY <1>1, <2>1, <2>5, ReturnMoves DEF HoldsFresh, At
      <3> QED
        BY <1>2, <2>4, <2>5, <3>1 DEF Carrying
    <2>6. CASE txn' = [txn EXCEPT ![s].ver = v] /\ Return(h, "ok")
      <3>1. /\ Moves(h) /\ task'[h].pc = "reply" /\ task'[h].res = "ok"
            /\ \A u \in Goroutines : u # h => task'[u] = task[u]
        BY <1>1, <2>6, ReturnMoves DEF Moves
      <3>2. ~HoldsFresh(h)'
        BY <2>1, <3>1 DEF HoldsFresh, Moves, At
      <3>3. Fresh' \subseteq Fresh
        BY <1>1, <2>4, <3>1, <3>2, MoveFresh
      <3>4. w \notin Fresh'
        <4>1. outcome[w] = "pending"
          BY <2>1, <2>2 DEF HeldOnce, Sending, At
        <4>2. ASSUME NEW u \in Goroutines, HoldsFresh(u)', task'[u].stmt = w PROVE FALSE
          <5>1. u # h /\ task'[u] = task[u]
            BY <3>1, <3>2, <4>2
          <5>2. CASE u \in Handlers
            <6>1. task[u].op \in Sending
              BY <4>2, <5>1, <5>2, ConstantsAssumption DEF HoldsFresh, Sending, Inv, ControlOK
            <6> QED
              BY <2>1, <2>2, <4>2, <5>1, <5>2, <6>1 DEF HeldOnce, At, Sending
          <5>3. CASE u \in DBs
            <6>1. task[u].op = "job"
              BY <4>2, <5>1, <5>3 DEF HoldsFresh, Inv, ControlOK
            <6>2. /\ task[u].from \in Handlers /\ task[task[u].from].stmt = w
                  /\ task[task[u].from].op = "write"
              BY <4>2, <5>1, <5>3, <6>1
              DEF HeldOnce, Inv, OneJobPerWaiter, ControlOK, HasArguments, At
            <6> QED
              BY <2>1, <2>2, <6>2 DEF HeldOnce, At, Sending
          <5> QED
            BY <5>2, <5>3 DEF Goroutines
        <4> QED
          BY <2>4, <4>1, <4>2 DEF Fresh
      <3>5. Applied(v) \cap Fresh' = {}
        <4>1. Applied(v) \subseteq Applied(txn[s].ver) \cup {w}
          BY <2>1, <2>3, ExecuteApplied
        <4>2. Applied(txn[s].ver) \cap Fresh = {}
          BY <2>1, Handling DEF At, Traceless, TraceTxns
        <4> QED
          BY <3>3, <3>4, <4>1, <4>2
      <3>6. \A r \in Sessions : txn'[r].ver = txn[r].ver \/ txn'[r].ver = v
        BY <1>1, <2>6 DEF Txns
      <3>7. Traceless'
        BY <1>1, <2>4, <3>1, <3>3, <3>5, <3>6, TraceKept DEF Carrying
      <3> QED
        BY <1>1, <2>4, <3>1, <3>7, MoveHeld
    <2> QED
      BY <2>4, <2>5, <2>6
  <1>11. CASE Reply(h)
    BY <1>11, ArrivalTrace
  <1> QED
    BY <1>3, <1>4, <1>5, <1>6, <1>7, <1>8, <1>9, <1>10, <1>11 DEF HandlerStep

\* Cleanup and publication execute nothing; after a crash nobody learns any
\* more what became of a statement that was running.
LEMMA BackgroundTrace ==
    ASSUME Inv, HeldOnce, Traceless,
           \/ \E s \in Sessions : CleanupStale(s)
           \/ \E p \in publishes : FindEntry(p) \/ Publish(p) \/ PublishFails(p)
           \/ Crash
           \/ UNCHANGED vars
    PROVE  HeldOnce' /\ Traceless'
  <1> USE DEF leveldbVars, ipfsVars, txnVars, clientVars, vars
  <1>1. CASE ~Crash
    <2>1. UNCHANGED <<outcome, queues, objects, txn, task>>
      BY <1>1 DEF CleanupStale, FindEntry, Publish, PublishFails
    <2>2. \A s \in Sessions : status'[s] # "unused" => status[s] # "unused"
      BY <1>1 DEF CleanupStale, RemoveFromMap, FindEntry, Publish, PublishFails, Inv, TypeOK
    <2>3. Fresh' = Fresh
      BY <2>1 DEF Fresh, HoldsFresh
    <2>4. HeldOnce'
      BY <2>1 DEF HeldOnce
    <2>5. Traceless'
      BY <2>1, <2>2, <2>3 DEF Traceless, TraceObjects, TraceTxns, TraceTasks
    <2> QED
      BY <2>4, <2>5
  <1>2. CASE Crash
    <2>1. /\ \A t \in Goroutines : task'[t] = NoTask
          /\ UNCHANGED objects
          /\ outcome' = [w \in Statements |->
                            IF outcome[w] = "pending" THEN "unknown" ELSE outcome[w]]
      BY <1>2 DEF Crash
    <2>2. /\ NoTask.op = "none" /\ NoTask.pc = "idle" /\ NoTask.stmt = None
          /\ NoTask.op \notin Sending /\ NoTask.pc \notin Carrying \cup {"commitStore"}
      BY DEF NoTask, Sending, Carrying
    <2>3. \A t \in Goroutines : ~HoldsFresh(t)'
      BY <2>1, <2>2 DEF HoldsFresh
    <2>4. Fresh' \subseteq Fresh
      BY <2>1, <2>3 DEF Fresh, Statements
    <2>5. \A s \in Sessions : /\ status'[s] # "unused" => status[s] # "unused"
                              /\ txn'[s].ver = txn[s].ver
      BY <1>2 DEF Crash, Inv, TypeOK, Txns
    <2>6. HeldOnce'
      BY <2>1, <2>2 DEF HeldOnce, Goroutines
    <2>7. Traceless'
      BY <2>1, <2>2, <2>4, <2>5 DEF Traceless, TraceObjects, TraceTxns, TraceTasks
    <2> QED
      BY <2>6, <2>7
  <1> QED
    BY <1>1, <1>2

\* A statement not yet executed, or refused, is in no version, throughout.
LEMMA TraceInvariance == Spec => [](Stored /\ HeldOnce /\ Traceless)
  <1>1. Inv /\ Stored /\ [Next]_vars => Stored'
    BY ArrivalStored, HandlerStored, WorkerStored, LoadStored, BackgroundStored DEF Next
  <1>2. Inv /\ Stored /\ HeldOnce /\ Traceless /\ [Next]_vars => HeldOnce' /\ Traceless'
    BY ArrivalTrace, HandlerTrace, WorkerTrace, LoadTrace, BackgroundTrace DEF Next
  <1> QED
    BY <1>1, <1>2, InitStored, InitTrace, Invariance, PTL DEF Spec

\* A client that is told its statement failed can send it again: whatever ran
\* at the same time, and at whichever step the error arose, the statement is in
\* no version that was ever added to IPFS.
THEOREM ErrorsLeaveNoTrace == Spec => []ErrorLeavesNoTrace
  BY TraceInvariance, TraceParts, Invariance, PTL

-----------------------------------------------------------------------------
(* Acknowledged statements and the serial database *)

\* No COMMIT stores its copy, no LevelDB write fails, and every database is
\* cached, so that none is created and no reader fills the cache.
OneWriter == "commit" \notin Calls /\ MaxCacheFaults = 0 /\ Existing = DBs

\* The program counters of a call that creates a name or misses the cache.
Cold == {"entry", "resolve", "fill", "register", "cacheNew"}

NoColdStart ==
    /\ keys = DBs
    /\ \A d \in DBs : cache[d] # None
    /\ \A t \in Goroutines : task[t].pc \notin Cold

\* What the worker of d has read is still the current version.
WorkerSerial(d) == task[d].op = "job" =>
    /\ task[d].pc = "loaded" => task[d].ver = cache[d]
    /\ task[d].pc = "store" =>
          /\ task[d].ver = Execute(cache[d], task[d].stmt)
          /\ \A e \in DBs : task[d].stmt \notin Applied(cache[e])
    /\ task[d].pc = "answer" /\ task[d].res = "ok" /\ task[d].stmt \in Writes =>
          task[d].stmt \in Applied(cache[d])

\* A statement that is answered with success on the way to its client is in.
HandlerSerial(h) ==
    /\ task[h].op # "commit"
    /\ task[h].op = "write" => target[task[h].stmt] = task[h].db
    /\ At(h, "write", "reply") /\ task[h].res = "ok" /\ task[h].stmt \in Writes =>
          task[h].stmt \in Applied(cache[task[h].db])

WorkersSerial  == \A d \in DBs : WorkerSerial(d)
HandlersSerial == \A h \in Handlers : HandlerSerial(h)

SerialInv == NoColdStart /\ WorkersSerial /\ HandlersSerial /\ AckedWritesDurable

\* What is known of the server before this module.
KnownInv == Inv /\ Stored /\ HeldOnce /\ Traceless /\ Clean

\* Nothing runs and nothing is acknowledged when the server starts.
LEMMA InitSerial == OneWriter /\ Init => SerialInv
  <1> SUFFICES ASSUME OneWriter, Init PROVE SerialInv
    OBVIOUS
  <1>1. \A t \in Goroutines : task[t] = NoTask
    BY DEF Init
  <1>2. \A d \in DBs : cache[d] = EmptyVersion(d) /\ EmptyVersion(d) # None
    BY ConstantsAssumption, EmptyVersionType DEF Init, OneWriter
  <1>3. NoColdStart
    BY <1>1, <1>2 DEF Init, OneWriter, NoColdStart, NoTask, Cold
  <1>4. WorkersSerial
    BY <1>1 DEF WorkersSerial, WorkerSerial, NoTask, Goroutines
  <1>5. HandlersSerial
    BY <1>1 DEF HandlersSerial, HandlerSerial, At, NoTask, Goroutines
  <1>6. AckedWritesDurable
    BY DEF Init, AckedWritesDurable, Statements
  <1> QED
    BY <1>3, <1>4, <1>5, <1>6 DEF SerialInv

-----------------------------------------------------------------------------

\* A statement adds itself, and nothing else, at the end of the log.
LEMMA ExecuteAdds ==
    ASSUME NEW v \in Versions, NEW w \in Writes
    PROVE  /\ Applied(Execute(v, w)) = Applied(v) \cup {w}
           /\ Execute(v, w).log = Append(v.log, w)
  <1>1. v.log \in Seq(Writes) /\ Execute(v, w).log = Append(v.log, w)
    BY DEF Execute, Versions
  <1>2. /\ Len(Append(v.log, w)) = Len(v.log) + 1
        /\ \A i \in 1..Len(v.log) : Append(v.log, w)[i] = v.log[i]
        /\ Append(v.log, w)[Len(v.log) + 1] = w
    BY <1>1
  <1>3. Applied(v) \cup {w} \subseteq Applied(Execute(v, w))
    BY <1>1, <1>2 DEF Applied
  <1>4. Applied(Execute(v, w)) \subseteq Applied(v) \cup {w}
    BY ExecuteApplied
  <1> QED
    BY <1>1, <1>3, <1>4

\* A job belongs to a write that waits for it, sent to the same database, whose
\* client has no answer yet; no other worker has that statement.
LEMMA JobOf ==
    ASSUME Inv, HeldOnce, HandlersSerial, NEW d \in DBs, task[d].op = "job"
    PROVE  /\ task[d].from \in Handlers
           /\ At(task[d].from, "write", "wait") /\ task[task[d].from].db = d
           /\ task[task[d].from].stmt = task[d].stmt
           /\ outcome[task[d].stmt] = "pending" /\ target[task[d].stmt] = d
           /\ \A e \in DBs : e # d /\ task[e].op = "job" => task[e].stmt # task[d].stmt
  <1>1. \A e \in DBs : task[e].op = "job" =>
           /\ task[e].from \in Handlers
           /\ At(task[e].from, "write", "wait") /\ task[task[e].from].db = e
           /\ task[task[e].from].stmt = task[e].stmt
    BY DEF Inv, ControlOK, OneJobPerWaiter, HasArguments, Goroutines, HeldOnce
  <1>2. outcome[task[d].stmt] = "pending" /\ target[task[d].stmt] = d
    BY <1>1 DEF HeldOnce, Sending, At, HandlersSerial, HandlerSerial
  <1>3. ASSUME NEW e \in DBs, e # d, task[e].op = "job", task[e].stmt = task[d].stmt
        PROVE  FALSE
    <2>1. task[e].from = task[d].from
      BY <1>1, <1>3 DEF HeldOnce, Sending, At
    <2> QED
      BY <1>1, <1>3, <2>1
  <1> QED
    BY <1>1, <1>2, <1>3

\* One goroutine moves, and no entry, key or answer changes.
LEMMA OneMoves ==
    ASSUME Inv, SerialInv, UNCHANGED <<cache, keys, outcome, target>>, NEW t \in Goroutines,
           \A u \in Goroutines : u # t => task'[u] = task[u],
           task'[t].pc \notin Cold,
           t \in DBs => WorkerSerial(t)', t \in Handlers => HandlerSerial(t)'
    PROVE  SerialInv'
  <1>1. NoColdStart'
    BY DEF SerialInv, NoColdStart
  <1>2. WorkersSerial'
    <2> SUFFICES ASSUME NEW d \in DBs, d # t PROVE WorkerSerial(d)'
      BY DEF WorkersSerial
    <2> QED
      BY DEF SerialInv, WorkersSerial, WorkerSerial, Goroutines
  <1>3. HandlersSerial'
    <2> SUFFICES ASSUME NEW h \in Handlers, h # t PROVE HandlerSerial(h)'
      BY DEF HandlersSerial
    <2> QED
      BY DEF SerialInv, HandlersSerial, HandlerSerial, At, Goroutines
  <1>4. AckedWritesDurable'
    BY DEF SerialInv, AckedWritesDurable
  <1> QED
    BY <1>1, <1>2, <1>3, <1>4 DEF SerialInv

\* A handler that goes on and is no write that is answered.
LEMMA HandlerMoves ==
    ASSUME Inv, SerialInv, UNCHANGED <<cache, keys, outcome, target>>, NEW h \in Handlers,
           Moves(h), task'[h].pc \notin Cold, ~(task[h].op = "write" /\ task'[h].pc = "reply")
    PROVE  SerialInv'
  <1>1. h \in Goroutines /\ h \notin DBs
    BY ConstantsAssumption DEF Goroutines
  <1>2. HandlerSerial(h)'
    BY DEF SerialInv, HandlersSerial, HandlerSerial, At, Moves
  <1> QED
    BY <1>1, <1>2, OneMoves DEF Moves

-----------------------------------------------------------------------------
(* One lemma for each group of actions *)

\* A load finds its version in the cache; a worker loads what is current.
LEMMA LoadSerial ==
    ASSUME OneWriter, KnownInv, SerialInv, NEW t \in Goroutines, Load(t)
    PROVE  SerialInv'
  <1> USE DEF KnownInv, leveldbVars, ipfsVars, txnVars, clientVars
  <1>1. task[t].pc \notin Cold
    BY DEF SerialInv, NoColdStart
  <1>2. UNCHANGED <<cache, keys, outcome, target>>
    BY <1>1 DEF Load, ReadCache, ReadEntry, Resolve, FillCache, AnswerRead, ReturnError, Cold
  <1>3. CASE ReadCache(t)
    <2>1. task[t].pc = "load" /\ task[t].db \in DBs
      BY <1>3 DEF ReadCache, Inv, ControlOK, Steps, HasArguments
    <2>2. GotoWith(t, "loaded", cache[task[t].db])
      BY <1>3, <2>1 DEF ReadCache, SerialInv, NoColdStart
    <2>3. Moves(t) /\ task'[t].pc = "loaded" /\ task'[t].ver = cache[task[t].db]
      BY <2>2, GotoWithMoves, GotoWithEffect
    <2>4. t \in DBs => WorkerSerial(t)'
      BY <1>2, <2>3 DEF WorkerSerial, Inv, ControlOK, Moves
    <2>5. t \in Handlers => HandlerSerial(t)'
      BY <1>2, <2>3 DEF HandlerSerial, SerialInv, HandlersSerial, Moves, At
    <2> QED
      BY <1>2, <2>3, <2>4, <2>5, OneMoves DEF Moves, Cold
  <1>4. CASE AnswerRead(t) \/ ReturnError(t)
    <2>1. PICK r : Return(t, r) /\ (r = "error" \/ task[t].op = "select" \/ task[t].stmt \in Unions)
      BY <1>4 DEF AnswerRead, ReturnError
    <2>2. /\ Moves(t) /\ task'[t].pc = (IF t \in Handlers THEN "reply" ELSE "answer")
          /\ task'[t].res = r
      BY <2>1, ReturnMoves
    <2>3. task[t].op # "write"
      BY <1>4 DEF AnswerRead, ReturnError, FailurePoints, Inv, ControlOK, Steps
    <2>4. t \in DBs => WorkerSerial(t)'
      <3> SUFFICES ASSUME t \in DBs PROVE WorkerSerial(t)'
        OBVIOUS
      <3>1. t \notin Handlers /\ (r = "error" \/ task[t].op # "job" \/ task[t].stmt \notin Writes)
        BY <2>1, ConstantsAssumption
      <3> QED
        BY <2>2, <3>1 DEF WorkerSerial, Moves
    <2>5. t \in Handlers => HandlerSerial(t)'
      BY <1>2, <2>2, <2>3 DEF HandlerSerial, SerialInv, HandlersSerial, Moves, At
    <2> QED
      BY <1>2, <2>2, <2>4, <2>5, OneMoves DEF Moves, Cold
  <1> QED
    BY <1>1, <1>3, <1>4 DEF Load, ReadEntry, Resolve, FillCache, Cold

\* A worker takes a job, runs it on what it loaded, and is the one that stores
\* and answers it.
LEMMA WorkerSerialStep ==
    ASSUME OneWriter, KnownInv, SerialInv, NEW d \in DBs, WorkerStep(d)
    PROVE  SerialInv'
  <1> USE DEF KnownInv, leveldbVars, ipfsVars, txnVars, clientVars
  <1>1. /\ d \in Goroutines /\ d \notin Handlers
        /\ task \in [Goroutines -> Tasks] /\ cache \in [DBs -> CIDs]
    BY ConstantsAssumption DEF Goroutines, Inv, TypeOK
  <1>2. /\ \A e \in DBs : cache[e] \in Versions /\ cache[e] \in objects
        /\ \A e \in DBs : Applied(cache[e]) \cap Fresh = {}
    BY DEF SerialInv, NoColdStart, Inv, TypeOK, CIDs, Stored, PointersStored, Traceless, TraceObjects
  <1>3. CASE TakeJob(d)
    <2> DEFINE k == [NoTask EXCEPT !.op = "job", !.pc = "load", !.db = d,
                        !.stmt = task[Head(queues[d])].stmt, !.from = Head(queues[d])]
    <2>1. task' = [task EXCEPT ![d] = k] /\ UNCHANGED <<cache, keys, outcome, target>>
      BY <1>3 DEF TakeJob
    <2>2. k.pc = "load"
      BY DEF NoTask
    <2> HIDE DEF k
    <2>3. task'[d] = k /\ \A u \in Goroutines : u # d => task'[u] = task[u]
      BY <1>1, <2>1
    <2>4. WorkerSerial(d)'
      BY <2>2, <2>3 DEF WorkerSerial
    <2> QED
      BY <1>1, <2>1, <2>2, <2>3, <2>4, OneMoves DEF Cold
  <1>4. CASE ExecuteJob(d)
    <2>1. /\ At(d, "job", "loaded") /\ task[d].stmt \in Writes
          /\ GotoWith(d, "store", Execute(task[d].ver, task[d].stmt))
          /\ UNCHANGED <<cache, keys, outcome, target>>
      BY <1>4 DEF ExecuteJob
    <2>2. task[d].ver = cache[d]
      BY <2>1 DEF At, SerialInv, WorkersSerial, WorkerSerial
    <2>3. /\ Moves(d) /\ task'[d].pc = "store"
          /\ task'[d].ver = Execute(cache[d], task[d].stmt)
      BY <1>1, <2>1, <2>2, GotoWithMoves, GotoWithEffect
    <2>4. task[d].stmt \in Fresh
      BY <1>1, <2>1 DEF At, Fresh, HoldsFresh
    <2>5. WorkerSerial(d)'
      BY <1>2, <2>1, <2>3, <2>4 DEF WorkerSerial, Moves
    <2> QED
      BY <1>1, <2>1, <2>3, <2>5, OneMoves DEF Moves, Cold
  <1>5. CASE StoreJob(d)
    <2> DEFINE w == task[d].stmt
    <2>1. /\ At(d, "job", "store") /\ UpdateCache(d, task[d].ver) /\ Return(d, "ok")
          /\ UNCHANGED <<keys, outcome, target>>
      BY <1>5 DEF StoreJob
    <2>2. w \in Writes /\ task[d].ver = Execute(cache[d], w)
      BY <1>1, <2>1 DEF At, Inv, ControlOK, HasArguments, SerialInv, WorkersSerial, WorkerSerial
    <2>3. cache' = [cache EXCEPT ![d] = task[d].ver]
      BY <2>1 DEF UpdateCache, OneWriter, Inv, TypeOK
    <2>4. /\ Applied(cache'[d]) = Applied(cache[d]) \cup {w} /\ cache'[d] # None
          /\ \A e \in DBs : e # d => cache'[e] = cache[e]
      BY <1>1, <1>2, <2>2, <2>3, ExecuteAdds, ExecuteType, ConstantsAssumption
    <2>5. /\ Moves(d) /\ task'[d].pc = "answer"
      BY <1>1, <2>1, ReturnMoves
    <2>6. \A e \in DBs : e # d /\ task[e].op = "job" => task[e].stmt # w
      BY <2>1, JobOf DEF At, SerialInv
    <2>7. NoColdStart'
      BY <2>1, <2>4, <2>5 DEF SerialInv, NoColdStart, Moves, Cold
    <2>8. WorkersSerial'
      <3> SUFFICES ASSUME NEW e \in DBs PROVE WorkerSerial(e)'
        BY DEF WorkersSerial
      <3>1. CASE e = d
        BY <2>4, <2>5, <3>1 DEF WorkerSerial, Moves
      <3>2. CASE e # d
        <4>1. task'[e] = task[e] /\ WorkerSerial(e) /\ cache'[e] = cache[e]
          BY <2>4, <2>5, <3>2 DEF Moves, SerialInv, WorkersSerial, Goroutines
        <4>2. \A f \in DBs : task[e].op = "job" /\ task[e].stmt \notin Applied(cache[f])
                                => task[e].stmt \notin Applied(cache'[f])
          BY <2>4, <2>6, <3>2
        <4> QED
          BY <4>1, <4>2 DEF WorkerSerial
      <3> QED
        BY <3>1, <3>2
    <2>9. \A e \in DBs : Applied(cache[e]) \subseteq Applied(cache'[e])
      BY <2>4
    <2>10. HandlersSerial'
      <3> SUFFICES ASSUME NEW h \in Handlers PROVE HandlerSerial(h)'
        BY DEF HandlersSerial
      <3>1. task'[h] = task[h] /\ HandlerSerial(h)
        BY <1>1, <2>5 DEF Moves, SerialInv, HandlersSerial, Goroutines
      <3>2. task[h].op = "write" => task[h].db \in DBs
        BY DEF Inv, ControlOK, HasArguments, Goroutines
      <3> QED
        BY <2>1, <2>9, <3>1, <3>2 DEF HandlerSerial, At
    <2>11. AckedWritesDurable'
      BY <2>1, <2>4, <2>7, <2>9 DEF SerialInv, AckedWritesDurable, NoColdStart
    <2> QED
      BY <2>7, <2>8, <2>10, <2>11 DEF SerialInv
  <1>6. CASE AnswerJob(d)
    <2>1. PICK f \in Handlers : /\ f = task[d].from /\ At(d, "job", "answer")
                                /\ At(f, "write", "wait") /\ task[f].db = d
                                /\ task[f].stmt = task[d].stmt /\ target[task[d].stmt] = d
      BY <1>6, JobOf DEF AnswerJob, At, SerialInv
    <2>2. /\ task' = [task EXCEPT ![f] = [@ EXCEPT !.pc = "reply", !.res = task[d].res],
                                  ![d] = NoTask]
          /\ UNCHANGED <<cache, keys, outcome, target>>
      BY <1>6, <2>1 DEF AnswerJob
    <2>3. f \in Goroutines /\ f # d /\ task[f] \in Tasks
      BY <1>1 DEF Goroutines
    <2>4. /\ task'[d] = NoTask
          /\ task'[f] = [task[f] EXCEPT !.pc = "reply", !.res = task[d].res]
          /\ \A u \in Goroutines : u # f /\ u # d => task'[u] = task[u]
      BY <1>1, <2>2, <2>3
    <2>5. /\ task'[f].pc = "reply" /\ task'[f].res = task[d].res
          /\ task'[f].op = "write" /\ task'[f].db = d /\ task'[f].stmt = task[d].stmt
      BY <2>1, <2>3, <2>4 DEF Tasks, At
    <2>6. NoColdStart'
      <3>1. task'[d].pc = "idle" /\ task'[f].pc = "reply"
        BY <2>4, <2>5 DEF NoTask
      <3>2. \A u \in Goroutines : task'[u].pc \notin Cold
        BY <2>4, <3>1 DEF SerialInv, NoColdStart, Cold
      <3> QED
        BY <2>2, <3>2 DEF SerialInv, NoColdStart
    <2>7. WorkersSerial'
      <3> SUFFICES ASSUME NEW e \in DBs PROVE WorkerSerial(e)'
        BY DEF WorkersSerial
      <3>1. CASE e = d
        BY <2>4, <3>1 DEF WorkerSerial, NoTask
      <3>2. CASE e # d
        <4>1. task'[e] = task[e]
          BY <1>1, <2>4, <3>2, ConstantsAssumption DEF Goroutines
        <4> QED
          BY <2>2, <4>1 DEF SerialInv, WorkersSerial, WorkerSerial
      <3> QED
        BY <3>1, <3>2
    <2>8. HandlersSerial'
      <3> SUFFICES ASSUME NEW h \in Handlers PROVE HandlerSerial(h)'
        BY DEF HandlersSerial
      <3>1. CASE h = f
        <4>1. task[d].res = "ok" /\ task[d].stmt \in Writes => task[d].stmt \in Applied(cache[d])
          BY <2>1 DEF At, SerialInv, WorkersSerial, WorkerSerial
        <4> QED
          BY <2>1, <2>2, <2>5, <3>1, <4>1 DEF HandlerSerial, At
      <3>2. CASE h # f
        <4>1. task'[h] = task[h]
          BY <1>1, <2>4, <3>2 DEF Goroutines
        <4> QED
          BY <2>2, <4>1 DEF SerialInv, HandlersSerial, HandlerSerial, At
      <3> QED
        BY <3>1, <3>2
    <2>9. AckedWritesDurable'
      BY <2>2 DEF SerialInv, AckedWritesDurable
    <2> QED
      BY <2>6, <2>7, <2>8, <2>9 DEF SerialInv
  <1> QED
    BY <1>3, <1>4, <1>5, <1>6 DEF WorkerStep

\* A call arrives. A write is sent to the database it names.
LEMMA ArrivalSerial ==
    ASSUME OneWriter, KnownInv, SerialInv, NEW h \in Handlers, Arrival(h)
    PROVE  SerialInv'
  <1> USE DEF KnownInv, leveldbVars, ipfsVars, txnVars, clientVars
  <1>1. /\ h \in Goroutines /\ h \notin DBs /\ task \in [Goroutines -> Tasks]
        /\ target \in [Statements -> DBs \cup Sessions \cup {None}]
        /\ outcome \in [Statements -> {"unsent", "pending", "ok", "error", "unknown"}]
    BY ConstantsAssumption DEF Goroutines, Inv, TypeOK
  <1>2. ASSUME NEW c, Arrive(h, c), NothingSent, c.op \notin {"write", "commit"}, c.pc \notin Cold
        PROVE  SerialInv'
    <2>1. /\ UNCHANGED <<cache, keys, outcome, target>> /\ task'[h] = c
          /\ \A u \in Goroutines : u # h => task'[u] = task[u]
      BY <1>1, <1>2 DEF Arrive, NothingSent
    <2>2. HandlerSerial(h)'
      BY <1>2, <2>1 DEF HandlerSerial, At
    <2> QED
      BY <1>1, <1>2, <2>1, <2>2, OneMoves
  <1>3. ASSUME NEW c, NEW w \in Statements, NEW to, Arrive(h, c), Send(w, to), c.pc \notin Cold \cup {"reply"},
               c.op = "exec" \/ (c.op = "write" /\ c.stmt = w /\ c.db = to)
        PROVE  SerialInv'
    <2>1. /\ UNCHANGED <<cache, keys>> /\ task'[h] = c
          /\ \A u \in Goroutines : u # h => task'[u] = task[u]
      BY <1>1, <1>3 DEF Arrive
    <2>2. /\ outcome[w] = "unsent" /\ outcome'[w] = "pending" /\ target'[w] = to
          /\ \A x \in Statements : x # w => outcome'[x] = outcome[x] /\ target'[x] = target[x]
      BY <1>1, <1>3 DEF Send
    <2>3. NoColdStart'
      BY <1>3, <2>1 DEF SerialInv, NoColdStart
    <2>4. WorkersSerial'
      <3> SUFFICES ASSUME NEW d \in DBs PROVE WorkerSerial(d)'
        BY DEF WorkersSerial
      <3>1. task'[d] = task[d]
        BY <1>1, <2>1 DEF Goroutines
      <3> QED
        BY <2>1, <3>1 DEF SerialInv, WorkersSerial, WorkerSerial
    <2>5. HandlersSerial'
      <3> SUFFICES ASSUME NEW g \in Handlers PROVE HandlerSerial(g)'
        BY DEF HandlersSerial
      <3>1. CASE g = h
        BY <1>3, <2>1, <2>2, <3>1 DEF HandlerSerial, At
      <3>2. CASE g # h
        <4>1. task'[g] = task[g] /\ HandlerSerial(g)
          BY <2>1, <3>2 DEF Goroutines, SerialInv, HandlersSerial
        <4>2. task[g].op = "write" => task[g].stmt \in Statements /\ outcome[task[g].stmt] = "pending"
          BY DEF HeldOnce, Sending, Inv, ControlOK, HasArguments, Goroutines
        <4>3. task[g].op = "write" => target'[task[g].stmt] = target[task[g].stmt]
          BY <2>2, <4>2
        <4> QED
          BY <2>1, <4>1, <4>3 DEF HandlerSerial, At
      <3> QED
        BY <3>1, <3>2
    <2>6. AckedWritesDurable'
      BY <2>1, <2>2 DEF SerialInv, AckedWritesDurable, Statements
    <2> QED
      BY <2>3, <2>4, <2>5, <2>6 DEF SerialInv
  <1>4. ASSUME NEW d \in DBs, NEW w \in Statements, CallWrite(h, d, w) PROVE SerialInv'
    <2> DEFINE c == [NoTask EXCEPT !.op = "write", !.pc = "dispatch", !.db = d, !.stmt = w]
    <2>1. c.op = "write" /\ c.pc = "dispatch" /\ c.db = d /\ c.stmt = w
      BY DEF NoTask
    <2>2. Arrive(h, c) /\ Send(w, d)
      BY <1>4 DEF CallWrite
    <2> HIDE DEF c
    <2> QED
      BY <1>3, <2>1, <2>2 DEF Cold
  <1>5. ASSUME NEW s \in Sessions, NEW w \in Writes, CallExec(h, s, w) PROVE SerialInv'
    <2> DEFINE c == [NoTask EXCEPT !.op = "exec", !.pc = "lookup", !.ses = s, !.stmt = w]
    <2>1. c.op = "exec" /\ c.pc = "lookup" /\ w \in Statements
      BY DEF NoTask, Statements
    <2>2. Arrive(h, c) /\ Send(w, s)
      BY <1>5 DEF CallExec
    <2> HIDE DEF c
    <2> QED
      BY <1>3, <2>1, <2>2 DEF Cold
  <1>6. ASSUME NEW d \in DBs, CallCreate(h, d) PROVE SerialInv'
    <2>1. PICK v : /\ Arrive(h, [NoTask EXCEPT !.op = "create", !.pc = "keygen", !.db = d,
                                               !.ver = ForkVersion(d, v)])
                   /\ NothingSent
      BY <1>6 DEF CallCreate
    <2> QED
      BY <1>2, <2>1 DEF NoTask, Cold
  <1>7. ASSUME NEW d \in DBs, CallSelect(h, d) \/ CallDelete(h, d) \/ \E s \in Sessions : CallBegin(h, d, s)
        PROVE  SerialInv'
    BY <1>2, <1>7 DEF CallSelect, CallDelete, CallBegin, NoTask, Cold
  <1>8. ASSUME NEW s \in Sessions, CallRollback(h, s) PROVE SerialInv'
    BY <1>2, <1>8 DEF CallRollback, NoTask, Cold
  <1>9. \A s \in Sessions : ~CallCommit(h, s)
    BY DEF CallCommit, Arrive, OneWriter, NoTask
  <1> QED
    BY <1>4, <1>5, <1>6, <1>7, <1>8, <1>9 DEF Arrival

\* A handler's other steps write no entry: a creation finds the name taken. A
\* reply tells the client what is so.
LEMMA HandlerSerialStep ==
    ASSUME OneWriter, KnownInv, SerialInv, NEW h \in Handlers, HandlerStep(h)
    PROVE  SerialInv'
  <1> USE DEF KnownInv, leveldbVars, ipfsVars, txnVars, clientVars
  <1>1. /\ h \in Goroutines /\ h \notin DBs /\ task \in [Goroutines -> Tasks]
        /\ outcome \in [Statements -> {"unsent", "pending", "ok", "error", "unknown"}]
        /\ task[h].op # "commit" /\ task[h].pc \notin Cold
    BY ConstantsAssumption
    DEF Goroutines, Inv, TypeOK, SerialInv, HandlersSerial, HandlerSerial, NoColdStart
  <1>2. ASSUME UNCHANGED <<cache, keys, outcome, target>>, task[h].op # "write",
               (\E pc : Goto(h, pc) /\ pc \notin Cold) \/ (\E r : Return(h, r))
        PROVE  SerialInv'
    <2>1. Moves(h) /\ task'[h].pc \notin Cold
      BY <1>1, <1>2, GotoMoves, ReturnMoves DEF Cold
    <2> QED
      BY <1>2, <2>1, HandlerMoves
  <1>3. CASE FindQueue(h) \/ Enqueue(h)
    <2>1. /\ UNCHANGED <<cache, keys, outcome, target>>
          /\ Goto(h, "enqueue") \/ Goto(h, "wait")
      BY <1>3 DEF FindQueue, Enqueue
    <2>2. Moves(h) /\ task'[h].pc \in {"enqueue", "wait"}
      BY <1>1, <2>1, GotoMoves
    <2> QED
      BY <2>1, <2>2, HandlerMoves DEF Cold
  <1>4. CASE LockForBegin(h) \/ LookUpTransaction(h)
    BY <1>2, <1>4 DEF LockForBegin, LookUpTransaction, At, Cold
  <1>5. CASE OpenTransaction(h) \/ RunInTransaction(h) \/ RollbackTransaction(h) \/ DeleteDatabase(h)
    BY <1>2, <1>5 DEF OpenTransaction, RunInTransaction, RollbackTransaction, DeleteDatabase,
                      SetState, At
  <1>6. CASE GenerateKey(h)
    <2>1. task[h].db \in keys /\ task[h].op = "create"
      BY <1>1, <1>6 DEF GenerateKey, At, Inv, ControlOK, HasArguments, SerialInv, NoColdStart
    <2>2. Return(h, "error") /\ UNCHANGED <<cache, keys, outcome, target>>
      BY <1>6, <2>1 DEF GenerateKey, NameTaken
    <2> QED
      BY <1>2, <2>1, <2>2
  <1>7. CASE Reply(h)
    <2>1. /\ task[h].pc = "reply" /\ task' = [task EXCEPT ![h] = NoTask]
          /\ UNCHANGED <<cache, keys, target>>
          /\ outcome' = IF task[h].stmt = None THEN outcome
                        ELSE [outcome EXCEPT ![task[h].stmt] = task[h].res]
      BY <1>7 DEF Reply
    <2>2. task'[h] = NoTask /\ \A u \in Goroutines : u # h => task'[u] = task[u]
      BY <1>1, <2>1
    <2>3. NoColdStart'
      BY <2>1, <2>2 DEF SerialInv, NoColdStart, NoTask, Cold
    <2>4. WorkersSerial'
      <3> SUFFICES ASSUME NEW d \in DBs PROVE WorkerSerial(d)'
        BY DEF WorkersSerial
      <3>1. task'[d] = task[d]
        BY <1>1, <2>2 DEF Goroutines
      <3> QED
        BY <2>1, <3>1 DEF SerialInv, WorkersSerial, WorkerSerial
    <2>5. HandlersSerial'
      <3> SUFFICES ASSUME NEW g \in Handlers PROVE HandlerSerial(g)'
        BY DEF HandlersSerial
      <3>1. CASE g = h
        BY <2>2, <3>1 DEF HandlerSerial, NoTask, At
      <3>2. CASE g # h
        BY <2>1, <2>2, <3>2 DEF Goroutines, SerialInv, HandlersSerial, HandlerSerial, At
      <3> QED
        BY <3>1, <3>2
    <2>6. AckedWritesDurable'
      <3> SUFFICES ASSUME NEW w \in Writes, outcome'[w] = "ok", target[w] \in DBs
                   PROVE  w \in Applied(cache[target[w]])
        BY <2>1, <2>3 DEF AckedWritesDurable, NoColdStart
      <3>1. CASE outcome[w] = "ok"
        BY <3>1 DEF SerialInv, AckedWritesDurable
      <3>2. CASE outcome[w] # "ok"
        <4>1. task[h].stmt = w /\ task[h].res = "ok"
          BY <1>1, <2>1, <3>2 DEF Statements
        <4>2. task[h].op = "write" \/ task[h].op = "exec"
          BY <1>1, <4>1, ConstantsAssumption DEF HeldOnce, Sending
        <4>3. CASE task[h].op = "write"
          BY <2>1, <4>1, <4>3 DEF SerialInv, HandlersSerial, HandlerSerial, At
        <4>4. CASE task[h].op = "exec"
          <5>1. w \in SentTo(task[h].ses) /\ task[h].ses \in Sessions
            BY <1>1, <4>1, <4>4
            DEF Clean, TasksClean, TaskClean, Inv, ControlOK, HasArguments
          <5> QED
            BY <5>1, ConstantsAssumption DEF SentTo
        <4> QED
          BY <4>2, <4>3, <4>4
      <3> QED
        BY <3>1, <3>2
    <2> QED
      BY <2>3, <2>4, <2>5, <2>6 DEF SerialInv
  <1>8. ~(TakeForCommit(h) \/ CommitAdd(h) \/ CommitStore(h) \/ Register(h) \/ CacheNew(h))
    BY <1>1 DEF TakeForCommit, CommitAdd, CommitStore, Register, CacheNew, At, Cold
  <1> QED
    BY <1>3, <1>4, <1>5, <1>6, <1>7, <1>8 DEF HandlerStep

\* Cleanup and publication touch no entry; a crash leaves them all, and every
\* client that waits without an answer.
LEMMA BackgroundSerial ==
    ASSUME OneWriter, KnownInv, SerialInv,
           \/ \E s \in Sessions : CleanupStale(s)
           \/ \E p \in publishes : FindEntry(p) \/ Publish(p) \/ PublishFails(p)
           \/ Crash
           \/ UNCHANGED vars
    PROVE  SerialInv'
  <1> USE DEF KnownInv, leveldbVars, ipfsVars, txnVars, clientVars
  <1>1. CASE \/ \E s \in Sessions : CleanupStale(s)
             \/ \E p \in publishes : FindEntry(p) \/ Publish(p) \/ PublishFails(p)
             \/ UNCHANGED vars
    <2>1. UNCHANGED <<cache, keys, outcome, target, task>>
      BY <1>1 DEF CleanupStale, FindEntry, Publish, PublishFails, vars
    <2> QED
      BY <2>1 DEF SerialInv, NoColdStart, WorkersSerial, WorkerSerial, HandlersSerial,
                  HandlerSerial, At, AckedWritesDurable
  <1>2. CASE Crash
    <2>1. /\ UNCHANGED <<cache, keys, target>> /\ \A t \in Goroutines : task'[t] = NoTask
          /\ \A w \in Statements : outcome'[w] = "ok" => outcome[w] = "ok"
      BY <1>2 DEF Crash
    <2>2. NoColdStart'
      BY <2>1 DEF SerialInv, NoColdStart, NoTask, Cold
    <2>3. WorkersSerial'
      BY <2>1 DEF WorkersSerial, WorkerSerial, NoTask, Goroutines
    <2>4. HandlersSerial'
      BY <2>1 DEF HandlersSerial, HandlerSerial, NoTask, At, Goroutines
    <2>5. AckedWritesDurable'
      BY <2>1 DEF SerialInv, AckedWritesDurable, Statements
    <2> QED
      BY <2>2, <2>3, <2>4, <2>5 DEF SerialInv
  <1> QED
    BY <1>1, <1>2

LEMMA NextSerial ==
    ASSUME OneWriter, KnownInv, SerialInv, [Next]_vars
    PROVE  SerialInv'
  BY LoadSerial, WorkerSerialStep, ArrivalSerial, HandlerSerialStep, BackgroundSerial DEF Next

\* What all earlier theorems know of the server holds with SerialInv.
LEMMA SerialInvariance ==
    ASSUME OneWriter
    PROVE  Spec => [](KnownInv /\ SerialInv)
  <1>1. Spec => []KnownInv
    BY Invariance, TraceInvariance, IsolationInvariance, PTL DEF KnownInv
  <1>2. Init => SerialInv
    BY InitSerial
  <1>3. KnownInv /\ SerialInv /\ [Next]_vars => SerialInv'
    BY NextSerial
  <1> QED
    BY <1>1, <1>2, <1>3, PTL DEF Spec

\* LevelDB's entry of a database has every statement its clients were told is
\* done, after any number of crashes, when no COMMIT and no failing write come
\* between: the worker is the only one to replace it, and replaces what it read.
THEOREM AcknowledgedWritesStay ==
    ASSUME OneWriter
    PROVE  Spec => []AckedWritesDurable
  <1>1. SerialInv => AckedWritesDurable
    BY DEF SerialInv
  <1> QED
    BY <1>1, SerialInvariance, PTL

-----------------------------------------------------------------------------
(* Refinement *)

\* A step of the server without sessions is a step of the serial database.
LEMMA StepRefines ==
    ASSUME OneWriter, Sessions = {}, KnownInv, SerialInv, SerialInv', [Next]_vars
    PROVE  [Serial!Next]_(Serial!svars)
  <1> USE DEF KnownInv, leveldbVars, ipfsVars, txnVars, clientVars
  <1>1. /\ task \in [Goroutines -> Tasks] /\ cache \in [DBs -> CIDs]
        /\ outcome \in [Statements -> {"unsent", "pending", "ok", "error", "unknown"}]
        /\ target \in [Statements -> DBs \cup Sessions \cup {None}]
        /\ Writes \subseteq Statements
        /\ \A d \in DBs : cache[d] \in Versions /\ cache[d] \in objects
        /\ \A t \in Goroutines : task[t].pc \notin Cold
    BY DEF Inv, TypeOK, Statements, SerialInv, NoColdStart, CIDs, Stored, PointersStored
  <1>2. \A w : Serial!InLog(w) <=> \E d \in DBs : w \in Applied(cache[d])
    BY DEF Serial!InLog, Applied
  <1>3. ASSUME UNCHANGED cache, \A w \in Writes : outcome'[w] = outcome[w] /\ target'[w] = target[w]
        PROVE  UNCHANGED Serial!svars
    BY <1>3 DEF Serial!svars
  <1>4. ASSUME NEW h \in Handlers, Arrival(h)
        PROVE  [Serial!Next]_(Serial!svars)
    <2>1. UNCHANGED cache
      BY <1>4 DEF Arrival, CallSelect, CallWrite, CallCreate, CallDelete, CallBegin, Arrive
    <2>2. CASE \E d \in DBs, w \in Writes : CallWrite(h, d, w)
      <3>1. PICK d \in DBs, w \in Writes : Send(w, d)
        BY <2>2 DEF CallWrite
      <3>2. Serial!Send(w)
        BY <1>1, <2>1, <3>1 DEF Send, Serial!Send
      <3> QED
        BY <3>2 DEF Serial!Next
    <2>3. CASE \E d \in DBs, u \in Unions : CallWrite(h, d, u)
      <3>1. PICK d \in DBs, u \in Unions : Send(u, d)
        BY <2>3 DEF CallWrite
      <3>2. \A w \in Writes : outcome'[w] = outcome[w] /\ target'[w] = target[w]
        BY <1>1, <3>1, ConstantsAssumption DEF Send
      <3> QED
        BY <1>3, <2>1, <3>2
    <2>4. CASE NothingSent
      BY <1>3, <2>1, <2>4 DEF NothingSent
    <2> QED
      BY <1>4, <2>2, <2>3, <2>4
      DEF Arrival, CallSelect, CallBegin, CallCreate, CallDelete, Statements
  <1>5. ASSUME NEW h \in Handlers, Reply(h)
        PROVE  [Serial!Next]_(Serial!svars)
    <2>1. /\ task[h].pc = "reply" /\ UNCHANGED <<cache, target>>
          /\ outcome' = IF task[h].stmt = None THEN outcome
                        ELSE [outcome EXCEPT ![task[h].stmt] = task[h].res]
      BY <1>5 DEF Reply
    <2>2. CASE task[h].stmt \notin Writes
      BY <1>1, <1>3, <2>1, <2>2
    <2>3. CASE task[h].stmt \in Writes
      <3> DEFINE w == task[h].stmt
      <3>1. h \in Goroutines /\ w # None /\ task[h].op \in {"write", "exec"}
        BY <2>3, ConstantsAssumption DEF HeldOnce, Sending, Goroutines
      <3>2. task[h].op = "write" /\ task[h].db \in DBs /\ task[h].res \in {"ok", "error"}
        BY <2>1, <3>1 DEF Inv, ControlOK, HasArguments
      <3>3. outcome[w] = "pending"
        BY <3>1 DEF HeldOnce, Sending
      <3>4. CASE task[h].res = "ok"
        <4>1. Serial!InLog(w)
          BY <1>2, <2>1, <2>3, <3>2, <3>4 DEF SerialInv, HandlersSerial, HandlerSerial, At
        <4> QED
          BY <1>1, <2>1, <2>3, <3>1, <3>3, <3>4, <4>1 DEF Serial!Next, Serial!Answer
      <3>5. CASE task[h].res = "error"
        <4>1. w \in Fresh
          BY <2>1, <2>3, <3>1, <3>2, <3>5 DEF Fresh, HoldsFresh
        <4>2. ~Serial!InLog(w)
          BY <1>1, <1>2, <4>1 DEF Traceless, TraceObjects
        <4> QED
          BY <1>1, <2>1, <2>3, <3>1, <3>3, <3>5, <4>2 DEF Serial!Next, Serial!Answer
      <3> QED
        BY <3>2, <3>4, <3>5
    <2> QED
      BY <2>2, <2>3
  <1>6. ASSUME NEW d \in DBs, StoreJob(d)
        PROVE  [Serial!Next]_(Serial!svars)
    <2>1. /\ At(d, "job", "store") /\ UpdateCache(d, task[d].ver) /\ UNCHANGED <<outcome, target>>
      BY <1>6 DEF StoreJob
    <2>2. PICK w \in Writes : /\ w = task[d].stmt /\ task[d].ver = Execute(cache[d], w)
                             /\ \A e \in DBs : w \notin Applied(cache[e])
      BY <2>1 DEF At, Inv, ControlOK, HasArguments, SerialInv, WorkersSerial, WorkerSerial, Goroutines
    <2>3. cache' = [cache EXCEPT ![d] = task[d].ver]
      BY <2>1 DEF UpdateCache, OneWriter, Inv, TypeOK
    <2>4. outcome[w] = "pending" /\ target[w] = d
      BY <2>1, <2>2, JobOf DEF At, SerialInv
    <2>5. /\ cache'[d].log = Append(cache[d].log, w)
          /\ \A e \in DBs : e # d => cache'[e].log = cache[e].log
      BY <1>1, <2>2, <2>3, ExecuteAdds
    <2>6. [e \in DBs |-> cache'[e].log]
            = [[e \in DBs |-> cache[e].log] EXCEPT ![d] = Append(@, w)]
      BY <2>5
    <2>7. ~Serial!InLog(w)
      BY <1>2, <2>2
    <2>8. Serial!TakeEffect(w)
      BY <2>1, <2>2, <2>4, <2>6, <2>7 DEF Serial!TakeEffect
    <2> QED
      BY <2>2, <2>8 DEF Serial!Next
  <1>7. CASE Crash
    <2>1. Serial!Disconnect
      BY <1>1, <1>7 DEF Crash, Serial!Disconnect
    <2> QED
      BY <2>1 DEF Serial!Next
  <1>8. ASSUME NEW t \in Goroutines, Load(t)
        PROVE  [Serial!Next]_(Serial!svars)
    BY <1>1, <1>3, <1>8 DEF Load, ReadCache, ReadEntry, Resolve, FillCache, AnswerRead, ReturnError, Cold
  <1>9. ASSUME NEW h \in Handlers, HandlerStep(h), ~Reply(h)
        PROVE  [Serial!Next]_(Serial!svars)
    <2>1. h \in Goroutines /\ task[h].op # "commit" /\ task[h].pc \notin Cold
      BY <1>1 DEF Goroutines, SerialInv, HandlersSerial, HandlerSerial
    <2>2. UNCHANGED <<cache, outcome, target>>
      BY <1>9, <2>1
      DEF HandlerStep, FindQueue, Enqueue, LockForBegin, OpenTransaction, LookUpTransaction,
          RunInTransaction, SetState, TakeForCommit, CommitAdd, CommitStore, RollbackTransaction,
          GenerateKey, Register, CacheNew, DeleteDatabase, At, Cold
    <2> QED
      BY <1>3, <2>2
  <1>10. ASSUME NEW d \in DBs, TakeJob(d) \/ ExecuteJob(d) \/ AnswerJob(d)
         PROVE  [Serial!Next]_(Serial!svars)
    BY <1>3, <1>10 DEF TakeJob, ExecuteJob, AnswerJob
  <1>11. CASE \/ \E p \in publishes : FindEntry(p) \/ Publish(p) \/ PublishFails(p)
              \/ UNCHANGED vars
    BY <1>3, <1>11 DEF FindEntry, Publish, PublishFails, vars
  <1> QED
    BY <1>4, <1>5, <1>6, <1>7, <1>8, <1>9, <1>10, <1>11 DEF Next, WorkerStep

\* Queues, workers, cache and crashes are, to clients that send single
\* statements, one database that executes them one at a time and keeps them.
THEOREM ServerIsSerial ==
    ASSUME OneWriter, Sessions = {}
    PROVE  Spec => ImplementsSerial
  <1>1. Init => Serial!Init
    BY DEF Init, Serial!Init, OneWriter, EmptyVersion, Statements
  <1>2. KnownInv /\ SerialInv /\ SerialInv' /\ [Next]_vars => [Serial!Next]_(Serial!svars)
    BY StepRefines
  <1> QED
    BY <1>1, <1>2, SerialInvariance, PTL DEF Spec, ImplementsSerial, Serial!Spec
====
