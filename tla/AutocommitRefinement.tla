------------------------ MODULE AutocommitRefinement ------------------------
(***************************************************************************)
(* As long as no session is opened, every database is cached, and no cache *)
(* write fails, the job queue, the worker and the LevelDB cache implement  *)
(* a serial database: the log of a name is that of the version its cache   *)
(* entry names, and a statement takes effect when the worker updates the   *)
(* entry (StoreJob).                                                       *)
(***************************************************************************)
EXTENDS WwfsServer

Serial == INSTANCE SerialDatabase WITH
    Names  <- DBs,
    log    <- [d \in DBs |-> cache[d].log],
    answer <- [w \in Writes |-> outcome[w]],
    sentTo <- [w \in Writes |-> target[w]]

\* Every behaviour of the server is, through this mapping, one of the serial
\* database: statements of several clients, workers, crashes between AddObject,
\* UpdateCache and the reply included.
ImplementsSerial == Serial!Spec
=============================================================================
