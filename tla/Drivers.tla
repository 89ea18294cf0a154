------------------------------ MODULE Drivers ------------------------------
(***************************************************************************)
(* Every executor of the driver packages, each on its own: the driver is   *)
(* chosen in the initial state, and its module says what it does.  All of  *)
(* them owe the runtime the same contract, Executor, and that they         *)
(* implement it is the theorem the runtime's poisoning rests on.           *)
(***************************************************************************)
EXTENDS DriverState

CONSTANTS MaxBufferedRows,  \* bound: rows of a buffer, or of a batch
          MaxBulk           \* bound: rows of a bulk

ASSUME BulkConstants == MaxBufferedRows \in Nat /\ MaxBulk \in Nat

TD == INSTANCE Tedious
OR == INSTANCE Oracledb
MY == INSTANCE Mysql2
MA == INSTANCE Mariadb
PG == INSTANCE Pg
RQ == INSTANCE Requests
SQ == INSTANCE Sqlite

Init ==
    \/ TD!Init \/ OR!Init \/ MY!Init \/ MA!Init \/ PG!Init
    \/ RQ!Init \/ SQ!Init

Next ==
    \/ TD!Next \/ OR!Next \/ MY!Next \/ MA!Next \/ PG!Next
    \/ RQ!Next \/ SQ!Next

Progress ==
    \/ TD!Progress \/ OR!Progress \/ MY!Progress \/ MA!Progress \/ PG!Progress
    \/ RQ!Progress \/ SQ!Progress

Spec == Init /\ [][Next]_vars

(* The library answers what it was sent, and the consumer takes the next    *)
(* row or leaves.  Nobody need ever abort.                                 *)
FairSpec == Spec /\ WF_vars(Progress)
-----------------------------------------------------------------------------
(* A reservation kept for ever is as good as destroyed.  The portals of a   *)
(* transaction end with it.                                                *)
Contract == INSTANCE Executor WITH
    call <- IF at = "idle" THEN settled ELSE "running",
    lent <- IF lease = "kept" THEN "discarded" ELSE lease,
    connection <- [wire EXCEPT !.tx = wire.tx # "none",
                               !.open = IF wire.tx = "none" THEN @ ELSE @ \ Portals]

(* A call that ends well, or with the error of its statement, leaves no     *)
(* request running, no statement, cursor or portal open, no connection cut  *)
(* and no transaction the runtime does not know of; a connection that goes  *)
(* back to its pool is as good as new.  Every driver keeps the contract     *)
(* whatever the order of answer, error, abort and the consumer's leaving.  *)
Implements == Contract!Spec

(* A stream hands its consumer the rows in order, none lost, none twice,    *)
(* across pauses, batches and buffers; and one that ends well without the   *)
(* consumer's leaving has handed over every row the library sent.          *)
StreamComplete ==
    /\ \A i \in DOMAIN consumer.took : consumer.took[i] = i
    /\ at = "idle" /\ settled = "ok" /\ library.op = "stream" /\ ~consumer.left =>
         Len(consumer.took) = library.sent

(* Between calls on a connection that is not poisoned, a transaction the    *)
(* runtime is in is still there: no call, failed or aborted, ended it       *)
(* behind the runtime's back, and what the executor itself remembers        *)
(* (transactionActive, the handle of libSQL) agrees.                       *)
TransactionHolds ==
    at = "idle" /\ ~Poisoned =>
        /\ intx => wire.tx # "none"
        /\ subject = "oracledb" => kept.active = intx
        /\ subject = "libsql" => kept.handle = intx

(* A COMMIT that is reported as done has committed: the transaction was     *)
(* there and was not one the database had already given up.                *)
CommitMeansCommitted ==
    [][at = "control" /\ job.op = "commit" /\ at' = "idle" /\ settled' = "ok" => wire.tx = "open"]_vars

(* The name of node-postgres' bulk statement (Pg).                         *)
NameMeansText == PG!NameMeansText

(* Every call ends: a paused request is resumed, a break or an end is       *)
(* awaited no longer than it takes, a cleanup is not waited for twice.  The *)
(* exception is tedious' cancel() throwing while the request is paused.    *)
Settles == at # "idle" ~> (at = "idle" \/ TD!Stalled)
=============================================================================
