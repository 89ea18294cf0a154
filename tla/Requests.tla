------------------------------ MODULE Requests ------------------------------
(***************************************************************************)
(* The executors without cancellation, which refuse an active signal:      *)
(* postgres.js, PGlite and Neon over HTTP (postgres/src), Bun.SQL          *)
(* (bun-sql/src/index.ts), libSQL and D1 (sqlite/src).  A call is one      *)
(* request after another; postgres.js also streams over a cursor.          *)
(*                                                                         *)
(* PGlite, Neon, libSQL and D1 have one client that the caller owns: there *)
(* is nothing to give back.                                                *)
(***************************************************************************)
EXTENDS DriverState

CONSTANTS MaxBufferedRows,  \* streamBatchSize
          MaxBulk           \* rows of a bulk

Kinds == {"postgres-js", "pglite", "neon-http", "bun-postgres", "bun-mysql", "libsql", "d1"}
Postgres == {"postgres-js", "pglite", "bun-postgres"}

(* stale: Bun keeps a failed prepared shape, and health.discard says so;    *)
(* handle: libSQL's transaction.                                           *)
Fresh == [stale |-> FALSE, discard |-> FALSE, handle |-> FALSE]

Closure(op, n) == [op |-> op, failed |-> FALSE, dirty |-> FALSE, rows |-> n, queue |-> <<>>, last |-> FALSE]

Send(kind, op, n, l) ==
    /\ Start(kind, l, Closure(op, n))
    /\ library' = Request(op, FALSE) /\ wire' = Busy
    /\ UNCHANGED <<kept, signal, intx, faults>>

(* A query is one request. *)
Query == \E kind \in Kinds : Send(kind, "query", 1, "requested")

(* bulk: one request per row, or one batch. *)
PostgresJsBulk == Send("postgres-js", "bulk", MaxBulk, "requested")
PgliteBulk == Send("pglite", "bulk", MaxBulk, "requested")
BunBulk == \E kind \in {"bun-postgres", "bun-mysql"} : Send(kind, "bulk", MaxBulk, "requested")
NeonBulk == Send("neon-http", "bulk", 1, "requested")
LibsqlBulk == Send("libsql", "bulk", 1, "requested")
D1Bulk == Send("d1", "bulk", 1, "requested")

(* Also a stream or a routine call where there is none. *)
Unsendable == \E kind \in Kinds : Unsent(kind)

(* executeNative: after a read-only rejection of MySQL the reservation is   *)
(* marked, and not given back.                                             *)
Health(rejected) == kept' = [kept EXCEPT !.stale = @ \/ rejected, !.discard = @ \/ rejected]

(* The database refuses the request; or answers, and the executor refuses   *)
(* the answer; or all is well.                                             *)
Answer ==
    /\ subject \in Kinds /\ at = "requested"
    /\ \E error, refused, rejected \in BOOLEAN :
         /\ refused => ~error
         /\ rejected => error /\ subject = "bun-mysql"
         /\ Spoiled => error
         /\ Counted((error /\ ~Spoiled) \/ refused)
         /\ Health(rejected)
         /\ LET j == [job EXCEPT !.failed = error \/ refused, !.rows = @ - 1]
                w == IF error /\ subject \in Postgres THEN Spoil(Free) ELSE Free IN
            IF j.failed \/ j.rows = 0 THEN Settle(Outcome(j)) /\ wire' = w
            ELSE Goto(at, j) /\ wire' = Busy
    /\ UNCHANGED <<library, consumer, owner>>
-----------------------------------------------------------------------------
(* The stream of postgres.js: batches of a cursor, which the library closes *)
(* when the loop is left.                                                  *)

Stream == Send("postgres-js", "stream", 1, "reading")

Hand(j) ==
    /\ Goto("yielded", [j EXCEPT !.queue = Tail(@)])
    /\ consumer' = [consumer EXCEPT !.took = Append(@, Head(j.queue))]

Read ==
    /\ subject = "postgres-js" /\ at = "reading" /\ ~Spoiled
    /\ \E n \in 0..MaxBufferedRows :
         /\ library.sent + n <= MaxRows
         /\ library' = [library EXCEPT !.sent = @ + n]
         /\ IF n = 0 THEN Settle("ok") /\ wire' = Close(Free, "cursor") /\ UNCHANGED consumer
            ELSE /\ Hand([job EXCEPT !.queue = [i \in 1..n |-> library.sent + i], !.last = n < MaxBufferedRows])
                 /\ wire' = Open(Free, "cursor")
    /\ UNCHANGED <<kept, faults, owner>>

ReadFailed ==
    /\ subject = "postgres-js" /\ at = "reading"
    /\ \E error \in BOOLEAN :
         /\ Spoiled => error
         /\ Counted(~Spoiled)
         /\ wire' = IF error THEN Spoil(Close(Free, "cursor")) ELSE Close(Free, "cursor")
    /\ Settle("failed")
    /\ UNCHANGED <<library, consumer, kept, owner>>

Continue ==
    /\ subject = "postgres-js" /\ at = "yielded"
    /\ IF job.queue # <<>> THEN Hand(job) /\ UNCHANGED wire
       ELSE IF job.last THEN Settle("ok") /\ wire' = Close(wire, "cursor") /\ UNCHANGED consumer
       ELSE Goto("reading", job) /\ wire' = Busy /\ UNCHANGED consumer
    /\ UNCHANGED <<library, kept, faults, owner>>

Leave ==
    /\ subject = "postgres-js" /\ at = "yielded"
    /\ Settle("ok") /\ wire' = Close(wire, "cursor")
    /\ consumer' = [consumer EXCEPT !.left = TRUE]
    /\ UNCHANGED <<library, kept, faults, owner>>
-----------------------------------------------------------------------------
(* Transactions.  Neon and D1 have none. *)

ControlSent == \E kind \in {"postgres-js", "pglite", "bun-postgres"} : Control(kind)

(* The COMMIT of a transaction that was spoiled is answered by ROLLBACK. *)
NotCommitted == job.op = "commit" /\ Spoiled

ControlAnswered == \E kind \in Postgres : Answered(kind, NotCommitted) /\ UNCHANGED kept

(* Bun for MySQL begins by one or two statements. *)
BunControl == Control("bun-mysql")

BunIsolation ==
    /\ ~intx
    /\ Start("bun-mysql", "setting", [op |-> "begin"])
    /\ wire' = Busy /\ library' = NoRequest
    /\ UNCHANGED <<kept, signal, intx, faults>>

BunIsolationSet ==
    /\ subject = "bun-mysql" /\ at = "setting"
    /\ \E error \in BOOLEAN :
         /\ Counted(error)
         /\ IF error THEN Settle("cleanup") /\ wire' = Free
            ELSE Goto("control", job) /\ wire' = Busy
    /\ UNCHANGED <<library, consumer, kept, owner>>

BunAnswered == Answered("bun-mysql", FALSE) /\ UNCHANGED kept

(* libSQL: every statement runs on the handle while there is one, which is  *)
(* dropped before it is ended, and then closed, whatever the answer.       *)
LibsqlControl == Control("libsql")

LibsqlAnswered ==
    /\ job.op \in {"begin", "savepoint", "rollbackTo"}
    /\ Answered("libsql", FALSE)
    /\ kept' = [kept EXCEPT !.handle = @ \/ settled' = "ok"]

LibsqlEnded ==
    /\ subject = "libsql" /\ at = "control" /\ job.op \in {"commit", "rollback"}
    /\ \E did, error \in BOOLEAN :
         /\ ~did => error
         /\ Counted(error)
         /\ Goto("closing", [Closure(job.op, 0) EXCEPT !.dirty = error])
         /\ wire' = IF did THEN [wire EXCEPT !.tx = "none"] ELSE wire
    /\ kept' = [kept EXCEPT !.handle = FALSE]
    /\ UNCHANGED <<library, consumer, owner>>

LibsqlClosed ==
    /\ subject = "libsql" /\ at = "closing"
    /\ \E error \in BOOLEAN :
         /\ Counted(error)
         /\ Settle(Outcome([job EXCEPT !.dirty = @ \/ error]))
         /\ intx' = (intx /\ (job.dirty \/ error))
         /\ wire' = IF error THEN Free ELSE [Free EXCEPT !.tx = "none"]
    /\ UNCHANGED <<subject, library, consumer, kept, lease, calls>>
-----------------------------------------------------------------------------
BunDiscards == Poisoned \/ kept.discard

(* close({timeout: 0}) or release(); one that fails is never tried again. *)
BunRelease ==
    /\ \E kind \in {"bun-postgres", "bun-mysql"} : Releasable(kind)
    /\ \E error \in BOOLEAN :
         /\ Counted(error)
         /\ lease' = IF error THEN "kept" ELSE IF BunDiscards THEN "discarded" ELSE "returned"
    /\ UNCHANGED <<Leased, wire>>

(* postgres.js has no way to destroy a connection: it is made as good as    *)
(* new by ROLLBACK and DISCARD ALL, or else kept for ever.                 *)
PostgresJsRelease ==
    /\ Releasable("postgres-js")
    /\ \E error \in BOOLEAN :
         /\ Counted(error) /\ (error => Poisoned)
         /\ lease' = IF error THEN "kept" ELSE "returned"
         /\ wire' = IF Poisoned /\ ~error THEN Connected ELSE wire
    /\ UNCHANGED Leased

Init == \E kind \in Kinds : InitDriver(kind, Fresh)

Progress ==
    \/ Answer \/ Read \/ ReadFailed \/ Continue \/ Leave
    \/ ControlAnswered \/ BunIsolationSet \/ BunAnswered
    \/ LibsqlAnswered \/ LibsqlEnded \/ LibsqlClosed

Next ==
    \/ Query \/ PostgresJsBulk \/ PgliteBulk \/ BunBulk \/ NeonBulk \/ LibsqlBulk \/ D1Bulk
    \/ Stream \/ Unsendable
    \/ ControlSent \/ BunControl \/ BunIsolation \/ LibsqlControl
    \/ BunRelease \/ PostgresJsRelease
    \/ Progress
=============================================================================
