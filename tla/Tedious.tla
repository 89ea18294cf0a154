------------------------------ MODULE Tedious ------------------------------
(***************************************************************************)
(* The SQL Server executor (mssql/src/tedious.ts): collect for query and   *)
(* call, streamRows, and the prepared loop of bulk, over one connection of *)
(* tedious.                                                                *)
(*                                                                         *)
(* The library calls back with the error of a request, if it has one, and  *)
(* then emits requestCompleted, in one turn; a paused request emits        *)
(* nothing; a request that was cancelled still completes.  The prepare of  *)
(* a statement ends in its callback or, if it was not cancelled, in an     *)
(* error event.                                                            *)
(***************************************************************************)
EXTENDS DriverState

CONSTANTS MaxBufferedRows, MaxBulk

Me == "tedious"

(* The closure of a call.  cancelled: request.cancel() was tried; dirty: it *)
(* threw, or a statement could not be unprepared; rows: left to execute.   *)
Closure(op) == [op |-> op, failed |-> FALSE, cancelled |-> FALSE, dirty |-> FALSE,
                done |-> FALSE, queue |-> <<>>, paused |-> FALSE, rows |-> MaxBulk]

Send(op, l) ==
    /\ Start(Me, l, Closure(op))
    /\ \E deaf \in BOOLEAN : library' = Request(op, deaf)
    /\ wire' = Busy
    /\ signal' \in {"none", "armed"}
    /\ UNCHANGED <<kept, intx, faults>>

Unsendable == Unsent(Me)
-----------------------------------------------------------------------------
(* collect: query and call. *)

Query == Send("query", "requested")

(* fail: the first error cancels, and only completion settles. *)
Failing(j) ==
    IF j.cancelled THEN [j EXCEPT !.failed = TRUE]
    ELSE [j EXCEPT !.failed = TRUE, !.cancelled = TRUE, !.dirty = library.deaf]

Asked == [library EXCEPT !.stopped = @ \/ (~job.cancelled /\ ~library.deaf)]

(* An event the listeners refuse: an error, a row, a column, a count. *)
Refused ==
    /\ subject = Me /\ at = "requested"
    /\ Goto(at, Failing(job)) /\ library' = Asked
    /\ Counted(TRUE)
    /\ UNCHANGED <<consumer, wire, kept, owner>>

Aborted ==
    /\ subject = Me /\ at = "requested"
    /\ Raise(at, Failing(job)) /\ library' = Asked
    /\ UNCHANGED <<consumer, wire, kept, faults, owner>>

(* The callback, then requestCompleted.  A result that no query may have    *)
(* (output values, further result sets) is refused after it.               *)
Completed ==
    /\ subject = Me /\ at = "requested"
    /\ \E error \in BOOLEAN :
         /\ Counted(error /\ ~library.stopped)
         /\ Settle(Outcome([job EXCEPT !.failed = @ \/ error]))
    /\ wire' = Free
    /\ UNCHANGED <<library, consumer, kept, owner>>
-----------------------------------------------------------------------------
(* streamRows.  The first next() pauses the request, sends it, resumes it, *)
(* and waits for data.                                                     *)

Stream == Send("stream", "waiting")

Streaming == subject = Me /\ at \in {"waiting", "woken", "yielded", "draining"}
Flowing == Streaming /\ wire.busy /\ ~library.paused

(* cancel, which resumes a paused request: it completes only then. *)
Cancel(j) ==
    IF j.done \/ j.cancelled THEN [j EXCEPT !.failed = TRUE]
    ELSE [j EXCEPT !.failed = TRUE, !.cancelled = TRUE, !.dirty = library.deaf, !.paused = @ /\ library.deaf]

(* Mutant of Cancelled: the request stays paused. *)
CancelledPaused(j) ==
    IF j.done \/ j.cancelled \/ library.deaf THEN library ELSE [library EXCEPT !.stopped = TRUE]
Cancelled(j) ==
    IF j.done \/ j.cancelled \/ library.deaf THEN library
    ELSE [library EXCEPT !.stopped = TRUE, !.paused = FALSE]

(* wake: the waiter of the loop, if there is one. *)
Awake == IF at = "waiting" THEN "woken" ELSE at

Full(queue) == Len(queue) >= MaxBufferedRows

Row ==
    /\ Flowing /\ library.sent < MaxRows
    /\ LET row == library.sent + 1
           queue == Append(job.queue, row)
           pause == ~job.failed /\ ~job.paused /\ Full(queue) IN
       /\ Goto(Awake, IF job.failed THEN job ELSE [job EXCEPT !.queue = queue, !.paused = @ \/ pause])
       /\ library' = [library EXCEPT !.sent = row, !.paused = @ \/ pause]
    /\ UNCHANGED <<consumer, wire, kept, faults, owner>>

(* An error event, a row or a column that is refused, a second result set,  *)
(* an output value.                                                        *)
Complaint ==
    /\ Flowing
    /\ Goto(Awake, Cancel(job)) /\ library' = Cancelled(job)
    /\ Counted(TRUE)
    /\ UNCHANGED <<consumer, wire, kept, owner>>

StreamAborted ==
    /\ Streaming
    /\ Raise(Awake, Cancel(job)) /\ library' = Cancelled(job)
    /\ UNCHANGED <<consumer, wire, kept, faults, owner>>

(* The callback with its error, if any, and requestCompleted, which refuses *)
(* a request without exactly one result set and one statement.             *)
RequestCompleted ==
    /\ Flowing
    /\ \E error \in BOOLEAN :
         /\ Counted(error /\ ~library.stopped)
         /\ Goto(Awake, [job EXCEPT !.done = TRUE, !.failed = @ \/ error])
    /\ wire' = Free
    /\ UNCHANGED <<library, consumer, kept, owner>>

(* Half of the buffer is free again. *)
Resumable(j) == j.paused /\ 2 * Len(j.queue) <= MaxBufferedRows /\ ~j.failed /\ ~j.done

(* The finally clause: cancel, remove the listener, wait for completion. *)
Finally(thrown) ==
    IF job.done
    THEN Settle(IF job.dirty THEN "cleanup" ELSE IF thrown THEN "failed" ELSE "ok") /\ UNCHANGED library
    ELSE /\ at' = "draining" /\ job' = Cancel(job) /\ library' = Cancelled(job)
         /\ signal' = "none" /\ UNCHANGED settled

(* Mutant of More: once the request is done, what is queued is forgotten. *)
MoreUntilDone(j) == j.queue # <<>> /\ ~j.done
More(j) == j.queue # <<>>

(* The loop looks at what it has: a failure counts before a row. *)
Loop ==
    IF job.failed THEN Finally(TRUE) /\ UNCHANGED consumer
    ELSE IF More(job)
    THEN LET j == [job EXCEPT !.queue = Tail(@)] IN
         /\ Goto("yielded", [j EXCEPT !.paused = @ /\ ~Resumable(j)])
         /\ library' = [library EXCEPT !.paused = @ /\ ~Resumable(j)]
         /\ consumer' = [consumer EXCEPT !.took = Append(@, Head(job.queue))]
    ELSE IF job.done THEN Finally(FALSE) /\ UNCHANGED consumer
    ELSE Goto("waiting", job) /\ UNCHANGED <<library, consumer>>

Continue ==
    /\ subject = Me /\ at \in {"woken", "yielded"}
    /\ Loop
    /\ UNCHANGED <<wire, kept, faults, owner>>

(* The consumer breaks, or throws. *)
Leave ==
    /\ subject = Me /\ at = "yielded"
    /\ Finally(FALSE)
    /\ consumer' = [consumer EXCEPT !.left = TRUE]
    /\ UNCHANGED <<wire, kept, faults, owner>>

(* await completion, at the end. *)
Drained ==
    /\ subject = Me /\ at = "draining" /\ job.done
    /\ Settle(IF consumer.left /\ ~job.dirty THEN "ok" ELSE Outcome(job))
    /\ UNCHANGED <<library, consumer, wire, kept, faults, owner>>

(* cancel() threw while the request was paused: nothing resumes it. *)
Stalled == Streaming /\ job.dirty /\ library.paused
-----------------------------------------------------------------------------
(* bulk: prepare, execute row by row, unprepare. *)

Bulk == Send("bulk", "preparing")

(* cancel in prepareRequest: one that throws settles at once. *)
PrepareAborted ==
    /\ subject = Me /\ at = "preparing"
    /\ IF library.deaf THEN signal = "armed" /\ Settle("cleanup") /\ UNCHANGED library
       ELSE Raise(at, job) /\ library' = [library EXCEPT !.stopped = TRUE]
    /\ UNCHANGED <<consumer, wire, kept, faults, owner>>

PrepareFailed ==
    /\ subject = Me /\ at = "preparing"
    /\ Counted(~library.stopped)
    /\ Settle("failed") /\ wire' = Free
    /\ UNCHANGED <<library, consumer, kept, owner>>

(* cleanup.run: the statement is unprepared whatever happened. *)
Unprepare(j) == Goto("unpreparing", j) /\ wire' = [Busy EXCEPT !.open = {"statement"}]

(* The next row of the loop, unless the signal was aborted before it. *)
NextRow(j) ==
    /\ IF j.failed \/ signal = "aborted" THEN Unprepare([j EXCEPT !.failed = TRUE])
       ELSE IF j.rows = 0 THEN Unprepare(j)
       ELSE Goto("executing", [j EXCEPT !.rows = @ - 1]) /\ wire' = [Busy EXCEPT !.open = {"statement"}]
    /\ library' = [library EXCEPT !.stopped = FALSE]

(* A prepare that succeeded owns a statement, also when it was cancelled. *)
Prepared ==
    /\ subject = Me /\ at = "preparing"
    /\ NextRow(job)
    /\ UNCHANGED <<consumer, kept, faults, owner>>

(* Rows, an error event or a count that is refused: kept until the end. *)
ExecuteRefused ==
    /\ subject = Me /\ at = "executing"
    /\ Goto(at, [job EXCEPT !.failed = TRUE])
    /\ Counted(TRUE)
    /\ UNCHANGED <<library, consumer, wire, kept, owner>>

ExecuteAborted ==
    /\ subject = Me /\ at = "executing"
    /\ Raise(at, [job EXCEPT !.dirty = library.deaf, !.failed = TRUE])
    /\ library' = [library EXCEPT !.stopped = ~library.deaf]
    /\ UNCHANGED <<consumer, wire, kept, faults, owner>>

Executed ==
    /\ subject = Me /\ at = "executing"
    /\ \E error \in BOOLEAN :
         /\ Counted(error /\ ~library.stopped)
         /\ NextRow([job EXCEPT !.failed = @ \/ error])
    /\ UNCHANGED <<consumer, kept, owner>>

Unprepared ==
    /\ subject = Me /\ at = "unpreparing"
    /\ \E error \in BOOLEAN :
         /\ Counted(error)
         /\ wire' = [Free EXCEPT !.open = IF error THEN @ ELSE {}]
         /\ Settle(Outcome([job EXCEPT !.dirty = @ \/ error]))
    /\ UNCHANGED <<library, consumer, kept, owner>>
-----------------------------------------------------------------------------
ControlSent == Control(Me)
ControlAnswered == Answered(Me, FALSE) /\ UNCHANGED kept
Release == ReleaseOrDiscard(Me)

Init == InitDriver(Me, "nothing")

Progress ==
    \/ Completed \/ Row \/ RequestCompleted \/ Continue \/ Leave \/ Drained
    \/ Prepared \/ PrepareFailed \/ Executed \/ Unprepared \/ ControlAnswered

Next ==
    \/ Query \/ Stream \/ Bulk \/ Unsendable \/ ControlSent \/ Release
    \/ Refused \/ Aborted \/ Complaint \/ StreamAborted
    \/ PrepareAborted \/ ExecuteRefused \/ ExecuteAborted
    \/ Progress
=============================================================================
