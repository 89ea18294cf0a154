------------------------------- MODULE Mysql2 -------------------------------
(***************************************************************************)
(* The MySQL executor (mysql/src/mysql2.ts): query and call, the prepared  *)
(* loop of bulk, and stream, over one connection of mysql2.                *)
(*                                                                         *)
(* A signal destroys the connection, and what was in flight then fails or  *)
(* still ends well: in both cases the call ends with a cleanup error.      *)
(* destroy() may throw.  A stream that is left or fails is read to its end.*)
(***************************************************************************)
EXTENDS DriverState

CONSTANT MaxBulk    \* rows of a bulk

Me == "mysql2"

(* dirty: the connection was destroyed, or something could not be undone. *)
Closure(op) == [op |-> op, failed |-> FALSE, dirty |-> FALSE, rows |-> MaxBulk]

Send(op, l) ==
    /\ Start(Me, l, Closure(op))
    /\ \E deaf \in BOOLEAN : library' = Request(op, deaf)
    /\ wire' = Busy
    /\ signal' \in {"none", "armed"}
    /\ UNCHANGED <<kept, intx, faults>>

Query == Send("query", "requested")
Bulk == Send("bulk", "preparing")
Stream == Send("stream", "reading")

Unsendable == Unsent(Me)

(* The command was sent, but its stream could not be set up. *)
SetupFailed ==
    /\ Turn(Me, "cleanup")
    /\ wire' = [wire EXCEPT !.ended = TRUE]
    /\ Counted(TRUE)
    /\ UNCHANGED <<kept, intx>>

(* Where a listener of the signal is on. *)
Given == {"requested", "preparing", "executing", "reading", "yielded", "draining"}

Aborted ==
    /\ subject = Me /\ at \in Given
    /\ Raise(at, [job EXCEPT !.dirty = TRUE])
    /\ wire' = Cut
    /\ UNCHANGED <<library, consumer, kept, faults, owner>>

(* query and call; a result that is refused is refused after its end. *)
Requested ==
    /\ subject = Me /\ at = "requested"
    /\ \E error \in BOOLEAN :
         /\ Counted(error /\ ~job.dirty)
         /\ Settle(Outcome([job EXCEPT !.failed = error]))
    /\ wire' = Free
    /\ UNCHANGED <<library, consumer, kept, owner>>
-----------------------------------------------------------------------------
(* bulk *)

(* closePrepared: not on a connection that is to be discarded. *)
ClosePrepared(j) ==
    IF j.dirty THEN Settle("cleanup") /\ wire' = Free
    ELSE Goto("unpreparing", j) /\ wire' = Busy

AfterRow(j) ==
    IF j.dirty \/ j.failed \/ j.rows = 0 THEN ClosePrepared(j)
    ELSE Goto("executing", [j EXCEPT !.rows = @ - 1]) /\ wire' = Open(Busy, "statement")

Prepared ==
    /\ subject = Me /\ at = "preparing"
    /\ \E error \in BOOLEAN :
         /\ Counted(error /\ ~job.dirty)
         /\ IF error \/ job.dirty THEN Settle(Outcome([job EXCEPT !.failed = TRUE])) /\ wire' = Free
            ELSE AfterRow(job)
    /\ UNCHANGED <<library, consumer, kept, owner>>

Executed ==
    /\ subject = Me /\ at = "executing"
    /\ \E error \in BOOLEAN :
         /\ Counted(error /\ ~job.dirty)
         /\ AfterRow([job EXCEPT !.failed = error])
    /\ UNCHANGED <<library, consumer, kept, owner>>

Unprepared ==
    /\ subject = Me /\ at = "unpreparing"
    /\ \E error \in BOOLEAN :
         /\ Counted(error)
         /\ Settle(Outcome([job EXCEPT !.dirty = error]))
         /\ wire' = IF error THEN Free ELSE Close(Free, "statement")
    /\ UNCHANGED <<library, consumer, kept, owner>>
-----------------------------------------------------------------------------
(* stream *)

(* A second result set: pendingError, thrown when next() returns. *)
Pending ==
    /\ subject = Me /\ at \in {"reading", "yielded", "draining"}
    /\ Goto(at, [job EXCEPT !.failed = TRUE])
    /\ Counted(TRUE)
    /\ UNCHANGED <<library, consumer, wire, kept, owner>>

Ended(j) == Settle(Outcome(j)) /\ wire' = Free

(* The finally clause before the end of the rows: the rest is read. *)
Finally(j) ==
    IF j.dirty THEN Ended(j) ELSE Goto("draining", j) /\ UNCHANGED wire

(* next(): a row, which may be refused, the end, or the error of the        *)
(* statement, after which the iterator has ended.                          *)
Fetched ==
    /\ subject = Me /\ at = "reading"
    /\ \/ /\ ~job.dirty /\ ~job.failed /\ HandRow
          /\ Goto("yielded", job)
          /\ UNCHANGED <<wire, faults>>
       \/ /\ Counted(~job.dirty /\ ~job.failed)
          /\ Finally([job EXCEPT !.failed = TRUE])
          /\ UNCHANGED <<library, consumer>>
       \/ /\ Ended(job)
          /\ UNCHANGED <<library, consumer, faults>>
       \/ /\ Counted(~job.dirty)
          /\ Ended([job EXCEPT !.failed = TRUE])
          /\ UNCHANGED <<library, consumer>>
    /\ UNCHANGED <<kept, owner>>

Continue ==
    /\ subject = Me /\ at = "yielded"
    /\ IF job.dirty THEN Ended(job) ELSE Goto("reading", job) /\ UNCHANGED wire
    /\ UNCHANGED <<library, consumer, kept, faults, owner>>

Leave ==
    /\ subject = Me /\ at = "yielded"
    /\ Finally(job)
    /\ consumer' = [consumer EXCEPT !.left = TRUE]
    /\ UNCHANGED <<library, kept, faults, owner>>

(* A row that is dropped, the end, or an error; the signal is looked at     *)
(* after every row.                                                        *)
Drain ==
    /\ subject = Me /\ at = "draining"
    /\ \/ /\ ~job.dirty /\ library.sent < MaxRows
          /\ library' = [library EXCEPT !.sent = @ + 1]
          /\ Goto(at, job) /\ UNCHANGED <<wire, faults>>
       \/ Ended(job) /\ UNCHANGED <<library, faults>>
       \/ Counted(~job.dirty) /\ Ended([job EXCEPT !.dirty = TRUE]) /\ UNCHANGED library
    /\ UNCHANGED <<consumer, kept, owner>>
-----------------------------------------------------------------------------
ControlSent == Control(Me)
ControlAnswered == Answered(Me, FALSE) /\ UNCHANGED kept
Release == ReleaseOrDiscard(Me)

Init == InitDriver(Me, "nothing")

Progress ==
    \/ Requested \/ Prepared \/ Executed \/ Unprepared
    \/ Fetched \/ Continue \/ Leave \/ Drain \/ ControlAnswered

Next ==
    \/ Query \/ Bulk \/ Stream \/ Unsendable \/ SetupFailed \/ ControlSent \/ Release
    \/ Aborted \/ Pending
    \/ Progress
=============================================================================
