------------------------------ MODULE Mariadb ------------------------------
(***************************************************************************)
(* The MariaDB executor (mariadb/src/mariadb.ts): query, call and bulk,    *)
(* which are one request each, and stream, over one connection of the      *)
(* connector.                                                              *)
(*                                                                         *)
(* A signal destroys the connection.  The close() of a stream of the       *)
(* connector returns at once and may throw; the connection drops the rows  *)
(* that are still to come.                                                 *)
(***************************************************************************)
EXTENDS DriverState

Me == "mariadb"

Closure(op) == [op |-> op, failed |-> FALSE, dirty |-> FALSE]

Send(op, l) ==
    /\ Start(Me, l, Closure(op))
    /\ \E deaf \in BOOLEAN : library' = Request(op, deaf)
    /\ wire' = Busy
    /\ signal' \in {"none", "armed"}
    /\ UNCHANGED <<kept, intx, faults>>

Query == Send("query", "requested")
Stream == Send("stream", "reading")

Unsendable == Unsent(Me)

Aborted ==
    /\ subject = Me /\ at \in {"requested", "reading", "yielded"}
    /\ Raise(at, [job EXCEPT !.dirty = TRUE])
    /\ wire' = Cut
    /\ UNCHANGED <<library, consumer, kept, faults, owner>>

Requested ==
    /\ subject = Me /\ at = "requested"
    /\ \E error \in BOOLEAN :
         /\ Counted(error /\ ~job.dirty)
         /\ Settle(Outcome([job EXCEPT !.failed = error]))
    /\ wire' = Free
    /\ UNCHANGED <<library, consumer, kept, owner>>
-----------------------------------------------------------------------------
(* The cleanup of a stream: cut by the signal, read to its end, or closed. *)
Cleanup(j, exhausted, fault) ==
    /\ (j.dirty \/ exhausted) => ~fault
    /\ Settle(Outcome([j EXCEPT !.dirty = @ \/ fault]))
    /\ wire' = IF fault THEN wire ELSE Free

(* next(): a row; the end; or an error of the statement, of the columns or  *)
(* of a second result set, perhaps at the end.                             *)
Read ==
    /\ subject = Me /\ at = "reading"
    /\ \/ /\ ~job.dirty /\ HandRow
          /\ Goto("yielded", job)
          /\ UNCHANGED <<wire, faults>>
       \/ /\ Cleanup(job, TRUE, FALSE)
          /\ UNCHANGED <<library, consumer, faults>>
       \/ /\ \E exhausted, fault \in BOOLEAN : Cleanup([job EXCEPT !.failed = TRUE], exhausted, fault)
          /\ Counted(~job.dirty)
          /\ UNCHANGED <<library, consumer>>
    /\ UNCHANGED <<kept, owner>>

Continue ==
    /\ subject = Me /\ at = "yielded"
    /\ IF signal = "aborted" THEN Cleanup([job EXCEPT !.failed = TRUE], FALSE, FALSE)
       ELSE Goto("reading", job) /\ UNCHANGED wire
    /\ UNCHANGED <<library, consumer, kept, faults, owner>>

(* close() drops the rows that are still to come. *)
Leave ==
    /\ subject = Me /\ at = "yielded"
    /\ \E fault \in BOOLEAN : Cleanup(job, FALSE, fault) /\ Counted(fault)
    /\ consumer' = [consumer EXCEPT !.left = TRUE]
    /\ UNCHANGED <<library, kept, owner>>
-----------------------------------------------------------------------------
ControlSent == Control(Me)
ControlAnswered == Answered(Me, FALSE) /\ UNCHANGED kept
Release == ReleaseOrDiscard(Me)

Init == InitDriver(Me, "nothing")

Progress ==
    Requested \/ Read \/ Continue \/ Leave \/ ControlAnswered

Next ==
    \/ Query \/ Stream \/ Unsendable \/ ControlSent \/ Release
    \/ Aborted
    \/ Progress
=============================================================================
