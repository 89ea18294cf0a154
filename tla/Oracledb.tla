------------------------------ MODULE Oracledb ------------------------------
(***************************************************************************)
(* The Oracle executor (oracle/src/oracledb.ts): query with and without    *)
(* RETURNING, call, bulk and stream over one connection of node-oracledb.  *)
(*                                                                         *)
(* A signal breaks the operation in flight.  break() is a call of its own, *)
(* which may end before or after what it breaks, and may fail; the         *)
(* operation may end well in spite of it.  The options of the user are     *)
(* taken to ask for autocommit.                                            *)
(***************************************************************************)
EXTENDS DriverState

Me == "oracledb"

(* transactionActive, and the provider's cancellationRequested. *)
Fresh == [active |-> FALSE, broken |-> FALSE]

Closure(op) == [op |-> op, failed |-> FALSE, dirty |-> FALSE]

Breaking == "break" \in wire.open

Call ==
    /\ \E op \in {"query", "returning", "call", "bulk", "stream"} :
         /\ Start(Me, "executing", Closure(op))
         /\ library' = Request(op, FALSE)
    /\ wire' = Busy
    /\ signal' \in {"none", "armed"}
    /\ UNCHANGED <<kept, intx, faults>>

(* executeOptions are validated before anything is sent. *)
Unsendable == Unsent(Me)

(* The listener of executeWithCancellation, or of a stream whose fetch is   *)
(* in flight.                                                              *)
Aborted ==
    /\ subject = Me
    /\ at \in {"executing", "reading", "fetching"} \/ (at = "closing" /\ job.op = "returning")
    /\ Raise(at, job)
    /\ wire' = Open(wire, "break") /\ kept' = [kept EXCEPT !.broken = TRUE]
    /\ UNCHANGED <<library, consumer, faults, owner>>

(* A stream between two rows has nothing to break. *)
AbortedAside ==
    /\ subject = Me /\ at = "yielded"
    /\ Raise(at, job)
    /\ UNCHANGED <<library, consumer, wire, kept, faults, owner>>

Finished(j, w) == Settle(Outcome(j)) /\ wire' = w

(* cleanupScope.run: what was opened is closed, whatever happened. *)
Cleanup(j, w) ==
    IF "cursor" \in w.open THEN Goto("closing", j) /\ wire' = [w EXCEPT !.busy = TRUE]
    ELSE Finished(j, w)

Fetch(j, w) == Goto("fetching", j) /\ wire' = [w EXCEPT !.busy = TRUE]

(* executeWithCancellation has its result: an abort makes it the reason. *)
Resolved(j, w) ==
    LET k == [j EXCEPT !.failed = @ \/ signal = "aborted"] IN
    IF k.op \in {"query", "returning", "bulk"} THEN Finished(k, w)
    ELSE IF k.op = "call" \/ k.failed THEN Cleanup(k, w)
    ELSE IF "cursor" \notin w.open THEN Finished([k EXCEPT !.failed = TRUE], w)
    ELSE Fetch(k, w)

(* Mutant of Ended: the break is not awaited. *)
EndedAtOnce(j, w) == Resolved(j, w)
(* The operation of executeWithCancellation ended: the break is awaited. *)
Ended(j, w) ==
    IF Breaking THEN Goto("breaking", j) /\ wire' = w ELSE Resolved(j, w)

(* Mutant of Autocommit: the options of the user as they are. *)
AutocommitAlways(tx) == "none"
(* resolveExecuteOptions: autocommit, unless the executor is in a transaction. *)
Autocommit(tx) == IF kept.active THEN tx ELSE "none"

(* A LOB is not read for a signal that is aborted. *)
Executed ==
    /\ subject = Me /\ at = "executing"
    /\ \E error, opened \in BOOLEAN :
         /\ Counted(error /\ signal # "aborted")
         /\ opened => ~error /\ job.op \in {"returning", "call", "stream"}
         /\ LET j == [job EXCEPT !.failed = error]
                w == [Free EXCEPT !.tx = IF error THEN @ ELSE Autocommit(@)]
                with == Open(w, "cursor") IN
            IF ~opened THEN Ended(j, w)
            ELSE IF job.op = "stream" THEN Ended(j, with)
            ELSE IF signal # "aborted" THEN Goto("reading", j) /\ wire' = Open(Busy, "cursor")
            ELSE IF job.op = "call" THEN Ended([j EXCEPT !.failed = TRUE], with)
            ELSE Cleanup([j EXCEPT !.failed = TRUE], with)
    /\ UNCHANGED <<library, consumer, kept, owner>>

(* The LOBs and cursors of a result, to the last or to a failure. *)
Read ==
    /\ subject = Me /\ at = "reading"
    /\ \E error \in BOOLEAN :
         /\ Counted(error /\ signal # "aborted")
         /\ LET j == [job EXCEPT !.failed = error] IN
            IF job.op = "call" THEN Ended(j, Free) ELSE Cleanup(j, Free)
    /\ UNCHANGED <<library, consumer, kept, owner>>

(* RETURNING closes within the operation, call and stream after it. *)
Closed ==
    /\ subject = Me /\ at = "closing"
    /\ \E error \in BOOLEAN :
         /\ Counted(error)
         /\ LET j == [job EXCEPT !.dirty = @ \/ error]
                w == IF error THEN Free ELSE Close(Free, "cursor") IN
            IF job.op = "returning" THEN Ended(j, w) ELSE Finished(j, w)
    /\ UNCHANGED <<library, consumer, kept, owner>>

BreakDone ==
    /\ subject = Me /\ Breaking
    /\ \E error \in BOOLEAN :
         /\ Counted(error)
         /\ job' = IF at = "idle" THEN job ELSE [job EXCEPT !.dirty = @ \/ error]
    /\ wire' = Close(wire, "break")
    /\ UNCHANGED <<at, library, consumer, kept, signal, settled, owner>>

Broken ==
    /\ subject = Me /\ at = "breaking" /\ ~Breaking
    /\ Resolved(job, wire)
    /\ UNCHANGED <<library, consumer, kept, faults, owner>>
-----------------------------------------------------------------------------
(* The loop of stream, and its finally clause. *)

Finally(j, w) ==
    IF Breaking THEN Goto("settling", j) /\ wire' = w
    ELSE Cleanup([j EXCEPT !.failed = @ \/ signal = "aborted"], w)

Fetched ==
    /\ subject = Me /\ at = "fetching"
    /\ \E row \in {"row", "end", "error"} :
         /\ Counted(row = "error" /\ signal # "aborted")
         /\ IF row = "row" /\ signal # "aborted"
            THEN Goto("yielded", job) /\ wire' = Free /\ HandRow
            ELSE /\ Finally([job EXCEPT !.failed = row # "end"], Free)
                 /\ UNCHANGED <<library, consumer>>
    /\ UNCHANGED <<kept, owner>>

Continue ==
    /\ subject = Me /\ at = "yielded"
    /\ IF signal = "aborted" THEN Finally([job EXCEPT !.failed = TRUE], wire) ELSE Fetch(job, wire)
    /\ UNCHANGED <<library, consumer, kept, faults, owner>>

Leave ==
    /\ subject = Me /\ at = "yielded"
    /\ Finally(job, wire)
    /\ consumer' = [consumer EXCEPT !.left = TRUE]
    /\ UNCHANGED <<library, kept, faults, owner>>

Settled ==
    /\ subject = Me /\ at = "settling"
    /\ ~Breaking
    /\ Finally(job, wire)
    /\ UNCHANGED <<library, consumer, kept, faults, owner>>
-----------------------------------------------------------------------------
ControlSent == Control(Me)

(* transactionActive follows what succeeded. *)
ControlAnswered ==
    /\ Answered(Me, FALSE)
    /\ kept' = [kept EXCEPT !.active = IF settled' = "ok" THEN intx' ELSE @]

(* begin without options sends nothing: the next statement begins. *)
BeginImplicit ==
    /\ ~intx
    /\ Turn(Me, "ok") /\ intx' = TRUE
    /\ wire' = [wire EXCEPT !.tx = "open"] /\ kept' = [kept EXCEPT !.active = TRUE]
    /\ UNCHANGED faults

(* close, with {drop} also after a break. *)
Release ==
    /\ Releasable(Me)
    /\ lease' = IF Poisoned \/ kept.broken THEN "discarded" ELSE "returned"
    /\ UNCHANGED <<Leased, wire, faults>>

Init == InitDriver(Me, Fresh)

Progress ==
    \/ Executed \/ Read \/ Closed \/ BreakDone \/ Broken
    \/ Fetched \/ Continue \/ Leave \/ Settled \/ ControlAnswered

Next ==
    \/ Call \/ Unsendable \/ ControlSent \/ BeginImplicit \/ Release
    \/ Aborted \/ AbortedAside
    \/ Progress
=============================================================================
