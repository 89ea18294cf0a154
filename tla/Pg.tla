--------------------------------- MODULE Pg ---------------------------------
(***************************************************************************)
(* The PostgreSQL executor of node-postgres (postgres/src/pg/executor.ts): *)
(* query, call with its refcursors, the bulk that keeps one prepared name  *)
(* per client, and the stream over a cursor.                               *)
(*                                                                         *)
(* A signal ends the client.  end() is a call of its own that may end      *)
(* before or after what is in flight, and may fail; the executor waits for *)
(* it.  The client keeps the names it has parsed where the code finds them.*)
(***************************************************************************)
EXTENDS DriverState

CONSTANTS MaxBufferedRows,  \* streamBatchSize
          MaxBulk           \* rows of a bulk

Me == "pg"

(* PgBulkCache.text; parsedStatements and the server, for its name. *)
Fresh == [text |-> "none", parsed |-> "none", server |-> "none"]
Texts == {"insert", "update"}

Closure(op) == [op |-> op, failed |-> FALSE, dirty |-> FALSE, queue |-> <<>>, last |-> FALSE,
                live |-> <<>>, text |-> "none", rows |-> 0]

Ending == "end" \in wire.open

Call(l, j) ==
    /\ Start(Me, l, j)
    /\ library' = Request(j.op, FALSE)
    /\ signal' \in {"none", "armed"}
    /\ UNCHANGED <<intx, faults>>

Query == \E op \in {"query", "call"} : Call("requested", Closure(op)) /\ wire' = Busy /\ UNCHANGED kept
Stream == Call("reading", Closure("stream")) /\ wire' = Open(Busy, "cursor") /\ UNCHANGED kept

Unsendable == Unsent(Me)

(* A cursor operation gives up at once, the others when they are answered. *)
Aborted ==
    /\ subject = Me
    /\ at \in {"requested", "fetching", "dropping", "executing", "reading", "yielded", "closing"}
    /\ Raise(IF at \in {"reading", "closing"} THEN "ending" ELSE at, [job EXCEPT !.dirty = TRUE])
    /\ wire' = Open(wire, "end")
    /\ UNCHANGED <<library, consumer, kept, faults, owner>>

(* The bulk does not listen while it evicts. *)
AbortedAside ==
    /\ subject = Me /\ at = "evicting"
    /\ Raise(at, job)
    /\ UNCHANGED <<library, consumer, wire, kept, faults, owner>>

Ended ==
    /\ subject = Me /\ Ending
    /\ \E error \in BOOLEAN :
         /\ Counted(error)
         /\ wire' = [Close(wire, "end") EXCEPT !.ended = ~error, !.busy = @ /\ error]
    /\ UNCHANGED <<at, job, library, consumer, kept, signal, settled, owner>>

(* withPgCancellation: an aborted call waits for the end of the client. *)
Done(j, w) ==
    IF Ending THEN Goto("ending", j) /\ wire' = w
    ELSE Settle(Outcome(j)) /\ wire' = w

Terminated ==
    /\ subject = Me /\ at = "ending" /\ ~Ending
    /\ Settle("cleanup")
    /\ UNCHANGED <<library, consumer, wire, kept, faults, owner>>

(* The database answers; what it refuses spoils the transaction. *)
Answer(error) ==
    /\ Counted(error /\ ~Spoiled /\ ~job.dirty)
    /\ Spoiled => error
Result(error) == IF error /\ ~job.dirty THEN Spoil(Free) ELSE Free
-----------------------------------------------------------------------------
(* query; call, whose refcursors are fetched and closed one after another.  *)

Requested ==
    /\ subject = Me /\ at = "requested"
    /\ \E error, refused, portals \in BOOLEAN :
         /\ refused => ~error /\ ~job.dirty
         /\ portals => ~error /\ ~job.dirty /\ job.op = "call" /\ wire.tx = "open"
         /\ Spoiled => error
         /\ Counted((error /\ ~Spoiled /\ ~job.dirty) \/ refused)
         /\ LET j == [job EXCEPT !.failed = error \/ refused]
                w == Result(error)
                opened == [w EXCEPT !.open = @ \cup Portals] IN
            IF ~portals THEN Done(j, w)
            ELSE IF refused THEN Done(j, opened)
            ELSE /\ Goto("fetching", [j EXCEPT !.live = <<"portal1", "portal2">>])
                 /\ wire' = [opened EXCEPT !.busy = TRUE]
    /\ UNCHANGED <<library, consumer, kept, owner>>

(* After a failure every portal that is left is closed, as far as it goes. *)
Drop(j, w) ==
    IF j.live = <<>> \/ signal = "aborted" THEN Done(j, w)
    ELSE Goto("dropping", j) /\ wire' = [w EXCEPT !.busy = TRUE]

(* FETCH ALL and its result. *)
PortalFetched ==
    /\ subject = Me /\ at = "fetching"
    /\ \E error, refused \in BOOLEAN :
         /\ refused => ~error /\ ~job.dirty
         /\ Counted((error /\ ~job.dirty) \/ refused)
         /\ IF error \/ refused \/ job.dirty THEN Drop([job EXCEPT !.failed = TRUE], Result(error))
            ELSE Goto("dropping", job) /\ wire' = Busy
    /\ UNCHANGED <<library, consumer, kept, owner>>

(* CLOSE, of the portal that was read or of those left after a failure. *)
PortalClosed ==
    /\ subject = Me /\ at = "dropping"
    /\ \E error \in BOOLEAN :
         /\ Answer(error)
         /\ LET left == Tail(job.live)
                closed == Close(Free, Head(job.live)) IN
            IF signal = "aborted" THEN Done(job, Free)
            ELSE IF error
            THEN Drop([job EXCEPT !.dirty = job.failed, !.failed = TRUE,
                                  !.live = IF job.failed THEN left ELSE @], Spoil(Free))
            ELSE IF job.failed THEN Drop([job EXCEPT !.live = left], closed)
            ELSE IF left = <<>> THEN Done(job, closed)
            ELSE Goto("fetching", [job EXCEPT !.live = left]) /\ wire' = [closed EXCEPT !.busy = TRUE]
    /\ UNCHANGED <<library, consumer, kept, owner>>
-----------------------------------------------------------------------------
(* bulk: one name per client, for one text at a time. *)

Bulk ==
    /\ \E text \in Texts :
         Call(IF kept.text \in {"none", text} THEN "executing" ELSE "evicting",
              [Closure("bulk") EXCEPT !.text = text, !.rows = MaxBulk])
    /\ wire' = Busy /\ UNCHANGED kept

(* Mutant of Evicted: the name is forgotten before the server has answered. *)
EvictedEarly(error) == kept' = [Fresh EXCEPT !.server = IF error THEN kept.server ELSE @]
(* evictPgBulkStatement: DEALLOCATE, and then the client forgets the name. *)
Evicted(error) == IF error THEN UNCHANGED kept ELSE kept' = Fresh

Deallocated ==
    /\ subject = Me /\ at = "evicting"
    /\ \E error \in BOOLEAN :
         /\ Answer(error)
         /\ Evicted(error)
         /\ IF error \/ signal = "aborted" THEN Done([job EXCEPT !.failed = TRUE], Result(error))
            ELSE Goto("executing", job) /\ wire' = Busy
    /\ UNCHANGED <<library, consumer, owner>>

(* A row: refused by the parser, by the execution, or by the executor.      *)
(* What was parsed is remembered, also when the call fails.                *)
Executed ==
    /\ subject = Me /\ at = "executing"
    /\ \E error, parsed, refused \in BOOLEAN :
         /\ parsed \/ error
         /\ refused => ~error /\ ~job.dirty
         /\ Spoiled => error
         /\ Counted((error /\ ~Spoiled /\ ~job.dirty) \/ refused)
         /\ Spoiled => (parsed <=> kept.parsed = job.text)
         /\ kept' = IF parsed THEN [text |-> job.text, parsed |-> job.text, server |-> job.text] ELSE kept
         /\ LET j == [job EXCEPT !.failed = error \/ refused, !.rows = @ - 1] IN
            IF j.failed \/ j.dirty \/ j.rows = 0 THEN Done(j, Result(error))
            ELSE Goto(at, j) /\ wire' = Busy
    /\ UNCHANGED <<library, consumer, owner>>

(* A named statement runs the text it is sent with. *)
NameMeansText ==
    subject = Me /\ at = "executing" =>
        /\ kept.parsed \in {"none", job.text}
        /\ kept.server = kept.parsed
-----------------------------------------------------------------------------
(* stream: batches of a cursor. *)

(* The finally clause: the cursor is closed, unless the client is ended. *)
Finally(j) ==
    IF j.dirty THEN Done(j, wire)
    ELSE Goto("closing", j) /\ wire' = Busy

Hand(j) ==
    /\ Goto("yielded", [j EXCEPT !.queue = Tail(@)])
    /\ consumer' = [consumer EXCEPT !.took = Append(@, Head(j.queue))]

(* A batch; one that is short is the last. *)
Read ==
    /\ subject = Me /\ at = "reading"
    /\ ~Spoiled
    /\ \E n \in 0..MaxBufferedRows :
         /\ library.sent + n <= MaxRows
         /\ library' = [library EXCEPT !.sent = @ + n]
         /\ LET batch == [i \in 1..n |-> library.sent + i] IN
            IF n = 0 THEN Finally(job) /\ UNCHANGED consumer
            ELSE Hand([job EXCEPT !.queue = batch, !.last = n < MaxBufferedRows]) /\ wire' = Free
    /\ UNCHANGED <<kept, faults, owner>>

(* An error of the database, or a result that is refused. *)
ReadFailed ==
    /\ subject = Me /\ at = "reading"
    /\ \E error \in BOOLEAN :
         /\ Counted(~error \/ ~Spoiled)
         /\ Spoiled => error
         /\ Goto("closing", [job EXCEPT !.failed = TRUE])
         /\ wire' = IF error THEN Spoil(Busy) ELSE Busy
    /\ UNCHANGED <<library, consumer, kept, owner>>

Continue ==
    /\ subject = Me /\ at = "yielded"
    /\ IF job.dirty THEN Finally([job EXCEPT !.failed = TRUE]) /\ UNCHANGED consumer
       ELSE IF job.queue # <<>> THEN Hand(job) /\ UNCHANGED wire
       ELSE IF job.last THEN Finally(job) /\ UNCHANGED consumer
       ELSE Goto("reading", job) /\ wire' = Busy /\ UNCHANGED consumer
    /\ UNCHANGED <<library, kept, faults, owner>>

Leave ==
    /\ subject = Me /\ at = "yielded"
    /\ Finally(job)
    /\ consumer' = [consumer EXCEPT !.left = TRUE]
    /\ UNCHANGED <<library, kept, faults, owner>>

CursorClosed ==
    /\ subject = Me /\ at = "closing"
    /\ \E error \in BOOLEAN :
         /\ Counted(error)
         /\ Settle(Outcome([job EXCEPT !.dirty = error]))
         /\ wire' = IF error THEN Free ELSE Close(Free, "cursor")
    /\ UNCHANGED <<library, consumer, kept, owner>>
-----------------------------------------------------------------------------
ControlSent == Control(Me)

(* Mutant of NotCommitted: every answer to COMMIT is good. *)
NotCommittedNever == FALSE
(* runControl: PostgreSQL answers ROLLBACK to the COMMIT of a spoiled       *)
(* transaction.                                                            *)
NotCommitted == job.op = "commit" /\ Spoiled

ControlAnswered == Answered(Me, NotCommitted) /\ UNCHANGED kept

Release == ReleaseOrDiscard(Me)

Init == InitDriver(Me, Fresh)

Progress ==
    \/ Ended \/ Terminated \/ Requested \/ PortalFetched \/ PortalClosed
    \/ Deallocated \/ Executed \/ Read \/ ReadFailed \/ Continue \/ Leave \/ CursorClosed
    \/ ControlAnswered

Next ==
    \/ Query \/ Stream \/ Bulk \/ Unsendable \/ ControlSent \/ Release
    \/ Aborted \/ AbortedAside
    \/ Progress
=============================================================================
