----------------------------- MODULE DriverState -----------------------------
(***************************************************************************)
(* The executor of a driver package on one leased connection: the state    *)
(* the models of the drivers share.  The runtime makes one call at a time. *)
(* A driver's module has one action per turn of the event loop: the code   *)
(* of the executor between two awaits, the listener of a library's event,  *)
(* or the listener of the AbortSignal, each as a whole.                    *)
(*                                                                         *)
(* The driver is chosen once.  What its library and its database do is     *)
(* external: as much as the code of the driver provides for.               *)
(***************************************************************************)
EXTENDS Integers, Sequences, FiniteSets

CONSTANTS
    MaxCalls,       \* the drivers to try, with a bound: calls on one lease
    MaxRows,        \* bound: rows of a result
    MaxFaults       \* bound: what goes wrong at the library or the database

ASSUME DriverConstants ==
    /\ \A driver \in DOMAIN MaxCalls : MaxCalls[driver] \in Nat
    /\ MaxRows \in Nat /\ MaxFaults \in Nat

VARIABLES
    subject,    \* the driver
    at,         \* where the executor's code stands; "idle" between calls
    job,        \* the locals of the call
    library,    \* the request, cursor or stream of the library
    consumer,   \* the loop over a stream: the rows it took, whether it left
    wire,       \* the connection and what the database holds for it
    kept,       \* what the executor keeps between calls
    signal,     \* the signal of the call: "none", "armed", "aborted"
    settled,    \* how the last call ended
    intx,       \* the runtime is in a transaction
    lease,
    calls,      \* calls so far
    faults      \* faults so far

vars == <<subject, at, job, library, consumer, wire, kept, signal, settled, intx, lease, calls, faults>>
owner == <<subject, intx, lease, calls>>

(* A request that sends rows, which may be paused or stopped; deaf: asked   *)
(* to stop, the library throws.                                            *)
NoRequest == [op |-> "none", sent |-> 0, paused |-> FALSE, stopped |-> FALSE, deaf |-> FALSE]
Request(op, deaf) == [NoRequest EXCEPT !.op = op, !.deaf = deaf]

(* busy: it executes; open: what was opened and not closed; ended: cut by   *)
(* the executor; tx: the transaction, "spoiled" by a failed statement.     *)
Connected == [busy |-> FALSE, open |-> {}, ended |-> FALSE, tx |-> "none"]

NoJob == [op |-> "none"]
Unread == [took |-> <<>>, left |-> FALSE]

InitDriver(kind, nothing) ==
    /\ subject = kind
    /\ at = "idle" /\ job = NoJob /\ library = NoRequest /\ consumer = Unread
    /\ wire = Connected /\ kept = nothing
    /\ signal = "none" /\ settled = "none" /\ intx = FALSE /\ lease = "leased"
    /\ calls = 0 /\ faults = 0

(* The runtime calls: the call's first turn ends at label l.  A signal that *)
(* is aborted already is refused before anything is sent, and not modelled. *)
Start(kind, l, j) ==
    /\ subject = kind
    /\ at = "idle" /\ lease = "leased" /\ settled # "cleanup"
    /\ calls < MaxCalls[kind] /\ calls' = calls + 1
    /\ at' = l /\ job' = j
    /\ settled' = "none" /\ consumer' = Unread
    /\ UNCHANGED <<subject, lease>>

Goto(l, j) == at' = l /\ job' = j /\ UNCHANGED <<signal, settled>>

(* The signal is aborted; its listener leaves the code at l with j. *)
Raise(l, j) ==
    /\ signal = "armed" /\ signal' = "aborted"
    /\ at' = l /\ job' = j /\ UNCHANGED settled

(* The call ends; its listeners are removed. *)
Settle(outcome) ==
    /\ at' = "idle" /\ job' = NoJob
    /\ signal' = "none" /\ settled' = outcome

(* A call that ends in its first turn. *)
Turn(kind, outcome) ==
    /\ subject = kind
    /\ at = "idle" /\ lease = "leased" /\ settled # "cleanup"
    /\ calls < MaxCalls[kind] /\ calls' = calls + 1
    /\ settled' = outcome /\ library' = NoRequest /\ consumer' = Unread
    /\ UNCHANGED <<subject, at, job, signal, lease>>

Busy == [wire EXCEPT !.busy = TRUE]
Free == [wire EXCEPT !.busy = FALSE]
Open(w, what) == [w EXCEPT !.open = @ \cup {what}]
Close(w, what) == [w EXCEPT !.open = @ \ {what}]

(* The connection is cut, unless the library throws. *)
Cut == [wire EXCEPT !.ended = ~library.deaf]

(* How a call ends: it cannot say that the connection is clean (dirty), or  *)
(* has an error.                                                           *)
Outcome(j) == IF j.dirty THEN "cleanup" ELSE IF j.failed THEN "failed" ELSE "ok"

(* PostgreSQL: a statement that fails spoils its transaction, and then      *)
(* nothing succeeds until the transaction is rolled back.                  *)
Spoil(w) == [w EXCEPT !.tx = IF @ = "open" THEN "spoiled" ELSE @]
Spoiled == wire.tx = "spoiled"
Portals == {"portal1", "portal2"}

(* A row of the library is handed to the consumer. *)
HandRow ==
    /\ library.sent < MaxRows
    /\ library' = [library EXCEPT !.sent = @ + 1]
    /\ consumer' = [consumer EXCEPT !.took = Append(@, library.sent + 1)]

(* What goes wrong at the library or the database is counted. *)
Counted(fault) ==
    /\ fault => faults < MaxFaults
    /\ faults' = IF fault THEN faults + 1 ELSE faults

(* A call the executor or the library refuses before anything is sent. *)
Unsent(kind) ==
    /\ Turn(kind, "failed")
    /\ Counted(TRUE)
    /\ UNCHANGED <<wire, kept, intx>>
-----------------------------------------------------------------------------
(* Control statements.  The runtime begins what it ends, and poisons the    *)
(* connection when one of them fails.                                      *)

Control(kind) ==
    /\ \E what \in IF intx THEN {"commit", "rollback", "savepoint", "rollbackTo"} ELSE {"begin"} :
         Start(kind, "control", [op |-> what])
    /\ wire' = Busy /\ library' = NoRequest
    /\ UNCHANGED <<kept, signal, intx, faults>>

Transaction(what, tx) ==
    CASE what \in {"begin", "rollbackTo"} -> "open"
      [] what \in {"commit", "rollback"} -> "none"
      [] OTHER -> tx

(* The database did it or not, and says so or its answer is lost; it ends a *)
(* spoiled transaction by ROLLBACK whatever it was asked.  refused: what    *)
(* the executor makes of a good answer.                                    *)
Answered(kind, refused) ==
    /\ subject = kind /\ at = "control"
    /\ \E did, error \in BOOLEAN :
         /\ did => ~(job.op = "savepoint" /\ wire.tx = "spoiled")
         /\ ~did => error
         /\ Counted(error)
         /\ wire' = IF did THEN [Free EXCEPT !.tx = Transaction(job.op, @), !.open = @ \ Portals] ELSE Free
         /\ IF error \/ refused THEN Settle("cleanup") /\ UNCHANGED intx
            ELSE Settle("ok") /\ intx' = (job.op \notin {"commit", "rollback"})
    /\ UNCHANGED <<subject, library, consumer, lease, calls>>
-----------------------------------------------------------------------------
(* The lease is given back, with {discard} when the connection is poisoned. *)

Poisoned == settled = "cleanup"

Releasable(kind) ==
    /\ subject = kind
    /\ at = "idle" /\ lease = "leased" /\ calls > 0
    /\ Poisoned \/ ~intx

Leased == <<subject, at, job, library, consumer, kept, signal, settled, intx, calls>>

(* Most pools: back as it is, or destroyed. *)
ReleaseOrDiscard(kind) ==
    /\ Releasable(kind)
    /\ lease' = IF Poisoned THEN "discarded" ELSE "returned"
    /\ UNCHANGED <<Leased, wire, faults>>
=============================================================================
