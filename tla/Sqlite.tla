------------------------------- MODULE Sqlite -------------------------------
(***************************************************************************)
(* The synchronous executors of SQLite (sqlite/src): better-sqlite3,       *)
(* node:sqlite and the WASM build, over one database that the caller owns. *)
(* Every call is one turn, except a stream, which holds a statement open   *)
(* from row to row.  An active signal is refused.                          *)
(***************************************************************************)
EXTENDS DriverState

Kinds == {"better-sqlite3", "node-sqlite", "sqlite-wasm"}

(* Only the statements of the WASM build are finalized by the executor. *)
Finalizable == {"sqlite-wasm"}

(* A fault: the statement fails, and then perhaps what closes it. *)
Ways(kind) ==
    IF kind \in Finalizable THEN {"ok", "failed", "cleanup"} ELSE {"ok", "failed"}

OneTurn(kind, outcome) ==
    /\ Turn(kind, outcome)
    /\ Counted(outcome # "ok")
    /\ wire' = IF outcome = "cleanup" THEN Open(wire, "statement") ELSE wire
    /\ UNCHANGED <<kept, intx>>

BetterQuery == \E way \in Ways("better-sqlite3") : OneTurn("better-sqlite3", way)
NodeQuery == \E way \in Ways("node-sqlite") : OneTurn("node-sqlite", way)
WasmQuery == \E way \in Ways("sqlite-wasm") : OneTurn("sqlite-wasm", way)
-----------------------------------------------------------------------------
(* The finally clause: return() of the iterator, or finalize(). *)
Finished(kind, failed, fault) ==
    /\ wire' = IF fault THEN Open(wire, "statement") ELSE Close(wire, "statement")
    /\ Settle(Outcome([failed |-> failed, dirty |-> fault]))

(* next() or step(): a row, the end, or an error. *)
Step(kind) ==
    \/ /\ HandRow /\ at' = "yielded" /\ job' = [op |-> "stream"]
       /\ wire' = Open(wire, "statement")
       /\ UNCHANGED <<signal, settled, faults>>
    \/ /\ \E failed, fault \in BOOLEAN :
            /\ Counted(failed \/ fault)
            /\ Finished(kind, failed, fault)
       /\ UNCHANGED <<library, consumer>>

Streams(kind) ==
    /\ Start(kind, "stepping", [op |-> "stream"])
    /\ library' = Request("stream", FALSE)
    /\ UNCHANGED <<wire, kept, signal, intx, faults>>

BetterStream == Streams("better-sqlite3")
NodeStream == Streams("node-sqlite")
WasmStream == Streams("sqlite-wasm")

Continue ==
    /\ subject \in Kinds /\ at \in {"stepping", "yielded"}
    /\ Step(subject)
    /\ UNCHANGED <<kept, owner>>

Leave ==
    /\ subject \in Kinds /\ at = "yielded"
    /\ \E fault \in BOOLEAN : Finished(subject, FALSE, fault) /\ Counted(fault)
    /\ consumer' = [consumer EXCEPT !.left = TRUE]
    /\ UNCHANGED <<library, kept, owner>>
-----------------------------------------------------------------------------
(* BEGIN, COMMIT and their kind; a failure did it or not. *)
ControlTurn ==
    /\ \E kind \in Kinds, what \in IF intx THEN {"commit", "rollback", "savepoint", "rollbackTo"} ELSE {"begin"},
          did, error \in BOOLEAN :
         /\ ~did => error
         /\ Counted(error)
         /\ Turn(kind, IF error THEN "cleanup" ELSE "ok")
         /\ wire' = IF did THEN [wire EXCEPT !.tx = Transaction(what, @)] ELSE wire
         /\ intx' = IF error THEN intx ELSE what \notin {"commit", "rollback"}
    /\ UNCHANGED kept

Init == \E kind \in Kinds : InitDriver(kind, "nothing")

Progress == Continue \/ Leave

Next ==
    \/ BetterQuery \/ NodeQuery \/ WasmQuery
    \/ BetterStream \/ NodeStream \/ WasmStream
    \/ ControlTurn
    \/ Progress
=============================================================================
