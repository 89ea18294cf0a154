------------------------------ MODULE Executor ------------------------------
(***************************************************************************)
(* What the runtime is promised by the executor of a driver package: the   *)
(* contract of QueryExecutor and ConnectionLease (core/src/executor.ts) as *)
(* the runtime relies on it (operations/lease.ts, materialized.ts).        *)
(*                                                                         *)
(* One connection, one call at a time.  A call that ends well, or fails    *)
(* with the error of its statement, has left the connection alone: nothing *)
(* runs, nothing stays open, the connection was not cut, and there is no   *)
(* transaction the runtime does not know of.  An executor that cannot say  *)
(* so ends the call with BRAID_RESOURCE_CLEANUP, and the runtime poisons   *)
(* the connection and discards the lease.                                  *)
(***************************************************************************)

VARIABLES
    call,           \* "none", "running", or how the last call ended
    connection,     \* busy, open, ended, tx
    intx,           \* the runtime has begun a transaction and not ended it
    lent            \* "leased", "returned" or "discarded"

vars == <<call, connection, intx, lent>>

Quiet(w, t) == ~w.busy /\ w.open = {} /\ ~w.ended /\ (w.tx => t)

Init == call = "none" /\ lent = "leased" /\ intx = FALSE /\ Quiet(connection, FALSE)

Ready == lent = "leased" /\ call \in {"none", "ok", "failed"}

Begin == Ready /\ call' = "running" /\ UNCHANGED <<intx, lent>>

Work == call = "running" /\ UNCHANGED <<call, intx, lent>>

(* A call of one turn: it is refused, or has nothing to wait for. *)
Short ==
    /\ Ready
    /\ call' \in {"ok", "failed", "cleanup"}
    /\ call' # "cleanup" => Quiet(connection', intx')
    /\ UNCHANGED lent

End ==
    /\ call = "running"
    /\ call' \in {"ok", "failed", "cleanup"}
    /\ call' # "cleanup" => Quiet(connection', intx')
    /\ UNCHANGED lent

(* What was in flight when a call gave up may still happen. *)
Late == call = "cleanup" /\ lent = "leased" /\ UNCHANGED <<call, intx, lent>>

(* What goes back to the pool is as good as new.  The rest is destroyed, or *)
(* never handed out again.                                                 *)
Release ==
    /\ lent = "leased" /\ call # "running"
    /\ call # "cleanup" => ~intx
    /\ lent' \in {"returned", "discarded"}
    /\ lent' = "returned" => Quiet(connection', FALSE)
    /\ UNCHANGED <<call, intx>>

Next == Begin \/ Work \/ Short \/ End \/ Late \/ Release

Spec == Init /\ [][Next]_vars

(* A connection in the pool is as good as a new one. *)
PoolClean == lent = "returned" => Quiet(connection, FALSE)
=============================================================================
