----------------------------- MODULE Statements -----------------------------
(***************************************************************************)
(* execute and stream (operations/materialized.ts, operations/stream.ts)   *)
(* and the lease each of them takes (operations/lease.ts). execute stands  *)
(* for every call that runs one statement to its end: execute, all, one,   *)
(* maybeOne, call, bulk.                                                   *)
(*                                                                         *)
(* One action is one stretch of code between two awaits at which another   *)
(* call may run. What a driver or an observer may do wrong is in Faults.   *)
(***************************************************************************)
EXTENDS Integers, SequencesExt

CONSTANTS
    Calls,          \* the calls of the application, each made at most once
    Conns,          \* physical resources: one executor, or the slots of a pool
    Root,           \* the root handle
    None,
    Pooled,         \* createPooledDatabase rather than createDatabase
    Conservative    \* the browser build: no AsyncLocalStorage

ASSUME ScopeConstants ==
    /\ Root \notin Calls /\ None \notin Calls /\ Root # None
    /\ None \notin Conns /\ Conns # {}
    /\ Pooled \in BOOLEAN /\ Conservative \in BOOLEAN
    /\ Pooled => ~Conservative

VARIABLES
    req,        \* per call: what was called, on which handle, from which code
    pc,         \* per call: where its code stands
    conn,       \* per call: the resource it waits for or uses
    scope,      \* per call: the state of its closure
    tail,       \* per resource: queue of the root calls (ScopeState.tail)
    turns,      \* per resource: queue of the scoped calls (.transactionTail)
    mark,       \* per resource: the counters and markers of its ScopeState
    poisoned,   \* the resources whose ScopeState has "poisoned"
    open,       \* per resource: transaction and savepoints at the database
    idle        \* leases at the provider

vars == <<req, pc, conn, scope, tail, turns, mark, poisoned, open, idle>>

Kind    == {"execute", "stream", "tx", "session"}
Phase   == {"begin", "savepoint", "commit", "release",
            "rollback", "rollback-to", "discard-savepoint"}
Settled == {"fulfilled", "rejected"}
PC == {"unborn", "ready", "queued", "acquiring", "running", "suspended",
       "closing", "closed", "announce", "turn", "driver", "announced",
       "body", "drain", "tail", "finalize", "releasing"} \cup Settled

Request == [kind : Kind, via : Calls \cup {Root}, caller : SUBSET Calls]
Scope   == [phase : Phase, txScope : Calls \cup {None},
            prev : Calls \cup {None}, rootPrev : Calls \cup {None},
            closed : BOOLEAN, streams : Seq(Calls), drain : Seq(Calls),
            awaited : SUBSET Calls, outcome : {"ok", "unclosed", "failed"},
            started : BOOLEAN, completed : BOOLEAN]
Mark    == [streamUsers : Int, pendingStreams : Int,
            activeScope : Calls \cup {None}, activeSession : Calls \cup {None},
            directBusy : BOOLEAN]

(* A call no code has made yet, and a resource nobody has used. *)
Unborn   == [kind |-> "execute", via |-> Root, caller |-> {}]
NewScope == [phase |-> "begin", txScope |-> None, prev |-> None,
             rootPrev |-> None, closed |-> FALSE, streams |-> <<>>,
             drain |-> <<>>, awaited |-> {}, outcome |-> "ok",
             started |-> FALSE, completed |-> FALSE]
Fresh    == [streamUsers |-> 0, pendingStreams |-> 0, activeScope |-> None,
             activeSession |-> None, directBusy |-> FALSE]

(* Every variable stays within its shape. *)
TypeOK == /\ req \in [Calls -> Request]
          /\ pc \in [Calls -> PC]
          /\ conn \in [Calls -> Conns \cup {None}]
          /\ scope \in [Calls -> Scope]
          /\ tail \in [Conns -> Seq(Calls)]
          /\ turns \in [Conns -> Seq(Calls)]
          /\ mark \in [Conns -> Mark]
          /\ poisoned \in SUBSET Conns
          /\ open \in [Conns -> Seq(Calls)]
          /\ idle \in SUBSET Conns

-----------------------------------------------------------------------------
IsDone(c) == pc[c] \in Settled

(* The resource of a direct database; the pooled root has none of its own. *)
Direct == CHOOSE k \in Conns : TRUE
StateOf(h) == IF h # Root THEN conn[h] ELSE IF Pooled THEN None ELSE Direct

(* Mutant of IsHealthy: assertHealthy forgotten. *)
IsHealthyUnchecked(k) == k = k

IsHealthy(k) == k \notin poisoned

(* options.transaction of a handle. *)
InTransaction(h) == h # Root /\ scope[h].txScope # None

(* Mutant of IsOpen: the markers of the resource are not looked at. *)
IsOpenUnmarked(h) == h # Root => ~scope[h].closed

(* assertOpen: the handle is not closed and is the innermost of its kind. *)
IsOpen(h) ==
    h # Root =>
        /\ ~scope[h].closed
        /\ mark[conn[h]].activeScope = scope[h].txScope
        /\ req[h].kind = "session" => mark[conn[h]].activeSession = h

(* No stream holds the resource, and none but the asking one is coming. *)
NoStream(k, stream) ==
    /\ mark[k].streamUsers = 0
    /\ mark[k].pendingStreams <= (IF stream THEN 1 ELSE 0)

(* The activity of a scope ends in the finally block of tx and session. *)
IsActive(s) == pc[s] \notin Settled \cup {"releasing"}

(* Mutants of RootAllowed: without the contexts, without the markers. *)
RootAllowedUnaware(caller, stream) == ~Pooled => NoStream(Direct, stream)
RootAllowedUnmarked(caller, stream) ==
    \A s \in caller : Conservative \/ req[s].kind = "stream" \/ ~IsActive(s)

(* assertRootAllowed, for the root handle used by code inside callbacks. *)
RootAllowed(caller, stream) ==
    /\ IF Conservative
         THEN mark[Direct].activeScope = None /\ mark[Direct].activeSession = None
         ELSE \A s \in caller : req[s].kind # "stream" => ~IsActive(s)
    /\ ~Pooled => NoStream(Direct, stream)

(* The browser's resource is taken: overlap is refused, nobody queues. *)
NeverBusy == FALSE  \* mutant of Busy
Busy == Conservative /\ mark[Direct].directBusy

(* Mutants of HasTurn and HasTail: the turn is not awaited. *)
HasTurnAtOnce(c) == c \in ToSet(turns[conn[c]])
HasTailAtOnce(c) == c \in ToSet(tail[conn[c]])

(* The queues are chains of promises: a call goes on when it is the head. *)
HasTail(c) == tail[conn[c]] # <<>> /\ Head(tail[conn[c]]) = c
HasTurn(c) == turns[conn[c]] # <<>> /\ Head(turns[conn[c]]) = c

-----------------------------------------------------------------------------
CONSTANTS
    Kinds,      \* the kinds of call the application makes
    Faults,     \* what may fail
    Rules       \* the rules of Permitted, below, the application keeps to

Fault == {"observer", "driver", "cleanup", "control", "release"}
ASSUME StatementConstants ==
    Kinds \subseteq Kind /\ Faults \subseteq Fault

IsStream(c)  == req[c].kind = "stream"
Statement(c) == req[c].kind \in {"execute", "stream"}
IsTx(c)      == req[c].kind = "tx"
IsSession(c) == req[c].kind = "session"

-----------------------------------------------------------------------------
(* The code a call is made from: the top level, or a callback or the loop   *)
(* over a stream, with every callback and loop around it.                   *)
Running(s) == pc[s] = (IF req[s].kind = "stream" THEN "suspended" ELSE "body")
Contexts == {{}} \cup {{s} \cup req[s].caller : s \in {x \in Calls : Running(x)}}

(* A handle is used by the code it was given to, even after the callback    *)
(* returned, if it left work behind; Root is visible everywhere.            *)
Given(h, caller) ==
    \/ h = Root
    \/ h \in Calls /\ req[h].kind \in {"tx", "session"}
       /\ \/ pc[h] = "body" /\ h \in caller
          \/ pc[h] \in {"drain", "tail"} /\ caller = {h} \cup req[h].caller

(* What an orderly application does not do, a rule each. Transactions of its *)
(* own at the root of a direct database may overlap: the runtime queues them.*)
Rule == {"siblings", "callbacks", "refusals", "streams"}
Orderly == Rules = Rule

Unfinished(d) == pc[d] # "unborn" /\ ~IsDone(d)
Scoping(kind) == kind \in {"tx", "session"}
RootScope(d)  == req[d].via = Root /\ ~Statement(d) /\ Unfinished(d)

(* It opens a scope on the handle of a scope beside one it opened there      *)
(* before: only a savepoint keeps the second one out.                       *)
Sibling(kind, h) ==
    /\ Scoping(kind) /\ h # Root
    /\ \E d \in Calls : Unfinished(d) /\ ~Statement(d) /\ req[d].via = h
                        /\ ~(InTransaction(h) /\ IsTx(d))

(* It opens a transaction on the root handle in the callback of a scope. *)
Reentry(kind, h, caller) ==
    ~Pooled /\ ~Conservative /\ kind = "tx" /\ h = Root
    /\ \E s \in caller : ~IsStream(s)

(* It has two scopes at the root, one of them a transaction, where one is, or *)
(* may be, refused before its turn: by an observer, or by an open stream.    *)
Refused(d) == IsTx(d) /\ pc[d] = "finalize" /\ conn[d] = None
Refusable(kind, h) ==
    /\ ~Pooled /\ ~Conservative
    /\ \/ /\ Scoping(kind) /\ h = Root
          /\ \E d \in Calls : RootScope(d) /\ "tx" \in {kind, req[d].kind}
          /\ \/ "observer" \in Faults
             \/ \E d \in Calls : Unfinished(d) /\ (IsStream(d) \/ Refused(d))
       \/ /\ kind = "stream"
          /\ \E d, e \in Calls : d # e /\ RootScope(d) /\ RootScope(e)
                                /\ IsTx(d) /\ pc[d] = "ready"

(* It opens a session on a resource that has an unfinished stream, or asks a *)
(* pool for a second lease in a loop that holds one.                        *)
BesideStream(kind, h, caller) ==
    \E d \in Calls : IsStream(d) /\ Unfinished(d) /\
        \/ kind = "session" /\ h # Root /\ req[d].via # Root
           /\ StateOf(req[d].via) = StateOf(h)
        \/ Pooled /\ h = Root /\ req[d].via = Root /\ d \in caller

Permitted(kind, h, caller) ==
    /\ "siblings"  \in Rules => ~Sibling(kind, h)
    /\ "callbacks" \in Rules => ~Reentry(kind, h, caller)
    /\ "refusals"  \in Rules => ~Refusable(kind, h)
    /\ "streams"   \in Rules => ~BesideStream(kind, h, caller)

Make(c, kind, h, caller) ==
    /\ pc[c] = "unborn" /\ kind \in Kinds
    /\ Given(h, caller) /\ Permitted(kind, h, caller)
    /\ req' = [req EXCEPT ![c] = [kind |-> kind, via |-> h, caller |-> caller]]

Goto(c, label) == pc' = [pc EXCEPT ![c] = label]
EndAs(c, ok) == Goto(c, IF ok THEN "fulfilled" ELSE "rejected")

(* The counters of a stream: pending until it has its lease, user after. *)
Admission(k, pending, users) ==
    mark' = IF k = None THEN mark
            ELSE [mark EXCEPT ![k].pendingStreams = @ + pending,
                              ![k].streamUsers = @ + users]

-----------------------------------------------------------------------------
(* execute: prepare asserts the handle is open, then observers are told. *)
Execute(c, h, caller) ==
    /\ Make(c, "execute", h, caller)
    /\ Goto(c, IF IsOpen(h) THEN "ready" ELSE "rejected")
    /\ UNCHANGED <<conn, scope, tail, turns, mark, poisoned, open, idle>>

(* stream: the first next() of the generator, which joins openStreams. *)
Stream(c, h, caller) ==
    /\ Make(c, "stream", h, caller)
    /\ IF IsOpen(h) /\ IsHealthy(StateOf(h))
         THEN /\ Goto(c, "ready")
              /\ scope' = IF h = Root THEN scope
                          ELSE [scope EXCEPT ![h].streams = Append(@, c)]
              /\ Admission(StateOf(h), 1, 0)
         ELSE /\ Goto(c, "rejected")
              /\ UNCHANGED <<scope, mark>>
    /\ UNCHANGED <<conn, tail, turns, poisoned, open, idle>>

(* openStreams.delete: the set, kept here in the order of its insertions. *)
Without(s, c) ==
    IF \E i \in 1..Len(s) : s[i] = c
      THEN RemoveAt(s, CHOOSE i \in 1..Len(s) : s[i] = c) ELSE s

(* A stream that ends leaves the openStreams of its handle. *)
LeaveStreams(c) ==
    scope' = IF IsStream(c) /\ req[c].via # Root
               THEN [scope EXCEPT ![req[c].via].streams = Without(@, c)]
               ELSE scope

(* The call fails before it has a lease. *)
Abandon(c) ==
    /\ Goto(c, "rejected")
    /\ LeaveStreams(c)
    /\ Admission(StateOf(req[c].via), IF IsStream(c) THEN -1 ELSE 0, 0)

(* The call has its lease k: the driver starts the statement. *)
Start(c, k) ==
    /\ Goto(c, "running")
    /\ conn' = [conn EXCEPT ![c] = k]
    /\ LET admitted == StateOf(req[c].via) IN
       IF ~IsStream(c) THEN UNCHANGED mark
       ELSE mark' = [r \in Conns |->
              [mark[r] EXCEPT !.pendingStreams = IF r = admitted THEN @ - 1 ELSE @,
                              !.streamUsers    = IF r = k THEN @ + 1 ELSE @]]

-----------------------------------------------------------------------------
(* leaseForUse, up to the await in which the call waits for its resource. *)
CanLease(c) ==
    LET h == req[c].via
        k == StateOf(h) IN
    /\ IsOpen(h) /\ IsHealthy(k)
    /\ IF h # Root THEN NoStream(k, IsStream(c))
       ELSE /\ RootAllowed(req[c].caller, IsStream(c))
            /\ ~Busy

Lease(c) ==
    /\ pc[c] = "ready" /\ Statement(c) /\ CanLease(c)
    /\ LET h == req[c].via
           k == StateOf(h) IN
       IF h # Root
         THEN /\ Goto(c, "queued")
              /\ conn' = [conn EXCEPT ![c] = k]
              /\ turns' = [turns EXCEPT ![k] = Append(@, c)]
              /\ UNCHANGED <<tail, mark>>
       ELSE IF Pooled
         THEN /\ Goto(c, "acquiring")
              /\ UNCHANGED <<conn, tail, turns, mark>>
       ELSE IF Conservative
         THEN /\ Goto(c, "running")
              /\ conn' = [conn EXCEPT ![c] = k]
              /\ mark' = [mark EXCEPT ![k].directBusy = TRUE,
                    ![k].pendingStreams = IF IsStream(c) THEN @ - 1 ELSE @,
                    ![k].streamUsers    = IF IsStream(c) THEN @ + 1 ELSE @]
              /\ UNCHANGED <<tail, turns>>
         ELSE /\ Goto(c, "queued")
              /\ conn' = [conn EXCEPT ![c] = k]
              /\ tail' = [tail EXCEPT ![k] = Append(@, c)]
              /\ UNCHANGED <<turns, mark>>
    /\ UNCHANGED <<req, scope, poisoned, open, idle>>

(* A check of leaseForUse refuses the call, or an observer before it does. *)
Refuse(c) ==
    /\ pc[c] = "ready" /\ Statement(c)
    /\ ~CanLease(c) \/ "observer" \in Faults
    /\ Abandon(c)
    /\ UNCHANGED <<req, conn, tail, turns, poisoned, open, idle>>

(* The turn of a scoped call comes; its handle may have closed meanwhile. *)
GrantTurn(c) ==
    /\ pc[c] = "queued" /\ Statement(c) /\ req[c].via # Root /\ HasTurn(c)
    /\ IF IsOpen(req[c].via) /\ IsHealthy(conn[c])
         THEN Start(c, conn[c]) /\ UNCHANGED <<scope, turns>>
         ELSE /\ Abandon(c)
              /\ turns' = [turns EXCEPT ![conn[c]] = Tail(@)]
              /\ UNCHANGED conn
    /\ UNCHANGED <<req, tail, poisoned, open, idle>>

(* The turn of a root call comes on the direct resource. *)
GrantTail(c) ==
    /\ pc[c] = "queued" /\ Statement(c) /\ req[c].via = Root /\ HasTail(c)
    /\ IF IsHealthy(conn[c])
         THEN Start(c, conn[c]) /\ UNCHANGED <<scope, tail>>
         ELSE /\ Abandon(c)
              /\ tail' = [tail EXCEPT ![conn[c]] = Tail(@)]
              /\ UNCHANGED conn
    /\ UNCHANGED <<req, turns, poisoned, open, idle>>

(* Mutant of Discard: the pool forgets the slot of a discarded connection. *)
DiscardSlot(c, k) ==
    /\ poisoned' = poisoned \ {k}
    /\ mark' = [mark EXCEPT ![k] = Fresh]
    /\ open' = [open EXCEPT ![k] = <<>>]
    /\ idle' = idle \ {k}
    /\ conn' = [conn EXCEPT ![c] = None]

(* lease.release(discard): the provider drops the connection, and with it   *)
(* its ScopeState and its transaction, and puts a new one in its place.     *)
Discard(c, k) ==
    /\ poisoned' = poisoned \ {k}
    /\ mark' = [mark EXCEPT ![k] = Fresh]
    /\ open' = [open EXCEPT ![k] = <<>>]
    /\ idle' = idle \cup {k}
    /\ conn' = [d \in Calls |-> IF d = c \/ (conn[d] = k /\ pc[d] = "closed")
                                THEN None ELSE conn[d]]

(* The provider hands out a lease; a poisoned one is discarded. *)
Acquire(c) ==
    /\ pc[c] = "acquiring" /\ Statement(c)
    /\ \E k \in idle :
         IF IsHealthy(k)
           THEN /\ Start(c, k)
                /\ idle' = idle \ {k}
                /\ UNCHANGED <<scope, poisoned, open>>
           ELSE /\ Goto(c, "rejected")
                /\ Discard(c, k)
                /\ UNCHANGED scope
    /\ UNCHANGED <<req, tail, turns>>

-----------------------------------------------------------------------------
(* The driver's error is a failure to clean up: the resource is poisoned. *)
DriverEnds(c, o) ==
    /\ o \in {"ok", "failed"}
    /\ \/ o = "ok" /\ UNCHANGED poisoned
       \/ o = "failed" /\ "driver" \in Faults /\ UNCHANGED poisoned
       \/ o = "failed" /\ "cleanup" \in Faults /\ poisoned' = poisoned \cup {conn[c]}

(* Mutant of GiveBack: a scoped call keeps its turn. *)
GiveBackTail(c) ==
    /\ tail' = IF req[c].via = Root /\ ~Pooled /\ ~Conservative
                 THEN [tail EXCEPT ![conn[c]] = Tail(@)] ELSE tail
    /\ UNCHANGED <<turns, mark>>

(* The call gives its place in a queue, or the browser's flag, back. *)
GiveBack(c) ==
    /\ tail' = IF req[c].via = Root /\ ~Pooled /\ ~Conservative
                 THEN [tail EXCEPT ![conn[c]] = Tail(@)] ELSE tail
    /\ turns' = IF req[c].via # Root
                 THEN [turns EXCEPT ![conn[c]] = Tail(@)] ELSE turns
    /\ mark' = IF req[c].via = Root /\ Conservative
                 THEN [mark EXCEPT ![conn[c]].directBusy = FALSE] ELSE mark

(* The driver answers an execute; its lease is released. *)
Complete(c) ==
    /\ pc[c] = "running" /\ ~IsStream(c)
    /\ \E o \in {"ok", "failed"} :
         /\ DriverEnds(c, o)
         /\ IF req[c].via = Root /\ Pooled
              THEN /\ Goto(c, "releasing")
                   /\ scope' = [scope EXCEPT ![c].outcome = o]
              ELSE EndAs(c, o = "ok") /\ UNCHANGED scope
    /\ GiveBack(c)
    /\ UNCHANGED <<req, conn, open, idle>>

(* The driver has a row: the generator yields it. *)
Yield(c) ==
    /\ pc[c] = "running" /\ IsStream(c)
    /\ Goto(c, "suspended")
    /\ UNCHANGED <<req, conn, scope, tail, turns, mark, poisoned, open, idle>>

(* The driver has no more rows, or fails. *)
Exhaust(c) ==
    /\ pc[c] = "running" /\ IsStream(c)
    /\ \E o \in {"ok", "failed"} :
         /\ DriverEnds(c, o)
         /\ scope' = [scope EXCEPT ![c].outcome = o]
    /\ Goto(c, "closing")
    /\ UNCHANGED <<req, conn, tail, turns, mark, open, idle>>

(* finish() of the stream's scope has called the generator's return(). *)
Returned(c) == LET h == req[c].via IN
    h # Root /\ scope[h].drain # <<>> /\ Head(scope[h].drain) = c

(* A loop waits for the calls in its body before it goes on. *)
LoopDone(c) == \A d \in Calls : c \in req[d].caller => IsDone(d)

(* The consumer asks for the next row. *)
Pull(c) ==
    /\ pc[c] = "suspended" /\ ~Returned(c) /\ LoopDone(c)
    /\ Goto(c, "running")
    /\ UNCHANGED <<req, conn, scope, tail, turns, mark, poisoned, open, idle>>

(* The consumer leaves its loop, or finish() does it over its head. *)
Stop(c) ==
    /\ pc[c] = "suspended" /\ (Returned(c) \/ LoopDone(c))
    /\ Goto(c, "closing")
    /\ UNCHANGED <<req, conn, scope, tail, turns, mark, poisoned, open, idle>>

(* The driver's iterator is returned, then the lease is. *)
CloseCursor(c) ==
    /\ pc[c] = "closing"
    /\ \/ UNCHANGED <<poisoned, scope>>
       \/ /\ "cleanup" \in Faults
          /\ poisoned' = poisoned \cup {conn[c]}
          /\ scope' = [scope EXCEPT ![c].outcome = "failed"]
    /\ Goto(c, IF req[c].via = Root /\ Pooled THEN "releasing" ELSE "closed")
    /\ GiveBack(c)
    /\ UNCHANGED <<req, conn, open, idle>>

(* The stream leaves the counters; its last observers are told. *)
EndStream(c) ==
    /\ pc[c] = "closed"
    /\ \E told \in {TRUE} \cup {o \in {FALSE} : "observer" \in Faults} :
         EndAs(c, told /\ scope[c].outcome = "ok")
    /\ LeaveStreams(c)
    /\ Admission(conn[c], 0, -1)
    /\ UNCHANGED <<req, conn, tail, turns, poisoned, open, idle>>

(* lease.release of a pooled root call. It may fail: the resource is then    *)
(* poisoned and the lease is still the provider's. A stream leaves the       *)
(* counters only afterwards, unless they went away with the connection.      *)
Release(c) ==
    /\ pc[c] = "releasing"
    /\ \/ /\ IsHealthy(conn[c])
          /\ idle' = idle \cup {conn[c]}
          /\ UNCHANGED <<conn, scope, mark, poisoned, open>>
       \/ /\ ~IsHealthy(conn[c])
          /\ Discard(c, conn[c])
          /\ UNCHANGED scope
       \/ /\ "release" \in Faults
          /\ idle' = idle \cup {conn[c]}
          /\ poisoned' = poisoned \cup {conn[c]}
          /\ scope' = [scope EXCEPT ![c].outcome = "failed"]
          /\ UNCHANGED <<conn, mark, open>>
    /\ IF IsStream(c) THEN Goto(c, "closed")
                      ELSE EndAs(c, scope'[c].outcome = "ok")
    /\ UNCHANGED <<req, tail, turns>>
=============================================================================
