------------------------------- MODULE Scopes -------------------------------
(***************************************************************************)
(* tx, session and finish of packages/runtime/src/index.ts: callbacks that *)
(* keep one resource, the control statements around them, and the open     *)
(* transaction each control statement finds at the database. And the       *)
(* runtime as a whole: an application makes calls on the root handle and   *)
(* on the handles its callbacks are given, and the calls run interleaved   *)
(* on the resources.                                                       *)
(***************************************************************************)
EXTENDS Statements

IsNested(c) == IsTx(c) /\ InTransaction(req[c].via)

(* The code of a callback waits for the scopes it opens before it returns. *)
Awaited(s) == \A d \in Calls :
    s \in req[d].caller /\ req[d].kind \in {"tx", "session"} => IsDone(d)

SetScope(c, s) == scope' = [scope EXCEPT ![c] = s]

(* Mutant of Finish: the handle stays open while its work is drained. *)
FinishOpen(c, outcome) ==
    /\ Goto(c, "drain")
    /\ SetScope(c, [scope[c] EXCEPT
          !.drain = scope[c].streams,
          !.outcome = IF outcome = "ok" /\ scope[c].streams # <<>>
                        THEN "unclosed" ELSE outcome])

(* finish(), and the catch of tx or session that calls it once more: the    *)
(* handle closes, and the streams it still has are returned one by one.     *)
Finish(c, outcome) ==
    /\ Goto(c, "drain")
    /\ SetScope(c, [scope[c] EXCEPT
          !.closed = TRUE, !.drain = scope[c].streams,
          !.outcome = IF outcome = "ok" /\ scope[c].streams # <<>>
                        THEN "unclosed" ELSE outcome])

-----------------------------------------------------------------------------
(* tx: the checks, the markers it saves, and the one it sets at once.       *)
Tx(c, h, caller) ==
    LET k == StateOf(h)
        root == h = Root /\ ~Pooled
        refused == \/ ~IsOpen(h) \/ ~IsHealthy(k)
                   \/ (h # Root /\ ~NoStream(k, FALSE))
                   \/ (h = Root /\ Conservative /\ ~RootAllowed(caller, FALSE))
        reserve == InTransaction(h) \/ (h = Root /\ Conservative) IN
    /\ Make(c, "tx", h, caller)
    /\ IF refused
         THEN Goto(c, "rejected") /\ UNCHANGED <<conn, scope, mark>>
         ELSE /\ Goto(c, IF InTransaction(h) THEN "announce" ELSE "ready")
              /\ conn' = IF InTransaction(h) THEN [conn EXCEPT ![c] = k] ELSE conn
              /\ SetScope(c, [NewScope EXCEPT !.txScope = c,
                    !.phase    = IF InTransaction(h) THEN "savepoint" ELSE "begin",
                    !.prev     = IF InTransaction(h) THEN mark[k].activeScope ELSE None,
                    !.rootPrev = IF root THEN mark[k].activeScope ELSE None])
              /\ mark' = IF reserve THEN [mark EXCEPT ![k].activeScope = c] ELSE mark
    /\ UNCHANGED <<tail, turns, poisoned, open, idle>>

(* acquireTransactionTurn asks for its turn only on a healthy resource. *)
TakeTurn(c, k) ==
    /\ Goto(c, "turn")
    /\ turns' = [turns EXCEPT ![k] = Append(@, c)]

(* tx has its resource k: it becomes the active scope and asks to begin. *)
Begin(c, k) ==
    /\ conn' = [conn EXCEPT ![c] = k]
    /\ IF NoStream(k, FALSE) /\ IsHealthy(k)
         THEN TakeTurn(c, k) /\ UNCHANGED scope
         ELSE Finish(c, "failed") /\ UNCHANGED turns

(* tx fails before it has a resource: only its finally block runs. *)
NoResource(c) ==
    /\ Goto(c, "finalize")
    /\ SetScope(c, [scope[c] EXCEPT !.outcome = "failed"])

(* The begin is announced; then the resource is pinned, queued for or asked. *)
MayBegin(c) ==
    LET h == req[c].via IN
    h = Root => /\ IsHealthy(StateOf(h))
                /\ IF Conservative
                     THEN /\ c \in {mark[Direct].activeScope, mark[Direct].activeSession}
                          /\ ~Busy
                     ELSE RootAllowed(req[c].caller, FALSE)

LeaseTx(c) ==
    /\ pc[c] = "ready" /\ IsTx(c) /\ MayBegin(c)
    /\ LET h == req[c].via
           k == StateOf(h) IN
       \/ /\ h # Root \/ Conservative
          /\ Begin(c, k)
          /\ mark' = [mark EXCEPT ![k].activeScope = c,
                                  ![k].directBusy = @ \/ h = Root]
          /\ UNCHANGED tail
       \/ /\ h = Root /\ Pooled
          /\ Goto(c, "acquiring")
          /\ UNCHANGED <<conn, scope, tail, turns, mark>>
       \/ /\ h = Root /\ ~Pooled /\ ~Conservative
          /\ Goto(c, "queued")
          /\ conn' = [conn EXCEPT ![c] = k]
          /\ tail' = [tail EXCEPT ![k] = Append(@, c)]
          /\ UNCHANGED <<scope, turns, mark>>
    /\ UNCHANGED <<req, poisoned, open, idle>>

RefuseTx(c) ==
    /\ pc[c] = "ready" /\ IsTx(c)
    /\ ~MayBegin(c) \/ "observer" \in Faults
    /\ NoResource(c)
    /\ UNCHANGED <<req, conn, tail, turns, mark, poisoned, open, idle>>

GrantTx(c) ==
    /\ pc[c] = "queued" /\ IsTx(c) /\ HasTail(c)
    /\ IF IsHealthy(conn[c])
         THEN /\ Begin(c, conn[c])
              /\ mark' = [mark EXCEPT ![conn[c]].activeScope = c]
              /\ UNCHANGED tail
         ELSE /\ NoResource(c)
              /\ conn' = [conn EXCEPT ![c] = None]
              /\ tail' = [tail EXCEPT ![conn[c]] = Tail(@)]
              /\ UNCHANGED <<turns, mark>>
    /\ UNCHANGED <<req, poisoned, open, idle>>

AcquireTx(c) ==
    /\ pc[c] = "acquiring" /\ IsTx(c)
    /\ \E k \in idle :
         IF IsHealthy(k)
           THEN /\ Begin(c, k)
                /\ mark' = [mark EXCEPT ![k].activeScope = c]
                /\ idle' = idle \ {k}
                /\ UNCHANGED <<poisoned, open>>
           ELSE /\ NoResource(c)
                /\ Discard(c, k)
                /\ UNCHANGED turns
    /\ UNCHANGED <<req, tail>>

-----------------------------------------------------------------------------
(* control: one control statement from its announcement to its report.      *)
Cleanup == {"rollback", "rollback-to", "discard-savepoint"}

(* What follows a control statement that did not run, or that failed. *)
ControlFails(c) ==
    IF scope[c].phase \in Cleanup
      THEN Goto(c, "finalize") /\ UNCHANGED scope
      ELSE Finish(c, "failed")

(* The "requested" observers, the stream check of a savepoint, the turn. *)
Announce(c) ==
    /\ pc[c] = "announce"
    /\ LET k == conn[c]
           allowed == /\ IsHealthy(k)
                      /\ scope[c].phase = "savepoint" => NoStream(k, FALSE) IN
       \/ /\ allowed
          /\ TakeTurn(c, k) /\ UNCHANGED scope
       \/ /\ \/ ~allowed
             \/ "observer" \in Faults /\ scope[c].phase \notin Cleanup
          /\ ControlFails(c) /\ UNCHANGED turns
    /\ UNCHANGED <<req, conn, tail, mark, poisoned, open, idle>>

(* The turn comes: the control statement goes to the driver. *)
Turn(c) ==
    /\ pc[c] = "turn" /\ HasTurn(c)
    /\ Goto(c, "driver")
    /\ UNCHANGED <<req, conn, scope, tail, turns, mark, poisoned, open, idle>>

(* What the database makes of a control statement of c, from the stack s:    *)
(* a second BEGIN joins the transaction, fails (a driver error) or commits   *)
(* it and starts another, as the database does.                              *)
Effects(c, s) ==
    LET at == CHOOSE i \in 1..Len(s) : s[i] = c IN
    CASE scope[c].phase = "begin" -> {<<c>>} \cup (IF s = <<>> THEN {} ELSE {s})
      [] scope[c].phase = "savepoint" -> {Append(s, c)}
      [] scope[c].phase \in {"commit", "rollback"} -> {<<>>}
      [] scope[c].phase \in {"release", "discard-savepoint"} ->
           {IF Contains(s, c) THEN SubSeq(s, 1, at - 1) ELSE s}
      [] scope[c].phase = "rollback-to" ->
           {IF Contains(s, c) THEN SubSeq(s, 1, at) ELSE s}

(* The driver answers a control statement. After an error nobody knows what  *)
(* the database did; the resource is poisoned.                               *)
Control(c) ==
    LET k == conn[c]
        phase == scope[c].phase IN
    /\ pc[c] = "driver"
    /\ \/ /\ \E s \in Effects(c, open[k]) : open' = [open EXCEPT ![k] = s]
          /\ SetScope(c, [scope[c] EXCEPT
                !.started   = @ \/ phase \in {"begin", "savepoint"},
                !.completed = @ \/ phase \in {"commit", "release"}])
          /\ UNCHANGED poisoned
       \/ /\ "control" \in Faults
          /\ \E s \in {open[k]} \cup Effects(c, open[k]) :
               open' = [open EXCEPT ![k] = s]
          /\ SetScope(c, [scope[c] EXCEPT !.outcome = "failed"])
          /\ poisoned' = poisoned \cup {k}
    /\ Goto(c, "announced")
    /\ turns' = [turns EXCEPT ![k] = Tail(@)]
    /\ UNCHANGED <<req, conn, tail, mark, idle>>

(* The "completed" or "failed" observers, and what comes next. *)
Announced(c) ==
    LET phase == scope[c].phase
        ok == scope[c].outcome = "ok" IN
    /\ pc[c] = "announced"
    /\ \/ /\ ok /\ phase \in {"begin", "savepoint"}
          /\ Goto(c, "body") /\ UNCHANGED scope
       \/ /\ ok /\ phase \in {"commit", "release"}
          /\ Goto(c, "finalize") /\ UNCHANGED scope
       \/ /\ ~ok \/ "observer" \in Faults
          /\ phase # "rollback-to" \/ ~IsHealthy(conn[c])
          /\ ControlFails(c)
       \/ /\ phase = "rollback-to" /\ IsHealthy(conn[c])
          /\ Goto(c, "announce")
          /\ SetScope(c, [scope[c] EXCEPT !.phase = "discard-savepoint"])
    /\ UNCHANGED <<req, conn, tail, turns, mark, poisoned, open, idle>>

-----------------------------------------------------------------------------
(* session: nested ones start at once, on the resource of their handle.     *)
OpenSession(c, k) ==
    mark' = [mark EXCEPT ![k].activeSession = c,
                         ![k].directBusy = @ \/ (Conservative /\ req'[c].via = Root)]

Session(c, h, caller) ==
    LET k == StateOf(h)
        refused == \/ ~IsOpen(h) \/ ~IsHealthy(k)
                   \/ (h = Root /\ ~RootAllowed(caller, FALSE))
                   \/ (h = Root /\ Busy)
        entered == [NewScope EXCEPT
            !.txScope  = IF InTransaction(h) THEN mark[k].activeScope ELSE None,
            !.prev     = mark[k].activeSession,
            !.rootPrev = mark[k].activeSession] IN
    /\ Make(c, "session", h, caller)
    /\ \/ /\ refused
          /\ Goto(c, "rejected") /\ UNCHANGED <<conn, scope, tail, mark>>
       \/ /\ ~refused /\ (h # Root \/ Conservative)
          /\ Goto(c, "body")
          /\ conn' = [conn EXCEPT ![c] = k]
          /\ SetScope(c, entered)
          /\ OpenSession(c, k)
          /\ UNCHANGED tail
       \/ /\ ~refused /\ h = Root /\ Pooled
          /\ Goto(c, "acquiring") /\ UNCHANGED <<conn, scope, tail, mark>>
       \/ /\ ~refused /\ h = Root /\ ~Pooled /\ ~Conservative
          /\ Goto(c, "queued")
          /\ conn' = [conn EXCEPT ![c] = k]
          /\ SetScope(c, entered)
          /\ tail' = [tail EXCEPT ![k] = Append(@, c)]
          /\ UNCHANGED mark
    /\ UNCHANGED <<turns, poisoned, open, idle>>

GrantSession(c) ==
    /\ pc[c] = "queued" /\ IsSession(c) /\ HasTail(c)
    /\ IF IsHealthy(conn[c])
         THEN /\ Goto(c, "body")
              /\ SetScope(c, [scope[c] EXCEPT !.prev = mark[conn[c]].activeSession])
              /\ OpenSession(c, conn[c])
              /\ UNCHANGED tail
         ELSE /\ Goto(c, "rejected")
              /\ tail' = [tail EXCEPT ![conn[c]] = Tail(@)]
              /\ UNCHANGED <<scope, mark>>
    /\ UNCHANGED <<req, conn, turns, poisoned, open, idle>>

AcquireSession(c) ==
    /\ pc[c] = "acquiring" /\ IsSession(c)
    /\ \E k \in idle :
         IF IsHealthy(k)
           THEN /\ Goto(c, "body")
                /\ conn' = [conn EXCEPT ![c] = k]
                /\ SetScope(c, [NewScope EXCEPT !.prev = mark[k].activeSession])
                /\ OpenSession(c, k)
                /\ idle' = idle \ {k}
                /\ UNCHANGED <<poisoned, open>>
           ELSE Goto(c, "rejected") /\ Discard(c, k) /\ UNCHANGED scope
    /\ UNCHANGED <<req, tail, turns>>

-----------------------------------------------------------------------------
(* The callback returns or throws. *)
Return(c) ==
    /\ pc[c] = "body" /\ Awaited(c)
    /\ \E outcome \in {"ok", "failed"} : Finish(c, outcome)
    /\ UNCHANGED <<req, conn, tail, turns, mark, poisoned, open, idle>>

AheadNone(k) == {}  \* mutant of Ahead: finish() does not wait

(* The queue finish() waits for: transactionTail as it stands there. *)
Ahead(k) == ToSet(turns[k])

(* finish: the streams in order, then the queue. *)
Drain(c) ==
    /\ pc[c] = "drain"
    /\ IF scope[c].drain # <<>>
         THEN /\ IsDone(Head(scope[c].drain))
              /\ SetScope(c, [scope[c] EXCEPT !.drain = Tail(@)])
              /\ UNCHANGED pc
         ELSE /\ SetScope(c, [scope[c] EXCEPT !.awaited = Ahead(conn[c])])
              /\ Goto(c, "tail")
    /\ UNCHANGED <<req, conn, tail, turns, mark, poisoned, open, idle>>

NextControl(c, phase) ==
    /\ Goto(c, "announce")
    /\ SetScope(c, [scope[c] EXCEPT !.phase = phase, !.awaited = {}])

(* Mutant of MustUndo: only whole transactions. *)
MustUndoRoot(c) ==
    IsTx(c) /\ ~IsNested(c) /\ scope[c].started /\ ~scope[c].completed
            /\ IsHealthy(conn[c])

(* A transaction that failed is rolled back where that is still possible. *)
MustUndo(c) ==
    IsTx(c) /\ scope[c].started /\ ~scope[c].completed /\ IsHealthy(conn[c])

(* After finish: an open stream, or a poisoned resource, makes tx fail; then *)
(* commit or release-savepoint, or the rollback of what was started.         *)
Finished(c) ==
    LET fails == \/ scope[c].outcome = "unclosed"
                 \/ (scope[c].outcome = "ok" /\ IsTx(c) /\ ~IsHealthy(conn[c])) IN
    /\ pc[c] = "tail" /\ scope[c].awaited \cap ToSet(turns[conn[c]]) = {}
    /\ \/ fails /\ Finish(c, "failed")
       \/ /\ ~fails /\ scope[c].outcome = "ok" /\ IsTx(c)
          /\ NextControl(c, IF IsNested(c) THEN "release" ELSE "commit")
       \/ /\ scope[c].outcome = "failed" /\ MustUndo(c)
          /\ NextControl(c, IF IsNested(c) THEN "rollback-to" ELSE "rollback")
       \/ /\ ~fails /\ ~MustUndo(c) /\ (scope[c].outcome = "failed" \/ IsSession(c))
          /\ Goto(c, "finalize") /\ UNCHANGED scope
    /\ UNCHANGED <<req, conn, tail, turns, mark, poisoned, open, idle>>

(* Mutants of Restored: no outer scope; the handle for the scope. *)
RestoredNone(c, m) == IF IsTx(c) THEN [m EXCEPT !.activeScope = None]
                                 ELSE [m EXCEPT !.activeSession = None]
RestoredHandle(c, m) == [m EXCEPT !.activeScope = req[c].via]

(* The finally block: the markers are restored, the resource given back.     *)
(* On a direct database the root's ScopeState is the resource's, and the     *)
(* markers the root call saved when it was made are written last.            *)
Restored(c, m) ==
    LET root == req[c].via = Root /\ ~Pooled IN
    IF IsTx(c)
      THEN [m EXCEPT !.activeScope = IF root THEN scope[c].rootPrev
                                     ELSE IF IsNested(c) THEN scope[c].prev ELSE None]
      ELSE [m EXCEPT !.activeSession = IF root THEN scope[c].rootPrev
                                       ELSE scope[c].prev]

Finalize(c) ==
    LET h == req[c].via
        k == IF conn[c] # None THEN conn[c] ELSE StateOf(h)
        holds == h = Root /\ conn[c] # None
        restored == IF k = None THEN Fresh ELSE Restored(c, mark[k]) IN
    /\ pc[c] = "finalize"
    /\ SetScope(c, [scope[c] EXCEPT !.closed = TRUE, !.awaited = {},
                                    !.prev = None, !.rootPrev = None])
    /\ mark' = IF k = None THEN mark
               ELSE [mark EXCEPT ![k] = IF holds /\ Conservative
                       THEN [restored EXCEPT !.directBusy = FALSE] ELSE restored]
    /\ tail' = IF holds /\ ~Pooled /\ ~Conservative
                 THEN [tail EXCEPT ![k] = Tail(@)] ELSE tail
    /\ IF holds /\ Pooled THEN Goto(c, "releasing")
                          ELSE EndAs(c, scope[c].outcome = "ok")
    /\ UNCHANGED <<req, conn, turns, poisoned, open, idle>>

-----------------------------------------------------------------------------
Init ==
    /\ req = [c \in Calls |-> Unborn]
    /\ pc = [c \in Calls |-> "unborn"]
    /\ conn = [c \in Calls |-> None]
    /\ scope = [c \in Calls |-> NewScope]
    /\ tail = [k \in Conns |-> <<>>]
    /\ turns = [k \in Conns |-> <<>>]
    /\ mark = [k \in Conns |-> Fresh]
    /\ poisoned = {}
    /\ open = [k \in Conns |-> <<>>]
    /\ idle = IF Pooled THEN Conns ELSE {}

(* The application makes a call, on a handle it has, somewhere in its code. *)
Invoke(c) ==
    \E caller \in Contexts : \E h \in {Root} \cup caller :
        Execute(c, h, caller) \/ Stream(c, h, caller)
        \/ Tx(c, h, caller) \/ Session(c, h, caller)

(* Code left behind by a callback that has returned makes a call. *)
Straggle(c) ==
    \E h \in Calls : pc[h] \in {"drain", "tail"} /\
        LET caller == {h} \cup req[h].caller IN
        Execute(c, h, caller) \/ Stream(c, h, caller)
        \/ Tx(c, h, caller) \/ Session(c, h, caller)

(* The steps of the runtime, the driver and the observers for one call. *)
Lead(c) ==
    \/ Lease(c) \/ Refuse(c) \/ GrantTurn(c) \/ GrantTail(c) \/ Acquire(c)
    \/ Complete(c) \/ CloseCursor(c) \/ EndStream(c) \/ Release(c)
    \/ LeaseTx(c) \/ RefuseTx(c) \/ GrantTx(c) \/ AcquireTx(c)
    \/ GrantSession(c) \/ AcquireSession(c)
    \/ Announce(c) \/ Turn(c) \/ Control(c) \/ Announced(c)
    \/ Drain(c) \/ Finished(c) \/ Finalize(c)

(* Every call that was made is settled. *)
Quiet == /\ \A c \in Calls : pc[c] = "unborn" \/ IsDone(c)
         /\ UNCHANGED vars

Next ==
    \/ \E c \in Calls :
         \/ Invoke(c) \/ Straggle(c) \/ Lead(c) \/ Return(c)
         \/ Yield(c) \/ Exhaust(c) \/ Pull(c) \/ Stop(c)
    \/ Quiet

Spec == Init /\ [][Next]_vars

(* The runtime's code runs on, drivers and observers answer, callbacks      *)
(* return, loops over a stream go on or are left, and rows run out.         *)
Fairness ==
    \A c \in Calls : /\ WF_vars(Lead(c)) /\ WF_vars(Return(c))
                     /\ WF_vars(Yield(c) \/ Exhaust(c)) /\ SF_vars(Exhaust(c))
                     /\ WF_vars(Pull(c) \/ Stop(c))

FairSpec == Spec /\ Fairness

-----------------------------------------------------------------------------
InDriver(c) == pc[c] \in {"running", "closing", "driver"}

(* A driver never has two of the runtime's calls on one connection at once, *)
(* whichever handles they came through: the two queues of ScopeState, the   *)
(* lease and the browser's flag together exclude each other.                *)
PhysicalExclusion ==
    \A c, d \in Calls :
        c # d /\ InDriver(c) /\ InDriver(d) => conn[c] # conn[d]

(* Scopes that own their resource, or share it with an enclosing scope. *)
Entered(c) ==
    /\ (IsTx(c) \/ IsSession(c)) /\ Unfinished(c) /\ conn[c] # None
    /\ pc[c] \notin {"ready", "queued", "acquiring", "releasing"}

HoldsTurn(c) == \/ pc[c] = "driver"
                \/ pc[c] \in {"running", "suspended", "closing"} /\ req[c].via # Root
HoldsTail(c) == /\ req[c].via = Root /\ ~Pooled /\ ~Conservative
                /\ pc[c] \in {"running", "suspended", "closing"} \/ Entered(c)

(* The call whose statement is in the driver, and the root call that owns a *)
(* direct resource, are the heads of their queues: of the calls that wait   *)
(* in one queue at most one has gone on, and it has not lost its place.     *)
Ownership ==
    \A c \in Calls : /\ HoldsTurn(c) => HasTurn(c)
                     /\ HoldsTail(c) => HasTail(c)

Innermost(k) == IF open[k] = <<>> THEN None ELSE Last(open[k])
ScopeOf(h) == IF h = Root THEN None ELSE scope[h].txScope

(* A statement runs in the transaction of the handle it was made on and in  *)
(* no other, and control statements find the stack their scope expects.     *)
InOwnTransaction ==
    \A c \in Calls : LET k == conn[c] IN
        /\ pc[c] = "running" => Innermost(k) = ScopeOf(req[c].via)
        /\ pc[c] = "driver" =>
             CASE scope[c].phase = "begin" -> open[k] = <<>>
               [] scope[c].phase = "savepoint" -> Innermost(k) = ScopeOf(req[c].via)
               [] scope[c].phase \in {"commit", "rollback"} -> open[k] = <<c>>
               [] OTHER -> Innermost(k) = c

(* A transaction is ended only when all the work queued in it is done: the  *)
(* statement that ends it is alone in the queue of its resource.            *)
EndsAlone ==
    \A c \in Calls :
        pc[c] = "driver" /\ scope[c].phase \notin {"begin", "savepoint"}
            => turns[conn[c]] = <<c>>

Unheld(k) == IF Pooled THEN k \in idle
                       ELSE tail[k] = <<>> /\ ~mark[k].directBusy

NothingLeftOpen ==
    \A k \in Conns : k \notin poisoned => \A c \in ToSet(open[k]) : ~IsDone(c)

(* A settled tx left nothing of itself open on a resource that lives on; and *)
(* a resource nobody holds is poisoned or clean: no transaction open, no    *)
(* marker, no waiting call, no stream on its way.                           *)
CleanReturn ==
    /\ NothingLeftOpen
    /\ \A k \in Conns : Unheld(k) /\ k \notin poisoned =>
        /\ open[k] = <<>> /\ turns[k] = <<>>
        /\ Pooled => /\ mark[k].activeScope = None /\ mark[k].activeSession = None
                     /\ mark[k].pendingStreams = 0

StreamCount(k) ==
    /\ mark[k].streamUsers =
         Cardinality({c \in Calls : IsStream(c) /\ conn[c] = k /\
            pc[c] \in {"running", "suspended", "closing", "releasing", "closed"}})
    /\ mark[k].pendingStreams =
         Cardinality({c \in Calls : IsStream(c) /\ StateOf(req[c].via) = k /\
            pc[c] \in {"ready", "queued", "acquiring"}})

(* Of a pool, every lease that is out has one root call to return it; and   *)
(* the counters of a resource count its streams, pending and open, by       *)
(* whichever of their many ways they end.                                  *)
OneHolder ==
    /\ Pooled => \A k \in Conns :
           Cardinality({c \in Calls : /\ req[c].via = Root /\ conn[c] = k
                                      /\ ~IsDone(c) /\ pc[c] # "closed"})
               = IF k \in idle THEN 0 ELSE 1
    /\ \A k \in Conns : StreamCount(k)

(* Nobody but the scopes around c has its resource. *)
Undisturbed(c) == \A d \in Calls :
    Entered(d) /\ conn[d] = conn[c] => d \in req[c].caller \cup {c}

(* The innermost scope of a resource is usable: while a callback runs and   *)
(* every other scope on its resource encloses it, its handle is accepted.   *)
(* Scopes that ended, and calls that were refused, put the markers back.    *)
UsableHandle ==
    \A c \in Calls :
        pc[c] = "body" /\ conn[c] \notin poisoned /\ Undisturbed(c) => IsOpen(c)

(* The same of the handles of transactions and of sessions within one.      *)
UsableInTransaction ==
    \A c \in Calls :
        pc[c] = "body" /\ conn[c] \notin poisoned /\ InTransaction(c) /\ Undisturbed(c)
            => IsOpen(c)

(* No statement of a callback gets out of its scope through the root handle.*)
NoEscape ==
    \A c \in Calls : pc[c] = "running" /\ req[c].via = Root /\ ~Conservative =>
        \A s \in req[c].caller : IsStream(s) \/ ~IsActive(s)

(* After a resource is poisoned no statement starts on it, and nothing is   *)
(* committed, released or rolled back on it.                                *)
PoisonQuarantine ==
    [][\A c \in Calls :
        \/ pc[c] \notin {"running", "suspended"} /\ pc'[c] = "running"
        \/ pc[c] = "turn" /\ pc'[c] = "driver" /\ scope[c].phase \notin {"begin", "savepoint"}
        => conn'[c] \notin poisoned]_vars

(* Every call that was made is answered. *)
Answered == \A c \in Calls : (pc[c] # "unborn") ~> IsDone(c)
=============================================================================
