---------------------------- MODULE NestingProofs ----------------------------
(***************************************************************************)
(* How the scopes of one resource lie inside one another, and what that    *)
(* makes of the transactions at its database, proved of Scopes for any     *)
(* number of calls and resources: EndsAlone, UsableInTransaction,          *)
(* UsableHandle, PoisonQuarantine, InOwnTransaction, CleanReturn.          *)
(*                                                                         *)
(* The argument. Of the scopes entered on one resource any two are one     *)
(* inside the other (Lined), the outer ones wait in their callbacks, and   *)
(* the markers of the resource name the deepest one. So a scope that ends  *)
(* ends alone: the transactions inside it are done. What a scope saved of  *)
(* the markers when it entered is what holds when it leaves, which is how  *)
(* a connection comes back with none set. From that order follows the      *)
(* other: as long as the runtime trusts what it has been told of k, the    *)
(* stack at the database is the transactions it has begun on k, the inner  *)
(* ones above the outer (Stacked).                                         *)
(*                                                                         *)
(* The theorems have the hypothesis Orderly: every rule of Permitted is    *)
(* kept where a call is made. On a direct database root scopes may overlap *)
(* and queue, and the marker a root transaction restores can be one that   *)
(* has ended (Gone): the markers are known only of a resource that is in a *)
(* transaction.                                                            *)
(* Nests(c), Steps(c), Paces(c) and Works(c) say what a step of c may do   *)
(* to the scopes, to the queue of a direct database, to the end of a scope *)
(* and to the stack; the lemmas XNests, XSteps, XPaces and XWorks show it  *)
(* of each action X, and the lemmas YKept that such a step keeps each      *)
(* conjunct Y.                                                             *)
(***************************************************************************)
EXTENDS ScopesProofs

(* The scope c is entered: it is on the resource k. *)
On(c, k)   == pc[c] \in ScopePC /\ conn[c] = k
OnTx(c, k) == On(c, k) /\ IsTx(c)
Sess(c, k) == On(c, k) /\ IsSession(c)
Alone(k)   == \A d \in Calls : ~On(d, k)

(* Every other scope, or session, on k is around c. *)
Deepest(c, k)  == On(c, k) /\ \A d \in Calls : On(d, k) => d = c \/ d \in req[c].caller
SDeepest(c, k) == Sess(c, k) /\ \A d \in Calls : Sess(d, k) => d = c \/ d \in req[c].caller

-----------------------------------------------------------------------------
(* Scopes on one resource are one inside the other; the outer ones are in   *)
(* their callbacks,                                                         *)
Lined(c, k) ==
    On(c, k) => \A d \in Calls : On(d, k) =>
        /\ d = c \/ d \in req[c].caller \/ c \in req[d].caller
        /\ d \in req[c].caller => pc[d] = "body"

(* none is between a scope and that of its handle, *)
Between(c, k) ==
    On(c, k) => \A d \in req[c].caller : On(d, k) =>
        /\ req[c].via # Root
        /\ d = req[c].via \/ d \in req[req[c].via].caller

(* and on every one but the deepest another one was opened. *)
Heir(c, k) ==
    On(c, k) => \A d \in req[c].caller : On(d, k) =>
        \E e \in {c} \cup req[c].caller : On(e, k) /\ req[e].via = d

(* The transaction of a scope is the last one around it. *)
Inside(c, k) ==
    On(c, k) =>
        /\ \A d \in {c} \cup req[c].caller : OnTx(d, k) =>
              \/ scope[c].txScope = d
              \/ scope[c].txScope # None /\ d \in req[scope[c].txScope].caller
        /\ scope[c].txScope # None =>
              scope[c].txScope \in {c} \cup req[c].caller /\ OnTx(scope[c].txScope, k)

(* On a direct database with its queue a root transaction restores the       *)
(* marker it found when it was called: one that was active then may have     *)
(* ended since. And on a poisoned one nobody asks the markers.               *)
Loose      == ~Pooled /\ ~Conservative
Gone(m)    == Loose /\ m \in Calls /\ IsDone(m)
Tainted(k) == Loose /\ k \in poisoned

(* The markers are the transaction of the deepest scope, which is inside of *)
(* every other one of the resource, and the deepest session; where it is in *)
(* none, the marker may be one that has ended.                              *)
Marked(c, k) ==
    /\ Deepest(c, k) /\ ~Tainted(k) =>
          \/ mark[k].activeScope = scope[c].txScope
          \/ scope[c].txScope = None /\ Gone(mark[k].activeScope)
    /\ OnTx(c, k) /\ ~Tainted(k) =>
          \/ mark[k].activeScope = c
          \/ mark[k].activeScope # None /\ c \in req[mark[k].activeScope].caller
    /\ SDeepest(c, k) => mark[k].activeSession = c
    /\ Sess(c, k) => mark[k].activeSession # None

(* The markers c has saved are those of the scope around it. *)
Saved(c, k) ==
    /\ On(c, k) /\ IsNested(c) => scope[c].prev = ScopeOf(req[c].via)
    /\ Sess(c, k) => \A q \in req[c].caller : Sess(q, k) =>
          /\ scope[c].prev # None
          /\ (\A d \in req[c].caller : Sess(d, k) => d = q \/ d \in req[q].caller)
               => scope[c].prev = q
    /\ Pooled /\ Sess(c, k) /\ (\A q \in req[c].caller : ~Sess(q, k)) => scope[c].prev = None

(* In a browser a transaction sets the marker before it has the resource. *)
Reserved(c) ==
    /\ Conservative /\ IsTx(c) /\ req[c].via = Root
    /\ pc[c] = "ready" \/ (pc[c] = "finalize" /\ conn[c] = None)

Booked(c) == Reserved(c) => mark[Direct].activeScope = c /\ Alone(Direct)

(* Nobody is on the resource: its markers are those of a new one, or name    *)
(* what has ended.                                                          *)
Vacant(k) ==
    /\ mark[k].activeScope # None => pc[mark[k].activeScope] # "unborn"
    /\ Alone(k) /\ ~Loose => \/ mark[k].activeScope = None
                             \/ k = Direct /\ Reserved(mark[k].activeScope)
    /\ Pooled /\ (\A c \in Calls : ~Sess(c, k)) => mark[k].activeSession = None
    /\ Loose /\ ~Tainted(k) => \/ mark[k].activeScope = None
                               \/ Gone(mark[k].activeScope)
                               \/ OnTx(mark[k].activeScope, k)

(* What the closure of a scope keeps. *)
Keeps(c) ==
    /\ Unfinished(c) /\ IsTx(c) => scope[c].txScope = c
    /\ IsSession(c) /\ pc[c] \in ScopePC \cup {"queued"} =>
          scope[c].txScope = ScopeOf(req[c].via)
    /\ Unfinished(c) /\ IsTx(c) /\ req[c].via = Root /\ Conservative => scope[c].rootPrev = None
    /\ Unfinished(c) /\ IsNested(c) => pc[c] \in ScopePC /\ conn[c] = conn[req[c].via]
    /\ ~Statement(c) /\ pc[c] = "queued" => req[c].via = Root
    /\ IsSession(c) /\ pc[c] = "finalize" => conn[c] # None

(* Two unfinished scopes of one handle: only at the root. *)
Single(c) ==
    Unfinished(c) /\ ~Statement(c) =>
        \A d \in Calls : Unfinished(d) /\ ~Statement(d) /\ req[d].via = req[c].via /\ d # c
                            => req[c].via = Root

(* What a root transaction found in the marker has ended when it begins, *)
RootTx(c) == Loose /\ RootScope(c) /\ IsTx(c)
Remembers(c) ==
    RootTx(c) =>
        /\ conn[c] \in {None, Direct}
        /\ \/ scope[c].rootPrev = None
           \/ Gone(scope[c].rootPrev)
           \/ ~On(c, Direct) /\ On(scope[c].rootPrev, Direct)

(* and it is refused before it begins only where it is by itself.           *)
Only(c)   == \A d \in Calls : RootScope(d) => d = c
Peaceful  == "observer" \notin Faults /\ \A d \in Calls : Unfinished(d) => ~IsStream(d)
Sure(c) ==
    RootTx(c) =>
        /\ pc[c] = "ready" => (\A s \in req[c].caller : IsStream(s)) /\ (Only(c) \/ Peaceful)
        /\ Refused(c) /\ IsHealthy(Direct) => Only(c)

Placed(c, k) == /\ Lined(c, k) /\ Between(c, k) /\ Heir(c, k)
                /\ Inside(c, k) /\ Marked(c, k) /\ Saved(c, k)
Ordered(c)   == Booked(c) /\ Keeps(c) /\ Single(c) /\ Remembers(c) /\ Sure(c)

NInv == /\ JInv
        /\ \A c \in Calls, k \in Conns : Placed(c, k)
        /\ \A c \in Calls : Ordered(c)
        /\ \A k \in Conns : Vacant(k)

-----------------------------------------------------------------------------
(* What a step of c does to the scopes. Those of other calls stay, but for   *)
(* their streams.                                                           *)
Spares(c) == \A d \in Calls \ {c} : scope'[d] = [scope[d] EXCEPT !.streams = scope'[d].streams]

SameMarks(k) == /\ mark'[k].activeScope = mark[k].activeScope
                /\ mark'[k].activeSession = mark[k].activeSession

(* c is on k as it was, *)
Stands(c, k) == /\ On(c, k)' <=> On(c, k)
                /\ On(c, k) => scope'[c].prev = scope[c].prev
                /\ SameMarks(k)

(* or k is replaced by a new resource, *)
Drops(c, k) == Pooled /\ Alone(k) /\ ~On(c, k)' /\ mark'[k] = Fresh

(* or it is entered, in the deepest scope or when there is none, *)
Enters(c, k) ==
    /\ pc[c] \notin ScopePC /\ On(c, k)'
    /\ IF req'[c].via = Root
         THEN /\ Alone(k)
              /\ Conservative => Reserved(c) \/ mark[k].activeScope = None
         ELSE Deepest(req'[c].via, k)
    /\ IsTx(c)' => mark'[k].activeScope = c /\ mark'[k].activeSession = mark[k].activeSession
    /\ IsSession(c)' => /\ mark'[k].activeScope = mark[k].activeScope
                        /\ mark'[k].activeSession = c
                        /\ scope'[c].prev = mark[k].activeSession
    /\ IsNested(c)' => scope'[c].prev = ScopeOf(req'[c].via)

(* or left at the end of its finally block; *)
Leaves(c, k) ==
    /\ On(c, k) /\ ~On(c, k)' /\ pc[c] = "finalize" /\ (Loose => IsDone(c)')
    /\ IF ~IsTx(c) THEN mark'[k].activeScope = mark[k].activeScope
       ELSE IF IsNested(c) THEN mark'[k].activeScope = scope[c].prev
       ELSE mark'[k].activeScope = None \/ Gone(mark'[k].activeScope)
    /\ IsTx(c) => mark'[k].activeSession = mark[k].activeSession
    /\ ~IsTx(c) /\ (req[c].via # Root \/ Pooled) => mark'[k].activeSession = scope[c].prev

(* in a browser the marker is set, and given back, by a call that waits.    *)
Reserves(c, k) == /\ k = Direct /\ Alone(k) /\ ~On(c, k)' /\ ~Reserved(c) /\ Reserved(c)'
                  /\ mark[k].activeScope = None /\ mark'[k].activeScope = c
Frees(c, k)    == /\ k = Direct /\ Alone(k) /\ ~On(c, k)' /\ Reserved(c) /\ ~Reserved(c)'
                  /\ mark'[k].activeScope = None

(* A call that was refused restores the marker of a resource it never had.   *)
Overwrites(c, k) ==
    /\ Loose /\ ~On(c, k) /\ ~On(c, k)'
    /\ mark'[k].activeSession = mark[k].activeSession
    /\ mark'[k].activeScope # None =>
          mark'[k].activeScope \in Calls /\ pc[mark'[k].activeScope] # "unborn"
    /\ ~Tainted(k) => /\ \A d \in Calls : ~OnTx(d, k)
                      /\ mark'[k].activeScope = None \/ Gone(mark'[k].activeScope)

Shifts(c, k) == \/ Stands(c, k) \/ Drops(c, k) \/ Enters(c, k) \/ Leaves(c, k)
                \/ Reserves(c, k) \/ Frees(c, k) \/ Overwrites(c, k)

Nests(c) ==
    /\ Spares(c)
    /\ pc[c] \in ScopePC => scope'[c].txScope = scope[c].txScope
    /\ Keeps(c)'
    /\ Reserved(c) => Reserved(c)' \/ Frees(c, Direct) \/ Enters(c, Direct)
    /\ Reserved(c)' => Reserved(c) \/ Reserves(c, Direct)
    /\ pc[c] = "unborn" /\ Unfinished(c)' /\ ~Statement(c)' =>
         \A d \in Calls \ {c} :
            Unfinished(d) /\ ~Statement(d) /\ req[d].via = req'[c].via => req'[c].via = Root
    /\ \A k \in Conns : Shifts(c, k)

(* What it does on a direct database with its queue. *)
Steps(c) ==
    /\ Loose => poisoned \subseteq poisoned'
    /\ pc[c] = "unborn" =>
          /\ Permitted(req'[c].kind, req'[c].via, req'[c].caller)
          /\ pc'[c] # "finalize"
          /\ RootTx(c)' => /\ IsHealthy(Direct) /\ conn'[c] = None
                           /\ scope'[c].rootPrev = mark[Direct].activeScope
    /\ pc[c] # "unborn" /\ Loose =>
          /\ pc'[c] # "ready"
          /\ RootTx(c) /\ RootTx(c)' =>
                /\ conn'[c] \in {conn[c], None, Direct}
                /\ scope'[c].rootPrev = scope[c].rootPrev
                /\ Refused(c)' => \/ Refused(c) \/ ~IsHealthy(Direct)
                                  \/ pc[c] = "ready" /\ (~MayBegin(c) \/ "observer" \in Faults)
-----------------------------------------------------------------------------
(* A scope that is entered. *)
LEMMA OnFacts ==
  ASSUME JInv, NEW c \in Calls, NEW k \in Conns, On(c, k)
  PROVE  /\ pc[c] # "unborn" /\ ~IsDone(c) /\ Unfinished(c) /\ ~Statement(c)
         /\ IsTx(c) \/ IsSession(c)
         /\ req[c].caller \in SUBSET Calls /\ c \notin req[c].caller
         /\ \A s \in req[c].caller : pc[s] # "unborn" /\ req[s].caller \subseteq req[c].caller
         /\ req[c].via # Root =>
              /\ req[c].via \in Calls /\ req[c].via \in req[c].caller
              /\ pc[req[c].via] = "body" /\ On(req[c].via, k)
<1>0. TypeOK /\ Local(c) /\ Handles(c) /\ Whole(c) BY DEF JInv, IInv
<1>1. pc[c] # "unborn" /\ ~IsDone(c) /\ Unfinished(c) /\ ~Statement(c)
  BY <1>0 DEF On, ScopePC, IsDone, Settled, Unfinished, Local
<1>2. IsTx(c) \/ IsSession(c)
  BY <1>0, <1>1 DEF TypeOK, Request, Kind, Statement, IsTx, IsSession
<1>3. req[c].caller \in SUBSET Calls /\ req[c].via \in Calls \cup {Root}
  BY <1>0 DEF TypeOK, Request
<1>4. /\ c \notin req[c].caller
      /\ \A s \in req[c].caller : pc[s] # "unborn" /\ req[s].caller \subseteq req[c].caller
  BY <1>0, <1>1 DEF Whole, Kin, Around
<1>5. ASSUME req[c].via # Root
      PROVE  /\ req[c].via \in Calls /\ req[c].via \in req[c].caller
             /\ pc[req[c].via] = "body" /\ On(req[c].via, k)
  <2>1. pc[req[c].via] = "body" /\ req[c].via \in req[c].caller
    BY <1>0, <1>1, <1>5 DEF Handles
  <2>2. conn[c] = k /\ k # None BY ScopeConstants DEF On
  <2>3. conn[c] = conn[req[c].via]
    BY <1>0, <1>5, <2>1, <2>2 DEF Whole, Share, On, ScopePC, Settled
  <2> QED BY <1>3, <1>5, <2>1, <2>2, <2>3 DEF On, ScopePC
<1> QED BY <1>1, <1>2, <1>3, <1>4, <1>5

(* What stays of a call d in a step of another one. *)
Rests(d) ==
    /\ req'[d] = req[d] /\ pc'[d] = pc[d]
    /\ \A k \in Conns : On(d, k)' <=> On(d, k)
    /\ scope'[d].txScope = scope[d].txScope /\ scope'[d].prev = scope[d].prev
    /\ scope'[d].rootPrev = scope[d].rootPrev /\ scope'[d].closed = scope[d].closed
    /\ scope'[d].phase = scope[d].phase /\ scope'[d].outcome = scope[d].outcome
    /\ scope'[d].started = scope[d].started /\ scope'[d].completed = scope[d].completed
    /\ scope'[d].awaited = scope[d].awaited

LEMMA OthersRest ==
  ASSUME JInv, NEW c \in Calls, Advance(c), Frame(c), Spares(c), NEW d \in Calls, d # c
  PROVE  Rests(d)
<1>0. /\ TypeOK /\ req'[d] = req[d] /\ pc'[d] = pc[d]
      /\ conn'[d] = conn[d] \/ pc[d] = "closed"
  BY StepFacts
<1>1. \A k \in Conns : On(d, k)' <=> On(d, k) BY <1>0 DEF On, ScopePC
<1>2. scope[d] \in Scope /\ scope'[d] = [scope[d] EXCEPT !.streams = scope'[d].streams]
  BY <1>0 DEF Spares, TypeOK
<1>3. PICK s : scope'[d] = [scope[d] EXCEPT !.streams = s] BY <1>2
<1>4. /\ scope'[d].txScope = scope[d].txScope /\ scope'[d].prev = scope[d].prev
      /\ scope'[d].rootPrev = scope[d].rootPrev /\ scope'[d].closed = scope[d].closed
      /\ scope'[d].phase = scope[d].phase /\ scope'[d].outcome = scope[d].outcome
      /\ scope'[d].started = scope[d].started /\ scope'[d].completed = scope[d].completed
      /\ scope'[d].awaited = scope[d].awaited
  BY <1>2, <1>3 DEF Scope
<1> QED BY <1>0, <1>1, <1>4 DEF Rests

(* Where c enters k, every scope of k is around it. *)
LEMMA EnterPlace ==
  ASSUME NInv, NEW c \in Calls, Advance(c), Frame(c), Nests(c), NEW k \in Conns,
         Enters(c, k), NEW x \in Calls, On(x, k)
  PROVE  /\ x # c /\ x \in req'[c].caller /\ c \notin req[x].caller /\ pc[x] = "body"
         /\ req'[c].via # Root /\ req'[c].via \in Calls /\ Deepest(req'[c].via, k)
         /\ x = req'[c].via \/ x \in req[req'[c].via].caller
<1>0. JInv BY DEF NInv
<1>1. x # c BY DEF Enters, On
<1>2. req'[c].via # Root BY DEF Enters, Alone
<1>3. PICK h : h = req'[c].via OBVIOUS
<1>4. /\ h \in Calls /\ h \in req'[c].caller /\ c \notin req'[c].caller
      /\ pc'[h] = "body"
      /\ \A s \in req'[c].caller : (req[s].caller)' \subseteq req'[c].caller
  <2>1. /\ TypeOK' /\ Handles(c)' /\ Kin(c)' /\ Local(c)'
    BY <1>0, StepFacts, KinKept
  <2>2. pc'[c] \in ScopePC BY DEF Enters, On
  <2>3. /\ pc'[c] # "unborn" /\ ~IsDone(c)' /\ ~Statement(c)'
    BY <2>1, <2>2 DEF ScopePC, IsDone, Settled, Local
  <2>4. h \in Calls BY <1>2, <1>3, <2>1 DEF TypeOK, Request
  <2>5. pc'[h] = "body" /\ h \in req'[c].caller
    BY <1>2, <1>3, <2>1, <2>3 DEF Handles
  <2>6. /\ c \notin req'[c].caller
        /\ \A s \in req'[c].caller : (req[s].caller)' \subseteq req'[c].caller
    BY <2>1, <2>3 DEF Kin, Around
  <2> QED BY <2>4, <2>5, <2>6
<1>5. h # c BY <1>4
<1>6. Deepest(h, k) BY <1>2, <1>3 DEF Enters
<1>7. req'[h] = req[h] /\ pc'[h] = pc[h] BY <1>0, <1>4, <1>5, StepFacts
<1>8. x = h \/ x \in req[h].caller BY <1>6 DEF Deepest
<1>9. req[h].caller \subseteq req'[c].caller BY <1>4, <1>7
<1>10. x \in req'[c].caller BY <1>4, <1>8, <1>9
<1>11. On(h, k) /\ req[x].caller \subseteq req[h].caller
  <2>1. On(h, k) BY <1>6 DEF Deepest
  <2> QED BY <1>0, <1>4, <1>8, <2>1, OnFacts
<1>12. c \notin req[x].caller BY <1>4, <1>9, <1>11
<1>13. pc[x] = "body"
  <2>1. Lined(h, k) BY <1>4 DEF NInv, Placed
  <2> QED BY <1>4, <1>7, <1>8, <1>11, <2>1 DEF Lined
<1> QED BY <1>1, <1>2, <1>3, <1>4, <1>6, <1>8, <1>10, <1>12, <1>13

(* A scope that is not in its callback has every other one around it. *)
LEMMA LastPlace ==
  ASSUME NInv, NEW c \in Calls, NEW k \in Conns, On(c, k), pc[c] # "body"
  PROVE  /\ Deepest(c, k)
         /\ \A x \in Calls : On(x, k) /\ x # c =>
              /\ x \in req[c].caller /\ c \notin req[x].caller /\ pc[x] = "body"
              /\ req[c].via # Root /\ req[c].via \in Calls
              /\ x = req[c].via \/ x \in req[req[c].via].caller
<1>0. JInv /\ Lined(c, k) /\ Between(c, k) BY DEF NInv, Placed
<1>1. ASSUME NEW x \in Calls, On(x, k), x # c
      PROVE  /\ x \in req[c].caller /\ c \notin req[x].caller /\ pc[x] = "body"
             /\ req[c].via # Root /\ req[c].via \in Calls
             /\ x = req[c].via \/ x \in req[req[c].via].caller
  <2>1. Lined(x, k) BY DEF NInv, Placed
  <2>2. c \notin req[x].caller BY <1>1, <2>1 DEF Lined
  <2>3. x \in req[c].caller /\ pc[x] = "body" BY <1>0, <1>1, <2>2 DEF Lined
  <2>4. /\ req[c].via # Root
        /\ x = req[c].via \/ x \in req[req[c].via].caller
    BY <1>0, <1>1, <2>3 DEF Between
  <2> QED BY <1>0, <2>2, <2>3, <2>4, OnFacts
<1> QED BY <1>1 DEF Deepest
(* When c neither enters nor leaves k, the scopes of k are the same. *)
LEMMA CalmPlace ==
  ASSUME NInv, NEW c \in Calls, Advance(c), Frame(c), Nests(c), NEW k \in Conns,
         ~Enters(c, k), ~Leaves(c, k), NEW x \in Calls
  PROVE  /\ On(x, k)' <=> On(x, k)
         /\ On(x, k) => /\ scope'[x].txScope = scope[x].txScope
                        /\ scope'[x].prev = scope[x].prev
<1>0. JInv BY DEF NInv
<1>1. CASE x # c
  <2>1. Rests(x) BY <1>0, <1>1, OthersRest DEF Nests
  <2> QED BY <2>1 DEF Rests
<1>2. CASE x = c
  <2>1. \/ Stands(c, k) \/ Drops(c, k) \/ Reserves(c, k) \/ Frees(c, k)
        \/ Overwrites(c, k)
    BY DEF Nests, Shifts
  <2>2. On(c, k)' <=> On(c, k)
    BY <2>1 DEF Stands, Drops, Reserves, Frees, Overwrites, Alone
  <2>3. On(c, k) => scope'[c].prev = scope[c].prev
    BY <2>1 DEF Stands, Drops, Reserves, Frees, Overwrites, Alone
  <2>4. On(c, k) => scope'[c].txScope = scope[c].txScope BY DEF Nests, On
  <2> QED BY <1>2, <2>2, <2>3, <2>4
<1> QED BY <1>1, <1>2

(* The request of a call that was made, and the scopes c does not move. *)
LEMMA SamePlace ==
  ASSUME NInv, NEW c \in Calls, Advance(c), Frame(c), Nests(c), NEW k \in Conns,
         NEW x \in Calls, x # c \/ (~Enters(c, k) /\ ~Leaves(c, k))
  PROVE  /\ On(x, k)' <=> On(x, k)
         /\ On(x, k) => /\ scope'[x].txScope = scope[x].txScope
                        /\ scope'[x].prev = scope[x].prev
<1>1. CASE x # c
  <2>1. Rests(x) BY <1>1, OthersRest DEF Nests, NInv
  <2> QED BY <2>1 DEF Rests
<1>2. CASE ~Enters(c, k) /\ ~Leaves(c, k) BY <1>2, CalmPlace
<1> QED BY <1>1, <1>2

LEMMA SameRequest ==
  ASSUME NInv, NEW c \in Calls, Advance(c), Frame(c), Nests(c),
         NEW x \in Calls, pc[x] # "unborn"
  PROVE  req'[x] = req[x] /\ pc'[x] # "unborn"
  BY StepFacts DEF NInv

(* What has ended has ended, and a resource stays poisoned. *)
LEMMA GoneStays ==
  ASSUME NInv, NEW c \in Calls, Advance(c), Frame(c), NEW m, Gone(m)
  PROVE  Gone(m)' /\ m \in Calls /\ m # None /\ pc[m] # "unborn" /\ pc'[m] # "unborn"
<1>1. m \in Calls /\ IsDone(m) /\ m # c /\ m # None
  BY ScopeConstants DEF Gone, Frame, Kindred
<1>2. pc'[m] = pc[m] BY <1>1, StepFacts DEF NInv
<1> QED BY <1>1, <1>2 DEF Gone, Loose, IsDone, Settled

LEMMA Sound ==
  ASSUME NEW c, Steps(c), NEW k, ~Tainted(k)'
  PROVE  ~Tainted(k)
  BY DEF Steps, Tainted, Loose

LEMMA LinedKept ==
  ASSUME NInv, NEW c \in Calls, Advance(c), Frame(c), Nests(c), NEW k \in Conns,
         NEW x \in Calls
  PROVE  Lined(x, k)'
<1> SUFFICES ASSUME On(x, k)', NEW d \in Calls, On(d, k)'
             PROVE  /\ d = x \/ d \in req'[x].caller \/ x \in req'[d].caller
                    /\ d \in req'[x].caller => pc'[d] = "body"
  BY DEF Lined
<1>0. JInv /\ (\A y \in Calls : Lined(y, k)) BY DEF NInv, Placed
<1>1. ASSUME On(x, k), On(d, k)
      PROVE  /\ d = x \/ d \in req'[x].caller \/ x \in req'[d].caller
             /\ d \in req'[x].caller => pc'[d] = "body"
  <2>1. /\ pc[x] # "unborn" /\ ~IsDone(x) /\ ~Statement(x) /\ pc[d] # "unborn"
    BY <1>0, <1>1, OnFacts
  <2>2. req'[x] = req[x] /\ req'[d] = req[d] BY <2>1, SameRequest
  <2>3. /\ d = x \/ d \in req[x].caller \/ x \in req[d].caller
        /\ d \in req[x].caller => pc[d] = "body"
    BY <1>0, <1>1 DEF Lined
  <2>4. d \in req[x].caller => pc'[d] = "body" BY <1>0, <2>1, <2>3, BodyStays
  <2> QED BY <2>2, <2>3, <2>4
<1>2. CASE ~Enters(c, k)
  <2>1. (Leaves(c, k) => ~On(c, k)') BY DEF Leaves
  <2>2. On(x, k) /\ On(d, k)
    <3>1. CASE Leaves(c, k) BY <2>1, <3>1, SamePlace
    <3>2. CASE ~Leaves(c, k) BY <1>2, <3>2, SamePlace
    <3> QED BY <3>1, <3>2
  <2> QED BY <1>1, <2>2
<1>3. CASE Enters(c, k)
  <2>1. \A y \in Calls : y # c => (On(y, k)' <=> On(y, k)) BY SamePlace
  <2>2. CASE x # c /\ d # c BY <1>1, <2>1, <2>2
  <2>3. CASE x = c /\ d = c
    <3>1. c \notin req'[c].caller
      <4>1. Kin(c)' /\ pc'[c] # "unborn" BY <1>0, KinKept DEF Enters, On, ScopePC, Frame, Kindred
      <4> QED BY <4>1 DEF Kin
    <3> QED BY <2>3, <3>1
  <2>4. CASE x = c /\ d # c
    <3>1. d \in req'[c].caller /\ pc[d] = "body" BY <1>3, <2>1, <2>4, EnterPlace
    <3>2. pc'[d] = pc[d] BY <1>0, <2>4, StepFacts
    <3> QED BY <2>4, <3>1, <3>2
  <2>5. CASE x # c /\ d = c
    <3>1. On(x, k) BY <2>1, <2>5
    <3>2. x \in req'[c].caller /\ c \notin req[x].caller BY <1>3, <3>1, EnterPlace
    <3>3. req'[x] = req[x] BY <1>0, <2>5, StepFacts
    <3> QED BY <2>5, <3>2, <3>3
  <2> QED BY <2>2, <2>3, <2>4, <2>5
<1> QED BY <1>2, <1>3

(* Once entered, c has around it on k only what was there before. *)
LEMMA Entered1 ==
  ASSUME NInv, NEW c \in Calls, Advance(c), Frame(c), Nests(c), NEW k \in Conns,
         Enters(c, k), NEW d \in req'[c].caller, On(d, k)'
  PROVE  /\ d \in Calls /\ d # c /\ On(d, k) /\ pc[d] # "unborn" /\ req'[d] = req[d]
         /\ req'[c].via # Root /\ req'[c].via \in Calls /\ Deepest(req'[c].via, k)
         /\ d = req'[c].via \/ d \in req[req'[c].via].caller
         /\ pc[req'[c].via] # "unborn" /\ req'[c].via # c
         /\ req'[req'[c].via] = req[req'[c].via]
<1>0. JInv BY DEF NInv
<1>1. TypeOK' /\ Kin(c)' /\ pc'[c] # "unborn"
  BY <1>0, StepFacts, KinKept DEF Enters, On, ScopePC
<1>2. d \in Calls /\ d # c BY <1>1 DEF TypeOK, Request, Kin
<1>3. On(d, k) BY <1>2, SamePlace
<1>4. /\ req'[c].via # Root /\ req'[c].via \in Calls /\ Deepest(req'[c].via, k)
      /\ d = req'[c].via \/ d \in req[req'[c].via].caller
  BY <1>2, <1>3, EnterPlace
<1>5. pc[d] # "unborn" /\ req'[d] = req[d] BY <1>0, <1>2, <1>3, OnFacts, StepFacts
<1>6. On(req'[c].via, k) BY <1>4 DEF Deepest
<1>7. pc[req'[c].via] # "unborn" /\ req'[c].via # c
  BY <1>0, <1>4, <1>6, OnFacts DEF Enters, On
<1>8. req'[req'[c].via] = req[req'[c].via] BY <1>4, <1>7, SameRequest
<1> QED BY <1>2, <1>3, <1>4, <1>5, <1>7, <1>8

LEMMA BetweenKept ==
  ASSUME NInv, NEW c \in Calls, Advance(c), Frame(c), Nests(c), NEW k \in Conns,
         NEW x \in Calls
  PROVE  Between(x, k)'
<1> SUFFICES ASSUME On(x, k)', NEW d \in req'[x].caller, On(d, k)'
             PROVE  /\ req'[x].via # Root
                    /\ d = req'[x].via \/ d \in req'[req'[x].via].caller
  BY DEF Between
<1>0. JInv /\ TypeOK' BY StepFacts DEF NInv
<1>1. d \in Calls BY <1>0 DEF TypeOK, Request
<1>2. ASSUME On(x, k), On(d, k)
      PROVE  /\ req'[x].via # Root
             /\ d = req'[x].via \/ d \in req'[req'[x].via].caller
  <2>1. pc[x] # "unborn" /\ Between(x, k) BY <1>0, <1>2, OnFacts DEF NInv, Placed
  <2>2. req'[x] = req[x] BY <2>1, SameRequest
  <2>3. /\ req[x].via # Root
        /\ d = req[x].via \/ d \in req[req[x].via].caller
    BY <1>2, <2>1, <2>2 DEF Between
  <2>4. req[x].via \in Calls /\ pc[req[x].via] = "body" BY <1>0, <1>2, <2>3, OnFacts
  <2>5. req'[req[x].via] = req[req[x].via] BY <2>4, SameRequest
  <2> QED BY <2>2, <2>3, <2>5
<1>3. CASE ~Enters(c, k)
  <2>1. On(x, k) /\ On(d, k)
    <3>1. CASE Leaves(c, k) BY <1>1, <3>1, SamePlace DEF Leaves
    <3>2. CASE ~Leaves(c, k) BY <1>1, <1>3, <3>2, SamePlace
    <3> QED BY <3>1, <3>2
  <2> QED BY <1>2, <2>1
<1>4. CASE Enters(c, k) /\ x = c
  BY <1>4, Entered1
<1>5. CASE Enters(c, k) /\ x # c
  <2>1. On(x, k) BY <1>5, SamePlace
  <2>2. c \notin req[x].caller /\ req'[x] = req[x]
    BY <1>0, <1>5, <2>1, EnterPlace, StepFacts
  <2>3. On(d, k) BY <1>1, <2>2, SamePlace
  <2> QED BY <1>2, <2>1, <2>3
<1> QED BY <1>3, <1>4, <1>5

LEMMA HeirKept ==
  ASSUME NInv, NEW c \in Calls, Advance(c), Frame(c), Nests(c), NEW k \in Conns,
         NEW x \in Calls
  PROVE  Heir(x, k)'
<1> SUFFICES ASSUME On(x, k)', NEW d \in req'[x].caller, On(d, k)'
             PROVE  \E e \in {x} \cup req'[x].caller : On(e, k)' /\ req'[e].via = d
  BY DEF Heir
<1>0. JInv /\ TypeOK /\ TypeOK' BY StepFacts DEF NInv
<1>1. d \in Calls BY <1>0 DEF TypeOK, Request
<1>2. ASSUME NEW y \in Calls, On(y, k), On(d, k), d \in req[y].caller, c \notin req[y].caller,
             y # c \/ (~Enters(c, k) /\ ~Leaves(c, k))
      PROVE  \E e \in {y} \cup req[y].caller : On(e, k)' /\ req'[e].via = d
  <2>1. Heir(y, k) BY DEF NInv, Placed
  <2>2. PICK e \in {y} \cup req[y].caller : On(e, k) /\ req[e].via = d
    BY <1>2, <2>1 DEF Heir
  <2>3. e \in Calls BY <1>0 DEF TypeOK, Request
  <2>4. pc[e] # "unborn" BY <1>0, <2>2, <2>3, OnFacts
  <2>5. req'[e] = req[e] BY <2>3, <2>4, SameRequest
  <2>6. On(e, k)' BY <1>2, <2>2, <2>3, SamePlace
  <2> QED BY <2>2, <2>5, <2>6
<1>3. CASE ~Enters(c, k) /\ ~Leaves(c, k)
  <2>1. On(x, k) /\ On(d, k) BY <1>1, <1>3, SamePlace
  <2>2. Heir(x, k) /\ pc[x] # "unborn" BY <1>0, <2>1, OnFacts DEF NInv, Placed
  <2>3. req'[x] = req[x] BY <2>2, SameRequest
  <2>4. PICK e \in {x} \cup req[x].caller : On(e, k) /\ req[e].via = d
    BY <2>1, <2>2, <2>3 DEF Heir
  <2>5. e \in Calls BY <1>0 DEF TypeOK, Request
  <2>6. pc[e] # "unborn" BY <1>0, <2>4, <2>5, OnFacts
  <2>7. req'[e] = req[e] /\ On(e, k)' BY <1>3, <2>4, <2>5, <2>6, SameRequest, SamePlace
  <2> QED BY <2>3, <2>4, <2>7
<1>4. CASE Enters(c, k) /\ x = c
  <2>1. /\ On(d, k) /\ Deepest(req'[c].via, k) /\ req'[c].via \in Calls
        /\ d = req'[c].via \/ d \in req[req'[c].via].caller
        /\ req'[c].via # c
    BY <1>4, Entered1
  <2>2. CASE d = req'[c].via BY <1>4, <2>2
  <2>3. CASE d # req'[c].via
    <3>1. On(req'[c].via, k) BY <2>1 DEF Deepest
    <3>2. c \notin req[req'[c].via].caller /\ req'[c].via \in req'[c].caller
      BY <1>4, <2>1, <3>1, EnterPlace
    <3>3. PICK e \in {req'[c].via} \cup req[req'[c].via].caller : On(e, k)' /\ req'[e].via = d
      BY <1>2, <2>1, <2>3, <3>1, <3>2
    <3>4. req[req'[c].via].caller \subseteq req'[c].caller
      <4>1. Kin(c)' /\ pc'[c] # "unborn" /\ req'[req'[c].via] = req[req'[c].via]
        BY <1>0, <1>4, KinKept, Entered1 DEF Enters, On, ScopePC
      <4> QED BY <3>2, <4>1 DEF Kin, Around
    <3> QED BY <1>4, <3>2, <3>3, <3>4
  <2> QED BY <2>2, <2>3
<1>5. CASE (Enters(c, k) \/ Leaves(c, k)) /\ x # c
  <2>1. On(x, k) BY <1>5, SamePlace
  <2>2. req'[x] = req[x] BY <1>0, <1>5, StepFacts
  <2>3. c \notin req[x].caller
    <3>1. CASE Enters(c, k) BY <2>1, <3>1, EnterPlace
    <3>2. CASE Leaves(c, k)
      <4>1. On(c, k) /\ pc[c] # "body" BY <3>2 DEF Leaves
      <4> QED BY <1>5, <2>1, <4>1, LastPlace
    <3> QED BY <1>5, <3>1, <3>2
  <2>4. On(d, k) BY <1>1, <2>2, <2>3, SamePlace
  <2> QED BY <1>2, <1>5, <2>1, <2>2, <2>3, <2>4
<1>6. CASE Leaves(c, k) /\ x = c BY <1>6 DEF Leaves
<1> QED BY <1>3, <1>4, <1>5, <1>6
LEMMA SameTx ==
  ASSUME NInv, NEW c \in Calls, Advance(c), Frame(c), Nests(c), NEW k \in Conns,
         NEW x \in Calls, x # c \/ (~Enters(c, k) /\ ~Leaves(c, k))
  PROVE  /\ OnTx(x, k)' <=> OnTx(x, k)
         /\ Sess(x, k)' <=> Sess(x, k)
         /\ On(x, k) => req'[x] = req[x] /\ pc[x] # "unborn"
<1>1. On(x, k)' <=> On(x, k) BY SamePlace
<1>2. On(x, k) => pc[x] # "unborn" BY OnFacts DEF NInv
<1>3. On(x, k) => req'[x] = req[x] BY <1>2, SameRequest
<1> QED BY <1>1, <1>2, <1>3 DEF OnTx, Sess, IsTx, IsSession

(* c is not in the code around another scope where it enters or leaves. *)
LEMMA NotAround ==
  ASSUME NInv, NEW c \in Calls, Advance(c), Frame(c), Nests(c), NEW k \in Conns,
         Enters(c, k) \/ Leaves(c, k), NEW x \in Calls, x # c, On(x, k)
  PROVE  c \notin req[x].caller
<1>1. CASE Enters(c, k) BY <1>1, EnterPlace
<1>2. CASE Leaves(c, k)
  <2>1. On(c, k) /\ pc[c] # "body" BY <1>2 DEF Leaves
  <2> QED BY <2>1, LastPlace
<1> QED BY <1>1, <1>2

(* What was said of the scopes around x, and goes on. *)
LEMMA InsideStays ==
  ASSUME NInv, NEW c \in Calls, Advance(c), Frame(c), Nests(c), NEW k \in Conns,
         NEW x \in Calls, On(x, k), x # c \/ (~Enters(c, k) /\ ~Leaves(c, k)),
         NEW d \in {x} \cup req[x].caller
  PROVE  /\ d \in Calls /\ (OnTx(d, k)' <=> OnTx(d, k))
         /\ OnTx(d, k) => \/ scope[x].txScope = d
                          \/ scope[x].txScope # None /\ d \in req[scope[x].txScope].caller
<1>1. JInv /\ Inside(x, k) BY DEF NInv, Placed
<1>2. d \in Calls BY <1>1, OnFacts
<1>3. d # c \/ (~Enters(c, k) /\ ~Leaves(c, k)) BY NotAround
<1>4. OnTx(d, k)' <=> OnTx(d, k) BY <1>2, <1>3, SameTx
<1> QED BY <1>1, <1>2, <1>4 DEF Inside

LEMMA TxScopeStays ==
  ASSUME NInv, NEW c \in Calls, Advance(c), Frame(c), Nests(c), NEW k \in Conns,
         NEW x \in Calls, On(x, k), x # c \/ (~Enters(c, k) /\ ~Leaves(c, k)),
         scope[x].txScope # None
  PROVE  \E t \in {x} \cup req[x].caller :
           /\ t = scope[x].txScope /\ t \in Calls /\ OnTx(t, k) /\ OnTx(t, k)'
           /\ req'[t] = req[t] /\ pc[t] # "unborn"
<1>1. JInv /\ Inside(x, k) BY DEF NInv, Placed
<1>2. /\ scope[x].txScope \in {x} \cup req[x].caller /\ OnTx(scope[x].txScope, k)
  BY <1>1 DEF Inside
<1>3. PICK t \in {x} \cup req[x].caller : t = scope[x].txScope BY <1>2
<1>4. t \in Calls /\ OnTx(t, k)' BY <1>2, <1>3, InsideStays
<1>5. pc[t] # "unborn" BY <1>1, <1>2, <1>3, <1>4, OnFacts DEF OnTx
<1>6. req'[t] = req[t] BY <1>4, <1>5, SameRequest
<1> QED BY <1>2, <1>3, <1>4, <1>5, <1>6

LEMMA InsideKept ==
  ASSUME NInv, NEW c \in Calls, Advance(c), Frame(c), Nests(c), NEW k \in Conns,
         NEW x \in Calls
  PROVE  Inside(x, k)'
<1> SUFFICES ASSUME On(x, k)'
             PROVE  /\ \A d \in {x} \cup req'[x].caller : OnTx(d, k)' =>
                          \/ scope'[x].txScope = d
                          \/ /\ scope'[x].txScope # None
                             /\ d \in req'[scope'[x].txScope].caller
                    /\ scope'[x].txScope # None =>
                          \E t \in {x} \cup req'[x].caller :
                             t = scope'[x].txScope /\ OnTx(t, k)'
  BY DEF Inside
<1>0. JInv BY DEF NInv
<1>1. CASE x # c \/ (~Enters(c, k) /\ ~Leaves(c, k))
  <2>1. On(x, k) BY <1>1, SamePlace
  <2>2. req'[x] = req[x] /\ scope'[x].txScope = scope[x].txScope
    BY <1>1, <2>1, SamePlace, SameTx
  <2>3. ASSUME NEW d \in {x} \cup req[x].caller, OnTx(d, k)'
        PROVE  \/ scope[x].txScope = d
               \/ scope[x].txScope # None /\ d \in req'[scope[x].txScope].caller
    <3>1. \/ scope[x].txScope = d
          \/ scope[x].txScope # None /\ d \in req[scope[x].txScope].caller
      BY <1>1, <2>1, <2>3, InsideStays
    <3> QED BY <1>1, <2>1, <3>1, TxScopeStays
  <2>4. scope[x].txScope # None =>
          \E t \in {x} \cup req[x].caller : t = scope[x].txScope /\ OnTx(t, k)'
    BY <1>1, <2>1, TxScopeStays
  <2> QED BY <2>2, <2>3, <2>4
<1>2. CASE x = c /\ Leaves(c, k) BY <1>2 DEF Leaves
<1>3. CASE x = c /\ Enters(c, k) /\ IsTx(c)'
  <2>1. Unfinished(c)' BY <1>3 DEF Unfinished, IsDone, Settled, On, ScopePC
  <2>2. scope'[c].txScope = c BY <1>3, <2>1 DEF Nests, Keeps
  <2> QED BY <1>3, <2>2, ScopeConstants DEF OnTx
<1>4. CASE x = c /\ Enters(c, k) /\ ~IsTx(c)'
  <2>0. TypeOK' /\ Local(c)' /\ Kin(c)' /\ pc'[c] # "unborn"
    BY <1>0, <1>4, StepFacts, KinKept DEF On, ScopePC
  <2>1. IsSession(c)'
    BY <1>4, <2>0 DEF Local, On, TypeOK, Request, Kind, Statement, IsTx, IsSession
  <2>2. scope'[c].txScope = ScopeOf(req[c].via)' BY <1>4, <2>1 DEF Nests, Keeps, On
  <2>3. CASE req'[c].via = Root
    <3>1. scope'[c].txScope = None BY <2>2, <2>3 DEF ScopeOf
    <3>2. \A d \in req'[c].caller : ~On(d, k)' BY <1>4, <2>3, Entered1
    <3> QED BY <1>4, <3>1, <3>2 DEF OnTx
  <2>4. CASE req'[c].via # Root
    <3>1. PICK h : h = req'[c].via OBVIOUS
    <3>2. h \in Calls /\ h # c /\ On(h, k) /\ h \in req'[c].caller
      <4>1. h \in Calls BY <2>0, <2>4, <3>1 DEF TypeOK, Request
      <4>2. On(h, k) BY <1>4, <2>4, <3>1 DEF Enters, Deepest
      <4> QED BY <1>4, <3>1, <4>1, <4>2, EnterPlace
    <3>3. scope'[c].txScope = scope[h].txScope
      BY <2>2, <2>4, <3>1, <3>2, SamePlace DEF ScopeOf
    <3>4. req[h].caller \subseteq req'[c].caller
      <4>1. req'[h] = req[h] BY <3>2, SameTx
      <4> QED BY <2>0, <3>2, <4>1 DEF Kin, Around
    <3>5. scope[h].txScope # None =>
            \E t \in {c} \cup req'[c].caller : t = scope[h].txScope /\ OnTx(t, k)'
      BY <3>2, <3>4, TxScopeStays
    <3>6. ASSUME NEW d \in {c} \cup req'[c].caller, OnTx(d, k)'
          PROVE  \/ scope[h].txScope = d
                 \/ scope[h].txScope # None /\ d \in req'[scope[h].txScope].caller
      <4>1. d # c /\ On(d, k)' BY <1>4, <3>6 DEF OnTx
      <4>2. d \in {h} \cup req[h].caller BY <1>4, <3>1, <3>6, <4>1, Entered1
      <4>3. \/ scope[h].txScope = d
            \/ scope[h].txScope # None /\ d \in req[scope[h].txScope].caller
        BY <3>2, <3>6, <4>2, InsideStays
      <4> QED BY <3>2, <4>3, TxScopeStays
    <3> QED BY <1>4, <3>3, <3>5, <3>6
  <2> QED BY <2>3, <2>4
<1> QED BY <1>1, <1>2, <1>3, <1>4

LEMMA SavedKept ==
  ASSUME NInv, NEW c \in Calls, Advance(c), Frame(c), Nests(c), NEW k \in Conns,
         NEW x \in Calls
  PROVE  Saved(x, k)'
<1>0. JInv BY DEF NInv
<1>1. CASE ~On(x, k)' BY <1>1 DEF Saved, Sess
<1>2. CASE On(x, k)' /\ (x # c \/ (~Enters(c, k) /\ ~Leaves(c, k)))
  <2>1. On(x, k) BY <1>2, SamePlace
  <2>2. /\ req'[x] = req[x] /\ scope'[x].prev = scope[x].prev
        /\ Sess(x, k)' <=> Sess(x, k)
    BY <1>2, <2>1, SamePlace, SameTx
  <2>3. ASSUME NEW q \in req[x].caller PROVE Sess(q, k)' <=> Sess(q, k)
    <3>1. q \in Calls BY <1>0, <2>1, OnFacts
    <3>2. q # c \/ (~Enters(c, k) /\ ~Leaves(c, k)) BY <1>2, <2>1, NotAround
    <3> QED BY <3>1, <3>2, SameTx
  <2>4. ASSUME NEW q \in req[x].caller, Sess(q, k) PROVE req'[q] = req[q]
    <3>1. q \in Calls BY <1>0, <2>1, OnFacts
    <3>2. pc[q] # "unborn" BY <1>0, <2>4, <3>1, OnFacts DEF Sess
    <3> QED BY <3>1, <3>2, SameRequest
  <2>5. Saved(x, k) BY DEF NInv, Placed
  <2>6. (IsNested(x)' <=> IsNested(x)) /\ ScopeOf(req[x].via)' = ScopeOf(req[x].via)
    <3>1. CASE req[x].via = Root
      BY <2>2, <3>1 DEF IsNested, IsTx, InTransaction, ScopeOf
    <3>2. CASE req[x].via # Root
      <4>1. /\ req[x].via \in Calls /\ req[x].via \in req[x].caller /\ On(req[x].via, k)
        BY <1>0, <2>1, <3>2, OnFacts
      <4>2. req[x].via # c \/ (~Enters(c, k) /\ ~Leaves(c, k))
        BY <1>2, <2>1, <4>1, NotAround
      <4>3. scope'[req[x].via].txScope = scope[req[x].via].txScope
        BY <4>1, <4>2, SamePlace
      <4> QED BY <2>2, <3>2, <4>3 DEF IsNested, IsTx, InTransaction, ScopeOf
    <3> QED BY <3>1, <3>2
  <2>7. (On(x, k) /\ IsNested(x) => scope[x].prev = ScopeOf(req[x].via))'
    BY <2>1, <2>2, <2>5, <2>6 DEF Saved
  <2>8. ASSUME Sess(x, k), NEW q \in req[x].caller, Sess(q, k)
        PROVE  /\ scope[x].prev # None
               /\ (\A d \in req[x].caller : Sess(d, k)' => d = q \/ d \in req'[q].caller)
                     => scope[x].prev = q
    BY <2>3, <2>4, <2>5, <2>8 DEF Saved
  <2>9. Pooled /\ Sess(x, k) /\ (\A q \in req[x].caller : ~Sess(q, k)') => scope[x].prev = None
    BY <2>3, <2>5 DEF Saved
  <2> QED BY <2>2, <2>3, <2>7, <2>8, <2>9 DEF Saved
<1>3. CASE On(x, k)' /\ x = c /\ Leaves(c, k) BY <1>3 DEF Leaves
<1>4. CASE On(x, k)' /\ x = c /\ Enters(c, k)
  <2>0. TypeOK' /\ Kin(c)' /\ pc'[c] # "unborn" /\ pc[c] \notin ScopePC
    BY <1>0, <1>4, StepFacts, KinKept DEF On, ScopePC, Enters
  <2>1. (On(c, k) /\ IsNested(c) => scope[c].prev = ScopeOf(req[c].via))'
    <3>1. ASSUME IsNested(c)' PROVE scope'[c].prev = ScopeOf(req[c].via)'
      <4>1. scope'[c].prev = ScopeOf(req'[c].via) BY <1>4, <3>1 DEF Enters
      <4>2. req'[c].via # Root BY <3>1 DEF IsNested, InTransaction
      <4>3. On(req'[c].via, k) BY <1>4, <4>2 DEF Enters, Deepest
      <4>4. req'[c].via \in Calls /\ req'[c].via # c
        BY <2>0, <4>2, <4>3 DEF TypeOK, Request, On
      <4>5. scope'[req'[c].via].txScope = scope[req'[c].via].txScope
        BY <4>3, <4>4, SamePlace
      <4> QED BY <4>1, <4>5 DEF ScopeOf
    <3> QED BY <3>1
  <2>2. ASSUME Sess(c, k)' PROVE scope'[c].prev = mark[k].activeSession
    BY <1>4, <2>2 DEF Enters, Sess
  <2>3. ASSUME Sess(c, k)', NEW q \in req'[c].caller, Sess(q, k)'
        PROVE  /\ scope'[c].prev # None
               /\ (\A d \in req'[c].caller : Sess(d, k)' => d = q \/ d \in req'[q].caller)
                     => scope'[c].prev = q
    <3>1. q \in Calls /\ q # c /\ On(q, k) /\ req'[q] = req[q]
      BY <1>4, <2>3, Entered1 DEF Sess
    <3>2. Sess(q, k) /\ Marked(q, k) BY <2>3, <3>1, SameTx DEF NInv, Placed
    <3>3. ASSUME \A d \in req'[c].caller : Sess(d, k)' => d = q \/ d \in req'[q].caller
          PROVE  SDeepest(q, k)
      <4>1. ASSUME NEW d \in Calls, Sess(d, k) PROVE d = q \/ d \in req[q].caller
        <5>1. d \in req'[c].caller /\ d # c BY <1>4, <4>1, EnterPlace DEF Sess
        <5>2. Sess(d, k)' BY <4>1, <5>1, SameTx
        <5> QED BY <3>1, <3>3, <5>1, <5>2
      <4> QED BY <3>2, <4>1 DEF SDeepest
    <3> QED BY <2>2, <2>3, <3>2, <3>3 DEF Marked
  <2>4. ASSUME Pooled, Sess(c, k)', \A q \in req'[c].caller : ~Sess(q, k)'
        PROVE  scope'[c].prev = None
    <3>1. ASSUME NEW d \in Calls PROVE ~Sess(d, k)
      <4>1. SUFFICES ASSUME Sess(d, k) PROVE FALSE OBVIOUS
      <4>2. d \in req'[c].caller /\ d # c BY <1>4, <4>1, EnterPlace DEF Sess
      <4>3. Sess(d, k)' BY <4>1, <4>2, SameTx
      <4> QED BY <2>4, <4>2, <4>3
    <3>2. Vacant(k) BY DEF NInv
    <3> QED BY <2>2, <2>4, <3>1, <3>2 DEF Vacant
  <2> QED BY <1>4, <2>1, <2>3, <2>4 DEF Saved
<1> QED BY <1>1, <1>2, <1>3, <1>4
(* Where c leaves k, the scope of its handle is the deepest one, *)
LEMMA LeavePlace ==
  ASSUME NInv, NEW c \in Calls, Advance(c), Frame(c), Nests(c), NEW k \in Conns,
         Leaves(c, k), NEW x \in Calls, On(x, k), x # c
  PROVE  \E h \in Calls : /\ h = req[c].via /\ h # Root /\ h # c /\ On(h, k)
                          /\ (x = h \/ x \in req[h].caller)
                          /\ x \in req[c].caller
<1>0. JInv BY DEF NInv
<1>1. On(c, k) /\ pc[c] # "body" BY DEF Leaves
<1>2. PICK h : h = req[c].via OBVIOUS
<1>3. /\ h # Root /\ h \in Calls /\ (x = h \/ x \in req[h].caller)
      /\ x \in req[c].caller
  BY <1>1, <1>2, LastPlace
<1>4. On(h, k) /\ h # c BY <1>0, <1>1, <1>2, <1>3, OnFacts
<1> QED BY <1>2, <1>3, <1>4

(* and its transaction is the marker again. *)
LEMMA LeaveMark ==
  ASSUME NInv, NEW c \in Calls, Advance(c), Frame(c), Nests(c), NEW k \in Conns,
         Leaves(c, k), ~Tainted(k), NEW h \in Calls, h = req[c].via, h # Root
  PROVE  \/ mark'[k].activeScope = scope[h].txScope
         \/ scope[h].txScope = None /\ Gone(mark'[k].activeScope)
<1>0. JInv /\ Saved(c, k) /\ Marked(c, k) /\ Keeps(c) BY DEF NInv, Placed, Ordered
<1>1. On(c, k) /\ pc[c] # "body" BY DEF Leaves
<1>2. Deepest(c, k) BY <1>1, LastPlace
<1>3. CASE IsTx(c) /\ IsNested(c)
  BY <1>0, <1>1, <1>3 DEF Saved, Leaves, ScopeOf
<1>4. CASE IsTx(c) /\ ~IsNested(c)
  <2>1. scope[h].txScope = None BY <1>4 DEF IsNested, InTransaction
  <2> QED BY <1>4, <2>1 DEF Leaves
<1>5. CASE ~IsTx(c)
  <2>1. IsSession(c) BY <1>0, <1>1, <1>5, OnFacts
  <2>2. scope[c].txScope = scope[h].txScope
    BY <1>0, <1>1, <2>1 DEF Keeps, On, ScopeOf
  <2> QED BY <1>0, <1>2, <1>5, <2>2 DEF Marked, Leaves
<1> QED BY <1>3, <1>4, <1>5

LEMMA MarkedLeft ==
  ASSUME NInv, NEW c \in Calls, Advance(c), Frame(c), Nests(c), Steps(c), NEW k \in Conns,
         Leaves(c, k), NEW x \in Calls, x # c, On(x, k)
  PROVE  Marked(x, k)'
<1>0. JInv /\ Saved(c, k) /\ Marked(x, k) BY DEF NInv, Placed
<1>1. PICK h \in Calls : /\ h = req[c].via /\ h # Root /\ h # c /\ On(h, k)
                         /\ (x = h \/ x \in req[h].caller)
                         /\ x \in req[c].caller
  BY LeavePlace
<1>2. /\ \A y \in Calls : y # c => /\ (On(y, k)' <=> On(y, k)) /\ (OnTx(y, k)' <=> OnTx(y, k))
                                   /\ (Sess(y, k)' <=> Sess(y, k))
      /\ req'[x] = req[x] /\ scope'[x].txScope = scope[x].txScope
      /\ On(c, k) /\ ~On(c, k)'
  BY SamePlace, SameTx DEF Leaves
<1>m. PICK a : a = mark'[k].activeScope OBVIOUS
<1>n. ~Tainted(k)' => a = scope[h].txScope \/ (scope[h].txScope = None /\ Gone(a))
  BY <1>1, <1>m, Sound, LeaveMark
<1>3. ASSUME Deepest(x, k)', ~Tainted(k)'
      PROVE  a = scope'[x].txScope \/ (scope'[x].txScope = None /\ Gone(a)')
  <2>1. h = x \/ h \in req[x].caller BY <1>1, <1>2, <1>3 DEF Deepest
  <2>2. h \notin req[h].caller /\ (x \in req[h].caller => req[x].caller \subseteq req[h].caller)
    BY <1>0, <1>1, OnFacts
  <2>3. x = h BY <1>1, <2>1, <2>2
  <2> QED BY <1>2, <1>3, <1>n, <2>3, GoneStays
<1>4. ASSUME OnTx(x, k)', ~Tainted(k)'
      PROVE  a = x \/ (a # None /\ x \in req'[a].caller)
  <2>1. \/ scope[h].txScope = x
        \/ scope[h].txScope # None /\ x \in req[scope[h].txScope].caller
    BY <1>1, <1>2, <1>4, InsideStays
  <2>2. scope[h].txScope # None BY <2>1, ScopeConstants
  <2> QED BY <1>1, <1>4, <1>n, <2>1, <2>2, TxScopeStays
<1>5. CASE IsTx(c)
  <2>1. mark'[k].activeSession = mark[k].activeSession /\ ~Sess(c, k)
    BY <1>5 DEF Leaves, Sess, IsTx, IsSession
  <2>2. ASSUME SDeepest(x, k)' PROVE mark'[k].activeSession = x
    <3>1. Sess(x, k) /\ \A d \in Calls : Sess(d, k) => d = x \/ d \in req[x].caller
      BY <1>2, <2>1, <2>2 DEF SDeepest
    <3> QED BY <1>0, <2>1, <3>1 DEF Marked, SDeepest
  <2>3. ASSUME Sess(x, k)' PROVE mark'[k].activeSession # None
    BY <1>0, <1>2, <2>1, <2>3 DEF Marked
  <2> QED BY <1>m, <1>3, <1>4, <2>2, <2>3 DEF Marked
<1>6. CASE ~IsTx(c)
  <2>1. Sess(c, k) BY <1>0, <1>2, <1>6, OnFacts DEF Sess
  <2>2. mark'[k].activeSession = scope[c].prev BY <1>1, <1>6 DEF Leaves
  <2>3. ASSUME SDeepest(x, k)' PROVE mark'[k].activeSession = x
    <3>1. Sess(x, k) BY <1>2, <2>3 DEF SDeepest
    <3>2. ASSUME NEW d \in req[c].caller, Sess(d, k) PROVE d = x \/ d \in req[x].caller
      <4>1. d \in Calls /\ d # c BY <1>0, <1>2, OnFacts
      <4> QED BY <1>2, <2>3, <3>2, <4>1 DEF SDeepest
    <3> QED BY <1>0, <1>1, <2>1, <2>2, <3>1, <3>2 DEF Saved
  <2>4. ASSUME Sess(x, k)' PROVE mark'[k].activeSession # None
    BY <1>0, <1>1, <1>2, <2>1, <2>2, <2>4 DEF Saved
  <2> QED BY <1>m, <1>3, <1>4, <2>3, <2>4 DEF Marked
<1> QED BY <1>5, <1>6

LEMMA MarkedEntered ==
  ASSUME NInv, NEW c \in Calls, Advance(c), Frame(c), Nests(c), Steps(c), NEW k \in Conns,
         Enters(c, k), NEW x \in Calls, On(x, k)'
  PROVE  Marked(x, k)'
<1>0. JInv /\ Vacant(k) /\ (\A y \in Calls : Marked(y, k)) BY DEF NInv, Placed
<1>1. /\ \A y \in Calls : y # c => /\ (On(y, k)' <=> On(y, k)) /\ (OnTx(y, k)' <=> OnTx(y, k))
                                   /\ (Sess(y, k)' <=> Sess(y, k))
      /\ On(c, k)' /\ ~On(c, k)
  BY SamePlace, SameTx DEF Enters, On
<1>2. ASSUME x # c
      PROVE  On(x, k) /\ req'[x] = req[x] /\ c \notin req'[x].caller /\ x \in req'[c].caller
  <2>1. On(x, k) /\ req'[x] = req[x] BY <1>1, <1>2, SameTx
  <2> QED BY <2>1, EnterPlace
<1>3. Deepest(x, k)' => x = c BY <1>1, <1>2 DEF Deepest
<1>4. TypeOK' /\ Local(c)' /\ pc'[c] \in ScopePC /\ c # None
  BY <1>0, <1>1, StepFacts, ScopeConstants DEF On
<1>5. CASE IsTx(c)'
  <2>1. mark'[k].activeScope = c /\ mark'[k].activeSession = mark[k].activeSession
    BY <1>5 DEF Enters
  <2>2. ASSUME Deepest(x, k)' PROVE mark'[k].activeScope = scope'[x].txScope
    <3>1. Unfinished(c)' BY <1>4 DEF Unfinished, IsDone, Settled, ScopePC
    <3>2. scope'[c].txScope = c BY <1>5, <3>1 DEF Nests, Keeps
    <3> QED BY <1>3, <2>1, <2>2, <3>2
  <2>3. ASSUME OnTx(x, k)'
        PROVE  \/ mark'[k].activeScope = x
               \/ mark'[k].activeScope # None /\ x \in req'[mark'[k].activeScope].caller
    BY <1>2, <1>4, <2>1
  <2>4. Sess(c, k)' => FALSE BY <1>5 DEF Sess, IsTx, IsSession
  <2>5. ASSUME SDeepest(x, k)' PROVE mark'[k].activeSession = x
    <3>1. x # c BY <2>4, <2>5 DEF SDeepest
    <3>2. SDeepest(x, k) BY <1>1, <1>2, <2>5, <3>1 DEF SDeepest, Sess
    <3> QED BY <1>0, <2>1, <3>2 DEF Marked
  <2>6. ASSUME Sess(x, k)' PROVE mark'[k].activeSession # None
    <3>1. x # c BY <2>4, <2>6
    <3> QED BY <1>0, <1>1, <2>1, <2>6, <3>1 DEF Marked
  <2> QED BY <2>2, <2>3, <2>5, <2>6 DEF Marked
<1>6. CASE ~IsTx(c)'
  <2>0. IsSession(c)' BY <1>4, <1>6 DEF Local, TypeOK, Request, Kind, Statement, IsTx, IsSession
  <2>1. mark'[k].activeScope = mark[k].activeScope /\ mark'[k].activeSession = c
    BY <2>0 DEF Enters
  <2>a. PICK a : a = mark[k].activeScope OBVIOUS
  <2>2. ASSUME Deepest(x, k)', ~Tainted(k)'
        PROVE  a = scope'[x].txScope \/ (scope'[x].txScope = None /\ Gone(a)')
    <3>0. ~Tainted(k) BY <2>2, Sound
    <3>1. scope'[c].txScope = ScopeOf(req[c].via)' BY <1>4, <2>0 DEF Nests, Keeps
    <3>2. CASE req'[c].via = Root
      <4>1. Alone(k) /\ (Conservative => Reserved(c) \/ a = None)
        BY <2>a, <3>2 DEF Enters
      <4>2. ~Reserved(c)
        <5>1. SUFFICES ASSUME Reserved(c) PROVE FALSE OBVIOUS
        <5>2. IsTx(c) /\ pc[c] # "unborn" BY <5>1 DEF Reserved
        <5>3. req'[c] = req[c] BY <5>2, SameRequest
        <5> QED BY <1>6, <5>2, <5>3 DEF IsTx
      <4>3. CASE ~Loose
        <5>1. a = None BY <1>0, <2>a, <4>1, <4>2, <4>3 DEF Vacant, Reserved
        <5> QED BY <1>3, <2>2, <3>1, <3>2, <5>1 DEF ScopeOf
      <4>4. CASE Loose
        <5>1. a \in Calls \cup {None} BY <1>0, <2>a, StepFacts DEF TypeOK, Mark
        <5>2. a = None \/ Gone(a) BY <1>0, <2>a, <3>0, <4>1, <4>4, <5>1 DEF Vacant, OnTx, Alone
        <5>3. Gone(a) => Gone(a)' BY GoneStays
        <5> QED BY <1>3, <2>2, <3>1, <3>2, <5>2, <5>3 DEF ScopeOf
      <4> QED BY <4>3, <4>4
    <3>3. CASE req'[c].via # Root
      <4>1. PICK h : h = req'[c].via OBVIOUS
      <4>2. h \in Calls /\ Deepest(h, k) /\ h # c
        <5>1. h \in Calls BY <1>4, <3>3, <4>1 DEF TypeOK, Request
        <5>2. Deepest(h, k) BY <3>3, <4>1 DEF Enters
        <5> QED BY <1>1, <5>1, <5>2 DEF Deepest
      <4>3. a = scope[h].txScope \/ (scope[h].txScope = None /\ Gone(a))
        BY <1>0, <2>a, <3>0, <4>2 DEF Marked
      <4>4. scope'[h].txScope = scope[h].txScope BY <4>2, SamePlace DEF Deepest
      <4>5. Gone(a) => Gone(a)' BY GoneStays
      <4> QED BY <1>3, <2>2, <3>1, <3>3, <4>1, <4>3, <4>4, <4>5 DEF ScopeOf
    <3> QED BY <3>2, <3>3
  <2>3. ASSUME OnTx(x, k)', ~Tainted(k)'
        PROVE  a = x \/ (a # None /\ x \in req'[a].caller)
    <3>0. ~Tainted(k) BY <2>3, Sound
    <3>1. x # c /\ OnTx(x, k) BY <1>1, <1>6, <2>3 DEF OnTx
    <3>3. a = x \/ (a # None /\ x \in req[a].caller) BY <1>0, <2>a, <3>0, <3>1 DEF Marked
    <3>4. a # None => req'[a] = req[a]
      <4>1. a \in Calls \cup {None} BY <1>0, <2>a, StepFacts DEF TypeOK, Mark
      <4>2. a # None => pc[a] # "unborn" BY <1>0, <2>a DEF Vacant
      <4> QED BY <4>1, <4>2, SameRequest
    <3> QED BY <3>3, <3>4
  <2>4. ASSUME SDeepest(x, k)' PROVE mark'[k].activeSession = x
    <3>1. Sess(c, k)' BY <1>1, <2>0 DEF Sess
    <3>2. c = x \/ c \in req'[x].caller BY <2>4, <3>1 DEF SDeepest
    <3> QED BY <1>2, <2>1, <3>2
  <2> QED BY <1>4, <2>1, <2>a, <2>2, <2>3, <2>4 DEF Marked
<1> QED BY <1>5, <1>6

LEMMA MarkedKept ==
  ASSUME NInv, NEW c \in Calls, Advance(c), Frame(c), Nests(c), Steps(c), NEW k \in Conns,
         NEW x \in Calls
  PROVE  Marked(x, k)'
<1>0. JInv /\ Vacant(k) /\ Marked(x, k) BY DEF NInv, Placed
<1>1. CASE ~On(x, k)' BY <1>1 DEF Marked, Deepest, OnTx, Sess, SDeepest
<1>2. CASE On(x, k)' /\ Enters(c, k) BY <1>2, MarkedEntered
<1>3. CASE On(x, k)' /\ Leaves(c, k)
  <2>1. x # c BY <1>3 DEF Leaves
  <2>2. On(x, k) BY <1>3, <2>1, SamePlace
  <2> QED BY <1>3, <2>1, <2>2, MarkedLeft
<1>4. CASE On(x, k)' /\ ~Enters(c, k) /\ ~Leaves(c, k)
  <2>1. On(x, k) BY <1>4, SamePlace
  <2>2. SameMarks(k) \/ Overwrites(c, k)
    BY <1>4, <2>1 DEF Nests, Shifts, Stands, Drops, Reserves, Frees, Alone
  <2>3. /\ \A y \in Calls : /\ (On(y, k)' <=> On(y, k)) /\ (OnTx(y, k)' <=> OnTx(y, k))
                            /\ (Sess(y, k)' <=> Sess(y, k))
        /\ req'[x] = req[x] /\ scope'[x].txScope = scope[x].txScope
    BY <1>4, <2>1, SamePlace, SameTx
  <2>4. (Deepest(x, k)' <=> Deepest(x, k)) /\ (SDeepest(x, k)' <=> SDeepest(x, k))
    BY <2>3 DEF Deepest, SDeepest
  <2>5. PICK a, b : a = mark[k].activeScope /\ b = mark'[k].activeScope OBVIOUS
  <2>6. a # None => req'[a] = req[a]
    <3>1. a \in Calls \cup {None} BY <1>0, <2>5, StepFacts DEF TypeOK, Mark
    <3>2. a # None => pc[a] # "unborn" BY <1>0, <2>5 DEF Vacant
    <3> QED BY <3>1, <3>2, SameRequest
  <2>7. /\ SDeepest(x, k)' => mark'[k].activeSession = x
        /\ Sess(x, k)' => mark'[k].activeSession # None
    BY <1>0, <2>2, <2>3, <2>4 DEF Marked, SameMarks, Overwrites
  <2>8. ASSUME ~Tainted(k)'
        PROVE  /\ Deepest(x, k)' => \/ b = scope'[x].txScope
                                    \/ scope'[x].txScope = None /\ Gone(b)'
               /\ OnTx(x, k)' => b = x \/ (b # None /\ x \in req'[b].caller)
    <3>0. ~Tainted(k) BY <2>8, Sound
    <3>1. CASE SameMarks(k)
      <4>1. a = b BY <2>5, <3>1 DEF SameMarks
      <4>2. /\ Deepest(x, k) => \/ a = scope[x].txScope
                                \/ scope[x].txScope = None /\ Gone(a)
            /\ OnTx(x, k) => a = x \/ (a # None /\ x \in req[a].caller)
        BY <1>0, <2>5, <3>0 DEF Marked
      <4>3. Gone(a) => Gone(a)' BY GoneStays
      <4> QED BY <2>3, <2>4, <2>6, <4>1, <4>2, <4>3
    <3>2. CASE Overwrites(c, k)
      <4>1. (\A d \in Calls : ~OnTx(d, k)) /\ (b = None \/ Gone(b))
        BY <2>5, <3>0, <3>2 DEF Overwrites
      <4>2. scope[x].txScope = None
        <5>1. Inside(x, k) /\ req[x].caller \subseteq Calls BY <1>0, <2>1, OnFacts DEF NInv, Placed
        <5> QED BY <2>1, <4>1, <5>1 DEF Inside
      <4>3. Gone(b) => Gone(b)' BY GoneStays
      <4> QED BY <2>3, <4>1, <4>2, <4>3
    <3> QED BY <2>2, <3>1, <3>2
  <2> QED BY <2>5, <2>7, <2>8 DEF Marked
<1> QED BY <1>1, <1>2, <1>3, <1>4

(* Who is on k but for c is on it afterwards. *)
LEMMA AloneAfter ==
  ASSUME NInv, NEW c \in Calls, Advance(c), Frame(c), Nests(c), NEW k \in Conns
  PROVE  /\ Alone(k) /\ ~On(c, k)' => Alone(k)'
         /\ Alone(k)' => \A x \in Calls : On(x, k) => x = c
         /\ Alone(k)' /\ ~Leaves(c, k) => Alone(k)
<1>1. \A x \in Calls \ {c} : On(x, k)' <=> On(x, k) BY SamePlace
<1>2. ~Enters(c, k) /\ ~Leaves(c, k) => (On(c, k)' <=> On(c, k)) BY SamePlace
<1> QED BY <1>1, <1>2 DEF Alone, Enters

LEMMA MarkBorn ==
  ASSUME NInv, NEW c \in Calls, Advance(c), Frame(c), Nests(c), NEW k \in Conns,
         mark'[k].activeScope # None
  PROVE  pc'[mark'[k].activeScope] # "unborn"
<1>0. /\ JInv /\ Vacant(k) /\ Saved(c, k) /\ TypeOK /\ None \notin Calls
      /\ pc'[c] # "unborn"
  BY ScopeConstants DEF NInv, Placed, JInv, IInv, Frame, Kindred
<1>1. mark[k].activeScope # None => pc'[mark[k].activeScope] # "unborn"
  <2>1. mark[k].activeScope \in Calls \cup {None} BY <1>0 DEF TypeOK, Mark
  <2> QED BY <1>0, <2>1, SameRequest DEF Vacant
<1>2. CASE Stands(c, k) BY <1>1, <1>2 DEF Stands, SameMarks
<1>3. CASE Drops(c, k) BY <1>3 DEF Drops, Fresh
<1>4. CASE Enters(c, k)
  <2>1. IsTx(c)' \/ IsSession(c)'
    <3>1. TypeOK' /\ Local(c)' BY <1>0, StepFacts
    <3> QED BY <1>4, <3>1
         DEF Enters, On, Local, TypeOK, Request, Kind, Statement, IsTx, IsSession
  <2> QED BY <1>0, <1>1, <1>4, <2>1 DEF Enters
<1>5. CASE Leaves(c, k)
  <2>1. CASE IsTx(c) /\ IsNested(c)
    <3>1. PICK h : h = req[c].via OBVIOUS
    <3>2. On(c, k) /\ h # Root BY <1>5, <2>1, <3>1 DEF Leaves, IsNested, InTransaction
    <3>3. h \in Calls /\ On(h, k) /\ h # c /\ scope[h].txScope # None
      BY <1>0, <2>1, <3>1, <3>2, OnFacts DEF IsNested, InTransaction
    <3>4. mark'[k].activeScope = scope[h].txScope
      BY <1>0, <1>5, <2>1, <3>1, <3>2 DEF Leaves, Saved, ScopeOf
    <3>5. PICK t \in {h} \cup req[h].caller : /\ t = scope[h].txScope /\ t \in Calls
                                              /\ pc[t] # "unborn"
      BY <3>3, TxScopeStays
    <3> QED BY <3>4, <3>5, SameRequest
  <2>2. CASE IsTx(c) /\ ~IsNested(c)
    <3>1. Gone(mark'[k].activeScope) BY <1>5, <2>2 DEF Leaves
    <3> QED BY <3>1, GoneStays
  <2>3. CASE ~IsTx(c) BY <1>1, <1>5, <2>3 DEF Leaves
  <2> QED BY <2>1, <2>2, <2>3
<1>6. CASE Reserves(c, k) BY <1>0, <1>6 DEF Reserves
<1>7. CASE Frees(c, k) BY <1>7 DEF Frees
<1>8. CASE Overwrites(c, k) BY <1>8, SameRequest DEF Overwrites
<1> QED BY <1>2, <1>3, <1>4, <1>5, <1>6, <1>7, <1>8 DEF Nests, Shifts

LEMMA ReservedKept ==
  ASSUME NInv, NEW c \in Calls, Advance(c), Frame(c), Nests(c), NEW x \in Calls, x # c
  PROVE  Reserved(x)' <=> Reserved(x)
<1>1. /\ req'[x] = req[x] /\ pc'[x] = pc[x]
      /\ conn'[x] = conn[x] \/ pc[x] = "closed"
  BY StepFacts DEF NInv
<1> QED BY <1>1 DEF Reserved, IsTx

LEMMA LoneMark ==
  ASSUME NInv, NEW c \in Calls, Advance(c), Frame(c), Nests(c), NEW k \in Conns, Alone(k)',
         ~Loose
  PROVE  \/ mark'[k].activeScope = None
         \/ k = Direct /\ Reserved(mark[k].activeScope)'
            /\ mark'[k].activeScope = mark[k].activeScope
         \/ k = Direct /\ Reserved(c)' /\ mark'[k].activeScope = c
<1>0. /\ JInv /\ Vacant(k) /\ Marked(c, k) /\ Keeps(c) /\ TypeOK
  BY DEF NInv, Placed, Ordered, JInv, IInv
<1>1. CASE Stands(c, k)
  <2>1. Alone(k) BY <1>1, AloneAfter DEF Leaves, Stands
  <2>2. mark'[k].activeScope = mark[k].activeScope BY <1>1 DEF Stands, SameMarks
  <2>3. PICK a : a = mark[k].activeScope OBVIOUS
  <2>4. a \in Calls \cup {None} BY <1>0, <2>3 DEF TypeOK, Mark
  <2>5. CASE a = None BY <2>2, <2>3, <2>5
  <2>6. CASE a # None
    <3>1. k = Direct /\ Reserved(a) /\ a \in Calls BY <1>0, <2>1, <2>3, <2>4, <2>6 DEF Vacant
    <3>2. CASE a # c
      <4>1. Reserved(a)' BY <3>1, <3>2, ReservedKept
      <4>2. Reserved(mark[k].activeScope)' \/ mark'[k].activeScope = None
        BY <2>2, <2>3, <3>1, <4>1, <3>2, StepFacts DEF Reserved, IsTx
      <4> QED BY <2>2, <3>1, <4>2
    <3>3. CASE a = c
      <4>1. Reserved(c)' \/ Frees(c, k) \/ Enters(c, k) BY <3>1, <3>3 DEF Nests
      <4> QED BY <2>2, <2>3, <3>1, <3>3, <4>1 DEF Frees, Enters, Alone
    <3> QED BY <3>2, <3>3
  <2> QED BY <2>5, <2>6
<1>2. CASE Drops(c, k) BY <1>2 DEF Drops, Fresh
<1>3. CASE Enters(c, k) BY <1>3 DEF Enters, Alone
<1>4. CASE Leaves(c, k)
  <2>1. On(c, k) /\ pc[c] # "body" /\ Deepest(c, k)
    BY <1>4, LastPlace DEF Leaves
  <2>2. req[c].via = Root
    <3>1. SUFFICES ASSUME req[c].via # Root PROVE FALSE OBVIOUS
    <3>2. req[c].via \in Calls /\ On(req[c].via, k) /\ pc[req[c].via] = "body"
      BY <1>0, <2>1, <3>1, OnFacts
    <3> QED BY <2>1, <3>2, AloneAfter
  <2>3. CASE IsTx(c) BY <1>4, <2>2, <2>3 DEF Leaves, IsNested, InTransaction, Gone
  <2>4. CASE ~IsTx(c)
    <3>1. IsSession(c) BY <1>0, <2>1, <2>4, OnFacts
    <3>2. scope[c].txScope = None BY <1>0, <2>1, <2>2, <3>1 DEF Keeps, On, ScopeOf
    <3> QED BY <1>0, <1>4, <2>1, <2>4, <3>2 DEF Leaves, Marked, Gone, Tainted
  <2> QED BY <2>3, <2>4
<1>5. CASE Reserves(c, k) BY <1>5 DEF Reserves
<1>6. CASE Frees(c, k) BY <1>6 DEF Frees
<1> QED BY <1>1, <1>2, <1>3, <1>4, <1>5, <1>6 DEF Nests, Shifts, Overwrites

(* On a direct database with its queue the marker, while it counts, is none, *)
(* one that has ended or the transaction that is there.                      *)
LEMMA LooseMark ==
  ASSUME NInv, NEW c \in Calls, Advance(c), Frame(c), Nests(c), Steps(c), NEW k \in Conns,
         Loose, ~Tainted(k)', NEW b, b = mark'[k].activeScope
  PROVE  b = None \/ Gone(b)' \/ OnTx(b, k)'
<1>0. JInv /\ Vacant(k) /\ Saved(c, k) /\ TypeOK BY DEF NInv, Placed, JInv, IInv
<1>1. ~Tainted(k) BY Sound
<1>2. PICK a : a = mark[k].activeScope OBVIOUS
<1>3. a \in Calls \cup {None} BY <1>0, <1>2 DEF TypeOK, Mark
<1>4. a = None \/ Gone(a) \/ OnTx(a, k) BY <1>0, <1>1, <1>2 DEF Vacant
<1>5. ASSUME b = a, OnTx(a, k) => a # c \/ (~Enters(c, k) /\ ~Leaves(c, k))
      PROVE  b = None \/ Gone(b)' \/ OnTx(b, k)'
  <2>1. CASE a = None BY <1>5, <2>1
  <2>2. CASE Gone(a) BY <1>5, <2>2, GoneStays
  <2>3. CASE a \in Calls /\ OnTx(a, k) BY <1>5, <2>3, SameTx
  <2> QED BY <1>3, <1>4, <2>1, <2>2, <2>3
<1>6. CASE Stands(c, k)
  <2>1. ~Enters(c, k) /\ ~Leaves(c, k) BY <1>6 DEF Stands, Enters, Leaves, On
  <2>2. b = a BY <1>2, <1>6 DEF Stands, SameMarks
  <2> QED BY <1>5, <2>1, <2>2
<1>7. CASE Enters(c, k)
  <2>1. IsTx(c)' \/ IsSession(c)'
    <3>1. TypeOK' /\ Local(c)' BY <1>0, StepFacts
    <3> QED BY <1>7, <3>1
         DEF Enters, On, Local, TypeOK, Request, Kind, Statement, IsTx, IsSession
  <2>2. CASE IsTx(c)'
    <3>1. b = c /\ On(c, k)' BY <1>7, <2>2 DEF Enters
    <3> QED BY <2>2, <3>1 DEF OnTx
  <2>3. CASE IsSession(c)'
    <3>1. b = a BY <1>2, <1>7, <2>3 DEF Enters
    <3>2. OnTx(a, k) => a # c BY <1>7 DEF Enters, OnTx, On
    <3> QED BY <1>5, <3>1, <3>2
  <2> QED BY <2>1, <2>2, <2>3
<1>8. CASE Leaves(c, k)
  <2>1. CASE IsTx(c) /\ IsNested(c)
    <3>1. PICK h : h = req[c].via OBVIOUS
    <3>2. On(c, k) /\ h # Root BY <1>8, <2>1, <3>1 DEF Leaves, IsNested, InTransaction
    <3>3. h \in Calls /\ On(h, k) /\ h # c /\ scope[h].txScope # None
      BY <1>0, <2>1, <3>1, <3>2, OnFacts DEF IsNested, InTransaction
    <3>4. b = scope[h].txScope
      BY <1>0, <1>8, <2>1, <3>1, <3>2 DEF Leaves, Saved, ScopeOf
    <3> QED BY <3>3, <3>4, TxScopeStays
  <2>2. CASE IsTx(c) /\ ~IsNested(c)
    <3>1. b = None \/ Gone(b) BY <1>8, <2>2 DEF Leaves
    <3> QED BY <3>1, GoneStays
  <2>3. CASE ~IsTx(c)
    <3>1. b = a /\ (OnTx(a, k) => a # c) BY <1>2, <1>8, <2>3 DEF Leaves, OnTx
    <3> QED BY <1>5, <3>1
  <2> QED BY <2>1, <2>2, <2>3
<1>9. CASE Overwrites(c, k)
  <2>1. b = None \/ Gone(b) BY <1>1, <1>9 DEF Overwrites
  <2> QED BY <2>1, GoneStays
<1>10. ~Drops(c, k) /\ ~Reserves(c, k) /\ ~Frees(c, k)
  BY DEF Loose, Drops, Reserves, Frees, Reserved
<1> QED BY <1>6, <1>7, <1>8, <1>9, <1>10 DEF Nests, Shifts

LEMMA VacantKept ==
  ASSUME NInv, NEW c \in Calls, Advance(c), Frame(c), Nests(c), Steps(c), NEW k \in Conns
  PROVE  Vacant(k)'
<1>0. /\ JInv /\ Vacant(k) /\ Saved(c, k) /\ TypeOK
  BY DEF NInv, Placed, JInv, IInv
<1>1. mark'[k].activeScope # None => (pc[mark[k].activeScope])' # "unborn" BY MarkBorn
<1>2. Alone(k)' /\ ~Loose => \/ mark'[k].activeScope = None
                             \/ k = Direct /\ Reserved(mark[k].activeScope)'
  <2>1. Reserved(c)' /\ mark'[k].activeScope = c => Reserved(mark[k].activeScope)'
    BY DEF Reserved, IsTx
  <2> QED BY <2>1, LoneMark
<1>3. ASSUME Pooled, \A x \in Calls : ~Sess(x, k)'
      PROVE  mark'[k].activeSession = None
  <2>1. \A x \in Calls : x # c => ~Sess(x, k) BY <1>3, SameTx
  <2>2. ~Enters(c, k) /\ ~Leaves(c, k) => ~Sess(c, k) BY <1>3, SameTx
  <2>3. (\A x \in Calls : ~Sess(x, k)) => mark[k].activeSession = None
    BY <1>0, <1>3 DEF Vacant
  <2>4. CASE Stands(c, k)
    <3>1. ~Enters(c, k) /\ ~Leaves(c, k) BY <2>4 DEF Stands, Enters, Leaves, On
    <3> QED BY <2>1, <2>2, <2>3, <2>4, <3>1 DEF Stands, SameMarks
  <2>5. CASE Drops(c, k) BY <2>5 DEF Drops, Fresh
  <2>6. CASE Enters(c, k)
    <3>1. ~Sess(c, k) BY <2>6 DEF Enters, Sess, On
    <3>2. ~IsSession(c)' BY <1>3, <2>6 DEF Enters, Sess
    <3>3. IsTx(c)' \/ IsSession(c)'
      <4>1. TypeOK' /\ Local(c)' BY <1>0, StepFacts
      <4> QED BY <2>6, <4>1
           DEF Enters, On, Local, TypeOK, Request, Kind, Statement, IsTx, IsSession
    <3> QED BY <2>1, <2>3, <2>6, <3>1, <3>2, <3>3 DEF Enters
  <2>7. CASE Leaves(c, k)
    <3>1. CASE IsTx(c)
      <4>1. ~Sess(c, k) BY <3>1 DEF Sess, IsSession, IsTx
      <4> QED BY <2>1, <2>3, <2>7, <3>1, <4>1 DEF Leaves
    <3>2. CASE ~IsTx(c)
      <4>1. Sess(c, k) BY <1>0, <2>7, <3>2, OnFacts DEF Leaves, Sess
      <4>2. \A q \in req[c].caller : q \in Calls /\ q # c
        BY <1>0, <2>7, OnFacts DEF Leaves
      <4>3. scope[c].prev = None BY <1>0, <1>3, <2>1, <4>1, <4>2 DEF Saved
      <4> QED BY <1>3, <2>7, <3>2, <4>3 DEF Leaves
    <3> QED BY <3>1, <3>2
  <2>8. CASE Reserves(c, k) \/ Frees(c, k)
    BY <1>3, <2>8, ScopeConstants DEF Reserves, Frees, Reserved
  <2>9. ~Overwrites(c, k) BY <1>3 DEF Overwrites, Loose
  <2> QED BY <2>4, <2>5, <2>6, <2>7, <2>8, <2>9 DEF Nests, Shifts
<1>4. ASSUME Loose, ~Tainted(k)'
      PROVE  (\/ mark[k].activeScope = None
              \/ Gone(mark[k].activeScope)
              \/ OnTx(mark[k].activeScope, k))'
  <2>1. PICK b : b = mark'[k].activeScope OBVIOUS
  <2>2. b = None \/ Gone(b)' \/ OnTx(b, k)' BY <1>4, <2>1, LooseMark
  <2> QED BY <2>1, <2>2 DEF Gone, OnTx, On, IsTx, IsDone
<1> QED BY <1>1, <1>2, <1>3, <1>4 DEF Vacant, Loose

LEMMA BookedKept ==
  ASSUME NInv, NEW c \in Calls, Advance(c), Frame(c), Nests(c), NEW x \in Calls
  PROVE  Booked(x)'
<1>1. SUFFICES ASSUME Reserved(x)' PROVE mark'[Direct].activeScope = x /\ Alone(Direct)'
  BY DEF Booked
<1>2. /\ Direct \in Conns /\ ~On(x, Direct)' /\ ~Pooled /\ Booked(x) /\ Booked(c)
      /\ Direct' = Direct /\ None \notin Calls
  BY <1>1, DirectIsConn, ScopeConstants DEF Reserved, On, ScopePC, NInv, Ordered, Direct
<1>3. CASE x = c /\ Reserves(c, Direct)
  BY <1>2, <1>3, AloneAfter DEF Reserves
<1>4. CASE Reserved(x)
  <2>1. mark[Direct].activeScope = x /\ Alone(Direct) BY <1>2, <1>4 DEF Booked
  <2>2. x # c => ~Reserved(c) BY <1>2, <2>1 DEF Booked
  <2>3. ~Frees(c, Direct) BY <1>1, <2>2 DEF Frees
  <2>4. ~Enters(c, Direct)
    <3>1. CASE req'[c].via = Root
      <4>1. x # c => ~Enters(c, Direct)
        BY <1>1, <1>2, <2>1, <2>2, <3>1 DEF Enters, Reserved
      <4>2. x = c => ~Enters(c, Direct) BY <1>2 DEF Enters
      <4> QED BY <4>1, <4>2
    <3>2. CASE req'[c].via # Root
      <4>1. SUFFICES ASSUME Enters(c, Direct) PROVE FALSE OBVIOUS
      <4>2. Deepest(req'[c].via, Direct) BY <3>2, <4>1 DEF Enters
      <4>3. TypeOK' BY StepFacts DEF NInv
      <4> QED BY <2>1, <3>2, <4>2, <4>3 DEF Deepest, Alone, TypeOK, Request
    <3> QED BY <3>1, <3>2
  <2>5. ~Leaves(c, Direct) BY <2>1 DEF Leaves, Alone
  <2>6. ~Drops(c, Direct) /\ ~Reserves(c, Direct) /\ ~Overwrites(c, Direct)
    BY <1>1, <1>2, <2>1 DEF Drops, Reserves, Overwrites, Reserved, Loose
  <2>7. Stands(c, Direct) BY <1>2, <2>3, <2>4, <2>5, <2>6 DEF Nests, Shifts
  <2>8. ~On(c, Direct)' BY <2>1, <2>7 DEF Stands, Alone
  <2> QED BY <1>2, <2>1, <2>7, <2>8, AloneAfter DEF Stands, SameMarks
<1> QED BY <1>1, <1>3, <1>4, ReservedKept DEF Nests

(* The handle of a scope is that of a callback. *)
LEMMA HandleStays ==
  ASSUME NInv, NEW c \in Calls, Advance(c), Frame(c), Nests(c), NEW d \in Calls, d # c,
         Unfinished(d), ~Statement(d), req[d].via # Root
  PROVE  /\ req[d].via \in Calls /\ pc[req[d].via] = "body"
         /\ scope'[req[d].via].txScope = scope[req[d].via].txScope
         /\ conn'[req[d].via] = conn[req[d].via]
<1>0. JInv /\ TypeOK /\ Handles(d) BY DEF NInv, JInv, IInv
<1>1. PICK h : h = req[d].via OBVIOUS
<1>2. h \in Calls /\ pc[h] = "body"
  BY <1>0, <1>1 DEF Handles, Unfinished, TypeOK, Request
<1>3. CASE h # c
  <2>1. scope'[h].txScope = scope[h].txScope
    BY <1>0, <1>2, <1>3, OthersRest DEF Rests, Nests
  <2>2. conn'[h] = conn[h] BY <1>0, <1>2, <1>3, StepFacts
  <2> QED BY <1>1, <1>2, <2>1, <2>2
<1>4. CASE h = c
  BY <1>1, <1>2, <1>4 DEF Nests, Frame, Places, ScopePC
<1> QED BY <1>3, <1>4

LEMMA KeepsKept ==
  ASSUME NInv, NEW c \in Calls, Advance(c), Frame(c), Nests(c), NEW d \in Calls
  PROVE  Keeps(d)'
<1>0. JInv /\ TypeOK /\ Local(d) /\ Keeps(d) BY DEF NInv, JInv, IInv, Ordered
<1>1. CASE d = c BY <1>1 DEF Nests
<1>2. CASE d # c
  <2>1. Rests(d) BY <1>0, <1>2, OthersRest DEF Nests
  <2>2. /\ Unfinished(d)' <=> Unfinished(d)
        /\ IsTx(d)' <=> IsTx(d)
        /\ IsSession(d)' <=> IsSession(d)
        /\ conn'[d] = conn[d] \/ pc[d] = "closed"
    BY <1>0, <1>2, <2>1, StepFacts DEF Rests, Unfinished, IsDone, IsTx, IsSession
  <2>3. ASSUME Unfinished(d), ~Statement(d)
        PROVE  /\ ScopeOf(req[d].via)' = ScopeOf(req[d].via)
               /\ IsNested(d)' <=> IsNested(d)
               /\ req[d].via # Root => conn'[req[d].via] = conn[req[d].via]
    <3>1. CASE req[d].via = Root
      BY <2>1, <2>2, <3>1 DEF Rests, ScopeOf, IsNested, InTransaction
    <3>2. CASE req[d].via # Root
      <4>1. PICK h : h = req[d].via OBVIOUS
      <4>2. /\ scope'[h].txScope = scope[h].txScope
            /\ conn'[h] = conn[h] /\ req'[d].via = h /\ h # Root
        BY <1>2, <2>1, <2>3, <3>2, <4>1, HandleStays DEF Rests
      <4> QED BY <2>2, <4>1, <4>2 DEF ScopeOf, IsNested, InTransaction
    <3> QED BY <3>1, <3>2
  <2>4. IsTx(d) \/ IsSession(d) => ~Statement(d) BY DEF IsTx, IsSession, Statement
  <2>5. (Unfinished(d) /\ IsTx(d) => scope[d].txScope = d)' BY <1>0, <2>1, <2>2 DEF Keeps, Rests
  <2>6. (IsSession(d) /\ pc[d] \in ScopePC \cup {"queued"} =>
          scope[d].txScope = ScopeOf(req[d].via))'
    <3>1. SUFFICES ASSUME IsSession(d), pc[d] \in ScopePC \cup {"queued"}
                   PROVE  scope'[d].txScope = ScopeOf(req[d].via)'
      BY <2>1, <2>2 DEF Rests
    <3>2. Unfinished(d) BY <3>1 DEF Unfinished, IsDone, ScopePC, Settled
    <3> QED BY <1>0, <2>1, <2>3, <2>4, <3>1, <3>2 DEF Keeps, Rests
  <2>7. (Unfinished(d) /\ IsTx(d) /\ req[d].via = Root /\ Conservative
            => scope[d].rootPrev = None)'
    BY <1>0, <2>1, <2>2 DEF Keeps, Rests
  <2>8. (Unfinished(d) /\ IsNested(d) => pc[d] \in ScopePC /\ conn[d] = conn[req[d].via])'
    <3>1. SUFFICES ASSUME Unfinished(d), IsNested(d)'
                   PROVE  pc'[d] \in ScopePC /\ conn'[d] = conn'[req'[d].via]
      BY <2>2
    <3>2. IsTx(d) /\ ~Statement(d) BY <2>2, <2>4, <3>1 DEF IsNested
    <3>3. IsNested(d) /\ req[d].via # Root BY <2>3, <3>1, <3>2 DEF IsNested, InTransaction
    <3>4. pc[d] \in ScopePC /\ conn[d] = conn[req[d].via] BY <1>0, <3>1, <3>3 DEF Keeps
    <3>5. conn'[d] = conn[d] BY <2>2, <3>4 DEF ScopePC
    <3> QED BY <2>1, <2>3, <3>1, <3>2, <3>3, <3>4, <3>5 DEF Rests
  <2>9. (/\ ~Statement(d) /\ pc[d] = "queued" => req[d].via = Root
         /\ IsSession(d) /\ pc[d] = "finalize" => conn[d] # None)'
    <3>1. Statement(d)' <=> Statement(d) BY <2>1 DEF Rests, Statement
    <3> QED BY <1>0, <2>1, <2>2, <3>1 DEF Keeps, Rests
  <2> QED BY <2>5, <2>6, <2>7, <2>8, <2>9 DEF Keeps
<1> QED BY <1>1, <1>2

LEMMA SingleKept ==
  ASSUME NInv, NEW c \in Calls, Advance(c), Frame(c), Nests(c), NEW x \in Calls
  PROVE  Single(x)'
<1>0. JInv /\ \A y \in Calls : Single(y) BY DEF NInv, Ordered
<1>1. SUFFICES ASSUME (Unfinished(x) /\ ~Statement(x))', NEW d \in Calls, d # x,
                      (Unfinished(d) /\ ~Statement(d) /\ req[d].via = req[x].via)'
               PROVE  req'[x].via = Root
  BY DEF Single
<1>2. \A y \in Calls : y # c \/ pc[c] # "unborn" =>
        /\ req'[y] = req[y]
        /\ Unfinished(y)' => Unfinished(y)
        /\ Statement(y)' <=> Statement(y)
  <2>1. SUFFICES ASSUME NEW y \in Calls, y # c \/ pc[c] # "unborn"
                 PROVE  /\ req'[y] = req[y]
                        /\ Unfinished(y)' => Unfinished(y)
                        /\ Statement(y)' <=> Statement(y)
    OBVIOUS
  <2>2. req'[y] = req[y]
    BY <1>0, <2>1, StepFacts
  <2>3. y # c => pc'[y] = pc[y] BY <1>0, <2>1, StepFacts
  <2>4. pc[c] # "unborn" => Unfinished(c) BY DEF Frame, Kindred, Unfinished
  <2> QED BY <2>1, <2>2, <2>3, <2>4 DEF Unfinished, IsDone, Statement
<1>3. CASE pc[c] # "unborn" \/ (x # c /\ d # c)
  BY <1>0, <1>1, <1>2, <1>3 DEF Single
<1>4. CASE pc[c] = "unborn" /\ x = c
  BY <1>1, <1>2, <1>4 DEF Nests
<1>5. CASE pc[c] = "unborn" /\ d = c
  BY <1>1, <1>2, <1>5 DEF Nests
<1> QED BY <1>3, <1>4, <1>5

(* Of the calls the one that moves may be new, or have ended. *)
LEMMA OldScopes ==
  ASSUME NInv, NEW c \in Calls, Advance(c), Frame(c), NEW d \in Calls,
         d # c \/ pc[c] # "unborn"
  PROVE  /\ req'[d] = req[d]
         /\ Unfinished(d)' => Unfinished(d)
         /\ RootScope(d)' => RootScope(d)
         /\ RootTx(d)' => RootTx(d)
         /\ d # c => /\ pc'[d] = pc[d] /\ (Unfinished(d)' <=> Unfinished(d))
                     /\ pc[d] # "closed" => conn'[d] = conn[d]
<1>1. req'[d] = req[d] /\ (d # c => pc'[d] = pc[d])
  BY StepFacts DEF NInv
<1>2. d # c /\ pc[d] # "closed" => conn'[d] = conn[d] BY StepFacts DEF NInv
<1>3. pc[c] # "unborn" => Unfinished(c) BY DEF Frame, Kindred, Unfinished
<1>4. /\ Unfinished(d)' => Unfinished(d)
      /\ d # c => (Unfinished(d)' <=> Unfinished(d))
  BY <1>1, <1>3 DEF Unfinished, IsDone
<1>5. RootScope(d)' => RootScope(d) BY <1>1, <1>4 DEF RootScope, Statement
<1> QED BY <1>1, <1>2, <1>4, <1>5 DEF RootTx, IsTx, Loose

LEMMA RemembersKept ==
  ASSUME NInv, NEW c \in Calls, Advance(c), Frame(c), Nests(c), Steps(c), NEW x \in Calls
  PROVE  Remembers(x)'
<1>r. PICK r : r = scope'[x].rootPrev OBVIOUS
<1> SUFFICES ASSUME RootTx(x)'
             PROVE  /\ conn'[x] \in {None, Direct}
                    /\ r = None \/ Gone(r)' \/ (~On(x, Direct)' /\ On(r, Direct)')
  BY <1>r DEF Remembers, On, Gone, Direct, IsDone
<1>0. /\ JInv /\ TypeOK /\ TypeOK' /\ Remembers(x) /\ Direct \in Conns /\ None \notin Conns
      /\ Local(x) /\ Loose
  BY DirectIsConn, ScopeConstants, StepFacts DEF NInv, Ordered, JInv, IInv, RootTx
<1>1. CASE x # c
  <2>1. Rests(x) /\ RootTx(x) /\ pc[x] # "closed"
    <3>1. Rests(x) /\ RootTx(x) BY <1>0, <1>1, OthersRest, OldScopes DEF Nests
    <3> QED BY <1>0, <3>1 DEF RootTx, IsTx, Local, StatementPC, Statement
  <2>2. PICK m : m = scope[x].rootPrev OBVIOUS
  <2>3. scope'[x].rootPrev = m /\ conn'[x] = conn[x] /\ (On(x, Direct)' <=> On(x, Direct))
        /\ m \in Calls \cup {None}
    BY <1>0, <1>1, <2>1, <2>2, OldScopes DEF Rests, TypeOK, Scope
  <2>4. /\ conn[x] \in {None, Direct}
        /\ m = None \/ Gone(m) \/ (~On(x, Direct) /\ On(m, Direct))
    BY <1>0, <2>1, <2>2 DEF Remembers
  <2>5. CASE m = None BY <1>r, <2>3, <2>4, <2>5
  <2>6. CASE Gone(m) BY <1>r, <2>3, <2>4, <2>6, GoneStays
  <2>7. CASE m \in Calls /\ ~On(x, Direct) /\ On(m, Direct)
    <3>1. On(m, Direct)' \/ Gone(m)'
      <4>1. CASE m # c BY <1>0, <2>7, <4>1, SamePlace
      <4>2. CASE m = c
        <5>1. CASE Leaves(c, Direct)
          BY <1>0, <2>7, <4>2, <5>1 DEF Leaves, Gone, Loose
        <5>2. CASE ~Leaves(c, Direct)
          <6>1. ~Enters(c, Direct) BY <2>7, <4>2 DEF Enters, On
          <6> QED BY <1>0, <2>7, <4>2, <5>2, <6>1, SamePlace
        <5> QED BY <5>1, <5>2
      <4> QED BY <4>1, <4>2
    <3> QED BY <1>r, <2>3, <2>4, <2>7, <3>1
  <2> QED BY <1>r, <2>3, <2>4, <2>5, <2>6, <2>7
<1>2. CASE x = c /\ pc[c] = "unborn"
  <2>1. PICK a : a = mark[Direct].activeScope OBVIOUS
  <2>2. IsHealthy(Direct) /\ conn'[c] = None /\ scope'[c].rootPrev = a
    BY <1>2, <2>1 DEF Steps
  <2>3. a \in Calls \cup {None} BY <1>0, <2>1 DEF TypeOK, Mark
  <2>4. a = None \/ Gone(a) \/ OnTx(a, Direct)
    BY <1>0, <2>1, <2>2 DEF NInv, Vacant, Tainted, IsHealthy
  <2>5. ASSUME a \in Calls, OnTx(a, Direct) PROVE On(a, Direct)'
    <3>1. a # c /\ On(a, Direct) BY <1>2, <2>5 DEF OnTx, On, ScopePC
    <3> QED BY <1>0, <2>5, <3>1, SamePlace
  <2>6. ~On(c, Direct)' BY <1>0, <2>2 DEF On
  <2> QED BY <1>r, <1>2, <2>2, <2>3, <2>4, <2>5, <2>6, GoneStays
<1>3. CASE x = c /\ pc[c] # "unborn"
  <2>1. RootTx(c) BY <1>3, OldScopes
  <2>2. PICK m : m = scope[c].rootPrev OBVIOUS
  <2>3. /\ conn[c] \in {None, Direct} /\ m \in Calls \cup {None}
        /\ m = None \/ Gone(m) \/ (~On(c, Direct) /\ On(m, Direct))
    BY <1>0, <1>3, <2>1, <2>2 DEF Remembers, TypeOK, Scope
  <2>4. conn'[c] \in {conn[c], None, Direct} /\ scope'[c].rootPrev = m
    BY <1>3, <1>r, <2>1, <2>2 DEF Steps, RootTx
  <2>5. CASE m = None BY <1>r, <1>3, <2>3, <2>4, <2>5
  <2>6. CASE Gone(m) BY <1>r, <1>3, <2>3, <2>4, <2>6, GoneStays
  <2>7. CASE m \in Calls /\ ~On(c, Direct) /\ On(m, Direct)
    <3>1. On(m, Direct)' BY <1>0, <2>7, SamePlace
    <3>2. ~On(c, Direct)'
      <4>1. SUFFICES ASSUME On(c, Direct)' PROVE FALSE OBVIOUS
      <4>2. Enters(c, Direct)
        BY <1>0, <2>7, <4>1
           DEF Nests, Shifts, Stands, Drops, Leaves, Reserves, Frees, Overwrites
      <4>3. req'[c].via = Root BY <1>3 DEF RootTx, RootScope
      <4> QED BY <2>7, <4>2, <4>3 DEF Enters, Alone
    <3> QED BY <1>r, <1>3, <2>3, <2>4, <2>7, <3>1, <3>2
  <2> QED BY <2>3, <2>5, <2>6, <2>7
<1> QED BY <1>1, <1>2, <1>3

(* What a call that is new may be beside a root transaction x. *)
LEMMA NewBeside ==
  ASSUME NInv, NEW c \in Calls, Advance(c), Frame(c), Steps(c), Orderly, pc[c] = "unborn",
         NEW x \in Calls \ {c}, RootTx(x), Unfinished(c)'
  PROVE  /\ RootScope(c)' => /\ Peaceful /\ ~IsStream(c)'
                             /\ \A d \in Calls : Unfinished(d) => ~Refused(d)
         /\ IsStream(c)' /\ pc[x] = "ready" => \A e \in Calls \ {x} : ~RootScope(e)
<1>1. PICK kind, h, caller : kind = req'[c].kind /\ h = req'[c].via /\ caller = req'[c].caller
  OBVIOUS
<1>2. ~Refusable(kind, h) BY <1>1 DEF Steps, Permitted, Orderly, Rule
<1>3. /\ ~Pooled /\ ~Conservative /\ RootScope(x) /\ IsTx(x) /\ req[x].kind = "tx"
  BY DEF RootTx, Loose, IsTx
<1>4. ASSUME RootScope(c)'
      PROVE  /\ Peaceful /\ ~IsStream(c)'
             /\ \A d \in Calls : Unfinished(d) => ~Refused(d)
  <2>1. TypeOK' BY StepFacts DEF NInv
  <2>2. h = Root /\ Scoping(kind) /\ ~IsStream(c)'
    BY <1>1, <1>4, <2>1 DEF RootScope, Statement, IsStream, Scoping, TypeOK, Request, Kind
  <2> QED BY <1>2, <1>3, <2>2 DEF Refusable, Peaceful
<1>5. ASSUME IsStream(c)', pc[x] = "ready", NEW e \in Calls \ {x}, RootScope(e)
      PROVE  FALSE
  <2>1. kind = "stream" BY <1>1, <1>5 DEF IsStream
  <2> QED BY <1>2, <1>3, <1>5, <2>1 DEF Refusable
<1> QED BY <1>4, <1>5

(* Where all is peaceful, nothing but the health of the database refuses it. *)
LEMMA PeacefulBegin ==
  ASSUME NInv, NEW c \in Calls, RootTx(c), IsHealthy(Direct), Peaceful,
         \A s \in req[c].caller : IsStream(s)
  PROVE  MayBegin(c)
<1>0. /\ Direct \in Conns /\ Counted(Direct) /\ ~Pooled /\ ~Conservative /\ req[c].via = Root
  BY DirectIsConn DEF NInv, JInv, RootTx, Loose, RootScope
<1>1. /\ {d \in Calls : Using(d, Direct)} = {}
      /\ {d \in Calls : Pending(d, Direct)} = {}
  BY DEF Using, Pending, Peaceful, Unfinished, IsDone, Settled
<1>2. mark[Direct].streamUsers = 0 /\ mark[Direct].pendingStreams = 0
  BY <1>0, <1>1, FS_EmptySet DEF Counted
<1>3. RootAllowed(req[c].caller, FALSE)
  BY <1>0, <1>2 DEF RootAllowed, NoStream, IsStream
<1> QED BY <1>0, <1>3 DEF MayBegin, StateOf

LEMMA SureReady ==
  ASSUME NInv, NEW c \in Calls, Advance(c), Frame(c), Nests(c), Steps(c), Orderly,
         NEW x \in Calls, RootTx(x)', pc'[x] = "ready"
  PROVE  (\A s \in req'[x].caller : IsStream(s)') /\ (Only(x)' \/ Peaceful')
<1>0. JInv /\ TypeOK /\ TypeOK' /\ Sure(x) /\ ~Pooled /\ ~Conservative
  BY StepFacts DEF NInv, Ordered, RootTx, Loose
<1>1. \A d \in Calls \ {c} : /\ RootScope(d)' => RootScope(d)
                             /\ Unfinished(d)' => Unfinished(d)
                             /\ pc[d] # "unborn" => (IsStream(d)' <=> IsStream(d))
                             /\ req'[d] = req[d]
  BY OldScopes DEF IsStream
<1>2. CASE x = c
  <2>1. pc[c] = "unborn" BY <1>0, <1>2 DEF Steps, Loose
  <2>2. PICK kind, h, caller :
          kind = req'[c].kind /\ h = req'[c].via /\ caller = req'[c].caller
    OBVIOUS
  <2>3. Permitted(kind, h, caller) BY <2>1, <2>2 DEF Steps
  <2>4. kind = "tx" /\ h = Root BY <1>2, <2>2 DEF RootTx, RootScope, IsTx
  <2>5. ~Reentry(kind, h, caller) /\ ~Refusable(kind, h)
    BY <2>3 DEF Permitted, Orderly, Rule
  <2>6. \A s \in req'[c].caller : IsStream(s)'
    <3>1. \A s \in req'[c].caller : s \in Calls /\ pc[s] # "unborn"
      BY <1>0, <2>1 DEF Frame, Kindred, Around, TypeOK, Request
    <3>2. \A s \in req'[c].caller : IsStream(s)
      BY <1>0, <2>2, <2>4, <2>5 DEF Reentry
    <3> QED BY <1>1, <2>1, <3>1, <3>2
  <2>7. ASSUME ~Only(c)' PROVE Peaceful'
    <3>1. PICK d \in Calls \ {c} : RootScope(d)' BY <2>7 DEF Only
    <3>2. RootScope(d) BY <1>1, <3>1
    <3>3. Peaceful BY <1>0, <2>4, <2>5, <3>2 DEF Refusable, Scoping, Peaceful
    <3>4. ~IsStream(c)' BY <2>2, <2>4 DEF IsStream
    <3> QED BY <1>1, <3>3, <3>4 DEF Peaceful, Unfinished
  <2> QED BY <1>2, <2>6, <2>7
<1>3. CASE x # c
  <2>1. RootTx(x) /\ pc[x] = "ready" /\ req'[x] = req[x] BY <1>3, OldScopes
  <2>2. (\A s \in req[x].caller : IsStream(s)) /\ (Only(x) \/ Peaceful)
    BY <1>0, <2>1 DEF Sure
  <2>3. \A s \in req[x].caller : IsStream(s)'
    <3>1. Whole(x) BY <1>0 DEF JInv
    <3>2. \A s \in req[x].caller : s \in Calls /\ pc[s] # "unborn"
      BY <1>0, <2>1, <3>1 DEF Whole, Kin, Around, TypeOK, Request
    <3>3. \A s \in Calls : pc[s] # "unborn" => req'[s] = req[s] BY <1>0, StepFacts
    <3> QED BY <2>2, <3>2, <3>3 DEF IsStream
  <2>4. CASE pc[c] # "unborn" \/ ~Unfinished(c)'
    <3>1. RootScope(c)' => RootScope(c)
      BY <2>4, OldScopes DEF RootScope
    <3>2. Unfinished(c)' => Unfinished(c) /\ req'[c] = req[c] BY <2>4, OldScopes
    <3>3. Only(x) => Only(x)' BY <1>1, <3>1 DEF Only
    <3>4. Peaceful => Peaceful' BY <1>1, <3>2 DEF Peaceful, Unfinished, IsStream
    <3> QED BY <2>1, <2>2, <2>3, <3>3, <3>4
  <2>5. CASE pc[c] = "unborn" /\ Unfinished(c)'
    <3>1. CASE RootScope(c)'
      <4>1. Peaceful /\ ~IsStream(c)' BY <1>3, <2>1, <2>5, <3>1, NewBeside
      <4>2. Peaceful' BY <1>1, <4>1 DEF Peaceful, Unfinished
      <4> QED BY <2>1, <2>3, <4>2
    <3>2. CASE IsStream(c)'
      <4>1. \A e \in Calls \ {x} : ~RootScope(e) BY <1>3, <2>1, <2>5, <3>2, NewBeside
      <4>2. ~RootScope(c)' BY <3>2 DEF RootScope, IsStream, Statement
      <4>3. Only(x)' BY <1>1, <4>1, <4>2 DEF Only
      <4> QED BY <2>1, <2>3, <4>3
    <3>3. CASE ~RootScope(c)' /\ ~IsStream(c)'
      <4>1. Only(x) => Only(x)' BY <1>1, <3>3 DEF Only
      <4>2. Peaceful => Peaceful' BY <1>1, <3>3 DEF Peaceful, Unfinished
      <4> QED BY <2>1, <2>2, <2>3, <4>1, <4>2
    <3> QED BY <3>1, <3>2, <3>3
  <2> QED BY <2>4, <2>5
<1> QED BY <1>2, <1>3

LEMMA SureKept ==
  ASSUME NInv, NEW c \in Calls, Advance(c), Frame(c), Nests(c), Steps(c), Orderly,
         NEW x \in Calls
  PROVE  Sure(x)'
<1>1. SUFFICES ASSUME RootTx(x)', Refused(x)', IsHealthy(Direct)' PROVE Only(x)'
  BY SureReady DEF Sure
<1>2. JInv /\ TypeOK /\ Sure(x) /\ IsHealthy(Direct)
  BY <1>1, StepFacts DEF NInv, Ordered, Steps, RootTx, IsHealthy, Direct
<1>3. \A d \in Calls \ {c} : RootScope(d)' => RootScope(d) BY OldScopes
<1>4. CASE x = c
  <2>1. pc[c] # "unborn" BY <1>1, <1>4 DEF Steps, Refused
  <2>2. RootTx(c) /\ (RootScope(c)' => RootScope(c)) BY <1>1, <1>4, <2>1, OldScopes
  <2>3. Only(c)
    <3>1. \/ Refused(c)
          \/ pc[c] = "ready" /\ (~MayBegin(c) \/ "observer" \in Faults)
      BY <1>1, <1>2, <1>4, <2>1, <2>2 DEF Steps, RootTx
    <3> QED BY <1>2, <1>4, <2>2, <3>1, PeacefulBegin DEF Sure, Peaceful
  <2> QED BY <1>3, <1>4, <2>2, <2>3 DEF Only
<1>5. CASE x # c
  <2>1. RootTx(x) /\ Refused(x) /\ Unfinished(x)
    BY <1>1, <1>5, OldScopes DEF Refused, IsTx, RootTx, RootScope
  <2>2. Only(x) BY <1>2, <2>1 DEF Sure
  <2>3. ~RootScope(c)' \/ RootScope(c)
    <3>1. CASE pc[c] # "unborn" BY <3>1, OldScopes
    <3>2. CASE pc[c] = "unborn"
      <4>1. RootScope(c)' => Unfinished(c)' BY DEF RootScope
      <4> QED BY <1>5, <2>1, <3>2, <4>1, NewBeside
    <3> QED BY <3>1, <3>2
  <2> QED BY <1>3, <2>2, <2>3 DEF Only
<1> QED BY <1>4, <1>5

LEMMA NestsKeep ==
  ASSUME NInv, NEW c \in Calls, Advance(c), Frame(c), Nests(c), Steps(c), Orderly
  PROVE  NInv'
<1>1. JInv' BY StepKeeps DEF NInv
<1>2. \A x \in Calls, k \in Conns : Placed(x, k)'
  BY LinedKept, BetweenKept, HeirKept, InsideKept, MarkedKept, SavedKept DEF Placed
<1>3. \A x \in Calls : Ordered(x)'
  BY BookedKept, KeepsKept, SingleKept, RemembersKept, SureKept DEF Ordered
<1>4. \A k \in Conns : Vacant(k)' BY VacantKept
<1> QED BY <1>1, <1>2, <1>3, <1>4 DEF NInv

(* Who has a resource, but is not in a scope of its own, is alone with it. *)
LEMMA RootAlone ==
  ASSUME JInv, NEW c \in Calls, Holds(c), pc[c] \notin ScopePC, NEW k \in Conns, conn[c] = k
  PROVE  Alone(k)
<1>1. SUFFICES ASSUME NEW d \in Calls, On(d, k) PROVE FALSE BY DEF Alone
<1>2. PICK r \in Calls : /\ Holds(r) /\ conn[r] = k /\ ~Statement(r) /\ pc[r] \in ScopePC
  BY <1>1, OnFacts, ScopeHeld, ScopeConstants DEF JInv, On
<1>3. CASE Pooled \/ Conservative
  <2>1. Sole(c) BY DEF JInv, Whole
  <2> QED BY <1>2, <1>3, <2>1 DEF Sole
<1>4. CASE ~Pooled /\ ~Conservative
  <2>1. Local(c) /\ Local(r) /\ Mode(c) BY <1>2 DEF JInv, IInv, Whole
  <2>2. HoldsTail(c) BY <1>4, <2>1 DEF Holds, HoldsTail, Mode, InUse
  <2>3. HoldsTail(r)
    <3>1. On(r, k) BY <1>2 DEF On
    <3> QED BY <1>2, <1>4, <3>1, OnFacts, ScopeConstants
            DEF Holds, HoldsTail, Entered, ScopePC
  <2> QED BY <1>2, <2>1, <2>2, <2>3 DEF Local, HasTail
<1> QED BY <1>3, <1>4

LEMMA IdleAlone ==
  ASSUME JInv, Pooled, NEW k \in idle
  PROVE  k \in Conns /\ Alone(k)
<1>1. k \in Conns BY DEF JInv, IInv, TypeOK
<1>2. SUFFICES ASSUME NEW d \in Calls, On(d, k) PROVE FALSE BY <1>1 DEF Alone
<1>3. PICK r \in Calls : Holds(r) /\ conn[r] = k
  BY <1>1, <1>2, OnFacts, ScopeHeld, ScopeConstants DEF JInv, On
<1>4. Sole(r) BY DEF JInv, Whole
<1> QED BY <1>3, <1>4 DEF Sole, Free

(* The head of the queue of a direct resource, when it has not gone on. *)
LEMMA HeadAlone ==
  ASSUME JInv, ~Pooled, ~Conservative, NEW c \in Calls, NEW k \in Conns, conn[c] = k,
         HasTail(c), pc[c] \notin ScopePC
  PROVE  Alone(k)
<1>1. SUFFICES ASSUME NEW d \in Calls, On(d, k) PROVE FALSE BY DEF Alone
<1>2. PICK r \in Calls : /\ Holds(r) /\ conn[r] = k /\ ~Statement(r) /\ pc[r] \in ScopePC
  BY <1>1, OnFacts, ScopeHeld, ScopeConstants DEF JInv, On
<1>3. HoldsTail(r)
  <2>1. On(r, k) BY <1>2 DEF On
  <2> QED BY <1>2, <2>1, OnFacts, ScopeConstants DEF Holds, HoldsTail, Entered, ScopePC
<1>4. HasTail(r) BY <1>3 DEF JInv, IInv, Local
<1> QED BY <1>2, <1>4 DEF HasTail

(* Where the markers are those of a new resource, nobody is on it. *)
LEMMA UnmarkedAlone ==
  ASSUME NInv, NEW k \in Conns, mark[k].activeScope = None, mark[k].activeSession = None,
         ~Tainted(k)
  PROVE  Alone(k)
<1>1. SUFFICES ASSUME NEW d \in Calls, On(d, k) PROVE FALSE BY DEF Alone
<1>2. JInv /\ Marked(d, k) /\ d # None BY ScopeConstants DEF NInv, Placed
<1>3. IsTx(d) \/ IsSession(d) BY <1>1, <1>2, OnFacts
<1> QED BY <1>1, <1>2, <1>3 DEF Marked, OnTx, Sess

(* A handle that is accepted has no savepoint of its own on its resource, *)
LEMMA NoneInside ==
  ASSUME NInv, NEW h \in Calls, NEW k \in Conns, On(h, k), IsOpen(h), ~Tainted(k),
         NEW e \in Calls, OnTx(e, k), req[e].via = h
  PROVE  FALSE
<1>0. JInv /\ Marked(e, k) /\ Inside(h, k) /\ h # Root /\ h # None /\ e # None
  BY ScopeConstants DEF NInv, Placed
<1>1. PICK t : t = mark[k].activeScope OBVIOUS
<1>2. t = scope[h].txScope BY <1>0, <1>1 DEF IsOpen, On
<1>3. t = e \/ (t # None /\ e \in req[t].caller) BY <1>0, <1>1 DEF Marked
<1>4. t \in {h} \cup req[h].caller BY <1>0, <1>2, <1>3 DEF Inside
<1>5. /\ h \notin req[h].caller
      /\ \A s \in req[h].caller : req[s].caller \subseteq req[h].caller
  BY <1>0, OnFacts
<1>6. e \in {h} \cup req[h].caller BY <1>3, <1>4, <1>5
<1>7. h \in req[e].caller /\ e \notin req[e].caller
  BY <1>0, OnFacts DEF OnTx
<1> QED BY <1>5, <1>6, <1>7

(* and is the deepest when no other scope is open on it. *)
LEMMA HeirDeepest ==
  ASSUME NInv, NEW h \in Calls, NEW k \in Conns, On(h, k),
         \A e \in Calls : On(e, k) => req[e].via # h
  PROVE  Deepest(h, k)
<1>1. SUFFICES ASSUME NEW d \in Calls, On(d, k), d # h, d \notin req[h].caller
               PROVE  FALSE
  BY DEF Deepest
<1>2. JInv /\ Lined(h, k) /\ Heir(d, k) BY DEF NInv, Placed
<1>3. h \in req[d].caller BY <1>1, <1>2 DEF Lined
<1>4. PICK e \in {d} \cup req[d].caller : On(e, k) /\ req[e].via = h
  BY <1>1, <1>2, <1>3 DEF Heir
<1>5. e \in Calls BY <1>1, <1>2, OnFacts
<1> QED BY <1>4, <1>5

(* A scope may be opened in the deepest scope only: the application awaits  *)
(* the others, and the runtime refuses the handle around a savepoint.       *)
LEMMA OpenedDeepest ==
  ASSUME NInv, NEW h \in Calls, NEW k \in Conns, On(h, k), IsOpen(h), ~Tainted(k),
         NEW kind \in {"tx", "session"}, NEW caller, Permitted(kind, h, caller), Orderly
  PROVE  /\ Deepest(h, k)
         /\ \A d \in Calls : Unfinished(d) /\ ~Statement(d) => req[d].via # h
<1>0. JInv /\ h # Root BY ScopeConstants DEF NInv
<1>1. ASSUME NEW d \in Calls, Unfinished(d), ~Statement(d), req[d].via = h
      PROVE  FALSE
  <2>1. InTransaction(h) /\ IsTx(d) 
    BY <1>0, <1>1 DEF Permitted, Orderly, Rule, Sibling, Scoping
  <2>2. Keeps(d) BY DEF NInv, Ordered
  <2>3. OnTx(d, k) BY <1>1, <2>1, <2>2 DEF Keeps, IsNested, OnTx, On
  <2> QED BY <1>1, <2>3, NoneInside
<1>2. \A e \in Calls : On(e, k) => req[e].via # h BY <1>0, <1>1, OnFacts
<1> QED BY <1>1, <1>2, HeirDeepest

(* A transaction that waits to begin in a session has the session to itself *)
LEMMA ReadyDeepest ==
  ASSUME NInv, NEW c \in Calls, Unfinished(c), ~Statement(c), req[c].via # Root,
         NEW k \in Conns, conn[req[c].via] = k, ~On(c, k)
  PROVE  req[c].via \in Calls /\ Deepest(req[c].via, k)
<1>0. JInv /\ TypeOK /\ Handles(c) /\ Single(c) BY DEF NInv, JInv, IInv, Ordered
<1>1. PICK h : h = req[c].via OBVIOUS
<1>2. h \in Calls /\ pc[h] = "body" /\ On(h, k)
  BY <1>0, <1>1 DEF Handles, Unfinished, TypeOK, Request, On, ScopePC
<1>3. ASSUME NEW e \in Calls, On(e, k), req[e].via = h PROVE FALSE
  <2>1. e # c /\ Unfinished(e) /\ ~Statement(e) BY <1>0, <1>3, OnFacts
  <2> QED BY <1>0, <1>1, <1>3, <2>1 DEF Single
<1> QED BY <1>1, <1>2, <1>3, HeirDeepest

(* and a root transaction a direct resource. *)
LEMMA DirectAlone ==
  ASSUME NInv, ~Pooled, ~Conservative, NEW k \in Conns,
         \A d \in Calls : Unfinished(d) /\ ~Statement(d) /\ req[d].via = Root => ~On(d, k)
  PROVE  Alone(k)
<1>0. JInv BY DEF NInv
<1>1. ASSUME NEW d \in Calls, On(d, k) PROVE FALSE
  <2>1. PICK r \in Calls : /\ Holds(r) /\ conn[r] = k /\ ~Statement(r) /\ pc[r] \in ScopePC
    BY <1>0, <1>1, OnFacts, ScopeHeld, ScopeConstants DEF JInv, On
  <2>2. On(r, k) BY <2>1 DEF On
  <2> QED BY <1>0, <2>1, <2>2, OnFacts DEF Holds
<1> QED BY <1>1 DEF Alone

-----------------------------------------------------------------------------
(* What the operators of the model do to the markers. *)
LEMMA AdmissionMarks ==
  ASSUME TypeOK, NEW k, NEW p \in Int, NEW u \in Int, Admission(k, p, u), NEW r \in Conns
  PROVE  SameMarks(r)
  BY DEF Admission, SameMarks, TypeOK, Mark

LEMMA StartMarks ==
  ASSUME TypeOK, NEW c \in Calls, NEW k \in Conns, Start(c, k), NEW r \in Conns
  PROVE  SameMarks(r)
<1>1. mark[r] \in Mark BY DEF TypeOK
<1>2. CASE ~IsStream(c) BY <1>2 DEF Start, SameMarks
<1>3. CASE IsStream(c)
  <2>1. PICK p : p = IF r = StateOf(req[c].via) THEN mark[r].pendingStreams - 1
                                                ELSE mark[r].pendingStreams
    OBVIOUS
  <2>2. PICK u : u = IF r = k THEN mark[r].streamUsers + 1 ELSE mark[r].streamUsers
    OBVIOUS
  <2>3. mark'[r] = [mark[r] EXCEPT !.pendingStreams = p, !.streamUsers = u]
    BY <1>3, <2>1, <2>2 DEF Start
  <2> QED BY <1>1, <2>3 DEF SameMarks, Mark
<1> QED BY <1>2, <1>3

LEMMA GiveBackMarks ==
  ASSUME TypeOK, NEW c \in Calls, GiveBack(c), NEW r \in Conns
  PROVE  SameMarks(r)
  BY DEF GiveBack, SameMarks, TypeOK, Mark

LEMMA DiscardMarks ==
  ASSUME TypeOK, NEW c \in Calls, NEW k \in Conns, Discard(c, k)
  PROVE  /\ mark'[k] = Fresh /\ conn'[c] = None
         /\ \A r \in Conns \ {k} : SameMarks(r)
  BY DEF Discard, SameMarks, TypeOK

LEMMA ScopeMarks ==
  ASSUME TypeOK, NEW k \in Conns, NEW a \in Calls \cup {None}, NEW b,
         \/ mark' = [mark EXCEPT ![k].activeScope = a]
         \/ mark' = [mark EXCEPT ![k].activeScope = a, ![k].directBusy = b]
  PROVE  /\ mark'[k].activeScope = a
         /\ mark'[k].activeSession = mark[k].activeSession
         /\ \A r \in Conns \ {k} : SameMarks(r)
  BY DEF SameMarks, TypeOK, Mark

LEMMA SessionMarks ==
  ASSUME TypeOK, NEW c \in Calls, NEW k \in Conns, OpenSession(c, k)
  PROVE  /\ mark'[k].activeSession = c
         /\ mark'[k].activeScope = mark[k].activeScope
         /\ \A r \in Conns \ {k} : SameMarks(r)
  BY DEF OpenSession, SameMarks, TypeOK, Mark

LEMMA SparesStreams ==
  ASSUME TypeOK, NEW c \in Calls, LeaveStreams(c)
  PROVE  Spares(c)
  BY DEF LeaveStreams, Spares, TypeOK, Scope

LEMMA SparesOthers ==
  ASSUME TypeOK, NEW c \in Calls, \A d \in Calls \ {c} : scope'[d] = scope[d]
  PROVE  Spares(c)
  BY DEF Spares, TypeOK, Scope

LEMMA SparesSet ==
  ASSUME TypeOK, NEW c \in Calls, NEW s, SetScope(c, s)
  PROVE  /\ Spares(c) /\ scope'[c] = s
         /\ \A d \in Calls \ {c} : scope'[d] = scope[d]
<1>1. /\ scope'[c] = s /\ \A d \in Calls \ {c} : scope'[d] = scope[d]
  BY DEF SetScope, TypeOK
<1> QED BY <1>1, SparesOthers

-----------------------------------------------------------------------------
(* A step of a call that is in no scope of its own, *)
LEMMA OffNests ==
  ASSUME JInv, NEW c \in Calls, pc[c] \notin ScopePC, pc'[c] \notin ScopePC,
         Statement(c)' \/ IsDone(c)', ~Reserved(c), Spares(c),
         \A k \in Conns : SameMarks(k) \/ (Pooled /\ Alone(k) /\ mark'[k] = Fresh)
  PROVE  Nests(c)
<1>1. \A k \in Conns : ~On(c, k) /\ ~On(c, k)' BY DEF On
<1>2. \A k \in Conns : Stands(c, k) \/ Drops(c, k) BY <1>1 DEF Stands, Drops
<1>3. Keeps(c)'
  <2>1. Statement(c)' => ~IsTx(c)' /\ ~IsSession(c)' BY DEF Statement, IsTx, IsSession
  <2>2. IsDone(c)' => ~Unfinished(c)' /\ pc'[c] \notin {"queued", "finalize"}
    BY DEF IsDone, Settled, Unfinished
  <2> QED BY <2>1, <2>2 DEF Keeps, IsNested
<1>4. ~Reserved(c)'
  BY DEF Reserved, IsTx, Statement, IsDone, Settled
<1>5. ~(Unfinished(c)' /\ ~Statement(c)') BY DEF Unfinished
<1> QED BY <1>2, <1>3, <1>4, <1>5 DEF Nests, Shifts

(* of a scope that stays on its resource, *)
LEMMA StayNests ==
  ASSUME NInv, NEW c \in Calls, UNCHANGED <<req, conn, mark>>,
         pc[c] \in ScopePC \ {"finalize"}, pc'[c] \in ScopePC,
         \A d \in Calls \ {c} : scope'[d] = scope[d],
         scope'[c].txScope = scope[c].txScope, scope'[c].prev = scope[c].prev,
         scope'[c].rootPrev = scope[c].rootPrev
  PROVE  Nests(c)
<1>0. /\ JInv /\ TypeOK /\ Keeps(c) /\ Local(c) /\ Kin(c) /\ IInv
  BY DEF NInv, JInv, IInv, Ordered, Whole
<1>1. conn[c] \in Conns /\ conn[c] # None
  BY <1>0, ScopeConstants DEF Local, NeedsConn, ScopePC
<1>2. \A k \in Conns : Stands(c, k) BY <1>1 DEF Stands, On, SameMarks
<1>3. Spares(c) BY <1>0, SparesOthers
<1>4. ~Reserved(c) /\ ~Reserved(c)' BY <1>1 DEF Reserved, ScopePC
<1>5. Unfinished(c) BY DEF Unfinished, IsDone, Settled, ScopePC
<1>6. req[c].via # c BY <1>0, <1>5, NotOwnHandle
<1>7. req[c].via # Root => req[c].via \in Calls /\ scope'[req[c].via] = scope[req[c].via]
  BY <1>0, <1>6 DEF TypeOK, Request
<1>8. /\ ScopeOf(req[c].via)' = ScopeOf(req[c].via)
      /\ IsNested(c)' <=> IsNested(c)
      /\ IsTx(c)' <=> IsTx(c)
      /\ IsSession(c)' <=> IsSession(c)
  BY <1>7 DEF ScopeOf, IsNested, InTransaction, IsTx, IsSession
<1>9. Keeps(c)'
  <2>1. (Unfinished(c) /\ IsTx(c) => scope[c].txScope = c)' BY <1>0, <1>5, <1>8 DEF Keeps
  <2>2. (IsSession(c) /\ pc[c] \in ScopePC \cup {"queued"} =>
          scope[c].txScope = ScopeOf(req[c].via))' BY <1>0, <1>8 DEF Keeps
  <2>3. (Unfinished(c) /\ IsTx(c) /\ req[c].via = Root /\ Conservative
            => scope[c].rootPrev = None)'
    BY <1>0, <1>5, <1>8 DEF Keeps
  <2>4. (Unfinished(c) /\ IsNested(c) => pc[c] \in ScopePC /\ conn[c] = conn[req[c].via])'
    BY <1>0, <1>5, <1>8 DEF Keeps
  <2>5. (~Statement(c) /\ pc[c] = "queued" => req[c].via = Root)'
    BY DEF ScopePC
  <2> QED BY <1>1, <2>1, <2>2, <2>3, <2>4, <2>5 DEF Keeps
<1>10. pc[c] # "unborn" BY DEF ScopePC
<1> QED BY <1>2, <1>3, <1>4, <1>9, <1>10 DEF Nests, Shifts

(* or that is entered. *)
LEMMA EnterNests ==
  ASSUME JInv, NEW c \in Calls, NEW k \in Conns, Enters(c, k), Spares(c), Keeps(c)',
         Conservative /\ req'[c].via = Root => k = Direct,
         pc[c] # "unborn" => req'[c] = req[c],
         \A r \in Conns \ {k} : SameMarks(r),
         pc[c] = "unborn" =>
           \A d \in Calls \ {c} :
              Unfinished(d) /\ ~Statement(d) /\ req[d].via = req'[c].via => req'[c].via = Root
  PROVE  Nests(c)
<1>1. pc[c] \notin ScopePC /\ pc'[c] \in ScopePC /\ conn'[c] = k BY DEF Enters, On
<1>2. \A r \in Conns \ {k} : Stands(c, r) BY <1>1 DEF Stands, On
<1>3. Reserved(c) => k = Direct
  <2>1. Reserved(c) => pc[c] # "unborn" BY DEF Reserved
  <2> QED BY <2>1 DEF Reserved
<1>4. ~Reserved(c)' BY <1>1, ScopeConstants DEF Reserved, ScopePC
<1> QED BY <1>1, <1>2, <1>3, <1>4 DEF Nests, Shifts

(* A step before a scope has its resource. *)
LEMMA BeforeNests ==
  ASSUME JInv, NEW c \in Calls, req' = req,
         pc[c] \in {"ready", "queued", "acquiring"}, ~Statement(c),
         pc'[c] \in {"queued", "acquiring"} \/ (pc'[c] = "finalize" /\ conn'[c] = None),
         Spares(c), Keeps(c)',
         Reserved(c)' <=> Reserved(c),
         \A k \in Conns : SameMarks(k) \/ (Pooled /\ Alone(k) /\ mark'[k] = Fresh)
  PROVE  Nests(c)
<1>1. \A k \in Conns : ~On(c, k) /\ ~On(c, k)' BY ScopeConstants DEF On, ScopePC
<1>2. \A k \in Conns : Stands(c, k) \/ Drops(c, k) BY <1>1 DEF Stands, Drops
<1>3. pc[c] \notin ScopePC /\ pc[c] # "unborn" BY DEF ScopePC
<1> QED BY <1>2, <1>3 DEF Nests, Shifts

-----------------------------------------------------------------------------
(* The steps of statements. *)
LEMMA StatementNests ==
  ASSUME NInv, NEW c \in Calls, Statement(c), req' = req, pc'[c] \notin ScopePC, Spares(c),
         \A k \in Conns : SameMarks(k) \/ (Pooled /\ Alone(k) /\ mark'[k] = Fresh)
  PROVE  Nests(c)
<1>1. JInv /\ Local(c) BY DEF NInv, JInv, IInv
<1>2. pc[c] \notin ScopePC BY <1>1 DEF Local
<1>3. Statement(c)' BY DEF Statement
<1>4. ~Reserved(c) BY DEF Reserved, Statement, IsTx
<1> QED BY <1>1, <1>2, <1>3, <1>4, OffNests

LEMMA RowNests ==
  ASSUME NInv, NEW c \in Calls, Yield(c) \/ Pull(c) \/ Stop(c)
  PROVE  Nests(c)
<1>0. JInv /\ IInv /\ TypeOK /\ Local(c) BY DEF NInv, JInv, IInv
<1>1. /\ UNCHANGED <<req, scope, mark>> /\ Statement(c)
      /\ pc'[c] \in {"running", "suspended", "closing"}
  <2>1. CASE Yield(c)
    BY <1>0, <2>1, GotoFacts DEF Yield, PC, IsStream, Statement
  <2>2. CASE Pull(c)
    BY <1>0, <2>2, GotoFacts DEF Pull, PC, StatementPC, Local
  <2>3. CASE Stop(c)
    BY <1>0, <2>3, GotoFacts DEF Stop, PC, StatementPC, Local
  <2> QED BY <2>1, <2>2, <2>3
<1>2. Spares(c) BY <1>0, <1>1, SparesOthers
<1> QED BY <1>1, <1>2, StatementNests DEF SameMarks, ScopePC

LEMMA ExhaustNests ==
  ASSUME NInv, NEW c \in Calls, Exhaust(c)
  PROVE  Nests(c)
<1>0. JInv /\ IInv /\ TypeOK BY DEF NInv, JInv, IInv
<1>1. Statement(c) /\ req' = req /\ mark' = mark BY DEF Exhaust, IsStream, Statement
<1>2. pc'[c] = "closing" BY <1>0, GotoFacts DEF Exhaust, PC
<1>3. \A d \in Calls \ {c} : scope'[d] = scope[d] BY <1>0 DEF Exhaust, TypeOK
<1>4. Spares(c) BY <1>0, <1>3, SparesOthers
<1> QED BY <1>1, <1>2, <1>4, StatementNests DEF SameMarks, ScopePC

LEMMA CompleteNests ==
  ASSUME NInv, NEW c \in Calls, Complete(c)
  PROVE  Nests(c)
<1>0. JInv /\ IInv /\ TypeOK /\ Local(c) BY DEF NInv, JInv, IInv
<1>1. Statement(c) /\ req' = req BY <1>0 DEF Complete, Local, StatementPC
<1>2. pc'[c] \in {"releasing", "fulfilled", "rejected"}
  BY <1>0, GotoFacts DEF Complete, EndAs, PC, Settled
<1>3. \A d \in Calls \ {c} : scope'[d] = scope[d] BY <1>0 DEF Complete, TypeOK
<1>4. Spares(c) BY <1>0, <1>3, SparesOthers
<1>5. \A k \in Conns : SameMarks(k) BY <1>0, GiveBackMarks DEF Complete
<1> QED BY <1>1, <1>2, <1>4, <1>5, StatementNests DEF ScopePC

LEMMA CloseCursorNests ==
  ASSUME NInv, NEW c \in Calls, CloseCursor(c)
  PROVE  Nests(c)
<1>0. JInv /\ IInv /\ TypeOK /\ Local(c) BY DEF NInv, JInv, IInv
<1>1. Statement(c) /\ req' = req BY <1>0 DEF CloseCursor, Local, StatementPC
<1>2. pc'[c] \in {"releasing", "closed"} BY <1>0, GotoFacts DEF CloseCursor, PC
<1>3. \A d \in Calls \ {c} : scope'[d] = scope[d] BY <1>0 DEF CloseCursor, TypeOK
<1>4. Spares(c) BY <1>0, <1>3, SparesOthers
<1>5. \A k \in Conns : SameMarks(k) BY <1>0, GiveBackMarks DEF CloseCursor
<1> QED BY <1>1, <1>2, <1>4, <1>5, StatementNests DEF ScopePC

LEMMA EndStreamNests ==
  ASSUME NInv, NEW c \in Calls, EndStream(c)
  PROVE  Nests(c)
<1>0. JInv /\ IInv /\ TypeOK /\ Local(c) BY DEF NInv, JInv, IInv
<1>1. Statement(c) /\ req' = req BY <1>0 DEF EndStream, Local, StatementPC
<1>2. pc'[c] \in {"fulfilled", "rejected"}
  BY <1>0, GotoFacts DEF EndStream, EndAs, PC, Settled
<1>3. Spares(c) BY <1>0, SparesStreams DEF EndStream
<1>4. \A k \in Conns : SameMarks(k) BY <1>0, AdmissionMarks DEF EndStream
<1> QED BY <1>1, <1>2, <1>3, <1>4, StatementNests DEF ScopePC

LEMMA AbandonNests ==
  ASSUME NInv, NEW c \in Calls, Statement(c), req' = req, Abandon(c)
  PROVE  Nests(c)
<1>0. JInv /\ IInv /\ TypeOK BY DEF NInv, JInv, IInv
<1>1. pc'[c] = "rejected" BY <1>0, AbandonFacts
<1>2. Spares(c) BY <1>0, SparesStreams DEF Abandon
<1>3. \A k \in Conns : SameMarks(k) BY <1>0, AdmissionMarks DEF Abandon
<1> QED BY <1>1, <1>2, <1>3, StatementNests DEF ScopePC

LEMMA StartNests ==
  ASSUME NInv, NEW c \in Calls, NEW k \in Conns, Statement(c), req' = req, scope' = scope,
         Start(c, k)
  PROVE  Nests(c)
<1>0. JInv /\ IInv /\ TypeOK BY DEF NInv, JInv, IInv
<1>1. pc'[c] = "running" BY <1>0, StartFacts
<1>2. Spares(c) BY <1>0, SparesOthers
<1>3. \A r \in Conns : SameMarks(r) BY <1>0, StartMarks
<1> QED BY <1>1, <1>2, <1>3, StatementNests DEF ScopePC

LEMMA GrantTurnNests ==
  ASSUME NInv, NEW c \in Calls, GrantTurn(c)
  PROVE  Nests(c)
<1>0. Local(c) BY DEF NInv, JInv, IInv
<1>1. conn[c] \in Conns BY <1>0 DEF GrantTurn, Local, NeedsConn
<1> QED BY <1>1, StartNests, AbandonNests DEF GrantTurn

LEMMA GrantTailNests ==
  ASSUME NInv, NEW c \in Calls, GrantTail(c)
  PROVE  Nests(c)
<1>0. Local(c) BY DEF NInv, JInv, IInv
<1>1. conn[c] \in Conns BY <1>0 DEF GrantTail, Local, NeedsConn
<1> QED BY <1>1, StartNests, AbandonNests DEF GrantTail

LEMMA LeaseNests ==
  ASSUME NInv, NEW c \in Calls, Lease(c)
  PROVE  Nests(c)
<1>0. JInv /\ IInv /\ TypeOK BY DEF NInv, JInv, IInv
<1>1. Statement(c) /\ req' = req /\ scope' = scope BY DEF Lease
<1>2. pc'[c] \in {"queued", "acquiring", "running"}
  BY <1>0, GotoFacts DEF Lease, PC
<1>3. Spares(c) BY <1>0, <1>1, SparesOthers
<1>4. ASSUME NEW r \in Conns PROVE SameMarks(r)
  <2>1. CASE mark' = mark BY <2>1 DEF SameMarks
  <2>2. CASE mark' # mark
    <3>1. PICK k : k = StateOf(req[c].via) OBVIOUS
    <3>2. PICK p : p = IF IsStream(c) THEN mark[k].pendingStreams - 1
                                      ELSE mark[k].pendingStreams OBVIOUS
    <3>3. PICK u : u = IF IsStream(c) THEN mark[k].streamUsers + 1
                                      ELSE mark[k].streamUsers OBVIOUS
    <3>4. mark' = [mark EXCEPT ![k].directBusy = TRUE, ![k].pendingStreams = p,
                               ![k].streamUsers = u]
      BY <1>0, <2>2, <3>1, <3>2, <3>3 DEF Lease, TypeOK, Mark
    <3>5. mark[r] \in Mark BY <1>0 DEF TypeOK
    <3> QED BY <1>0, <3>4, <3>5 DEF SameMarks, TypeOK, Mark
  <2> QED BY <2>1, <2>2
<1> QED BY <1>1, <1>2, <1>3, <1>4, StatementNests DEF ScopePC

LEMMA AcquireNests ==
  ASSUME NInv, NEW c \in Calls, Acquire(c)
  PROVE  Nests(c)
<1>0. JInv /\ IInv /\ TypeOK /\ Local(c) BY DEF NInv, JInv, IInv
<1>1. PICK k \in idle :
        IF IsHealthy(k) THEN Start(c, k) /\ scope' = scope
                        ELSE Goto(c, "rejected") /\ Discard(c, k) /\ scope' = scope
  BY DEF Acquire
<1>2. Statement(c) /\ req' = req /\ Pooled BY <1>0 DEF Acquire, Local
<1>3. k \in Conns /\ Alone(k) BY <1>0, <1>2, IdleAlone
<1>4. CASE IsHealthy(k) BY <1>1, <1>2, <1>3, <1>4, StartNests
<1>5. CASE ~IsHealthy(k)
  <2>1. pc'[c] = "rejected" BY <1>0, <1>1, <1>5, GotoFacts DEF PC, Settled
  <2>2. Spares(c) BY <1>0, <1>1, <1>5, SparesOthers
  <2>3. \A r \in Conns : SameMarks(r) \/ (Pooled /\ Alone(r) /\ mark'[r] = Fresh)
    BY <1>0, <1>1, <1>2, <1>3, <1>5, DiscardMarks
  <2> QED BY <1>2, <2>1, <2>2, <2>3, StatementNests DEF ScopePC
<1> QED BY <1>4, <1>5

LEMMA ReleaseNests ==
  ASSUME NInv, NEW c \in Calls, Release(c)
  PROVE  Nests(c)
<1>0. JInv /\ IInv /\ TypeOK /\ Local(c) /\ Mode(c) BY DEF NInv, JInv, IInv, Whole
<1>1. pc[c] = "releasing" /\ conn[c] \in Conns /\ conn[c] # None /\ Pooled /\ req[c].via = Root
  BY <1>0, ScopeConstants DEF Release, Local, NeedsConn, Mode
<1>2. Holds(c) /\ Alone(conn[c])
  <2>1. Holds(c) BY <1>1 DEF Holds
  <2> QED BY <1>0, <1>1, <2>1, RootAlone DEF ScopePC
<1>3. pc'[c] \in {"closed", "fulfilled", "rejected"} /\ (pc'[c] = "closed" => IsStream(c))
  <2>1. CASE IsStream(c) BY <1>0, <2>1, GotoFacts DEF Release, PC
  <2>2. CASE ~IsStream(c) BY <1>0, <2>2, GotoFacts DEF Release, EndAs, PC, Settled
  <2> QED BY <2>1, <2>2
<1>4. \A d \in Calls \ {c} : scope'[d] = scope[d] BY <1>0 DEF Release, TypeOK
<1>5. Spares(c) BY <1>0, <1>4, SparesOthers
<1>6. \A r \in Conns : SameMarks(r) \/ (Pooled /\ Alone(r) /\ mark'[r] = Fresh)
  <2>1. mark' = mark \/ Discard(c, conn[c]) BY DEF Release
  <2> QED BY <1>0, <1>1, <1>2, <2>1, DiscardMarks DEF SameMarks
<1>7. Statement(c)' \/ IsDone(c)'
  <2>1. req' = req BY DEF Release
  <2> QED BY <1>3, <2>1 DEF Statement, IsStream, IsDone, Settled
<1> QED BY <1>0, <1>1, <1>3, <1>5, <1>6, <1>7, OffNests DEF Reserved, ScopePC

LEMMA ExecuteNests ==
  ASSUME NInv, NEW c \in Calls, NEW h, NEW caller \in SUBSET Calls, Execute(c, h, caller)
  PROVE  Nests(c)
<1>0. JInv /\ IInv /\ TypeOK BY DEF NInv, JInv, IInv
<1>1. pc[c] = "unborn" /\ req'[c].kind = "execute" BY <1>0, MakeFacts DEF Execute
<1>2. pc'[c] \in {"ready", "rejected"} BY <1>0, GotoFacts DEF Execute, PC, Settled
<1>3. scope' = scope /\ mark' = mark BY DEF Execute
<1>4. Spares(c) BY <1>0, <1>3, SparesOthers
<1>5. Statement(c)' BY <1>1 DEF Statement
<1> QED BY <1>0, <1>1, <1>2, <1>3, <1>4, <1>5, OffNests DEF SameMarks, Reserved, ScopePC

LEMMA StreamNests ==
  ASSUME NInv, NEW c \in Calls, NEW h, NEW caller \in SUBSET Calls, Stream(c, h, caller)
  PROVE  Nests(c)
<1>0. JInv /\ IInv /\ TypeOK BY DEF NInv, JInv, IInv
<1>1. pc[c] = "unborn" /\ req'[c].kind = "stream" BY <1>0, MakeFacts DEF Stream
<1>2. pc'[c] \in {"ready", "rejected"} BY <1>0, GotoFacts DEF Stream, PC, Settled
<1>3. Spares(c)
  <2>1. CASE scope' = scope BY <1>0, <2>1, SparesOthers
  <2>2. CASE scope' = [scope EXCEPT ![h].streams = Append(@, c)]
    BY <1>0, <2>2 DEF Spares, TypeOK, Scope
  <2> QED BY <2>1, <2>2 DEF Stream
<1>4. \A r \in Conns : SameMarks(r)
  BY <1>0, AdmissionMarks DEF Stream, SameMarks
<1>5. Statement(c)' BY <1>1 DEF Statement
<1> QED BY <1>0, <1>1, <1>2, <1>3, <1>4, <1>5, OffNests DEF Reserved, ScopePC

-----------------------------------------------------------------------------
(* The steps of scopes: from the beginning to the end of their callbacks.   *)
(* What a scope has saved, until its finally block. *)
SameClosure(c) ==
    /\ \A d \in Calls \ {c} : scope'[d] = scope[d]
    /\ scope'[c].txScope = scope[c].txScope /\ scope'[c].prev = scope[c].prev
    /\ scope'[c].rootPrev = scope[c].rootPrev

LEMMA ClosureKeeps ==
  ASSUME TypeOK, NEW c \in Calls, NEW s, SetScope(c, s),
         s.txScope = scope[c].txScope, s.prev = scope[c].prev, s.rootPrev = scope[c].rootPrev
  PROVE  SameClosure(c)
  BY DEF SetScope, SameClosure, TypeOK

LEMMA FinishKeeps ==
  ASSUME TypeOK, NEW c \in Calls, NEW o, Finish(c, o)
  PROVE  SameClosure(c) /\ pc'[c] = "drain"
  BY DEF Finish, Goto, SetScope, SameClosure, TypeOK, Scope

LEMMA ControlFailsKeeps ==
  ASSUME TypeOK, NEW c \in Calls, ControlFails(c)
  PROVE  SameClosure(c) /\ pc'[c] \in {"drain", "finalize"}
<1>1. CASE scope[c].phase \in Cleanup
  BY <1>1 DEF ControlFails, Goto, SameClosure, TypeOK
<1>2. CASE scope[c].phase \notin Cleanup
  BY <1>2, FinishKeeps DEF ControlFails
<1> QED BY <1>1, <1>2

LEMMA NextControlKeeps ==
  ASSUME TypeOK, NEW c \in Calls, NEW p, NextControl(c, p)
  PROVE  SameClosure(c) /\ pc'[c] = "announce"
  BY DEF NextControl, Goto, SetScope, SameClosure, TypeOK, Scope

LEMMA OnwardNests ==
  ASSUME NInv, NEW c \in Calls, UNCHANGED <<req, conn, mark>>,
         pc[c] \in ScopePC \ {"finalize"}, pc'[c] \in ScopePC, SameClosure(c)
  PROVE  Nests(c)
  BY StayNests DEF SameClosure

LEMMA ControlKeeps ==
  ASSUME TypeOK, NEW c \in Calls, Announce(c) \/ Turn(c) \/ Control(c) \/ Announced(c)
  PROVE  /\ UNCHANGED <<req, conn, mark>> /\ pc[c] \in {"announce", "turn", "driver", "announced"}
         /\ SameClosure(c) /\ pc'[c] \in ScopePC
<1>0. TypeOK OBVIOUS
<1>1. UNCHANGED <<req, conn, mark>> /\ pc[c] \in {"announce", "turn", "driver", "announced"}
  BY DEF Announce, Turn, Control, Announced
<1>2. SameClosure(c) /\ pc'[c] \in ScopePC
  <2>0. scope[c] \in Scope BY <1>0 DEF TypeOK
  <2>1. CASE Announce(c)
    <3>1. CASE TakeTurn(c, conn[c]) /\ UNCHANGED scope
      BY <1>0, <3>1 DEF TakeTurn, Goto, SameClosure, ScopePC, TypeOK
    <3>2. CASE ControlFails(c) BY <1>0, <3>2, ControlFailsKeeps DEF ScopePC
    <3> QED BY <2>1, <3>1, <3>2 DEF Announce
  <2>2. CASE Turn(c) BY <1>0, <2>2 DEF Turn, Goto, SameClosure, ScopePC, TypeOK
  <2>3. CASE Control(c)
    <3>1. pc'[c] = "announced" BY <1>0, <2>3 DEF Control, Goto, TypeOK
    <3>2. CASE SetScope(c, [scope[c] EXCEPT
                !.started   = @ \/ scope[c].phase \in {"begin", "savepoint"},
                !.completed = @ \/ scope[c].phase \in {"commit", "release"}])
      <4>1. PICK a : a = (scope[c].started \/ scope[c].phase \in {"begin", "savepoint"})
        OBVIOUS
      <4>2. PICK b : b = (scope[c].completed \/ scope[c].phase \in {"commit", "release"})
        OBVIOUS
      <4>3. PICK t : t = [scope[c] EXCEPT !.started = a, !.completed = b] OBVIOUS
      <4>4. SetScope(c, t) BY <3>2, <4>1, <4>2, <4>3
      <4>5. t.txScope = scope[c].txScope /\ t.prev = scope[c].prev
            /\ t.rootPrev = scope[c].rootPrev
        BY <2>0, <4>3 DEF Scope
      <4> QED BY <1>0, <3>1, <4>4, <4>5, ClosureKeeps DEF ScopePC
    <3>3. CASE SetScope(c, [scope[c] EXCEPT !.outcome = "failed"])
      <4>1. PICK t : t = [scope[c] EXCEPT !.outcome = "failed"] OBVIOUS
      <4>2. SetScope(c, t) BY <3>3, <4>1
      <4>3. t.txScope = scope[c].txScope /\ t.prev = scope[c].prev
            /\ t.rootPrev = scope[c].rootPrev
        BY <2>0, <4>1 DEF Scope
      <4> QED BY <1>0, <3>1, <4>2, <4>3, ClosureKeeps DEF ScopePC
    <3>4. SameClosure(c) BY <2>3, <3>2, <3>3 DEF Control
    <3> QED BY <3>1, <3>4 DEF ScopePC
  <2>4. CASE Announced(c)
    <3>1. CASE pc'[c] \in ScopePC /\ UNCHANGED scope BY <3>1 DEF SameClosure
    <3>2. CASE ControlFails(c) BY <1>0, <3>2, ControlFailsKeeps DEF ScopePC
    <3>3. CASE /\ Goto(c, "announce")
               /\ SetScope(c, [scope[c] EXCEPT !.phase = "discard-savepoint"])
      BY <1>0, <3>3 DEF Goto, SetScope, SameClosure, ScopePC, TypeOK, Scope
    <3>4. Goto(c, "body") \/ Goto(c, "finalize") => pc'[c] \in ScopePC
      BY <1>0 DEF Goto, ScopePC, TypeOK
    <3> QED BY <2>4, <3>1, <3>2, <3>3, <3>4 DEF Announced
  <2> QED BY <2>1, <2>2, <2>3, <2>4
<1> QED BY <1>1, <1>2

LEMMA ControlNests ==
  ASSUME NInv, NEW c \in Calls, Announce(c) \/ Turn(c) \/ Control(c) \/ Announced(c)
  PROVE  Nests(c)
  BY ControlKeeps, OnwardNests DEF ScopePC, NInv, JInv, IInv

LEMMA CallbackKeeps ==
  ASSUME TypeOK, NEW c \in Calls, Return(c) \/ Drain(c) \/ Finished(c)
  PROVE  /\ UNCHANGED <<req, conn, mark>> /\ pc[c] \in {"body", "drain", "tail"}
         /\ SameClosure(c) /\ pc'[c] \in ScopePC
<1>0. TypeOK OBVIOUS
<1>1. UNCHANGED <<req, conn, mark>> /\ pc[c] \in {"body", "drain", "tail"}
  BY DEF Return, Drain, Finished
<1>2. SameClosure(c) /\ pc'[c] \in ScopePC
  <2>0. scope[c] \in Scope BY <1>0 DEF TypeOK
  <2>1. CASE Return(c) BY <1>0, <2>1, FinishKeeps DEF Return, ScopePC
  <2>2. CASE Drain(c)
    <3>1. pc'[c] \in ScopePC BY <1>0, <2>2 DEF Drain, Goto, TypeOK, ScopePC
    <3>2. CASE SetScope(c, [scope[c] EXCEPT !.drain = Tail(@)])
      <4>1. PICK t : t = [scope[c] EXCEPT !.drain = Tail(@)] OBVIOUS
      <4>2. SetScope(c, t) BY <3>2, <4>1
      <4>3. t.txScope = scope[c].txScope /\ t.prev = scope[c].prev
            /\ t.rootPrev = scope[c].rootPrev
        BY <2>0, <4>1 DEF Scope
      <4> QED BY <1>0, <3>1, <4>2, <4>3, ClosureKeeps DEF ScopePC
    <3>3. CASE SetScope(c, [scope[c] EXCEPT !.awaited = Ahead(conn[c])])
      <4>1. PICK t : t = [scope[c] EXCEPT !.awaited = Ahead(conn[c])] OBVIOUS
      <4>2. SetScope(c, t) BY <3>3, <4>1
      <4>3. t.txScope = scope[c].txScope /\ t.prev = scope[c].prev
            /\ t.rootPrev = scope[c].rootPrev
        BY <2>0, <4>1 DEF Scope
      <4> QED BY <1>0, <3>1, <4>2, <4>3, ClosureKeeps DEF ScopePC
    <3> QED BY <2>2, <3>1, <3>2, <3>3 DEF Drain
  <2>3. CASE Finished(c)
    <3>1. CASE Finish(c, "failed") BY <1>0, <3>1, FinishKeeps DEF ScopePC
    <3>2. CASE \E p \in Phase : NextControl(c, p)
      BY <1>0, <3>2, NextControlKeeps DEF ScopePC
    <3>3. CASE Goto(c, "finalize") /\ UNCHANGED scope
      BY <1>0, <3>3 DEF SameClosure, Goto, TypeOK, ScopePC
    <3> QED BY <2>3, <3>1, <3>2, <3>3 DEF Finished, Phase
  <2> QED BY <2>1, <2>2, <2>3
<1> QED BY <1>1, <1>2

LEMMA CallbackNests ==
  ASSUME NInv, NEW c \in Calls, Return(c) \/ Drain(c) \/ Finished(c)
  PROVE  Nests(c)
  BY CallbackKeeps, OnwardNests DEF ScopePC, NInv, JInv, IInv

-----------------------------------------------------------------------------
(* A transaction that has, or fails to have, its resource. *)
LEMMA BeginKeeps ==
  ASSUME TypeOK, NEW c \in Calls, NEW k \in Conns, Begin(c, k)
  PROVE  SameClosure(c) /\ pc'[c] \in {"turn", "drain"} /\ conn'[c] = k
<1>1. conn'[c] = k /\ pc'[c] \in {"turn", "drain"} BY BeginFacts
<1>2. CASE UNCHANGED scope BY <1>1, <1>2 DEF SameClosure
<1>3. CASE Finish(c, "failed") BY <1>1, <1>3, FinishKeeps
<1> QED BY <1>2, <1>3 DEF Begin

LEMMA NoResourceKeeps ==
  ASSUME TypeOK, NEW c \in Calls, NoResource(c)
  PROVE  SameClosure(c) /\ pc'[c] = "finalize"
<1>1. pc'[c] = "finalize" BY NoResourceFacts
<1>2. PICK t : t = [scope[c] EXCEPT !.outcome = "failed"] OBVIOUS
<1>3. SetScope(c, t) BY <1>2 DEF NoResource
<1>4. t.txScope = scope[c].txScope /\ t.prev = scope[c].prev /\ t.rootPrev = scope[c].rootPrev
  BY <1>2 DEF TypeOK, Scope
<1> QED BY <1>1, <1>3, <1>4, ClosureKeeps

(* Until it has its resource a transaction is not in another one. *)
LEMMA WaitsOutside ==
  ASSUME NInv, NEW c \in Calls, IsTx(c), pc[c] \in {"ready", "queued", "acquiring"}
  PROVE  /\ ~Statement(c) /\ ~IsSession(c) /\ Unfinished(c) /\ ~IsNested(c)
         /\ scope[c].txScope = c
         /\ req[c].via = Root /\ Conservative => scope[c].rootPrev = None
         /\ req[c].via # c
         /\ req[c].via # Root =>
              /\ req[c].via \in Calls /\ pc[req[c].via] = "body"
              /\ conn[req[c].via] \in Conns
<1>0. /\ TypeOK /\ IInv /\ Kin(c) /\ Keeps(c) /\ Handles(c)
      /\ \A d \in Calls : Local(d)
  BY DEF NInv, JInv, IInv, Ordered, Whole
<1>1. ~Statement(c) /\ ~IsSession(c) BY DEF IsTx, Statement, IsSession
<1>2. Unfinished(c) BY DEF Unfinished, IsDone, Settled
<1>3. req[c].via # c BY <1>0, <1>2, NotOwnHandle
<1>4. ~IsNested(c) BY <1>0, <1>2 DEF Keeps, ScopePC
<1>5. ASSUME req[c].via # Root
      PROVE  /\ req[c].via \in Calls /\ pc[req[c].via] = "body"
             /\ conn[req[c].via] \in Conns
  <2>1. req[c].via \in Calls /\ pc[req[c].via] = "body"
    BY <1>0, <1>1, <1>2, <1>5 DEF Handles, Unfinished, TypeOK, Request
  <2> QED BY <1>0, <2>1 DEF Local, NeedsConn
<1> QED BY <1>0, <1>1, <1>2, <1>3, <1>4, <1>5 DEF Keeps

LEMMA WaitsKeep ==
  ASSUME NInv, NEW c \in Calls, IsTx(c), pc[c] \in {"ready", "queued", "acquiring"},
         req' = req, SameClosure(c), pc'[c] = "queued" => req[c].via = Root
  PROVE  Keeps(c)' /\ ~IsNested(c)' /\ ~Statement(c)' /\ IsTx(c)' /\ ~IsSession(c)'
<1>1. /\ ~Statement(c) /\ ~IsSession(c) /\ Unfinished(c) /\ ~IsNested(c)
      /\ scope[c].txScope = c /\ req[c].via # c
      /\ req[c].via = Root /\ Conservative => scope[c].rootPrev = None
      /\ req[c].via # Root => req[c].via \in Calls
  BY WaitsOutside
<1>2. IsTx(c)' /\ ~IsSession(c)' /\ ~Statement(c)'
  BY <1>1 DEF IsTx, IsSession, Statement
<1>3. ~IsNested(c)' BY <1>1 DEF IsNested, InTransaction, SameClosure, IsTx
<1> QED BY <1>1, <1>2, <1>3 DEF Keeps, SameClosure

LEMMA BeginNests ==
  ASSUME NInv, NEW c \in Calls, IsTx(c), pc[c] \in {"ready", "queued", "acquiring"},
         req' = req, NEW k \in Conns, Begin(c, k),
         mark'[k].activeScope = c, mark'[k].activeSession = mark[k].activeSession,
         \A r \in Conns \ {k} : SameMarks(r),
         IF req[c].via = Root THEN Alone(k) /\ (Conservative => k = Direct /\ Reserved(c))
                              ELSE conn[req[c].via] = k
  PROVE  Nests(c)
<1>0. JInv /\ TypeOK BY DEF NInv, JInv, IInv
<1>1. SameClosure(c) /\ pc'[c] \in {"turn", "drain"} /\ conn'[c] = k
  BY <1>0, BeginKeeps
<1>2. Keeps(c)' /\ ~IsNested(c)' /\ IsTx(c)' /\ ~IsSession(c)' BY <1>1, WaitsKeep
<1>3. Spares(c) BY <1>0, <1>1, SparesOthers DEF SameClosure
<1>4. pc[c] \notin ScopePC /\ On(c, k)' BY <1>1 DEF On, ScopePC
<1>5. IF req'[c].via = Root
        THEN Alone(k) /\ (Conservative => Reserved(c) \/ mark[k].activeScope = None)
        ELSE Deepest(req'[c].via, k)
  <2>1. ASSUME req[c].via # Root PROVE Deepest(req[c].via, k)
    <3>1. Unfinished(c) /\ ~Statement(c) BY WaitsOutside
    <3>2. ~On(c, k) BY <1>4 DEF On
    <3> QED BY <2>1, <3>1, <3>2, ReadyDeepest
  <2> QED BY <2>1
<1>6. Enters(c, k) BY <1>2, <1>4, <1>5 DEF Enters
<1> QED BY <1>0, <1>2, <1>3, <1>6, EnterNests

LEMMA LeaseTxNests ==
  ASSUME NInv, NEW c \in Calls, LeaseTx(c)
  PROVE  Nests(c)
<1>0. JInv /\ TypeOK /\ Local(c) /\ Booked(c) BY DEF NInv, JInv, IInv, Ordered
<1>1. PICK h : h = req[c].via OBVIOUS
<1>2. PICK k : k = StateOf(h) OBVIOUS
<1>3. pc[c] = "ready" /\ IsTx(c) /\ req' = req /\ MayBegin(c) BY DEF LeaseTx
<1>4. conn[c] = None BY <1>0, <1>3 DEF Local
<1>5. CASE /\ h # Root \/ Conservative
           /\ Begin(c, k)
           /\ mark' = [mark EXCEPT ![k].activeScope = c, ![k].directBusy = @ \/ h = Root]
  <2>1. k \in Conns
    BY <1>1, <1>2, <1>3, <1>5, WaitsOutside, DirectIsConn, ScopeConstants DEF StateOf
  <2>2. /\ mark'[k].activeScope = c
        /\ mark'[k].activeSession = mark[k].activeSession
        /\ \A r \in Conns \ {k} : SameMarks(r)
    <3>1. PICK b : b = (mark[k].directBusy \/ h = Root) OBVIOUS
    <3>2. mark' = [mark EXCEPT ![k].activeScope = c, ![k].directBusy = b]
      BY <1>0, <1>5, <2>1, <3>1 DEF TypeOK, Mark
    <3> QED BY <1>0, <2>1, <3>2, ScopeMarks
  <2>3. CASE h = Root
    <3>1. Conservative /\ ~Pooled /\ k = Direct
      BY <1>2, <1>5, <2>3, ScopeConstants DEF StateOf
    <3>2. Reserved(c) BY <1>1, <1>3, <2>3, <3>1 DEF Reserved
    <3>3. Alone(k) BY <1>0, <3>1, <3>2 DEF Booked
    <3> QED BY <1>1, <1>3, <1>5, <2>1, <2>2, <2>3, <3>1, <3>2, <3>3, BeginNests
  <2>4. CASE h # Root
    <3>1. conn[h] = k BY <1>2, <2>4 DEF StateOf
    <3> QED BY <1>1, <1>3, <1>5, <2>1, <2>2, <2>4, <3>1, BeginNests
  <2> QED BY <2>3, <2>4
<1>6. CASE /\ h = Root /\ ~Conservative
           /\ pc'[c] \in {"acquiring", "queued"}
           /\ UNCHANGED <<scope, mark>>
  <2>1. SameClosure(c) /\ Spares(c) /\ \A r \in Conns : SameMarks(r)
    BY <1>0, <1>6, SparesOthers DEF SameClosure, SameMarks
  <2>2. ~Statement(c) BY <1>3, WaitsOutside
  <2>3. Keeps(c)' BY <1>1, <1>3, <1>6, <2>1, WaitsKeep
  <2> QED BY <1>0, <1>3, <1>6, <2>1, <2>2, <2>3, BeforeNests DEF Reserved
<1>7. (Goto(c, "acquiring") \/ Goto(c, "queued")) => pc'[c] \in {"acquiring", "queued"}
  BY <1>0 DEF Goto, TypeOK
<1> QED BY <1>1, <1>2, <1>5, <1>6, <1>7, ScopeConstants DEF LeaseTx

LEMMA NoResourceNests ==
  ASSUME NInv, NEW c \in Calls, IsTx(c), pc[c] \in {"ready", "queued", "acquiring"},
         req' = req, NoResource(c), conn'[c] = None,
         pc[c] = "ready" \/ ~Conservative,
         \A k \in Conns : SameMarks(k) \/ (Pooled /\ Alone(k) /\ mark'[k] = Fresh)
  PROVE  Nests(c)
<1>0. JInv /\ TypeOK BY DEF NInv, JInv, IInv
<1>1. SameClosure(c) /\ pc'[c] = "finalize" BY <1>0, NoResourceKeeps
<1>2. Spares(c) BY <1>0, <1>1, SparesOthers DEF SameClosure
<1>3. Keeps(c)' /\ ~Statement(c) BY <1>1, WaitsKeep, WaitsOutside
<1>4. Reserved(c)' <=> Reserved(c) BY <1>1 DEF Reserved, IsTx
<1> QED BY <1>0, <1>1, <1>2, <1>3, <1>4, BeforeNests

LEMMA RefuseTxNests ==
  ASSUME NInv, NEW c \in Calls, RefuseTx(c)
  PROVE  Nests(c)
<1>0. TypeOK /\ Local(c) BY DEF NInv, JInv, IInv
<1>1. conn'[c] = None BY <1>0 DEF RefuseTx, Local
<1> QED BY <1>1, NoResourceNests DEF RefuseTx, SameMarks

LEMMA GrantTxNests ==
  ASSUME NInv, NEW c \in Calls, GrantTx(c)
  PROVE  Nests(c)
<1>0. JInv /\ TypeOK /\ Local(c) /\ Mode(c) /\ Keeps(c)
  BY DEF NInv, JInv, IInv, Ordered, Whole
<1>1. /\ pc[c] = "queued" /\ IsTx(c) /\ HasTail(c) /\ req' = req
      /\ ~Statement(c) /\ conn[c] \in Conns
  BY <1>0 DEF GrantTx, IsTx, Statement, Local, NeedsConn
<1>2. req[c].via = Root /\ ~Pooled /\ ~Conservative BY <1>0, <1>1 DEF Keeps, Mode
<1>3. Alone(conn[c]) BY <1>0, <1>1, <1>2, HeadAlone DEF ScopePC
<1>4. CASE IsHealthy(conn[c])
  <2>1. Begin(c, conn[c]) /\ mark' = [mark EXCEPT ![conn[c]].activeScope = c]
    BY <1>4 DEF GrantTx
  <2>2. /\ mark'[conn[c]].activeScope = c
        /\ mark'[conn[c]].activeSession = mark[conn[c]].activeSession
        /\ \A r \in Conns \ {conn[c]} : SameMarks(r)
    BY <1>0, <1>1, <2>1, ScopeMarks
  <2> QED BY <1>1, <1>2, <1>3, <2>1, <2>2, BeginNests
<1>5. CASE ~IsHealthy(conn[c])
  <2>1. NoResource(c) /\ conn'[c] = None /\ mark' = mark
    BY <1>0, <1>5 DEF GrantTx, TypeOK
  <2> QED BY <1>1, <1>2, <2>1, NoResourceNests DEF SameMarks
<1> QED BY <1>4, <1>5

LEMMA AcquireTxNests ==
  ASSUME NInv, NEW c \in Calls, AcquireTx(c)
  PROVE  Nests(c)
<1>0. JInv /\ TypeOK /\ Local(c) BY DEF NInv, JInv, IInv
<1>1. /\ pc[c] = "acquiring" /\ IsTx(c) /\ req' = req
      /\ Pooled /\ req[c].via = Root /\ ~Conservative
  BY <1>0, ScopeConstants DEF AcquireTx, Local
<1>2. PICK k \in idle :
         IF IsHealthy(k)
           THEN /\ Begin(c, k)
                /\ mark' = [mark EXCEPT ![k].activeScope = c]
           ELSE NoResource(c) /\ Discard(c, k)
  BY DEF AcquireTx
<1>3. k \in Conns /\ Alone(k) BY <1>0, <1>1, IdleAlone
<1>4. CASE IsHealthy(k)
  <2>1. /\ mark'[k].activeScope = c
        /\ mark'[k].activeSession = mark[k].activeSession
        /\ \A r \in Conns \ {k} : SameMarks(r)
    BY <1>0, <1>2, <1>3, <1>4, ScopeMarks
  <2> QED BY <1>1, <1>2, <1>3, <1>4, <2>1, BeginNests
<1>5. CASE ~IsHealthy(k)
  <2>1. conn'[c] = None /\ \A r \in Conns : SameMarks(r) \/ (Alone(r) /\ mark'[r] = Fresh)
    BY <1>0, <1>2, <1>3, <1>5, DiscardMarks
  <2> QED BY <1>1, <1>2, <1>5, <2>1, NoResourceNests
<1> QED BY <1>4, <1>5

-----------------------------------------------------------------------------
(* The steps in which a scope is opened by the application, *)
LEMMA MadeNests ==
  ASSUME JInv, NEW c \in Calls, pc[c] = "unborn", pc'[c] \notin ScopePC, Spares(c), Keeps(c)',
         Reserved(c)' => Reserves(c, Direct),
         Unfinished(c)' /\ ~Statement(c)' =>
           \A d \in Calls \ {c} :
              Unfinished(d) /\ ~Statement(d) /\ req[d].via = req'[c].via => req'[c].via = Root,
         \A k \in Conns : SameMarks(k) \/ Reserves(c, k)
  PROVE  Nests(c)
<1>1. \A k \in Conns : ~On(c, k) /\ ~On(c, k)' BY DEF On, ScopePC
<1>2. \A k \in Conns : Stands(c, k) \/ Reserves(c, k) BY <1>1 DEF Stands
<1>3. ~Reserved(c) BY DEF Reserved
<1> QED BY <1>2, <1>3 DEF Nests, Shifts, ScopePC

LEMMA RefusedNests ==
  ASSUME JInv, NEW c \in Calls, pc[c] = "unborn", pc'[c] = "rejected",
         UNCHANGED <<scope, mark>>
  PROVE  Nests(c)
<1>1. TypeOK BY DEF JInv, IInv
<1>2. Spares(c) BY <1>1, SparesOthers
<1>3. IsDone(c)' BY DEF IsDone, Settled
<1> QED BY <1>2, <1>3, OffNests DEF SameMarks, Reserved, ScopePC

(* a transaction: a savepoint at once, others when they have a resource; *)
LEMMA TxNests ==
  ASSUME NInv, NEW c \in Calls, NEW h, NEW caller \in SUBSET Calls, Around(caller),
         Tx(c, h, caller), Orderly
  PROVE  Nests(c)
<1>0. JInv /\ IInv /\ TypeOK BY DEF NInv, JInv, IInv
<1>k. PICK k : k = StateOf(h) OBVIOUS
<1>p. PICK p, prev, root :
         /\ p = IF InTransaction(h) THEN "savepoint" ELSE "begin"
         /\ prev = IF InTransaction(h) THEN mark[k].activeScope ELSE None
         /\ root = IF h = Root /\ ~Pooled THEN mark[k].activeScope ELSE None
  OBVIOUS
<1>1. /\ pc[c] = "unborn" /\ conn[c] = None
      /\ req'[c].kind = "tx" /\ req'[c].via = h /\ h \in Calls \cup {Root} /\ h # c
      /\ h # Root => conn[h] \in Conns /\ (IsOpen(h) => pc[h] = "body")
      /\ \A l \in PC : Goto(c, l) => pc'[c] = l
  BY <1>0, MadeFacts DEF Tx
<1>2. Permitted("tx", h, caller) BY DEF Tx, Make
<1>3. IsTx(c)' /\ ~IsSession(c)' /\ ~Statement(c)' BY <1>1 DEF IsTx, IsSession, Statement
<1>4. CASE pc'[c] = "rejected" /\ UNCHANGED <<scope, mark>> BY <1>0, <1>1, <1>4, RefusedNests
<1>5. CASE /\ IsOpen(h) /\ IsHealthy(k)
           /\ h = Root /\ Conservative => RootAllowed(caller, FALSE)
           /\ Goto(c, IF InTransaction(h) THEN "announce" ELSE "ready")
           /\ conn' = IF InTransaction(h) THEN [conn EXCEPT ![c] = k] ELSE conn
           /\ SetScope(c, [NewScope EXCEPT !.txScope = c, !.phase = p,
                                           !.prev = prev, !.rootPrev = root])
           /\ mark' = IF InTransaction(h) \/ (h = Root /\ Conservative)
                      THEN [mark EXCEPT ![k].activeScope = c] ELSE mark
  <2>1. /\ Spares(c) /\ \A d \in Calls \ {c} : scope'[d] = scope[d]
        /\ scope'[c].txScope = c /\ scope'[c].prev = prev /\ scope'[c].rootPrev = root
    <3>1. PICK t : t = [NewScope EXCEPT !.txScope = c, !.phase = p,
                                        !.prev = prev, !.rootPrev = root]
      OBVIOUS
    <3>2. t.txScope = c /\ t.prev = prev /\ t.rootPrev = root BY <3>1 DEF NewScope
    <3>3. SetScope(c, t) BY <1>5, <3>1
    <3> QED BY <1>0, <3>2, <3>3, SparesSet
  <2>2. InTransaction(h)' <=> InTransaction(h) BY <1>1, <2>1 DEF InTransaction
  <2>3. h # Root => /\ k = conn[h] /\ k \in Conns /\ On(h, k) /\ h \in Calls
                    /\ ~Tainted(k)
    BY <1>1, <1>k, <1>5 DEF StateOf, On, ScopePC, Tainted, IsHealthy
  <2>4. ASSUME NEW d \in Calls, Unfinished(d), ~Statement(d), req[d].via = h
        PROVE  h = Root
    BY <1>2, <1>5, <2>3, <2>4, OpenedDeepest
  <2>5. CASE InTransaction(h)
    <3>0. h # Root BY <2>5 DEF InTransaction
    <3>1. pc'[c] = "announce" /\ conn' = [conn EXCEPT ![c] = k]
          /\ mark' = [mark EXCEPT ![k].activeScope = c]
      BY <1>1, <1>5, <2>5 DEF PC
    <3>2. conn'[c] = k /\ conn'[h] = conn[h] BY <1>0, <1>1, <2>3, <3>0, <3>1 DEF TypeOK
    <3>3. /\ mark'[k].activeScope = c
          /\ mark'[k].activeSession = mark[k].activeSession
          /\ \A r \in Conns \ {k} : SameMarks(r)
      BY <1>0, <2>3, <3>0, <3>1, ScopeMarks
    <3>4. prev = scope[h].txScope BY <1>p, <1>5, <2>3, <2>5, <3>0 DEF IsOpen
    <3>5. Keeps(c)'
      BY <1>1, <1>3, <2>1, <2>3, <3>0, <3>1, <3>2 DEF Keeps, ScopePC
    <3>6. Deepest(h, k) BY <1>2, <1>5, <2>3, <3>0, OpenedDeepest
    <3>7. ScopeOf(req[c].via)' = scope[h].txScope
      BY <1>1, <2>1, <2>3, <3>0 DEF ScopeOf
    <3>8. Enters(c, k)
      <4>1. On(c, k)' /\ pc[c] \notin ScopePC BY <1>1, <3>1, <3>2 DEF On, ScopePC
      <4>2. scope'[c].prev = ScopeOf(req'[c].via)
        BY <1>1, <2>1, <2>3, <3>0, <3>4 DEF ScopeOf
      <4> QED BY <1>1, <1>3, <2>1, <3>0, <3>3, <3>4, <3>6, <3>7, <4>1, <4>2 DEF Enters
    <3> QED BY <1>0, <1>1, <2>1, <2>3, <2>4, <3>0, <3>3, <3>5, <3>8, EnterNests
  <2>6. CASE ~InTransaction(h)
    <3>1. pc'[c] = "ready" /\ conn'[c] = None BY <1>1, <1>5, <2>6 DEF PC
    <3>2. ~IsNested(c)' BY <1>1, <2>2, <2>6 DEF IsNested
    <3>3. h = Root /\ Conservative =>
             mark[Direct].activeScope = None /\ Alone(Direct) /\ k = Direct
      <4>1. SUFFICES ASSUME h = Root, Conservative
                     PROVE  mark[Direct].activeScope = None /\ Alone(Direct)
        BY <1>k, ScopeConstants DEF StateOf
      <4>2. mark[Direct].activeScope = None /\ mark[Direct].activeSession = None
        BY <1>5, <4>1 DEF RootAllowed
      <4>3. ~Tainted(Direct) BY <4>1 DEF Tainted, Loose
      <4> QED BY <4>2, <4>3, DirectIsConn, UnmarkedAlone
    <3>4. Keeps(c)'
      <4>1. h = Root /\ Conservative => root = None BY <1>p, <3>3
      <4> QED BY <1>1, <1>3, <2>1, <3>1, <3>2, <4>1 DEF Keeps, ScopePC
    <3>5. pc'[c] \notin ScopePC BY <3>1 DEF ScopePC
    <3>6. CASE h = Root /\ Conservative
      <4>1. k = Direct /\ ~Pooled /\ k \in Conns
        BY <1>k, <3>6, DirectIsConn, ScopeConstants DEF StateOf
      <4>2. mark' = [mark EXCEPT ![k].activeScope = c] BY <1>5, <3>6
      <4>3. mark'[k].activeScope = c /\ \A r \in Conns \ {k} : SameMarks(r)
        BY <1>0, <4>1, <4>2, ScopeMarks
      <4>4. Reserved(c)' BY <1>1, <1>3, <3>1, <3>6 DEF Reserved
      <4>5. ~On(c, Direct)' /\ ~Reserved(c) BY <1>1, <3>5 DEF On, Reserved
      <4>6. Reserves(c, Direct) BY <3>3, <3>6, <4>1, <4>3, <4>4, <4>5 DEF Reserves
      <4>7. \A r \in Conns : SameMarks(r) \/ Reserves(c, r) BY <4>1, <4>3, <4>6
      <4> QED BY <1>0, <1>1, <2>1, <2>4, <3>4, <3>5, <4>6, <4>7, MadeNests
    <3>7. CASE ~(h = Root /\ Conservative)
      <4>1. mark' = mark BY <1>5, <2>6, <3>7
      <4>2. ~Reserved(c)' BY <1>1, <3>7 DEF Reserved
      <4> QED BY <1>0, <1>1, <2>1, <2>4, <3>4, <3>5, <4>1, <4>2, MadeNests DEF SameMarks
    <3> QED BY <3>6, <3>7
  <2> QED BY <2>5, <2>6
<1> QED
  <2>1. CASE Goto(c, "rejected") /\ UNCHANGED <<conn, scope, mark>>
    BY <1>1, <1>4, <2>1 DEF PC, Settled
  <2>2. CASE ~(Goto(c, "rejected") /\ UNCHANGED <<conn, scope, mark>>)
    BY <1>k, <1>p, <1>5, <2>2 DEF Tx
  <2> QED BY <2>1, <2>2

(* a session: nested ones, and those of a browser, at once. *)
LEMMA SessionEnters ==
  ASSUME NInv, NEW c \in Calls, pc[c] \notin ScopePC, IsSession(c)', NEW k \in Conns,
         pc'[c] = "body", conn'[c] = k, OpenSession(c, k), Spares(c),
         scope'[c].prev = mark[k].activeSession,
         scope'[c].txScope = ScopeOf(req[c].via)',
         Conservative /\ req'[c].via = Root => k = Direct /\ mark[k].activeScope = None,
         pc[c] # "unborn" => req'[c] = req[c],
         IF req'[c].via = Root THEN Alone(k) ELSE Deepest(req'[c].via, k),
         pc[c] = "unborn" =>
           \A d \in Calls \ {c} :
              Unfinished(d) /\ ~Statement(d) /\ req[d].via = req'[c].via => req'[c].via = Root
  PROVE  Nests(c)
<1>0. JInv /\ TypeOK BY DEF NInv, JInv, IInv
<1>1. /\ mark'[k].activeSession = c
      /\ mark'[k].activeScope = mark[k].activeScope
      /\ \A r \in Conns \ {k} : SameMarks(r)
  BY <1>0, SessionMarks
<1>2. ~IsTx(c)' /\ ~IsNested(c)' /\ ~Statement(c)'
  BY DEF IsTx, IsSession, IsNested, Statement
<1>3. On(c, k)' BY DEF On, ScopePC
<1>4. Enters(c, k) BY <1>1, <1>2, <1>3 DEF Enters
<1>5. Keeps(c)' BY <1>2 DEF Keeps
<1> QED BY <1>0, <1>1, <1>4, <1>5, EnterNests

LEMMA GrantSessionNests ==
  ASSUME NInv, NEW c \in Calls, GrantSession(c)
  PROVE  Nests(c)
<1>0. JInv /\ TypeOK /\ Local(c) /\ Mode(c) /\ Keeps(c)
  BY DEF NInv, JInv, IInv, Ordered, Whole
<1>1. /\ pc[c] = "queued" /\ IsSession(c) /\ HasTail(c) /\ req' = req
      /\ ~Statement(c) /\ conn[c] \in Conns /\ conn' = conn
  BY <1>0 DEF GrantSession, IsSession, Statement, Local, NeedsConn
<1>2. req[c].via = Root /\ ~Pooled /\ ~Conservative BY <1>0, <1>1 DEF Keeps, Mode
<1>3. CASE IsHealthy(conn[c])
  <2>1. /\ Goto(c, "body") /\ OpenSession(c, conn[c])
        /\ SetScope(c, [scope[c] EXCEPT !.prev = mark[conn[c]].activeSession])
    BY <1>3 DEF GrantSession
  <2>2. PICK t : t = [scope[c] EXCEPT !.prev = mark[conn[c]].activeSession] OBVIOUS
  <2>3. t.prev = mark[conn[c]].activeSession /\ t.txScope = scope[c].txScope
    BY <1>0, <2>2 DEF TypeOK, Scope
  <2>4. SetScope(c, t) BY <2>1, <2>2
  <2>5. Spares(c) /\ scope'[c] = t BY <1>0, <2>4, SparesSet
  <2>6. scope'[c].txScope = ScopeOf(req[c].via)'
    BY <1>0, <1>1, <1>2, <2>3, <2>5 DEF Keeps, ScopeOf
  <2>7. pc'[c] = "body" BY <1>0, <2>1 DEF Goto, TypeOK
  <2>8. IsSession(c)' BY <1>1 DEF IsSession
  <2>9. Alone(conn[c]) BY <1>0, <1>1, <1>2, HeadAlone DEF ScopePC
  <2>10. /\ pc[c] \notin ScopePC /\ pc[c] # "unborn" /\ conn'[c] = conn[c]
         /\ req'[c].via = Root /\ req'[c] = req[c]
         /\ scope'[c].prev = mark[conn[c]].activeSession
    BY <1>1, <1>2, <2>3, <2>5 DEF ScopePC
  <2> QED BY <1>1, <1>2, <2>1, <2>5, <2>6, <2>7, <2>8, <2>9, <2>10, SessionEnters
<1>4. CASE ~IsHealthy(conn[c])
  <2>1. pc'[c] = "rejected" /\ UNCHANGED <<scope, mark>>
    BY <1>0, <1>4 DEF GrantSession, Goto, TypeOK
  <2>2. Spares(c) BY <1>0, <2>1, SparesOthers
  <2> QED BY <1>0, <1>1, <2>1, <2>2, OffNests
          DEF IsDone, Settled, SameMarks, Reserved, ScopePC
<1> QED BY <1>3, <1>4

LEMMA AcquireSessionNests ==
  ASSUME NInv, NEW c \in Calls, AcquireSession(c)
  PROVE  Nests(c)
<1>0. JInv /\ TypeOK /\ Local(c) BY DEF NInv, JInv, IInv
<1>1. /\ pc[c] = "acquiring" /\ IsSession(c) /\ req' = req
      /\ Pooled /\ req[c].via = Root /\ ~Conservative
  BY <1>0, ScopeConstants DEF AcquireSession, Local
<1>2. PICK k \in idle :
         IF IsHealthy(k)
           THEN /\ Goto(c, "body")
                /\ conn' = [conn EXCEPT ![c] = k]
                /\ SetScope(c, [NewScope EXCEPT !.prev = mark[k].activeSession])
                /\ OpenSession(c, k)
           ELSE Goto(c, "rejected") /\ Discard(c, k) /\ UNCHANGED scope
  BY DEF AcquireSession
<1>3. k \in Conns /\ Alone(k) BY <1>0, <1>1, IdleAlone
<1>4. CASE IsHealthy(k)
  <2>1. pc'[c] = "body" /\ conn'[c] = k BY <1>0, <1>2, <1>4 DEF Goto, TypeOK
  <2>2. PICK t : t = [NewScope EXCEPT !.prev = mark[k].activeSession] OBVIOUS
  <2>3. t.prev = mark[k].activeSession /\ t.txScope = None BY <2>2 DEF NewScope
  <2>4. SetScope(c, t) BY <1>2, <1>4, <2>2
  <2>5. Spares(c) /\ scope'[c] = t BY <1>0, <2>4, SparesSet
  <2>6. scope'[c].txScope = ScopeOf(req[c].via)' BY <1>1, <2>3, <2>5 DEF ScopeOf
  <2>7. /\ pc[c] \notin ScopePC /\ pc[c] # "unborn"
        /\ req'[c].via = Root /\ req'[c] = req[c] /\ IsSession(c)'
        /\ scope'[c].prev = mark[k].activeSession
    BY <1>1, <2>3, <2>5 DEF ScopePC, IsSession
  <2> QED BY <1>1, <1>2, <1>3, <1>4, <2>1, <2>5, <2>6, <2>7, SessionEnters
<1>5. CASE ~IsHealthy(k)
  <2>1. pc'[c] = "rejected" BY <1>0, <1>2, <1>5 DEF Goto, TypeOK
  <2>2. Spares(c) BY <1>0, <1>2, <1>5, SparesOthers
  <2>3. \A r \in Conns : SameMarks(r) \/ (Pooled /\ Alone(r) /\ mark'[r] = Fresh)
    BY <1>0, <1>1, <1>2, <1>3, <1>5, DiscardMarks
  <2> QED BY <1>0, <1>1, <2>1, <2>2, <2>3, OffNests
          DEF IsDone, Settled, Reserved, ScopePC
<1> QED BY <1>4, <1>5

LEMMA SessionNests ==
  ASSUME NInv, NEW c \in Calls, NEW h, NEW caller \in SUBSET Calls, Around(caller),
         Session(c, h, caller), Orderly
  PROVE  Nests(c)
<1>0. JInv /\ IInv /\ TypeOK BY DEF NInv, JInv, IInv
<1>k. PICK k : k = StateOf(h) OBVIOUS
<1>p. PICK tx, q : /\ tx = IF InTransaction(h) THEN mark[k].activeScope ELSE None
                   /\ q = mark[k].activeSession
  OBVIOUS
<1>t. PICK entered :
         entered = [NewScope EXCEPT !.txScope = tx, !.prev = q, !.rootPrev = q]
  OBVIOUS
<1>1. /\ pc[c] = "unborn" /\ conn[c] = None
      /\ req'[c].kind = "session" /\ req'[c].via = h /\ h \in Calls \cup {Root} /\ h # c
      /\ h # Root => conn[h] \in Conns /\ (IsOpen(h) => pc[h] = "body")
      /\ \A l \in PC : Goto(c, l) => pc'[c] = l
  BY <1>0, MadeFacts DEF Session
<1>2. Permitted("session", h, caller) BY DEF Session, Make
<1>3. IsSession(c)' /\ ~IsTx(c)' /\ ~Statement(c)' /\ ~IsNested(c)'
  BY <1>1 DEF IsTx, IsSession, Statement, IsNested
<1>4. entered.txScope = tx /\ entered.prev = q BY <1>t DEF NewScope
<1>5. CASE pc'[c] = "rejected" /\ UNCHANGED <<scope, mark>> BY <1>0, <1>1, <1>5, RefusedNests
<1>6. CASE /\ IsOpen(h) /\ IsHealthy(k)
           /\ h = Root => RootAllowed(caller, FALSE)
           /\ \/ /\ h # Root \/ Conservative
                 /\ Goto(c, "body")
                 /\ conn' = [conn EXCEPT ![c] = k]
                 /\ SetScope(c, entered)
                 /\ OpenSession(c, k)
              \/ /\ h = Root /\ Pooled /\ Goto(c, "acquiring") /\ UNCHANGED <<scope, mark>>
              \/ /\ h = Root /\ ~Pooled /\ ~Conservative
                 /\ Goto(c, "queued")
                 /\ SetScope(c, entered)
                 /\ UNCHANGED mark
  <2>0. ~Tainted(k) BY <1>6 DEF Tainted, IsHealthy
  <2>1. h # Root => k = conn[h] /\ k \in Conns /\ On(h, k) /\ h \in Calls
    BY <1>1, <1>k, <1>6 DEF StateOf, On, ScopePC
  <2>2. ASSUME NEW d \in Calls \ {c}, Unfinished(d), ~Statement(d), req[d].via = h
        PROVE  h = Root
    BY <1>2, <1>6, <2>0, <2>1, <2>2, OpenedDeepest
  <2>3. SetScope(c, entered) => Spares(c) /\ scope'[c] = entered
                                /\ \A d \in Calls \ {c} : scope'[d] = scope[d]
    BY <1>0, SparesSet
  <2>4. SetScope(c, entered) => scope'[c].txScope = ScopeOf(req[c].via)'
    <3>1. SUFFICES ASSUME SetScope(c, entered) PROVE tx = ScopeOf(h)' BY <1>1, <1>4, <2>3
    <3>2. CASE h = Root BY <1>p, <3>2 DEF InTransaction, ScopeOf
    <3>3. CASE h # Root
      <4>1. scope'[h] = scope[h] BY <1>1, <2>1, <2>3, <3>1, <3>3
      <4>2. mark[k].activeScope = scope[h].txScope BY <1>6, <2>1, <3>3 DEF IsOpen
      <4> QED BY <1>p, <3>3, <4>1, <4>2 DEF InTransaction, ScopeOf
    <3> QED BY <3>2, <3>3
  <2>5. CASE /\ h # Root \/ Conservative
             /\ Goto(c, "body")
             /\ conn' = [conn EXCEPT ![c] = k]
             /\ SetScope(c, entered)
             /\ OpenSession(c, k)
    <3>1. pc'[c] = "body" /\ conn'[c] = k BY <1>0, <1>1, <2>5 DEF TypeOK, PC
    <3>2. CASE h = Root
      <4>1. k = Direct /\ k \in Conns
        BY <1>k, <2>5, <3>2, DirectIsConn, ScopeConstants DEF StateOf
      <4>2. mark[k].activeScope = None /\ mark[k].activeSession = None
        BY <1>6, <2>5, <3>2, <4>1 DEF RootAllowed
      <4>3. Alone(k) BY <2>0, <4>1, <4>2, UnmarkedAlone
      <4>4. scope'[c].prev = mark[k].activeSession BY <1>4, <1>p, <2>3, <2>5
      <4> QED BY <1>1, <1>3, <2>2, <2>3, <2>4, <2>5, <3>1, <3>2, <4>1, <4>2, <4>3, <4>4,
                 SessionEnters DEF ScopePC
    <3>3. CASE h # Root
      <4>1. Deepest(h, k) BY <1>2, <1>6, <2>0, <2>1, <3>3, OpenedDeepest
      <4>2. scope'[c].prev = mark[k].activeSession BY <1>4, <1>p, <2>3, <2>5
      <4> QED BY <1>1, <1>3, <2>1, <2>2, <2>3, <2>4, <2>5, <3>1, <3>3, <4>1, <4>2,
                 SessionEnters DEF ScopePC
    <3> QED BY <3>2, <3>3
  <2>6. CASE h = Root /\ Pooled /\ Goto(c, "acquiring") /\ UNCHANGED <<scope, mark>>
    <3>1. pc'[c] = "acquiring" BY <1>1, <2>6 DEF PC
    <3>2. Spares(c) BY <1>0, <2>6, SparesOthers
    <3>3. Keeps(c)' BY <1>3, <3>1 DEF Keeps, ScopePC
    <3>4. ~Reserved(c)' BY <3>1 DEF Reserved
    <3> QED BY <1>0, <1>1, <2>2, <2>6, <3>1, <3>2, <3>3, <3>4, MadeNests
            DEF SameMarks, ScopePC
  <2>7. CASE /\ h = Root /\ ~Pooled /\ ~Conservative
             /\ Goto(c, "queued")
             /\ SetScope(c, entered)
             /\ UNCHANGED mark
    <3>1. pc'[c] = "queued" BY <1>1, <2>7 DEF PC
    <3>2. Spares(c) BY <2>3, <2>7
    <3>3. Keeps(c)' BY <1>1, <1>3, <2>4, <2>7, <3>1 DEF Keeps, ScopePC
    <3>4. ~Reserved(c)' BY <3>1 DEF Reserved
    <3> QED BY <1>0, <1>1, <1>3, <2>2, <2>7, <3>1, <3>2, <3>3, <3>4, MadeNests
            DEF SameMarks, ScopePC
  <2> QED BY <1>6, <2>5, <2>6, <2>7
<1> QED
  <2>1. CASE Goto(c, "rejected") /\ UNCHANGED <<conn, scope, tail, mark>>
    BY <1>1, <1>5, <2>1 DEF PC, Settled
  <2>2. CASE ~(Goto(c, "rejected") /\ UNCHANGED <<conn, scope, tail, mark>>)
    BY <1>k, <1>p, <1>t, <1>6, <2>2 DEF Session
  <2> QED BY <2>1, <2>2

-----------------------------------------------------------------------------
(* The finally block. *)
LEMMA RestoredMarks ==
  ASSUME NEW c \in Calls, NEW m \in Mark
  PROVE  /\ IsTx(c) =>
              /\ Restored(c, m).activeScope =
                   IF req[c].via = Root /\ ~Pooled THEN scope[c].rootPrev
                   ELSE IF IsNested(c) THEN scope[c].prev ELSE None
              /\ Restored(c, m).activeSession = m.activeSession
         /\ ~IsTx(c) =>
              /\ Restored(c, m).activeSession =
                   IF req[c].via = Root /\ ~Pooled THEN scope[c].rootPrev ELSE scope[c].prev
              /\ Restored(c, m).activeScope = m.activeScope
         /\ Restored(c, m) \in [streamUsers : Int, pendingStreams : Int,
                                activeScope : {Restored(c, m).activeScope},
                                activeSession : {Restored(c, m).activeSession},
                                directBusy : BOOLEAN]
<1>1. CASE IsTx(c)
  <2>1. PICK a : a = IF req[c].via = Root /\ ~Pooled THEN scope[c].rootPrev
                     ELSE IF IsNested(c) THEN scope[c].prev ELSE None
    OBVIOUS
  <2>2. Restored(c, m) = [m EXCEPT !.activeScope = a] BY <1>1, <2>1 DEF Restored
  <2> QED BY <1>1, <2>1, <2>2 DEF Mark
<1>2. CASE ~IsTx(c)
  <2>1. PICK a : a = IF req[c].via = Root /\ ~Pooled THEN scope[c].rootPrev ELSE scope[c].prev
    OBVIOUS
  <2>2. Restored(c, m) = [m EXCEPT !.activeSession = a] BY <1>2, <2>1 DEF Restored
  <2> QED BY <1>2, <2>1, <2>2 DEF Mark
<1> QED BY <1>1, <1>2

LEMMA FinalMarks ==
  ASSUME TypeOK, NEW c \in Calls, Finalize(c), NEW k,
         k = IF conn[c] # None THEN conn[c] ELSE StateOf(req[c].via)
  PROVE  /\ k = None => mark' = mark
         /\ k \in Conns =>
              /\ mark'[k].activeScope = Restored(c, mark[k]).activeScope
              /\ mark'[k].activeSession = Restored(c, mark[k]).activeSession
              /\ \A r \in Conns \ {k} : SameMarks(r)
<1>1. k = None => mark' = mark BY DEF Finalize
<1>2. CASE k \in Conns
  <2>1. PICK m : m = Restored(c, mark[k]) OBVIOUS
  <2>2. m \in [streamUsers : Int, pendingStreams : Int, activeScope : {m.activeScope},
               activeSession : {m.activeSession}, directBusy : BOOLEAN]
    BY <1>2, <2>1, RestoredMarks DEF TypeOK
  <2>3. \/ mark' = [mark EXCEPT ![k] = m]
        \/ mark' = [mark EXCEPT ![k] = [m EXCEPT !.directBusy = FALSE]]
    BY <1>2, <2>1, ScopeConstants DEF Finalize
  <2>4. PICK f : /\ mark' = [mark EXCEPT ![k] = f]
                 /\ f = m \/ f = [m EXCEPT !.directBusy = FALSE]
    BY <2>3
  <2>5. f.activeScope = m.activeScope /\ f.activeSession = m.activeSession BY <2>2, <2>4
  <2> QED BY <1>1, <1>2, <2>1, <2>4, <2>5, ScopeConstants DEF TypeOK, SameMarks
<1> QED BY <1>1, <1>2, ScopeConstants

LEMMA FinalizeFacts ==
  ASSUME TypeOK, NEW c \in Calls, Finalize(c)
  PROVE  /\ pc[c] = "finalize" /\ req' = req /\ conn' = conn
         /\ pc'[c] \in Settled \/ (pc'[c] = "releasing" /\ req[c].via = Root /\ Pooled)
         /\ Spares(c) /\ \A d \in Calls \ {c} : scope'[d] = scope[d]
         /\ scope'[c].txScope = scope[c].txScope
<1>1. pc'[c] \in Settled \/ (pc'[c] = "releasing" /\ req[c].via = Root /\ Pooled)
  BY DEF Finalize, EndAs, Goto, TypeOK, Settled
<1>2. PICK t : t = [scope[c] EXCEPT !.closed = TRUE, !.awaited = {},
                                    !.prev = None, !.rootPrev = None]
  OBVIOUS
<1>3. SetScope(c, t) /\ t.txScope = scope[c].txScope BY <1>2 DEF Finalize, TypeOK, Scope
<1>4. /\ Spares(c) /\ scope'[c] = t
      /\ \A d \in Calls \ {c} : scope'[d] = scope[d]
  BY <1>3, SparesSet
<1> QED BY <1>1, <1>3, <1>4 DEF Finalize

LEMMA FinalizeNests ==
  ASSUME NInv, NEW c \in Calls, Finalize(c)
  PROVE  Nests(c)
<1>0. /\ JInv /\ IInv /\ TypeOK /\ Local(c) /\ Keeps(c) /\ Booked(c) /\ Kin(c)
      /\ Handles(c) /\ Remembers(c) /\ Sure(c)
  BY DEF NInv, JInv, IInv, Ordered, Whole
<1>1. /\ pc[c] = "finalize" /\ req' = req /\ conn' = conn
      /\ pc'[c] \in Settled \/ (pc'[c] = "releasing" /\ req[c].via = Root /\ Pooled)
      /\ Spares(c) /\ \A d \in Calls \ {c} : scope'[d] = scope[d]
      /\ scope'[c].txScope = scope[c].txScope
  BY <1>0, FinalizeFacts
<1>2. ~Statement(c) /\ Unfinished(c) /\ pc'[c] \notin ScopePC /\ (IsTx(c) \/ IsSession(c))
  BY <1>0, <1>1 DEF Local, ScopePC, Unfinished, IsDone, Settled,
                    TypeOK, Request, Kind, Statement, IsTx, IsSession
<1>3. PICK k : k = IF conn[c] # None THEN conn[c] ELSE StateOf(req[c].via) OBVIOUS
<1>4. \A r \in Conns : ~On(c, r)' BY <1>2 DEF On
<1>5. Keeps(c)'
  <2>1. (IsTx(c)' <=> IsTx(c)) /\ (Statement(c)' <=> Statement(c))
    BY <1>1 DEF IsTx, Statement
  <2>2. Unfinished(c)' => pc'[c] = "releasing" /\ req[c].via = Root /\ Pooled
    BY <1>1 DEF Unfinished, IsDone
  <2>3. req[c].via = Root => ~IsNested(c)' BY <1>1 DEF IsNested, InTransaction
  <2>4. pc'[c] \notin ScopePC \cup {"queued", "finalize"} BY <1>1 DEF ScopePC, Settled
  <2> QED BY <1>0, <1>1, <1>2, <2>1, <2>2, <2>3, <2>4, ScopeConstants DEF Keeps
<1>6. ~Reserved(c)' BY <1>1 DEF Reserved, Settled
<1>7. /\ k = None => mark' = mark
      /\ k \in Conns =>
           /\ mark'[k].activeScope = Restored(c, mark[k]).activeScope
           /\ mark'[k].activeSession = Restored(c, mark[k]).activeSession
           /\ \A r \in Conns \ {k} : SameMarks(r)
  BY <1>0, <1>3, FinalMarks
<1>8. k \in Conns => mark[k] \in Mark BY <1>0 DEF TypeOK
<1>r. req[c].via = Root /\ IsTx(c) /\ ~Pooled => scope[c].rootPrev = None \/ RootTx(c)
  BY <1>0, <1>2 DEF Keeps, RootTx, RootScope, Loose
<1>9. CASE conn[c] # None
  <2>1. k \in Conns /\ k = conn[c] /\ On(c, k) BY <1>0, <1>1, <1>3, <1>9 DEF On, ScopePC, TypeOK
  <2>0. Loose => IsDone(c)' BY <1>1 DEF Loose, IsDone
  <2>2. Leaves(c, k)
    <3>1. CASE IsTx(c)
      <4>1. req[c].via = Root => ~IsNested(c) BY DEF IsNested, InTransaction
      <4>2. req[c].via = Root /\ ~Pooled =>
               scope[c].rootPrev = None \/ Gone(scope[c].rootPrev)
        BY <1>0, <1>r, <1>9, <2>1, <3>1 DEF Remembers
      <4>3. \/ ~IsNested(c) /\ (mark'[k].activeScope = None \/ Gone(mark'[k].activeScope))
            \/ IsNested(c) /\ mark'[k].activeScope = scope[c].prev
        BY <1>7, <1>8, <2>1, <3>1, <4>1, <4>2, RestoredMarks
      <4>4. mark'[k].activeSession = mark[k].activeSession
        BY <1>7, <1>8, <2>1, <3>1, RestoredMarks
      <4> QED BY <1>1, <1>4, <2>0, <2>1, <3>1, <4>3, <4>4 DEF Leaves
    <3>2. CASE ~IsTx(c)
      BY <1>1, <1>4, <1>7, <1>8, <2>0, <2>1, <3>2, RestoredMarks DEF Leaves
    <3> QED BY <3>1, <3>2
  <2>3. \A r \in Conns \ {k} : Stands(c, r)
    BY <1>4, <1>7, <2>1 DEF Stands, On
  <2>4. ~Reserved(c) BY <1>1, <1>9 DEF Reserved
  <2> QED BY <1>1, <1>5, <1>6, <2>2, <2>3, <2>4 DEF Nests, Shifts
<1>10. CASE conn[c] = None
  <2>1. /\ IsTx(c) /\ \A r \in Conns : ~On(c, r)
    BY <1>0, <1>1, <1>2, <1>10, ScopeConstants DEF Keeps, On
  <2>2. ~IsNested(c)
    <3>1. SUFFICES ASSUME IsNested(c) PROVE FALSE OBVIOUS
    <3>2. conn[c] = conn[req[c].via] /\ req[c].via # Root
      BY <1>0, <1>2, <3>1 DEF Keeps, IsNested, InTransaction
    <3>3. req[c].via \in Calls /\ pc[req[c].via] = "body"
      BY <1>0, <1>2, <3>2 DEF Handles, Unfinished, TypeOK, Request
    <3>4. Local(req[c].via) BY <1>0, <3>3 DEF IInv
    <3> QED BY <1>10, <3>2, <3>3, <3>4, ScopeConstants DEF Local, NeedsConn
  <2>3. k \in Conns =>
          /\ mark'[k].activeScope = IF req[c].via = Root /\ ~Pooled THEN scope[c].rootPrev
                                    ELSE None
          /\ mark'[k].activeSession = mark[k].activeSession
    <3>1. SUFFICES ASSUME k \in Conns
                   PROVE  /\ mark'[k].activeScope =
                               IF req[c].via = Root /\ ~Pooled THEN scope[c].rootPrev ELSE None
                          /\ mark'[k].activeSession = mark[k].activeSession
      OBVIOUS
    <3>2. PICK m \in Mark : m = mark[k] BY <1>8, <3>1
    <3>3. /\ Restored(c, m).activeScope =
               IF req[c].via = Root /\ ~Pooled THEN scope[c].rootPrev ELSE None
          /\ Restored(c, m).activeSession = m.activeSession
      BY <2>1, <2>2, RestoredMarks
    <3> QED BY <1>7, <3>1, <3>2, <3>3
  <2>6. \A r \in Conns : r # k => Stands(c, r)
    <3>1. k \in Conns \cup {None}
      BY <1>0, <1>3, <1>10, StateOfType DEF TypeOK, Request
    <3>2. \A r \in Conns : r # k => SameMarks(r) BY <1>7, <3>1 DEF SameMarks
    <3> QED BY <1>4, <2>1, <3>2 DEF Stands
  <2>4. CASE Reserved(c)
    <3>1. k = Direct /\ Alone(Direct)
      BY <1>0, <1>3, <1>10, <2>4, ScopeConstants DEF Booked, Reserved, StateOf
    <3>2. scope[c].rootPrev = None BY <1>0, <1>2, <2>4 DEF Keeps, Reserved
    <3>3. Frees(c, Direct) BY <1>4, <1>6, <2>3, <2>4, <3>1, <3>2, DirectIsConn DEF Frees
    <3> QED BY <1>1, <1>5, <1>6, <2>4, <2>6, <3>1, <3>3 DEF Nests, Shifts
  <2>5. CASE ~Reserved(c)
    <3>1. ASSUME k \in Conns, req[c].via # Root
          PROVE  \/ SameMarks(k)
                 \/ Overwrites(c, k)
      <4>1. PICK h : h = req[c].via OBVIOUS
      <4>2. k = conn[h] /\ h # Root BY <1>3, <1>10, <3>1, <4>1 DEF StateOf
      <4>3. h \in Calls /\ Deepest(h, k) BY <1>2, <2>1, <3>1, <4>1, <4>2, ReadyDeepest
      <4>4. Marked(h, k) /\ Inside(h, k) BY <3>1, <4>3 DEF NInv, Placed
      <4>5. scope[h].txScope = None BY <2>1, <2>2, <4>1, <4>2 DEF IsNested, InTransaction
      <4>6. ASSUME NEW d \in Calls, OnTx(d, k) PROVE FALSE
        BY <4>3, <4>4, <4>5, <4>6, ScopeConstants DEF Deepest, Inside, OnTx
      <4>7. CASE Loose BY <1>4, <2>1, <2>3, <3>1, <4>6, <4>7 DEF Overwrites
      <4>8. CASE ~Loose
        <5>1. mark[k].activeScope = None BY <4>3, <4>4, <4>5, <4>8 DEF Marked, Gone, Tainted
        <5> QED BY <2>3, <3>1, <5>1 DEF SameMarks
      <4> QED BY <4>7, <4>8
    <3>2. ASSUME k \in Conns, req[c].via = Root
          PROVE  Overwrites(c, k)
      <4>1. ~Pooled /\ k = Direct BY <1>3, <1>10, <3>2, ScopeConstants DEF StateOf
      <4>2. RootTx(c) /\ Loose
        BY <1>1, <1>2, <1>10, <2>1, <2>5, <3>2, <4>1
           DEF Reserved, RootTx, RootScope, Loose
      <4>3. PICK m : m = scope[c].rootPrev OBVIOUS
      <4>4. m \in Calls \cup {None} BY <1>0, <4>3 DEF TypeOK, Scope
      <4>5. mark'[k].activeScope = m /\ mark'[k].activeSession = mark[k].activeSession
        BY <2>3, <3>2, <4>1, <4>3
      <4>6. m = None \/ Gone(m) \/ On(m, Direct) BY <1>0, <4>2, <4>3 DEF Remembers
      <4>7. m # None => pc[m] # "unborn"
        BY <4>6 DEF Gone, IsDone, Settled, On, ScopePC
      <4>8. ASSUME ~Tainted(k)
            PROVE  /\ \A d \in Calls : ~OnTx(d, k)
                   /\ m = None \/ Gone(m)
        <5>1. IsHealthy(Direct) /\ Refused(c)
          BY <1>1, <1>10, <2>1, <4>1, <4>2, <4>8 DEF Tainted, IsHealthy, Refused
        <5>2. Only(c) BY <1>0, <4>2, <5>1 DEF Sure
        <5>3. Alone(k)
          BY <2>1, <3>2, <4>2, <5>2, DirectAlone DEF Only, RootScope, Loose
        <5> QED BY <4>1, <4>4, <4>6, <5>3 DEF Alone, OnTx
      <4> QED BY <1>4, <2>1, <3>2, <4>2, <4>4, <4>5, <4>7, <4>8 DEF Overwrites
    <3>3. \A r \in Conns : Stands(c, r) \/ Overwrites(c, r)
      BY <1>4, <2>1, <2>6, <3>1, <3>2 DEF Stands
    <3> QED BY <1>1, <1>5, <1>6, <2>5, <3>3 DEF Nests, Shifts
  <2> QED BY <2>4, <2>5
<1> QED BY <1>9, <1>10

-----------------------------------------------------------------------------
LEMMA LeadNests ==
  ASSUME NInv, NEW c \in Calls,
         Lead(c) \/ Return(c) \/ Yield(c) \/ Exhaust(c) \/ Pull(c) \/ Stop(c)
  PROVE  Nests(c)
  BY LeaseNests, AbandonNests, GrantTurnNests, GrantTailNests, AcquireNests, CompleteNests,
     CloseCursorNests, EndStreamNests, ReleaseNests, LeaseTxNests, RefuseTxNests,
     GrantTxNests, AcquireTxNests, GrantSessionNests, AcquireSessionNests, ControlNests,
     CallbackNests, FinalizeNests, RowNests, ExhaustNests
     DEF Lead, Refuse

LEMMA InvokeNests ==
  ASSUME NInv, Orderly, NEW c \in Calls, NEW h, NEW caller \in SUBSET Calls, Around(caller),
         \/ Execute(c, h, caller) \/ Stream(c, h, caller)
         \/ Tx(c, h, caller) \/ Session(c, h, caller)
  PROVE  Nests(c)
  BY ExecuteNests, StreamNests, TxNests, SessionNests

-----------------------------------------------------------------------------
(* What a step does on a direct database with its queue: no resource is     *)
(* replaced there,                                                          *)
LEMMA PoisonStays ==
  ASSUME JInv, NEW c \in Calls, Loose,
         Lead(c) \/ Return(c) \/ Yield(c) \/ Exhaust(c) \/ Pull(c) \/ Stop(c)
  PROVE  poisoned \subseteq poisoned'
<1>0. Local(c) /\ Mode(c) /\ ~Pooled BY DEF JInv, IInv, Whole, Loose
<1>1. ~Acquire(c) /\ ~AcquireTx(c) /\ ~AcquireSession(c) /\ ~Release(c)
  BY <1>0 DEF Acquire, AcquireTx, AcquireSession, Release, Local, Mode
<1>2. CASE Lease(c) \/ Refuse(c) \/ GrantTurn(c) \/ GrantTail(c) \/ Complete(c)
           \/ CloseCursor(c) \/ EndStream(c)
  BY <1>2 DEF Lease, Refuse, GrantTurn, GrantTail, Complete, CloseCursor, EndStream, DriverEnds
<1>3. CASE LeaseTx(c) \/ RefuseTx(c) \/ GrantTx(c) \/ GrantSession(c)
  BY <1>3 DEF LeaseTx, RefuseTx, GrantTx, GrantSession
<1>4. CASE Announce(c) \/ Turn(c) \/ Control(c) \/ Announced(c)
  BY <1>4 DEF Announce, Turn, Control, Announced
<1>5. CASE Drain(c) \/ Finished(c) \/ Finalize(c) \/ Return(c)
  BY <1>5 DEF Drain, Finished, Finalize, Return
<1>6. CASE Yield(c) \/ Exhaust(c) \/ Pull(c) \/ Stop(c)
  BY <1>6 DEF Yield, Exhaust, Pull, Stop, DriverEnds
<1> QED BY <1>1, <1>2, <1>3, <1>4, <1>5, <1>6 DEF Lead

(* and a root transaction keeps what it found in the marker. *)
LEMMA AsideSteps ==
  ASSUME NEW c \in Calls, ~IsTx(c), req' = req, pc[c] # "unborn", pc'[c] # "ready",
         Loose => poisoned \subseteq poisoned'
  PROVE  Steps(c)
  BY DEF Steps, RootTx

LEMMA ScopeSteps ==
  ASSUME JInv, NEW c \in Calls, UNCHANGED <<req, conn>>, SameClosure(c),
         pc[c] \in ScopePC \ {"finalize"}, pc'[c] \in ScopePC,
         Loose => poisoned \subseteq poisoned'
  PROVE  Steps(c)
<1>1. Local(c) BY DEF JInv, IInv
<1>2. conn'[c] # None BY <1>1, ScopeConstants DEF Local, NeedsConn, ScopePC
<1> QED BY <1>2 DEF Steps, SameClosure, Refused, ScopePC

LEMMA StatementSteps ==
  ASSUME JInv, NEW c \in Calls,
         \/ Lease(c) \/ Refuse(c) \/ GrantTurn(c) \/ GrantTail(c) \/ Acquire(c)
         \/ Complete(c) \/ CloseCursor(c) \/ EndStream(c) \/ Release(c)
         \/ GrantSession(c) \/ AcquireSession(c)
         \/ Yield(c) \/ Exhaust(c) \/ Pull(c) \/ Stop(c)
  PROVE  Loose => Steps(c)
<1>0. /\ TypeOK /\ Local(c) /\ Mode(c)
      /\ \A l : Goto(c, l) => pc'[c] = l
      /\ \A o : EndAs(c, o) => pc'[c] \in Settled
  BY DEF JInv, IInv, Whole, Goto, EndAs, TypeOK, Settled
<1>1. SUFFICES ASSUME Loose PROVE Steps(c) OBVIOUS
<1>2. ~Acquire(c) /\ ~AcquireSession(c) /\ ~Release(c)
  BY <1>0, <1>1 DEF Acquire, AcquireSession, Release, Local, Mode, Loose
<1>3. poisoned \subseteq poisoned' BY <1>1, PoisonStays DEF Lead
<1>4. Statement(c) => ~IsTx(c) BY DEF Statement, IsTx
<1>5. CASE Lease(c) \/ Refuse(c) \/ GrantTurn(c) \/ GrantTail(c)
  <2>1. req' = req /\ pc[c] # "unborn" /\ ~IsTx(c)
    BY <1>4, <1>5 DEF Lease, Refuse, GrantTurn, GrantTail
  <2>2. pc'[c] # "ready"
    BY <1>0, <1>5 DEF Lease, Refuse, GrantTurn, GrantTail, Start, Abandon
  <2> QED BY <1>3, <2>1, <2>2, AsideSteps
<1>6. CASE Complete(c) \/ CloseCursor(c) \/ EndStream(c)
  <2>1. req' = req /\ pc[c] \in StatementPC
    BY <1>6 DEF Complete, CloseCursor, EndStream, StatementPC
  <2>2. pc'[c] # "ready"
    BY <1>0, <1>6 DEF Complete, CloseCursor, EndStream, Settled
  <2> QED BY <1>0, <1>3, <1>4, <2>1, <2>2, AsideSteps DEF Local, StatementPC
<1>7. CASE GrantSession(c)
  <2>1. req' = req /\ pc[c] # "unborn" /\ ~IsTx(c)
    BY <1>7 DEF GrantSession, IsTx, IsSession
  <2>2. pc'[c] # "ready" BY <1>0, <1>7 DEF GrantSession
  <2> QED BY <1>3, <2>1, <2>2, AsideSteps
<1>8. CASE Yield(c) \/ Exhaust(c) \/ Pull(c) \/ Stop(c)
  <2>1. req' = req /\ pc[c] \in StatementPC
    BY <1>8 DEF Yield, Exhaust, Pull, Stop, StatementPC
  <2>2. pc'[c] # "ready" BY <1>0, <1>8 DEF Yield, Exhaust, Pull, Stop
  <2> QED BY <1>0, <1>3, <1>4, <2>1, <2>2, AsideSteps DEF Local, StatementPC
<1> QED BY <1>2, <1>5, <1>6, <1>7, <1>8

LEMMA TxSteps ==
  ASSUME NInv, NEW c \in Calls, LeaseTx(c) \/ RefuseTx(c) \/ GrantTx(c) \/ AcquireTx(c)
  PROVE  Loose => Steps(c)
<1>0. /\ JInv /\ TypeOK /\ Local(c) /\ Remembers(c)
      /\ \A l : Goto(c, l) => pc'[c] = l
  BY DEF NInv, JInv, IInv, Ordered, Goto, TypeOK
<1>1. SUFFICES ASSUME Loose PROVE Steps(c) OBVIOUS
<1>2. ~AcquireTx(c) BY <1>0, <1>1 DEF AcquireTx, Local, Loose
<1>3. poisoned \subseteq poisoned' BY <1>0, <1>1, PoisonStays DEF Lead
<1>4. /\ IsTx(c) /\ pc[c] \in {"ready", "queued"} /\ req' = req
      /\ pc[c] = "ready" => conn[c] = None
  BY <1>0, <1>2 DEF LeaseTx, RefuseTx, GrantTx, Local
<1>5. SUFFICES /\ pc'[c] # "ready"
               /\ req[c].via = Root =>
                    /\ conn'[c] \in {None, Direct}
                    /\ scope'[c].rootPrev = scope[c].rootPrev
                    /\ pc'[c] = "finalize" =>
                         \/ ~IsHealthy(Direct)
                         \/ pc[c] = "ready" /\ (~MayBegin(c) \/ "observer" \in Faults)
  BY <1>3, <1>4 DEF Steps, RootTx, RootScope, Refused
<1>6. ASSUME NEW k \in Conns, Begin(c, k)
      PROVE  pc'[c] \in {"turn", "drain"} /\ conn'[c] = k /\ SameClosure(c)
  BY <1>0, <1>6, BeginKeeps
<1>7. NoResource(c) => pc'[c] = "finalize" /\ SameClosure(c) BY <1>0, NoResourceKeeps
<1>8. CASE LeaseTx(c)
  <2>1. StateOf(req[c].via) \in Conns
    BY <1>1, <1>4, WaitsOutside, DirectIsConn DEF StateOf, Loose
  <2>2. req[c].via = Root => StateOf(req[c].via) = Direct BY <1>1 DEF StateOf, Loose
  <2>3. CASE Begin(c, StateOf(req[c].via)) BY <1>6, <2>1, <2>2, <2>3 DEF SameClosure
  <2>4. CASE /\ pc'[c] = "queued" /\ conn' = [conn EXCEPT ![c] = StateOf(req[c].via)]
             /\ UNCHANGED scope
    BY <1>0, <2>1, <2>2, <2>4 DEF TypeOK
  <2> QED BY <1>0, <1>1, <1>8, <2>3, <2>4 DEF LeaseTx, Loose
<1>9. CASE RefuseTx(c)
  BY <1>4, <1>7, <1>9 DEF RefuseTx, SameClosure
<1>10. CASE GrantTx(c)
  <2>1. conn[c] \in Conns BY <1>0, <1>10 DEF GrantTx, Local, NeedsConn
  <2>2. req[c].via = Root => conn[c] = Direct
    BY <1>0, <1>1, <1>4, <1>10, <2>1, WaitsOutside, ScopeConstants
       DEF GrantTx, Remembers, RootTx, RootScope
  <2>3. CASE Begin(c, conn[c]) BY <1>6, <2>1, <2>2, <2>3 DEF SameClosure
  <2>4. CASE NoResource(c) /\ conn'[c] = None /\ ~IsHealthy(conn[c])
    BY <1>7, <2>2, <2>4 DEF SameClosure
  <2> QED BY <1>0, <1>10, <2>1, <2>3, <2>4 DEF GrantTx, TypeOK
<1> QED BY <1>2, <1>8, <1>9, <1>10

LEMMA FinalizeSteps ==
  ASSUME JInv, NEW c \in Calls, Finalize(c)
  PROVE  Loose => Steps(c)
<1>1. TypeOK BY DEF JInv, IInv
<1>2. /\ pc[c] = "finalize" /\ req' = req
      /\ pc'[c] \in Settled \/ (pc'[c] = "releasing" /\ Pooled)
  BY <1>1, FinalizeFacts
<1>3. ASSUME Loose PROVE poisoned \subseteq poisoned' BY <1>3, PoisonStays DEF Lead
<1>4. Loose => ~Unfinished(c)' BY <1>2 DEF Loose, Unfinished, IsDone
<1>5. pc'[c] # "ready" BY <1>2 DEF Settled
<1> QED BY <1>2, <1>3, <1>4, <1>5 DEF Steps, RootTx, RootScope

LEMMA LeadSteps ==
  ASSUME NInv, NEW c \in Calls,
         Lead(c) \/ Return(c) \/ Yield(c) \/ Exhaust(c) \/ Pull(c) \/ Stop(c),
         pc[c] # "unborn"
  PROVE  Steps(c)
<1>0. JInv /\ TypeOK BY DEF NInv, JInv, IInv
<1>6. CASE ~Loose BY <1>6 DEF Steps
<1>1. Loose => poisoned \subseteq poisoned' BY <1>0, PoisonStays
<1>2. CASE Announce(c) \/ Turn(c) \/ Control(c) \/ Announced(c)
  BY <1>0, <1>1, <1>2, ControlKeeps, ScopeSteps DEF ScopePC
<1>3. CASE Return(c) \/ Drain(c) \/ Finished(c)
  BY <1>0, <1>1, <1>3, CallbackKeeps, ScopeSteps DEF ScopePC
<1>4. CASE Finalize(c) BY <1>0, <1>4, <1>6, FinalizeSteps
<1>5. CASE LeaseTx(c) \/ RefuseTx(c) \/ GrantTx(c) \/ AcquireTx(c) BY <1>5, <1>6, TxSteps
<1> QED BY <1>0, <1>2, <1>3, <1>4, <1>5, <1>6, StatementSteps DEF Lead

LEMMA InvokeSteps ==
  ASSUME JInv, NEW c \in Calls, NEW h, NEW caller \in SUBSET Calls, Around(caller),
         \/ Execute(c, h, caller) \/ Stream(c, h, caller)
         \/ Tx(c, h, caller) \/ Session(c, h, caller)
  PROVE  Steps(c)
<1>0. TypeOK /\ Local(c) BY DEF JInv, IInv
<1>1. /\ pc[c] = "unborn" /\ conn[c] = None /\ req'[c].via = h /\ req'[c].caller = caller
      /\ Permitted(req'[c].kind, h, caller) /\ poisoned' = poisoned
      /\ req'[c].kind = "tx" => Tx(c, h, caller)
      /\ \A l : Goto(c, l) => pc'[c] = l
  <2>1. \A l : Goto(c, l) => pc'[c] = l BY <1>0 DEF Goto, TypeOK
  <2>2. ASSUME NEW kind, Make(c, kind, h, caller)
        PROVE  /\ pc[c] = "unborn" /\ conn[c] = None /\ Permitted(kind, h, caller)
               /\ req'[c].kind = kind /\ req'[c].via = h /\ req'[c].caller = caller
    BY <1>0, <2>2 DEF Make, TypeOK, Local
  <2>3. CASE Execute(c, h, caller) BY <2>1, <2>2, <2>3 DEF Execute
  <2>4. CASE Stream(c, h, caller) BY <2>1, <2>2, <2>4 DEF Stream
  <2>5. CASE Tx(c, h, caller) BY <2>1, <2>2, <2>5 DEF Tx
  <2>6. CASE Session(c, h, caller) BY <2>1, <2>2, <2>6 DEF Session
  <2> QED BY <2>3, <2>4, <2>5, <2>6
<1>2. pc'[c] # "finalize"
  <2>1. SUFFICES \E l \in {"ready", "rejected", "announce", "body", "acquiring", "queued"} :
                    Goto(c, l)
    BY <1>1
  <2>2. CASE Execute(c, h, caller) BY <2>2 DEF Execute
  <2>3. CASE Stream(c, h, caller) BY <2>3 DEF Stream
  <2>4. CASE Tx(c, h, caller)
    <3>1. Goto(c, "rejected") \/ Goto(c, IF InTransaction(h) THEN "announce" ELSE "ready")
      BY <2>4 DEF Tx
    <3> QED BY <3>1
  <2>5. CASE Session(c, h, caller) BY <2>5 DEF Session
  <2> QED BY <2>2, <2>3, <2>4, <2>5
<1>3. ASSUME RootTx(c)' 
      PROVE  IsHealthy(Direct) /\ conn'[c] = None /\ scope'[c].rootPrev = mark[Direct].activeScope
  <2>1. /\ Tx(c, h, caller) /\ h = Root /\ ~Pooled /\ ~Conservative
        /\ pc'[c] # "rejected"
    BY <1>1, <1>3 DEF RootTx, RootScope, Loose, IsTx, Unfinished, IsDone, Settled
  <2>2. StateOf(h) = Direct /\ ~InTransaction(h) BY <2>1 DEF StateOf, InTransaction
  <2>3. PICK p, q : SetScope(c, [NewScope EXCEPT !.txScope = c, !.phase = p, !.prev = q,
                                                 !.rootPrev = mark[Direct].activeScope])
    BY <1>1, <2>1, <2>2 DEF Tx
  <2>4. PICK s : /\ s = [NewScope EXCEPT !.txScope = c, !.phase = p, !.prev = q,
                                         !.rootPrev = mark[Direct].activeScope]
                 /\ SetScope(c, s)
    BY <2>3
  <2>5. s.rootPrev = mark[Direct].activeScope BY <2>4 DEF NewScope
  <2>6. IsHealthy(Direct) /\ conn' = conn BY <1>1, <2>1, <2>2 DEF Tx
  <2> QED BY <1>0, <1>1, <2>4, <2>5, <2>6, SparesSet
<1> QED BY <1>1, <1>2, <1>3 DEF Steps

-----------------------------------------------------------------------------
Starting  == {"begin", "savepoint"}
AtControl == {"announce", "turn", "driver", "announced"}

(* A handle is open from its beginning to its callback's end. *)
Lasts(c) ==
    /\ pc[c] \in {"unborn", "ready", "queued", "acquiring", "body"} => ~scope[c].closed
    /\ pc[c] \in {"ready", "queued", "acquiring"} /\ IsTx(c) => scope[c].phase = "begin"
    /\ pc[c] \in AtControl => /\ IsTx(c)
                              /\ scope[c].phase \in Starting => ~scope[c].closed

(* A transaction that ends has the queue of its resource to itself: finish() *)
(* has waited for the calls in it, and no other one joins it.               *)
Ending(c) ==
    /\ pc[c] = "tail" /\ IsTx(c) => ToSet(turns[conn[c]]) \subseteq scope[c].awaited
    /\ pc[c] \in AtControl /\ scope[c].phase \notin Starting =>
          turns[conn[c]] = IF pc[c] \in {"turn", "driver"} THEN <<c>> ELSE <<>>

(* The statement that ends it waits for its turn on a healthy resource only. *)
Guarded(c) == pc[c] = "turn" /\ scope[c].phase \notin Starting => conn[c] \notin poisoned

CInv == NInv /\ \A c \in Calls : Lasts(c) /\ Ending(c) /\ Guarded(c)

-----------------------------------------------------------------------------
(* What a step of c does to the queues, the resources and its own control. *)
Joins(c, k) ==
    /\ turns'[k] = Append(turns[k], c)
    /\ \/ /\ Statement(c) /\ req[c].via \in Calls /\ IsOpen(req[c].via)
          /\ On(req[c].via, k) /\ pc[req[c].via] = "body" /\ pc[c] = "ready"
          /\ IsHealthy(k)
       \/ /\ pc'[c] = "turn" /\ On(c, k)'
          /\ On(c, k) => pc[c] = "announce"
Quits(c, k) ==
    turns[k] # <<>> /\ Head(turns[k]) = c /\ turns'[k] = Tail(turns[k])
Lines(c) == \A k \in Conns : turns'[k] = turns[k] \/ Joins(c, k) \/ Quits(c, k)

Spoils(c) ==
    \A k \in poisoned' \ poisoned : k = conn[c] /\ (InDriver(c) \/ pc[c] = "releasing")

Ends(c) ==
    /\ pc'[c] = "tail" => /\ pc[c] = "drain" /\ turns' = turns
                          /\ scope'[c].awaited = ToSet(turns[conn[c]])
    /\ pc'[c] \in AtControl /\ scope'[c].phase \notin Starting =>
         \/ /\ pc[c] = "tail" /\ pc'[c] = "announce" /\ turns' = turns /\ IsTx(c)
            /\ scope[c].awaited \cap ToSet(turns[conn[c]]) = {}
         \/ /\ scope[c].phase \notin Starting
            /\ \/ /\ pc[c] = "announce" /\ pc'[c] = "turn"
                  /\ turns'[conn[c]] = Append(turns[conn[c]], c)
                  /\ IsHealthy(conn[c]) /\ poisoned' = poisoned
               \/ pc[c] = "turn" /\ pc'[c] = "driver" /\ turns' = turns
               \/ /\ pc[c] = "driver" /\ pc'[c] = "announced"
                  /\ turns'[conn[c]] = Tail(turns[conn[c]])
               \/ pc[c] = "announced" /\ pc'[c] = "announce" /\ turns' = turns

Paces(c) == Lasts(c)' /\ Lines(c) /\ Spoils(c) /\ Ends(c)

-----------------------------------------------------------------------------
(* Of two scopes of a resource one is in its callback. *)
LEMMA OnlyOne ==
  ASSUME NInv, NEW k \in Conns, NEW c \in Calls, NEW d \in Calls, On(c, k), On(d, k), c # d,
         pc[c] # "body", pc[d] # "body"
  PROVE  FALSE
  BY LastPlace

LEMMA NoneWaits ==
  ASSUME NEW q \in Seq(Calls), ToSet(q) = {}
  PROVE  q = <<>>
<1>1. SUFFICES ASSUME q # <<>> PROVE FALSE OBVIOUS
<1>2. q[1] \in ToSet(q) BY <1>1 DEF ToSet
<1> QED BY <1>2

(* Nobody joins the queue of a transaction whose callback has returned. *)
LEMMA NobodyJoins ==
  ASSUME NInv, NEW c \in Calls, Advance(c), Frame(c), Nests(c), NEW k \in Conns,
         NEW x \in Calls, x # c, OnTx(x, k), pc[x] # "body"
  PROVE  ~Joins(c, k)
<1>0. JInv /\ Marked(x, k) /\ Keeps(x) /\ On(x, k) /\ IsTx(x) /\ x # None
  BY ScopeConstants DEF NInv, Placed, Ordered, OnTx
<1>1. SUFFICES ASSUME Joins(c, k) PROVE FALSE OBVIOUS
<1>2. CASE /\ Statement(c) /\ req[c].via \in Calls /\ IsOpen(req[c].via)
           /\ On(req[c].via, k) /\ pc[req[c].via] = "body" /\ IsHealthy(k)
  <2>1. PICK h : h = req[c].via OBVIOUS
  <2>2. h \in Calls /\ On(h, k) /\ h # x /\ h # Root
    BY <1>2, <2>1, ScopeConstants
  <2>3. Deepest(x, k) /\ x \notin req[h].caller BY <1>0, <2>2, LastPlace
  <2>4. scope[x].txScope = x BY <1>0, OnFacts DEF Keeps
  <2>5. mark[k].activeScope = x
    BY <1>0, <1>2, <2>3, <2>4 DEF Marked, Tainted, IsHealthy
  <2>6. scope[h].txScope = x BY <1>2, <2>1, <2>2, <2>5 DEF IsOpen, On
  <2>7. Inside(h, k) BY <2>2 DEF NInv, Placed
  <2> QED BY <1>0, <2>2, <2>3, <2>6, <2>7 DEF Inside
<1>3. CASE On(c, k)' /\ (On(c, k) => pc[c] = "announce")
  <2>1. CASE On(c, k) BY <1>0, <1>3, <2>1, OnlyOne
  <2>2. CASE ~On(c, k)
    <3>1. Enters(c, k)
      BY <1>3, <2>2 DEF Nests, Shifts, Stands, Drops, Leaves, Reserves, Frees, Overwrites
    <3> QED BY <1>0, <3>1, EnterPlace
  <2> QED BY <2>1, <2>2
<1> QED BY <1>1, <1>2, <1>3 DEF Joins

LEMMA EndingKept ==
  ASSUME CInv, NEW c \in Calls, Advance(c), Frame(c), Nests(c), Paces(c), NEW x \in Calls
  PROVE  Ending(x)'
<1>0. NInv /\ JInv /\ TypeOK /\ Lasts(x) /\ Ending(x) /\ Local(x)
  BY DEF CInv, NInv, JInv, IInv
<1>1. CASE x = c
  <2>1. pc'[c] = "tail" \/ (pc'[c] \in AtControl /\ scope'[c].phase \notin Starting) =>
           conn'[c] = conn[c]
    BY DEF Paces, Ends, Frame, Places, ScopePC
  <2>2. turns[conn[c]] # <<>> => turns[conn[c]] \notin {<<>>} OBVIOUS
  <2>3. (pc[c] = "tail" \/ pc[c] \in AtControl) => conn[c] \in Conns /\ turns[conn[c]] \in Seq(Calls)
    BY <1>0, <1>1 DEF Local, NeedsConn, AtControl, TypeOK
  <2>4. pc'[c] = "tail" => ToSet(turns'[conn'[c]]) \subseteq scope'[c].awaited
    BY <2>1 DEF Paces, Ends
  <2>5. ASSUME pc'[c] \in AtControl, scope'[c].phase \notin Starting
        PROVE  turns'[conn'[c]] = IF pc'[c] \in {"turn", "driver"} THEN <<c>> ELSE <<>>
    <3>1. CASE /\ pc[c] = "tail" /\ pc'[c] = "announce" /\ turns' = turns /\ IsTx(c)
               /\ scope[c].awaited \cap ToSet(turns[conn[c]]) = {}
      <4>1. ToSet(turns[conn[c]]) = {} BY <1>0, <1>1, <3>1 DEF Ending
      <4>2. turns[conn[c]] = <<>> BY <2>3, <3>1, <4>1, NoneWaits
      <4> QED BY <2>1, <2>5, <3>1, <4>2
    <3>2. CASE /\ scope[c].phase \notin Starting
               /\ pc[c] = "announce" /\ pc'[c] = "turn"
               /\ turns'[conn[c]] = Append(turns[conn[c]], c)
      <4>1. turns[conn[c]] = <<>> BY <1>0, <1>1, <3>2 DEF Ending, AtControl
      <4> QED BY <2>1, <2>5, <3>2, <4>1
    <3>3. CASE /\ scope[c].phase \notin Starting
               /\ pc[c] = "turn" /\ pc'[c] = "driver" /\ turns' = turns
      BY <1>0, <1>1, <2>1, <2>5, <3>3 DEF Ending, AtControl
    <3>4. CASE /\ scope[c].phase \notin Starting
               /\ pc[c] = "driver" /\ pc'[c] = "announced"
               /\ turns'[conn[c]] = Tail(turns[conn[c]])
      <4>1. turns[conn[c]] = <<c>> BY <1>0, <1>1, <3>4 DEF Ending, AtControl
      <4> QED BY <2>1, <2>5, <3>4, <4>1
    <3>5. CASE /\ scope[c].phase \notin Starting
               /\ pc[c] = "announced" /\ pc'[c] = "announce" /\ turns' = turns
      BY <1>0, <1>1, <2>1, <2>5, <3>5 DEF Ending, AtControl
    <3> QED BY <2>5, <3>1, <3>2, <3>3, <3>4, <3>5 DEF Paces, Ends
  <2> QED BY <1>1, <2>4, <2>5 DEF Ending
<1>2. CASE x # c
  <2>1. Rests(x) BY <1>0, <1>2, OthersRest DEF Nests
  <2>2. SUFFICES ASSUME (pc[x] = "tail" /\ IsTx(x)) \/ pc[x] \in AtControl
                 PROVE  Ending(x)'
    BY <2>1 DEF Rests, Ending, IsTx
  <2>3. PICK k : k = conn[x] OBVIOUS
  <2>4. k \in Conns /\ OnTx(x, k) /\ pc[x] # "body" /\ conn'[x] = k
    BY <1>0, <1>2, <2>2, <2>3, StepFacts
       DEF Local, NeedsConn, AtControl, OnTx, On, ScopePC, Lasts
  <2>5. ~Joins(c, k) BY <1>0, <1>2, <2>4, NobodyJoins
  <2>6. turns'[k] = turns[k] \/ Quits(c, k) BY <2>4, <2>5 DEF Paces, Lines
  <2>7. turns[k] \in Seq(Calls) BY <1>0, <2>4 DEF TypeOK
  <2>8. ToSet(turns'[k]) \subseteq ToSet(turns[k])
    <3>1. CASE Quits(c, k)
      <4>1. \A i \in 1..Len(Tail(turns[k])) : Tail(turns[k])[i] = turns[k][i + 1]
                                              /\ i + 1 \in 1..Len(turns[k])
        BY <2>7, <3>1 DEF Quits
      <4> QED BY <3>1, <4>1 DEF Quits, ToSet
    <3> QED BY <2>6, <3>1
  <2>9. pc[x] \in AtControl /\ scope[x].phase \notin Starting => turns'[k] = turns[k]
    BY <1>0, <1>2, <2>3, <2>6 DEF Ending, Quits
  <2> QED BY <1>0, <2>1, <2>3, <2>4, <2>8, <2>9 DEF Ending, Rests, IsTx, OnTx
<1> QED BY <1>1, <1>2

LEMMA GuardedKept ==
  ASSUME CInv, NEW c \in Calls, Advance(c), Frame(c), Nests(c), Paces(c), NEW x \in Calls
  PROVE  Guarded(x)'
<1>0. NInv /\ JInv /\ TypeOK /\ Lasts(x) /\ Ending(x) /\ Guarded(x) /\ Local(x)
  BY DEF CInv, NInv, JInv, IInv
<1>1. CASE x = c
  <2>1. SUFFICES ASSUME pc'[c] = "turn", scope'[c].phase \notin Starting
                 PROVE  conn'[c] \notin poisoned'
    BY <1>1 DEF Guarded
  <2>2. pc[c] = "announce" /\ IsHealthy(conn[c]) /\ poisoned' = poisoned
    BY <2>1 DEF Paces, Ends, AtControl
  <2>3. conn'[c] = conn[c] BY <2>2 DEF Frame, Places, ScopePC
  <2> QED BY <2>2, <2>3 DEF IsHealthy
<1>2. CASE x # c
  <2>1. Rests(x) BY <1>0, <1>2, OthersRest DEF Nests
  <2>2. SUFFICES ASSUME pc[x] = "turn", scope[x].phase \notin Starting
                 PROVE  conn'[x] \notin poisoned'
    BY <2>1 DEF Rests, Guarded
  <2>3. PICK k : k = conn[x] OBVIOUS
  <2>4. k \in Conns /\ On(x, k) /\ conn'[x] = k
    BY <1>0, <1>2, <2>2, <2>3, StepFacts DEF Local, NeedsConn, On, ScopePC
  <2>5. k \notin poisoned /\ turns[k] = <<x>>
    BY <1>0, <2>2, <2>3 DEF Guarded, Ending, AtControl
  <2>6. SUFFICES ASSUME k \in poisoned' PROVE FALSE BY <2>4
  <2>7. k = conn[c] /\ (InDriver(c) \/ pc[c] = "releasing")
    BY <2>5, <2>6 DEF Paces, Spoils
  <2>8. Local(c) /\ Mode(c) BY <1>0 DEF JInv, IInv, Whole
  <2>9. CASE pc[c] = "driver" BY <1>0, <1>2, <2>2, <2>4, <2>7, <2>9, OnlyOne DEF On, ScopePC
  <2>10. CASE pc[c] \in {"running", "closing", "releasing"}
    <3>1. CASE req[c].via = Root
      <4>1. Holds(c) BY <2>4, <2>7, <2>10, <3>1, ScopeConstants DEF Holds, InUse
      <4> QED BY <1>0, <2>4, <2>7, <2>10, <4>1, RootAlone DEF Alone, ScopePC
    <3>2. CASE req[c].via # Root
      <4>1. HasTurn(c) BY <2>8, <2>10, <3>2 DEF Local, HoldsTurn, Mode
      <4> QED BY <1>2, <2>5, <2>7, <4>1 DEF HasTurn
    <3> QED BY <3>1, <3>2
  <2> QED BY <2>7, <2>9, <2>10 DEF InDriver
<1> QED BY <1>1, <1>2

LEMMA LastsKept ==
  ASSUME CInv, NEW c \in Calls, Advance(c), Frame(c), Nests(c), Paces(c), NEW x \in Calls
  PROVE  Lasts(x)'
<1>0. JInv /\ Lasts(x) BY DEF CInv, NInv
<1>1. CASE x = c BY <1>1 DEF Paces
<1>2. CASE x # c
  <2>1. Rests(x) BY <1>0, <1>2, OthersRest DEF Nests
  <2> QED BY <1>0, <2>1 DEF Lasts, Rests, IsTx
<1> QED BY <1>1, <1>2

LEMMA PacesKeep ==
  ASSUME CInv, Orderly, NEW c \in Calls, Advance(c), Frame(c), Nests(c), Steps(c), Paces(c)
  PROVE  CInv'
<1>1. NInv' BY NestsKeep DEF CInv
<1> QED BY <1>1, LastsKept, EndingKept, GuardedKept DEF CInv

-----------------------------------------------------------------------------
(* The call at the head of a queue leaves it. *)
LEMMA QuitLines ==
  ASSUME TypeOK, NEW c \in Calls, HasTurn(c),
         turns' = [turns EXCEPT ![conn[c]] = Tail(@)]
  PROVE  Lines(c)
  BY DEF Lines, Quits, HasTurn, TypeOK

LEMMA SameLines ==
  ASSUME NEW c, turns' = turns
  PROVE  Lines(c)
  BY DEF Lines

(* A step that is not in the control of a transaction. *)
LEMMA CalmPaces ==
  ASSUME NEW c \in Calls, Lasts(c)', pc'[c] \notin AtControl, pc'[c] # "tail",
         Lines(c), Spoils(c)
  PROVE  Paces(c)
  BY DEF Paces, Ends

LEMMA StatementPaces ==
  ASSUME CInv, NEW c \in Calls, Statement(c), Advance(c), req' = req,
         pc'[c] \notin {"unborn", "ready"},
         pc'[c] \in {"queued", "acquiring"} => pc[c] = "ready" /\ scope' = scope,
         Lines(c), Spoils(c)
  PROVE  Paces(c)
<1>1. Lasts(c) BY DEF CInv
<1>2. Statement(c)' /\ ~IsTx(c)' BY DEF Statement, IsTx
<1>3. pc'[c] \notin ScopePC BY <1>2 DEF Advance, Local
<1>4. pc'[c] \notin AtControl /\ pc'[c] # "tail" BY <1>3 DEF AtControl, ScopePC
<1>5. Lasts(c)' BY <1>1, <1>2, <1>3, <1>4 DEF Lasts, ScopePC
<1> QED BY <1>4, <1>5, CalmPaces

LEMMA RowPaces ==
  ASSUME CInv, NEW c \in Calls, Advance(c), Yield(c) \/ Pull(c) \/ Stop(c)
  PROVE  Paces(c)
<1>0. TypeOK /\ Local(c) BY DEF CInv, NInv, JInv, IInv
<1>1. Statement(c) BY <1>0 DEF Yield, Pull, Stop, IsStream, Statement, Local, StatementPC
<1>2. pc'[c] \in {"suspended", "running", "closing"}
  BY <1>0 DEF Yield, Pull, Stop, Goto, TypeOK
<1>3. req' = req /\ turns' = turns /\ poisoned' = poisoned BY DEF Yield, Pull, Stop
<1> QED BY <1>1, <1>2, <1>3, SameLines, StatementPaces DEF Spoils

LEMMA ExhaustPaces ==
  ASSUME CInv, NEW c \in Calls, Advance(c), Exhaust(c)
  PROVE  Paces(c)
<1>0. TypeOK BY DEF CInv, NInv, JInv, IInv
<1>1. Statement(c) /\ InDriver(c) BY DEF Exhaust, IsStream, Statement, InDriver
<1>2. pc'[c] = "closing" BY <1>0 DEF Exhaust, Goto, TypeOK
<1>3. req' = req /\ turns' = turns BY DEF Exhaust
<1>4. Spoils(c) BY <1>1 DEF Exhaust, DriverEnds, Spoils
<1> QED BY <1>1, <1>2, <1>3, <1>4, SameLines, StatementPaces

LEMMA GiveBackLines ==
  ASSUME CInv, NEW c \in Calls, pc[c] \in {"running", "closing"}, GiveBack(c)
  PROVE  Lines(c)
<1>0. TypeOK /\ Local(c) BY DEF CInv, NInv, JInv, IInv
<1>1. CASE req[c].via = Root BY <1>1, SameLines DEF GiveBack
<1>2. CASE req[c].via # Root
  <2>1. HasTurn(c) BY <1>0, <1>2 DEF Local, HoldsTurn
  <2> QED BY <1>0, <1>2, <2>1, QuitLines DEF GiveBack
<1> QED BY <1>1, <1>2

LEMMA CompletePaces ==
  ASSUME CInv, NEW c \in Calls, Advance(c), Complete(c)
  PROVE  Paces(c)
<1>0. TypeOK /\ Local(c) BY DEF CInv, NInv, JInv, IInv
<1>1. Statement(c) /\ InDriver(c) BY <1>0 DEF Complete, Local, StatementPC, InDriver
<1>2. pc'[c] \in {"releasing", "fulfilled", "rejected"}
  BY <1>0, GotoFacts DEF Complete, EndAs, PC, Settled
<1>3. req' = req /\ Lines(c) BY GiveBackLines DEF Complete
<1>4. Spoils(c) BY <1>1 DEF Complete, DriverEnds, Spoils
<1> QED BY <1>1, <1>2, <1>3, <1>4, StatementPaces

LEMMA CloseCursorPaces ==
  ASSUME CInv, NEW c \in Calls, Advance(c), CloseCursor(c)
  PROVE  Paces(c)
<1>0. TypeOK /\ Local(c) BY DEF CInv, NInv, JInv, IInv
<1>1. Statement(c) /\ InDriver(c) BY <1>0 DEF CloseCursor, Local, StatementPC, InDriver
<1>2. pc'[c] \in {"releasing", "closed"} BY <1>0, GotoFacts DEF CloseCursor, PC
<1>3. req' = req /\ Lines(c) BY GiveBackLines DEF CloseCursor
<1>4. Spoils(c) BY <1>1 DEF CloseCursor, Spoils
<1> QED BY <1>1, <1>2, <1>3, <1>4, StatementPaces

LEMMA EndStreamPaces ==
  ASSUME CInv, NEW c \in Calls, Advance(c), EndStream(c)
  PROVE  Paces(c)
<1>0. TypeOK /\ Local(c) BY DEF CInv, NInv, JInv, IInv
<1>1. Statement(c) BY <1>0 DEF EndStream, Local, StatementPC
<1>2. pc'[c] \in {"fulfilled", "rejected"}
  BY <1>0, GotoFacts DEF EndStream, EndAs, PC, Settled
<1>3. req' = req /\ turns' = turns /\ poisoned' = poisoned BY DEF EndStream
<1> QED BY <1>1, <1>2, <1>3, SameLines, StatementPaces DEF Spoils

LEMMA RefusePaces ==
  ASSUME CInv, NEW c \in Calls, Advance(c), Refuse(c)
  PROVE  Paces(c)
<1>0. TypeOK BY DEF CInv, NInv, JInv, IInv
<1>1. pc'[c] = "rejected" BY <1>0, AbandonFacts DEF Refuse
<1>2. Statement(c) /\ req' = req /\ turns' = turns /\ poisoned' = poisoned BY DEF Refuse
<1> QED BY <1>1, <1>2, SameLines, StatementPaces DEF Spoils

LEMMA GrantTurnPaces ==
  ASSUME CInv, NEW c \in Calls, Advance(c), GrantTurn(c)
  PROVE  Paces(c)
<1>0. TypeOK /\ Local(c) BY DEF CInv, NInv, JInv, IInv
<1>1. Statement(c) /\ req' = req /\ poisoned' = poisoned /\ HasTurn(c) BY DEF GrantTurn
<1>2. conn[c] \in Conns BY <1>0 DEF GrantTurn, Local, NeedsConn
<1>3. pc'[c] \in {"running", "rejected"}
  BY <1>0, <1>2, StartFacts, AbandonFacts DEF GrantTurn
<1>4. Lines(c) BY <1>0, <1>1, QuitLines, SameLines DEF GrantTurn
<1> QED BY <1>1, <1>3, <1>4, StatementPaces DEF Spoils

LEMMA GrantTailPaces ==
  ASSUME CInv, NEW c \in Calls, Advance(c), GrantTail(c)
  PROVE  Paces(c)
<1>0. TypeOK /\ Local(c) BY DEF CInv, NInv, JInv, IInv
<1>1. Statement(c) /\ req' = req /\ poisoned' = poisoned /\ turns' = turns BY DEF GrantTail
<1>2. conn[c] \in Conns BY <1>0 DEF GrantTail, Local, NeedsConn
<1>3. pc'[c] \in {"running", "rejected"}
  BY <1>0, <1>2, StartFacts, AbandonFacts DEF GrantTail
<1> QED BY <1>1, <1>3, SameLines, StatementPaces DEF Spoils

LEMMA AcquirePaces ==
  ASSUME CInv, NEW c \in Calls, Advance(c), Acquire(c)
  PROVE  Paces(c)
<1>0. TypeOK BY DEF CInv, NInv, JInv, IInv
<1>1. PICK k \in idle : \/ Start(c, k) /\ poisoned' = poisoned
                        \/ Goto(c, "rejected") /\ Discard(c, k)
  BY DEF Acquire, Start
<1>2. k \in Conns BY <1>0 DEF TypeOK
<1>3. pc'[c] \in {"running", "rejected"}
  BY <1>0, <1>1, <1>2, StartFacts, GotoFacts DEF PC, Settled
<1>4. Spoils(c) BY <1>1 DEF Spoils, Discard
<1>5. Statement(c) /\ req' = req /\ turns' = turns BY DEF Acquire
<1> QED BY <1>3, <1>4, <1>5, SameLines, StatementPaces

LEMMA ReleasePaces ==
  ASSUME CInv, NEW c \in Calls, Advance(c), Release(c)
  PROVE  Paces(c)
<1>0. TypeOK BY DEF CInv, NInv, JInv, IInv
<1>1. pc'[c] \in {"closed", "fulfilled", "rejected"} /\ (pc'[c] = "closed" => IsStream(c))
  <2>1. CASE IsStream(c) BY <1>0, <2>1, GotoFacts DEF Release, PC
  <2>2. CASE ~IsStream(c) BY <1>0, <2>2, GotoFacts DEF Release, EndAs, PC, Settled
  <2> QED BY <2>1, <2>2
<1>2. Spoils(c) BY DEF Release, Spoils, Discard
<1>3. Lines(c) BY SameLines DEF Release
<1>4. Lasts(c)' BY <1>1 DEF Lasts, AtControl
<1> QED BY <1>1, <1>2, <1>3, <1>4, CalmPaces DEF AtControl

LEMMA LeasePaces ==
  ASSUME CInv, NEW c \in Calls, Advance(c), Lease(c)
  PROVE  Paces(c)
<1>0. TypeOK /\ JInv /\ IInv /\ Handles(c) BY DEF CInv, NInv, JInv, IInv
<1>1. Statement(c) /\ req' = req /\ poisoned' = poisoned /\ scope' = scope /\ pc[c] = "ready"
  BY DEF Lease
<1>2. pc'[c] \in {"queued", "acquiring", "running"} BY <1>0, GotoFacts DEF Lease, PC
<1>3. Lines(c)
  <2>1. CASE req[c].via = Root BY <2>1, SameLines DEF Lease
  <2>2. CASE req[c].via # Root
    <3>1. PICK h : h = req[c].via OBVIOUS
    <3>2. PICK k : k = conn[h] OBVIOUS
    <3>3. h \in Calls /\ k \in Conns /\ IsOpen(h) /\ IsHealthy(k)
      BY <1>0, <1>1, <2>2, <3>1, <3>2, HandleFacts DEF Lease, CanLease, StateOf
    <3>4. pc[h] = "body"
      BY <1>0, <1>1, <2>2, <3>1, <3>3 DEF Handles, Opened, IsOpen
    <3>5. turns' = [turns EXCEPT ![k] = Append(@, c)]
      BY <2>2, <3>1, <3>2 DEF Lease, StateOf
    <3>6. Joins(c, k)
      BY <1>0, <1>1, <2>2, <3>1, <3>2, <3>3, <3>4, <3>5 DEF Joins, On, ScopePC, TypeOK
    <3> QED BY <1>0, <3>3, <3>5, <3>6 DEF Lines, TypeOK
  <2> QED BY <2>1, <2>2
<1> QED BY <1>1, <1>2, <1>3, StatementPaces DEF Spoils

(* A step that enters no queue and ends no transaction. *)
LEMMA OpenPaces ==
  ASSUME NEW c \in Calls, Lasts(c)', turns' = turns, poisoned' = poisoned,
         pc'[c] # "tail", pc'[c] \in AtControl => scope'[c].phase \in Starting
  PROVE  Paces(c)
  BY DEF Paces, Lines, Spoils, Ends

LEMMA ExecutePaces ==
  ASSUME CInv, NEW c \in Calls, NEW h, NEW caller, Execute(c, h, caller)
  PROVE  Paces(c)
<1>0. TypeOK /\ Lasts(c) BY DEF CInv, NInv, JInv, IInv
<1>1. pc'[c] \in {"ready", "rejected"} BY <1>0 DEF Execute, Goto, TypeOK
<1>2. ~IsTx(c)' /\ pc[c] = "unborn" BY <1>0 DEF Execute, Make, IsTx, TypeOK
<1>3. Lasts(c)' BY <1>0, <1>1, <1>2 DEF Execute, Lasts, AtControl
<1> QED BY <1>1, <1>3, OpenPaces DEF Execute, AtControl

LEMMA StreamPaces ==
  ASSUME CInv, NEW c \in Calls, NEW h, NEW caller, Stream(c, h, caller)
  PROVE  Paces(c)
<1>0. TypeOK /\ Lasts(c) BY DEF CInv, NInv, JInv, IInv
<1>1. pc'[c] \in {"ready", "rejected"} BY <1>0 DEF Stream, Goto, TypeOK
<1>2. ~IsTx(c)' /\ pc[c] = "unborn" BY <1>0 DEF Stream, Make, IsTx, TypeOK
<1>3. scope'[c].closed = scope[c].closed
  <2>1. CASE scope' = scope BY <2>1
  <2>2. CASE scope' = [scope EXCEPT ![h].streams = Append(@, c)]
    BY <1>0, <2>2 DEF TypeOK, Scope
  <2> QED BY <2>1, <2>2 DEF Stream
<1>4. Lasts(c)' BY <1>0, <1>1, <1>2, <1>3 DEF Lasts, AtControl
<1> QED BY <1>1, <1>4, OpenPaces DEF Stream, AtControl

LEMMA TxPaces ==
  ASSUME CInv, NEW c \in Calls, NEW h, NEW caller, Tx(c, h, caller)
  PROVE  Paces(c)
<1>0. TypeOK /\ Lasts(c) BY DEF CInv, NInv, JInv, IInv
<1>1. IsTx(c)' /\ turns' = turns /\ poisoned' = poisoned BY <1>0 DEF Tx, Make, IsTx, TypeOK
<1>2. CASE pc'[c] = "rejected"
  BY <1>1, <1>2, OpenPaces DEF Lasts, AtControl
<1>3. CASE /\ Goto(c, IF InTransaction(h) THEN "announce" ELSE "ready")
           /\ SetScope(c, [NewScope EXCEPT !.txScope = c,
                    !.phase    = IF InTransaction(h) THEN "savepoint" ELSE "begin",
                    !.prev     = IF InTransaction(h) THEN mark[StateOf(h)].activeScope ELSE None,
                    !.rootPrev = IF h = Root /\ ~Pooled THEN mark[StateOf(h)].activeScope
                                                        ELSE None])
  <2>1. PICK p, q, r :
          /\ p = IF InTransaction(h) THEN "savepoint" ELSE "begin"
          /\ q = IF InTransaction(h) THEN mark[StateOf(h)].activeScope ELSE None
          /\ r = IF h = Root /\ ~Pooled THEN mark[StateOf(h)].activeScope ELSE None
    OBVIOUS
  <2>2. PICK t : t = [NewScope EXCEPT !.txScope = c, !.phase = p, !.prev = q, !.rootPrev = r]
    OBVIOUS
  <2>3. t.closed = FALSE /\ t.phase = p BY <2>2 DEF NewScope
  <2>4. SetScope(c, t) BY <1>3, <2>1, <2>2
  <2>5. scope'[c] = t BY <1>0, <2>4 DEF SetScope, TypeOK
  <2>6. pc'[c] = IF InTransaction(h) THEN "announce" ELSE "ready"
    BY <1>0, <1>3 DEF Goto, TypeOK
  <2>7. scope'[c].closed = FALSE /\ scope'[c].phase \in Starting
        /\ (pc'[c] = "ready" => scope'[c].phase = "begin")
    BY <2>1, <2>3, <2>5, <2>6 DEF Starting
  <2>8. Lasts(c)' BY <1>1, <2>6, <2>7 DEF Lasts, AtControl
  <2> QED BY <1>1, <2>6, <2>7, <2>8, OpenPaces
<1>4. Goto(c, "rejected") => pc'[c] = "rejected" BY <1>0 DEF Goto, TypeOK
<1> QED BY <1>2, <1>3, <1>4 DEF Tx

LEMMA SessionPaces ==
  ASSUME CInv, NEW c \in Calls, NEW h, NEW caller, Session(c, h, caller)
  PROVE  Paces(c)
<1>0. TypeOK /\ Lasts(c) BY DEF CInv, NInv, JInv, IInv
<1>1. /\ ~IsTx(c)' /\ turns' = turns /\ poisoned' = poisoned /\ pc[c] = "unborn"
  BY <1>0 DEF Session, Make, IsTx, TypeOK
<1>2. pc'[c] \in {"rejected", "body", "acquiring", "queued"}
  BY <1>0 DEF Session, Goto, TypeOK
<1>3. ~scope'[c].closed
  <2>1. CASE scope' = scope BY <1>0, <1>1, <2>1 DEF Lasts
  <2>2. CASE scope' # scope
    <3>1. PICK x, q : SetScope(c, [NewScope EXCEPT !.txScope = x, !.prev = q, !.rootPrev = q])
      BY <2>2 DEF Session
    <3>2. PICK t : t = [NewScope EXCEPT !.txScope = x, !.prev = q, !.rootPrev = q] OBVIOUS
    <3>3. t.closed = FALSE BY <3>2 DEF NewScope
    <3> QED BY <1>0, <3>1, <3>2, <3>3 DEF SetScope, TypeOK
  <2> QED BY <2>1, <2>2
<1>4. Lasts(c)' BY <1>1, <1>2, <1>3 DEF Lasts, AtControl
<1> QED BY <1>1, <1>2, <1>4, OpenPaces DEF AtControl

LEMMA InvokePaces ==
  ASSUME CInv, NEW c \in Calls, NEW h, NEW caller,
         \/ Execute(c, h, caller) \/ Stream(c, h, caller)
         \/ Tx(c, h, caller) \/ Session(c, h, caller)
  PROVE  Paces(c)
  BY ExecutePaces, StreamPaces, TxPaces, SessionPaces

-----------------------------------------------------------------------------
LEMMA BeginPaces ==
  ASSUME CInv, NEW c \in Calls, IsTx(c), pc[c] \in {"ready", "queued", "acquiring"},
         req' = req, NEW k \in Conns, Begin(c, k), poisoned' = poisoned
  PROVE  Paces(c)
<1>0. TypeOK /\ Lasts(c) BY DEF CInv, NInv, JInv, IInv
<1>1. conn'[c] = k BY <1>0 DEF Begin, TypeOK
<1>2. CASE TakeTurn(c, k) /\ UNCHANGED scope
  <2>1. pc'[c] = "turn" /\ turns' = [turns EXCEPT ![k] = Append(@, c)]
    BY <1>0, <1>2 DEF TakeTurn, Goto, TypeOK
  <2>2. scope'[c].phase \in Starting /\ ~scope'[c].closed /\ IsTx(c)'
    BY <1>0, <1>2 DEF Lasts, Starting, IsTx
  <2>3. Joins(c, k) BY <1>0, <1>1, <2>1 DEF Joins, On, ScopePC, TypeOK
  <2>4. Lines(c) BY <1>0, <2>1, <2>3 DEF Lines, TypeOK
  <2>5. Lasts(c)' BY <2>1, <2>2 DEF Lasts, AtControl
  <2> QED BY <2>1, <2>2, <2>4, <2>5 DEF Paces, Spoils, Ends
<1>3. CASE Finish(c, "failed") /\ UNCHANGED turns
  <2>1. pc'[c] = "drain" BY <1>0, <1>3, FinishKeeps
  <2>2. Lasts(c)' BY <2>1 DEF Lasts, AtControl
  <2> QED BY <1>3, <2>1, <2>2, CalmPaces, SameLines DEF AtControl, Spoils
<1> QED BY <1>2, <1>3 DEF Begin

LEMMA NoResourcePaces ==
  ASSUME CInv, NEW c \in Calls, NoResource(c), turns' = turns, poisoned' \subseteq poisoned
  PROVE  Paces(c)
<1>0. TypeOK BY DEF CInv, NInv, JInv, IInv
<1>1. pc'[c] = "finalize" BY <1>0, NoResourceKeeps
<1>2. Lasts(c)' BY <1>1 DEF Lasts, AtControl
<1> QED BY <1>1, <1>2, CalmPaces, SameLines DEF AtControl, Spoils

LEMMA LeaseTxPaces ==
  ASSUME CInv, NEW c \in Calls, LeaseTx(c)
  PROVE  Paces(c)
<1>0. TypeOK /\ NInv /\ Lasts(c) BY DEF CInv, NInv, JInv, IInv
<1>1. /\ pc[c] = "ready" /\ IsTx(c) /\ req' = req /\ poisoned' = poisoned BY DEF LeaseTx
<1>2. PICK k : k = StateOf(req[c].via) OBVIOUS
<1>3. CASE Begin(c, k) /\ (req[c].via # Root \/ Conservative)
  <2>1. k \in Conns
    BY <1>0, <1>1, <1>2, <1>3, WaitsOutside, DirectIsConn, ScopeConstants DEF StateOf
  <2> QED BY <1>1, <1>3, <2>1, BeginPaces
<1>4. CASE (Goto(c, "acquiring") \/ Goto(c, "queued")) /\ UNCHANGED <<scope, turns>>
  <2>1. pc'[c] \in {"acquiring", "queued"} BY <1>0, <1>4 DEF Goto, TypeOK
  <2>2. IsTx(c)' BY <1>1 DEF IsTx
  <2>3. Lasts(c)' BY <1>0, <1>1, <1>4, <2>1, <2>2 DEF Lasts, AtControl
  <2> QED BY <1>1, <1>4, <2>1, <2>3, OpenPaces DEF AtControl
<1> QED BY <1>2, <1>3, <1>4 DEF LeaseTx

LEMMA RefuseTxPaces ==
  ASSUME CInv, NEW c \in Calls, RefuseTx(c)
  PROVE  Paces(c)
  BY NoResourcePaces DEF RefuseTx

LEMMA GrantTxPaces ==
  ASSUME CInv, NEW c \in Calls, GrantTx(c)
  PROVE  Paces(c)
<1>1. Local(c) BY DEF CInv, NInv, JInv, IInv
<1>2. conn[c] \in Conns BY <1>1 DEF GrantTx, Local, NeedsConn
<1> QED BY <1>2, BeginPaces, NoResourcePaces DEF GrantTx

LEMMA AcquireTxPaces ==
  ASSUME CInv, NEW c \in Calls, AcquireTx(c)
  PROVE  Paces(c)
<1>1. TypeOK BY DEF CInv, NInv, JInv, IInv
<1>2. PICK k \in idle : \/ Begin(c, k) /\ poisoned' = poisoned
                        \/ NoResource(c) /\ Discard(c, k) /\ turns' = turns
  BY DEF AcquireTx
<1>3. k \in Conns BY <1>1 DEF TypeOK
<1>4. Discard(c, k) => poisoned' \subseteq poisoned BY DEF Discard
<1> QED BY <1>2, <1>3, <1>4, BeginPaces, NoResourcePaces DEF AcquireTx

LEMMA GrantSessionPaces ==
  ASSUME CInv, NEW c \in Calls, GrantSession(c)
  PROVE  Paces(c)
<1>0. TypeOK /\ Lasts(c) BY DEF CInv, NInv, JInv, IInv
<1>1. /\ ~IsTx(c)' /\ pc[c] = "queued" /\ turns' = turns /\ poisoned' = poisoned
  BY DEF GrantSession, IsTx, IsSession
<1>2. pc'[c] \in {"body", "rejected"} BY <1>0 DEF GrantSession, Goto, TypeOK
<1>3. scope'[c].closed = scope[c].closed
  <2>1. CASE scope' = scope BY <2>1
  <2>2. CASE SetScope(c, [scope[c] EXCEPT !.prev = mark[conn[c]].activeSession])
    BY <1>0, <2>2 DEF SetScope, TypeOK, Scope
  <2> QED BY <2>1, <2>2 DEF GrantSession
<1>4. Lasts(c)' BY <1>0, <1>1, <1>2, <1>3 DEF Lasts, AtControl
<1> QED BY <1>1, <1>2, <1>4, OpenPaces DEF AtControl

LEMMA AcquireSessionPaces ==
  ASSUME CInv, NEW c \in Calls, AcquireSession(c)
  PROVE  Paces(c)
<1>0. TypeOK BY DEF CInv, NInv, JInv, IInv
<1>1. ~IsTx(c)' /\ turns' = turns BY DEF AcquireSession, IsTx, IsSession
<1>2. PICK k \in idle :
        \/ /\ Goto(c, "body") /\ poisoned' = poisoned
           /\ SetScope(c, [NewScope EXCEPT !.prev = mark[k].activeSession])
        \/ Goto(c, "rejected") /\ Discard(c, k)
  BY DEF AcquireSession
<1>3. Spoils(c) BY <1>2 DEF Spoils, Discard
<1>4. pc'[c] \in {"body", "rejected"} BY <1>0, <1>2 DEF Goto, TypeOK
<1>5. pc'[c] = "body" => ~scope'[c].closed
  BY <1>0, <1>2 DEF Goto, TypeOK, SetScope, NewScope
<1>6. Lasts(c)' BY <1>1, <1>4, <1>5 DEF Lasts, AtControl
<1> QED BY <1>1, <1>3, <1>4, <1>6, CalmPaces, SameLines DEF AtControl

-----------------------------------------------------------------------------
(* The control statements, one after the other. *)
LEMMA ControlFailsPaces ==
  ASSUME CInv, NEW c \in Calls, ControlFails(c), turns' = turns, poisoned' = poisoned
  PROVE  Paces(c)
<1>0. TypeOK BY DEF CInv, NInv, JInv, IInv
<1>1. pc'[c] \in {"drain", "finalize"} BY <1>0, ControlFailsKeeps
<1>2. Lasts(c)' BY <1>1 DEF Lasts, AtControl
<1> QED BY <1>1, <1>2, OpenPaces DEF AtControl

LEMMA AnnouncePaces ==
  ASSUME CInv, NEW c \in Calls, Announce(c)
  PROVE  Paces(c)
<1>0. TypeOK /\ Lasts(c) /\ Local(c) BY DEF CInv, NInv, JInv, IInv
<1>1. /\ pc[c] = "announce" /\ req' = req /\ conn' = conn /\ poisoned' = poisoned
      /\ conn[c] \in Conns /\ IsTx(c)
  BY <1>0 DEF Announce, Local, NeedsConn, Lasts, AtControl
<1>2. CASE TakeTurn(c, conn[c]) /\ UNCHANGED scope /\ IsHealthy(conn[c])
  <2>1. PICK k : k = conn[c] OBVIOUS
  <2>2. pc'[c] = "turn" /\ turns' = [turns EXCEPT ![k] = Append(@, c)]
    BY <1>0, <1>2, <2>1 DEF TakeTurn, Goto, TypeOK
  <2>3. Joins(c, k) BY <1>0, <1>1, <2>1, <2>2 DEF Joins, On, ScopePC, TypeOK
  <2>4. Lines(c) BY <1>0, <1>1, <2>1, <2>2, <2>3 DEF Lines, TypeOK
  <2>5. Lasts(c)' BY <1>0, <1>1, <1>2, <2>2 DEF Lasts, AtControl, IsTx
  <2>6. turns'[conn[c]] = Append(turns[conn[c]], c) BY <1>0, <1>1, <2>1, <2>2 DEF TypeOK
  <2> QED BY <1>1, <1>2, <2>2, <2>4, <2>5, <2>6 DEF Paces, Spoils, Ends
<1>3. CASE ControlFails(c) /\ UNCHANGED turns BY <1>1, <1>3, ControlFailsPaces
<1> QED BY <1>2, <1>3 DEF Announce

LEMMA TurnPaces ==
  ASSUME CInv, NEW c \in Calls, Turn(c)
  PROVE  Paces(c)
<1>0. TypeOK /\ Lasts(c) BY DEF CInv, NInv, JInv, IInv
<1>1. pc[c] = "turn" /\ pc'[c] = "driver" BY <1>0 DEF Turn, Goto, TypeOK
<1>2. UNCHANGED <<req, scope, turns, poisoned>> BY DEF Turn
<1>3. Lasts(c)' BY <1>0, <1>1, <1>2 DEF Lasts, AtControl, IsTx
<1> QED BY <1>1, <1>2, <1>3 DEF Paces, Lines, Spoils, Ends

(* A control statement is answered: its phase stays. *)
LEMMA AnsweredPhase ==
  ASSUME TypeOK, NEW c \in Calls, Control(c)
  PROVE  /\ scope'[c].phase = scope[c].phase /\ scope'[c].closed = scope[c].closed
         /\ pc'[c] = "announced" /\ turns' = [turns EXCEPT ![conn[c]] = Tail(@)]
<1>0. scope[c] \in Scope BY DEF TypeOK
<1>1. pc'[c] = "announced" /\ turns' = [turns EXCEPT ![conn[c]] = Tail(@)]
  BY DEF Control, Goto, TypeOK
<1>2. PICK a, b :
        \/ SetScope(c, [scope[c] EXCEPT !.started = a, !.completed = b])
        \/ SetScope(c, [scope[c] EXCEPT !.outcome = "failed"])
  <2>1. PICK a, b :
          /\ a = (scope[c].started \/ scope[c].phase \in {"begin", "savepoint"})
          /\ b = (scope[c].completed \/ scope[c].phase \in {"commit", "release"})
    OBVIOUS
  <2>2. \/ SetScope(c, [scope[c] EXCEPT
                !.started   = @ \/ scope[c].phase \in {"begin", "savepoint"},
                !.completed = @ \/ scope[c].phase \in {"commit", "release"}])
        \/ SetScope(c, [scope[c] EXCEPT !.outcome = "failed"])
    BY DEF Control
  <2>3. \/ SetScope(c, [scope[c] EXCEPT !.started = a, !.completed = b])
        \/ SetScope(c, [scope[c] EXCEPT !.outcome = "failed"])
    BY <2>1, <2>2
  <2> QED BY <2>3
<1>3. CASE SetScope(c, [scope[c] EXCEPT !.started = a, !.completed = b])
  <2>1. PICK t : t = [scope[c] EXCEPT !.started = a, !.completed = b] OBVIOUS
  <2>2. scope'[c] = t BY <1>3, <2>1 DEF SetScope, TypeOK
  <2>3. t.phase = scope[c].phase /\ t.closed = scope[c].closed BY <1>0, <2>1 DEF Scope
  <2> QED BY <1>1, <2>2, <2>3
<1>4. CASE SetScope(c, [scope[c] EXCEPT !.outcome = "failed"])
  <2>1. PICK t : t = [scope[c] EXCEPT !.outcome = "failed"] OBVIOUS
  <2>2. scope'[c] = t BY <1>4, <2>1 DEF SetScope, TypeOK
  <2>3. t.phase = scope[c].phase /\ t.closed = scope[c].closed BY <1>0, <2>1 DEF Scope
  <2> QED BY <1>1, <2>2, <2>3
<1> QED BY <1>2, <1>3, <1>4

LEMMA ControlPaces ==
  ASSUME CInv, NEW c \in Calls, Control(c)
  PROVE  Paces(c)
<1>0. TypeOK /\ Lasts(c) /\ Local(c) BY DEF CInv, NInv, JInv, IInv
<1>1. /\ scope'[c].phase = scope[c].phase /\ scope'[c].closed = scope[c].closed
      /\ pc'[c] = "announced" /\ turns' = [turns EXCEPT ![conn[c]] = Tail(@)]
  BY <1>0, AnsweredPhase
<1>2. pc[c] = "driver" /\ req' = req BY DEF Control
<1>3. HasTurn(c) /\ conn[c] \in Conns BY <1>0, <1>2 DEF Local, HoldsTurn, NeedsConn
<1>4. Lines(c) BY <1>0, <1>1, <1>3, QuitLines
<1>5. Spoils(c) BY <1>2 DEF Control, Spoils, InDriver
<1>6. Lasts(c)' BY <1>0, <1>1, <1>2 DEF Lasts, AtControl, IsTx
<1>7. turns'[conn[c]] = Tail(turns[conn[c]]) BY <1>0, <1>1, <1>3 DEF TypeOK
<1> QED BY <1>1, <1>2, <1>4, <1>5, <1>6, <1>7 DEF Paces, Ends

LEMMA AnnouncedPaces ==
  ASSUME CInv, NEW c \in Calls, Announced(c)
  PROVE  Paces(c)
<1>0. TypeOK /\ Lasts(c) BY DEF CInv, NInv, JInv, IInv
<1>1. /\ pc[c] = "announced" /\ UNCHANGED <<req, turns, poisoned>> /\ IsTx(c) /\ IsTx(c)'
  BY <1>0 DEF Announced, Lasts, AtControl, IsTx
<1>2. CASE scope[c].phase \in {"begin", "savepoint"} /\ Goto(c, "body") /\ UNCHANGED scope
  <2>1. pc'[c] = "body" BY <1>0, <1>2 DEF Goto, TypeOK
  <2>2. Lasts(c)' BY <1>0, <1>1, <1>2, <2>1 DEF Lasts, AtControl, Starting
  <2> QED BY <1>1, <2>1, <2>2, OpenPaces DEF AtControl
<1>3. CASE Goto(c, "finalize") /\ UNCHANGED scope
  <2>1. pc'[c] = "finalize" BY <1>0, <1>3 DEF Goto, TypeOK
  <2>2. Lasts(c)' BY <2>1 DEF Lasts, AtControl
  <2> QED BY <1>1, <2>1, <2>2, OpenPaces DEF AtControl
<1>4. CASE ControlFails(c) BY <1>1, <1>4, ControlFailsPaces
<1>5. CASE /\ scope[c].phase = "rollback-to" /\ Goto(c, "announce")
           /\ SetScope(c, [scope[c] EXCEPT !.phase = "discard-savepoint"])
  <2>1. pc'[c] = "announce" /\ scope'[c].phase = "discard-savepoint"
    BY <1>0, <1>5 DEF Goto, SetScope, TypeOK, Scope
  <2>2. Lasts(c)' BY <1>1, <2>1 DEF Lasts, AtControl, Starting
  <2>3. scope[c].phase \notin Starting BY <1>5 DEF Starting
  <2> QED BY <1>1, <2>1, <2>2, <2>3 DEF Paces, Lines, Spoils, Ends
<1> QED BY <1>2, <1>3, <1>4, <1>5 DEF Announced

-----------------------------------------------------------------------------
(* The end of a callback. *)
LEMMA ReturnPaces ==
  ASSUME CInv, NEW c \in Calls, Return(c)
  PROVE  Paces(c)
<1>0. TypeOK BY DEF CInv, NInv, JInv, IInv
<1>1. pc'[c] = "drain" BY <1>0, FinishKeeps DEF Return
<1>2. Lasts(c)' BY <1>1 DEF Lasts, AtControl
<1> QED BY <1>1, <1>2, OpenPaces DEF AtControl, Return

LEMMA DrainPaces ==
  ASSUME CInv, NEW c \in Calls, Drain(c)
  PROVE  Paces(c)
<1>0. TypeOK BY DEF CInv, NInv, JInv, IInv
<1>1. pc[c] = "drain" /\ turns' = turns /\ poisoned' = poisoned BY DEF Drain
<1>2. CASE pc' = pc
  <2>1. Lasts(c)' BY <1>1, <1>2 DEF Lasts, AtControl
  <2> QED BY <1>1, <1>2, <2>1, OpenPaces DEF AtControl
<1>3. CASE /\ SetScope(c, [scope[c] EXCEPT !.awaited = Ahead(conn[c])])
           /\ Goto(c, "tail")
  <2>1. pc'[c] = "tail" BY <1>0, <1>3 DEF Goto, TypeOK
  <2>2. scope'[c].awaited = ToSet(turns[conn[c]])
    BY <1>0, <1>3 DEF SetScope, Ahead, TypeOK, Scope
  <2>3. Lasts(c)' BY <2>1 DEF Lasts, AtControl
  <2> QED BY <1>1, <2>1, <2>2, <2>3 DEF Paces, Lines, Spoils, Ends, AtControl
<1> QED BY <1>2, <1>3 DEF Drain

LEMMA FinishedPaces ==
  ASSUME CInv, NEW c \in Calls, Finished(c)
  PROVE  Paces(c)
<1>0. TypeOK BY DEF CInv, NInv, JInv, IInv
<1>1. /\ pc[c] = "tail" /\ UNCHANGED <<req, turns, poisoned>>
      /\ scope[c].awaited \cap ToSet(turns[conn[c]]) = {}
  BY DEF Finished
<1>2. CASE pc'[c] \in {"drain", "finalize"}
  <2>1. Lasts(c)' BY <1>2 DEF Lasts, AtControl
  <2> QED BY <1>1, <1>2, <2>1, OpenPaces DEF AtControl
<1>3. CASE IsTx(c) /\ \E p \in {"release", "commit", "rollback-to", "rollback"} :
                        NextControl(c, p)
  <2>1. PICK p \in {"release", "commit", "rollback-to", "rollback"} : NextControl(c, p)
    BY <1>3
  <2>2. PICK t : t = [scope[c] EXCEPT !.phase = p, !.awaited = {}] OBVIOUS
  <2>3. pc'[c] = "announce" /\ scope'[c] = t
    BY <1>0, <2>1, <2>2 DEF NextControl, Goto, SetScope, TypeOK
  <2>4. t.phase \notin Starting BY <1>0, <2>1, <2>2 DEF Starting, TypeOK, Scope
  <2>5. Lasts(c)' BY <1>1, <1>3, <2>3, <2>4 DEF Lasts, AtControl, IsTx
  <2> QED BY <1>1, <1>3, <2>3, <2>5 DEF Paces, Lines, Spoils, Ends
<1>4. Finish(c, "failed") \/ Goto(c, "finalize") => pc'[c] \in {"drain", "finalize"}
  BY <1>0, FinishKeeps DEF Goto, TypeOK
<1> QED BY <1>2, <1>3, <1>4 DEF Finished, MustUndo

LEMMA FinalizePaces ==
  ASSUME CInv, NEW c \in Calls, Finalize(c)
  PROVE  Paces(c)
<1>0. TypeOK BY DEF CInv, NInv, JInv, IInv
<1>1. pc'[c] \in {"releasing", "fulfilled", "rejected"}
  BY <1>0 DEF Finalize, EndAs, Goto, TypeOK
<1>2. turns' = turns /\ poisoned' = poisoned BY DEF Finalize
<1>3. Lasts(c)' BY <1>1 DEF Lasts, AtControl
<1> QED BY <1>1, <1>2, <1>3, OpenPaces DEF AtControl

LEMMA LeadPaces ==
  ASSUME CInv, NEW c \in Calls, Advance(c),
         Lead(c) \/ Return(c) \/ Yield(c) \/ Exhaust(c) \/ Pull(c) \/ Stop(c)
  PROVE  Paces(c)
  BY LeasePaces, RefusePaces, GrantTurnPaces, GrantTailPaces, AcquirePaces, CompletePaces,
     CloseCursorPaces, EndStreamPaces, ReleasePaces, LeaseTxPaces, RefuseTxPaces,
     GrantTxPaces, AcquireTxPaces, GrantSessionPaces, AcquireSessionPaces, AnnouncePaces,
     TurnPaces, ControlPaces, AnnouncedPaces, DrainPaces, FinishedPaces, FinalizePaces,
     ReturnPaces, RowPaces, ExhaustPaces
     DEF Lead

-----------------------------------------------------------------------------
(* A step of the runtime is a step of one of its calls, on a handle given   *)
(* to code that is still there.                                             *)
Acts(c) ==
    \/ Lead(c) \/ Return(c) \/ Yield(c) \/ Exhaust(c) \/ Pull(c) \/ Stop(c)
    \/ \E caller \in SUBSET Calls : \E h \in Calls \cup {Root} :
          /\ Around(caller)
          /\ \/ Execute(c, h, caller) \/ Stream(c, h, caller)
             \/ Tx(c, h, caller) \/ Session(c, h, caller)

LEMMA NextActs ==
  ASSUME JInv, [Next]_vars
  PROVE  UNCHANGED vars \/ \E c \in Calls : Acts(c)
<1>0. IInv /\ TypeOK /\ (\A c \in Calls : Kin(c) /\ Mode(c)) BY DEF JInv, IInv, Whole
<1>1. ASSUME NEW s \in Calls, pc[s] # "unborn"
      PROVE  {s} \cup req[s].caller \in SUBSET Calls /\ Around({s} \cup req[s].caller)
  BY <1>0, <1>1 DEF Kin, Around, TypeOK, Request
<1>2. ASSUME NEW c \in Calls, Invoke(c) PROVE Acts(c)
  <2>1. PICK caller \in Contexts : \E h \in {Root} \cup caller :
          Execute(c, h, caller) \/ Stream(c, h, caller)
          \/ Tx(c, h, caller) \/ Session(c, h, caller)
    BY <1>2 DEF Invoke
  <2>2. caller \in SUBSET Calls /\ Around(caller)
    <3>1. CASE caller = {} BY <3>1 DEF Around
    <3>2. CASE caller # {}
      <4>1. PICK s \in Calls : Running(s) /\ caller = {s} \cup req[s].caller
        BY <2>1, <3>2 DEF Contexts
      <4>2. pc[s] # "unborn" BY <4>1 DEF Running
      <4> QED BY <1>1, <4>1, <4>2
    <3> QED BY <3>1, <3>2
  <2> QED BY <2>1, <2>2 DEF Acts
<1>3. ASSUME NEW c \in Calls, Straggle(c) PROVE Acts(c)
  <2>1. PICK g \in Calls : pc[g] \in {"drain", "tail"} /\ \E h \in {g} :
          LET caller == {g} \cup req[g].caller IN
          Execute(c, h, caller) \/ Stream(c, h, caller)
          \/ Tx(c, h, caller) \/ Session(c, h, caller)
    BY <1>3 DEF Straggle
  <2>2. {g} \cup req[g].caller \in SUBSET Calls /\ Around({g} \cup req[g].caller)
    BY <1>1, <2>1
  <2> QED BY <2>1, <2>2 DEF Acts
<1> QED BY <1>2, <1>3 DEF Next, Quiet, Acts

LEMMA ActsSteps ==
  ASSUME CInv, Orderly, NEW c \in Calls, Acts(c)
  PROVE  Advance(c) /\ Frame(c) /\ Nests(c) /\ Steps(c) /\ Paces(c)
<1>0. NInv /\ JInv /\ IInv /\ \A d \in Calls : Mode(d) BY DEF CInv, NInv, JInv, Whole
<1>1. CASE Lead(c) \/ Return(c) \/ Yield(c) \/ Exhaust(c) \/ Pull(c) \/ Stop(c)
  <2>1. Advance(c)
    BY <1>0, <1>1, LeadStep, ReturnStep, YieldStep, ExhaustStep, PullStep, StopStep
  <2>2. pc[c] # "unborn"
    BY <1>0, <1>1 DEF Lead, Lease, Refuse, GrantTurn, GrantTail, Acquire, Complete, CloseCursor,
       EndStream, Release, LeaseTx, RefuseTx, GrantTx, AcquireTx, GrantSession,
       AcquireSession, Announce, Turn, Control, Announced, Drain, Finished, Finalize,
       Return, Yield, Exhaust, Pull, Stop
  <2> QED BY <1>0, <1>1, <2>1, <2>2, LeadFrame, LeadNests, LeadSteps, LeadPaces
<1>2. CASE ~(Lead(c) \/ Return(c) \/ Yield(c) \/ Exhaust(c) \/ Pull(c) \/ Stop(c))
  <2>1. PICK caller \in SUBSET Calls, h \in Calls \cup {Root} :
          /\ Around(caller)
          /\ \/ Execute(c, h, caller) \/ Stream(c, h, caller)
             \/ Tx(c, h, caller) \/ Session(c, h, caller)
    BY <1>2 DEF Acts
  <2> QED BY <1>0, <2>1, InvokeStep, InvokeFrame, InvokeNests, InvokeSteps, InvokePaces
<1> QED BY <1>1, <1>2

(* Nothing happens. *)
LEMMA IdleKeeps ==
  ASSUME CInv, UNCHANGED vars
  PROVE  CInv'
<1>1. JInv' BY NextKeepsAll DEF CInv, NInv
<1>2. UNCHANGED <<req, pc, conn, scope, mark, turns, poisoned>> BY DEF vars
<1>3. \A c, k : /\ On(c, k)' <=> On(c, k)
                /\ OnTx(c, k)' <=> OnTx(c, k)
                /\ Sess(c, k)' <=> Sess(c, k)
                /\ IsTx(c)' <=> IsTx(c)
                /\ IsSession(c)' <=> IsSession(c)
                /\ IsNested(c)' <=> IsNested(c)
                /\ Statement(c)' <=> Statement(c)
                /\ Unfinished(c)' <=> Unfinished(c)
                /\ ScopeOf(c)' = ScopeOf(c)
                /\ Gone(c)' <=> Gone(c)
                /\ Tainted(k)' <=> Tainted(k)
  BY <1>2 DEF On, OnTx, Sess, IsTx, IsSession, IsNested, InTransaction, Statement,
              Unfinished, IsDone, ScopeOf, Gone, Tainted, Loose
<1>4. \A c, k : /\ Deepest(c, k)' <=> Deepest(c, k)
                /\ SDeepest(c, k)' <=> SDeepest(c, k)
                /\ Alone(k)' <=> Alone(k)
                /\ Reserved(c)' <=> Reserved(c)
  BY <1>2, <1>3 DEF Deepest, SDeepest, Alone, Reserved
<1>5. ASSUME NEW c \in Calls, NEW k \in Conns PROVE Placed(c, k)'
  <2>0. Placed(c, k) BY DEF CInv, NInv
  <2>1. Lined(c, k)' BY <1>2, <1>3, <2>0 DEF Placed, Lined
  <2>2. Between(c, k)' BY <1>2, <1>3, <2>0 DEF Placed, Between
  <2>3. Heir(c, k)' BY <1>2, <1>3, <2>0 DEF Placed, Heir
  <2>4. Inside(c, k)' BY <1>2, <1>3, <2>0 DEF Placed, Inside
  <2>5. Marked(c, k)' BY <1>2, <1>3, <1>4, <2>0 DEF Placed, Marked
  <2>6. Saved(c, k)' BY <1>2, <1>3, <2>0 DEF Placed, Saved, ScopeOf
  <2> QED BY <2>1, <2>2, <2>3, <2>4, <2>5, <2>6 DEF Placed
<1>6. ASSUME NEW c \in Calls PROVE Ordered(c)'
  <2>0. Ordered(c) BY DEF CInv, NInv
  <2>1. Booked(c)' BY <1>2, <1>4, <2>0 DEF Ordered, Booked
  <2>2. Keeps(c)' BY <1>2, <1>3, <2>0 DEF Ordered, Keeps, ScopeOf
  <2>3. Single(c)' BY <1>2, <1>3, <2>0 DEF Ordered, Single
  <2>4. \A d : /\ RootScope(d)' <=> RootScope(d)
               /\ RootTx(d)' <=> RootTx(d)
               /\ Refused(d)' <=> Refused(d)
    BY <1>2, <1>3 DEF RootScope, RootTx, Loose, Refused
  <2>5. Remembers(c)' BY <1>2, <1>3, <2>0, <2>4 DEF Ordered, Remembers
  <2>6. (Only(c)' <=> Only(c)) /\ (Peaceful' <=> Peaceful)
    BY <1>2, <1>3, <2>4 DEF Only, Peaceful, IsStream
  <2>7. Sure(c)' BY <1>2, <1>3, <2>0, <2>4, <2>6 DEF Ordered, Sure, IsStream, IsHealthy
  <2> QED BY <2>1, <2>2, <2>3, <2>5, <2>7 DEF Ordered
<1>7. ASSUME NEW k \in Conns PROVE Vacant(k)'
  BY <1>2, <1>3, <1>4 DEF CInv, NInv, Vacant, Loose
<1>8. ASSUME NEW c \in Calls PROVE Lasts(c)' /\ Ending(c)' /\ Guarded(c)'
  BY <1>2, <1>3 DEF CInv, Lasts, Ending, Guarded
<1> QED BY <1>1, <1>5, <1>6, <1>7, <1>8 DEF CInv, NInv

LEMMA InitNests ==
  ASSUME Init
  PROVE  CInv
<1>1. JInv BY InitKeepsAll
<1>2. \A c \in Calls : /\ pc[c] = "unborn" /\ scope[c] = NewScope
                       /\ ~Statement(c) => FALSE
                       /\ ~Unfinished(c) /\ ~Reserved(c)
  BY DEF Init, Unborn, Statement, Unfinished, Reserved
<1>3. \A c \in Calls, k \in Conns : ~On(c, k) /\ ~OnTx(c, k) /\ ~Sess(c, k)
  BY <1>2 DEF On, OnTx, Sess, ScopePC
<1>4. \A c \in Calls, k \in Conns : Placed(c, k)
  BY <1>3 DEF Placed, Lined, Between, Heir, Inside, Marked, Saved, Deepest, SDeepest
<1>5. \A c \in Calls : Ordered(c)
  BY <1>2 DEF Ordered, Booked, Keeps, Single, Remembers, Sure, RootTx, RootScope,
              ScopePC, Statement, IsTx, IsSession
<1>6. \A k \in Conns : mark[k] = Fresh BY DEF Init
<1>7. \A k \in Conns : Vacant(k) BY <1>6 DEF Vacant, Fresh
<1>8. \A c \in Calls : Lasts(c) /\ Ending(c) /\ Guarded(c)
  BY <1>2 DEF Lasts, Ending, Guarded, AtControl, NewScope, Statement, IsTx
<1> QED BY <1>1, <1>4, <1>5, <1>7, <1>8 DEF CInv, NInv

LEMMA NextNests ==
  ASSUME CInv, Orderly, [Next]_vars
  PROVE  CInv'
<1>1. UNCHANGED vars \/ \E c \in Calls : Acts(c) BY NextActs DEF CInv, NInv
<1> QED BY <1>1, IdleKeeps, ActsSteps, PacesKeep

(* CInv holds of every behaviour whose application is orderly: scopes on    *)
(* one resource nest, the markers of the resource are those of the deepest  *)
(* one that is in a transaction, and a transaction that ends has the queue  *)
(* to itself.                                                               *)
THEOREM NestingInductive == Orderly => (Spec => []CInv)
<1> SUFFICES ASSUME Orderly PROVE Spec => []CInv OBVIOUS
<1>1. Init => CInv BY InitNests
<1>2. CInv /\ [Next]_vars => CInv' BY NextNests
<1> QED BY <1>1, <1>2, PTL DEF Spec

-----------------------------------------------------------------------------
(* A transaction is ended only when all the work queued in it is done: the  *)
(* statement that ends it is alone in the queue of its resource.            *)
THEOREM EndsAloneHolds == Orderly => (Spec => []EndsAlone)
<1>1. CInv => EndsAlone BY DEF CInv, Ending, AtControl, Starting, EndsAlone
<1> QED BY <1>1, NestingInductive, PTL

(* The handle of a callback is accepted when no other scope disturbs it and *)
(* either it is in a transaction or the marker of its resource is one that  *)
(* holds: what ended before has put the markers back.                       *)
LEMMA OpenUndisturbed ==
  ASSUME CInv, NEW c \in Calls, pc[c] = "body", conn[c] \notin poisoned, Undisturbed(c),
         InTransaction(c) \/ ~Loose
  PROVE  IsOpen(c)
<1>1. PICK k : k = conn[c] OBVIOUS
<1>2. TypeOK /\ (\A d \in Calls : Local(d)) /\ Lasts(c) BY DEF CInv, NInv, JInv, IInv
<1>3. k \in Conns /\ On(c, k) BY <1>1, <1>2 DEF Local, NeedsConn, On, ScopePC
<1>4. ASSUME NEW d \in Calls, On(d, k) PROVE Entered(d)
  <2>1. ~Statement(d) /\ req[d].kind \in Kind BY <1>2, <1>4 DEF Local, On, TypeOK, Request
  <2>2. IsTx(d) \/ IsSession(d) BY <2>1 DEF Statement, Kind, IsTx, IsSession
  <2> QED BY <1>3, <1>4, <2>2, ScopeConstants
          DEF Entered, On, ScopePC, Unfinished, IsDone, Settled
<1>5. Deepest(c, k) BY <1>1, <1>3, <1>4 DEF Undisturbed, Deepest, On
<1>6. IsSession(c) => SDeepest(c, k) BY <1>5 DEF Deepest, SDeepest, Sess
<1>7. Marked(c, k) BY <1>3 DEF CInv, NInv, Placed
<1>8. ~Tainted(k) BY <1>1 DEF Tainted
<1>9. mark[k].activeScope = scope[c].txScope
  <2>1. mark[k].activeScope = scope[c].txScope \/ (scope[c].txScope = None /\ Loose)
    BY <1>5, <1>7, <1>8 DEF Marked, Gone
  <2>2. InTransaction(c) => scope[c].txScope # None BY DEF InTransaction
  <2> QED BY <2>1, <2>2
<1> QED BY <1>1, <1>2, <1>6, <1>7, <1>9 DEF IsOpen, Lasts, Marked, IsSession

(* The handle of a transaction, or of a session within one, is accepted     *)
(* whenever no other callback runs deeper on its resource.                  *)
THEOREM UsableInTransactionHolds == Orderly => (Spec => []UsableInTransaction)
<1>1. CInv => UsableInTransaction BY OpenUndisturbed DEF UsableInTransaction
<1> QED BY <1>1, NestingInductive, PTL

(* So is every handle of a pool and of the runtime without async context.   *)
(* On a direct database with its queue it is not: the marker that a root    *)
(* transaction restores may be one that has ended since.                    *)
THEOREM UsableHandleHolds ==
  Orderly /\ (Pooled \/ Conservative) => (Spec => []UsableHandle)
<1> SUFFICES ASSUME Orderly, Pooled \/ Conservative PROVE Spec => []UsableHandle OBVIOUS
<1>1. ~Loose BY DEF Loose
<1>2. CInv => UsableHandle BY <1>1, OpenUndisturbed DEF UsableHandle
<1> QED BY <1>2, NestingInductive, PTL

(* A statement that starts does so on a healthy resource. *)
LEMMA StartsHealthy ==
  ASSUME CInv, NEW c \in Calls, Acts(c),
         pc[c] \notin {"running", "suspended"}, pc'[c] = "running"
  PROVE  conn'[c] \notin poisoned
<1>0. TypeOK /\ Local(c) /\ JInv BY DEF CInv, NInv, JInv, IInv
<1>1. ASSUME NEW k \in Conns, Start(c, k), IsHealthy(k) PROVE conn'[c] \notin poisoned
  BY <1>0, <1>1, StartFacts DEF IsHealthy
<1>2. Abandon(c) \/ Goto(c, "rejected") => pc'[c] = "rejected"
  BY <1>0, AbandonFacts DEF Goto, TypeOK
<1>3. CASE GrantTurn(c) \/ GrantTail(c)
  <2>1. conn[c] \in Conns BY <1>0, <1>3 DEF GrantTurn, GrantTail, Local, NeedsConn
  <2> QED BY <1>1, <1>2, <1>3, <2>1 DEF GrantTurn, GrantTail
<1>4. CASE Acquire(c)
  <2>1. PICK k \in idle : IF IsHealthy(k) THEN Start(c, k) ELSE Goto(c, "rejected")
    BY <1>4 DEF Acquire
  <2> QED BY <1>0, <1>1, <1>2, <2>1 DEF TypeOK
<1>5. CASE Lease(c)
  <2>1. Goto(c, "queued") \/ Goto(c, "acquiring") => pc'[c] # "running"
    BY <1>0 DEF Goto, TypeOK
  <2>2. conn' = [conn EXCEPT ![c] = StateOf(req[c].via)] /\ IsHealthy(StateOf(req[c].via))
    BY <1>5, <2>1 DEF Lease, CanLease
  <2> QED BY <1>0, <2>2 DEF TypeOK, IsHealthy
<1>6. CASE Refuse(c) \/ Yield(c) \/ Exhaust(c) \/ Pull(c) \/ Stop(c)
  BY <1>0, <1>2, <1>6 DEF Refuse, Yield, Exhaust, Pull, Stop, Goto, TypeOK
<1>7. CASE Complete(c) \/ CloseCursor(c) \/ EndStream(c) \/ Release(c)
  BY <1>0, <1>7 DEF Complete, CloseCursor, EndStream, Release, EndAs, Goto, TypeOK
<1>8. pc'[c] \notin ScopePC /\ pc'[c] \notin {"ready", "queued", "acquiring", "releasing"}
      /\ pc'[c] \notin Settled
  BY DEF ScopePC, Settled
<1>9. ~NoResource(c) /\ ~ControlFails(c) /\ \A k \in Conns : ~Begin(c, k)
  BY <1>0, <1>8, NoResourceKeeps, ControlFailsKeeps, BeginKeeps DEF ScopePC
<1>10. \A l : Goto(c, l) => l = "running" BY <1>0 DEF Goto, TypeOK
<1>11. CASE LeaseTx(c) \/ RefuseTx(c) \/ GrantTx(c) \/ AcquireTx(c)
  <2>1. GrantTx(c) => conn[c] \in Conns BY <1>0 DEF GrantTx, Local, NeedsConn
  <2>2. \A k \in idle : k \in Conns BY <1>0 DEF TypeOK
  <2>3. LeaseTx(c) => StateOf(req[c].via) \in Conns \/ (req[c].via = Root /\ ~Conservative)
    <3>1. NInv BY DEF CInv
    <3> QED BY <3>1, WaitsOutside, DirectIsConn, ScopeConstants DEF LeaseTx, StateOf
  <2>4. ~LeaseTx(c) BY <1>9, <1>10, <2>3 DEF LeaseTx
  <2> QED BY <1>9, <1>10, <1>11, <2>1, <2>2, <2>4 DEF RefuseTx, GrantTx, AcquireTx
<1>12. CASE GrantSession(c) \/ AcquireSession(c)
  BY <1>10, <1>12 DEF GrantSession, AcquireSession
<1>13. CASE Announce(c) \/ Turn(c) \/ Control(c) \/ Announced(c)
  <2>1. ~Finish(c, "failed") BY <1>0, <1>8, FinishKeeps DEF ScopePC
  <2> QED BY <1>9, <1>10, <1>13 DEF Announce, TakeTurn, Turn, Control, Announced
<1>14. CASE Return(c) \/ Drain(c) \/ Finished(c) \/ Finalize(c)
  <2>1. \A o : ~Finish(c, o) BY <1>0, <1>8, FinishKeeps DEF ScopePC
  <2>2. Drain(c) => pc[c] = "drain" BY DEF Drain
  <2>3. Drain(c) => pc'[c] # "running" BY <1>10, <2>2 DEF Drain
  <2>4. Finished(c) => FALSE BY <1>10, <2>1 DEF Finished, NextControl
  <2>5. Finalize(c) => FALSE BY <1>10 DEF Finalize, EndAs
  <2> QED BY <1>14, <2>1, <2>3, <2>4, <2>5 DEF Return
<1>15. ASSUME NEW caller, NEW h PROVE ~(Execute(c, h, caller) \/ Stream(c, h, caller)
                                        \/ Tx(c, h, caller) \/ Session(c, h, caller))
  BY <1>10 DEF Execute, Stream, Tx, Session
<1> QED BY <1>3, <1>4, <1>5, <1>6, <1>7, <1>11, <1>12, <1>13, <1>14, <1>15 DEF Acts, Lead

(* After a resource is poisoned no statement starts on it, and nothing is   *)
(* committed, released or rolled back on it.                                *)
THEOREM PoisonQuarantineHolds == Orderly => (Spec => PoisonQuarantine)
<1> SUFFICES ASSUME Orderly PROVE Spec => PoisonQuarantine OBVIOUS
<1> DEFINE Guards ==
      \A c \in Calls :
        \/ pc[c] \notin {"running", "suspended"} /\ pc'[c] = "running"
        \/ pc[c] = "turn" /\ pc'[c] = "driver" /\ scope[c].phase \notin {"begin", "savepoint"}
        => conn'[c] \notin poisoned
<1>1. CInv /\ [Next]_vars => [Guards]_vars
  <2>1. SUFFICES ASSUME CInv, NEW e \in Calls, Acts(e) PROVE Guards
    BY NextActs DEF CInv, NInv
  <2>2. Advance(e) /\ Frame(e) BY <2>1, ActsSteps
  <2>3. SUFFICES ASSUME NEW c \in Calls, pc'[c] # pc[c],
                        \/ pc[c] \notin {"running", "suspended"} /\ pc'[c] = "running"
                        \/ pc[c] = "turn" /\ pc'[c] = "driver" /\ scope[c].phase \notin Starting
                 PROVE  conn'[c] \notin poisoned
    BY DEF Starting
  <2>4. c = e BY <2>2, <2>3 DEF Advance, Moves
  <2>5. CASE pc[c] = "turn" /\ pc'[c] = "driver" /\ scope[c].phase \notin Starting
    <3>1. conn'[c] = conn[c] BY <2>2, <2>4, <2>5 DEF Frame, Places, ScopePC
    <3>2. Guarded(c) BY <2>1 DEF CInv
    <3> QED BY <2>5, <3>1, <3>2 DEF Guarded
  <2> QED BY <2>1, <2>3, <2>4, <2>5, StartsHealthy
<1>2. CInv /\ [Next]_vars => [Guards]_vars BY <1>1
<1> HIDE DEF Guards
<1>3. Spec => []CInv BY NestingInductive
<1>4. Spec => [][Guards]_vars BY <1>2, <1>3, PTL DEF Spec
<1> QED BY <1>4 DEF PoisonQuarantine, Guards

-----------------------------------------------------------------------------
(* The database has begun the transaction, or savepoint, of c, and not ended *)
(* it, as the runtime has been told.                                        *)
Begun(c) == /\ scope[c].started /\ ~scope[c].completed
            /\ ~(scope[c].phase \in {"rollback", "discard-savepoint"}
                 /\ pc[c] \in {"announced", "finalize"})
BegunOn(c, k) == OnTx(c, k) /\ Begun(c)

(* What the runtime has been told of k is how it is: k is healthy, or was    *)
(* when a control statement that is not answered was let through.           *)
Trusted(k) == k \notin poisoned \/ \E c \in Calls : On(c, k) /\ pc[c] \in {"turn", "driver"}

(* The stack of the database is the transactions that have begun, the inner  *)
(* ones above the outer.                                                    *)
Stacked(k) ==
    Trusted(k) =>
        /\ \A i \in 1..Len(open[k]) : BegunOn(open[k][i], k)
        /\ \A i, j \in 1..Len(open[k]) : i < j => open[k][i] \in req[open[k][j]].caller
        /\ \A c \in Calls : BegunOn(c, k) => \E i \in 1..Len(open[k]) : open[k][i] = c

(* How far a transaction is at each label. *)
Asking == {"announce", "turn", "driver"}
Fast   == {"begin", "commit", "rollback"}  \* phases of a whole transaction
Staged(c) ==
    /\ pc[c] \in {"ready", "queued", "acquiring"} /\ IsTx(c) =>
          scope[c].phase = "begin" /\ ~scope[c].started /\ ~scope[c].completed
    /\ pc[c] \in Asking => ~scope[c].completed
                           /\ (scope[c].started <=> scope[c].phase \notin Starting)
    /\ pc[c] = "announced" /\ scope[c].phase \in Starting /\ scope[c].outcome = "ok" =>
          scope[c].started /\ ~scope[c].completed
    /\ pc[c] = "announced" /\ scope[c].phase = "rollback-to" =>
          scope[c].started /\ ~scope[c].completed
    /\ pc[c] = "announced" /\ scope[c].phase \in {"commit", "release"}
          /\ scope[c].outcome = "ok" => scope[c].completed
    /\ pc[c] = "body" /\ IsTx(c) => scope[c].started /\ ~scope[c].completed
    /\ pc[c] \in {"drain", "tail"} /\ IsTx(c) /\ scope[c].outcome = "ok" =>
          scope[c].started /\ ~scope[c].completed
    /\ pc[c] \in AtControl => (IsNested(c) <=> scope[c].phase \notin Fast)
    /\ pc[c] = "finalize" /\ IsTx(c) /\ conn[c] # None => ~Begun(c) \/ conn[c] \in poisoned

(* A statement is in the transaction of its handle as long as it lasts. *)
Within(c) == pc[c] \in {"running", "suspended"} => Innermost(conn[c]) = ScopeOf(req[c].via)

(* The queue of k is the scoped calls that wait for it or use it, each once, *)
Waiting(c, k) ==
    /\ conn[c] = k
    /\ \/ Statement(c) /\ req[c].via # Root /\ pc[c] \in {"queued"} \cup InUse
       \/ pc[c] \in {"turn", "driver"}
Queued(k) ==
    /\ \A i \in 1..Len(turns[k]) : Waiting(turns[k][i], k)
    /\ \A i, j \in 1..Len(turns[k]) : turns[k][i] = turns[k][j] => i = j
    /\ \A c \in Calls : Waiting(c, k) => \E i \in 1..Len(turns[k]) : turns[k][i] = c

(* and a scope does not end before those of its own. *)
Hopes(c) ==
    pc[c] = "queued" /\ Statement(c) /\ req[c].via # Root =>
        \/ pc[req[c].via] \in {"body", "drain"}
        \/ pc[req[c].via] = "tail" /\ c \in scope[req[c].via].awaited

SInv == /\ CInv
        /\ \A k \in Conns : Stacked(k) /\ Queued(k)
        /\ \A c \in Calls : Staged(c) /\ Within(c) /\ Hopes(c)

-----------------------------------------------------------------------------
(* The stack of a resource nobody is on. *)
LEMMA NobodyBegun ==
  ASSUME TypeOK, NEW k \in Conns, Trusted(k), Stacked(k),
         \A c \in Calls : ~BegunOn(c, k)
  PROVE  open[k] = <<>> /\ Innermost(k) = None
<1>1. open[k] \in Seq(Calls) BY DEF TypeOK
<1>2. Len(open[k]) = 0
  <2>1. ASSUME Len(open[k]) # 0 PROVE FALSE
    <3>1. 1 \in 1..Len(open[k]) /\ open[k][1] \in Calls BY <1>1, <2>1
    <3> QED BY <3>1 DEF Stacked
  <2> QED BY <2>1
<1> QED BY <1>1, <1>2 DEF Innermost

(* The innermost transaction is on top. *)
LEMMA TopOfStack ==
  ASSUME JInv, NEW k \in Conns, Trusted(k), Stacked(k), NEW t \in Calls, BegunOn(t, k),
         \A c \in Calls : BegunOn(c, k) => c = t \/ c \in req[t].caller
  PROVE  /\ open[k] # <<>> /\ Len(open[k]) \in Nat \ {0} /\ open[k][Len(open[k])] = t
         /\ Innermost(k) = t
<1>0. /\ TypeOK /\ open[k] \in Seq(Calls)
      /\ \A c \in Calls : Kin(c)
  BY DEF JInv, IInv, TypeOK, Whole
<1>1. PICK i \in 1..Len(open[k]) : open[k][i] = t BY DEF Stacked
<1>2. PICK n : n = Len(open[k]) OBVIOUS
<1>3. n \in Nat \ {0} /\ n \in 1..Len(open[k]) BY <1>0, <1>1, <1>2
<1>4. PICK d \in Calls : d = open[k][n] BY <1>0, <1>2, <1>3
<1>5. BegunOn(d, k) /\ pc[d] # "unborn" /\ pc[t] # "unborn"
  BY <1>3, <1>4 DEF Stacked, BegunOn, OnTx, On, ScopePC
<1>6. ASSUME d # t PROVE FALSE
  <2>1. i < n BY <1>1, <1>2, <1>3, <1>4, <1>6
  <2>2. t \in req[d].caller BY <1>1, <1>3, <1>4, <2>1 DEF Stacked
  <2>3. d \in req[t].caller BY <1>5, <1>6
  <2> QED BY <1>0, <1>5, <2>2, <2>3 DEF Kin, Around
<1>7. open[k] # <<>> BY <1>0, <1>2, <1>3
<1> QED BY <1>2, <1>3, <1>4, <1>6, <1>7 DEF Innermost, Last

(* Only one has begun. *)
LEMMA OnlyBegun ==
  ASSUME JInv, NEW k \in Conns, Trusted(k), Stacked(k), NEW t \in Calls, BegunOn(t, k),
         \A c \in Calls : BegunOn(c, k) => c = t
  PROVE  open[k] = <<t>>
<1>0. open[k] \in Seq(Calls) /\ Kin(t) BY DEF JInv, IInv, TypeOK, Whole
<1>1. /\ Len(open[k]) \in Nat \ {0} /\ open[k][Len(open[k])] = t BY TopOfStack
<1>2. pc[t] # "unborn" BY DEF BegunOn, OnTx, On, ScopePC
<1>3. ASSUME Len(open[k]) # 1 PROVE FALSE
  <2>1. PICK n \in Nat \ {0} : n = Len(open[k]) BY <1>1
  <2>2. n \in Int /\ n > 0 /\ n # 1 BY <1>3, <2>1
  <2>3. 1 < n BY <2>2
  <2>4. 1 \in 1..n /\ n \in 1..n BY <2>2
  <2>5. open[k][1] \in Calls /\ BegunOn(open[k][1], k) BY <1>0, <2>1, <2>4 DEF Stacked
  <2>6. open[k][1] = t BY <2>5
  <2>7. t \in req[t].caller BY <1>1, <2>1, <2>3, <2>4, <2>6 DEF Stacked
  <2> QED BY <1>0, <1>2, <2>7 DEF Kin
<1>4. PICK s \in Seq(Calls) : s = open[k] BY <1>0
<1>5. Len(s) = 1 /\ s[1] = t BY <1>1, <1>3, <1>4
<1>6. s = <<t>> BY <1>5
<1> QED BY <1>4, <1>6

(* A callback whose handle is open has the innermost transaction. *)
LEMMA OpenInnermost ==
  ASSUME SInv, NEW k \in Conns, Trusted(k), k \notin poisoned,
         NEW h \in Calls, On(h, k), pc[h] = "body", IsOpen(h)
  PROVE  Innermost(k) = ScopeOf(h)
<1>0. /\ NInv /\ JInv /\ TypeOK /\ Stacked(k) /\ (\A c \in Calls : Staged(c))
      /\ Lined(h, k) /\ Inside(h, k) /\ (\A c \in Calls : Marked(c, k)) /\ ~Tainted(k)
  BY DEF SInv, CInv, NInv, Placed, JInv, IInv, Tainted
<1>1. h # Root /\ conn[h] = k BY ScopeConstants DEF On
<1>2. mark[k].activeScope = scope[h].txScope /\ ScopeOf(h) = scope[h].txScope
  BY <1>1 DEF IsOpen, ScopeOf
<1>3. CASE scope[h].txScope = None
  <2>1. \A c \in Calls : ~BegunOn(c, k)
    BY <1>0, <1>2, <1>3, ScopeConstants DEF Marked, BegunOn
  <2> QED BY <1>0, <1>2, <1>3, <2>1, NobodyBegun
<1>4. CASE scope[h].txScope # None
  <2>1. PICK t : t = scope[h].txScope OBVIOUS
  <2>2. t \in {h} \cup req[h].caller /\ OnTx(t, k) BY <1>0, <1>4, <2>1 DEF Inside
  <2>3. t \in Calls /\ pc[t] = "body"
    <3>1. req[h].caller \in SUBSET Calls BY <1>0, OnFacts
    <3>2. t \in Calls BY <2>2, <3>1
    <3> QED BY <1>0, <2>2, <3>2 DEF Lined, OnTx
  <2>4. BegunOn(t, k) BY <1>0, <2>2, <2>3 DEF Staged, BegunOn, Begun, OnTx
  <2>5. \A c \in Calls : BegunOn(c, k) => c = t \/ c \in req[t].caller
    BY <1>0, <1>2, <2>1 DEF Marked, BegunOn
  <2> QED BY <1>0, <1>2, <2>1, <2>3, <2>4, <2>5, TopOfStack
<1> QED BY <1>3, <1>4

(* Of the other scopes on k, those a transaction at its end is in. *)
LEMMA OuterTx ==
  ASSUME NInv, NEW k \in Conns, NEW c \in Calls, On(c, k), pc[c] # "body", IsTx(c),
         NEW d \in Calls, OnTx(d, k), d # c
  PROVE  /\ req[c].via \in Calls /\ req[c].via # Root /\ d \in req[c].caller
         /\ pc[d] = "body" /\ IsNested(c)
         /\ \E t \in Calls : /\ t = ScopeOf(req[c].via) /\ OnTx(t, k) /\ pc[t] = "body"
                             /\ t \in req[c].caller
                             /\ d = t \/ d \in req[t].caller
<1>1. On(d, k) BY DEF OnTx
<1>2. PICK h \in Calls : h = req[c].via BY <1>1, LastPlace
<1>3. /\ d \in req[c].caller /\ pc[d] = "body" /\ h # Root
      /\ d = h \/ d \in req[h].caller
  BY <1>1, <1>2, LastPlace
<1>4. JInv /\ On(h, k) BY <1>2, <1>3, OnFacts DEF NInv
<1>5. PICK t : t = scope[h].txScope OBVIOUS
<1>6. Inside(h, k) BY DEF NInv, Placed
<1>7. /\ d = t \/ (t # None /\ d \in req[t].caller)
  BY <1>3, <1>4, <1>5, <1>6 DEF Inside
<1>8. t # None BY <1>7, ScopeConstants
<1>9. t \in {h} \cup req[h].caller /\ OnTx(t, k) BY <1>4, <1>5, <1>6, <1>8 DEF Inside
<1>10. req[h].caller \in SUBSET Calls BY <1>4, OnFacts
<1>11. t \in Calls BY <1>9, <1>10
<1>12. h \in req[c].caller /\ req[h].caller \subseteq req[c].caller /\ c \notin req[c].caller
  BY <1>2, <1>3, <1>4, OnFacts
<1>13. t # c /\ On(t, k) BY <1>9, <1>12 DEF OnTx
<1>14. t \in req[c].caller /\ pc[t] = "body" BY <1>11, <1>13, LastPlace
<1>15. IsNested(c) /\ t = ScopeOf(req[c].via)
  BY <1>2, <1>3, <1>5, <1>8 DEF IsNested, InTransaction, ScopeOf
<1> QED BY <1>2, <1>3, <1>7, <1>9, <1>11, <1>14, <1>15

(* What a control statement finds at the database. *)
LEMMA DriverStack ==
  ASSUME SInv, NEW c \in Calls, NEW k \in Conns, conn[c] = k, pc[c] = "driver"
  PROVE  /\ On(c, k) /\ IsTx(c) /\ Trusted(k)
         /\ scope[c].phase = "begin" => open[k] = <<>>
         /\ scope[c].phase = "savepoint" => Innermost(k) = ScopeOf(req[c].via)
         /\ scope[c].phase \in {"commit", "rollback"} => open[k] = <<c>>
         /\ scope[c].phase \in {"release", "rollback-to", "discard-savepoint"} =>
              open[k] # <<>> /\ open[k][Len(open[k])] = c /\ Innermost(k) = c
         /\ BegunOn(c, k) <=> scope[c].phase \notin Starting
<1>0. /\ NInv /\ JInv /\ TypeOK /\ Stacked(k) /\ Staged(c) /\ Lasts(c)
      /\ \A d \in Calls : Staged(d)
  BY DEF SInv, CInv, NInv, JInv, IInv
<1>1. On(c, k) /\ IsTx(c) BY <1>0 DEF On, ScopePC, Lasts, AtControl
<1>2. Trusted(k) BY <1>1 DEF Trusted
<1>3. BegunOn(c, k) <=> scope[c].phase \notin Starting
  BY <1>0, <1>1 DEF Staged, Asking, BegunOn, OnTx, Begun
<1>4. IsNested(c) <=> scope[c].phase \notin Fast BY <1>0 DEF Staged, AtControl
<1>5. ASSUME ~IsNested(c), NEW d \in Calls, BegunOn(d, k) PROVE d = c
  BY <1>0, <1>1, <1>5, OuterTx DEF BegunOn
<1>6. ASSUME scope[c].phase = "begin" PROVE open[k] = <<>>
  <2>1. \A d \in Calls : ~BegunOn(d, k) BY <1>3, <1>4, <1>5, <1>6 DEF Fast, Starting
  <2> QED BY <1>0, <1>2, <2>1, NobodyBegun
<1>7. ASSUME scope[c].phase \in {"commit", "rollback"} PROVE open[k] = <<c>>
  <2>1. ~IsNested(c) /\ BegunOn(c, k) BY <1>3, <1>4, <1>7 DEF Fast, Starting
  <2> QED BY <1>0, <1>2, <1>5, <2>1, OnlyBegun
<1>8. ASSUME scope[c].phase \in {"release", "rollback-to", "discard-savepoint"}
      PROVE  open[k] # <<>> /\ open[k][Len(open[k])] = c /\ Innermost(k) = c
  <2>1. BegunOn(c, k) BY <1>3, <1>8 DEF Starting
  <2>2. \A d \in Calls : BegunOn(d, k) => d = c \/ d \in req[c].caller
    BY <1>0, <1>1, OuterTx DEF BegunOn
  <2> QED BY <1>0, <1>2, <2>1, <2>2, TopOfStack
<1>9. ASSUME scope[c].phase = "savepoint" PROVE Innermost(k) = ScopeOf(req[c].via)
  <2>1. IsNested(c) /\ ~BegunOn(c, k) BY <1>3, <1>4, <1>9 DEF Fast, Starting
  <2>2. PICK h \in Calls : h = req[c].via /\ On(h, k) /\ h \in req[c].caller /\ h # Root
    BY <1>0, <1>1, <2>1, OnFacts DEF IsNested, InTransaction
  <2>3. PICK t : t = scope[h].txScope OBVIOUS
  <2>4. t # None /\ t = ScopeOf(req[c].via)
    BY <2>1, <2>2, <2>3 DEF IsNested, InTransaction, ScopeOf
  <2>5. t \in {h} \cup req[h].caller /\ OnTx(t, k)
    BY <1>0, <2>2, <2>3, <2>4 DEF NInv, Placed, Inside
  <2>6. t \in req[c].caller /\ t \in Calls /\ t # c
    BY <1>0, <1>1, <2>2, <2>5, OnFacts
  <2>7. pc[t] = "body" BY <1>0, <1>1, <2>5, <2>6, LastPlace DEF OnTx
  <2>8. BegunOn(t, k) BY <1>0, <2>5, <2>6, <2>7 DEF Staged, BegunOn, Begun, OnTx
  <2>9. \A d \in Calls : BegunOn(d, k) => d = t \/ d \in req[t].caller
    BY <1>0, <1>1, <2>1, <2>4, OuterTx DEF BegunOn
  <2> QED BY <1>0, <1>2, <2>4, <2>6, <2>8, <2>9, TopOfStack
<1> QED BY <1>1, <1>2, <1>3, <1>6, <1>7, <1>8, <1>9
-----------------------------------------------------------------------------
(* What a step of c does to the stack of k: a control statement that begins  *)
(* puts c on top, one that ends takes it away, or nobody knows; no other     *)
(* step changes it, unless the connection is dropped.                       *)
Pushes(c, k) == /\ pc[c] = "driver" /\ conn[c] = k /\ ~BegunOn(c, k) /\ BegunOn(c, k)'
                /\ open'[k] = Append(open[k], c)
Pops(c, k)   == /\ pc[c] = "driver" /\ conn[c] = k /\ ~BegunOn(c, k)'
                /\ open[k] # <<>> /\ open[k][Len(open[k])] = c
                /\ open'[k] = SubSeq(open[k], 1, Len(open[k]) - 1)
Stacks(c, k) ==
    \/ ~Trusted(k)'
    \/ Alone(k)' /\ open'[k] = <<>>
    \/ Trusted(k) /\ \/ open'[k] = open[k] /\ (BegunOn(c, k)' <=> BegunOn(c, k))
                     \/ Pushes(c, k) \/ Pops(c, k)

Touches(c, k) ==
    \/ pc[c] = "driver" /\ conn[c] = k
    \/ Pooled /\ (k \in idle \/ (Holds(c) /\ conn[c] = k /\ pc[c] = "releasing"))

(* To its queue: c comes, or goes, or stays. *)
Queues(c, k) ==
    \/ turns'[k] = turns[k] /\ (Waiting(c, k)' <=> Waiting(c, k))
    \/ turns'[k] = Append(turns[k], c) /\ ~Waiting(c, k) /\ Waiting(c, k)'
    \/ Quits(c, k) /\ ~Waiting(c, k)'

(* A statement starts where no scope is, or on an open handle. *)
Admitted(c) ==
    pc'[c] \in {"running", "suspended"} =>
        \/ pc[c] \in {"running", "suspended"} /\ conn'[c] = conn[c]
        \/ /\ open' = open /\ conn'[c] \in Conns /\ conn'[c] \notin poisoned
           /\ IF req'[c].via = Root THEN Alone(conn'[c])
              ELSE /\ req'[c].via \in Calls /\ IsOpen(req'[c].via) /\ req'[c].via # c
                   /\ On(req'[c].via, conn'[c]) /\ pc[req'[c].via] = "body"

Works(c) ==
    /\ Staged(c)' /\ Admitted(c)
    /\ \A k \in Conns : /\ Stacks(c, k) /\ Queues(c, k)
                        /\ open'[k] # open[k] => Touches(c, k)
    /\ \A k \in poisoned \ poisoned' : Alone(k)
    /\ (pc[c] = "queued" /\ Statement(c) /\ req[c].via # Root)' =>
          pc[c] = "queued" \/ pc[req'[c].via] = "body"

-----------------------------------------------------------------------------
(* A transaction of another call has begun if it had. *)
LEMMA BegunStays ==
  ASSUME NInv, NEW c \in Calls, Advance(c), Frame(c), Nests(c), NEW d \in Calls, d # c
  PROVE  /\ Begun(d)' <=> Begun(d)
         /\ \A k \in Conns : /\ BegunOn(d, k)' <=> BegunOn(d, k)
                             /\ Waiting(d, k)' <=> Waiting(d, k)
<1>0. JInv BY DEF NInv
<1>1. Rests(d) BY <1>0, OthersRest DEF Nests
<1>2. Begun(d)' <=> Begun(d) BY <1>1 DEF Rests, Begun
<1>3. IsTx(d)' <=> IsTx(d) BY <1>1 DEF Rests, IsTx
<1>4. \A k \in Conns : OnTx(d, k)' <=> OnTx(d, k) BY <1>1, <1>3 DEF Rests, OnTx
<1>5. conn'[d] = conn[d] \/ pc[d] = "closed" BY <1>0, StepFacts
<1>6. Statement(d)' <=> Statement(d) BY <1>1 DEF Rests, Statement
<1>7. \A k \in Conns : Waiting(d, k)' <=> Waiting(d, k)
  BY <1>1, <1>5, <1>6 DEF Rests, Waiting, InUse
<1> QED BY <1>2, <1>4, <1>7 DEF BegunOn

LEMMA Tops ==
  ASSUME NEW s \in Seq(Calls), NEW c \in Calls
  PROVE  /\ Len(s) \in Nat /\ Len(Append(s, c)) = Len(s) + 1 /\ Append(s, c)[Len(s) + 1] = c
         /\ \A i \in 1..Len(s) : Append(s, c)[i] = s[i] /\ s[i] \in Calls
         /\ s # <<>> => /\ Len(s) > 0 /\ Len(SubSeq(s, 1, Len(s) - 1)) = Len(s) - 1
                        /\ \A i \in 1..Len(s) - 1 : SubSeq(s, 1, Len(s) - 1)[i] = s[i]
                        /\ Len(Tail(s)) = Len(s) - 1
                        /\ \A i \in 1..Len(s) - 1 : Tail(s)[i] = s[i + 1]
<1>1. /\ Len(s) \in Nat /\ Len(Append(s, c)) = Len(s) + 1 /\ Append(s, c)[Len(s) + 1] = c
      /\ \A i \in 1..Len(s) : Append(s, c)[i] = s[i] /\ s[i] \in Calls
  OBVIOUS
<1>2. ASSUME s # <<>>
      PROVE  /\ Len(s) > 0 /\ Len(SubSeq(s, 1, Len(s) - 1)) = Len(s) - 1
             /\ \A i \in 1..Len(s) - 1 : SubSeq(s, 1, Len(s) - 1)[i] = s[i]
  BY <1>2
<1>3. ASSUME s # <<>>
      PROVE  /\ Len(Tail(s)) = Len(s) - 1
             /\ \A i \in 1..Len(s) - 1 : Tail(s)[i] = s[i + 1]
  BY <1>3
<1> QED BY <1>1, <1>2, <1>3

LEMMA PushKept ==
  ASSUME SInv, NEW c \in Calls, Advance(c), Frame(c), Nests(c), NEW k \in Conns,
         Trusted(k), Pushes(c, k)
  PROVE  Stacked(k)'
<1>0. /\ CInv /\ NInv /\ JInv /\ Stacked(k) /\ TypeOK /\ On(c, k)
      /\ open[k] \in Seq(Calls)
  BY DriverStack DEF SInv, CInv, NInv, JInv, IInv, Pushes, TypeOK
<1>1. PICK s \in Seq(Calls) : s = open[k] BY <1>0
<1>2. PICK n \in Nat : n = Len(s) BY <1>1
<1>3. PICK q : q = open'[k] OBVIOUS
<1>4. /\ Len(q) = n + 1 /\ q[n + 1] = c
      /\ \A i \in 1..n : q[i] = s[i] /\ s[i] \in Calls
  BY <1>1, <1>2, <1>3, Tops DEF Pushes
<1>5. \A d \in Calls \ {c} : BegunOn(d, k)' <=> BegunOn(d, k) BY <1>0, BegunStays
<1>6. \A i \in 1..n : BegunOn(s[i], k) /\ s[i] # c
  BY <1>0, <1>1, <1>2 DEF Stacked, Pushes
<1>7. \A d \in Calls : BegunOn(d, k) \/ d = c => req'[d] = req[d] /\ pc[d] # "unborn"
  BY <1>0, StepFacts DEF BegunOn, OnTx, On, ScopePC, Pushes
<1>8. \A i \in 1..n : s[i] \in req[c].caller
  BY <1>0, <1>4, <1>6, LastPlace DEF BegunOn, OnTx, Pushes
<1>9. \A i \in 1..n + 1 : BegunOn(q[i], k)'
  <2>1. SUFFICES ASSUME NEW i \in 1..n + 1 PROVE BegunOn(q[i], k)' OBVIOUS
  <2>2. CASE i = n + 1 BY <1>4, <2>2 DEF Pushes
  <2>3. CASE i # n + 1
    <3>1. i \in 1..n BY <2>3
    <3> QED BY <1>4, <1>5, <1>6, <3>1
  <2> QED BY <2>2, <2>3
<1>10. ASSUME NEW i \in 1..n + 1, NEW j \in 1..n + 1, i < j PROVE q[i] \in req'[q[j]].caller
  <2>1. i \in 1..n /\ q[i] = s[i] BY <1>4, <1>10
  <2>2. CASE j = n + 1 BY <1>4, <1>7, <1>8, <2>1, <2>2
  <2>3. CASE j # n + 1
    <3>1. j \in 1..n /\ q[j] = s[j] /\ s[j] \in Calls BY <1>4, <2>3
    <3>2. req'[s[j]] = req[s[j]] BY <1>6, <1>7, <3>1
    <3> QED BY <1>0, <1>1, <1>2, <1>10, <2>1, <3>1, <3>2 DEF Stacked
  <2> QED BY <2>2, <2>3
<1>11. ASSUME NEW d \in Calls, BegunOn(d, k)' PROVE \E i \in 1..n + 1 : q[i] = d
  <2>1. CASE d = c BY <1>4, <2>1
  <2>2. CASE d # c
    <3>1. PICK i \in 1..n : s[i] = d BY <1>0, <1>1, <1>2, <1>5, <1>11, <2>2 DEF Stacked
    <3> QED BY <1>4, <3>1
  <2> QED BY <2>1, <2>2
<1> QED BY <1>3, <1>4, <1>9, <1>10, <1>11 DEF Stacked

LEMMA PopKept ==
  ASSUME SInv, NEW c \in Calls, Advance(c), Frame(c), Nests(c), NEW k \in Conns,
         Trusted(k), Pops(c, k)
  PROVE  Stacked(k)'
<1>0. /\ CInv /\ NInv /\ JInv /\ Stacked(k) /\ TypeOK /\ (\A d \in Calls : Kin(d))
      /\ open[k] \in Seq(Calls)
  BY DEF SInv, CInv, NInv, JInv, IInv, TypeOK, Whole
<1>1. PICK s \in Seq(Calls) : s = open[k] BY <1>0
<1>2. PICK n \in Nat : n = Len(s) - 1 /\ Len(s) = n + 1 /\ s[n + 1] = c
  <2>1. Len(s) \in Nat /\ Len(s) > 0 /\ s[Len(s)] = c BY <1>1, Tops DEF Pops
  <2> QED BY <2>1
<1>3. PICK q : q = open'[k] OBVIOUS
<1>4. Len(q) = n /\ \A i \in 1..n : q[i] = s[i] /\ s[i] \in Calls
  <2>1. \A i \in 1..Len(s) : s[i] \in Calls BY Tops
  <2>2. \A i \in 1..n : i \in 1..Len(s) BY <1>2
  <2> QED BY <1>1, <1>2, <1>3, <2>1, <2>2, Tops DEF Pops
<1>5. \A d \in Calls \ {c} : BegunOn(d, k)' <=> BegunOn(d, k) BY <1>0, BegunStays
<1>6. \A d \in Calls : BegunOn(d, k) => req'[d] = req[d] /\ pc[d] # "unborn"
  BY <1>0, StepFacts DEF BegunOn, OnTx, On, ScopePC
<1>7. \A i \in 1..n + 1 : BegunOn(s[i], k) BY <1>0, <1>1, <1>2 DEF Stacked
<1>8. \A i \in 1..n : s[i] \in req[c].caller
  <2>1. \A i \in 1..n : i \in 1..n + 1 /\ n + 1 \in 1..n + 1 /\ i < n + 1 OBVIOUS
  <2> QED BY <1>0, <1>1, <1>2, <2>1 DEF Stacked
<1>9. \A i \in 1..n : s[i] # c BY <1>0, <1>8 DEF Kin, Pops
<1>10. \A i \in 1..n : BegunOn(q[i], k)' BY <1>4, <1>5, <1>7, <1>9
<1>11. ASSUME NEW i \in 1..n, NEW j \in 1..n, i < j PROVE q[i] \in req'[q[j]].caller
  <2>1. i \in 1..n + 1 /\ j \in 1..n + 1 OBVIOUS
  <2>2. s[i] \in req[s[j]].caller BY <1>0, <1>1, <1>2, <1>11, <2>1 DEF Stacked
  <2> QED BY <1>4, <1>6, <1>7, <2>1, <2>2
<1>12. ASSUME NEW d \in Calls, BegunOn(d, k)' PROVE \E i \in 1..n : q[i] = d
  <2>1. d # c BY <1>12 DEF Pops
  <2>2. PICK i \in 1..n + 1 : s[i] = d BY <1>0, <1>1, <1>2, <1>5, <1>12, <2>1 DEF Stacked
  <2>3. i \in 1..n BY <1>2, <2>1, <2>2
  <2> QED BY <1>4, <2>2, <2>3
<1> QED BY <1>3, <1>4, <1>10, <1>11, <1>12 DEF Stacked

LEMMA StackedKept ==
  ASSUME SInv, NEW c \in Calls, Advance(c), Frame(c), Nests(c), Works(c), NEW k \in Conns
  PROVE  Stacked(k)'
<1>0. /\ CInv /\ NInv /\ JInv /\ Stacked(k) /\ TypeOK /\ Stacks(c, k)
  BY DEF SInv, CInv, NInv, JInv, IInv, Works
<1>1. CASE ~Trusted(k)' BY <1>1 DEF Stacked
<1>2. CASE Alone(k)' /\ open'[k] = <<>>
  <2>1. Len(open'[k]) = 0 BY <1>2
  <2>2. \A d \in Calls : ~BegunOn(d, k)' BY <1>2 DEF Alone, BegunOn, OnTx
  <2> QED BY <2>1, <2>2 DEF Stacked
<1>3. CASE Trusted(k) /\ open'[k] = open[k] /\ (BegunOn(c, k)' <=> BegunOn(c, k))
  <2>1. \A d \in Calls : BegunOn(d, k)' <=> BegunOn(d, k) BY <1>0, <1>3, BegunStays
  <2>2. \A d \in Calls : BegunOn(d, k) => req'[d] = req[d]
    BY <1>0, StepFacts DEF BegunOn, OnTx, On, ScopePC
  <2>3. open[k] \in Seq(Calls) BY <1>0 DEF TypeOK
  <2>4. \A i \in 1..Len(open[k]) : open[k][i] \in Calls BY <2>3
  <2>5. \A i \in 1..Len(open[k]) : /\ BegunOn(open[k][i], k)'
                                   /\ req'[open[k][i]] = req[open[k][i]]
    BY <1>0, <1>3, <2>1, <2>2, <2>4 DEF Stacked
  <2> QED BY <1>0, <1>3, <2>1, <2>5 DEF Stacked
<1> QED BY <1>0, <1>1, <1>2, <1>3, PushKept, PopKept DEF Stacks

LEMMA QueuedKept ==
  ASSUME SInv, NEW c \in Calls, Advance(c), Frame(c), Nests(c), Works(c), NEW k \in Conns
  PROVE  Queued(k)'
<1>0. /\ NInv /\ JInv /\ Queued(k) /\ TypeOK /\ Queues(c, k)
  BY DEF SInv, CInv, NInv, JInv, IInv, Works
<1>1. PICK s \in Seq(Calls) : s = turns[k] BY <1>0 DEF TypeOK
<1>2. PICK n \in Nat : n = Len(s) BY <1>1
<1>3. PICK q : q = turns'[k] OBVIOUS
<1>4. \A d \in Calls \ {c} : Waiting(d, k)' <=> Waiting(d, k) BY <1>0, BegunStays
<1>5. \A i \in 1..n : s[i] \in Calls /\ Waiting(s[i], k) BY <1>0, <1>1, <1>2 DEF Queued
<1>6. \A i, j \in 1..n : s[i] = s[j] => i = j BY <1>0, <1>1, <1>2 DEF Queued
<1>7. \A d \in Calls : Waiting(d, k) => \E i \in 1..n : s[i] = d
  BY <1>0, <1>1, <1>2 DEF Queued
<1>8. CASE turns'[k] = turns[k] /\ (Waiting(c, k)' <=> Waiting(c, k))
  <2>1. \A d \in Calls : Waiting(d, k)' <=> Waiting(d, k) BY <1>4, <1>8
  <2> QED BY <1>1, <1>2, <1>5, <1>6, <1>7, <1>8, <2>1 DEF Queued
<1>9. CASE turns'[k] = Append(turns[k], c) /\ ~Waiting(c, k) /\ Waiting(c, k)'
  <2>1. /\ Len(q) = n + 1 /\ q[n + 1] = c
        /\ \A i \in 1..n : q[i] = s[i] /\ s[i] # c
    BY <1>1, <1>2, <1>3, <1>5, <1>9, Tops
  <2>2. \A i \in 1..n + 1 : i \in 1..n \/ i = n + 1 OBVIOUS
  <2>3. \A i \in 1..n + 1 : Waiting(q[i], k)' BY <1>4, <1>5, <1>9, <2>1, <2>2
  <2>4. \A i, j \in 1..n + 1 : q[i] = q[j] => i = j BY <1>6, <2>1, <2>2
  <2>5. ASSUME NEW d \in Calls, Waiting(d, k)' PROVE \E i \in 1..n + 1 : q[i] = d
    <3>1. CASE d = c BY <2>1, <3>1
    <3>2. CASE d # c
      <4>1. PICK i \in 1..n : s[i] = d BY <1>4, <1>7, <2>5, <3>2
      <4> QED BY <2>1, <4>1
    <3> QED BY <3>1, <3>2
  <2> QED BY <1>3, <2>1, <2>3, <2>4, <2>5 DEF Queued
<1>10. CASE Quits(c, k) /\ ~Waiting(c, k)'
  <2>1. PICK m \in Nat : /\ n = m + 1 /\ s[1] = c /\ Len(q) = m
                         /\ \A i \in 1..m : q[i] = s[i + 1]
    <3>1. s # <<>> /\ Head(s) = c /\ q = Tail(s) BY <1>1, <1>3, <1>10 DEF Quits
    <3>2. s[1] = c BY <3>1
    <3>3. Len(s) > 0 /\ Len(q) = Len(s) - 1 /\ \A i \in 1..Len(s) - 1 : q[i] = s[i + 1]
      BY <3>1, Tops
    <3>4. n - 1 \in Nat /\ n = (n - 1) + 1 BY <1>2, <3>3
    <3> QED BY <1>2, <3>2, <3>3, <3>4
  <2>2. \A i \in 1..m : i + 1 \in 1..n /\ 1 \in 1..n /\ i + 1 # 1 BY <2>1
  <2>3. \A i \in 1..m : q[i] # c /\ q[i] \in Calls BY <1>5, <1>6, <2>1, <2>2
  <2>4. \A i \in 1..m : Waiting(q[i], k)' BY <1>4, <1>5, <2>1, <2>2, <2>3
  <2>5. ASSUME NEW i \in 1..m, NEW j \in 1..m, q[i] = q[j] PROVE i = j
    <3>1. i + 1 = j + 1 BY <1>6, <2>1, <2>2, <2>5
    <3> QED BY <3>1
  <2>6. ASSUME NEW d \in Calls, Waiting(d, k)' PROVE \E i \in 1..m : q[i] = d
    <3>1. d # c BY <1>10, <2>6
    <3>2. PICK i \in 1..n : s[i] = d BY <1>4, <1>7, <2>6, <3>1
    <3>3. i # 1 BY <2>1, <3>1, <3>2
    <3>4. i - 1 \in 1..m /\ (i - 1) + 1 = i BY <2>1, <3>3
    <3> QED BY <2>1, <3>2, <3>4
  <2> QED BY <1>3, <2>1, <2>4, <2>5, <2>6 DEF Queued
<1> QED BY <1>0, <1>8, <1>9, <1>10 DEF Queues

LEMMA HopesKept ==
  ASSUME SInv, NEW c \in Calls, Advance(c), Frame(c), Nests(c), Works(c), NEW d \in Calls
  PROVE  Hopes(d)'
<1> SUFFICES ASSUME pc'[d] = "queued", Statement(d)', req'[d].via # Root
             PROVE  \/ pc'[req'[d].via] \in {"body", "drain"}
                    \/ pc'[req'[d].via] = "tail" /\ d \in scope'[req'[d].via].awaited
  BY DEF Hopes
<1>0. /\ JInv /\ TypeOK /\ TypeOK' /\ Whole(d) /\ Local(d) /\ Hopes(d)
      /\ \A k \in Conns : Queued(k)
      /\ pc[d] # "unborn" => req'[d] = req[d]
      /\ d # c => req'[d] = req[d] /\ pc'[d] = pc[d]
  BY StepFacts DEF SInv, CInv, NInv
<1>1. PICK h \in Calls : h = req'[d].via BY <1>0 DEF TypeOK, Request
<1>2. Waits(c) BY DEF Frame
<1>3. h # c => pc'[h] = pc[h] BY <1>0, StepFacts
<1>4. ASSUME pc[d] = "queued", req'[d] = req[d]
      PROVE  \/ pc'[h] \in {"body", "drain"}
             \/ pc'[h] = "tail" /\ d \in scope'[h].awaited
  <2>0. Statement(d) BY <1>4 DEF Statement
  <2>1. pc[h] \in {"body", "drain"} \/ (pc[h] = "tail" /\ d \in scope[h].awaited)
    BY <1>0, <1>1, <1>4, <2>0 DEF Hopes
  <2>2. CASE h # c
    BY <1>2, <1>3, <2>1, <2>2 DEF Waits
  <2>3. CASE h = c /\ pc[c] = "body"
    BY <1>2, <2>3 DEF Waits
  <2>4. CASE h = c /\ pc[c] \in {"drain", "tail"}
    <3>1. conn[d] \in Conns BY <1>0, <1>4 DEF Local, NeedsConn
    <3>2. conn[d] = conn[c]
      BY <1>0, <1>1, <1>4, <2>4, <3>1, ScopeConstants DEF Whole, Share, ScopePC, Settled
    <3>3. turns[conn[c]] \in Seq(Calls) BY <1>0, <3>1, <3>2 DEF TypeOK
    <3>4. Waiting(d, conn[c]) BY <1>1, <1>4, <2>0, <3>2 DEF Waiting
    <3>5. PICK i \in 1..Len(turns[conn[c]]) : turns[conn[c]][i] = d
      BY <1>0, <3>1, <3>2, <3>4 DEF Queued
    <3>6. d \in ToSet(turns[conn[c]]) BY <3>3, <3>5 DEF ToSet
    <3> QED BY <1>2, <2>1, <2>4, <3>6 DEF Waits
  <2> QED BY <2>1, <2>2, <2>3, <2>4
<1>5. CASE pc[d] = "queued" BY <1>0, <1>1, <1>4, <1>5
<1>6. CASE pc[d] # "queued"
  <2>1. d = c /\ pc[h] = "body" BY <1>0, <1>1, <1>6 DEF Works
  <2>2. h # c
    <3>1. pc[c] = "unborn" => Opened(h) BY <1>1, <2>1 DEF Advance
    <3>2. pc[c] # "unborn" => Unfinished(c) BY <1>0, StepFacts DEF Unfinished, IsDone
    <3>3. pc[c] # "unborn" => req[c].via # c
      BY <1>0, <2>1, <3>2, NotOwnHandle DEF JInv, Whole
    <3> QED BY <1>0, <1>1, <2>1, <3>1, <3>3
  <2> QED BY <1>1, <1>3, <2>1, <2>2
<1> QED BY <1>5, <1>6

(* While a statement runs nobody else changes the stack of its resource. *)
LEMMA StackStays ==
  ASSUME JInv, NEW d \in Calls, pc[d] \in {"running", "suspended"}, NEW k \in Conns,
         conn[d] = k, NEW c \in Calls, Touches(c, k)
  PROVE  FALSE
<1>0. /\ TypeOK /\ IInv /\ (\A x \in Calls : Whole(x) /\ Local(x)) /\ k # None
  BY ScopeConstants DEF JInv, IInv
<1>1. CASE req[d].via = Root
  <2>1. Holds(d) BY <1>0, <1>1 DEF Holds, InUse
  <2>2. Alone(k) BY <2>1, RootAlone DEF ScopePC
  <2>3. ~(pc[c] = "driver" /\ conn[c] = k) BY <2>2 DEF Alone, On, ScopePC
  <2>4. Sole(d) BY <1>0 DEF Whole
  <2> QED BY <2>1, <2>3, <2>4 DEF Touches, Sole, Free
<1>2. CASE req[d].via # Root
  <2>1. PICK r \in Calls : /\ Holds(r) /\ conn[r] = k /\ ~Statement(r)
                           /\ pc[r] \in ScopePC
    BY <1>0, <1>2, StatementHeld DEF InUse
  <2>2. Sole(r) BY <1>0 DEF Whole
  <2>3. CASE pc[c] = "driver" /\ conn[c] = k
    <3>1. HasTurn(d) /\ HasTurn(c) BY <1>0, <1>2, <2>3 DEF Local, HoldsTurn
    <3> QED BY <2>3, <3>1 DEF HasTurn
  <2>4. CASE Pooled /\ (k \in idle \/ (Holds(c) /\ conn[c] = k /\ pc[c] = "releasing"))
    BY <2>1, <2>2, <2>4 DEF Sole, Free, ScopePC
  <2> QED BY <2>3, <2>4 DEF Touches
<1> QED BY <1>1, <1>2

LEMMA WithinKept ==
  ASSUME SInv, NEW c \in Calls, Advance(c), Frame(c), Nests(c), Works(c), NEW d \in Calls
  PROVE  Within(d)'
<1>0. /\ JInv /\ TypeOK /\ Within(d) /\ Local(d) /\ Whole(d) /\ (\A k \in Conns : Stacked(k))
      /\ IInv /\ Admitted(c) /\ NInv
  BY DEF SInv, CInv, NInv, JInv, IInv, Works
<1>1. ASSUME pc[d] \in {"running", "suspended"}, req'[d] = req[d], conn'[d] = conn[d]
      PROVE  Innermost(conn[d])' = ScopeOf(req[d].via)'
  <2>1. PICK k \in Conns : k = conn[d] BY <1>0, <1>1 DEF Local, NeedsConn
  <2>2. open'[k] = open[k] BY <1>0, <1>1, <2>1, StackStays DEF Works
  <2>3. Innermost(k)' = Innermost(k) BY <2>2 DEF Innermost
  <2>4. ScopeOf(req[d].via)' = ScopeOf(req[d].via)
    <3>1. CASE req[d].via = Root BY <1>1, <3>1 DEF ScopeOf
    <3>2. CASE req[d].via # Root
      <4>1. PICK h \in Calls : h = req[d].via BY <1>0, <3>2 DEF TypeOK, Request
      <4>2. pc[h] \in ScopePC BY <1>0, <1>1, <3>2, <4>1 DEF Whole, Stays, InUse, ScopePC
      <4>3. h # c => Rests(h) BY <1>0, OthersRest DEF Nests
      <4>4. scope'[h].txScope = scope[h].txScope BY <4>2, <4>3 DEF Rests, Nests
      <4> QED BY <1>1, <3>2, <4>1, <4>4 DEF ScopeOf
    <3> QED BY <3>1, <3>2
  <2>5. Innermost(k) = ScopeOf(req[d].via) BY <1>0, <1>1, <2>1 DEF Within
  <2> QED BY <1>1, <2>1, <2>3, <2>4, <2>5
<1>2. CASE d # c
  <2>1. SUFFICES ASSUME pc'[d] \in {"running", "suspended"}
                 PROVE  Innermost(conn[d])' = ScopeOf(req[d].via)'
    BY DEF Within
  <2>2. /\ req'[d] = req[d] /\ pc'[d] = pc[d]
        /\ conn'[d] = conn[d] \/ pc[d] = "closed"
    BY <1>0, <1>2, StepFacts
  <2> QED BY <1>1, <2>1, <2>2
<1>3. CASE d = c
  <2>1. SUFFICES ASSUME pc'[c] \in {"running", "suspended"}
                 PROVE  Innermost(conn[c])' = ScopeOf(req[c].via)'
    BY <1>3 DEF Within
  <2>2. CASE pc[c] \in {"running", "suspended"} /\ conn'[c] = conn[c]
    <3>1. req'[c] = req[c] BY <1>0, <2>2, StepFacts
    <3> QED BY <1>1, <1>3, <2>2, <3>1
  <2>3. CASE /\ open' = open /\ conn'[c] \in Conns /\ conn'[c] \notin poisoned
             /\ req'[c].via = Root /\ Alone(conn'[c])
    <3>1. PICK k \in Conns : k = conn'[c] BY <2>3
    <3>2. Trusted(k) /\ \A x \in Calls : ~BegunOn(x, k)
      BY <2>3, <3>1 DEF Trusted, Alone, BegunOn, OnTx
    <3>3. Innermost(k) = None BY <1>0, <3>2, NobodyBegun
    <3>4. Innermost(k)' = Innermost(k) BY <2>3 DEF Innermost
    <3> QED BY <2>3, <3>1, <3>3, <3>4 DEF ScopeOf
  <2>4. CASE /\ open' = open /\ conn'[c] \in Conns /\ conn'[c] \notin poisoned
             /\ req'[c].via \in Calls /\ IsOpen(req'[c].via) /\ req'[c].via # c
             /\ On(req'[c].via, conn'[c]) /\ pc[req'[c].via] = "body"
    <3>1. PICK k \in Conns : k = conn'[c] BY <2>4
    <3>2. PICK h \in Calls : h = req'[c].via BY <2>4
    <3>3. Trusted(k) BY <2>4, <3>1 DEF Trusted
    <3>4. Innermost(k) = ScopeOf(h) BY <2>4, <3>1, <3>2, <3>3, OpenInnermost
    <3>5. Rests(h) BY <1>0, <2>4, <3>2, OthersRest DEF Nests
    <3>6. Innermost(k)' = Innermost(k) BY <2>4 DEF Innermost
    <3>7. ScopeOf(req[c].via)' = ScopeOf(h)
      BY <3>2, <3>5 DEF ScopeOf, Rests
    <3> QED BY <3>1, <3>4, <3>6, <3>7
  <2> QED BY <1>0, <2>1, <2>2, <2>3, <2>4 DEF Admitted
<1> QED BY <1>2, <1>3

LEMMA StagedKept ==
  ASSUME SInv, NEW c \in Calls, Advance(c), Frame(c), Nests(c), Works(c), NEW d \in Calls
  PROVE  Staged(d)'
<1>0. JInv /\ TypeOK /\ Staged(d) /\ NInv /\ Local(d) BY DEF SInv, CInv, NInv, JInv, IInv
<1>1. CASE d = c BY <1>1 DEF Works
<1>2. CASE d # c
  <2>1. Rests(d) BY <1>0, <1>2, OthersRest DEF Nests
  <2>2. IsTx(d)' <=> IsTx(d) BY <2>1 DEF Rests, IsTx
  <2>3. Begun(d)' <=> Begun(d) BY <1>0, <1>2, BegunStays
  <2>4. conn'[d] = conn[d] \/ pc[d] = "closed" BY <1>0, <1>2, StepFacts
  <2>5. ASSUME pc[d] \in AtControl PROVE IsNested(d)' <=> IsNested(d)
    <3>1. Unfinished(d) /\ ~Statement(d)
      BY <1>0, <2>5 DEF Unfinished, IsDone, Settled, AtControl, Local, ScopePC
    <3>2. CASE req[d].via = Root BY <2>1, <2>2, <3>2 DEF Rests, IsNested, InTransaction
    <3>3. CASE req[d].via # Root
      <4>1. PICK h : h = req[d].via OBVIOUS
      <4>2. scope'[h].txScope = scope[h].txScope /\ req'[d].via = h /\ h # Root
        BY <1>0, <1>2, <2>1, <3>1, <3>3, <4>1, HandleStays DEF Rests
      <4> QED BY <2>2, <4>1, <4>2 DEF IsNested, InTransaction
    <3> QED BY <3>2, <3>3
  <2>6. ASSUME pc[d] = "finalize", IsTx(d), conn[d] # None
        PROVE  ~Begun(d)' \/ conn'[d] \in poisoned'
    <3>1. ~Begun(d) \/ conn[d] \in poisoned BY <1>0, <2>6 DEF Staged
    <3>2. CASE conn[d] \in poisoned
      <4>1. ~Alone(conn[d]) BY <2>6 DEF Alone, On, ScopePC
      <4>2. conn[d] \in poisoned' BY <3>2, <4>1 DEF Works
      <4> QED BY <2>4, <2>6, <4>2
    <3> QED BY <2>3, <3>1, <3>2
  <2>7. (pc[d] \in AtControl => (IsNested(d) <=> scope[d].phase \notin Fast))'
    BY <1>0, <2>1, <2>5 DEF Staged, Rests
  <2>8. (pc[d] = "finalize" /\ IsTx(d) /\ conn[d] # None => ~Begun(d) \/ conn[d] \in poisoned)'
    BY <2>1, <2>2, <2>4, <2>6 DEF Rests
  <2> QED BY <1>0, <2>1, <2>2, <2>7, <2>8 DEF Staged, Rests
<1> QED BY <1>1, <1>2

LEMMA WorksKeep ==
  ASSUME SInv, Orderly, NEW c \in Calls,
         Advance(c), Frame(c), Nests(c), Steps(c), Paces(c), Works(c)
  PROVE  SInv'
<1>1. CInv' BY PacesKeep DEF SInv
<1> QED BY <1>1, StackedKept, QueuedKept, StagedKept, WithinKept, HopesKept DEF SInv

LEMMA InitStacks ==
  ASSUME Init
  PROVE  SInv
<1>1. CInv BY InitNests
<1>2. \A c \in Calls : pc[c] = "unborn" /\ ~IsTx(c) BY DEF Init, Unborn, IsTx
<1>3. \A c \in Calls, k \in Conns : ~BegunOn(c, k) /\ ~Waiting(c, k)
  BY <1>2 DEF BegunOn, OnTx, Waiting, InUse
<1>4. ASSUME NEW k \in Conns PROVE Stacked(k) /\ Queued(k)
  <2>1. open[k] = <<>> /\ turns[k] = <<>> BY DEF Init
  <2>2. Len(open[k]) = 0 /\ Len(turns[k]) = 0 BY <2>1
  <2> QED BY <1>3, <2>2 DEF Stacked, Queued
<1>5. ASSUME NEW c \in Calls PROVE Staged(c) /\ Within(c) /\ Hopes(c)
  BY <1>2 DEF Staged, Within, Hopes, Asking, AtControl
<1> QED BY <1>1, <1>4, <1>5 DEF SInv

LEMMA OwnTransaction ==
  ASSUME SInv
  PROVE  InOwnTransaction
<1>0. TypeOK /\ \A c \in Calls : Local(c) /\ Within(c)
  BY DEF SInv, CInv, NInv, JInv, IInv
<1>1. ASSUME NEW c \in Calls, pc[c] = "running"
      PROVE  Innermost(conn[c]) = ScopeOf(req[c].via)
  BY <1>0, <1>1 DEF Within
<1>2. ASSUME NEW c \in Calls, pc[c] = "driver"
      PROVE  CASE scope[c].phase = "begin" -> open[conn[c]] = <<>>
               [] scope[c].phase = "savepoint" ->
                    Innermost(conn[c]) = ScopeOf(req[c].via)
               [] scope[c].phase \in {"commit", "rollback"} -> open[conn[c]] = <<c>>
               [] OTHER -> Innermost(conn[c]) = c
  <2>1. PICK k \in Conns : k = conn[c] BY <1>0, <1>2 DEF Local, NeedsConn
  <2>2. PICK p \in Phase : p = scope[c].phase BY <1>0 DEF TypeOK, Scope
  <2>3. /\ p = "begin" => open[k] = <<>>
        /\ p = "savepoint" => Innermost(k) = ScopeOf(req[c].via)
        /\ p \in {"commit", "rollback"} => open[k] = <<c>>
        /\ p \in {"release", "rollback-to", "discard-savepoint"} => Innermost(k) = c
    BY <1>2, <2>1, <2>2, DriverStack
  <2>4. CASE p = "begin" BY <2>1, <2>2, <2>3, <2>4
  <2>5. CASE p = "savepoint" BY <2>1, <2>2, <2>3, <2>5
  <2>6. CASE p \in {"commit", "rollback"} BY <2>1, <2>2, <2>3, <2>6
  <2>7. CASE p \in {"release", "rollback-to", "discard-savepoint"}
    BY <2>1, <2>2, <2>3, <2>7
  <2> QED BY <2>2, <2>4, <2>5, <2>6, <2>7 DEF Phase
<1> QED BY <1>1, <1>2 DEF InOwnTransaction

(* A resource nobody holds has nobody on it. *)
LEMMA UnheldAlone ==
  ASSUME JInv, NEW k \in Conns, Unheld(k)
  PROVE  Alone(k)
<1>1. CASE Pooled BY <1>1, IdleAlone DEF Unheld
<1>2. CASE ~Pooled
  <2>1. SUFFICES ASSUME NEW d \in Calls, On(d, k) PROVE FALSE BY DEF Alone
  <2>2. PICK r \in Calls : /\ Holds(r) /\ conn[r] = k /\ ~Statement(r) /\ pc[r] \in ScopePC
    BY <2>1, OnFacts, ScopeHeld, ScopeConstants DEF JInv, On
  <2>3. CASE Conservative
    <3>1. Sole(r) BY DEF JInv, Whole
    <3> QED BY <1>2, <2>2, <2>3, <3>1 DEF Sole, Free, Unheld
  <2>4. CASE ~Conservative
    <3>1. On(r, k) BY <2>2 DEF On
    <3>2. HoldsTail(r)
      BY <1>2, <2>2, <2>4, <3>1, OnFacts, ScopeConstants DEF Holds, HoldsTail, Entered, ScopePC
    <3>3. HasTail(r) BY <3>2 DEF JInv, IInv, Local
    <3> QED BY <1>2, <2>2, <3>3 DEF HasTail, Unheld
  <2> QED BY <2>3, <2>4
<1> QED BY <1>1, <1>2

LEMMA NobodyWaits ==
  ASSUME SInv, NEW k \in Conns, Alone(k)
  PROVE  turns[k] = <<>>
<1>0. /\ JInv /\ IInv /\ Queued(k) /\ turns[k] \in Seq(Calls) /\ k # None
      /\ \A d \in Calls : Hopes(d) /\ Whole(d) /\ Handles(d)
  BY ScopeConstants DEF SInv, CInv, NInv, JInv, IInv, TypeOK
<1>1. ASSUME NEW d \in Calls, Waiting(d, k) PROVE FALSE
  <2>1. pc[d] \notin {"turn", "driver"} BY <1>1 DEF Waiting, Alone, On, ScopePC
  <2>2. CASE pc[d] \in InUse
    <3>1. req[d].via # Root BY <1>1, <2>1 DEF Waiting
    <3>2. PICK r \in Calls : conn[r] = conn[d] /\ pc[r] \in ScopePC
      BY <1>0, <2>2, <3>1, StatementHeld DEF JInv
    <3> QED BY <1>1, <3>2 DEF Waiting, Alone, On
  <2>3. CASE pc[d] = "queued"
    <3>1. Statement(d) /\ req[d].via # Root /\ conn[d] = k BY <1>1, <2>1 DEF Waiting
    <3>2. PICK h \in Calls : h = req[d].via
      BY <1>0, <3>1 DEF IInv, TypeOK, Request
    <3>3. pc[h] \in ScopePC BY <1>0, <2>3, <3>1, <3>2 DEF Hopes, ScopePC
    <3>4. conn[h] = k BY <1>0, <2>3, <3>1, <3>2, <3>3 DEF Whole, Share, Settled
    <3> QED BY <3>3, <3>4 DEF Alone, On
  <2> QED BY <1>1, <2>1, <2>2, <2>3 DEF Waiting
<1>2. Len(turns[k]) = 0
  <2>1. ASSUME Len(turns[k]) # 0 PROVE FALSE
    <3>1. 1 \in 1..Len(turns[k]) /\ turns[k][1] \in Calls BY <1>0, <2>1
    <3> QED BY <1>0, <1>1, <3>1 DEF Queued
  <2> QED BY <2>1
<1> QED BY <1>0, <1>2

LEMMA NonePending ==
  ASSUME JInv, Pooled, NEW k \in Conns, Alone(k)
  PROVE  mark[k].pendingStreams = 0
<1>1. PICK S : S = {c \in Calls : Pending(c, k)} OBVIOUS
<1>2. mark[k].pendingStreams = Cardinality(S) BY <1>1 DEF JInv, Counted
<1>3. ASSUME NEW c \in Calls, Pending(c, k) PROVE FALSE
  <2>1. req[c].via # Root /\ conn[req[c].via] = k
    BY <1>3, ScopeConstants DEF Pending, StateOf
  <2>2. PICK h \in Calls : h = req[c].via BY <2>1 DEF JInv, IInv, TypeOK, Request
  <2>3. Known(c) /\ Unfinished(c) /\ IsStream(c)
    BY <1>3 DEF JInv, Whole, Pending, Unfinished, IsDone, Settled
  <2>4. pc[h] \in {"body", "drain"} BY <2>1, <2>2, <2>3 DEF Known
  <2> QED BY <2>1, <2>2, <2>4 DEF Alone, On, ScopePC
<1>4. S = {} BY <1>1, <1>3
<1> QED BY <1>2, <1>4, FS_EmptySet

LEMMA CleanReturned ==
  ASSUME SInv
  PROVE  CleanReturn
<1>0. /\ JInv /\ NInv /\ TypeOK /\ \A k \in Conns : Stacked(k) /\ Vacant(k)
  BY DEF SInv, CInv, NInv, JInv, IInv
<1>1. ASSUME NEW k \in Conns, k \notin poisoned, NEW c \in ToSet(open[k]) PROVE ~IsDone(c)
  <2>1. Trusted(k) /\ open[k] \in Seq(Calls) BY <1>0, <1>1 DEF Trusted, TypeOK
  <2>2. PICK i \in 1..Len(open[k]) : open[k][i] = c BY <1>1, <2>1 DEF ToSet
  <2>3. BegunOn(c, k) BY <1>0, <2>1, <2>2 DEF Stacked
  <2> QED BY <2>3 DEF BegunOn, OnTx, On, ScopePC, IsDone, Settled
<1>2. ASSUME NEW k \in Conns, Unheld(k), k \notin poisoned
      PROVE  /\ open[k] = <<>> /\ turns[k] = <<>>
             /\ Pooled => /\ mark[k].activeScope = None /\ mark[k].activeSession = None
                          /\ mark[k].pendingStreams = 0
  <2>1. Alone(k) BY <1>0, <1>2, UnheldAlone
  <2>2. Trusted(k) /\ \A c \in Calls : ~BegunOn(c, k) /\ ~Sess(c, k)
    BY <1>2, <2>1 DEF Trusted, Alone, BegunOn, OnTx, Sess
  <2>3. open[k] = <<>> BY <1>0, <2>2, NobodyBegun
  <2>4. turns[k] = <<>> BY <2>1, NobodyWaits
  <2>5. ASSUME Pooled
        PROVE  /\ mark[k].activeScope = None /\ mark[k].activeSession = None
               /\ mark[k].pendingStreams = 0
    <3>1. mark[k].activeScope = None /\ mark[k].activeSession = None
      BY <1>0, <2>1, <2>2, <2>5, ScopeConstants DEF Vacant, Reserved, Loose
    <3> QED BY <1>0, <2>1, <2>5, <3>1, NonePending
  <2> QED BY <2>3, <2>4, <2>5
<1> QED BY <1>1, <1>2 DEF CleanReturn, NothingLeftOpen

-----------------------------------------------------------------------------
(* A step that changes no stack. *)
LEMMA CalmWorks ==
  ASSUME SInv, NEW c \in Calls, Advance(c), Frame(c), Nests(c),
         open' = open, poisoned \subseteq poisoned', Staged(c)', Admitted(c),
         \A k \in Conns : Queues(c, k),
         (pc[c] = "queued" /\ Statement(c) /\ req[c].via # Root)' =>
            pc[c] = "queued" \/ pc[req'[c].via] = "body",
         pc'[c] \in {"turn", "driver"} =>
            (pc[c] = "turn" /\ conn'[c] = conn[c]) \/ conn'[c] \notin poisoned,
         \A k \in Conns :
            \/ BegunOn(c, k)' <=> BegunOn(c, k)
            \/ /\ pc[c] # "body" /\ On(c, k) /\ k \in poisoned
               /\ pc'[c] \notin {"turn", "driver"}
  PROVE  Works(c)
<1>0. NInv /\ JInv BY DEF SInv, CInv, NInv
<1>1. \A d \in Calls \ {c} : pc'[d] = pc[d] /\ \A k \in Conns : On(d, k)' <=> On(d, k)
  BY <1>0, OthersRest DEF Rests, Nests
<1>2. ASSUME NEW k \in Conns, Trusted(k)' PROVE Trusted(k)
  <2>1. CASE k \notin poisoned BY <2>1 DEF Trusted
  <2>2. CASE k \in poisoned
    <3>1. PICK d \in Calls : On(d, k)' /\ pc'[d] \in {"turn", "driver"}
      BY <1>2, <2>2 DEF Trusted
    <3>2. CASE d # c BY <1>1, <3>1, <3>2 DEF Trusted
    <3>3. CASE d = c
      <4>1. conn'[c] = k BY <3>1, <3>3 DEF On
      <4>2. pc[c] = "turn" /\ conn[c] = k BY <2>2, <3>1, <3>3, <4>1
      <4> QED BY <4>2 DEF Trusted, On, ScopePC
    <3> QED BY <3>2, <3>3
  <2> QED BY <2>1, <2>2
<1>3. ASSUME NEW k \in Conns, pc[c] # "body", On(c, k), k \in poisoned,
             pc'[c] \notin {"turn", "driver"}, Trusted(k)'
      PROVE  FALSE
  <2>1. PICK d \in Calls : On(d, k)' /\ pc'[d] \in {"turn", "driver"}
    BY <1>3 DEF Trusted
  <2>2. d # c BY <1>3, <2>1
  <2>3. On(d, k) /\ pc[d] # "body" BY <1>1, <2>1, <2>2
  <2> QED BY <1>0, <1>3, <2>2, <2>3, OnlyOne
<1>4. \A k \in Conns : Stacks(c, k) BY <1>2, <1>3 DEF Stacks
<1> QED BY <1>4 DEF Works

LEMMA StatementWorks ==
  ASSUME SInv, NEW c \in Calls, Advance(c), Frame(c), Nests(c), Statement(c)',
         Statement(c) \/ pc[c] = "unborn",
         open' = open, poisoned \subseteq poisoned', pc'[c] \notin ScopePC, Admitted(c),
         \A k \in Conns : Queues(c, k),
         pc'[c] = "queued" /\ req'[c].via # Root =>
            pc[c] = "queued" \/ pc[req'[c].via] = "body"
  PROVE  Works(c)
<1>1. ~IsTx(c)' /\ (~IsTx(c) \/ pc[c] = "unborn") BY DEF Statement, IsTx
<1>2. Staged(c)' BY <1>1 DEF Staged, Asking, AtControl, ScopePC
<1>3. \A k \in Conns : ~BegunOn(c, k) /\ ~BegunOn(c, k)'
  BY <1>1 DEF BegunOn, OnTx, On, ScopePC
<1>4. pc'[c] \notin {"turn", "driver"} BY DEF ScopePC
<1> QED BY <1>2, <1>3, <1>4, CalmWorks

(* Labels at which a call may be in the queue. *)
QueuePC == {"queued", "turn", "driver"} \cup InUse

LEMMA AsideQueues ==
  ASSUME NEW c \in Calls, turns' = turns, NEW k \in Conns,
         pc[c] \notin QueuePC \/ (Statement(c) /\ req[c].via = Root /\ pc[c] \notin {"turn", "driver"}),
         pc'[c] \notin QueuePC
           \/ (Statement(c)' /\ req'[c].via = Root /\ pc'[c] \notin {"turn", "driver"})
  PROVE  Queues(c, k)
  BY DEF Queues, Waiting, QueuePC

LEMMA LeaveQueues ==
  ASSUME TypeOK, NEW c \in Calls, conn[c] \in Conns, HasTurn(c),
         turns' = [turns EXCEPT ![conn[c]] = Tail(@)],
         pc'[c] \notin QueuePC, NEW k \in Conns
  PROVE  Queues(c, k)
<1>1. ~Waiting(c, k)' BY DEF Waiting, QueuePC
<1>2. CASE k = conn[c] BY <1>1, <1>2 DEF Queues, Quits, HasTurn, TypeOK
<1>3. CASE k # conn[c] BY <1>1, <1>3 DEF Queues, Waiting, TypeOK
<1> QED BY <1>2, <1>3

(* The rows of a stream. *)
LEMMA RowWorks ==
  ASSUME SInv, NEW c \in Calls, Advance(c), Frame(c), Nests(c),
         Yield(c) \/ Pull(c) \/ Stop(c) \/ Exhaust(c)
  PROVE  Works(c)
<1>0. TypeOK /\ Local(c) /\ Mode(c)
  BY DEF SInv, CInv, NInv, JInv, IInv, Whole
<1>1. /\ UNCHANGED <<req, conn, turns, open>>
      /\ IsStream(c) /\ pc[c] \in {"running", "suspended"} /\ pc'[c] \in InUse
      /\ pc'[c] \in {"running", "suspended"} => pc[c] \in {"running", "suspended"}
  BY <1>0 DEF Yield, Pull, Stop, Exhaust, Goto, TypeOK, Mode, InUse
<1>2. poisoned \subseteq poisoned' BY DEF Yield, Pull, Stop, Exhaust, DriverEnds
<1>3. Statement(c) /\ Statement(c)' BY <1>1 DEF IsStream, Statement
<1>4. \A k \in Conns : Waiting(c, k)' <=> Waiting(c, k)
  BY <1>1, <1>3 DEF Waiting, InUse
<1>5. pc'[c] \notin ScopePC /\ pc'[c] # "queued" BY <1>1 DEF InUse, ScopePC
<1> QED BY <1>1, <1>2, <1>3, <1>4, <1>5, StatementWorks DEF Admitted, Queues

LEMMA GiveBackQueues ==
  ASSUME SInv, NEW c \in Calls, pc[c] \in {"running", "closing"}, GiveBack(c), req' = req,
         pc'[c] \notin QueuePC, NEW k \in Conns
  PROVE  Queues(c, k)
<1>0. TypeOK /\ Local(c) BY DEF SInv, CInv, NInv, JInv, IInv
<1>1. conn[c] \in Conns /\ Statement(c) BY <1>0 DEF Local, NeedsConn, StatementPC
<1>2. CASE req[c].via = Root BY <1>1, <1>2, AsideQueues DEF GiveBack
<1>3. CASE req[c].via # Root
  <2>1. HasTurn(c) BY <1>0, <1>3 DEF Local, HoldsTurn
  <2> QED BY <1>0, <1>1, <1>3, <2>1, LeaveQueues DEF GiveBack
<1> QED BY <1>2, <1>3

LEMMA EndWorks ==
  ASSUME SInv, NEW c \in Calls, Advance(c), Frame(c), Nests(c), Complete(c) \/ CloseCursor(c)
  PROVE  Works(c)
<1>0. TypeOK /\ Local(c) BY DEF SInv, CInv, NInv, JInv, IInv
<1>1. pc[c] \in {"running", "closing"} /\ GiveBack(c) /\ req' = req /\ open' = open
  BY DEF Complete, CloseCursor
<1>2. pc'[c] \in {"releasing", "fulfilled", "rejected", "closed"}
  BY <1>0 DEF Complete, CloseCursor, EndAs, Goto, TypeOK
<1>3. poisoned \subseteq poisoned' BY DEF Complete, CloseCursor, DriverEnds
<1>4. Statement(c) /\ Statement(c)' BY <1>0, <1>1 DEF Local, StatementPC, Statement
<1>5. pc'[c] \notin QueuePC \cup ScopePC BY <1>2 DEF QueuePC, InUse, ScopePC
<1>6. Admitted(c) BY <1>2 DEF Admitted
<1>7. \A k \in Conns : Queues(c, k) BY <1>1, <1>5, GiveBackQueues
<1> QED BY <1>1, <1>3, <1>4, <1>5, <1>6, <1>7, StatementWorks DEF QueuePC

(* A statement that ends, or is refused, outside of the queue. *)
LEMMA AsideWorks ==
  ASSUME SInv, NEW c \in Calls, Advance(c), Frame(c), Nests(c),
         Statement(c)', Statement(c) \/ pc[c] = "unborn",
         open' = open, turns' = turns, poisoned \subseteq poisoned',
         pc[c] \notin QueuePC, pc'[c] \notin QueuePC \cup ScopePC
  PROVE  Works(c)
<1>1. Admitted(c) /\ pc'[c] # "queued" BY DEF Admitted, QueuePC, InUse
<1>2. \A k \in Conns : Queues(c, k) BY AsideQueues
<1> QED BY <1>1, <1>2, StatementWorks

LEMMA QuietWorks ==
  ASSUME SInv, NEW c \in Calls, Advance(c), Frame(c), Nests(c), EndStream(c) \/ Refuse(c)
  PROVE  Works(c)
<1>0. TypeOK /\ Local(c) BY DEF SInv, CInv, NInv, JInv, IInv
<1>1. /\ UNCHANGED <<req, open, turns, poisoned>> /\ pc[c] \in {"ready", "closed"}
      /\ Statement(c)
  BY <1>0 DEF EndStream, Refuse, Local, StatementPC
<1>2. pc'[c] \in Settled
  BY <1>0, AbandonFacts DEF EndStream, Refuse, EndAs, Goto, TypeOK, Settled
<1>3. Statement(c)' BY <1>1 DEF Statement
<1>4. pc[c] \notin QueuePC /\ pc'[c] \notin QueuePC \cup ScopePC
  BY <1>1, <1>2 DEF QueuePC, InUse, ScopePC, Settled
<1> QED BY <1>1, <1>3, <1>4, AsideWorks

LEMMA MadeWorks ==
  ASSUME SInv, NEW c \in Calls, Advance(c), Frame(c), Nests(c), NEW h, NEW caller,
         Execute(c, h, caller) \/ Stream(c, h, caller)
  PROVE  Works(c)
<1>0. TypeOK BY DEF SInv, CInv, NInv, JInv, IInv
<1>1. UNCHANGED <<open, turns, poisoned>> /\ pc[c] = "unborn" BY DEF Execute, Stream, Make
<1>2. pc'[c] \in {"ready", "rejected"} BY <1>0 DEF Execute, Stream, Goto, TypeOK
<1>3. Statement(c)' BY <1>0 DEF Execute, Stream, Make, Statement, TypeOK
<1>4. pc[c] \notin QueuePC /\ pc'[c] \notin QueuePC \cup ScopePC
  BY <1>1, <1>2 DEF QueuePC, InUse, ScopePC
<1> QED BY <1>1, <1>3, <1>4, AsideWorks

(* A statement whose handle is open is inside its callback. *)
LEMMA ScopedOpen ==
  ASSUME SInv, NEW c \in Calls, Statement(c), pc[c] \in {"ready", "queued"},
         req[c].via # Root, IsOpen(req[c].via)
  PROVE  /\ req[c].via \in Calls /\ req[c].via # c /\ pc[req[c].via] = "body"
         /\ conn[req[c].via] \in Conns /\ On(req[c].via, conn[req[c].via])
         /\ pc[c] = "queued" => conn[c] = conn[req[c].via]
<1>0. /\ JInv /\ TypeOK /\ Handles(c) /\ Share(c) /\ (\A h \in Calls : Local(h)) /\ Local(c)
  BY DEF SInv, CInv, NInv, JInv, IInv, Whole
<1>1. PICK h \in Calls : h = req[c].via BY <1>0 DEF TypeOK, Request
<1>2. ~Statement(h) /\ pc[h] = "body" BY <1>0, <1>1 DEF Handles, Opened, IsOpen
<1>3. conn[h] \in Conns /\ On(h, conn[h]) BY <1>0, <1>2 DEF Local, NeedsConn, On, ScopePC
<1>4. pc[c] = "queued" => conn[c] \in Conns BY <1>0 DEF Local, NeedsConn
<1>5. pc[c] = "queued" => conn[c] = conn[h]
  BY <1>0, <1>1, <1>2, <1>4, ScopeConstants DEF Share, ScopePC, Settled
<1> QED BY <1>1, <1>2, <1>3, <1>5

LEMMA GrantTurnWorks ==
  ASSUME SInv, NEW c \in Calls, Advance(c), Frame(c), Nests(c), GrantTurn(c)
  PROVE  Works(c)
<1>0. TypeOK /\ Local(c) BY DEF SInv, CInv, NInv, JInv, IInv
<1>1. /\ pc[c] = "queued" /\ Statement(c) /\ req[c].via # Root /\ HasTurn(c)
      /\ UNCHANGED <<req, open, poisoned>>
  BY DEF GrantTurn
<1>2. PICK k \in Conns : k = conn[c] BY <1>0, <1>1 DEF Local, NeedsConn
<1>3. Statement(c)' BY <1>1 DEF Statement
<1>4. CASE IsOpen(req[c].via) /\ IsHealthy(k) /\ Start(c, k) /\ turns' = turns
  <2>1. pc'[c] = "running" /\ conn'[c] = k BY <1>0, <1>4, StartFacts
  <2>2. \A r \in Conns : Queues(c, r)
    BY <1>1, <1>2, <1>3, <1>4, <2>1 DEF Queues, Waiting, InUse
  <2>3. Admitted(c)
    BY <1>1, <1>2, <1>4, <2>1, ScopedOpen DEF Admitted, IsHealthy
  <2> QED BY <1>1, <1>3, <2>1, <2>2, <2>3, StatementWorks DEF ScopePC
<1>5. CASE Abandon(c) /\ turns' = [turns EXCEPT ![conn[c]] = Tail(@)]
  <2>1. pc'[c] = "rejected" BY <1>0, <1>5, AbandonFacts
  <2>2. \A r \in Conns : Queues(c, r)
    BY <1>0, <1>1, <1>2, <1>5, <2>1, LeaveQueues DEF QueuePC, InUse
  <2> QED BY <1>1, <1>3, <2>1, <2>2, StatementWorks DEF Admitted, ScopePC
<1> QED BY <1>2, <1>4, <1>5 DEF GrantTurn

LEMMA GrantTailWorks ==
  ASSUME SInv, NEW c \in Calls, Advance(c), Frame(c), Nests(c), GrantTail(c)
  PROVE  Works(c)
<1>0. TypeOK /\ Local(c) /\ Mode(c) /\ JInv BY DEF SInv, CInv, NInv, JInv, IInv, Whole
<1>1. /\ pc[c] = "queued" /\ Statement(c) /\ req[c].via = Root /\ HasTail(c)
      /\ UNCHANGED <<req, open, poisoned, turns>> /\ ~Pooled /\ ~Conservative
  BY <1>0 DEF GrantTail, Mode
<1>2. PICK k \in Conns : k = conn[c] BY <1>0, <1>1 DEF Local, NeedsConn
<1>3. Statement(c)' BY <1>1 DEF Statement
<1>4. /\ pc'[c] \in {"running", "rejected"}
      /\ pc'[c] = "running" => conn'[c] = k /\ k \notin poisoned
  BY <1>0, <1>2, StartFacts, AbandonFacts DEF GrantTail, IsHealthy
<1>5. \A r \in Conns : Queues(c, r) BY <1>1, <1>3, <1>4, AsideQueues
<1>6. Alone(k) BY <1>0, <1>1, <1>2, HeadAlone DEF ScopePC
<1>7. Admitted(c) BY <1>1, <1>4, <1>6 DEF Admitted
<1> QED BY <1>1, <1>3, <1>4, <1>5, <1>7, StatementWorks DEF ScopePC

LEMMA LeaseWorks ==
  ASSUME SInv, NEW c \in Calls, Advance(c), Frame(c), Nests(c), Lease(c)
  PROVE  Works(c)
<1>0. TypeOK /\ Local(c) /\ NInv BY DEF SInv, CInv, NInv, JInv, IInv
<1>1. /\ pc[c] = "ready" /\ Statement(c) /\ CanLease(c) /\ UNCHANGED <<req, open, poisoned>>
  BY DEF Lease
<1>2. Statement(c)' BY <1>1 DEF Statement
<1>3. PICK k : k = StateOf(req[c].via) OBVIOUS
<1>4. IsOpen(req[c].via) /\ k \notin poisoned BY <1>1, <1>3 DEF CanLease, IsHealthy
<1>5. CASE req[c].via # Root /\ Goto(c, "queued") /\ conn' = [conn EXCEPT ![c] = k]
           /\ turns' = [turns EXCEPT ![k] = Append(@, c)]
  <2>1. pc'[c] = "queued" /\ conn'[c] = k BY <1>0, <1>5 DEF Goto, TypeOK
  <2>2. pc[req[c].via] = "body" /\ k \in Conns
    BY <1>1, <1>3, <1>4, <1>5, ScopedOpen DEF StateOf
  <2>3. \A r \in Conns : ~Waiting(c, r) /\ (Waiting(c, r)' <=> r = k)
    BY <1>1, <1>2, <1>5, <2>1 DEF Waiting, InUse
  <2>4. \A r \in Conns : Queues(c, r) BY <1>0, <1>5, <2>2, <2>3 DEF Queues, TypeOK
  <2> QED BY <1>1, <1>2, <2>1, <2>2, <2>4, StatementWorks DEF Admitted, ScopePC
<1>6. CASE req[c].via = Root /\ turns' = turns /\ (Goto(c, "acquiring") \/ Goto(c, "queued"))
  <2>1. pc'[c] \in {"acquiring", "queued"} BY <1>0, <1>6 DEF Goto, TypeOK
  <2>2. \A r \in Conns : Queues(c, r) BY <1>1, <1>2, <1>6, <2>1, AsideQueues DEF QueuePC, InUse
  <2> QED BY <1>1, <1>2, <1>6, <2>1, <2>2, StatementWorks DEF Admitted, ScopePC
<1>7. CASE req[c].via = Root /\ Conservative /\ turns' = turns /\ Goto(c, "running")
           /\ conn' = [conn EXCEPT ![c] = k]
  <2>1. pc'[c] = "running" /\ conn'[c] = k BY <1>0, <1>7 DEF Goto, TypeOK
  <2>2. \A r \in Conns : Queues(c, r) BY <1>1, <1>2, <1>7, <2>1, AsideQueues DEF QueuePC, InUse
  <2>3. k = Direct /\ k \in Conns BY <1>3, <1>7, ScopeConstants, DirectIsConn DEF StateOf
  <2>4. Alone(k) BY <1>0, <1>1, <1>4, <1>7, <2>3, UnmarkedAlone
                 DEF CanLease, RootAllowed, Tainted
  <2>5. Admitted(c) BY <1>1, <1>4, <1>7, <2>1, <2>3, <2>4 DEF Admitted
  <2> QED BY <1>1, <1>2, <2>1, <2>2, <2>5, StatementWorks DEF ScopePC
<1> QED BY <1>3, <1>5, <1>6, <1>7 DEF Lease

(* A connection nobody is on is dropped, and its transaction with it. *)
LEMMA DiscardWorks ==
  ASSUME SInv, NEW c \in Calls, Advance(c), Frame(c), Nests(c), NEW k \in Conns,
         Pooled, Discard(c, k), Alone(k), turns' = turns, Staged(c)',
         pc[c] \in {"acquiring", "releasing"},
         k \in idle \/ (Holds(c) /\ conn[c] = k /\ pc[c] = "releasing"),
         pc'[c] \in Settled \cup {"closed", "finalize"}
  PROVE  Works(c)
<1>0. TypeOK /\ NInv /\ JInv BY DEF SInv, CInv, NInv, JInv, IInv
<1>1. /\ conn'[c] = None /\ open'[k] = <<>> /\ poisoned' = poisoned \ {k}
      /\ \A r \in Conns \ {k} : open'[r] = open[r]
  BY <1>0, DiscardFacts DEF Discard, TypeOK
<1>2. \A r \in Conns : ~On(c, r)' /\ ~On(c, r) BY <1>1, ScopeConstants DEF On, ScopePC
<1>3. \A r \in Conns : ~BegunOn(c, r)' /\ ~BegunOn(c, r) BY <1>2 DEF BegunOn, OnTx
<1>4. Alone(k)' BY <1>0, <1>2, AloneAfter
<1>5. \A d \in Calls \ {c} : pc'[d] = pc[d] /\ \A r \in Conns : On(d, r)' <=> On(d, r)
  BY <1>0, OthersRest DEF Rests, Nests
<1>6. \A r \in Conns \ {k} : Trusted(r)' => Trusted(r) BY <1>1, <1>2, <1>5 DEF Trusted
<1>7. \A r \in Conns : Stacks(c, r) BY <1>1, <1>3, <1>4, <1>6 DEF Stacks
<1>8. pc[c] \notin QueuePC /\ pc'[c] \notin QueuePC BY DEF QueuePC, InUse, Settled
<1>9. \A r \in Conns : Queues(c, r) BY <1>8, AsideQueues
<1>10. Admitted(c) /\ pc'[c] # "queued" BY <1>8 DEF Admitted, QueuePC, InUse
<1>11. \A r \in Conns : open'[r] # open[r] => Touches(c, r) BY <1>1 DEF Touches
<1> QED BY <1>1, <1>7, <1>9, <1>10, <1>11 DEF Works

LEMMA AcquireWorks ==
  ASSUME SInv, NEW c \in Calls, Advance(c), Frame(c), Nests(c), Acquire(c)
  PROVE  Works(c)
<1>0. TypeOK /\ Local(c) /\ JInv BY DEF SInv, CInv, NInv, JInv, IInv
<1>1. /\ pc[c] = "acquiring" /\ Statement(c) /\ req' = req /\ turns' = turns
      /\ Pooled /\ req[c].via = Root
  BY <1>0 DEF Acquire, Local
<1>2. PICK k \in idle :
        IF IsHealthy(k) THEN Start(c, k) /\ poisoned' = poisoned /\ open' = open
                        ELSE Goto(c, "rejected") /\ Discard(c, k)
  BY DEF Acquire
<1>3. k \in Conns /\ Alone(k) BY <1>0, <1>1, IdleAlone
<1>4. Statement(c)' BY <1>1 DEF Statement
<1>5. CASE IsHealthy(k)
  <2>1. pc'[c] = "running" /\ conn'[c] = k BY <1>0, <1>2, <1>3, <1>5, StartFacts
  <2>2. \A r \in Conns : Queues(c, r) BY <1>1, <1>4, <2>1, AsideQueues
  <2>3. Admitted(c) BY <1>1, <1>2, <1>3, <1>5, <2>1 DEF Admitted, IsHealthy
  <2> QED BY <1>1, <1>2, <1>4, <1>5, <2>1, <2>2, <2>3, StatementWorks DEF ScopePC
<1>6. CASE ~IsHealthy(k)
  <2>1. pc'[c] = "rejected" /\ Discard(c, k) BY <1>0, <1>2, <1>6 DEF Goto, TypeOK
  <2>2. Staged(c)' BY <2>1 DEF Staged, Asking, AtControl
  <2> QED BY <1>1, <1>3, <2>1, <2>2, DiscardWorks DEF Settled
<1> QED BY <1>5, <1>6

LEMMA ReleaseWorks ==
  ASSUME SInv, NEW c \in Calls, Advance(c), Frame(c), Nests(c), Release(c)
  PROVE  Works(c)
<1>0. TypeOK /\ Local(c) /\ Mode(c) /\ JInv BY DEF SInv, CInv, NInv, JInv, IInv, Whole
<1>1. /\ pc[c] = "releasing" /\ req' = req /\ turns' = turns
      /\ Pooled /\ req[c].via = Root /\ conn[c] \in Conns /\ conn[c] # None
  BY <1>0, ScopeConstants DEF Release, Mode, Local, NeedsConn
<1>2. Holds(c) BY <1>1 DEF Holds
<1>3. Alone(conn[c]) BY <1>0, <1>1, <1>2, RootAlone DEF ScopePC
<1>4. pc'[c] \in Settled \cup {"closed"}
  BY <1>0 DEF Release, EndAs, Goto, TypeOK, Settled
<1>5. Staged(c)' BY <1>4 DEF Staged, Asking, AtControl, Settled
<1>6. CASE Discard(c, conn[c]) BY <1>1, <1>2, <1>3, <1>4, <1>5, <1>6, DiscardWorks
<1>7. CASE open' = open /\ poisoned \subseteq poisoned'
  <2>1. pc[c] \notin QueuePC /\ pc'[c] \notin QueuePC
        /\ pc'[c] \notin ScopePC /\ pc[c] \notin ScopePC
    BY <1>1, <1>4 DEF QueuePC, InUse, Settled, ScopePC
  <2>2. \A r \in Conns : Queues(c, r) BY <1>1, <2>1, AsideQueues
  <2>3. Admitted(c) /\ pc'[c] \notin {"queued", "turn", "driver"}
    BY <2>1 DEF Admitted, QueuePC, InUse
  <2>4. \A r \in Conns : ~BegunOn(c, r) /\ ~BegunOn(c, r)'
    BY <2>1 DEF BegunOn, OnTx, On
  <2> QED BY <1>5, <1>7, <2>2, <2>3, <2>4, CalmWorks
<1> QED BY <1>6, <1>7 DEF Release

-----------------------------------------------------------------------------
(* A step of a scope that is not at its turn. *)
LEMMA ScopeCalm ==
  ASSUME SInv, NEW c \in Calls, Advance(c), Frame(c), Nests(c),
         ~Statement(c) \/ pc[c] = "unborn", ~Statement(c)',
         pc[c] \notin {"turn", "driver"}, pc'[c] \notin {"turn", "driver"},
         open' = open, turns' = turns, poisoned' = poisoned, Staged(c)',
         \A k \in Conns :
            \/ BegunOn(c, k)' <=> BegunOn(c, k)
            \/ pc[c] # "body" /\ On(c, k) /\ k \in poisoned
  PROVE  Works(c)
<1>1. pc'[c] \notin StatementPC BY DEF Advance, Local
<1>2. Admitted(c) BY <1>1 DEF Admitted, StatementPC
<1>3. \A k \in Conns : ~Waiting(c, k) /\ ~Waiting(c, k)' BY DEF Waiting, InUse
<1>4. \A k \in Conns : Queues(c, k) BY <1>3 DEF Queues
<1> QED BY <1>2, <1>4, CalmWorks

(* A session begins nothing at the database. *)
LEMMA SessionCalm ==
  ASSUME SInv, NEW c \in Calls, Advance(c), Frame(c), Nests(c), Paces(c),
         IsSession(c) \/ pc[c] = "unborn", IsSession(c)',
         open' = open, turns' = turns, poisoned' = poisoned
  PROVE  Works(c)
<1>1. /\ ~IsTx(c)' /\ (~IsTx(c) \/ pc[c] = "unborn")
      /\ ~Statement(c)' /\ (~Statement(c) \/ pc[c] = "unborn")
  BY DEF IsSession, IsTx, Statement
<1>2. pc[c] \notin AtControl /\ pc'[c] \notin AtControl
  BY <1>1 DEF SInv, CInv, Lasts, Paces, AtControl
<1>3. Staged(c)' BY <1>1, <1>2 DEF Staged, Asking, AtControl
<1>4. \A k \in Conns : ~BegunOn(c, k) /\ ~BegunOn(c, k)'
  BY <1>1 DEF BegunOn, OnTx, On, ScopePC
<1>5. pc[c] \notin {"turn", "driver"} /\ pc'[c] \notin {"turn", "driver"} BY <1>2 DEF AtControl
<1> QED BY <1>1, <1>3, <1>4, <1>5, ScopeCalm

LEMMA SessionWorks ==
  ASSUME SInv, NEW c \in Calls, Advance(c), Frame(c), Nests(c), Paces(c), NEW h, NEW caller,
         Session(c, h, caller)
  PROVE  Works(c)
<1>0. TypeOK BY DEF SInv, CInv, NInv, JInv, IInv
<1>1. UNCHANGED <<open, turns, poisoned>> /\ pc[c] = "unborn" BY DEF Session, Make
<1>2. IsSession(c)' BY <1>0 DEF Session, Make, IsSession, TypeOK
<1> QED BY <1>1, <1>2, SessionCalm

LEMMA GrantSessionWorks ==
  ASSUME SInv, NEW c \in Calls, Advance(c), Frame(c), Nests(c), Paces(c), GrantSession(c)
  PROVE  Works(c)
<1>1. UNCHANGED <<req, open, turns, poisoned>> /\ IsSession(c) BY DEF GrantSession
<1>2. IsSession(c)' BY <1>1 DEF IsSession
<1> QED BY <1>1, <1>2, SessionCalm

LEMMA AcquireSessionWorks ==
  ASSUME SInv, NEW c \in Calls, Advance(c), Frame(c), Nests(c), Paces(c), AcquireSession(c)
  PROVE  Works(c)
<1>0. TypeOK /\ Local(c) /\ JInv BY DEF SInv, CInv, NInv, JInv, IInv
<1>1. /\ pc[c] = "acquiring" /\ IsSession(c) /\ req' = req /\ turns' = turns /\ Pooled
  BY <1>0 DEF AcquireSession, Local
<1>2. IsSession(c)' BY <1>1 DEF IsSession
<1>3. PICK k \in idle :
        IF IsHealthy(k) THEN poisoned' = poisoned /\ open' = open
                        ELSE Goto(c, "rejected") /\ Discard(c, k)
  BY DEF AcquireSession
<1>4. CASE IsHealthy(k) BY <1>1, <1>2, <1>3, <1>4, SessionCalm
<1>5. CASE ~IsHealthy(k)
  <2>1. pc'[c] = "rejected" /\ Discard(c, k) BY <1>0, <1>3, <1>5 DEF Goto, TypeOK
  <2>2. Staged(c)' BY <2>1 DEF Staged, Asking, AtControl
  <2>3. k \in Conns /\ Alone(k) BY <1>0, <1>1, IdleAlone
  <2> QED BY <1>1, <2>1, <2>2, <2>3, DiscardWorks DEF Settled
<1> QED BY <1>4, <1>5

(* What the parts of a step of tx leave of how far it is. *)
LEMMA FinishStages ==
  ASSUME TypeOK, NEW c \in Calls, NEW o, Finish(c, o)
  PROVE  /\ pc'[c] = "drain" /\ scope'[c].phase = scope[c].phase
         /\ scope'[c].started = scope[c].started /\ scope'[c].completed = scope[c].completed
         /\ o = "failed" => scope'[c].outcome = "failed"
<1>1. PICK s, u : /\ s = scope[c].streams
                  /\ u = IF o = "ok" /\ scope[c].streams # <<>> THEN "unclosed" ELSE o
  OBVIOUS
<1>2. PICK t : t = [scope[c] EXCEPT !.closed = TRUE, !.drain = s, !.outcome = u] OBVIOUS
<1>3. /\ t.phase = scope[c].phase /\ t.started = scope[c].started
      /\ t.completed = scope[c].completed /\ t.outcome = u
  BY <1>2 DEF TypeOK, Scope
<1>4. SetScope(c, t) /\ Goto(c, "drain") BY <1>1, <1>2 DEF Finish
<1>5. scope'[c] = t /\ pc'[c] = "drain" BY <1>4 DEF SetScope, Goto, TypeOK
<1> QED BY <1>1, <1>3, <1>5

LEMMA NoResourceStages ==
  ASSUME TypeOK, NEW c \in Calls, NoResource(c)
  PROVE  /\ pc'[c] = "finalize" /\ scope'[c].phase = scope[c].phase
         /\ scope'[c].started = scope[c].started /\ scope'[c].completed = scope[c].completed
<1>1. PICK t : t = [scope[c] EXCEPT !.outcome = "failed"] OBVIOUS
<1>2. /\ t.phase = scope[c].phase /\ t.started = scope[c].started
      /\ t.completed = scope[c].completed
  BY <1>1 DEF TypeOK, Scope
<1>3. scope'[c] = t /\ pc'[c] = "finalize"
  BY <1>1 DEF NoResource, SetScope, Goto, TypeOK
<1> QED BY <1>2, <1>3

LEMMA NextStages ==
  ASSUME TypeOK, NEW c \in Calls, NEW p, NextControl(c, p)
  PROVE  /\ pc'[c] = "announce" /\ scope'[c].phase = p
         /\ scope'[c].started = scope[c].started /\ scope'[c].completed = scope[c].completed
<1>1. PICK t : t = [scope[c] EXCEPT !.phase = p, !.awaited = {}] OBVIOUS
<1>2. /\ t.phase = p /\ t.started = scope[c].started /\ t.completed = scope[c].completed
  BY <1>1 DEF TypeOK, Scope
<1>3. scope'[c] = t /\ pc'[c] = "announce"
  BY <1>1 DEF NextControl, SetScope, Goto, TypeOK
<1> QED BY <1>2, <1>3

LEMMA SameNested ==
  ASSUME NInv, NEW c \in Calls, pc[c] \in ScopePC, req' = req, SameClosure(c)
  PROVE  (IsNested(c)' <=> IsNested(c)) /\ (IsTx(c)' <=> IsTx(c))
<1>0. TypeOK BY DEF NInv, JInv, IInv
<1>1. \A h \in Calls : scope'[h].txScope = scope[h].txScope BY DEF SameClosure
<1>2. req[c].via \in Calls \cup {Root} BY <1>0 DEF TypeOK, Request
<1> QED BY <1>1, <1>2 DEF IsNested, IsTx, InTransaction

(* tx has its resource. *)
LEMMA BeginWorks ==
  ASSUME SInv, NEW c \in Calls, Advance(c), Frame(c), Nests(c), IsTx(c),
         pc[c] \in {"ready", "queued", "acquiring"}, req' = req, NEW k \in Conns, Begin(c, k),
         open' = open, poisoned' = poisoned
  PROVE  Works(c)
<1>0. TypeOK /\ NInv /\ Staged(c) BY DEF SInv, CInv, NInv, JInv, IInv
<1>1. /\ scope[c].phase = "begin" /\ ~scope[c].started /\ ~scope[c].completed
      /\ ~Statement(c)
  BY <1>0, WaitsOutside DEF Staged
<1>2. SameClosure(c) /\ conn'[c] = k /\ pc'[c] \in {"turn", "drain"} BY <1>0, BeginKeeps
<1>3. ~IsNested(c)' /\ ~Statement(c)' /\ IsTx(c)' BY <1>0, <1>2, WaitsKeep
<1>4. \A r \in Conns : ~BegunOn(c, r) /\ ~Waiting(c, r)
  BY <1>1 DEF BegunOn, OnTx, On, ScopePC, Waiting
<1>5. CASE k \notin poisoned /\ TakeTurn(c, k) /\ scope' = scope
  <2>1. pc'[c] = "turn" /\ turns' = [turns EXCEPT ![k] = Append(@, c)]
    BY <1>0, <1>5 DEF TakeTurn, Goto, TypeOK
  <2>2. Staged(c)' BY <1>1, <1>3, <1>5, <2>1 DEF Staged, Asking, AtControl, Starting, Fast
  <2>3. \A r \in Conns : Waiting(c, r)' <=> r = k BY <1>2, <1>3, <2>1 DEF Waiting
  <2>4. \A r \in Conns : Queues(c, r) BY <1>0, <1>4, <2>1, <2>3 DEF Queues, TypeOK
  <2>5. \A r \in Conns : ~BegunOn(c, r)' BY <1>1, <1>5 DEF BegunOn, Begun
  <2> QED BY <1>2, <1>3, <1>4, <1>5, <2>1, <2>2, <2>4, <2>5, CalmWorks DEF Admitted
<1>6. CASE Finish(c, "failed") /\ turns' = turns
  <2>1. pc'[c] = "drain" /\ scope'[c].outcome = "failed" /\ scope'[c].started = FALSE
    BY <1>0, <1>1, <1>6, FinishStages DEF TypeOK, Scope
  <2>2. Staged(c)' BY <2>1 DEF Staged, Asking, AtControl
  <2>3. \A r \in Conns : ~BegunOn(c, r)' BY <2>1 DEF BegunOn, Begun
  <2> QED BY <1>1, <1>3, <1>4, <1>6, <2>1, <2>2, <2>3, ScopeCalm
<1> QED BY <1>5, <1>6 DEF Begin, IsHealthy

(* tx goes on without one, or waits for it. *)
LEMMA UnbegunWorks ==
  ASSUME SInv, NEW c \in Calls, Advance(c), Frame(c), Nests(c), IsTx(c),
         pc[c] \in {"ready", "queued", "acquiring"}, req' = req,
         \/ NoResource(c)
         \/ scope' = scope /\ (Goto(c, "acquiring") \/ Goto(c, "queued")),
         UNCHANGED <<turns, open, poisoned>>
  PROVE  Works(c)
<1>0. TypeOK /\ NInv /\ Staged(c) BY DEF SInv, CInv, NInv, JInv, IInv
<1>1. /\ scope[c].phase = "begin" /\ ~scope[c].started /\ ~scope[c].completed
      /\ ~Statement(c) /\ ~Statement(c)' /\ IsTx(c)'
  BY <1>0, WaitsOutside DEF Staged, Statement, IsTx
<1>2. /\ pc'[c] \in {"finalize", "acquiring", "queued"} /\ scope'[c].phase = "begin"
      /\ ~scope'[c].started /\ ~scope'[c].completed
  BY <1>0, <1>1, NoResourceStages DEF Goto, TypeOK
<1>3. Staged(c)' BY <1>2 DEF Staged, Asking, AtControl, Begun
<1>4. \A r \in Conns : ~BegunOn(c, r) /\ ~BegunOn(c, r)' BY <1>1, <1>2 DEF BegunOn, Begun
<1> QED BY <1>1, <1>2, <1>3, <1>4, ScopeCalm

LEMMA LeaseTxWorks ==
  ASSUME SInv, NEW c \in Calls, Advance(c), Frame(c), Nests(c), LeaseTx(c) \/ RefuseTx(c)
  PROVE  Works(c)
<1>0. NInv BY DEF SInv, CInv
<1>1. /\ pc[c] = "ready" /\ IsTx(c) /\ UNCHANGED <<req, poisoned, open>>
  BY DEF LeaseTx, RefuseTx
<1>2. PICK k : k = StateOf(req[c].via) OBVIOUS
<1>3. CASE Begin(c, k) /\ (req[c].via # Root \/ Conservative)
  <2>1. k \in Conns
    BY <1>0, <1>1, <1>2, <1>3, WaitsOutside, DirectIsConn, ScopeConstants DEF StateOf
  <2> QED BY <1>1, <1>3, <2>1, BeginWorks
<1>4. CASE NoResource(c) /\ turns' = turns BY <1>1, <1>4, UnbegunWorks
<1>5. CASE scope' = scope /\ turns' = turns /\ (Goto(c, "acquiring") \/ Goto(c, "queued"))
  BY <1>1, <1>5, UnbegunWorks
<1> QED BY <1>2, <1>3, <1>4, <1>5 DEF LeaseTx, RefuseTx

LEMMA GrantTxWorks ==
  ASSUME SInv, NEW c \in Calls, Advance(c), Frame(c), Nests(c), GrantTx(c)
  PROVE  Works(c)
<1>0. Local(c) BY DEF SInv, CInv, NInv, JInv, IInv
<1>1. /\ pc[c] = "queued" /\ IsTx(c) /\ UNCHANGED <<req, poisoned, open>> /\ conn[c] \in Conns
  BY <1>0 DEF GrantTx, Local, NeedsConn
<1>2. Begin(c, conn[c]) \/ (NoResource(c) /\ turns' = turns) BY DEF GrantTx
<1> QED BY <1>1, <1>2, BeginWorks, UnbegunWorks

LEMMA AcquireTxWorks ==
  ASSUME SInv, NEW c \in Calls, Advance(c), Frame(c), Nests(c), AcquireTx(c)
  PROVE  Works(c)
<1>0. TypeOK /\ Local(c) /\ JInv /\ Staged(c) BY DEF SInv, CInv, NInv, JInv, IInv
<1>1. /\ pc[c] = "acquiring" /\ IsTx(c) /\ req' = req /\ Pooled
  BY <1>0 DEF AcquireTx, Local
<1>2. PICK k \in idle :
        IF IsHealthy(k) THEN Begin(c, k) /\ poisoned' = poisoned /\ open' = open
                        ELSE NoResource(c) /\ Discard(c, k) /\ turns' = turns
  BY DEF AcquireTx
<1>3. k \in Conns /\ Alone(k) BY <1>0, <1>1, IdleAlone
<1>4. CASE IsHealthy(k) BY <1>1, <1>2, <1>3, <1>4, BeginWorks
<1>5. CASE ~IsHealthy(k)
  <2>1. pc'[c] = "finalize" /\ ~scope'[c].started
    BY <1>0, <1>1, <1>2, <1>5, NoResourceStages DEF Staged
  <2>2. Staged(c)' BY <2>1 DEF Staged, Asking, AtControl, Begun
  <2> QED BY <1>1, <1>2, <1>3, <1>5, <2>1, <2>2, DiscardWorks
<1> QED BY <1>4, <1>5

LEMMA TxWorks ==
  ASSUME SInv, NEW c \in Calls, Advance(c), Frame(c), Nests(c), NEW h,
         NEW caller \in SUBSET Calls, Around(caller), Tx(c, h, caller)
  PROVE  Works(c)
<1>0. TypeOK /\ JInv /\ IInv BY DEF SInv, CInv, NInv, JInv, IInv
<1>1. /\ pc[c] = "unborn" /\ UNCHANGED <<turns, open, poisoned>>
      /\ req'[c].kind = "tx" /\ req'[c].via = h /\ h # c
  BY <1>0, MadeFacts DEF Tx
<1>2. IsTx(c)' /\ ~Statement(c)' BY <1>1 DEF IsTx, Statement
<1>3. \A r \in Conns : ~BegunOn(c, r) BY <1>1 DEF BegunOn, OnTx, On, ScopePC
<1>4. CASE pc'[c] = "rejected"
  <2>1. Staged(c)' BY <1>4 DEF Staged, Asking, AtControl
  <2>2. \A r \in Conns : ~BegunOn(c, r)' BY <1>4 DEF BegunOn, OnTx, On, ScopePC
  <2> QED BY <1>1, <1>2, <1>3, <1>4, <2>1, <2>2, ScopeCalm
<1>5. ASSUME NEW p, p = IF InTransaction(h) THEN "savepoint" ELSE "begin", NEW a, NEW b,
             Goto(c, IF InTransaction(h) THEN "announce" ELSE "ready"),
             SetScope(c, [NewScope EXCEPT !.txScope = c, !.phase = p, !.prev = a,
                                          !.rootPrev = b])
      PROVE  Works(c)
  <2>1. PICK t : t = [NewScope EXCEPT !.txScope = c, !.phase = p, !.prev = a, !.rootPrev = b]
    OBVIOUS
  <2>2. t.phase = p /\ ~t.started /\ ~t.completed BY <2>1 DEF NewScope
  <2>3. SetScope(c, t) BY <1>5, <2>1
  <2>4. scope'[c] = t /\ \A d \in Calls \ {c} : scope'[d] = scope[d] BY <1>0, <2>3, SparesSet
  <2>5. \A r \in Conns : ~BegunOn(c, r)' BY <2>2, <2>4 DEF BegunOn, Begun
  <2>6. IsNested(c)' <=> InTransaction(h)
    <3>1. h \in Calls \cup {Root} BY <1>0, MadeFacts DEF Tx
    <3> QED BY <1>1, <1>2, <2>4, <3>1 DEF IsNested, InTransaction
  <2>7. pc'[c] = IF InTransaction(h) THEN "announce" ELSE "ready"
    BY <1>0, <1>5 DEF Goto, TypeOK
  <2>8. Staged(c)'
    BY <1>5, <2>2, <2>4, <2>6, <2>7 DEF Staged, Asking, AtControl, Starting, Fast
  <2>9. pc'[c] \notin {"turn", "driver"} BY <2>7
  <2> QED BY <1>1, <1>2, <1>3, <2>5, <2>8, <2>9, ScopeCalm
<1>6. CASE Goto(c, "rejected") BY <1>0, <1>4, <1>6 DEF Goto, TypeOK
<1> QED BY <1>5, <1>6 DEF Tx

(* A control statement that did not run, or failed: its transaction can be   *)
(* lost only where the resource is poisoned.                                 *)
LEMMA FailsWorks ==
  ASSUME SInv, NEW c \in Calls, Advance(c), Frame(c), Nests(c),
         pc[c] \in {"announce", "announced"}, ControlFails(c),
         UNCHANGED <<req, conn, turns, open, poisoned>>,
         \/ conn[c] \in poisoned
         \/ scope[c].phase \notin Cleanup
         \/ pc[c] = "announced" /\ scope[c].phase # "rollback-to"
  PROVE  Works(c)
<1>0. TypeOK /\ NInv /\ JInv /\ Lasts(c) /\ Local(c) /\ Local(c)'
  BY DEF SInv, CInv, NInv, JInv, IInv, Advance
<1>1. IsTx(c) /\ IsTx(c)' /\ ~Statement(c) /\ ~Statement(c)'
  BY <1>0 DEF Lasts, AtControl, IsTx, Statement
<1>2. PICK k \in Conns : k = conn[c] BY <1>0 DEF Local, NeedsConn
<1>3. /\ On(c, k) /\ pc[c] # "body" /\ \A r \in Conns : On(c, r) => r = k
      /\ pc[c] \notin {"turn", "driver"}
  BY <1>2 DEF On, ScopePC
<1>4. CASE scope[c].phase \notin Cleanup /\ Finish(c, "failed")
  <2>1. /\ pc'[c] = "drain" /\ scope'[c].outcome = "failed"
        /\ scope'[c].phase = scope[c].phase
        /\ scope'[c].started = scope[c].started /\ scope'[c].completed = scope[c].completed
    BY <1>0, <1>4, FinishStages
  <2>2. Staged(c)' BY <2>1 DEF Staged, Asking, AtControl
  <2>3. \A r \in Conns : BegunOn(c, r)' <=> BegunOn(c, r)
    BY <1>1, <1>4, <2>1 DEF BegunOn, Begun, OnTx, On, Cleanup, ScopePC
  <2> QED BY <1>1, <1>3, <2>1, <2>2, <2>3, ScopeCalm
<1>5. CASE scope[c].phase \in Cleanup /\ Goto(c, "finalize") /\ scope' = scope
  <2>1. pc'[c] = "finalize" BY <1>0, <1>5 DEF Goto, TypeOK
  <2>2. CASE k \in poisoned
    <3>1. Staged(c)' BY <1>2, <1>5, <2>1, <2>2 DEF Staged, Asking, AtControl
    <3>2. \A r \in Conns : \/ BegunOn(c, r)' <=> BegunOn(c, r)
                           \/ pc[c] # "body" /\ On(c, r) /\ r \in poisoned
      BY <1>2, <1>3, <2>2 DEF BegunOn, OnTx, On
    <3> QED BY <1>1, <1>3, <2>1, <3>1, <3>2, ScopeCalm
  <2>3. CASE pc[c] = "announced" /\ scope[c].phase \in {"rollback", "discard-savepoint"}
    <3>1. ~Begun(c) /\ ~Begun(c)' BY <1>5, <2>1, <2>3 DEF Begun
    <3>2. Staged(c)' BY <2>1, <3>1 DEF Staged, Asking, AtControl
    <3>3. \A r \in Conns : ~BegunOn(c, r)' /\ ~BegunOn(c, r) BY <3>1 DEF BegunOn
    <3> QED BY <1>1, <1>3, <2>1, <3>2, <3>3, ScopeCalm
  <2> QED BY <1>2, <1>5, <2>2, <2>3 DEF Cleanup
<1> QED BY <1>4, <1>5 DEF ControlFails

LEMMA AnnounceWorks ==
  ASSUME SInv, NEW c \in Calls, Advance(c), Frame(c), Nests(c), Announce(c)
  PROVE  Works(c)
<1>0. TypeOK /\ NInv /\ Lasts(c) /\ Local(c) /\ Staged(c)
  BY DEF SInv, CInv, NInv, JInv, IInv
<1>1. pc[c] = "announce" /\ UNCHANGED <<req, conn, open, poisoned>> BY DEF Announce
<1>2. IsTx(c) /\ ~Statement(c) /\ ~Statement(c)'
  BY <1>0, <1>1 DEF Lasts, AtControl, IsTx, Statement
<1>3. PICK k \in Conns : k = conn[c] BY <1>0, <1>1 DEF Local, NeedsConn
<1>4. CASE k \notin poisoned /\ TakeTurn(c, k) /\ scope' = scope
  <2>1. pc'[c] = "turn" /\ turns' = [turns EXCEPT ![k] = Append(@, c)]
    BY <1>0, <1>4 DEF TakeTurn, Goto, TypeOK
  <2>2. SameClosure(c) BY <1>4 DEF SameClosure
  <2>3. (IsNested(c)' <=> IsNested(c)) /\ (IsTx(c)' <=> IsTx(c))
    BY <1>0, <1>1, <2>2, SameNested DEF ScopePC
  <2>4. Staged(c)' BY <1>0, <1>1, <1>4, <2>1, <2>3 DEF Staged, Asking, AtControl
  <2>5. \A r \in Conns : BegunOn(c, r)' <=> BegunOn(c, r)
    BY <1>1, <1>4, <2>1, <2>3 DEF BegunOn, Begun, OnTx, On, ScopePC
  <2>6. \A r \in Conns : ~Waiting(c, r) /\ (Waiting(c, r)' <=> r = k)
    BY <1>1, <1>2, <1>3, <2>1 DEF Waiting
  <2>7. \A r \in Conns : Queues(c, r) BY <1>0, <2>1, <2>6 DEF Queues, TypeOK
  <2> QED BY <1>1, <1>2, <1>3, <1>4, <2>1, <2>4, <2>5, <2>7, CalmWorks DEF Admitted
<1>5. CASE /\ ControlFails(c) /\ turns' = turns
           /\ k \in poisoned \/ scope[c].phase \notin Cleanup
  BY <1>1, <1>3, <1>5, FailsWorks
<1> QED BY <1>3, <1>4, <1>5 DEF Announce, IsHealthy, Cleanup

LEMMA TurnWorks ==
  ASSUME SInv, NEW c \in Calls, Advance(c), Frame(c), Nests(c), Turn(c)
  PROVE  Works(c)
<1>0. TypeOK /\ NInv /\ Staged(c) /\ Lasts(c) BY DEF SInv, CInv, NInv, JInv, IInv
<1>1. pc[c] = "turn" /\ UNCHANGED <<req, conn, scope, turns, open, poisoned>> BY DEF Turn
<1>2. pc'[c] = "driver" BY <1>0 DEF Turn, Goto, TypeOK
<1>3. SameClosure(c) BY <1>1 DEF SameClosure
<1>4. (IsNested(c)' <=> IsNested(c)) /\ (IsTx(c)' <=> IsTx(c)) /\ IsTx(c)
  BY <1>0, <1>1, <1>3, SameNested DEF ScopePC, Lasts, AtControl
<1>5. Staged(c)' BY <1>0, <1>1, <1>2, <1>4 DEF Staged, Asking, AtControl
<1>6. \A r \in Conns : BegunOn(c, r)' <=> BegunOn(c, r)
  BY <1>1, <1>2, <1>4 DEF BegunOn, Begun, OnTx, On, ScopePC
<1>7. \A r \in Conns : Waiting(c, r)' <=> Waiting(c, r) BY <1>1, <1>2 DEF Waiting
<1>8. ~Statement(c)' BY <1>4 DEF Statement, IsTx
<1> QED BY <1>1, <1>2, <1>5, <1>6, <1>7, <1>8, CalmWorks DEF Admitted, Queues

LEMMA AnnouncedWorks ==
  ASSUME SInv, NEW c \in Calls, Advance(c), Frame(c), Nests(c), Announced(c)
  PROVE  Works(c)
<1>0. TypeOK /\ NInv /\ Lasts(c) /\ Staged(c) BY DEF SInv, CInv, NInv, JInv, IInv
<1>1. pc[c] = "announced" /\ UNCHANGED <<req, conn, turns, open, poisoned>> BY DEF Announced
<1>2. IsTx(c) /\ IsTx(c)' /\ ~Statement(c) /\ ~Statement(c)'
  BY <1>0, <1>1 DEF Lasts, AtControl, IsTx, Statement
<1>3. CASE /\ scope[c].outcome = "ok" /\ scope[c].phase \in Starting
           /\ Goto(c, "body") /\ scope' = scope
  <2>1. pc'[c] = "body" BY <1>0, <1>3 DEF Goto, TypeOK
  <2>2. Staged(c)' BY <1>0, <1>1, <1>3, <2>1 DEF Staged, Asking, AtControl
  <2>3. \A r \in Conns : BegunOn(c, r)' <=> BegunOn(c, r)
    BY <1>1, <1>2, <1>3, <2>1 DEF BegunOn, Begun, OnTx, On, ScopePC, Starting
  <2> QED BY <1>1, <1>2, <2>1, <2>2, <2>3, ScopeCalm
<1>4. CASE /\ scope[c].outcome = "ok" /\ scope[c].phase \in {"commit", "release"}
           /\ Goto(c, "finalize") /\ scope' = scope
  <2>1. pc'[c] = "finalize" BY <1>0, <1>4 DEF Goto, TypeOK
  <2>2. ~Begun(c) /\ ~Begun(c)' BY <1>0, <1>1, <1>4 DEF Staged, Begun
  <2>3. Staged(c)' BY <2>1, <2>2 DEF Staged, Asking, AtControl
  <2>4. \A r \in Conns : ~BegunOn(c, r)' /\ ~BegunOn(c, r) BY <2>2 DEF BegunOn
  <2> QED BY <1>1, <1>2, <2>1, <2>3, <2>4, ScopeCalm
<1>5. CASE ControlFails(c) /\ (scope[c].phase # "rollback-to" \/ conn[c] \in poisoned)
  BY <1>1, <1>5, FailsWorks
<1>6. CASE /\ scope[c].phase = "rollback-to" /\ Goto(c, "announce")
           /\ SetScope(c, [scope[c] EXCEPT !.phase = "discard-savepoint"])
  <2>1. PICK t : t = [scope[c] EXCEPT !.phase = "discard-savepoint"] OBVIOUS
  <2>2. /\ t.phase = "discard-savepoint" /\ t.started = scope[c].started
        /\ t.completed = scope[c].completed /\ t.txScope = scope[c].txScope
        /\ t.prev = scope[c].prev /\ t.rootPrev = scope[c].rootPrev
    BY <1>0, <2>1 DEF TypeOK, Scope
  <2>3. SetScope(c, t) BY <1>6, <2>1
  <2>4. SameClosure(c) /\ scope'[c] = t BY <1>0, <2>2, <2>3, ClosureKeeps, SparesSet
  <2>5. pc'[c] = "announce" BY <1>0, <1>6 DEF Goto, TypeOK
  <2>6. IsNested(c)' <=> IsNested(c) BY <1>0, <1>1, <2>4, SameNested DEF ScopePC
  <2>7. Staged(c)'
    BY <1>0, <1>1, <1>6, <2>2, <2>4, <2>5, <2>6 DEF Staged, Asking, AtControl, Starting, Fast
  <2>8. \A r \in Conns : BegunOn(c, r)' <=> BegunOn(c, r)
    BY <1>1, <1>2, <1>6, <2>2, <2>4, <2>5 DEF BegunOn, Begun, OnTx, On, ScopePC
  <2> QED BY <1>1, <1>2, <2>5, <2>7, <2>8, ScopeCalm
<1> QED BY <1>3, <1>4, <1>5, <1>6 DEF Announced, IsHealthy, Starting

LEMMA ReturnWorks ==
  ASSUME SInv, NEW c \in Calls, Advance(c), Frame(c), Nests(c), Paces(c), Return(c)
  PROVE  Works(c)
<1>0. TypeOK /\ Staged(c) /\ Local(c) BY DEF SInv, CInv, NInv, JInv, IInv
<1>1. pc[c] = "body" /\ UNCHANGED <<req, conn, turns, open, poisoned>> BY DEF Return
<1>2. PICK o : Finish(c, o) BY DEF Return
<1>3. /\ pc'[c] = "drain" /\ scope'[c].phase = scope[c].phase
      /\ scope'[c].started = scope[c].started /\ scope'[c].completed = scope[c].completed
  BY <1>0, <1>2, FinishStages
<1>4. /\ ~Statement(c) /\ ~Statement(c)' /\ (IsTx(c)' <=> IsTx(c))
  BY <1>0, <1>1 DEF Local, ScopePC, Statement, IsTx
<1>5. Staged(c)' BY <1>0, <1>1, <1>3, <1>4 DEF Staged, Asking, AtControl
<1>6. \A r \in Conns : BegunOn(c, r)' <=> BegunOn(c, r)
  BY <1>1, <1>3, <1>4 DEF BegunOn, Begun, OnTx, On, ScopePC
<1> QED BY <1>1, <1>3, <1>4, <1>5, <1>6, ScopeCalm

LEMMA DrainWorks ==
  ASSUME SInv, NEW c \in Calls, Advance(c), Frame(c), Nests(c), Drain(c)
  PROVE  Works(c)
<1>0. TypeOK /\ Staged(c) /\ Local(c) BY DEF SInv, CInv, NInv, JInv, IInv
<1>1. pc[c] = "drain" /\ UNCHANGED <<req, conn, turns, open, poisoned>> BY DEF Drain
<1>2. /\ ~Statement(c) /\ ~Statement(c)' /\ (IsTx(c)' <=> IsTx(c))
  BY <1>0, <1>1 DEF Local, ScopePC, Statement, IsTx
<1>3. /\ pc'[c] \in {"drain", "tail"} /\ scope'[c].phase = scope[c].phase
      /\ scope'[c].started = scope[c].started /\ scope'[c].completed = scope[c].completed
      /\ scope'[c].outcome = scope[c].outcome
  <2>1. PICK q, a : q = Tail(scope[c].drain) /\ a = Ahead(conn[c]) OBVIOUS
  <2>2. PICK t : /\ t = [scope[c] EXCEPT !.drain = q] \/ t = [scope[c] EXCEPT !.awaited = a]
                 /\ SetScope(c, t)
    BY <2>1 DEF Drain
  <2>3. /\ t.phase = scope[c].phase /\ t.started = scope[c].started
        /\ t.completed = scope[c].completed /\ t.outcome = scope[c].outcome
    BY <1>0, <2>2 DEF TypeOK, Scope
  <2>4. scope'[c] = t BY <1>0, <2>2, SparesSet
  <2>5. pc'[c] \in {"drain", "tail"} BY <1>0 DEF Drain, Goto, TypeOK
  <2> QED BY <2>3, <2>4, <2>5
<1>4. Staged(c)' BY <1>0, <1>1, <1>2, <1>3 DEF Staged, Asking, AtControl
<1>5. \A r \in Conns : BegunOn(c, r)' <=> BegunOn(c, r)
  BY <1>1, <1>2, <1>3 DEF BegunOn, Begun, OnTx, On, ScopePC
<1> QED BY <1>1, <1>2, <1>3, <1>4, <1>5, ScopeCalm

LEMMA FinishedWorks ==
  ASSUME SInv, NEW c \in Calls, Advance(c), Frame(c), Nests(c), Paces(c), Finished(c)
  PROVE  Works(c)
<1>0. TypeOK /\ NInv /\ Staged(c) /\ Local(c) BY DEF SInv, CInv, NInv, JInv, IInv
<1>1. pc[c] = "tail" /\ UNCHANGED <<req, conn, turns, open, poisoned>> BY DEF Finished
<1>2. /\ ~Statement(c) /\ ~Statement(c)' /\ (IsTx(c)' <=> IsTx(c))
      /\ IsSession(c)' <=> IsSession(c)
  BY <1>0, <1>1 DEF Local, ScopePC, Statement, IsTx, IsSession
<1>3. PICK k \in Conns : k = conn[c] BY <1>0, <1>1 DEF Local, NeedsConn
<1>4. On(c, k) /\ \A r \in Conns : On(c, r) => r = k BY <1>1, <1>3 DEF On, ScopePC
<1>5. CASE Finish(c, "failed")
  <2>1. /\ pc'[c] = "drain" /\ scope'[c].outcome = "failed"
        /\ scope'[c].phase = scope[c].phase
        /\ scope'[c].started = scope[c].started /\ scope'[c].completed = scope[c].completed
    BY <1>0, <1>5, FinishStages
  <2>2. Staged(c)' BY <2>1 DEF Staged, Asking, AtControl
  <2>3. \A r \in Conns : BegunOn(c, r)' <=> BegunOn(c, r)
    BY <1>1, <1>2, <2>1 DEF BegunOn, Begun, OnTx, On, ScopePC
  <2> QED BY <1>1, <1>2, <2>1, <2>2, <2>3, ScopeCalm
<1>6. ASSUME NEW p, NextControl(c, p), IsTx(c), scope[c].started, ~scope[c].completed,
             p \notin Starting, IsNested(c) <=> p \notin Fast
      PROVE  Works(c)
  <2>1. /\ pc'[c] = "announce" /\ scope'[c].phase = p
        /\ scope'[c].started = scope[c].started /\ scope'[c].completed = scope[c].completed
    BY <1>0, <1>6, NextStages
  <2>2. SameClosure(c) BY <1>0, <1>6, NextControlKeeps
  <2>3. IsNested(c)' <=> IsNested(c) BY <1>0, <1>1, <2>2, SameNested DEF ScopePC
  <2>4. Staged(c)' BY <1>6, <2>1, <2>3 DEF Staged, Asking, AtControl
  <2>5. \A r \in Conns : BegunOn(c, r)' <=> BegunOn(c, r)
    BY <1>1, <1>2, <2>1 DEF BegunOn, Begun, OnTx, On, ScopePC
  <2> QED BY <1>1, <1>2, <2>1, <2>4, <2>5, ScopeCalm
<1>7. CASE /\ scope[c].outcome = "ok" /\ IsTx(c)
           /\ NextControl(c, IF IsNested(c) THEN "release" ELSE "commit")
  <2>1. PICK p : p = IF IsNested(c) THEN "release" ELSE "commit" OBVIOUS
  <2>2. p \notin Starting /\ (IsNested(c) <=> p \notin Fast) BY <2>1 DEF Starting, Fast
  <2>3. scope[c].started /\ ~scope[c].completed BY <1>0, <1>1, <1>7 DEF Staged
  <2> QED BY <1>6, <1>7, <2>1, <2>2, <2>3
<1>8. CASE /\ MustUndo(c)
           /\ NextControl(c, IF IsNested(c) THEN "rollback-to" ELSE "rollback")
  <2>1. PICK p : p = IF IsNested(c) THEN "rollback-to" ELSE "rollback" OBVIOUS
  <2>2. p \notin Starting /\ (IsNested(c) <=> p \notin Fast) BY <2>1 DEF Starting, Fast
  <2> QED BY <1>6, <1>8, <2>1, <2>2 DEF MustUndo
<1>9. CASE /\ ~MustUndo(c) /\ Goto(c, "finalize") /\ scope' = scope
  <2>1. pc'[c] = "finalize" BY <1>0, <1>9 DEF Goto, TypeOK
  <2>2. IsTx(c) => ~scope[c].started \/ scope[c].completed \/ k \in poisoned
    BY <1>3, <1>9 DEF MustUndo, IsHealthy
  <2>3. IsTx(c) => ~Begun(c)' \/ k \in poisoned BY <1>9, <2>2 DEF Begun
  <2>4. Staged(c)' BY <1>1, <1>2, <1>3, <2>1, <2>3 DEF Staged, Asking, AtControl
  <2>5. ASSUME NEW r \in Conns
        PROVE  \/ BegunOn(c, r)' <=> BegunOn(c, r)
               \/ pc[c] # "body" /\ On(c, r) /\ r \in poisoned
    <3>1. CASE r # k BY <1>1, <1>3, <3>1 DEF BegunOn, OnTx, On
    <3>2. CASE r = k /\ k \in poisoned BY <1>1, <1>4, <3>2
    <3>3. CASE k \notin poisoned
      <4>1. IsTx(c) => ~Begun(c) /\ ~Begun(c)' BY <1>9, <2>2, <3>3 DEF Begun
      <4> QED BY <1>2, <4>1 DEF BegunOn, OnTx
    <3> QED BY <3>1, <3>2, <3>3
  <2> QED BY <1>1, <1>2, <2>1, <2>4, <2>5, ScopeCalm
<1> QED BY <1>5, <1>7, <1>8, <1>9 DEF Finished

LEMMA FinalizeWorks ==
  ASSUME SInv, NEW c \in Calls, Advance(c), Frame(c), Nests(c), Finalize(c)
  PROVE  Works(c)
<1>0. TypeOK /\ Staged(c) /\ Local(c) BY DEF SInv, CInv, NInv, JInv, IInv
<1>1. /\ pc[c] = "finalize" /\ UNCHANGED <<req, conn, turns, open, poisoned>>
      /\ pc'[c] \in Settled \cup {"releasing"}
  BY <1>0, FinalizeFacts DEF Finalize
<1>2. ~Statement(c) /\ ~Statement(c)' BY <1>0, <1>1 DEF Local, ScopePC, Statement
<1>3. Staged(c)' BY <1>1 DEF Staged, Asking, AtControl, Settled
<1>4. ASSUME NEW r \in Conns
      PROVE  \/ BegunOn(c, r)' <=> BegunOn(c, r)
             \/ pc[c] # "body" /\ On(c, r) /\ r \in poisoned
  <2>1. ~BegunOn(c, r)' BY <1>1 DEF BegunOn, OnTx, On, ScopePC, Settled
  <2>2. ASSUME BegunOn(c, r) PROVE On(c, r) /\ r \in poisoned
    BY <1>0, <1>1, <2>2, ScopeConstants DEF BegunOn, OnTx, On, Staged
  <2> QED BY <1>1, <2>1, <2>2
<1>5. pc'[c] \notin {"turn", "driver"} BY <1>1 DEF Settled
<1> QED BY <1>1, <1>2, <1>3, <1>4, <1>5, ScopeCalm

-----------------------------------------------------------------------------
(* What an answered control statement tells the runtime. *)
LEMMA ControlStages ==
  ASSUME TypeOK, NEW c \in Calls, Control(c)
  PROVE  /\ SameClosure(c) /\ pc'[c] = "announced" /\ scope'[c].phase = scope[c].phase
         /\ UNCHANGED <<req, conn>> /\ turns' = [turns EXCEPT ![conn[c]] = Tail(@)]
         /\ \/ /\ \E s \in Effects(c, open[conn[c]]) : open' = [open EXCEPT ![conn[c]] = s]
               /\ scope'[c].started = (scope[c].started \/ scope[c].phase \in Starting)
               /\ scope'[c].completed
                    = (scope[c].completed \/ scope[c].phase \in {"commit", "release"})
               /\ poisoned' = poisoned
            \/ /\ \E s : open' = [open EXCEPT ![conn[c]] = s]
               /\ scope'[c].started = scope[c].started
               /\ scope'[c].completed = scope[c].completed
               /\ scope'[c].outcome = "failed"
               /\ poisoned' = poisoned \cup {conn[c]}
<1>0. PICK k : k = conn[c] OBVIOUS
<1>1. /\ pc'[c] = "announced" /\ UNCHANGED <<req, conn>>
      /\ turns' = [turns EXCEPT ![conn[c]] = Tail(@)]
  BY DEF Control, Goto, TypeOK
<1>2. PICK a, b : /\ a = (scope[c].started \/ scope[c].phase \in {"begin", "savepoint"})
                  /\ b = (scope[c].completed \/ scope[c].phase \in {"commit", "release"})
  OBVIOUS
<1>3. CASE /\ \E s \in Effects(c, open[k]) : open' = [open EXCEPT ![k] = s]
           /\ SetScope(c, [scope[c] EXCEPT !.started = a, !.completed = b])
           /\ poisoned' = poisoned
  <2>1. PICK t : t = [scope[c] EXCEPT !.started = a, !.completed = b] OBVIOUS
  <2>2. /\ t.started = a /\ t.completed = b /\ t.phase = scope[c].phase
        /\ t.txScope = scope[c].txScope /\ t.prev = scope[c].prev
        /\ t.rootPrev = scope[c].rootPrev
    BY <2>1 DEF TypeOK, Scope
  <2>3. SetScope(c, t) BY <1>3, <2>1
  <2>4. SameClosure(c) /\ scope'[c] = t BY <2>2, <2>3, ClosureKeeps, SparesSet
  <2> QED BY <1>0, <1>1, <1>2, <1>3, <2>2, <2>4 DEF Starting
<1>4. CASE /\ \E s \in {open[k]} \cup Effects(c, open[k]) : open' = [open EXCEPT ![k] = s]
           /\ SetScope(c, [scope[c] EXCEPT !.outcome = "failed"])
           /\ poisoned' = poisoned \cup {k}
  <2>1. PICK t : t = [scope[c] EXCEPT !.outcome = "failed"] OBVIOUS
  <2>2. /\ t.started = scope[c].started /\ t.completed = scope[c].completed
        /\ t.phase = scope[c].phase /\ t.outcome = "failed"
        /\ t.txScope = scope[c].txScope /\ t.prev = scope[c].prev
        /\ t.rootPrev = scope[c].rootPrev
    BY <2>1 DEF TypeOK, Scope
  <2>3. SetScope(c, t) BY <1>4, <2>1
  <2>4. SameClosure(c) /\ scope'[c] = t BY <2>2, <2>3, ClosureKeeps, SparesSet
  <2> QED BY <1>0, <1>1, <1>4, <2>2, <2>4
<1>5. [scope[c] EXCEPT !.started = @ \/ scope[c].phase \in {"begin", "savepoint"},
                       !.completed = @ \/ scope[c].phase \in {"commit", "release"}]
        = [scope[c] EXCEPT !.started = a, !.completed = b]
  BY <1>2 DEF TypeOK, Scope
<1> QED BY <1>0, <1>3, <1>4, <1>5 DEF Control

(* The place of c in a stack that has it on top, and nowhere else. *)
LEMMA TopPlace ==
  ASSUME NEW s \in Seq(Calls), NEW c \in Calls, s # <<>>, s[Len(s)] = c,
         \A i \in 1..Len(s) : s[i] = c => i = Len(s)
  PROVE  /\ Contains(s, c) /\ (CHOOSE i \in 1..Len(s) : s[i] = c) = Len(s)
         /\ SubSeq(s, 1, Len(s)) = s
<1>1. PICK n \in Nat : n = Len(s) OBVIOUS
<1>2. n \in 1..n BY <1>1
<1>3. Contains(s, c) BY <1>1, <1>2 DEF Contains
<1>4. (CHOOSE i \in 1..n : s[i] = c) = n BY <1>1, <1>2
<1> QED BY <1>1, <1>3, <1>4

(* The stack a control statement leaves. *)
LEMMA EffectsStack ==
  ASSUME SInv, NEW c \in Calls, NEW k \in Conns, conn[c] = k, pc[c] = "driver",
         NEW s \in Effects(c, open[k])
  PROVE  /\ scope[c].phase \in Starting => s = Append(open[k], c)
         /\ scope[c].phase \in {"commit", "rollback", "release", "discard-savepoint"} =>
              /\ open[k] # <<>> /\ open[k][Len(open[k])] = c
              /\ s = SubSeq(open[k], 1, Len(open[k]) - 1)
         /\ scope[c].phase = "rollback-to" => s = open[k]
<1>0. /\ TypeOK /\ NInv /\ JInv /\ Stacked(k) /\ open[k] \in Seq(Calls) /\ Kin(c)
  BY DEF SInv, CInv, NInv, JInv, IInv, TypeOK, Whole
<1>1. PICK q \in Seq(Calls) : q = open[k] BY <1>0
<1>2. /\ On(c, k) /\ IsTx(c) /\ Trusted(k)
      /\ scope[c].phase = "begin" => q = <<>>
      /\ scope[c].phase \in {"commit", "rollback"} => q = <<c>>
      /\ scope[c].phase \in {"release", "rollback-to", "discard-savepoint"} =>
           q # <<>> /\ q[Len(q)] = c
  BY <1>1, DriverStack
<1>3. CASE scope[c].phase = "begin"
  <2>1. s = <<c>> BY <1>1, <1>2, <1>3 DEF Effects
  <2>2. Append(q, c) = <<c>> BY <1>2, <1>3
  <2> QED BY <1>1, <1>3, <2>1, <2>2
<1>4. CASE scope[c].phase = "savepoint" BY <1>4 DEF Effects
<1>5. CASE scope[c].phase \in {"commit", "rollback"}
  <2>1. s = <<>> BY <1>5 DEF Effects
  <2>2. q = <<c>> /\ q # <<>> /\ Len(q) = 1 /\ q[1] = c /\ SubSeq(q, 1, 0) = <<>>
    BY <1>2, <1>5
  <2> QED BY <1>1, <1>5, <2>1, <2>2 DEF Starting
<1>6. CASE scope[c].phase \in {"release", "rollback-to", "discard-savepoint"}
  <2>1. q # <<>> /\ q[Len(q)] = c BY <1>2, <1>6
  <2>2. PICK n \in Nat \ {0} : n = Len(q) BY <2>1
  <2>3. ASSUME NEW i \in 1..n, q[i] = c, i # n PROVE FALSE
    <3>1. i < n /\ n \in 1..n BY <2>3
    <3>2. c \in req[c].caller BY <1>0, <1>1, <1>2, <2>1, <2>2, <2>3, <3>1 DEF Stacked
    <3> QED BY <1>0, <3>2 DEF Kin
  <2>4. /\ Contains(q, c) /\ (CHOOSE i \in 1..Len(q) : q[i] = c) = Len(q)
        /\ SubSeq(q, 1, Len(q)) = q
    BY <2>1, <2>2, <2>3, TopPlace
  <2>5. CASE scope[c].phase = "rollback-to"
    BY <1>1, <2>4, <2>5 DEF Effects, Starting
  <2>6. CASE scope[c].phase \in {"release", "discard-savepoint"}
    BY <1>1, <2>1, <2>4, <2>6 DEF Effects, Starting
  <2> QED BY <1>6, <2>5, <2>6
<1> QED BY <1>3, <1>4, <1>5, <1>6, <1>0 DEF TypeOK, Scope, Phase, Starting

LEMMA ControlWorks ==
  ASSUME SInv, NEW c \in Calls, Advance(c), Frame(c), Nests(c), Control(c)
  PROVE  Works(c)
<1>0. /\ TypeOK /\ NInv /\ JInv /\ Local(c) /\ Staged(c)
      /\ scope[c].phase \in Phase /\ scope[c] \in Scope
  BY DEF SInv, CInv, NInv, JInv, IInv, TypeOK, Scope
<1>1. pc[c] = "driver" BY DEF Control
<1>2. PICK k \in Conns : k = conn[c] BY <1>0, <1>1 DEF Local, NeedsConn
<1>3. /\ On(c, k) /\ IsTx(c) /\ Trusted(k) /\ (BegunOn(c, k) <=> scope[c].phase \notin Starting)
  BY <1>1, <1>2, DriverStack
<1>4. /\ SameClosure(c) /\ pc'[c] = "announced" /\ scope'[c].phase = scope[c].phase
      /\ UNCHANGED <<req, conn>> /\ turns' = [turns EXCEPT ![k] = Tail(@)]
      /\ \E s : open' = [open EXCEPT ![k] = s]
  BY <1>0, <1>2, ControlStages
<1>5. /\ (IsNested(c)' <=> IsNested(c)) /\ IsTx(c)' /\ On(c, k)'
  BY <1>0, <1>1, <1>2, <1>3, <1>4, SameNested DEF ScopePC, On
<1>6. /\ ~scope[c].completed /\ (scope[c].started <=> scope[c].phase \notin Starting)
      /\ IsNested(c) <=> scope[c].phase \notin Fast
  BY <1>0, <1>1 DEF Staged, Asking, AtControl
<1>7. \A r \in Conns \ {k} : open'[r] = open[r] /\ ~BegunOn(c, r) /\ ~BegunOn(c, r)'
  BY <1>0, <1>2, <1>4 DEF TypeOK, BegunOn, OnTx, On
<1>8. \A d \in Calls \ {c} : pc'[d] = pc[d] /\ \A r \in Conns : On(d, r)' <=> On(d, r)
  BY <1>0, OthersRest DEF Rests, Nests
<1>9. poisoned' = poisoned \/ poisoned' = poisoned \cup {k}
  BY <1>0, <1>2, ControlStages
<1>10. \A r \in Conns : Trusted(r)' => Trusted(r)
  BY <1>4, <1>8, <1>9 DEF Trusted
<1>11. \A r \in Conns \ {k} : Stacks(c, r) BY <1>7, <1>10 DEF Stacks
<1>12. \A r \in Conns : Queues(c, r)
  <2>1. HasTurn(c) BY <1>0, <1>1 DEF Local, HoldsTurn
  <2> QED BY <1>0, <1>2, <1>4, <2>1, LeaveQueues DEF QueuePC, InUse
<1>13. Staged(c)' /\ Stacks(c, k)
  <2>1. CASE /\ \E s \in Effects(c, open[k]) : open' = [open EXCEPT ![k] = s]
             /\ scope'[c].started = (scope[c].started \/ scope[c].phase \in Starting)
             /\ scope'[c].completed
                  = (scope[c].completed \/ scope[c].phase \in {"commit", "release"})
    <3>1. Staged(c)'
      BY <1>4, <1>5, <1>6, <2>1 DEF Staged, Asking, AtControl, Starting
    <3>2. PICK s \in Effects(c, open[k]) : open'[k] = s BY <1>0, <2>1 DEF TypeOK
    <3>3. Begun(c)' <=> scope[c].phase \notin {"commit", "release", "rollback", "discard-savepoint"}
      BY <1>4, <1>6, <2>1 DEF Begun, Starting
    <3>4. BegunOn(c, k)' <=> Begun(c)' BY <1>5 DEF BegunOn, OnTx
    <3>5. CASE scope[c].phase \in Starting
      <4>1. s = Append(open[k], c) BY <1>1, <1>2, <3>5, EffectsStack
      <4>2. ~BegunOn(c, k) /\ BegunOn(c, k)' BY <1>3, <3>3, <3>4, <3>5 DEF Starting
      <4>3. Pushes(c, k) BY <1>1, <1>2, <3>2, <4>1, <4>2 DEF Pushes
      <4> QED BY <1>3, <3>1, <4>3 DEF Stacks
    <3>6. CASE scope[c].phase \in {"commit", "rollback", "release", "discard-savepoint"}
      <4>1. /\ open[k] # <<>> /\ open[k][Len(open[k])] = c
            /\ s = SubSeq(open[k], 1, Len(open[k]) - 1)
        BY <1>1, <1>2, <3>6, EffectsStack
      <4>2. ~BegunOn(c, k)' BY <3>3, <3>4, <3>6
      <4>3. Pops(c, k) BY <1>1, <1>2, <3>2, <4>1, <4>2 DEF Pops
      <4> QED BY <1>3, <3>1, <4>3 DEF Stacks
    <3>7. CASE scope[c].phase = "rollback-to"
      <4>1. s = open[k] BY <1>1, <1>2, <3>7, EffectsStack
      <4>2. BegunOn(c, k) /\ BegunOn(c, k)' BY <1>3, <3>3, <3>4, <3>7 DEF Starting
      <4> QED BY <1>3, <3>1, <3>2, <4>1, <4>2 DEF Stacks
    <3> QED BY <1>0, <3>5, <3>6, <3>7 DEF Phase, Starting
  <2>2. CASE /\ scope'[c].started = scope[c].started
             /\ scope'[c].completed = scope[c].completed
             /\ scope'[c].outcome = "failed"
             /\ poisoned' = poisoned \cup {k}
    <3>1. Staged(c)'
      BY <1>4, <1>5, <1>6, <2>2 DEF Staged, Asking, AtControl, Starting
    <3>2. ASSUME Trusted(k)' PROVE FALSE
      <4>1. PICK d \in Calls : On(d, k)' /\ pc'[d] \in {"turn", "driver"}
        BY <2>2, <3>2 DEF Trusted
      <4>2. d # c BY <1>4, <4>1
      <4>3. On(d, k) /\ pc[d] # "body" BY <1>8, <4>1, <4>2
      <4> QED BY <1>0, <1>1, <1>3, <4>2, <4>3, OnlyOne
    <3> QED BY <3>1, <3>2 DEF Stacks
  <2> QED BY <1>0, <1>2, <2>1, <2>2, ControlStages
<1>14. \A r \in Conns : open'[r] # open[r] => Touches(c, r)
  BY <1>1, <1>2, <1>7 DEF Touches
<1>15. Admitted(c) /\ poisoned \subseteq poisoned' BY <1>4, <1>9 DEF Admitted
<1> QED BY <1>4, <1>11, <1>12, <1>13, <1>14, <1>15 DEF Works

-----------------------------------------------------------------------------
LEMMA LeadWorks ==
  ASSUME SInv, NEW c \in Calls, Advance(c), Frame(c), Nests(c), Paces(c),
         Lead(c) \/ Return(c) \/ Yield(c) \/ Exhaust(c) \/ Pull(c) \/ Stop(c)
  PROVE  Works(c)
  BY LeaseWorks, QuietWorks, GrantTurnWorks, GrantTailWorks, AcquireWorks, EndWorks,
     ReleaseWorks, LeaseTxWorks, GrantTxWorks, AcquireTxWorks, GrantSessionWorks,
     AcquireSessionWorks, AnnounceWorks, TurnWorks, ControlWorks, AnnouncedWorks,
     DrainWorks, FinishedWorks, FinalizeWorks, ReturnWorks, RowWorks
     DEF Lead

LEMMA ActsWorks ==
  ASSUME SInv, Orderly, NEW c \in Calls, Acts(c)
  PROVE  Advance(c) /\ Frame(c) /\ Nests(c) /\ Steps(c) /\ Paces(c) /\ Works(c)
<1>1. Advance(c) /\ Frame(c) /\ Nests(c) /\ Steps(c) /\ Paces(c) BY ActsSteps DEF SInv
<1>2. CASE Lead(c) \/ Return(c) \/ Yield(c) \/ Exhaust(c) \/ Pull(c) \/ Stop(c)
  BY <1>1, <1>2, LeadWorks
<1>3. ASSUME NEW caller \in SUBSET Calls, NEW h \in Calls \cup {Root}, Around(caller),
             \/ Execute(c, h, caller) \/ Stream(c, h, caller)
             \/ Tx(c, h, caller) \/ Session(c, h, caller)
      PROVE  Works(c)
  BY <1>1, <1>3, MadeWorks, TxWorks, SessionWorks
<1> QED BY <1>1, <1>2, <1>3 DEF Acts

LEMMA IdleStacks ==
  ASSUME SInv, UNCHANGED vars
  PROVE  SInv'
<1>1. CInv' BY IdleKeeps DEF SInv
<1>2. UNCHANGED <<req, pc, conn, scope, turns, poisoned, open>> BY DEF vars
<1>3. \A c, k : /\ On(c, k)' <=> On(c, k)
                /\ BegunOn(c, k)' <=> BegunOn(c, k)
                /\ Begun(c)' <=> Begun(c)
                /\ IsTx(c)' <=> IsTx(c)
                /\ IsNested(c)' <=> IsNested(c)
                /\ Statement(c)' <=> Statement(c)
                /\ Waiting(c, k)' <=> Waiting(c, k)
                /\ ScopeOf(c)' = ScopeOf(c)
                /\ Innermost(k)' = Innermost(k)
  BY <1>2 DEF On, OnTx, BegunOn, Begun, IsTx, IsNested, InTransaction, Statement, Waiting,
              ScopeOf, Innermost
<1>4. ASSUME NEW k \in Conns PROVE Stacked(k)' /\ Queued(k)'
  <2>1. Trusted(k)' => Trusted(k) BY <1>2, <1>3 DEF Trusted
  <2> QED BY <1>2, <1>3, <2>1 DEF SInv, Stacked, Queued
<1>5. ASSUME NEW c \in Calls PROVE Staged(c)' /\ Within(c)' /\ Hopes(c)'
  <2>1. Staged(c)' BY <1>2, <1>3 DEF SInv, Staged
  <2>2. Within(c)' BY <1>2, <1>3 DEF SInv, Within, Innermost, ScopeOf
  <2>3. Hopes(c)' BY <1>2, <1>3 DEF SInv, Hopes
  <2> QED BY <2>1, <2>2, <2>3
<1> QED BY <1>1, <1>4, <1>5 DEF SInv

LEMMA NextStacks ==
  ASSUME SInv, Orderly, [Next]_vars
  PROVE  SInv'
<1>1. UNCHANGED vars \/ \E c \in Calls : Acts(c) BY NextActs DEF SInv, CInv, NInv
<1> QED BY <1>1, IdleStacks, ActsWorks, WorksKeep

(* The stack of a database is the transactions that have begun there, the   *)
(* inner ones above the outer, for as long as the runtime trusts what it    *)
(* has been told: tx and its control statements, in whatever order they are *)
(* answered or fail, keep the runtime's account and the database in step.   *)
THEOREM StacksInductive == Orderly => (Spec => []SInv)
<1> SUFFICES ASSUME Orderly PROVE Spec => []SInv OBVIOUS
<1>1. Init => SInv BY InitStacks
<1>2. SInv /\ [Next]_vars => SInv' BY NextStacks
<1> QED BY <1>1, <1>2, PTL DEF Spec

(* InOwnTransaction, for every number of calls and resources: a statement   *)
(* runs in the transaction of the handle it was made on and in no other,    *)
(* and a control statement finds the stack its scope expects.               *)
THEOREM OwnTransactionHolds == Orderly => (Spec => []InOwnTransaction)
<1>1. SInv => InOwnTransaction BY OwnTransaction
<1> QED BY <1>1, StacksInductive, PTL

(* CleanReturn, for every number of calls and resources: a settled tx left  *)
(* nothing open on a resource that lives on, and a resource nobody holds is *)
(* poisoned or has no transaction, no waiting call, no marker and no stream *)
(* on its way: what the finally blocks of tx and session are for.           *)
THEOREM CleanReturnHolds == Orderly => (Spec => []CleanReturn)
<1>1. SInv => CleanReturn BY CleanReturned
<1> QED BY <1>1, StacksInductive, PTL
=============================================================================
