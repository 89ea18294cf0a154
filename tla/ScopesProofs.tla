---------------------------- MODULE ScopesProofs ----------------------------
(***************************************************************************)
(* Type correctness and Ownership of Scopes, and then (second part) who    *)
(* holds a connection: for any number of calls and resources, pooled or    *)
(* not, in a browser or not, and whatever may fail.                        *)
(*                                                                         *)
(* Ownership is not inductive by itself. IInv adds where a call has a      *)
(* resource, of which kind the call at each label is, that a handle in use *)
(* belongs to a callback that runs or to a scope that is closed for good,  *)
(* and that a scope is opened only by a callback that waits for it. Every  *)
(* action is a step of one call c, so each lemma XStep shows that X(c)     *)
(* advances c (Advance), and AdvanceKeeps that this preserves IInv.        *)
(***************************************************************************)
EXTENDS Scopes, TLAPS, SequenceTheorems, FiniteSetTheorems

(* Labels at which a call has a resource, belongs to a scope, belongs to a  *)
(* statement, and those a scope passes after its callback.                  *)
NeedsConn   == {"queued", "running", "suspended", "closing", "announce", "turn",
                "driver", "announced", "body", "drain", "tail", "releasing"}
ScopePC     == {"announce", "turn", "driver", "announced", "body", "drain",
                "tail", "finalize"}
StatementPC == {"running", "suspended", "closing", "closed"}
Later       == {"drain", "tail", "announce", "turn", "driver", "announced",
                "finalize", "releasing"} \cup Settled

(* What holds of a call by itself. *)
Local(c) ==
    /\ pc[c] \in NeedsConn => conn[c] \in Conns
    /\ pc[c] \in {"unborn", "ready", "acquiring"} => conn[c] = None
    /\ pc[c] = "acquiring" => Pooled /\ req[c].via = Root
    /\ pc[c] \in ScopePC => ~Statement(c)
    /\ pc[c] \in StatementPC => Statement(c)
    /\ pc[c] \in {"drain", "tail"} => scope[c].closed
    /\ HoldsTurn(c) => HasTurn(c)
    /\ HoldsTail(c) => HasTail(c)

(* The callback of h runs, or h is closed and will not be opened again. *)
Opened(h) ==
    /\ ~Statement(h)
    /\ pc[h] = "body" \/ (scope[h].closed /\ pc[h] \in Later)

(* What holds of a call and the handle it was made on. *)
Handles(c) ==
    pc[c] # "unborn" /\ req[c].via # Root =>
        /\ Opened(req[c].via)
        /\ ~Statement(c) /\ ~IsDone(c) =>
             pc[req[c].via] = "body" /\ req[c].via \in req[c].caller

(* The inductive invariant. *)
IInv == TypeOK /\ \A c \in Calls : Local(c) /\ Handles(c)

(* Only c joins a queue, at its end, and only c leaves it, from its head. *)
QueueStep(q, r, c) ==
    \A k \in Conns : \/ r[k] = q[k]
                     \/ r[k] = Append(q[k], c)
                     \/ q[k] # <<>> /\ Head(q[k]) = c /\ r[k] = Tail(q[k])

(* What a step of c leaves alone, and what it does to the queues. *)
Moves(c) ==
    /\ \A d \in Calls \ {c} :
         /\ req'[d] = req[d] /\ pc'[d] = pc[d]
         /\ conn'[d] = conn[d] \/ pc[d] = "closed"
         /\ scope'[d].closed = scope[d].closed
    /\ QueueStep(tail, tail', c) /\ QueueStep(turns, turns', c)

(* All that a step of c has to be shown to do. *)
Advance(c) ==
    /\ TypeOK' /\ Moves(c) /\ Local(c)'
    /\ Opened(c) => Opened(c)'
    /\ pc[c] = "body" => Awaited(c)
    /\ \/ pc[c] # "unborn" /\ ~IsDone(c) /\ req'[c] = req[c]
       \/ req'[c].via # Root =>
            /\ Opened(req'[c].via)
            /\ (~Statement(c) /\ ~IsDone(c))' =>
                 pc[req'[c].via] = "body" /\ req'[c].via \in req'[c].caller \ {c}

LEMMA QueueOthers ==
  ASSUME NEW q \in Seq(Calls), NEW r, NEW c \in Calls, NEW d \in Calls, d # c,
         q # <<>>, Head(q) = d,
         r = q \/ r = Append(q, c) \/ (Head(q) = c /\ r = Tail(q))
  PROVE  r # <<>> /\ Head(r) = d
  OBVIOUS

LEMMA AdvanceKeeps ==
  ASSUME IInv, NEW c \in Calls, Advance(c)
  PROVE  IInv'
<1>1. ASSUME NEW d \in Calls, d # c PROVE Local(d)'
  <2>0. /\ TypeOK /\ TypeOK' /\ Local(d) /\ req'[d] = req[d] /\ pc'[d] = pc[d]
        /\ conn'[d] = conn[d] \/ pc[d] = "closed"
        /\ scope'[d].closed = scope[d].closed
    BY <1>1 DEF IInv, Advance, Moves
  <2>1. /\ pc'[d] \in NeedsConn => conn'[d] \in Conns
        /\ pc'[d] \in {"unborn", "ready", "acquiring"} => conn'[d] = None
        /\ pc'[d] = "acquiring" => Pooled /\ req'[d].via = Root
        /\ (pc[d] \in ScopePC => ~Statement(d))'
        /\ (pc[d] \in StatementPC => Statement(d))'
        /\ pc'[d] \in {"drain", "tail"} => scope'[d].closed
    BY <2>0 DEF Local, NeedsConn, Statement
  <2>2. ASSUME HoldsTurn(d)' PROVE HasTurn(d)'
    <3>1. HoldsTurn(d) /\ conn'[d] = conn[d] /\ conn[d] \in Conns
      BY <2>0, <2>2 DEF HoldsTurn, Local, NeedsConn
    <3>2. HasTurn(d) BY <2>0, <3>1 DEF Local
    <3>3. turns \in [Conns -> Seq(Calls)] /\ QueueStep(turns, turns', c)
      BY <2>0 DEF TypeOK, Advance, Moves
    <3>4. turns[conn[d]] # <<>> /\ Head(turns[conn[d]]) = d BY <3>2 DEF HasTurn
    <3>5. \/ turns'[conn[d]] = turns[conn[d]]
          \/ turns'[conn[d]] = Append(turns[conn[d]], c)
          \/ Head(turns[conn[d]]) = c /\ turns'[conn[d]] = Tail(turns[conn[d]])
      BY <3>1, <3>3 DEF QueueStep
    <3>6. turns'[conn[d]] # <<>> /\ Head(turns'[conn[d]]) = d
      BY <1>1, <3>1, <3>3, <3>4, <3>5, QueueOthers
    <3> QED BY <3>1, <3>6 DEF HasTurn
  <2>3. ASSUME HoldsTail(d)' PROVE HasTail(d)'
    <3>1. HoldsTail(d) /\ conn'[d] = conn[d] /\ conn[d] \in Conns
      <4>1. CASE pc[d] \in {"running", "suspended", "closing"}
        BY <2>0, <2>3, <4>1 DEF HoldsTail, Local, NeedsConn
      <4>2. CASE pc[d] \notin {"running", "suspended", "closing"}
        <5>1. Entered(d)' BY <2>0, <2>3, <4>2 DEF HoldsTail
        <5>2. ~Statement(d) /\ conn'[d] # None
          BY <2>0, <5>1 DEF Entered, IsTx, IsSession, Statement
        <5>3. pc[d] # "closed" BY <2>0, <5>2 DEF Local, StatementPC
        <5>4. conn'[d] = conn[d] /\ conn[d] \in Conns BY <2>0, <5>2, <5>3 DEF TypeOK
        <5>5. Entered(d)
          BY <2>0, <5>1, <5>4 DEF Entered, IsTx, IsSession, Unfinished, IsDone
        <5> QED BY <2>0, <2>3, <5>4, <5>5 DEF HoldsTail
      <4> QED BY <4>1, <4>2
    <3>2. HasTail(d) BY <2>0, <3>1 DEF Local
    <3>3. tail \in [Conns -> Seq(Calls)] /\ QueueStep(tail, tail', c)
      BY <2>0 DEF TypeOK, Advance, Moves
    <3>4. tail[conn[d]] # <<>> /\ Head(tail[conn[d]]) = d BY <3>2 DEF HasTail
    <3>5. \/ tail'[conn[d]] = tail[conn[d]]
          \/ tail'[conn[d]] = Append(tail[conn[d]], c)
          \/ Head(tail[conn[d]]) = c /\ tail'[conn[d]] = Tail(tail[conn[d]])
      BY <3>1, <3>3 DEF QueueStep
    <3>6. tail'[conn[d]] # <<>> /\ Head(tail'[conn[d]]) = d
      BY <1>1, <3>1, <3>3, <3>4, <3>5, QueueOthers
    <3> QED BY <3>1, <3>6 DEF HasTail
  <2> QED BY <2>1, <2>2, <2>3 DEF Local
<1>2. ASSUME NEW h \in Calls, Opened(h) PROVE Opened(h)'
  BY <1>2 DEF Advance, Moves, Opened, Statement
<1>3. ASSUME NEW d \in Calls, pc[d] # "unborn", req[d].via # Root, ~Statement(d), ~IsDone(d)
      PROVE  pc'[req[d].via] = "body"
  <2>1. Handles(d) /\ req[d] \in Request BY DEF IInv, TypeOK
  <2>2. /\ pc[req[d].via] = "body" /\ req[d].via \in req[d].caller
        /\ req[d].via \in Calls /\ req[d].kind \in {"tx", "session"}
    BY <1>3, <2>1 DEF Handles, Request, Kind, Statement
  <2>3. req[d].via # c
    BY <1>3, <2>2 DEF Advance, Awaited
  <2> QED BY <2>2, <2>3 DEF Advance, Moves
<1>4. ASSUME NEW d \in Calls PROVE Handles(d)'
  <2>0. Handles(d) /\ TypeOK /\ TypeOK' BY DEF IInv, Advance
  <2>1. CASE pc[d] # "unborn" /\ req'[d] = req[d] /\ (IsDone(d) => IsDone(d)')
    <3>1. req[d].via \in Calls \cup {Root} BY <2>0 DEF TypeOK, Request
    <3> QED BY <2>0, <2>1, <3>1, <1>2, <1>3 DEF Handles, Statement
  <2>2. CASE d # c
    <3>1. req'[d] = req[d] /\ pc'[d] = pc[d] BY <2>2 DEF Advance, Moves
    <3> QED BY <2>1, <3>1 DEF Handles, IsDone
  <2>3. CASE d = c /\ ~(pc[c] # "unborn" /\ ~IsDone(c) /\ req'[c] = req[c])
    <3>1. req'[c].via \in Calls \cup {Root} BY <2>0 DEF TypeOK, Request
    <3> QED BY <2>3, <3>1, <1>2 DEF Handles, Advance, Moves
  <2> QED BY <2>1, <2>2, <2>3
<1> QED BY <1>1, <1>4 DEF IInv, Advance

LEMMA DirectIsConn == Direct \in Conns
  BY ScopeConstants DEF Direct

-----------------------------------------------------------------------------
(* The operators the actions are built from.                               *)

LEMMA Pop ==
  ASSUME NEW q \in [Conns -> Seq(Calls)], NEW k \in Conns, NEW c \in Calls,
         q[k] # <<>>, Head(q[k]) = c
  PROVE  /\ [q EXCEPT ![k] = Tail(@)] \in [Conns -> Seq(Calls)]
         /\ QueueStep(q, [q EXCEPT ![k] = Tail(@)], c)
<1>1. Tail(q[k]) \in Seq(Calls) OBVIOUS
<1> QED BY <1>1 DEF QueueStep

LEMMA Push ==
  ASSUME NEW q \in [Conns -> Seq(Calls)], NEW k \in Conns, NEW c \in Calls
  PROVE  /\ [q EXCEPT ![k] = Append(@, c)] \in [Conns -> Seq(Calls)]
         /\ QueueStep(q, [q EXCEPT ![k] = Append(@, c)], c)
<1>1. Append(q[k], c) \in Seq(Calls) OBVIOUS
<1> QED BY <1>1 DEF QueueStep

LEMMA Same ==
  ASSUME NEW q, NEW c
  PROVE  QueueStep(q, q, c)
  BY DEF QueueStep

LEMMA WithoutType ==
  ASSUME NEW s \in Seq(Calls), NEW c
  PROVE  Without(s, c) \in Seq(Calls)
<1>1. CASE \E i \in 1..Len(s) : s[i] = c
  <2> DEFINE i == CHOOSE j \in 1..Len(s) : s[j] = c
  <2>1. i \in 1..Len(s) BY <1>1
  <2>2. SubSeq(s, 1, i - 1) \in Seq(Calls) /\ SubSeq(s, i + 1, Len(s)) \in Seq(Calls)
    <3>1. /\ i - 1 \in 0..Len(s) /\ 1 \in 1..(Len(s) + 1)
          /\ i + 1 \in 1..(Len(s) + 1) /\ Len(s) \in i..Len(s)
      BY <2>1
    <3> HIDE DEF i
    <3> QED BY <2>1, <3>1, SubSeqProperties
  <2>3. Without(s, c) = SubSeq(s, 1, i - 1) \o SubSeq(s, i + 1, Len(s))
    BY <1>1 DEF Without, RemoveAt
  <2> HIDE DEF i
  <2> QED BY <2>2, <2>3
<1>2. CASE ~ \E i \in 1..Len(s) : s[i] = c
  BY <1>2 DEF Without
<1> QED BY <1>1, <1>2

LEMMA GotoFacts ==
  ASSUME TypeOK, NEW c \in Calls, NEW l \in PC, Goto(c, l)
  PROVE  /\ pc' \in [Calls -> PC] /\ pc'[c] = l
         /\ \A d \in Calls \ {c} : pc'[d] = pc[d]
  BY DEF TypeOK, Goto

LEMMA SetScopeFacts ==
  ASSUME TypeOK, NEW c \in Calls, NEW s \in Scope, SetScope(c, s)
  PROVE  /\ scope' \in [Calls -> Scope] /\ scope'[c] = s
         /\ \A d \in Calls \ {c} : scope'[d] = scope[d]
  BY DEF TypeOK, SetScope

LEMMA FinishFacts ==
  ASSUME TypeOK, NEW c \in Calls, NEW o \in {"ok", "failed"}, Finish(c, o)
  PROVE  /\ scope' \in [Calls -> Scope] /\ scope'[c].closed = TRUE
         /\ \A d \in Calls \ {c} : scope'[d] = scope[d]
         /\ pc' \in [Calls -> PC] /\ pc'[c] = "drain"
         /\ \A d \in Calls \ {c} : pc'[d] = pc[d]
<1> DEFINE s == [scope[c] EXCEPT
          !.closed = TRUE, !.drain = scope[c].streams,
          !.outcome = IF o = "ok" /\ scope[c].streams # <<>>
                        THEN "unclosed" ELSE o]
<1>1. scope[c] \in Scope BY DEF TypeOK
<1>2. s \in Scope /\ s.closed = TRUE BY <1>1 DEF Scope
<1>3. SetScope(c, s) /\ Goto(c, "drain") BY DEF Finish
<1> HIDE DEF s
<1> QED BY <1>2, <1>3, SetScopeFacts, GotoFacts DEF PC

LEMMA OutcomeFacts ==
  ASSUME TypeOK, NEW c \in Calls, NEW o \in {"ok", "failed"},
         scope' = [scope EXCEPT ![c].outcome = o]
  PROVE  /\ scope' \in [Calls -> Scope]
         /\ \A d \in Calls : scope'[d].closed = scope[d].closed
<1> DEFINE s == [scope[c] EXCEPT !.outcome = o]
<1>1. scope[c] \in Scope /\ scope' = [scope EXCEPT ![c] = s] BY DEF TypeOK
<1>2. s \in Scope /\ s.closed = scope[c].closed BY <1>1 DEF Scope
<1> HIDE DEF s
<1> QED BY <1>1, <1>2 DEF TypeOK

LEMMA LeaveStreamsFacts ==
  ASSUME TypeOK, NEW c \in Calls, LeaveStreams(c)
  PROVE  /\ scope' \in [Calls -> Scope]
         /\ \A d \in Calls : scope'[d].closed = scope[d].closed
<1> DEFINE h == req[c].via
<1>1. CASE IsStream(c) /\ h # Root
  <2>1. h \in Calls BY <1>1 DEF TypeOK, Request
  <2>2. scope[h] \in Scope BY <2>1 DEF TypeOK
  <2> DEFINE s == [scope[h] EXCEPT !.streams = Without(@, c)]
  <2>3. Without(scope[h].streams, c) \in Seq(Calls) BY <2>2, WithoutType DEF Scope
  <2>4. s \in Scope /\ s.closed = scope[h].closed BY <2>2, <2>3 DEF Scope
  <2>5. scope' = [scope EXCEPT ![h] = s] BY <1>1 DEF LeaveStreams
  <2> HIDE DEF s, h
  <2> QED BY <2>1, <2>4, <2>5 DEF TypeOK
<1>2. CASE ~(IsStream(c) /\ h # Root)
  BY <1>2 DEF LeaveStreams, TypeOK
<1> QED BY <1>1, <1>2

LEMMA MarkUpdate ==
  ASSUME NEW m \in Mark, NEW p \in Int, NEW u \in Int
  PROVE  [m EXCEPT !.pendingStreams = p, !.streamUsers = u] \in Mark
  BY DEF Mark

LEMMA AdmissionType ==
  ASSUME TypeOK, NEW k \in Conns \cup {None}, NEW p \in Int, NEW u \in Int,
         Admission(k, p, u)
  PROVE  mark' \in [Conns -> Mark]
<1>1. CASE k = None BY <1>1 DEF Admission, TypeOK
<1>2. CASE k # None
  <2> DEFINE pending == mark[k].pendingStreams + p
             users   == mark[k].streamUsers + u
             m == [mark[k] EXCEPT !.pendingStreams = pending, !.streamUsers = users]
  <2>1. k \in Conns /\ mark[k] \in Mark BY <1>2 DEF TypeOK
  <2>a. pending \in Int /\ users \in Int BY <2>1 DEF Mark
  <2>2. m \in Mark
    <3> HIDE DEF pending, users
    <3> QED BY <2>1, <2>a, MarkUpdate
  <2>3. mark' = [mark EXCEPT ![k] = m] BY <1>2, <2>1 DEF Admission, TypeOK, Mark
  <2> HIDE DEF m
  <2> QED BY <2>1, <2>2, <2>3 DEF TypeOK
<1> QED BY <1>1, <1>2

LEMMA StartFacts ==
  ASSUME TypeOK, NEW c \in Calls, NEW k \in Conns, Start(c, k)
  PROVE  /\ pc' \in [Calls -> PC] /\ pc'[c] = "running"
         /\ \A d \in Calls \ {c} : pc'[d] = pc[d]
         /\ conn' \in [Calls -> Conns \cup {None}] /\ conn'[c] = k
         /\ \A d \in Calls \ {c} : conn'[d] = conn[d]
         /\ mark' \in [Conns -> Mark]
<1>1. Goto(c, "running") /\ conn' = [conn EXCEPT ![c] = k] BY DEF Start
<1>2. mark' \in [Conns -> Mark]
  <2> DEFINE a == StateOf(req[c].via)
             pending(r) == IF r = a THEN mark[r].pendingStreams - 1
                                    ELSE mark[r].pendingStreams
             users(r)   == IF r = k THEN mark[r].streamUsers + 1
                                    ELSE mark[r].streamUsers
             m(r) == [mark[r] EXCEPT !.pendingStreams = pending(r),
                                     !.streamUsers    = users(r)]
  <2>1. ASSUME NEW r \in Conns PROVE m(r) \in Mark
    <3>1. mark[r] \in Mark BY DEF TypeOK
    <3>2. pending(r) \in Int /\ users(r) \in Int BY <3>1 DEF Mark
    <3> HIDE DEF pending, users
    <3> QED BY <3>1, <3>2, MarkUpdate
  <2>2. mark' = mark \/ mark' = [r \in Conns |-> m(r)] BY DEF Start
  <2> HIDE DEF m
  <2> QED BY <2>1, <2>2 DEF TypeOK
<1> QED BY <1>1, <1>2, GotoFacts DEF PC, TypeOK

LEMMA DiscardFacts ==
  ASSUME TypeOK, NEW c \in Calls, NEW k \in Conns, Discard(c, k)
  PROVE  /\ poisoned' \in SUBSET Conns /\ idle' \in SUBSET Conns
         /\ mark' \in [Conns -> Mark] /\ open' \in [Conns -> Seq(Calls)]
         /\ conn' \in [Calls -> Conns \cup {None}] /\ conn'[c] = None
         /\ \A d \in Calls \ {c} : conn'[d] = conn[d] \/ pc[d] = "closed"
<1>1. Fresh \in Mark BY DEF Fresh, Mark
<1>2. <<>> \in Seq(Calls) OBVIOUS
<1> QED BY <1>1, <1>2 DEF Discard, TypeOK

LEMMA StateOfType ==
  ASSUME TypeOK, NEW h \in Calls \cup {Root}
  PROVE  StateOf(h) \in Conns \cup {None}
  BY ScopeConstants DEF StateOf, Direct, TypeOK

LEMMA GiveBackFacts ==
  ASSUME TypeOK, NEW c \in Calls, conn[c] \in Conns, GiveBack(c),
         req[c].via # Root => HasTurn(c),
         req[c].via = Root /\ ~Pooled /\ ~Conservative => HasTail(c)
  PROVE  /\ tail' \in [Conns -> Seq(Calls)] /\ QueueStep(tail, tail', c)
         /\ turns' \in [Conns -> Seq(Calls)] /\ QueueStep(turns, turns', c)
         /\ mark' \in [Conns -> Mark]
<1>1. /\ tail \in [Conns -> Seq(Calls)] /\ turns \in [Conns -> Seq(Calls)]
      /\ mark \in [Conns -> Mark]
  BY DEF TypeOK
<1>2. tail' \in [Conns -> Seq(Calls)] /\ QueueStep(tail, tail', c)
  <2>1. CASE req[c].via = Root /\ ~Pooled /\ ~Conservative
    <3>1. tail' = [tail EXCEPT ![conn[c]] = Tail(@)] BY <2>1 DEF GiveBack
    <3> QED BY <1>1, <2>1, <3>1, Pop DEF HasTail
  <2>2. CASE ~(req[c].via = Root /\ ~Pooled /\ ~Conservative)
    <3>1. tail' = tail BY <2>2 DEF GiveBack
    <3> QED BY <1>1, <3>1, Same
  <2> QED BY <2>1, <2>2
<1>3. turns' \in [Conns -> Seq(Calls)] /\ QueueStep(turns, turns', c)
  <2>1. CASE req[c].via # Root
    <3>1. turns' = [turns EXCEPT ![conn[c]] = Tail(@)] BY <2>1 DEF GiveBack
    <3> QED BY <1>1, <2>1, <3>1, Pop DEF HasTurn
  <2>2. CASE req[c].via = Root
    <3>1. turns' = turns BY <2>2 DEF GiveBack
    <3> QED BY <1>1, <3>1, Same
  <2> QED BY <2>1, <2>2
<1>4. mark' \in [Conns -> Mark] BY <1>1 DEF GiveBack, Mark
<1> QED BY <1>2, <1>3, <1>4

LEMMA AbandonFacts ==
  ASSUME TypeOK, NEW c \in Calls, Abandon(c)
  PROVE  /\ pc' \in [Calls -> PC] /\ pc'[c] = "rejected"
         /\ \A d \in Calls \ {c} : pc'[d] = pc[d]
         /\ scope' \in [Calls -> Scope]
         /\ \A d \in Calls : scope'[d].closed = scope[d].closed
         /\ mark' \in [Conns -> Mark]
<1>1. Goto(c, "rejected") /\ LeaveStreams(c) BY DEF Abandon
<1>2. StateOf(req[c].via) \in Conns \cup {None}
  BY StateOfType DEF TypeOK, Request
<1>3. PICK n \in {-1, 0} : Admission(StateOf(req[c].via), n, 0)
  BY DEF Abandon
<1>4. mark' \in [Conns -> Mark] BY <1>2, <1>3, AdmissionType
<1> QED BY <1>1, <1>4, GotoFacts, LeaveStreamsFacts DEF PC, Settled

LEMMA TakeTurnFacts ==
  ASSUME TypeOK, NEW c \in Calls, NEW k \in Conns, TakeTurn(c, k)
  PROVE  /\ pc' \in [Calls -> PC] /\ pc'[c] = "turn"
         /\ \A d \in Calls \ {c} : pc'[d] = pc[d]
         /\ turns' \in [Conns -> Seq(Calls)] /\ QueueStep(turns, turns', c)
<1>1. Goto(c, "turn") /\ turns' = [turns EXCEPT ![k] = Append(@, c)] BY DEF TakeTurn
<1>2. turns \in [Conns -> Seq(Calls)] BY DEF TypeOK
<1> QED BY <1>1, <1>2, GotoFacts, Push DEF PC

LEMMA BeginFacts ==
  ASSUME TypeOK, NEW c \in Calls, NEW k \in Conns, Begin(c, k)
  PROVE  /\ conn' \in [Calls -> Conns \cup {None}] /\ conn'[c] = k
         /\ \A d \in Calls \ {c} : conn'[d] = conn[d]
         /\ pc' \in [Calls -> PC]
         /\ pc'[c] = "turn" \/ (pc'[c] = "drain" /\ scope'[c].closed)
         /\ \A d \in Calls \ {c} : pc'[d] = pc[d]
         /\ scope' \in [Calls -> Scope]
         /\ \A d \in Calls \ {c} : scope'[d].closed = scope[d].closed
         /\ turns' \in [Conns -> Seq(Calls)] /\ QueueStep(turns, turns', c)
<1>1. conn' = [conn EXCEPT ![c] = k] BY DEF Begin
<1>2. CASE TakeTurn(c, k) /\ UNCHANGED scope
  BY <1>1, <1>2, TakeTurnFacts DEF TypeOK
<1>3. CASE Finish(c, "failed") /\ UNCHANGED turns
  BY <1>1, <1>3, FinishFacts, Same DEF TypeOK
<1> QED BY <1>2, <1>3 DEF Begin

LEMMA NoResourceFacts ==
  ASSUME TypeOK, NEW c \in Calls, NoResource(c)
  PROVE  /\ pc' \in [Calls -> PC] /\ pc'[c] = "finalize"
         /\ \A d \in Calls \ {c} : pc'[d] = pc[d]
         /\ scope' \in [Calls -> Scope]
         /\ \A d \in Calls : scope'[d].closed = scope[d].closed
<1> DEFINE s == [scope[c] EXCEPT !.outcome = "failed"]
<1>1. scope[c] \in Scope BY DEF TypeOK
<1>2. s \in Scope /\ s.closed = scope[c].closed BY <1>1 DEF Scope
<1>3. Goto(c, "finalize") /\ SetScope(c, s) BY DEF NoResource
<1> HIDE DEF s
<1> QED BY <1>2, <1>3, GotoFacts, SetScopeFacts DEF PC

LEMMA ControlFailsFacts ==
  ASSUME TypeOK, NEW c \in Calls, ControlFails(c)
  PROVE  /\ pc' \in [Calls -> PC]
         /\ \/ pc'[c] = "finalize" /\ scope'[c].closed = scope[c].closed
            \/ pc'[c] = "drain" /\ scope'[c].closed
         /\ \A d \in Calls \ {c} : pc'[d] = pc[d]
         /\ scope' \in [Calls -> Scope]
         /\ \A d \in Calls \ {c} : scope'[d].closed = scope[d].closed
<1>1. CASE Goto(c, "finalize") /\ UNCHANGED scope
  BY <1>1, GotoFacts DEF TypeOK, PC
<1>2. CASE Finish(c, "failed")
  BY <1>2, FinishFacts
<1> QED BY <1>1, <1>2 DEF ControlFails

LEMMA NextControlFacts ==
  ASSUME TypeOK, NEW c \in Calls, NEW phase \in Phase, NextControl(c, phase)
  PROVE  /\ pc' \in [Calls -> PC] /\ pc'[c] = "announce"
         /\ \A d \in Calls \ {c} : pc'[d] = pc[d]
         /\ scope' \in [Calls -> Scope]
         /\ \A d \in Calls : scope'[d].closed = scope[d].closed
<1> DEFINE s == [scope[c] EXCEPT !.phase = phase, !.awaited = {}]
<1>1. scope[c] \in Scope BY DEF TypeOK
<1>2. s \in Scope /\ s.closed = scope[c].closed BY <1>1 DEF Scope
<1>3. Goto(c, "announce") /\ SetScope(c, s) BY DEF NextControl
<1> HIDE DEF s
<1> QED BY <1>2, <1>3, GotoFacts, SetScopeFacts DEF PC

LEMMA MakeFacts ==
  ASSUME IInv, NEW c \in Calls, NEW kind, NEW h, NEW caller \in SUBSET Calls,
         Make(c, kind, h, caller)
  PROVE  /\ pc[c] = "unborn" /\ conn[c] = None /\ ~Opened(c)
         /\ req' \in [Calls -> Request]
         /\ req'[c].kind = kind /\ req'[c].via = h /\ req'[c].caller = caller
         /\ \A d \in Calls \ {c} : req'[d] = req[d]
         /\ h \in Calls \cup {Root}
         /\ h # Root => /\ h # c /\ Opened(h) /\ conn[h] \in Conns
                        /\ (pc[h] = "body" /\ h \in caller) \/ scope[h].closed
<1> DEFINE r == [kind |-> kind, via |-> h, caller |-> caller]
<1>1. pc[c] = "unborn" /\ req' = [req EXCEPT ![c] = r] /\ kind \in Kind /\ Given(h, caller)
  BY StatementConstants DEF Make
<1>2. TypeOK /\ Local(c) BY DEF IInv
<1>3. h \in Calls \cup {Root} BY <1>1 DEF Given
<1>4. req' \in [Calls -> Request] BY <1>1, <1>2, <1>3 DEF TypeOK, Request
<1>5. ASSUME h # Root
      PROVE  /\ Opened(h) /\ conn[h] \in Conns
             /\ (pc[h] = "body" /\ h \in caller) \/ scope[h].closed
  <2>1. Local(h) /\ h \in Calls BY <1>3, <1>5 DEF IInv
  <2>2. /\ req[h].kind \in {"tx", "session"}
        /\ (pc[h] = "body" /\ h \in caller) \/ pc[h] \in {"drain", "tail"}
    BY <1>1, <1>5 DEF Given
  <2> QED BY <2>1, <2>2 DEF Local, Opened, Later, NeedsConn, Statement
<1>6. ~Opened(c) BY <1>1 DEF Opened, Later, Settled
<1>7. h # c BY <1>1, <1>3, <1>5, <1>6, ScopeConstants
<1> QED BY <1>1, <1>2, <1>3, <1>4, <1>5, <1>6, <1>7 DEF TypeOK, Local

LEMMA HandleFacts ==
  ASSUME IInv, NEW c \in Calls, pc[c] # "unborn", IsOpen(req[c].via), req[c].via # Root
  PROVE  req[c].via \in Calls /\ conn[req[c].via] \in Conns
<1>1. TypeOK /\ Handles(c) BY DEF IInv
<1>2. req[c].via \in Calls BY <1>1 DEF TypeOK, Request
<1>3. Local(req[c].via) BY <1>2 DEF IInv
<1>4. pc[req[c].via] = "body" BY <1>1 DEF Handles, Opened, IsOpen
<1> QED BY <1>2, <1>3, <1>4 DEF Local, NeedsConn

LEMMA EffectsType ==
  ASSUME TypeOK, NEW c \in Calls, NEW s \in Seq(Calls), NEW e \in Effects(c, s)
  PROVE  e \in Seq(Calls)
<1> DEFINE at == CHOOSE i \in 1..Len(s) : s[i] = c
<1>1. scope[c].phase \in Phase BY DEF TypeOK, Scope
<1>2. <<c>> \in Seq(Calls) /\ <<>> \in Seq(Calls) /\ Append(s, c) \in Seq(Calls) OBVIOUS
<1>3. ASSUME Contains(s, c)
      PROVE  SubSeq(s, 1, at - 1) \in Seq(Calls) /\ SubSeq(s, 1, at) \in Seq(Calls)
  <2>1. at \in 1..Len(s) BY <1>3 DEF Contains
  <2>2. at - 1 \in 0..Len(s) /\ at \in Int BY <2>1
  <2> HIDE DEF at
  <2> QED BY <2>1, <2>2, SubSeqProperties
<1> HIDE DEF at
<1>4. CASE scope[c].phase = "begin" BY <1>2, <1>4 DEF Effects
<1>5. CASE scope[c].phase = "savepoint" BY <1>2, <1>5 DEF Effects
<1>6. CASE scope[c].phase \in {"commit", "rollback"} BY <1>2, <1>6 DEF Effects
<1>7. CASE scope[c].phase \in {"release", "discard-savepoint"}
  BY <1>3, <1>7 DEF Effects, at
<1>8. CASE scope[c].phase = "rollback-to"
  BY <1>3, <1>8 DEF Effects, at
<1> QED BY <1>1, <1>4, <1>5, <1>6, <1>7, <1>8 DEF Phase

LEMMA ActiveMark ==
  ASSUME NEW m \in [Conns -> Mark], NEW k \in Conns,
         NEW a \in Calls \cup {None}, NEW b \in BOOLEAN
  PROVE  /\ [m EXCEPT ![k].activeScope = a] \in [Conns -> Mark]
         /\ [m EXCEPT ![k].activeScope = a, ![k].directBusy = b] \in [Conns -> Mark]
         /\ [m EXCEPT ![k].activeSession = a, ![k].directBusy = b] \in [Conns -> Mark]
<1>1. /\ m[k] \in Mark
      /\ [m[k] EXCEPT !.activeScope = a] \in Mark
      /\ [m[k] EXCEPT !.activeScope = a, !.directBusy = b] \in Mark
      /\ [m[k] EXCEPT !.activeSession = a, !.directBusy = b] \in Mark
  BY DEF Mark
<1> QED BY <1>1

LEMMA EarlyAdvance ==
  ASSUME NEW c \in Calls, pc[c] \in {"ready", "queued", "acquiring"} \cup StatementPC,
         req'[c] = req[c], TypeOK', Moves(c), Local(c)'
  PROVE  Advance(c)
  BY DEF Advance, Opened, Later, Settled, StatementPC, IsDone

LEMMA FirstAdvance ==
  ASSUME IInv, NEW c \in Calls, pc[c] = "unborn", TypeOK', Moves(c), Local(c)',
         req'[c].via # Root =>
            /\ Opened(req'[c].via)
            /\ \/ pc'[c] = "rejected" \/ req'[c].kind \in {"execute", "stream"}
               \/ pc[req'[c].via] = "body" /\ req'[c].via \in req'[c].caller \ {c}
  PROVE  Advance(c)
<1>1. ~Opened(c) BY DEF Opened, Later, Settled
<1> QED BY <1>1 DEF Advance, Statement, IsDone, Settled

LEMMA NewScopeType == NewScope \in Scope
  BY DEF NewScope, Scope, Phase

LEMMA OpenSessionType ==
  ASSUME TypeOK, NEW c \in Calls, NEW k \in Conns, OpenSession(c, k)
  PROVE  mark' \in [Conns -> Mark]
<1> DEFINE b == mark[k].directBusy \/ (Conservative /\ req'[c].via = Root)
<1>1. mark \in [Conns -> Mark] BY DEF TypeOK
<1>2. b \in BOOLEAN BY <1>1, ScopeConstants DEF Mark
<1>3. mark' = [mark EXCEPT ![k].activeSession = c, ![k].directBusy = b]
  BY <1>1 DEF OpenSession
<1> HIDE DEF b
<1> QED BY <1>1, <1>2, <1>3, ActiveMark

-----------------------------------------------------------------------------
(* One lemma per action. *)

LEMMA YieldStep ==
  ASSUME IInv, NEW c \in Calls, Yield(c)
  PROVE  Advance(c)
<1>0. TypeOK /\ Local(c) BY DEF IInv
<1>1. TypeOK'
  BY <1>0 DEF Yield, Goto, TypeOK, PC
<1>2. Moves(c) BY <1>0, Same DEF Yield, Goto, IsStream, Moves, TypeOK
<1>3. Local(c)'
  BY <1>0 DEF Local, NeedsConn, ScopePC, StatementPC, Statement, HoldsTurn, HasTurn,
     HoldsTail, HasTail, Entered, Unfinished, IsDone, IsTx, IsSession, Settled, TypeOK, Scope, Yield, Goto, IsStream
<1>4. Opened(c) => Opened(c)'
  BY <1>0 DEF Opened, Later, Settled, Statement, TypeOK, Yield, Goto, IsStream
<1>5. pc[c] # "unborn" /\ ~IsDone(c) /\ req'[c] = req[c] BY <1>0 DEF IsDone, Settled, Yield, Goto, IsStream
<1>6. pc[c] # "body" BY <1>0 DEF Yield, Goto, IsStream
<1> QED BY <1>1, <1>2, <1>3, <1>4, <1>5, <1>6 DEF Advance

LEMMA PullStep ==
  ASSUME IInv, NEW c \in Calls, Pull(c)
  PROVE  Advance(c)
<1>0. TypeOK /\ Local(c) BY DEF IInv
<1>1. TypeOK'
  BY <1>0 DEF Pull, Goto, TypeOK, PC
<1>2. Moves(c) BY <1>0, Same DEF Pull, Goto, IsStream, Moves, TypeOK
<1>3. Local(c)'
  BY <1>0 DEF Local, NeedsConn, ScopePC, StatementPC, Statement, HoldsTurn, HasTurn,
     HoldsTail, HasTail, Entered, Unfinished, IsDone, IsTx, IsSession, Settled, TypeOK, Scope, Pull, Goto, IsStream
<1>4. Opened(c) => Opened(c)'
  BY <1>0 DEF Opened, Later, Settled, Statement, TypeOK, Pull, Goto, IsStream
<1>5. pc[c] # "unborn" /\ ~IsDone(c) /\ req'[c] = req[c] BY <1>0 DEF IsDone, Settled, Pull, Goto, IsStream
<1>6. pc[c] # "body" BY <1>0 DEF Pull, Goto, IsStream
<1> QED BY <1>1, <1>2, <1>3, <1>4, <1>5, <1>6 DEF Advance

LEMMA StopStep ==
  ASSUME IInv, NEW c \in Calls, Stop(c)
  PROVE  Advance(c)
<1>0. TypeOK /\ Local(c) BY DEF IInv
<1>1. TypeOK'
  BY <1>0 DEF Stop, Goto, TypeOK, PC
<1>2. Moves(c) BY <1>0, Same DEF Stop, Goto, IsStream, Moves, TypeOK
<1>3. Local(c)'
  BY <1>0 DEF Local, NeedsConn, ScopePC, StatementPC, Statement, HoldsTurn, HasTurn,
     HoldsTail, HasTail, Entered, Unfinished, IsDone, IsTx, IsSession, Settled, TypeOK, Scope, Stop, Goto, IsStream
<1>4. Opened(c) => Opened(c)'
  BY <1>0 DEF Opened, Later, Settled, Statement, TypeOK, Stop, Goto, IsStream
<1>5. pc[c] # "unborn" /\ ~IsDone(c) /\ req'[c] = req[c] BY <1>0 DEF IsDone, Settled, Stop, Goto, IsStream
<1>6. pc[c] # "body" BY <1>0 DEF Stop, Goto, IsStream
<1> QED BY <1>1, <1>2, <1>3, <1>4, <1>5, <1>6 DEF Advance

LEMMA TurnStep ==
  ASSUME IInv, NEW c \in Calls, Turn(c)
  PROVE  Advance(c)
<1>0. TypeOK /\ Local(c) BY DEF IInv
<1>1. TypeOK'
  BY <1>0 DEF Turn, Goto, TypeOK, PC
<1>2. Moves(c) BY <1>0, Same DEF Turn, Goto, Moves, TypeOK
<1>3. Local(c)'
  BY <1>0 DEF Local, NeedsConn, ScopePC, StatementPC, Statement, HoldsTurn, HasTurn,
     HoldsTail, HasTail, Entered, Unfinished, IsDone, IsTx, IsSession, Settled, TypeOK, Scope, Turn, Goto
<1>4. Opened(c) => Opened(c)'
  BY <1>0 DEF Opened, Later, Settled, Statement, TypeOK, Turn, Goto
<1>5. pc[c] # "unborn" /\ ~IsDone(c) /\ req'[c] = req[c] BY <1>0 DEF IsDone, Settled, Turn, Goto
<1>6. pc[c] # "body" BY <1>0 DEF Turn, Goto
<1> QED BY <1>1, <1>2, <1>3, <1>4, <1>5, <1>6 DEF Advance

LEMMA ExhaustStep ==
  ASSUME IInv, NEW c \in Calls, Exhaust(c)
  PROVE  Advance(c)
<1>0. TypeOK /\ Local(c) BY DEF IInv
<1>1. TypeOK'
  <2>1. conn[c] \in Conns BY <1>0 DEF Exhaust, Local, NeedsConn
  <2>2. poisoned' \in SUBSET Conns BY <1>0, <2>1 DEF Exhaust, DriverEnds, TypeOK
  <2>3. scope' \in [Calls -> Scope]
    BY <1>0, OutcomeFacts DEF Exhaust
  <2> QED BY <1>0, <2>2, <2>3 DEF Exhaust, Goto, TypeOK, PC
<1>2. Moves(c) BY <1>0, Same DEF Exhaust, Goto, IsStream, DriverEnds, Moves, TypeOK
<1>3. Local(c)'
  BY <1>0 DEF Local, NeedsConn, ScopePC, StatementPC, Statement, HoldsTurn, HasTurn,
     HoldsTail, HasTail, Entered, Unfinished, IsDone, IsTx, IsSession, Settled, TypeOK, Scope, Exhaust, Goto, IsStream, DriverEnds
<1>4. Opened(c) => Opened(c)'
  BY <1>0 DEF Opened, Later, Settled, Statement, TypeOK, Exhaust, Goto, IsStream, DriverEnds
<1>5. pc[c] # "unborn" /\ ~IsDone(c) /\ req'[c] = req[c] BY <1>0 DEF IsDone, Settled, Exhaust, Goto, IsStream, DriverEnds
<1>6. pc[c] # "body" BY <1>0 DEF Exhaust, Goto, IsStream, DriverEnds
<1> QED BY <1>1, <1>2, <1>3, <1>4, <1>5, <1>6 DEF Advance

LEMMA EndStreamStep ==
  ASSUME IInv, NEW c \in Calls, EndStream(c)
  PROVE  Advance(c)
<1>0. TypeOK /\ Local(c) BY DEF IInv
<1>a. /\ scope' \in [Calls -> Scope]
      /\ \A d \in Calls : scope'[d].closed = scope[d].closed
  BY <1>0, LeaveStreamsFacts DEF EndStream
<1>1. TypeOK'
  <2>1. pc' \in [Calls -> PC] BY <1>0 DEF EndStream, EndAs, Goto, TypeOK, PC, Settled
  <2>2. conn[c] \in Conns \cup {None} BY <1>0 DEF TypeOK
  <2>3. mark' \in [Conns -> Mark] BY <1>0, <2>2, AdmissionType DEF EndStream
  <2> QED BY <1>0, <1>a, <2>1, <2>3 DEF EndStream, TypeOK
<1>2. Moves(c) BY <1>0, <1>a, Same DEF EndStream, EndAs, Goto, Moves, TypeOK
<1>3. Local(c)'
  BY <1>0 DEF Local, NeedsConn, ScopePC, StatementPC, Statement, HoldsTurn, HasTurn,
     HoldsTail, HasTail, Entered, Unfinished, IsDone, IsTx, IsSession, Settled, TypeOK, Scope, EndStream, Goto, EndAs
<1>4. Opened(c) => Opened(c)'
  BY <1>0 DEF Opened, Later, Settled, Statement, TypeOK, EndStream, Goto, EndAs
<1>5. pc[c] # "unborn" /\ ~IsDone(c) /\ req'[c] = req[c] BY <1>0 DEF IsDone, Settled, EndStream, Goto, EndAs
<1>6. pc[c] # "body" BY <1>0 DEF EndStream, Goto, EndAs
<1> QED BY <1>1, <1>2, <1>3, <1>4, <1>5, <1>6 DEF Advance

LEMMA CompleteStep ==
  ASSUME IInv, NEW c \in Calls, Complete(c)
  PROVE  Advance(c)
<1>0. TypeOK /\ Local(c) BY DEF IInv
<1>a. /\ conn[c] \in Conns
      /\ req[c].via # Root => HasTurn(c)
      /\ req[c].via = Root /\ ~Pooled /\ ~Conservative => HasTail(c)
  BY <1>0 DEF Complete, Local, NeedsConn, HoldsTurn, HoldsTail
<1>b. /\ tail' \in [Conns -> Seq(Calls)] /\ QueueStep(tail, tail', c)
      /\ turns' \in [Conns -> Seq(Calls)] /\ QueueStep(turns, turns', c)
      /\ mark' \in [Conns -> Mark]
  BY <1>0, <1>a, GiveBackFacts DEF Complete
<1>c. /\ scope' \in [Calls -> Scope]
      /\ \A d \in Calls : scope'[d].closed = scope[d].closed
  <2>1. scope' = scope \/ \E o \in {"ok", "failed"} : scope' = [scope EXCEPT ![c].outcome = o]
    BY DEF Complete
  <2> QED BY <1>0, <2>1, OutcomeFacts DEF TypeOK
<1>1. TypeOK'
  <2>1. poisoned' \in SUBSET Conns BY <1>0, <1>a DEF Complete, Goto, DriverEnds, EndAs, TypeOK
  <2>2. pc' \in [Calls -> PC] BY <1>0 DEF Complete, Goto, DriverEnds, EndAs, TypeOK, PC, Settled
  <2> QED BY <1>0, <1>b, <1>c, <2>1, <2>2 DEF Complete, TypeOK
<1>2. Moves(c) BY <1>0, <1>b, <1>c DEF Complete, Goto, EndAs, Moves, TypeOK
<1>3. Local(c)'
  BY <1>0 DEF Local, NeedsConn, ScopePC, StatementPC, Statement, HoldsTurn, HasTurn,
     HoldsTail, HasTail, Entered, Unfinished, IsDone, IsTx, IsSession, Settled, TypeOK, Scope, Complete, Goto, EndAs, IsStream
<1>4. Opened(c) => Opened(c)'
  BY <1>0 DEF Opened, Later, Settled, Statement, TypeOK, Complete, Goto, EndAs, IsStream
<1>5. pc[c] # "unborn" /\ ~IsDone(c) /\ req'[c] = req[c] BY <1>0 DEF IsDone, Settled, Complete, Goto, EndAs, IsStream
<1>6. pc[c] # "body" BY <1>0 DEF Complete, Goto, EndAs, IsStream
<1> QED BY <1>1, <1>2, <1>3, <1>4, <1>5, <1>6 DEF Advance

LEMMA CloseCursorStep ==
  ASSUME IInv, NEW c \in Calls, CloseCursor(c)
  PROVE  Advance(c)
<1>0. TypeOK /\ Local(c) BY DEF IInv
<1>a. /\ conn[c] \in Conns
      /\ req[c].via # Root => HasTurn(c)
      /\ req[c].via = Root /\ ~Pooled /\ ~Conservative => HasTail(c)
  BY <1>0 DEF CloseCursor, Local, NeedsConn, HoldsTurn, HoldsTail
<1>b. /\ tail' \in [Conns -> Seq(Calls)] /\ QueueStep(tail, tail', c)
      /\ turns' \in [Conns -> Seq(Calls)] /\ QueueStep(turns, turns', c)
      /\ mark' \in [Conns -> Mark]
  BY <1>0, <1>a, GiveBackFacts DEF CloseCursor
<1>c. /\ scope' \in [Calls -> Scope]
      /\ \A d \in Calls : scope'[d].closed = scope[d].closed
  <2>1. scope' = scope \/ \E o \in {"ok", "failed"} : scope' = [scope EXCEPT ![c].outcome = o]
    BY DEF CloseCursor
  <2> QED BY <1>0, <2>1, OutcomeFacts DEF TypeOK
<1>1. TypeOK'
  <2>1. poisoned' \in SUBSET Conns BY <1>0, <1>a DEF CloseCursor, Goto, TypeOK
  <2>2. pc' \in [Calls -> PC] BY <1>0 DEF CloseCursor, Goto, TypeOK, PC, Settled
  <2> QED BY <1>0, <1>b, <1>c, <2>1, <2>2 DEF CloseCursor, TypeOK
<1>2. Moves(c) BY <1>0, <1>b, <1>c DEF CloseCursor, Goto, Moves, TypeOK
<1>3. Local(c)'
  BY <1>0 DEF Local, NeedsConn, ScopePC, StatementPC, Statement, HoldsTurn, HasTurn,
     HoldsTail, HasTail, Entered, Unfinished, IsDone, IsTx, IsSession, Settled, TypeOK, Scope, CloseCursor, Goto, IsStream
<1>4. Opened(c) => Opened(c)'
  BY <1>0 DEF Opened, Later, Settled, Statement, TypeOK, CloseCursor, Goto, IsStream
<1>5. pc[c] # "unborn" /\ ~IsDone(c) /\ req'[c] = req[c] BY <1>0 DEF IsDone, Settled, CloseCursor, Goto, IsStream
<1>6. pc[c] # "body" BY <1>0 DEF CloseCursor, Goto, IsStream
<1> QED BY <1>1, <1>2, <1>3, <1>4, <1>5, <1>6 DEF Advance

LEMMA ReturnStep ==
  ASSUME IInv, NEW c \in Calls, Return(c)
  PROVE  Advance(c)
<1>0. TypeOK /\ Local(c) BY DEF IInv
<1>a. /\ scope' \in [Calls -> Scope] /\ scope'[c].closed = TRUE
      /\ \A d \in Calls \ {c} : scope'[d] = scope[d]
      /\ pc' \in [Calls -> PC] /\ pc'[c] = "drain"
      /\ \A d \in Calls \ {c} : pc'[d] = pc[d]
  BY <1>0, FinishFacts DEF Return
<1>1. TypeOK'
  BY <1>0, <1>a DEF Return, TypeOK
<1>2. Moves(c) BY <1>0, <1>a, Same DEF Return, Moves
<1>3. Local(c)'
  BY <1>0, <1>a DEF Return, Local, NeedsConn, ScopePC, StatementPC, Statement, HoldsTurn, HasTurn,
     HoldsTail, HasTail, Entered, Unfinished, IsDone, IsTx, IsSession, Settled, TypeOK
<1>4. Opened(c) => Opened(c)' BY <1>a DEF Return, Opened, Later, Statement
<1>5. pc[c] # "unborn" /\ ~IsDone(c) /\ req'[c] = req[c] BY DEF Return, IsDone, Settled
<1>6. Awaited(c) BY DEF Return
<1> QED BY <1>1, <1>2, <1>3, <1>4, <1>5, <1>6 DEF Advance

LEMMA DrainStep ==
  ASSUME IInv, NEW c \in Calls, Drain(c)
  PROVE  Advance(c)
<1>0. TypeOK /\ Local(c) BY DEF IInv
<1>a. PICK s \in Scope, l \in {"drain", "tail"} :
        SetScope(c, s) /\ s.closed = scope[c].closed /\ Goto(c, l)
  <2>1. scope[c] \in Scope /\ conn[c] \in Conns BY <1>0 DEF TypeOK, Drain, Local, NeedsConn
  <2>2. CASE scope[c].drain # <<>>
    <3> DEFINE s == [scope[c] EXCEPT !.drain = Tail(@)]
    <3>1. Tail(scope[c].drain) \in Seq(Calls) BY <2>1, <2>2 DEF Scope
    <3>2. s \in Scope /\ s.closed = scope[c].closed BY <2>1, <3>1 DEF Scope
    <3>3. SetScope(c, s) /\ Goto(c, "drain") BY <1>0, <2>2 DEF Drain, Goto, TypeOK
    <3> HIDE DEF s
    <3> QED BY <3>2, <3>3
  <2>3. CASE scope[c].drain = <<>>
    <3> DEFINE s == [scope[c] EXCEPT !.awaited = Ahead(conn[c])]
    <3>1. Ahead(conn[c]) \in SUBSET Calls BY <1>0, <2>1 DEF Ahead, ToSet, TypeOK
    <3>2. s \in Scope /\ s.closed = scope[c].closed BY <2>1, <3>1 DEF Scope
    <3>3. SetScope(c, s) /\ Goto(c, "tail") BY <2>3 DEF Drain
    <3> HIDE DEF s
    <3> QED BY <3>2, <3>3
  <2> QED BY <2>2, <2>3
<1>b. /\ scope' \in [Calls -> Scope] /\ pc' \in [Calls -> PC]
      /\ pc'[c] \in {"drain", "tail"} /\ scope'[c].closed = scope[c].closed
      /\ \A d \in Calls \ {c} : scope'[d] = scope[d] /\ pc'[d] = pc[d]
  <2>1. l \in PC BY DEF PC
  <2> QED BY <1>0, <1>a, <2>1, GotoFacts, SetScopeFacts
<1>1. TypeOK'
  BY <1>0, <1>b DEF Drain, TypeOK
<1>2. Moves(c) BY <1>0, <1>b, Same DEF Drain, Moves
<1>3. Local(c)'
  BY <1>0, <1>b DEF Drain, Local, NeedsConn, ScopePC, StatementPC, Statement, HoldsTurn, HasTurn,
     HoldsTail, HasTail, Entered, Unfinished, IsDone, IsTx, IsSession, Settled, TypeOK
<1>4. Opened(c) => Opened(c)' BY <1>b DEF Drain, Opened, Later, Statement
<1>5. pc[c] # "unborn" /\ ~IsDone(c) /\ req'[c] = req[c] BY <1>0 DEF IsDone, Settled, Drain, Goto
<1>6. pc[c] # "body" BY <1>0 DEF Drain, Goto
<1> QED BY <1>1, <1>2, <1>3, <1>4, <1>5, <1>6 DEF Advance

LEMMA AnnounceStep ==
  ASSUME IInv, NEW c \in Calls, Announce(c)
  PROVE  Advance(c)
<1>0. TypeOK /\ Local(c) BY DEF IInv
<1>a. /\ pc' \in [Calls -> PC]
      /\ \/ pc'[c] \in {"turn", "finalize"} /\ scope'[c].closed = scope[c].closed
         \/ pc'[c] = "drain" /\ scope'[c].closed
      /\ \A d \in Calls \ {c} : pc'[d] = pc[d]
      /\ scope' \in [Calls -> Scope]
      /\ \A d \in Calls \ {c} : scope'[d].closed = scope[d].closed
      /\ turns' \in [Conns -> Seq(Calls)] /\ QueueStep(turns, turns', c)
  <2>1. conn[c] \in Conns BY <1>0 DEF Announce, Local, NeedsConn
  <2>2. CASE TakeTurn(c, conn[c]) /\ UNCHANGED scope
    BY <1>0, <2>1, <2>2, TakeTurnFacts DEF TypeOK
  <2>3. CASE ControlFails(c) /\ UNCHANGED turns
    BY <1>0, <2>3, ControlFailsFacts, Same DEF TypeOK
  <2> QED BY <2>2, <2>3 DEF Announce
<1>1. TypeOK'
  BY <1>0, <1>a DEF Announce, TypeOK
<1>2. Moves(c) BY <1>0, <1>a, Same DEF Announce, Moves, TypeOK
<1>3. Local(c)'
  BY <1>0, <1>a DEF Announce, Local, NeedsConn, ScopePC, StatementPC, Statement, HoldsTurn, HasTurn,
     HoldsTail, HasTail, Entered, Unfinished, IsDone, IsTx, IsSession, Settled, TypeOK
<1>4. Opened(c) => Opened(c)' BY <1>0, <1>a DEF Announce, Opened, Later, Settled, Statement
<1>5. pc[c] # "unborn" /\ ~IsDone(c) /\ req'[c] = req[c] BY <1>0 DEF IsDone, Settled, Announce
<1>6. pc[c] # "body" BY <1>0 DEF Announce
<1> QED BY <1>1, <1>2, <1>3, <1>4, <1>5, <1>6 DEF Advance

LEMMA AnnouncedStep ==
  ASSUME IInv, NEW c \in Calls, Announced(c)
  PROVE  Advance(c)
<1>0. TypeOK /\ Local(c) BY DEF IInv
<1>a. /\ pc' \in [Calls -> PC]
      /\ \/ pc'[c] \in {"body", "finalize", "announce"} /\ scope'[c].closed = scope[c].closed
         \/ pc'[c] = "drain" /\ scope'[c].closed
      /\ \A d \in Calls \ {c} : pc'[d] = pc[d]
      /\ scope' \in [Calls -> Scope]
      /\ \A d \in Calls \ {c} : scope'[d].closed = scope[d].closed
  <2>1. CASE Goto(c, "body") /\ UNCHANGED scope
    BY <1>0, <2>1, GotoFacts DEF TypeOK, PC
  <2>2. CASE Goto(c, "finalize") /\ UNCHANGED scope
    BY <1>0, <2>2, GotoFacts DEF TypeOK, PC
  <2>3. CASE ControlFails(c)
    BY <1>0, <2>3, ControlFailsFacts
  <2>4. CASE /\ Goto(c, "announce")
             /\ SetScope(c, [scope[c] EXCEPT !.phase = "discard-savepoint"])
    <3> DEFINE s == [scope[c] EXCEPT !.phase = "discard-savepoint"]
    <3>1. scope[c] \in Scope BY <1>0 DEF TypeOK
    <3>2. s \in Scope /\ s.closed = scope[c].closed BY <3>1 DEF Scope, Phase
    <3>3. SetScope(c, s) BY <2>4
    <3> HIDE DEF s
    <3> QED BY <1>0, <2>4, <3>2, <3>3, GotoFacts, SetScopeFacts DEF PC
  <2> QED BY <2>1, <2>2, <2>3, <2>4 DEF Announced
<1>1. TypeOK'
  BY <1>0, <1>a DEF Announced, TypeOK
<1>2. Moves(c) BY <1>0, <1>a, Same DEF Announced, Moves, TypeOK
<1>3. Local(c)'
  BY <1>0, <1>a DEF Announced, Local, NeedsConn, ScopePC, StatementPC, Statement, HoldsTurn, HasTurn,
     HoldsTail, HasTail, Entered, Unfinished, IsDone, IsTx, IsSession, Settled, TypeOK
<1>4. Opened(c) => Opened(c)' BY <1>0, <1>a DEF Announced, Opened, Later, Settled, Statement
<1>5. pc[c] # "unborn" /\ ~IsDone(c) /\ req'[c] = req[c] BY <1>0 DEF IsDone, Settled, Announced
<1>6. pc[c] # "body" BY <1>0 DEF Announced
<1> QED BY <1>1, <1>2, <1>3, <1>4, <1>5, <1>6 DEF Advance

LEMMA RefuseTxStep ==
  ASSUME IInv, NEW c \in Calls, RefuseTx(c)
  PROVE  Advance(c)
<1>0. TypeOK /\ Local(c) BY DEF IInv
<1>a. /\ pc' \in [Calls -> PC] /\ pc'[c] = "finalize"
      /\ \A d \in Calls \ {c} : pc'[d] = pc[d]
      /\ scope' \in [Calls -> Scope]
      /\ \A d \in Calls : scope'[d].closed = scope[d].closed
  BY <1>0, NoResourceFacts DEF RefuseTx
<1>1. TypeOK'
  BY <1>0, <1>a DEF RefuseTx, TypeOK
<1>2. Moves(c) BY <1>0, <1>a, Same DEF RefuseTx, Moves, TypeOK
<1>3. Local(c)'
  BY <1>0, <1>a DEF RefuseTx, Local, NeedsConn, ScopePC, StatementPC, Statement, HoldsTurn, HasTurn,
     HoldsTail, HasTail, Entered, Unfinished, IsDone, IsTx, IsSession, Settled, TypeOK
<1>4. Opened(c) => Opened(c)' BY <1>0, <1>a DEF RefuseTx, Opened, Later, Settled, Statement
<1>5. pc[c] # "unborn" /\ ~IsDone(c) /\ req'[c] = req[c] BY <1>0 DEF IsDone, Settled, RefuseTx
<1>6. pc[c] # "body" BY <1>0 DEF RefuseTx
<1> QED BY <1>1, <1>2, <1>3, <1>4, <1>5, <1>6 DEF Advance

LEMMA FinishedStep ==
  ASSUME IInv, NEW c \in Calls, Finished(c)
  PROVE  Advance(c)
<1>0. TypeOK /\ Local(c) BY DEF IInv
<1>a. /\ pc' \in [Calls -> PC]
      /\ \/ pc'[c] \in {"finalize", "announce"} /\ scope'[c].closed = scope[c].closed
         \/ pc'[c] = "drain" /\ scope'[c].closed
      /\ \A d \in Calls \ {c} : pc'[d] = pc[d]
      /\ scope' \in [Calls -> Scope]
      /\ \A d \in Calls \ {c} : scope'[d].closed = scope[d].closed
  <2>1. CASE Finish(c, "failed")
    BY <1>0, <2>1, FinishFacts
  <2>2. CASE \E phase \in Phase : NextControl(c, phase)
    BY <1>0, <2>2, NextControlFacts
  <2>3. CASE Goto(c, "finalize") /\ UNCHANGED scope
    BY <1>0, <2>3, GotoFacts DEF TypeOK, PC
  <2>4. \A x \in {"release", "commit", "rollback-to", "rollback"} : x \in Phase BY DEF Phase
  <2> QED BY <2>1, <2>2, <2>3, <2>4 DEF Finished
<1>1. TypeOK'
  BY <1>0, <1>a DEF Finished, TypeOK
<1>2. Moves(c) BY <1>0, <1>a, Same DEF Finished, Moves, TypeOK
<1>3. Local(c)'
  BY <1>0, <1>a DEF Finished, Local, NeedsConn, ScopePC, StatementPC, Statement, HoldsTurn, HasTurn,
     HoldsTail, HasTail, Entered, Unfinished, IsDone, IsTx, IsSession, Settled, TypeOK
<1>4. Opened(c) => Opened(c)' BY <1>0, <1>a DEF Finished, Opened, Later, Settled, Statement
<1>5. pc[c] # "unborn" /\ ~IsDone(c) /\ req'[c] = req[c] BY <1>0 DEF IsDone, Settled, Finished
<1>6. pc[c] # "body" BY <1>0 DEF Finished
<1> QED BY <1>1, <1>2, <1>3, <1>4, <1>5, <1>6 DEF Advance

LEMMA ControlStep ==
  ASSUME IInv, NEW c \in Calls, Control(c)
  PROVE  Advance(c)
<1>0. TypeOK /\ Local(c) BY DEF IInv
<1>a. conn[c] \in Conns /\ HasTurn(c)
      /\ turns \in [Conns -> Seq(Calls)] /\ open \in [Conns -> Seq(Calls)]
  BY <1>0 DEF Control, Local, NeedsConn, HoldsTurn, TypeOK
<1>b. turns' \in [Conns -> Seq(Calls)] /\ QueueStep(turns, turns', c)
  BY <1>a, Pop DEF Control, HasTurn
<1>c. open' \in [Conns -> Seq(Calls)]
  <2>1. open[conn[c]] \in Seq(Calls) BY <1>a
  <2>2. \A s \in {open[conn[c]]} \cup Effects(c, open[conn[c]]) : s \in Seq(Calls)
    BY <1>0, <2>1, EffectsType
  <2>3. PICK s \in Seq(Calls) : open' = [open EXCEPT ![conn[c]] = s]
    BY <2>2 DEF Control
  <2> QED BY <1>a, <2>3
<1>d. pc' \in [Calls -> PC] /\ pc'[c] = "announced"
      /\ \A d \in Calls \ {c} : pc'[d] = pc[d]
  BY <1>0, GotoFacts DEF Control, PC
<1>e. scope' \in [Calls -> Scope]
      /\ \A d \in Calls : scope'[d].closed = scope[d].closed
  <2> DEFINE begun == scope[c].started \/ scope[c].phase \in {"begin", "savepoint"}
             ended == scope[c].completed \/ scope[c].phase \in {"commit", "release"}
             s == [scope[c] EXCEPT !.started = begun, !.completed = ended]
             t == [scope[c] EXCEPT !.outcome = "failed"]
  <2>1. scope[c] \in Scope BY <1>0 DEF TypeOK
  <2>2. begun \in BOOLEAN /\ ended \in BOOLEAN BY <2>1 DEF Scope
  <2>3. s \in Scope /\ s.closed = scope[c].closed
    <3> HIDE DEF begun, ended
    <3> QED BY <2>1, <2>2 DEF Scope
  <2>4. t \in Scope /\ t.closed = scope[c].closed BY <2>1 DEF Scope
  <2>5. SetScope(c, s) \/ SetScope(c, t) BY DEF Control
  <2> HIDE DEF s, t
  <2> QED BY <1>0, <2>3, <2>4, <2>5, SetScopeFacts
<1>1. TypeOK'
  BY <1>0, <1>a, <1>b, <1>c, <1>d, <1>e DEF Control, TypeOK
<1>2. Moves(c) BY <1>0, <1>b, <1>d, <1>e, Same DEF Control, Moves, TypeOK
<1>3. Local(c)'
  BY <1>0, <1>a, <1>b, <1>c, <1>d, <1>e DEF Control, Local, NeedsConn, ScopePC, StatementPC, Statement, HoldsTurn, HasTurn,
     HoldsTail, HasTail, Entered, Unfinished, IsDone, IsTx, IsSession, Settled, TypeOK
<1>4. Opened(c) => Opened(c)' BY <1>0, <1>a, <1>b, <1>c, <1>d, <1>e DEF Control, Opened, Later, Settled, Statement
<1>5. pc[c] # "unborn" /\ ~IsDone(c) /\ req'[c] = req[c] BY <1>0 DEF IsDone, Settled, Control
<1>6. pc[c] # "body" BY <1>0 DEF Control
<1> QED BY <1>1, <1>2, <1>3, <1>4, <1>5, <1>6 DEF Advance

LEMMA LeaseTxStep ==
  ASSUME IInv, NEW c \in Calls, LeaseTx(c)
  PROVE  Advance(c)
<1>0. TypeOK /\ Local(c) BY DEF IInv
<1>a. /\ ~Statement(c) /\ pc[c] = "ready" /\ req[c].via \in Calls \cup {Root}
      /\ mark \in [Conns -> Mark] /\ tail \in [Conns -> Seq(Calls)]
  BY <1>0 DEF LeaseTx, IsTx, Statement, TypeOK, Request
<1>b. ~Pooled \/ req[c].via # Root => StateOf(req[c].via) \in Conns
  <2>1. CASE req[c].via = Root BY <2>1, DirectIsConn DEF StateOf
  <2>2. CASE req[c].via # Root
    <3>1. pc[req[c].via] = "body" BY <1>a, <2>2 DEF IInv, Handles, IsDone, Settled
    <3>2. Local(req[c].via) BY <1>a, <2>2 DEF IInv
    <3> QED BY <2>2, <3>1, <3>2 DEF Local, NeedsConn, StateOf
  <2> QED BY <2>1, <2>2
<1>c. CASE /\ req[c].via # Root \/ Conservative
           /\ Begin(c, StateOf(req[c].via))
           /\ UNCHANGED tail
           /\ mark' = [mark EXCEPT ![StateOf(req[c].via)].activeScope = c,
                          ![StateOf(req[c].via)].directBusy = @ \/ req[c].via = Root]
  <2> DEFINE k == StateOf(req[c].via)
             b == mark[k].directBusy \/ req[c].via = Root
  <2>1. k \in Conns BY <1>b, <1>c, ScopeConstants
  <2>2. b \in BOOLEAN BY <1>a, <2>1 DEF Mark
  <2>3. mark' = [mark EXCEPT ![k].activeScope = c, ![k].directBusy = b] BY <1>a, <1>c, <2>1
  <2>4. mark' \in [Conns -> Mark]
    <3> HIDE DEF k, b
    <3> QED BY <1>a, <2>1, <2>2, <2>3, ActiveMark
  <2>5. /\ conn' \in [Calls -> Conns \cup {None}] /\ conn'[c] \in Conns
        /\ \A d \in Calls \ {c} : conn'[d] = conn[d]
        /\ pc' \in [Calls -> PC]
        /\ pc'[c] = "turn" \/ (pc'[c] = "drain" /\ scope'[c].closed)
        /\ \A d \in Calls \ {c} : pc'[d] = pc[d]
        /\ scope' \in [Calls -> Scope]
        /\ \A d \in Calls \ {c} : scope'[d].closed = scope[d].closed
        /\ turns' \in [Conns -> Seq(Calls)] /\ QueueStep(turns, turns', c)
    BY <1>0, <1>c, <2>1, BeginFacts
  <2>6. TypeOK' BY <1>0, <1>c, <2>4, <2>5 DEF LeaseTx, TypeOK
  <2>7. Moves(c) BY <1>0, <1>c, <2>5, Same DEF LeaseTx, Moves
  <2>8. Local(c)'
    BY <1>0, <1>a, <1>c, <2>5, ScopeConstants DEF LeaseTx, Local, NeedsConn, ScopePC, StatementPC, Statement, HoldsTurn, HasTurn,
     HoldsTail, HasTail, Entered, Unfinished, IsDone, IsTx, IsSession, Settled
  <2>9. pc[c] # "body" /\ ~Opened(c) BY <1>a DEF Opened, Later, Settled
  <2>10. pc[c] # "unborn" /\ ~IsDone(c) /\ req'[c] = req[c] BY <1>a DEF LeaseTx, IsDone, Settled
  <2> QED BY <2>6, <2>7, <2>8, <2>9, <2>10 DEF Advance
<1>d. CASE /\ req[c].via = Root /\ Pooled
           /\ Goto(c, "acquiring")
           /\ UNCHANGED <<conn, scope, tail, turns, mark>>
  <2>1. TypeOK' BY <1>0, <1>d DEF LeaseTx, Goto, TypeOK, PC
  <2>2. Moves(c) BY <1>0, <1>d, Same DEF LeaseTx, Goto, Moves, TypeOK
  <2>3. Local(c)' BY <1>0, <1>a, <1>d DEF LeaseTx, Goto, TypeOK, Local, NeedsConn, ScopePC, StatementPC, Statement, HoldsTurn, HasTurn,
     HoldsTail, HasTail, Entered, Unfinished, IsDone, IsTx, IsSession, Settled
  <2>4. pc[c] # "body" /\ ~Opened(c) BY <1>a DEF Opened, Later, Settled
  <2>5. pc[c] # "unborn" /\ ~IsDone(c) /\ req'[c] = req[c] BY <1>a DEF LeaseTx, IsDone, Settled
  <2> QED BY <2>1, <2>2, <2>3, <2>4, <2>5 DEF Advance
<1>e. CASE /\ req[c].via = Root /\ ~Pooled /\ ~Conservative
           /\ Goto(c, "queued")
           /\ conn' = [conn EXCEPT ![c] = StateOf(req[c].via)]
           /\ tail' = [tail EXCEPT ![StateOf(req[c].via)] = Append(@, c)]
           /\ UNCHANGED <<scope, turns, mark>>
  <2>1. tail' \in [Conns -> Seq(Calls)] /\ QueueStep(tail, tail', c)
    BY <1>a, <1>b, <1>e, Push
  <2>2. TypeOK' BY <1>0, <1>b, <1>e, <2>1 DEF LeaseTx, Goto, TypeOK, PC
  <2>3. Moves(c) BY <1>0, <1>e, <2>1, Same DEF LeaseTx, Goto, Moves, TypeOK
  <2>4. Local(c)' BY <1>0, <1>a, <1>b, <1>e DEF LeaseTx, Goto, TypeOK, Local, NeedsConn, ScopePC, StatementPC, Statement, HoldsTurn, HasTurn,
     HoldsTail, HasTail, Entered, Unfinished, IsDone, IsTx, IsSession, Settled
  <2>5. pc[c] # "body" /\ ~Opened(c) BY <1>a DEF Opened, Later, Settled
  <2>6. pc[c] # "unborn" /\ ~IsDone(c) /\ req'[c] = req[c] BY <1>a DEF LeaseTx, IsDone, Settled
  <2> QED BY <2>2, <2>3, <2>4, <2>5, <2>6 DEF Advance
<1> QED BY <1>c, <1>d, <1>e DEF LeaseTx

LEMMA GrantTxStep ==
  ASSUME IInv, NEW c \in Calls, GrantTx(c)
  PROVE  Advance(c)
<1>0. TypeOK /\ Local(c) BY DEF IInv
<1>1. /\ conn[c] \in Conns /\ ~Statement(c) /\ pc[c] = "queued"
      /\ mark \in [Conns -> Mark] /\ tail \in [Conns -> Seq(Calls)]
  BY <1>0 DEF GrantTx, IsTx, Statement, TypeOK, Local, NeedsConn
<1>2. CASE IsHealthy(conn[c])
  <2>1. /\ conn' \in [Calls -> Conns \cup {None}] /\ conn'[c] \in Conns
        /\ \A d \in Calls \ {c} : conn'[d] = conn[d]
        /\ pc' \in [Calls -> PC]
        /\ pc'[c] = "turn" \/ (pc'[c] = "drain" /\ scope'[c].closed)
        /\ \A d \in Calls \ {c} : pc'[d] = pc[d]
        /\ scope' \in [Calls -> Scope]
        /\ \A d \in Calls \ {c} : scope'[d].closed = scope[d].closed
        /\ turns' \in [Conns -> Seq(Calls)] /\ QueueStep(turns, turns', c)
    BY <1>0, <1>1, <1>2, BeginFacts DEF GrantTx
  <2>a. mark' = [mark EXCEPT ![conn[c]].activeScope = c] /\ tail' = tail
    BY <1>2 DEF GrantTx
  <2>b. mark' \in [Conns -> Mark] BY <1>1, <2>a, ActiveMark
  <2>c. conn' = conn BY <1>0, <1>2 DEF GrantTx, Begin, TypeOK
  <2>2. mark' \in [Conns -> Mark] /\ tail' = tail /\ conn' = conn BY <2>a, <2>b, <2>c
  <2>3. HoldsTail(c)' => HasTail(c)'
    BY <2>2 DEF GrantTx, HasTail
  <2>6. TypeOK' BY <1>0, <1>1, <1>2, <2>1, <2>2, <2>3 DEF GrantTx, TypeOK
  <2>7. Moves(c) BY <1>0, <1>1, <1>2, <2>1, <2>2, <2>3, Same DEF GrantTx, Moves, TypeOK
  <2>8. Local(c)'
    BY <1>0, <1>1, <1>2, <2>1, <2>2, <2>3 DEF GrantTx, TypeOK,
     Local, NeedsConn, ScopePC, StatementPC, Statement, HoldsTurn, HasTurn,
     HoldsTail, HasTail, Entered, Unfinished, IsDone, IsTx, IsSession, Settled
  <2> QED BY <1>0, <2>6, <2>7, <2>8, EarlyAdvance DEF GrantTx
<1>3. CASE ~IsHealthy(conn[c])
  <2>1. /\ pc' \in [Calls -> PC] /\ pc'[c] = "finalize"
        /\ \A d \in Calls \ {c} : pc'[d] = pc[d]
        /\ scope' \in [Calls -> Scope]
        /\ \A d \in Calls : scope'[d].closed = scope[d].closed
    BY <1>0, <1>3, NoResourceFacts DEF GrantTx
  <2>2. tail' \in [Conns -> Seq(Calls)] /\ QueueStep(tail, tail', c)
    <3>1. tail' = [tail EXCEPT ![conn[c]] = Tail(@)] /\ HasTail(c)
      BY <1>3 DEF GrantTx
    <3> QED BY <1>1, <3>1, Pop DEF HasTail
  <2>3. conn' = [conn EXCEPT ![c] = None] /\ turns' = turns /\ mark' = mark
    BY <1>3 DEF GrantTx
  <2>6. TypeOK' BY <1>0, <1>1, <2>1, <2>2, <2>3 DEF GrantTx, TypeOK
  <2>7. Moves(c) BY <1>0, <1>1, <2>1, <2>2, <2>3, Same DEF GrantTx, Moves, TypeOK
  <2>8. Local(c)'
    BY <1>0, <1>1, <2>1, <2>2, <2>3 DEF GrantTx, TypeOK,
     Local, NeedsConn, ScopePC, StatementPC, Statement, HoldsTurn, HasTurn,
     HoldsTail, HasTail, Entered, Unfinished, IsDone, IsTx, IsSession, Settled
  <2> QED BY <1>0, <2>6, <2>7, <2>8, EarlyAdvance DEF GrantTx
<1> QED BY <1>2, <1>3

LEMMA AcquireTxStep ==
  ASSUME IInv, NEW c \in Calls, AcquireTx(c)
  PROVE  Advance(c)
<1>0. TypeOK /\ Local(c) BY DEF IInv
<1>1. ~Statement(c) /\ pc[c] = "acquiring" /\ mark \in [Conns -> Mark] /\ tail' = tail
  BY <1>0 DEF AcquireTx, IsTx, Statement, TypeOK
<1>2. PICK k \in Conns :
        IF IsHealthy(k)
           THEN /\ Begin(c, k)
                /\ mark' = [mark EXCEPT ![k].activeScope = c]
                /\ idle' = idle \ {k}
                /\ UNCHANGED <<poisoned, open>>
           ELSE /\ NoResource(c)
                /\ Discard(c, k)
                /\ UNCHANGED turns
  BY <1>0 DEF AcquireTx, TypeOK
<1>9. Pooled BY <1>0 DEF AcquireTx, Local
<1>3. CASE IsHealthy(k)
  <2>1. /\ conn' \in [Calls -> Conns \cup {None}] /\ conn'[c] \in Conns
        /\ \A d \in Calls \ {c} : conn'[d] = conn[d]
        /\ pc' \in [Calls -> PC]
        /\ pc'[c] = "turn" \/ (pc'[c] = "drain" /\ scope'[c].closed)
        /\ \A d \in Calls \ {c} : pc'[d] = pc[d]
        /\ scope' \in [Calls -> Scope]
        /\ \A d \in Calls \ {c} : scope'[d].closed = scope[d].closed
        /\ turns' \in [Conns -> Seq(Calls)] /\ QueueStep(turns, turns', c)
    BY <1>0, <1>2, <1>3, BeginFacts
  <2>2. mark' \in [Conns -> Mark] /\ idle' \in SUBSET Conns /\ UNCHANGED <<poisoned, open>>
    <3>1. mark' = [mark EXCEPT ![k].activeScope = c] BY <1>2, <1>3
    <3>2. mark' \in [Conns -> Mark] BY <1>1, <3>1, ActiveMark
    <3> QED BY <1>0, <1>2, <1>3, <3>2 DEF TypeOK
  <2>6. TypeOK' BY <1>0, <1>1, <1>9, <2>1, <2>2 DEF AcquireTx, TypeOK
  <2>7. Moves(c) BY <1>0, <1>1, <1>9, <2>1, <2>2, Same DEF AcquireTx, Moves, TypeOK
  <2>8. Local(c)'
    BY <1>0, <1>1, <1>9, <2>1, <2>2 DEF AcquireTx, TypeOK,
     Local, NeedsConn, ScopePC, StatementPC, Statement, HoldsTurn, HasTurn,
     HoldsTail, HasTail, Entered, Unfinished, IsDone, IsTx, IsSession, Settled
  <2> QED BY <1>0, <2>6, <2>7, <2>8, EarlyAdvance DEF AcquireTx
<1>4. CASE ~IsHealthy(k)
  <2>1. /\ pc' \in [Calls -> PC] /\ pc'[c] = "finalize"
        /\ \A d \in Calls \ {c} : pc'[d] = pc[d]
        /\ scope' \in [Calls -> Scope]
        /\ \A d \in Calls : scope'[d].closed = scope[d].closed
    BY <1>0, <1>2, <1>4, NoResourceFacts
  <2>2. /\ poisoned' \in SUBSET Conns /\ idle' \in SUBSET Conns
        /\ mark' \in [Conns -> Mark] /\ open' \in [Conns -> Seq(Calls)]
        /\ conn' \in [Calls -> Conns \cup {None}] /\ conn'[c] = None
        /\ \A d \in Calls \ {c} : conn'[d] = conn[d] \/ pc[d] = "closed"
    BY <1>0, <1>2, <1>4, DiscardFacts
  <2>3. turns' = turns BY <1>2, <1>4
  <2>6. TypeOK' BY <1>0, <1>1, <1>9, <2>1, <2>2, <2>3 DEF AcquireTx, TypeOK
  <2>7. Moves(c) BY <1>0, <1>1, <1>9, <2>1, <2>2, <2>3, Same DEF AcquireTx, Moves, TypeOK
  <2>8. Local(c)'
    BY <1>0, <1>1, <1>9, <2>1, <2>2, <2>3 DEF AcquireTx, TypeOK,
     Local, NeedsConn, ScopePC, StatementPC, Statement, HoldsTurn, HasTurn,
     HoldsTail, HasTail, Entered, Unfinished, IsDone, IsTx, IsSession, Settled
  <2> QED BY <1>0, <2>6, <2>7, <2>8, EarlyAdvance DEF AcquireTx
<1> QED BY <1>3, <1>4

LEMMA TxStep ==
  ASSUME IInv, NEW c \in Calls, NEW h, NEW caller \in SUBSET Calls, Tx(c, h, caller)
  PROVE  Advance(c)
<1>0. TypeOK /\ Local(c) BY DEF IInv
<1>1. /\ pc[c] = "unborn" /\ conn[c] = None /\ ~Opened(c)
      /\ req' \in [Calls -> Request] /\ req'[c].caller = caller
      /\ req'[c].kind = "tx" /\ req'[c].via = h
      /\ \A d \in Calls \ {c} : req'[d] = req[d]
      /\ h \in Calls \cup {Root}
      /\ h # Root => /\ h # c /\ Opened(h) /\ conn[h] \in Conns
                     /\ (pc[h] = "body" /\ h \in caller) \/ scope[h].closed
  BY MakeFacts DEF Tx
<1> DEFINE k    == StateOf(h)
           root == h = Root /\ ~Pooled
           in   == InTransaction(h)
           s    == [NewScope EXCEPT !.txScope = c,
                      !.phase    = IF in THEN "savepoint" ELSE "begin",
                      !.prev     = IF in THEN mark[k].activeScope ELSE None,
                      !.rootPrev = IF root THEN mark[k].activeScope ELSE None]
<1>2. root \/ in => k \in Conns
  BY <1>1, DirectIsConn DEF StateOf, InTransaction
<1>3. s \in Scope
  <2>1. \A r \in Conns : mark[r] \in Mark BY <1>0 DEF TypeOK
  <2> HIDE DEF k, in, root
  <2> QED BY <1>2, <2>1, NewScopeType DEF Scope, Mark, Phase
<1> HIDE DEF s
<1>4. CASE Goto(c, "rejected") /\ UNCHANGED <<conn, scope, mark>>
  <2>1. /\ pc' \in [Calls -> PC] /\ pc'[c] = "rejected"
        /\ \A d \in Calls \ {c} : pc'[d] = pc[d]
    BY <1>0, <1>4, GotoFacts DEF PC, Settled
  <2>6. TypeOK' BY <1>0, <1>1, <1>4, <2>1 DEF Tx, TypeOK
  <2>7. Moves(c) BY <1>0, <1>1, <1>4, <2>1, Same DEF Tx, Moves, TypeOK
  <2>8. Local(c)'
    BY <1>0, <1>1, <1>4, <2>1 DEF Tx, TypeOK,
     Local, NeedsConn, ScopePC, StatementPC, Statement, HoldsTurn, HasTurn,
     HoldsTail, HasTail, Entered, Unfinished, IsDone, IsTx, IsSession, Settled
  <2>9. req'[c].via # Root =>
            /\ Opened(req'[c].via)
            /\ \/ pc'[c] = "rejected" \/ req'[c].kind \in {"execute", "stream"}
               \/ pc[req'[c].via] = "body" /\ req'[c].via \in req'[c].caller \ {c}
    BY <1>0, <1>1, <1>4, <2>1 DEF IsOpen
  <2> QED BY <1>1, <2>6, <2>7, <2>8, <2>9, FirstAdvance
<1>5. CASE /\ IsOpen(h)
           /\ Goto(c, IF in THEN "announce" ELSE "ready")
           /\ conn' = (IF in THEN [conn EXCEPT ![c] = k] ELSE conn)
           /\ SetScope(c, s)
           /\ mark' = (IF in \/ (h = Root /\ Conservative)
                         THEN [mark EXCEPT ![k].activeScope = c] ELSE mark)
  <2>1. /\ pc' \in [Calls -> PC] /\ pc'[c] = (IF in THEN "announce" ELSE "ready")
        /\ \A d \in Calls \ {c} : pc'[d] = pc[d]
        /\ scope' \in [Calls -> Scope]
        /\ \A d \in Calls \ {c} : scope'[d] = scope[d]
    BY <1>0, <1>3, <1>5, GotoFacts, SetScopeFacts DEF PC
  <2>2. mark' \in [Conns -> Mark]
    <3>1. mark \in [Conns -> Mark] BY <1>0 DEF TypeOK
    <3>2. h = Root /\ Conservative => k \in Conns BY <1>2, ScopeConstants
    <3> QED BY <1>2, <1>5, <3>1, <3>2, ActiveMark
  <2>3. conn' = (IF in THEN [conn EXCEPT ![c] = k] ELSE conn) BY <1>5
  <2>4. h # Root => pc[h] = "body" /\ h \in caller BY <1>1, <1>5 DEF IsOpen
  <2>5. in => k \in Conns /\ h # Root BY <1>2 DEF InTransaction
  <2> HIDE DEF k, in
  <2>6. TypeOK' BY <1>0, <1>1, <2>1, <2>2, <2>3, <2>4, <2>5 DEF Tx, TypeOK
  <2>7. Moves(c) BY <1>0, <1>1, <2>1, <2>2, <2>3, <2>4, <2>5, Same DEF Tx, Moves, TypeOK
  <2>8. Local(c)'
    BY <1>0, <1>1, <2>1, <2>2, <2>3, <2>4, <2>5 DEF Tx, TypeOK,
     Local, NeedsConn, ScopePC, StatementPC, Statement, HoldsTurn, HasTurn,
     HoldsTail, HasTail, Entered, Unfinished, IsDone, IsTx, IsSession, Settled
  <2>9. req'[c].via # Root =>
            /\ Opened(req'[c].via)
            /\ \/ pc'[c] = "rejected" \/ req'[c].kind \in {"execute", "stream"}
               \/ pc[req'[c].via] = "body" /\ req'[c].via \in req'[c].caller \ {c}
    BY <1>0, <1>1, <2>1, <2>2, <2>3, <2>4, <2>5 DEF IsOpen
  <2> QED BY <1>1, <2>6, <2>7, <2>8, <2>9, FirstAdvance
<1> QED BY <1>4, <1>5 DEF Tx, s

LEMMA ExecuteStep ==
  ASSUME IInv, NEW c \in Calls, NEW h, NEW caller \in SUBSET Calls, Execute(c, h, caller)
  PROVE  Advance(c)
<1>0. TypeOK /\ Local(c) BY DEF IInv
<1>1. /\ pc[c] = "unborn" /\ conn[c] = None /\ ~Opened(c)
      /\ req' \in [Calls -> Request] /\ req'[c].caller = caller
      /\ req'[c].kind = "execute" /\ req'[c].via = h
      /\ \A d \in Calls \ {c} : req'[d] = req[d]
      /\ h \in Calls \cup {Root}
      /\ h # Root => /\ h # c /\ Opened(h) /\ conn[h] \in Conns
                     /\ (pc[h] = "body" /\ h \in caller) \/ scope[h].closed
  BY MakeFacts DEF Execute
<1>2. PICK l \in {"ready", "rejected"} : Goto(c, l) BY DEF Execute
<1>3. CASE TRUE
  <2>1. /\ pc' \in [Calls -> PC] /\ pc'[c] = l
        /\ \A d \in Calls \ {c} : pc'[d] = pc[d]
    BY <1>0, <1>2, GotoFacts DEF PC, Settled
  <2>6. TypeOK' BY <1>0, <1>1, <2>1 DEF Execute, TypeOK
  <2>7. Moves(c) BY <1>0, <1>1, <2>1, Same DEF Execute, Moves, TypeOK
  <2>8. Local(c)'
    BY <1>0, <1>1, <2>1 DEF Execute, TypeOK,
     Local, NeedsConn, ScopePC, StatementPC, Statement, HoldsTurn, HasTurn,
     HoldsTail, HasTail, Entered, Unfinished, IsDone, IsTx, IsSession, Settled
  <2>9. req'[c].via # Root =>
            /\ Opened(req'[c].via)
            /\ \/ pc'[c] = "rejected" \/ req'[c].kind \in {"execute", "stream"}
               \/ pc[req'[c].via] = "body" /\ req'[c].via \in req'[c].caller \ {c}
    BY <1>0, <1>1, <2>1 DEF IsOpen
  <2> QED BY <1>1, <2>6, <2>7, <2>8, <2>9, FirstAdvance
<1> QED BY <1>3

LEMMA StreamStep ==
  ASSUME IInv, NEW c \in Calls, NEW h, NEW caller \in SUBSET Calls, Stream(c, h, caller)
  PROVE  Advance(c)
<1>0. TypeOK /\ Local(c) BY DEF IInv
<1>1. /\ pc[c] = "unborn" /\ conn[c] = None /\ ~Opened(c)
      /\ req' \in [Calls -> Request] /\ req'[c].caller = caller
      /\ req'[c].kind = "stream" /\ req'[c].via = h
      /\ \A d \in Calls \ {c} : req'[d] = req[d]
      /\ h \in Calls \cup {Root}
      /\ h # Root => /\ h # c /\ Opened(h) /\ conn[h] \in Conns
                     /\ (pc[h] = "body" /\ h \in caller) \/ scope[h].closed
  BY MakeFacts DEF Stream
<1>2. PICK l \in {"ready", "rejected"} : Goto(c, l) BY DEF Stream
<1>3. /\ scope' \in [Calls -> Scope]
      /\ \A d \in Calls : scope'[d].closed = scope[d].closed
  <2>1. CASE scope' = scope BY <1>0, <2>1 DEF TypeOK
  <2>2. CASE h # Root /\ scope' = [scope EXCEPT ![h].streams = Append(@, c)]
    <3> DEFINE s == [scope[h] EXCEPT !.streams = Append(@, c)]
    <3>1. h \in Calls /\ scope[h] \in Scope BY <1>0, <1>1, <2>2 DEF TypeOK
    <3>2. Append(scope[h].streams, c) \in Seq(Calls) BY <3>1 DEF Scope
    <3>3. s \in Scope /\ s.closed = scope[h].closed BY <3>1, <3>2 DEF Scope
    <3>4. scope' = [scope EXCEPT ![h] = s] BY <2>2
    <3> HIDE DEF s
    <3> QED BY <1>0, <3>1, <3>3, <3>4 DEF TypeOK
  <2> QED BY <2>1, <2>2 DEF Stream
<1>4. mark' \in [Conns -> Mark]
  <2>1. StateOf(h) \in Conns \cup {None} BY <1>0, <1>1, StateOfType
  <2>2. CASE mark' = mark BY <1>0, <2>2 DEF TypeOK
  <2>3. CASE Admission(StateOf(h), 1, 0) BY <1>0, <2>1, <2>3, AdmissionType
  <2> QED BY <2>2, <2>3 DEF Stream
<1>5. CASE TRUE
  <2>1. /\ pc' \in [Calls -> PC] /\ pc'[c] = l
        /\ \A d \in Calls \ {c} : pc'[d] = pc[d]
    BY <1>0, <1>2, GotoFacts DEF PC, Settled
  <2>6. TypeOK' BY <1>0, <1>1, <1>3, <1>4, <2>1 DEF Stream, TypeOK
  <2>7. Moves(c) BY <1>0, <1>1, <1>3, <1>4, <2>1, Same DEF Stream, Moves, TypeOK
  <2>8. Local(c)'
    BY <1>0, <1>1, <1>3, <1>4, <2>1 DEF Stream, TypeOK,
     Local, NeedsConn, ScopePC, StatementPC, Statement, HoldsTurn, HasTurn,
     HoldsTail, HasTail, Entered, Unfinished, IsDone, IsTx, IsSession, Settled
  <2>9. req'[c].via # Root =>
            /\ Opened(req'[c].via)
            /\ \/ pc'[c] = "rejected" \/ req'[c].kind \in {"execute", "stream"}
               \/ pc[req'[c].via] = "body" /\ req'[c].via \in req'[c].caller \ {c}
    BY <1>0, <1>1, <1>3, <1>4, <2>1 DEF IsOpen
  <2> QED BY <1>1, <2>6, <2>7, <2>8, <2>9, FirstAdvance
<1> QED BY <1>5

LEMMA RefuseStep ==
  ASSUME IInv, NEW c \in Calls, Refuse(c)
  PROVE  Advance(c)
<1>0. TypeOK /\ Local(c) BY DEF IInv
<1>1. CASE TRUE
  <2>1. /\ pc' \in [Calls -> PC] /\ pc'[c] = "rejected"
        /\ \A d \in Calls \ {c} : pc'[d] = pc[d]
        /\ scope' \in [Calls -> Scope]
        /\ \A d \in Calls : scope'[d].closed = scope[d].closed
        /\ mark' \in [Conns -> Mark]
    BY <1>0, AbandonFacts DEF Refuse
  <2>6. TypeOK' BY <1>0, <2>1 DEF Refuse, TypeOK
  <2>7. Moves(c) BY <1>0, <2>1, Same DEF Refuse, Moves, TypeOK
  <2>8. Local(c)'
    BY <1>0, <2>1 DEF Refuse, TypeOK,
     Local, NeedsConn, ScopePC, StatementPC, Statement, HoldsTurn, HasTurn,
     HoldsTail, HasTail, Entered, Unfinished, IsDone, IsTx, IsSession, Settled
  <2> QED BY <1>0, <2>6, <2>7, <2>8, EarlyAdvance DEF Refuse
<1> QED BY <1>1

LEMMA GrantTurnStep ==
  ASSUME IInv, NEW c \in Calls, GrantTurn(c)
  PROVE  Advance(c)
<1>0. TypeOK /\ Local(c) BY DEF IInv
<1>1. /\ conn[c] \in Conns /\ pc[c] = "queued" /\ Statement(c) /\ req[c].via # Root
      /\ tail \in [Conns -> Seq(Calls)] /\ turns \in [Conns -> Seq(Calls)]
      /\ HasTurn(c)
  BY <1>0 DEF GrantTurn, TypeOK, Local, NeedsConn
<1>2. CASE Start(c, conn[c]) /\ UNCHANGED <<scope, turns>>
  <2>1. /\ pc' \in [Calls -> PC] /\ pc'[c] = "running"
        /\ \A d \in Calls \ {c} : pc'[d] = pc[d]
        /\ conn' \in [Calls -> Conns \cup {None}] /\ conn'[c] = conn[c]
        /\ \A d \in Calls \ {c} : conn'[d] = conn[d]
        /\ mark' \in [Conns -> Mark]
    BY <1>0, <1>1, <1>2, StartFacts
  <2>2. HasTurn(c)' BY <1>0, <1>1, <1>2, <2>1 DEF HasTurn
  <2>6. TypeOK' BY <1>0, <1>1, <1>2, <2>1, <2>2 DEF GrantTurn, TypeOK
  <2>7. Moves(c) BY <1>0, <1>1, <1>2, <2>1, <2>2, Same DEF GrantTurn, Moves, TypeOK
  <2>8. Local(c)'
    BY <1>0, <1>1, <1>2, <2>1, <2>2 DEF GrantTurn, TypeOK,
     Local, NeedsConn, ScopePC, StatementPC, Statement, HoldsTurn, HasTurn,
     HoldsTail, HasTail, Entered, Unfinished, IsDone, IsTx, IsSession, Settled
  <2> QED BY <1>0, <2>6, <2>7, <2>8, EarlyAdvance DEF GrantTurn
<1>3. CASE /\ Abandon(c) /\ UNCHANGED conn
           /\ turns' = [turns EXCEPT ![conn[c]] = Tail(@)]
  <2>1. /\ pc' \in [Calls -> PC] /\ pc'[c] = "rejected"
        /\ \A d \in Calls \ {c} : pc'[d] = pc[d]
        /\ scope' \in [Calls -> Scope]
        /\ \A d \in Calls : scope'[d].closed = scope[d].closed
        /\ mark' \in [Conns -> Mark]
    BY <1>0, <1>3, AbandonFacts
  <2>2. turns' \in [Conns -> Seq(Calls)] /\ QueueStep(turns, turns', c)
    BY <1>1, <1>3, Pop DEF HasTurn
  <2>3. conn' = conn BY <1>3
  <2>6. TypeOK' BY <1>0, <1>1, <2>1, <2>2, <2>3 DEF GrantTurn, TypeOK
  <2>7. Moves(c) BY <1>0, <1>1, <2>1, <2>2, <2>3, Same DEF GrantTurn, Moves, TypeOK
  <2>8. Local(c)'
    BY <1>0, <1>1, <2>1, <2>2, <2>3 DEF GrantTurn, TypeOK,
     Local, NeedsConn, ScopePC, StatementPC, Statement, HoldsTurn, HasTurn,
     HoldsTail, HasTail, Entered, Unfinished, IsDone, IsTx, IsSession, Settled
  <2> QED BY <1>0, <2>6, <2>7, <2>8, EarlyAdvance DEF GrantTurn
<1> QED BY <1>2, <1>3 DEF GrantTurn

LEMMA GrantTailStep ==
  ASSUME IInv, NEW c \in Calls, GrantTail(c)
  PROVE  Advance(c)
<1>0. TypeOK /\ Local(c) BY DEF IInv
<1>1. /\ conn[c] \in Conns /\ pc[c] = "queued" /\ Statement(c) /\ req[c].via = Root
      /\ tail \in [Conns -> Seq(Calls)] /\ turns \in [Conns -> Seq(Calls)]
      /\ HasTail(c)
  BY <1>0 DEF GrantTail, TypeOK, Local, NeedsConn
<1>2. CASE Start(c, conn[c]) /\ UNCHANGED <<scope, tail>>
  <2>1. /\ pc' \in [Calls -> PC] /\ pc'[c] = "running"
        /\ \A d \in Calls \ {c} : pc'[d] = pc[d]
        /\ conn' \in [Calls -> Conns \cup {None}] /\ conn'[c] = conn[c]
        /\ \A d \in Calls \ {c} : conn'[d] = conn[d]
        /\ mark' \in [Conns -> Mark]
    BY <1>0, <1>1, <1>2, StartFacts
  <2>2. HasTail(c)' BY <1>0, <1>1, <1>2, <2>1 DEF HasTail
  <2>6. TypeOK' BY <1>0, <1>1, <1>2, <2>1, <2>2 DEF GrantTail, TypeOK
  <2>7. Moves(c) BY <1>0, <1>1, <1>2, <2>1, <2>2, Same DEF GrantTail, Moves, TypeOK
  <2>8. Local(c)'
    BY <1>0, <1>1, <1>2, <2>1, <2>2 DEF GrantTail, TypeOK,
     Local, NeedsConn, ScopePC, StatementPC, Statement, HoldsTurn, HasTurn,
     HoldsTail, HasTail, Entered, Unfinished, IsDone, IsTx, IsSession, Settled
  <2> QED BY <1>0, <2>6, <2>7, <2>8, EarlyAdvance DEF GrantTail
<1>3. CASE /\ Abandon(c) /\ UNCHANGED conn
           /\ tail' = [tail EXCEPT ![conn[c]] = Tail(@)]
  <2>1. /\ pc' \in [Calls -> PC] /\ pc'[c] = "rejected"
        /\ \A d \in Calls \ {c} : pc'[d] = pc[d]
        /\ scope' \in [Calls -> Scope]
        /\ \A d \in Calls : scope'[d].closed = scope[d].closed
        /\ mark' \in [Conns -> Mark]
    BY <1>0, <1>3, AbandonFacts
  <2>2. tail' \in [Conns -> Seq(Calls)] /\ QueueStep(tail, tail', c)
    BY <1>1, <1>3, Pop DEF HasTail
  <2>3. conn' = conn BY <1>3
  <2>6. TypeOK' BY <1>0, <1>1, <2>1, <2>2, <2>3 DEF GrantTail, TypeOK
  <2>7. Moves(c) BY <1>0, <1>1, <2>1, <2>2, <2>3, Same DEF GrantTail, Moves, TypeOK
  <2>8. Local(c)'
    BY <1>0, <1>1, <2>1, <2>2, <2>3 DEF GrantTail, TypeOK,
     Local, NeedsConn, ScopePC, StatementPC, Statement, HoldsTurn, HasTurn,
     HoldsTail, HasTail, Entered, Unfinished, IsDone, IsTx, IsSession, Settled
  <2> QED BY <1>0, <2>6, <2>7, <2>8, EarlyAdvance DEF GrantTail
<1> QED BY <1>2, <1>3 DEF GrantTail

LEMMA GrantSessionStep ==
  ASSUME IInv, NEW c \in Calls, GrantSession(c)
  PROVE  Advance(c)
<1>0. TypeOK /\ Local(c) BY DEF IInv
<1>1. /\ conn[c] \in Conns /\ ~Statement(c) /\ pc[c] = "queued"
      /\ mark \in [Conns -> Mark] /\ tail \in [Conns -> Seq(Calls)]
  BY <1>0 DEF GrantSession, IsSession, Statement, TypeOK, Local, NeedsConn
<1>2. CASE IsHealthy(conn[c])
  <2>1. /\ pc' \in [Calls -> PC] /\ pc'[c] = "body"
        /\ \A d \in Calls \ {c} : pc'[d] = pc[d]
        /\ scope' \in [Calls -> Scope]
        /\ \A d \in Calls \ {c} : scope'[d] = scope[d]
    <3> DEFINE s == [scope[c] EXCEPT !.prev = mark[conn[c]].activeSession]
    <3>1. mark[conn[c]] \in Mark /\ scope[c] \in Scope BY <1>0, <1>1 DEF TypeOK
    <3>2. s \in Scope BY <3>1, NewScopeType DEF Scope, Mark
    <3>3. SetScope(c, s) /\ Goto(c, "body") BY <1>2 DEF GrantSession
    <3> HIDE DEF s
    <3> QED BY <1>0, <3>2, <3>3, GotoFacts, SetScopeFacts DEF PC
  <2>2. OpenSession(c, conn[c]) /\ tail' = tail /\ HasTail(c) BY <1>2 DEF GrantSession
  <2>3. mark' \in [Conns -> Mark] BY <1>0, <1>1, <2>2, OpenSessionType
  <2>4. HoldsTail(c)' => HasTail(c)'
    BY <2>2 DEF GrantSession, HasTail
  <2>6. TypeOK' BY <1>0, <1>1, <2>1, <2>2, <2>3, <2>4 DEF GrantSession, TypeOK
  <2>7. Moves(c) BY <1>0, <1>1, <2>1, <2>2, <2>3, <2>4, Same DEF GrantSession, Moves, TypeOK
  <2>8. Local(c)'
    BY <1>0, <1>1, <2>1, <2>2, <2>3, <2>4 DEF GrantSession, TypeOK,
     Local, NeedsConn, ScopePC, StatementPC, Statement, HoldsTurn, HasTurn,
     HoldsTail, HasTail, Entered, Unfinished, IsDone, IsTx, IsSession, Settled
  <2> QED BY <1>0, <2>6, <2>7, <2>8, EarlyAdvance DEF GrantSession
<1>3. CASE ~IsHealthy(conn[c])
  <2>1. /\ pc' \in [Calls -> PC] /\ pc'[c] = "rejected"
        /\ \A d \in Calls \ {c} : pc'[d] = pc[d]
    BY <1>0, <1>3, GotoFacts DEF GrantSession, PC, Settled
  <2>2. tail' \in [Conns -> Seq(Calls)] /\ QueueStep(tail, tail', c)
    <3>1. tail' = [tail EXCEPT ![conn[c]] = Tail(@)] /\ HasTail(c)
      BY <1>3 DEF GrantSession
    <3> QED BY <1>1, <3>1, Pop DEF HasTail
  <2>3. UNCHANGED <<scope, mark>> BY <1>3 DEF GrantSession
  <2>6. TypeOK' BY <1>0, <1>1, <2>1, <2>2, <2>3 DEF GrantSession, TypeOK
  <2>7. Moves(c) BY <1>0, <1>1, <2>1, <2>2, <2>3, Same DEF GrantSession, Moves, TypeOK
  <2>8. Local(c)'
    BY <1>0, <1>1, <2>1, <2>2, <2>3 DEF GrantSession, TypeOK,
     Local, NeedsConn, ScopePC, StatementPC, Statement, HoldsTurn, HasTurn,
     HoldsTail, HasTail, Entered, Unfinished, IsDone, IsTx, IsSession, Settled
  <2> QED BY <1>0, <2>6, <2>7, <2>8, EarlyAdvance DEF GrantSession
<1> QED BY <1>2, <1>3

LEMMA AcquireSessionStep ==
  ASSUME IInv, NEW c \in Calls, AcquireSession(c)
  PROVE  Advance(c)
<1>0. TypeOK /\ Local(c) BY DEF IInv
<1>1. /\ ~Statement(c) /\ pc[c] = "acquiring" /\ mark \in [Conns -> Mark] /\ Pooled
  BY <1>0 DEF AcquireSession, IsSession, Statement, TypeOK, Local
<1>2. PICK k \in Conns :
        IF IsHealthy(k)
           THEN /\ Goto(c, "body")
                /\ conn' = [conn EXCEPT ![c] = k]
                /\ SetScope(c, [NewScope EXCEPT !.prev = mark[k].activeSession])
                /\ OpenSession(c, k)
                /\ idle' = idle \ {k}
                /\ UNCHANGED <<poisoned, open>>
           ELSE Goto(c, "rejected") /\ Discard(c, k) /\ UNCHANGED scope
  BY <1>0 DEF AcquireSession, TypeOK
<1>3. CASE IsHealthy(k)
  <2>1. /\ pc' \in [Calls -> PC] /\ pc'[c] = "body"
        /\ \A d \in Calls \ {c} : pc'[d] = pc[d]
        /\ scope' \in [Calls -> Scope]
        /\ \A d \in Calls \ {c} : scope'[d] = scope[d]
    <3> DEFINE s == [NewScope EXCEPT !.prev = mark[k].activeSession]
    <3>1. mark[k] \in Mark /\ scope[c] \in Scope BY <1>0, <1>1 DEF TypeOK
    <3>2. s \in Scope BY <3>1, NewScopeType DEF Scope, Mark
    <3>3. SetScope(c, s) /\ Goto(c, "body") BY <1>2, <1>3
    <3> HIDE DEF s
    <3> QED BY <1>0, <3>2, <3>3, GotoFacts, SetScopeFacts DEF PC
  <2>2. mark' \in [Conns -> Mark] BY <1>0, <1>2, <1>3, OpenSessionType
  <2>3. conn' = [conn EXCEPT ![c] = k] /\ idle' = idle \ {k} /\ UNCHANGED <<poisoned, open>>
    BY <1>2, <1>3
  <2>6. TypeOK' BY <1>0, <1>1, <2>1, <2>2, <2>3 DEF AcquireSession, TypeOK
  <2>7. Moves(c) BY <1>0, <1>1, <2>1, <2>2, <2>3, Same DEF AcquireSession, Moves, TypeOK
  <2>8. Local(c)'
    BY <1>0, <1>1, <2>1, <2>2, <2>3 DEF AcquireSession, TypeOK,
     Local, NeedsConn, ScopePC, StatementPC, Statement, HoldsTurn, HasTurn,
     HoldsTail, HasTail, Entered, Unfinished, IsDone, IsTx, IsSession, Settled
  <2> QED BY <1>0, <2>6, <2>7, <2>8, EarlyAdvance DEF AcquireSession
<1>4. CASE ~IsHealthy(k)
  <2>1. /\ pc' \in [Calls -> PC] /\ pc'[c] = "rejected"
        /\ \A d \in Calls \ {c} : pc'[d] = pc[d]
    BY <1>0, <1>2, <1>4, GotoFacts DEF PC, Settled
  <2>2. /\ poisoned' \in SUBSET Conns /\ idle' \in SUBSET Conns
        /\ mark' \in [Conns -> Mark] /\ open' \in [Conns -> Seq(Calls)]
        /\ conn' \in [Calls -> Conns \cup {None}] /\ conn'[c] = None
        /\ \A d \in Calls \ {c} : conn'[d] = conn[d] \/ pc[d] = "closed"
    BY <1>0, <1>2, <1>4, DiscardFacts
  <2>3. scope' = scope BY <1>2, <1>4
  <2>6. TypeOK' BY <1>0, <1>1, <2>1, <2>2, <2>3 DEF AcquireSession, TypeOK
  <2>7. Moves(c) BY <1>0, <1>1, <2>1, <2>2, <2>3, Same DEF AcquireSession, Moves, TypeOK
  <2>8. Local(c)'
    BY <1>0, <1>1, <2>1, <2>2, <2>3 DEF AcquireSession, TypeOK,
     Local, NeedsConn, ScopePC, StatementPC, Statement, HoldsTurn, HasTurn,
     HoldsTail, HasTail, Entered, Unfinished, IsDone, IsTx, IsSession, Settled
  <2> QED BY <1>0, <2>6, <2>7, <2>8, EarlyAdvance DEF AcquireSession
<1> QED BY <1>3, <1>4

LEMMA SessionStep ==
  ASSUME IInv, NEW c \in Calls, NEW h, NEW caller \in SUBSET Calls, Session(c, h, caller)
  PROVE  Advance(c)
<1>0. TypeOK /\ Local(c) BY DEF IInv
<1>1. /\ pc[c] = "unborn" /\ conn[c] = None /\ ~Opened(c)
      /\ req' \in [Calls -> Request] /\ req'[c].caller = caller
      /\ req'[c].kind = "session" /\ req'[c].via = h
      /\ \A d \in Calls \ {c} : req'[d] = req[d]
      /\ h \in Calls \cup {Root}
      /\ h # Root => /\ h # c /\ Opened(h) /\ conn[h] \in Conns
                     /\ (pc[h] = "body" /\ h \in caller) \/ scope[h].closed
  BY MakeFacts DEF Session
<1>2. h # Root \/ ~Pooled => StateOf(h) \in Conns
  BY <1>1, DirectIsConn DEF StateOf
<1> DEFINE k == StateOf(h)
           entered == [NewScope EXCEPT
             !.txScope  = IF InTransaction(h) THEN mark[k].activeScope ELSE None,
             !.prev     = mark[k].activeSession,
             !.rootPrev = mark[k].activeSession]
<1>3. k \in Conns => entered \in Scope
  <2> SUFFICES ASSUME k \in Conns PROVE entered \in Scope OBVIOUS
  <2>1. mark[k] \in Mark BY <1>0 DEF TypeOK
  <2> HIDE DEF k
  <2> QED BY <2>1, NewScopeType DEF Scope, Mark
<1> HIDE DEF entered
<1>4. CASE Goto(c, "rejected") /\ UNCHANGED <<conn, scope, tail, mark>>
  <2>1. /\ pc' \in [Calls -> PC] /\ pc'[c] = "rejected"
        /\ \A d \in Calls \ {c} : pc'[d] = pc[d]
    BY <1>0, <1>4, GotoFacts DEF PC, Settled
  <2>6. TypeOK' BY <1>0, <1>1, <1>4, <2>1 DEF Session, TypeOK
  <2>7. Moves(c) BY <1>0, <1>1, <1>4, <2>1, Same DEF Session, Moves, TypeOK
  <2>8. Local(c)'
    BY <1>0, <1>1, <1>4, <2>1 DEF Session, TypeOK,
     Local, NeedsConn, ScopePC, StatementPC, Statement, HoldsTurn, HasTurn,
     HoldsTail, HasTail, Entered, Unfinished, IsDone, IsTx, IsSession, Settled
  <2>9. req'[c].via # Root =>
            /\ Opened(req'[c].via)
            /\ \/ pc'[c] = "rejected" \/ req'[c].kind \in {"execute", "stream"}
               \/ pc[req'[c].via] = "body" /\ req'[c].via \in req'[c].caller \ {c}
    BY <1>0, <1>1, <1>4, <2>1 DEF IsOpen
  <2> QED BY <1>1, <2>6, <2>7, <2>8, <2>9, FirstAdvance
<1>5. CASE /\ IsOpen(h) /\ (h # Root \/ Conservative)
           /\ Goto(c, "body") /\ conn' = [conn EXCEPT ![c] = k]
           /\ SetScope(c, entered) /\ OpenSession(c, k) /\ UNCHANGED tail
  <2>1. k \in Conns BY <1>2, <1>5, ScopeConstants
  <2>2. /\ pc' \in [Calls -> PC] /\ pc'[c] = "body"
        /\ \A d \in Calls \ {c} : pc'[d] = pc[d]
        /\ scope' \in [Calls -> Scope]
        /\ \A d \in Calls \ {c} : scope'[d] = scope[d]
    BY <1>0, <1>3, <1>5, <2>1, GotoFacts, SetScopeFacts DEF PC
  <2>3. mark' \in [Conns -> Mark] BY <1>0, <1>5, <2>1, OpenSessionType
  <2>4. h = Root => Conservative BY <1>5
  <2>5. conn' = [conn EXCEPT ![c] = k] /\ tail' = tail BY <1>5
  <2>0. h # Root => pc[h] = "body" /\ h \in caller BY <1>1, <1>5 DEF IsOpen
  <2> HIDE DEF k
  <2>6. TypeOK' BY <1>0, <1>1, <2>0, <2>1, <2>2, <2>3, <2>4, <2>5 DEF Session, TypeOK
  <2>7. Moves(c) BY <1>0, <1>1, <2>0, <2>1, <2>2, <2>3, <2>4, <2>5, Same DEF Session, Moves, TypeOK
  <2>8. Local(c)'
    BY <1>0, <1>1, <2>0, <2>1, <2>2, <2>3, <2>4, <2>5 DEF Session, TypeOK,
     Local, NeedsConn, ScopePC, StatementPC, Statement, HoldsTurn, HasTurn,
     HoldsTail, HasTail, Entered, Unfinished, IsDone, IsTx, IsSession, Settled
  <2>9. req'[c].via # Root =>
            /\ Opened(req'[c].via)
            /\ \/ pc'[c] = "rejected" \/ req'[c].kind \in {"execute", "stream"}
               \/ pc[req'[c].via] = "body" /\ req'[c].via \in req'[c].caller \ {c}
    BY <1>0, <1>1, <2>0, <2>1, <2>2, <2>3, <2>4, <2>5 DEF IsOpen
  <2> QED BY <1>1, <2>6, <2>7, <2>8, <2>9, FirstAdvance
<1>6. CASE /\ h = Root /\ Pooled
           /\ Goto(c, "acquiring") /\ UNCHANGED <<conn, scope, tail, mark>>
  <2>1. /\ pc' \in [Calls -> PC] /\ pc'[c] = "acquiring"
        /\ \A d \in Calls \ {c} : pc'[d] = pc[d]
    BY <1>0, <1>6, GotoFacts DEF PC
  <2>6. TypeOK' BY <1>0, <1>1, <1>6, <2>1 DEF Session, TypeOK
  <2>7. Moves(c) BY <1>0, <1>1, <1>6, <2>1, Same DEF Session, Moves, TypeOK
  <2>8. Local(c)'
    BY <1>0, <1>1, <1>6, <2>1 DEF Session, TypeOK,
     Local, NeedsConn, ScopePC, StatementPC, Statement, HoldsTurn, HasTurn,
     HoldsTail, HasTail, Entered, Unfinished, IsDone, IsTx, IsSession, Settled
  <2>9. req'[c].via # Root =>
            /\ Opened(req'[c].via)
            /\ \/ pc'[c] = "rejected" \/ req'[c].kind \in {"execute", "stream"}
               \/ pc[req'[c].via] = "body" /\ req'[c].via \in req'[c].caller \ {c}
    BY <1>0, <1>1, <1>6, <2>1 DEF IsOpen
  <2> QED BY <1>1, <2>6, <2>7, <2>8, <2>9, FirstAdvance
<1>7. CASE /\ h = Root /\ ~Pooled /\ ~Conservative
           /\ Goto(c, "queued") /\ conn' = [conn EXCEPT ![c] = k]
           /\ SetScope(c, entered)
           /\ tail' = [tail EXCEPT ![k] = Append(@, c)] /\ UNCHANGED mark
  <2>1. k \in Conns BY <1>2, <1>7
  <2>2. /\ pc' \in [Calls -> PC] /\ pc'[c] = "queued"
        /\ \A d \in Calls \ {c} : pc'[d] = pc[d]
        /\ scope' \in [Calls -> Scope]
        /\ \A d \in Calls \ {c} : scope'[d] = scope[d]
    BY <1>0, <1>3, <1>7, <2>1, GotoFacts, SetScopeFacts DEF PC
  <2>3. tail' \in [Conns -> Seq(Calls)] /\ QueueStep(tail, tail', c)
    <3>1. tail \in [Conns -> Seq(Calls)] BY <1>0 DEF TypeOK
    <3> QED BY <1>7, <2>1, <3>1, Push
  <2>4. conn' = [conn EXCEPT ![c] = k] /\ mark' = mark /\ h = Root BY <1>7
  <2> HIDE DEF k
  <2>6. TypeOK' BY <1>0, <1>1, <2>1, <2>2, <2>3, <2>4 DEF Session, TypeOK
  <2>7. Moves(c) BY <1>0, <1>1, <2>1, <2>2, <2>3, <2>4, Same DEF Session, Moves, TypeOK
  <2>8. Local(c)'
    BY <1>0, <1>1, <2>1, <2>2, <2>3, <2>4 DEF Session, TypeOK,
     Local, NeedsConn, ScopePC, StatementPC, Statement, HoldsTurn, HasTurn,
     HoldsTail, HasTail, Entered, Unfinished, IsDone, IsTx, IsSession, Settled
  <2>9. req'[c].via # Root =>
            /\ Opened(req'[c].via)
            /\ \/ pc'[c] = "rejected" \/ req'[c].kind \in {"execute", "stream"}
               \/ pc[req'[c].via] = "body" /\ req'[c].via \in req'[c].caller \ {c}
    BY <1>0, <1>1, <2>1, <2>2, <2>3, <2>4 DEF IsOpen
  <2> QED BY <1>1, <2>6, <2>7, <2>8, <2>9, FirstAdvance
<1> QED BY <1>4, <1>5, <1>6, <1>7 DEF Session, entered

LEMMA AcquireStep ==
  ASSUME IInv, NEW c \in Calls, Acquire(c)
  PROVE  Advance(c)
<1>0. TypeOK /\ Local(c) BY DEF IInv
<1>1. /\ pc[c] = "acquiring" /\ Statement(c) /\ Pooled /\ req[c].via = Root /\ idle \in SUBSET Conns
  BY <1>0 DEF Acquire, Local, TypeOK
<1>2. PICK k \in Conns :
        IF IsHealthy(k)
           THEN /\ Start(c, k)
                /\ idle' = idle \ {k}
                /\ UNCHANGED <<scope, poisoned, open>>
           ELSE /\ Goto(c, "rejected")
                /\ Discard(c, k)
                /\ UNCHANGED scope
  BY <1>1 DEF Acquire
<1>3. CASE IsHealthy(k)
  <2>1. /\ pc' \in [Calls -> PC] /\ pc'[c] = "running"
        /\ \A d \in Calls \ {c} : pc'[d] = pc[d]
        /\ conn' \in [Calls -> Conns \cup {None}] /\ conn'[c] = k
        /\ \A d \in Calls \ {c} : conn'[d] = conn[d]
        /\ mark' \in [Conns -> Mark]
    BY <1>0, <1>2, <1>3, StartFacts
  <2>2. idle' = idle \ {k} /\ UNCHANGED <<scope, poisoned, open>> BY <1>2, <1>3
  <2>6. TypeOK' BY <1>0, <1>1, <2>1, <2>2 DEF Acquire, TypeOK
  <2>7. Moves(c) BY <1>0, <1>1, <2>1, <2>2, Same DEF Acquire, Moves, TypeOK
  <2>8. Local(c)'
    BY <1>0, <1>1, <2>1, <2>2 DEF Acquire, TypeOK,
     Local, NeedsConn, ScopePC, StatementPC, Statement, HoldsTurn, HasTurn,
     HoldsTail, HasTail, Entered, Unfinished, IsDone, IsTx, IsSession, Settled
  <2> QED BY <1>0, <2>6, <2>7, <2>8, EarlyAdvance DEF Acquire
<1>4. CASE ~IsHealthy(k)
  <2>1. /\ pc' \in [Calls -> PC] /\ pc'[c] = "rejected"
        /\ \A d \in Calls \ {c} : pc'[d] = pc[d]
    BY <1>0, <1>2, <1>4, GotoFacts DEF PC, Settled
  <2>2. /\ poisoned' \in SUBSET Conns /\ idle' \in SUBSET Conns
        /\ mark' \in [Conns -> Mark] /\ open' \in [Conns -> Seq(Calls)]
        /\ conn' \in [Calls -> Conns \cup {None}] /\ conn'[c] = None
        /\ \A d \in Calls \ {c} : conn'[d] = conn[d] \/ pc[d] = "closed"
    BY <1>0, <1>2, <1>4, DiscardFacts
  <2>3. scope' = scope BY <1>2, <1>4
  <2>6. TypeOK' BY <1>0, <1>1, <2>1, <2>2, <2>3 DEF Acquire, TypeOK
  <2>7. Moves(c) BY <1>0, <1>1, <2>1, <2>2, <2>3, Same DEF Acquire, Moves, TypeOK
  <2>8. Local(c)'
    BY <1>0, <1>1, <2>1, <2>2, <2>3 DEF Acquire, TypeOK,
     Local, NeedsConn, ScopePC, StatementPC, Statement, HoldsTurn, HasTurn,
     HoldsTail, HasTail, Entered, Unfinished, IsDone, IsTx, IsSession, Settled
  <2> QED BY <1>0, <2>6, <2>7, <2>8, EarlyAdvance DEF Acquire
<1> QED BY <1>3, <1>4

LEMMA BusyMark ==
  ASSUME NEW m \in [Conns -> Mark], NEW k \in Conns, NEW p \in Int, NEW u \in Int
  PROVE  [m EXCEPT ![k].directBusy = TRUE, ![k].pendingStreams = p,
                   ![k].streamUsers = u] \in [Conns -> Mark]
<1>1. /\ m[k] \in Mark
      /\ [m[k] EXCEPT !.directBusy = TRUE, !.pendingStreams = p, !.streamUsers = u] \in Mark
  BY DEF Mark
<1> QED BY <1>1

LEMMA LeaseStep ==
  ASSUME IInv, NEW c \in Calls, Lease(c)
  PROVE  Advance(c)
<1>0. TypeOK /\ Local(c) BY DEF IInv
<1>1. /\ pc[c] = "ready" /\ Statement(c) /\ IsOpen(req[c].via)
      /\ req[c].via \in Calls \cup {Root} /\ mark \in [Conns -> Mark]
      /\ tail \in [Conns -> Seq(Calls)] /\ turns \in [Conns -> Seq(Calls)]
      /\ req' = req
  BY <1>0 DEF Lease, CanLease, TypeOK, Request
<1> DEFINE k == StateOf(req[c].via)
<1>2. req[c].via # Root \/ ~Pooled => k \in Conns
  BY <1>1, DirectIsConn, HandleFacts DEF StateOf
<1>3. CASE /\ req[c].via # Root
           /\ Goto(c, "queued")
           /\ conn' = [conn EXCEPT ![c] = k]
           /\ turns' = [turns EXCEPT ![k] = Append(@, c)]
           /\ UNCHANGED <<tail, mark>>
  <2>1. /\ pc' \in [Calls -> PC] /\ pc'[c] = "queued"
        /\ \A d \in Calls \ {c} : pc'[d] = pc[d]
    BY <1>0, <1>3, GotoFacts DEF PC
  <2>2. turns' \in [Conns -> Seq(Calls)] /\ QueueStep(turns, turns', c)
    BY <1>1, <1>2, <1>3, Push
  <2>3. k \in Conns /\ conn' = [conn EXCEPT ![c] = k] /\ UNCHANGED <<tail, mark>>
    BY <1>2, <1>3
  <2> HIDE DEF k
  <2>6. TypeOK' BY <1>0, <1>1, <2>1, <2>2, <2>3 DEF Lease, TypeOK
  <2>7. Moves(c) BY <1>0, <1>1, <2>1, <2>2, <2>3, Same DEF Lease, Moves, TypeOK
  <2>8. Local(c)'
    BY <1>0, <1>1, <2>1, <2>2, <2>3 DEF Lease, TypeOK,
     Local, NeedsConn, ScopePC, StatementPC, Statement, HoldsTurn, HasTurn,
     HoldsTail, HasTail, Entered, Unfinished, IsDone, IsTx, IsSession, Settled
  <2> QED BY <1>0, <2>6, <2>7, <2>8, EarlyAdvance DEF Lease
<1>4. CASE req[c].via = Root /\ Pooled
           /\ Goto(c, "acquiring") /\ UNCHANGED <<conn, tail, turns, mark>>
  <2>1. /\ pc' \in [Calls -> PC] /\ pc'[c] = "acquiring"
        /\ \A d \in Calls \ {c} : pc'[d] = pc[d]
    BY <1>0, <1>4, GotoFacts DEF PC
  <2>6. TypeOK' BY <1>0, <1>1, <1>4, <2>1 DEF Lease, TypeOK
  <2>7. Moves(c) BY <1>0, <1>1, <1>4, <2>1, Same DEF Lease, Moves, TypeOK
  <2>8. Local(c)'
    BY <1>0, <1>1, <1>4, <2>1 DEF Lease, TypeOK,
     Local, NeedsConn, ScopePC, StatementPC, Statement, HoldsTurn, HasTurn,
     HoldsTail, HasTail, Entered, Unfinished, IsDone, IsTx, IsSession, Settled
  <2> QED BY <1>0, <2>6, <2>7, <2>8, EarlyAdvance DEF Lease
<1>5. CASE /\ req[c].via = Root /\ ~Pooled /\ Conservative
           /\ Goto(c, "running")
           /\ conn' = [conn EXCEPT ![c] = k]
           /\ mark' = [mark EXCEPT ![k].directBusy = TRUE,
                 ![k].pendingStreams = IF IsStream(c) THEN @ - 1 ELSE @,
                 ![k].streamUsers    = IF IsStream(c) THEN @ + 1 ELSE @]
           /\ UNCHANGED <<tail, turns>>
  <2> DEFINE p == IF IsStream(c) THEN mark[k].pendingStreams - 1 ELSE mark[k].pendingStreams
             u == IF IsStream(c) THEN mark[k].streamUsers + 1 ELSE mark[k].streamUsers
  <2>1. /\ pc' \in [Calls -> PC] /\ pc'[c] = "running"
        /\ \A d \in Calls \ {c} : pc'[d] = pc[d]
    BY <1>0, <1>5, GotoFacts DEF PC
  <2>2. k \in Conns /\ mark[k] \in Mark BY <1>1, <1>2, <1>5
  <2>3. p \in Int /\ u \in Int BY <2>2 DEF Mark
  <2>4. mark' = [mark EXCEPT ![k].directBusy = TRUE, ![k].pendingStreams = p,
                             ![k].streamUsers = u]
    BY <1>1, <1>5, <2>2
  <2>5. mark' \in [Conns -> Mark]
    <3> HIDE DEF k, p, u
    <3> QED BY <1>1, <2>2, <2>3, <2>4, BusyMark
  <2>5a. conn' = [conn EXCEPT ![c] = k] /\ UNCHANGED <<tail, turns>>
         /\ req[c].via = Root /\ Conservative
    BY <1>5
  <2> HIDE DEF k
  <2>6. TypeOK' BY <1>0, <1>1, <2>1, <2>2, <2>5, <2>5a DEF Lease, TypeOK
  <2>7. Moves(c) BY <1>0, <1>1, <2>1, <2>2, <2>5, <2>5a, Same DEF Lease, Moves, TypeOK
  <2>8. Local(c)'
    BY <1>0, <1>1, <2>1, <2>2, <2>5, <2>5a DEF Lease, TypeOK,
     Local, NeedsConn, ScopePC, StatementPC, Statement, HoldsTurn, HasTurn,
     HoldsTail, HasTail, Entered, Unfinished, IsDone, IsTx, IsSession, Settled
  <2> QED BY <1>0, <2>6, <2>7, <2>8, EarlyAdvance DEF Lease
<1>6. CASE /\ req[c].via = Root /\ ~Pooled /\ ~Conservative
           /\ Goto(c, "queued")
           /\ conn' = [conn EXCEPT ![c] = k]
           /\ tail' = [tail EXCEPT ![k] = Append(@, c)]
           /\ UNCHANGED <<turns, mark>>
  <2>1. /\ pc' \in [Calls -> PC] /\ pc'[c] = "queued"
        /\ \A d \in Calls \ {c} : pc'[d] = pc[d]
    BY <1>0, <1>6, GotoFacts DEF PC
  <2>2. tail' \in [Conns -> Seq(Calls)] /\ QueueStep(tail, tail', c)
    BY <1>1, <1>2, <1>6, Push
  <2>3. k \in Conns /\ conn' = [conn EXCEPT ![c] = k] /\ UNCHANGED <<turns, mark>>
    BY <1>2, <1>6
  <2> HIDE DEF k
  <2>6. TypeOK' BY <1>0, <1>1, <2>1, <2>2, <2>3 DEF Lease, TypeOK
  <2>7. Moves(c) BY <1>0, <1>1, <2>1, <2>2, <2>3, Same DEF Lease, Moves, TypeOK
  <2>8. Local(c)'
    BY <1>0, <1>1, <2>1, <2>2, <2>3 DEF Lease, TypeOK,
     Local, NeedsConn, ScopePC, StatementPC, Statement, HoldsTurn, HasTurn,
     HoldsTail, HasTail, Entered, Unfinished, IsDone, IsTx, IsSession, Settled
  <2> QED BY <1>0, <2>6, <2>7, <2>8, EarlyAdvance DEF Lease
<1> QED BY <1>3, <1>4, <1>5, <1>6 DEF Lease

LEMMA ReleaseStep ==
  ASSUME IInv, NEW c \in Calls, Release(c)
  PROVE  Advance(c)
<1>0. TypeOK /\ Local(c) BY DEF IInv
<1>1. /\ pc[c] = "releasing" /\ conn[c] \in Conns
      /\ req' = req /\ tail' = tail /\ turns' = turns
  BY <1>0 DEF Release, Local, NeedsConn
<1>2. /\ pc' \in [Calls -> PC]
      /\ IF IsStream(c) THEN pc'[c] = "closed" ELSE pc'[c] \in Settled
      /\ \A d \in Calls \ {c} : pc'[d] = pc[d]
  BY <1>0 DEF Release, Goto, EndAs, TypeOK, PC, Settled
<1>3. /\ poisoned' \in SUBSET Conns /\ idle' \in SUBSET Conns
      /\ mark' \in [Conns -> Mark] /\ open' \in [Conns -> Seq(Calls)]
      /\ conn' \in [Calls -> Conns \cup {None}]
      /\ \A d \in Calls \ {c} : conn'[d] = conn[d] \/ pc[d] = "closed"
      /\ scope' \in [Calls -> Scope]
      /\ \A d \in Calls : scope'[d].closed = scope[d].closed
  <2>1. CASE idle' = idle \cup {conn[c]} /\ UNCHANGED <<conn, scope, mark, poisoned, open>>
    BY <1>0, <1>1, <2>1 DEF TypeOK
  <2>2. CASE Discard(c, conn[c]) /\ UNCHANGED scope
    BY <1>0, <1>1, <2>2, DiscardFacts DEF TypeOK
  <2>3. CASE /\ idle' = idle \cup {conn[c]} /\ poisoned' = poisoned \cup {conn[c]}
             /\ scope' = [scope EXCEPT ![c].outcome = "failed"]
             /\ UNCHANGED <<conn, mark, open>>
    BY <1>0, <1>1, <2>3, OutcomeFacts DEF TypeOK
  <2> QED BY <2>1, <2>2, <2>3 DEF Release
<1>4. TypeOK' BY <1>0, <1>1, <1>2, <1>3 DEF TypeOK
<1>5. Moves(c) BY <1>1, <1>2, <1>3, Same DEF Moves
<1>6. Local(c)'
  BY <1>0, <1>1, <1>2, <1>3 DEF IsStream,
     Local, NeedsConn, ScopePC, StatementPC, Statement, HoldsTurn, HasTurn,
     HoldsTail, HasTail, Entered, Unfinished, IsDone, IsTx, IsSession, Settled
<1>7. Opened(c) => Opened(c)' BY <1>1, <1>2, <1>3 DEF Opened, Later, Settled, Statement, IsStream
<1>8. pc[c] # "unborn" /\ pc[c] # "body" /\ ~IsDone(c) BY <1>1 DEF IsDone, Settled
<1> QED BY <1>1, <1>4, <1>5, <1>6, <1>7, <1>8 DEF Advance

LEMMA FinalizeStep ==
  ASSUME IInv, NEW c \in Calls, Finalize(c)
  PROVE  Advance(c)
<1>0. TypeOK /\ Local(c) BY DEF IInv
<1>1. /\ pc[c] = "finalize" /\ ~Statement(c) /\ req' = req /\ conn' = conn
      /\ req[c].via \in Calls \cup {Root} /\ scope[c] \in Scope
      /\ mark \in [Conns -> Mark] /\ tail \in [Conns -> Seq(Calls)]
  BY <1>0 DEF Finalize, Local, ScopePC, TypeOK, Request
<1> DEFINE k == IF conn[c] # None THEN conn[c] ELSE StateOf(req[c].via)
           holds == req[c].via = Root /\ conn[c] # None
           s == [scope[c] EXCEPT !.closed = TRUE, !.awaited = {},
                                 !.prev = None, !.rootPrev = None]
<1>2. k \in Conns \cup {None} /\ (conn[c] # None => k = conn[c] /\ conn[c] \in Conns)
  BY <1>0, <1>1, StateOfType DEF TypeOK
<1>3. scope' \in [Calls -> Scope] /\ scope'[c].closed = TRUE
      /\ \A d \in Calls \ {c} : scope'[d] = scope[d]
  <2>1. s \in Scope /\ s.closed = TRUE BY <1>1 DEF Scope
  <2>2. SetScope(c, s) BY DEF Finalize
  <2> HIDE DEF s
  <2> QED BY <1>0, <2>1, <2>2, SetScopeFacts
<1>4. mark' \in [Conns -> Mark]
  <2>1. CASE k = None BY <1>1, <2>1 DEF Finalize
  <2>2. CASE k # None
    <3> DEFINE m == Restored(c, mark[k])
    <3>1. k \in Conns /\ mark[k] \in Mark BY <1>1, <1>2, <2>2
    <3>2. m \in Mark BY <1>1, <3>1 DEF Restored, Mark, Scope
    <3>3. [m EXCEPT !.directBusy = FALSE] \in Mark BY <3>2 DEF Mark
    <3>4. \/ mark' = [mark EXCEPT ![k] = m]
          \/ mark' = [mark EXCEPT ![k] = [m EXCEPT !.directBusy = FALSE]]
      BY <2>2 DEF Finalize
    <3> HIDE DEF m, k
    <3> QED BY <1>1, <3>1, <3>2, <3>3, <3>4
  <2> QED BY <2>1, <2>2
<1>5. tail' \in [Conns -> Seq(Calls)] /\ QueueStep(tail, tail', c)
  <2>1. CASE holds /\ ~Pooled /\ ~Conservative
    <3>1. HoldsTail(c)
      BY <1>0, <1>1, <2>1 DEF HoldsTail, Entered, Unfinished, IsDone, Settled, Statement,
         IsTx, IsSession, TypeOK, Request, Kind
    <3>2. HasTail(c) BY <1>0, <3>1 DEF Local
    <3>3. tail' = [tail EXCEPT ![conn[c]] = Tail(@)] BY <1>2, <2>1 DEF Finalize
    <3> QED BY <1>1, <1>2, <2>1, <3>2, <3>3, Pop DEF HasTail
  <2>2. CASE ~(holds /\ ~Pooled /\ ~Conservative)
    <3>1. tail' = tail BY <2>2 DEF Finalize
    <3> QED BY <1>1, <3>1, Same
  <2> QED BY <2>1, <2>2
<1>6. /\ pc' \in [Calls -> PC]
      /\ pc'[c] \in Settled \/ (pc'[c] = "releasing" /\ conn[c] \in Conns)
      /\ \A d \in Calls \ {c} : pc'[d] = pc[d]
  BY <1>0, <1>2 DEF Finalize, Goto, EndAs, TypeOK, PC, Settled
<1> HIDE DEF k, holds, s
<1>7. TypeOK' BY <1>0, <1>1, <1>3, <1>4, <1>5, <1>6 DEF Finalize, TypeOK
<1>8. Moves(c) BY <1>1, <1>3, <1>5, <1>6, Same DEF Finalize, Moves
<1>9. Local(c)'
  BY <1>0, <1>1, <1>3, <1>6 DEF Finalize,
     Local, NeedsConn, ScopePC, StatementPC, Statement, HoldsTurn, HasTurn,
     HoldsTail, HasTail, Entered, Unfinished, IsDone, IsTx, IsSession, Settled
<1>10. Opened(c) => Opened(c)' BY <1>1, <1>3, <1>6 DEF Opened, Later, Settled, Statement
<1>11. pc[c] # "unborn" /\ pc[c] # "body" /\ ~IsDone(c) BY <1>1 DEF IsDone, Settled
<1> QED BY <1>1, <1>7, <1>8, <1>9, <1>10, <1>11 DEF Advance

LEMMA InitKeeps ==
  ASSUME Init
  PROVE  IInv
<1>1. NewScope \in Scope /\ Unborn \in Request /\ Fresh \in Mark
  BY NewScopeType DEF Unborn, Request, Kind, Fresh, Mark
<1>2. <<>> \in Seq(Calls) OBVIOUS
<1>3. TypeOK BY <1>1, <1>2 DEF Init, TypeOK, PC
<1>4. ASSUME NEW c \in Calls PROVE Local(c) /\ Handles(c)
  BY DEF Init, Unborn, Local, Handles, NeedsConn, ScopePC, StatementPC, Statement,
     HoldsTurn, HoldsTail, Entered, Unfinished, IsTx, IsSession
<1> QED BY <1>3, <1>4 DEF IInv

LEMMA InvokeStep ==
  ASSUME IInv, NEW c \in Calls, NEW h, NEW caller \in SUBSET Calls,
         \/ Execute(c, h, caller) \/ Stream(c, h, caller)
         \/ Tx(c, h, caller) \/ Session(c, h, caller)
  PROVE  Advance(c)
  BY ExecuteStep, StreamStep, TxStep, SessionStep

LEMMA LeadStep ==
  ASSUME IInv, NEW c \in Calls, Lead(c)
  PROVE  Advance(c)
<1>1. CASE Lease(c) \/ Refuse(c) \/ GrantTurn(c) \/ GrantTail(c) \/ Acquire(c)
  BY <1>1, LeaseStep, RefuseStep, GrantTurnStep, GrantTailStep, AcquireStep
<1>2. CASE Complete(c) \/ CloseCursor(c) \/ EndStream(c) \/ Release(c)
  BY <1>2, CompleteStep, CloseCursorStep, EndStreamStep, ReleaseStep
<1>3. CASE LeaseTx(c) \/ RefuseTx(c) \/ GrantTx(c) \/ AcquireTx(c)
  BY <1>3, LeaseTxStep, RefuseTxStep, GrantTxStep, AcquireTxStep
<1>4. CASE GrantSession(c) \/ AcquireSession(c)
  BY <1>4, GrantSessionStep, AcquireSessionStep
<1>5. CASE Announce(c) \/ Turn(c) \/ Control(c) \/ Announced(c)
  BY <1>5, AnnounceStep, TurnStep, ControlStep, AnnouncedStep
<1>6. CASE Drain(c) \/ Finished(c) \/ Finalize(c)
  BY <1>6, DrainStep, FinishedStep, FinalizeStep
<1> QED BY <1>1, <1>2, <1>3, <1>4, <1>5, <1>6 DEF Lead

LEMMA NextKeeps ==
  ASSUME IInv, [Next]_vars
  PROVE  IInv'
<1>1. ASSUME NEW c \in Calls, Invoke(c) \/ Straggle(c) PROVE IInv'
  <2>1. req \in [Calls -> Request] BY DEF IInv, TypeOK
  <2>2. Contexts \subseteq SUBSET Calls BY <2>1 DEF Contexts, Request
  <2>3. \A h \in Calls : {h} \cup req[h].caller \subseteq Calls BY <2>1 DEF Request
  <2>4. CASE Invoke(c)
    <3>1. PICK caller \in Contexts : \E h \in {Root} \cup caller :
            Execute(c, h, caller) \/ Stream(c, h, caller)
            \/ Tx(c, h, caller) \/ Session(c, h, caller)
      BY <2>4 DEF Invoke
    <3>2. caller \in SUBSET Calls BY <2>2
    <3> QED BY <3>1, <3>2, InvokeStep, AdvanceKeeps
  <2>5. CASE Straggle(c)
    <3>1. PICK g \in Calls : \E h \in {g} :
            LET caller == {g} \cup req[g].caller IN
            Execute(c, h, caller) \/ Stream(c, h, caller)
            \/ Tx(c, h, caller) \/ Session(c, h, caller)
      BY <2>5 DEF Straggle
    <3>2. {g} \cup req[g].caller \in SUBSET Calls BY <2>3
    <3> QED BY <3>1, <3>2, InvokeStep, AdvanceKeeps
  <2> QED BY <1>1, <2>4, <2>5
<1>2. ASSUME NEW c \in Calls, Lead(c) PROVE IInv'
  BY <1>2, LeadStep, AdvanceKeeps
<1>3. ASSUME NEW c \in Calls,
             Return(c) \/ Yield(c) \/ Exhaust(c) \/ Pull(c) \/ Stop(c)
      PROVE  IInv'
  BY <1>3, ReturnStep, YieldStep, ExhaustStep, PullStep, StopStep, AdvanceKeeps
<1>4. CASE UNCHANGED vars
  BY <1>4 DEF vars, IInv, TypeOK, Local, Handles, Opened, Statement, IsDone, HoldsTurn,
     HasTurn, HoldsTail, HasTail, Entered, Unfinished, IsTx, IsSession
<1> QED BY <1>1, <1>2, <1>3, <1>4 DEF Next, Quiet

-----------------------------------------------------------------------------
(* The strengthened invariant holds of every behaviour: at every label a    *)
(* call is where its kind, its resource and its handle allow it to be.      *)
THEOREM Inductive == Spec => []IInv
<1>1. Init => IInv BY InitKeeps
<1>2. IInv /\ [Next]_vars => IInv' BY NextKeeps
<1> QED BY <1>1, <1>2, PTL DEF Spec

(* Every variable keeps its shape: no marker, queue or closure of the       *)
(* runtime ever holds anything but calls, None and flags.                   *)
THEOREM TypeCorrect == Spec => []TypeOK
<1>1. IInv => TypeOK BY DEF IInv
<1> QED BY <1>1, Inductive, PTL

(* A statement in the driver, and the root call that owns a direct resource,*)
(* are the heads of their queues: nobody overtakes, nobody loses its place. *)
THEOREM OwnershipHolds == Spec => []Ownership
<1>1. IInv => Ownership BY DEF IInv, Local, Ownership
<1> QED BY <1>1, Inductive, PTL

-----------------------------------------------------------------------------
(*************************************************************************)
(* Who holds a connection, proved of Scopes for any number of calls and  *)
(* resources and whatever may fail: PhysicalExclusion, NoEscape,         *)
(* OneHolder.                                                            *)
(*                                                                       *)
(* The argument. A call in the driver is a root call, or is inside one:  *)
(* Share, Under and Stays lead from a scoped call to the root scope      *)
(* whose resource it is on, and which cannot go before it does. Sole     *)
(* says that of the root calls only one holds a resource, and Leased     *)
(* that one does. So two calls in one driver are two scoped calls, which *)
(* the queue of the resource keeps apart (IInv), or a root call and      *)
(* itself. Known and Counted are about streams, whose counters live      *)
(* longer than their turns.                                              *)
(*                                                                       *)
(* JInv is preserved in two halves. Frame(c) says what a step of c may   *)
(* do, part by part, and a lemma XFrame for each action X shows that     *)
(* X(c) does no more; the lemmas YKept show, once for all actions, that  *)
(* a step with Frame(c) keeps the conjunct Y of JInv.                    *)
(*************************************************************************)

(* A statement is granted, and has not been given back. *)
InUse == {"running", "suspended", "closing"}

(* The root call c has its resource, and has to give it back. *)
Holds(c) == /\ req[c].via = Root /\ conn[c] # None
            /\ pc[c] \in InUse \cup ScopePC \cup {"releasing"}

(* A resource a root call may take at once: a lease at the provider, or the *)
(* one of a browser when nobody has set its flag.                           *)
Free(k) == IF Pooled THEN k \in idle ELSE ~mark[k].directBusy

(* A stream that uses a resource, and one that is on its way to it. *)
Using(c, k)  == /\ IsStream(c) /\ conn[c] = k
                /\ pc[c] \in {"running", "suspended", "closing", "releasing", "closed"}
Pending(c, k) == /\ IsStream(c) /\ StateOf(req[c].via) = k
                 /\ pc[c] \in {"ready", "queued", "acquiring"}

-----------------------------------------------------------------------------
(* Code around a call: made before it, each with the code around it. *)
Around(caller) == \A s \in caller : pc[s] # "unborn" /\ req[s].caller \subseteq caller
Kin(c) == pc[c] # "unborn" => Around(req[c].caller) /\ c \notin req[c].caller

(* Only a pool takes leases back, only a direct database has a root queue,   *)
(* and only streams have a cursor to close.                                 *)
Mode(c) ==
    /\ pc[c] = "releasing" => Pooled /\ req[c].via = Root
    /\ pc[c] = "queued" /\ req[c].via = Root => ~Pooled /\ ~Conservative
    /\ pc[c] \in {"suspended", "closing", "closed"} => IsStream(c)

(* A scoped call is on the resource of its handle. *)
Share(c) ==
    /\ pc[c] \notin {"unborn", "closed"} \cup Settled /\ req[c].via # Root /\ conn[c] # None
    /\ pc[req[c].via] \in ScopePC
    => conn[c] = conn[req[c].via]

(* A scope inside another is inside a root scope whose callback runs, on the *)
(* resource of the handle it was made on.                                   *)
Under(c) ==
    Unfinished(c) /\ ~Statement(c) /\ req[c].via # Root =>
        \E r \in req[c].caller : /\ req[r].via = Root /\ ~Statement(r) /\ pc[r] = "body"
                                 /\ conn[r] = conn[req[c].via]

(* A scope does not end before the statements that were granted on it. *)
Stays(c) ==
    pc[c] \in InUse /\ req[c].via # Root =>
        \/ pc[req[c].via] \in {"body", "drain"}
        \/ pc[req[c].via] = "tail" /\ c \in scope[req[c].via].awaited

(* Of the root calls one holds a resource, until it gives it back. *)
Sole(c) ==
    Holds(c) /\ (Pooled \/ Conservative) =>
        /\ ~Free(conn[c])
        /\ Conservative => conn[c] = Direct
        /\ \A d \in Calls : Holds(d) /\ conn[d] = conn[c] => d = c

(* A statement at the root was let through when no callback was around it. *)
Clear(c) ==
    /\ pc[c] \in InUse \cup {"queued", "acquiring"} /\ Statement(c)
    /\ req[c].via = Root /\ ~Conservative
    => \A s \in req[c].caller : IsStream(s) \/ ~IsActive(s)

(* finish() knows, and waits for, every stream of its handle. *)
Known(c) ==
    Unfinished(c) /\ IsStream(c) /\ req[c].via # Root =>
        /\ c \in ToSet(scope[req[c].via].streams)
        /\ \/ pc[req[c].via] = "body"
           \/ pc[req[c].via] = "drain" /\ c \in ToSet(scope[req[c].via].drain)

(* A lease that is out has a holder. *)
Leased == Pooled => \A k \in Conns : k \in idle \/ \E c \in Calls : Holds(c) /\ conn[c] = k

(* The counters count. *)
Counted(k) ==
    LET using == {c \in Calls : Using(c, k)}
        pending == {c \in Calls : Pending(c, k)} IN
    /\ IsFiniteSet(using) /\ mark[k].streamUsers = Cardinality(using)
    /\ IsFiniteSet(pending) /\ mark[k].pendingStreams = Cardinality(pending)

Whole(c) == /\ Kin(c) /\ Mode(c) /\ Share(c) /\ Under(c) /\ Stays(c)
            /\ Sole(c) /\ Clear(c) /\ Known(c)

JInv == /\ IInv /\ Leased
        /\ \A c \in Calls : Whole(c)
        /\ \A k \in Conns : Counted(k)
-----------------------------------------------------------------------------
(* What a step of c does, part by part. Kindred: c keeps its request, and    *)
(* makes it from code that is there.                                        *)
Kindred(c) ==
    /\ pc[c] = "unborn" => Around(req'[c].caller)
    /\ pc[c] # "unborn" => req'[c] = req[c]
    /\ pc'[c] # "unborn" /\ ~IsDone(c)

(* Its resource is the one of its handle, and stays while c is a scope. *)
Places(c) ==
    /\ pc[c] \in ScopePC => conn'[c] = conn[c]
    /\ pc'[c] \in ScopePC =>
         pc[c] \in ScopePC \cup {"unborn", "ready", "queued", "acquiring"}
    /\ req'[c].via # Root /\ pc'[c] \notin {"closed"} \cup Settled =>
         conn'[c] \in {conn[c], None, conn[req'[c].via]}
    /\ pc'[c] \notin {"closed"} \cup Settled => pc[c] # "closed"
    /\ pc'[c] = "releasing" => Pooled /\ req'[c].via = Root
    /\ pc'[c] = "queued" /\ req'[c].via = Root => ~Pooled /\ ~Conservative
    /\ pc'[c] \in {"suspended", "closing", "closed"} => IsStream(c)'

(* It starts a statement while the callback of its handle runs, and as a     *)
(* scope ends only after the statements it has granted.                     *)
Waits(c) ==
    /\ pc'[c] \in InUse /\ req'[c].via # Root =>
         pc[c] \in InUse \/ pc[req'[c].via] = "body"
    /\ pc[c] = "body" => pc'[c] = "drain" /\ Awaited(c)
    /\ pc[c] = "drain" =>
         \/ pc'[c] = "drain"
         \/ pc'[c] = "tail" /\ scope'[c].awaited = ToSet(turns[conn[c]])
    /\ pc[c] = "tail" => scope[c].awaited \cap ToSet(turns[conn[c]]) = {}
    /\ \A d \in Calls \ {c} : scope'[d].awaited = scope[d].awaited

(* Of what is free, only k changes. *)
Elsewhere(k) == \A r \in Conns \ {k} : (Free(r)' <=> Free(r))

Takes(c, k) == /\ ~Holds(c) /\ Holds(c)' /\ conn'[c] = k
               /\ Pooled \/ Conservative => Free(k) /\ ~Free(k)'
               /\ Conservative => k = Direct
               /\ Elsewhere(k)
Gives(c, k) == /\ Holds(c) /\ ~Holds(c)' /\ conn[c] = k
               /\ Pooled \/ Conservative => Free(k)'
               /\ Elsewhere(k)

(* It holds what it held, takes what is free, or gives back what it held. *)
Token(c) ==
    \/ /\ \A k \in Conns : (Free(k)' <=> Free(k))
       /\ (Holds(c)' <=> Holds(c)) /\ (Holds(c) => conn'[c] = conn[c])
    \/ \E k \in Conns : Takes(c, k) \/ Gives(c, k)

(* At the root it is let through when no callback is around it; and what is *)
(* around a call and has ended does not come back.                          *)
Admits(c) ==
    /\ (/\ pc[c] \in InUse \cup {"queued", "acquiring"} /\ Statement(c)
        /\ req[c].via = Root /\ ~Conservative)' =>
         \/ pc[c] \in InUse \cup {"queued", "acquiring"}
         \/ \A s \in req'[c].caller : IsStream(s) \/ ~IsActive(s)
    /\ pc[c] \in Settled \cup {"releasing"} => pc'[c] \in Settled \/ IsStream(c)

(* A stream joins the streams of its handle, and is one of them until it    *)
(* ends; finish() goes through them.                                        *)
Loops(c) ==
    /\ IsStream(c)' /\ req'[c].via # Root /\ ~IsDone(c)' =>
         \/ pc[c] # "unborn"
         \/ pc[req'[c].via] = "body" /\ c \in ToSet(scope'[req'[c].via].streams)
    /\ \A h \in Calls : pc[h] \in {"body", "drain"} =>
         \A d \in ToSet(scope[h].streams) :
            (d = c /\ IsDone(c)') \/ d \in ToSet(scope'[h].streams)
    /\ \A h \in Calls \ {c} : scope'[h].drain = scope[h].drain
    /\ pc[c] = "body" => scope'[c].drain = scope[c].streams
    /\ pc[c] = "drain" =>
         \/ pc'[c] = "tail" /\ scope[c].drain = <<>>
         \/ /\ pc'[c] = "drain" /\ scope[c].drain # <<>>
            /\ IsDone(Head(scope[c].drain)) /\ scope'[c].drain = Tail(scope[c].drain)

One(p) == IF p THEN 1 ELSE 0

(* The counters of a resource go with the streams, or it is a new one that  *)
(* c, and only c, had held.                                                 *)
Discards(c, k) ==
    /\ Pooled /\ ~Holds(c)' /\ ~Pending(c, k)'
    /\ \/ Holds(c) /\ conn[c] = k /\ pc[c] = "releasing"
       \/ ~Holds(c) /\ Free(k)
    /\ mark'[k] = Fresh /\ conn'[c] = None
    /\ \A d \in Calls \ {c} :
         conn'[d] = IF conn[d] = k /\ pc[d] = "closed" THEN None ELSE conn[d]

Counts(c) ==
    \A k \in Conns :
       \/ Discards(c, k)
       \/ /\ mark'[k].streamUsers + One(Using(c, k)) = mark[k].streamUsers + One(Using(c, k)')
          /\ mark'[k].pendingStreams + One(Pending(c, k))
               = mark[k].pendingStreams + One(Pending(c, k)')
          /\ \A d \in Calls \ {c} : (conn'[d] = k) <=> (conn[d] = k)

Frame(c) == /\ Kindred(c) /\ Places(c) /\ Waits(c) /\ Token(c)
            /\ Admits(c) /\ Loops(c) /\ Counts(c)
-----------------------------------------------------------------------------
(* What the operators of the model do to the counters and flags. *)

(* A stream is admitted: only the counters of k change. *)
LEMMA AdmissionMark ==
  ASSUME TypeOK, NEW k \in Conns \cup {None}, NEW p \in Int, NEW u \in Int,
         Admission(k, p, u), NEW r \in Conns
  PROVE  /\ mark'[r].directBusy = mark[r].directBusy
         /\ mark'[r].pendingStreams = mark[r].pendingStreams + (IF r = k THEN p ELSE 0)
         /\ mark'[r].streamUsers = mark[r].streamUsers + (IF r = k THEN u ELSE 0)
<1>1. mark \in [Conns -> Mark] /\ mark[r] \in Mark BY DEF TypeOK
<1>2. mark[r].pendingStreams \in Int /\ mark[r].streamUsers \in Int BY <1>1 DEF Mark
<1>3. CASE r = k
  <2>1. k \in Conns /\ k # None BY <1>3, ScopeConstants
  <2>2. mark'[r] = [mark[r] EXCEPT !.pendingStreams = @ + p, !.streamUsers = @ + u]
    BY <1>1, <1>3, <2>1 DEF Admission
  <2> QED BY <1>1, <1>3, <2>2 DEF Mark
<1>4. CASE r # k
  <2>1. mark'[r] = mark[r] BY <1>1, <1>4 DEF Admission
  <2> QED BY <1>2, <1>4, <2>1
<1> QED BY <1>3, <1>4

(* A statement starts on k: a stream leaves the pending for the users. *)
LEMMA StartMark ==
  ASSUME TypeOK, NEW c \in Calls, NEW k \in Conns, Start(c, k), NEW r \in Conns
  PROVE  /\ mark'[r].directBusy = mark[r].directBusy
         /\ mark'[r].pendingStreams =
              mark[r].pendingStreams - One(IsStream(c) /\ r = StateOf(req[c].via))
         /\ mark'[r].streamUsers = mark[r].streamUsers + One(IsStream(c) /\ r = k)
<1>1. mark[r] \in Mark BY DEF TypeOK
<1>2. mark[r].pendingStreams \in Int /\ mark[r].streamUsers \in Int BY <1>1 DEF Mark
<1>3. CASE IsStream(c)
  <2> DEFINE p == IF r = StateOf(req[c].via) THEN mark[r].pendingStreams - 1
                                             ELSE mark[r].pendingStreams
             u == IF r = k THEN mark[r].streamUsers + 1 ELSE mark[r].streamUsers
  <2>1. mark'[r] = [mark[r] EXCEPT !.pendingStreams = p, !.streamUsers = u]
    BY <1>3 DEF Start
  <2>2. /\ mark'[r].directBusy = mark[r].directBusy
        /\ mark'[r].pendingStreams = p /\ mark'[r].streamUsers = u
    <3> HIDE DEF p, u
    <3> QED BY <1>1, <2>1 DEF Mark
  <2> QED BY <1>2, <1>3, <2>2 DEF One
<1>4. CASE ~IsStream(c)
  <2>1. mark' = mark BY <1>4 DEF Start
  <2> QED BY <1>2, <1>4, <2>1 DEF One
<1> QED BY <1>3, <1>4

(* A place is given back: in a browser the flag of the root call's resource. *)
LEMMA GiveBackMark ==
  ASSUME TypeOK, NEW c \in Calls, GiveBack(c), NEW r \in Conns
  PROVE  /\ mark'[r].directBusy =
              IF req[c].via = Root /\ Conservative /\ r = conn[c]
                THEN FALSE ELSE mark[r].directBusy
         /\ mark'[r].pendingStreams = mark[r].pendingStreams
         /\ mark'[r].streamUsers = mark[r].streamUsers
<1>1. mark \in [Conns -> Mark] /\ mark[r] \in Mark BY DEF TypeOK
<1>2. CASE req[c].via = Root /\ Conservative /\ r = conn[c]
  <2>1. mark'[r] = [mark[r] EXCEPT !.directBusy = FALSE] BY <1>1, <1>2 DEF GiveBack
  <2> QED BY <1>1, <1>2, <2>1 DEF Mark
<1>3. CASE ~(req[c].via = Root /\ Conservative /\ r = conn[c])
  <2>1. mark'[r] = mark[r] BY <1>1, <1>3 DEF GiveBack
  <2> QED BY <1>3, <2>1
<1> QED BY <1>2, <1>3

(* The marker of a scope is set, and nothing else. *)
LEMMA ActiveMarkOnly ==
  ASSUME TypeOK, NEW k \in Conns, NEW a, NEW r \in Conns,
         mark' = [mark EXCEPT ![k].activeScope = a]
  PROVE  /\ mark'[r].directBusy = mark[r].directBusy
         /\ mark'[r].pendingStreams = mark[r].pendingStreams
         /\ mark'[r].streamUsers = mark[r].streamUsers
<1>1. mark \in [Conns -> Mark] /\ mark[r] \in Mark BY DEF TypeOK
<1>2. CASE r = k
  <2>1. mark'[r] = [mark[r] EXCEPT !.activeScope = a] BY <1>1, <1>2
  <2> QED BY <1>1, <2>1 DEF Mark
<1>3. CASE r # k BY <1>1, <1>3
<1> QED BY <1>2, <1>3

(* The marker of a session is set, and in a browser the flag of the root's. *)
LEMMA OpenSessionMark ==
  ASSUME TypeOK, NEW c \in Calls, NEW k \in Conns, OpenSession(c, k), NEW r \in Conns
  PROVE  /\ mark'[r].directBusy <=>
              mark[r].directBusy \/ (r = k /\ Conservative /\ req'[c].via = Root)
         /\ mark'[r].directBusy \in BOOLEAN /\ mark[r].directBusy \in BOOLEAN
         /\ mark'[r].pendingStreams = mark[r].pendingStreams
         /\ mark'[r].streamUsers = mark[r].streamUsers
<1>1. mark \in [Conns -> Mark] /\ mark[r] \in Mark /\ mark[r].directBusy \in BOOLEAN
  BY DEF TypeOK, Mark
<1>2. CASE r = k
  <2>1. PICK b \in BOOLEAN :
          b <=> mark[k].directBusy \/ (Conservative /\ req'[c].via = Root)
    OBVIOUS
  <2>2. PICK d : d = (mark[k].directBusy \/ (Conservative /\ req'[c].via = Root))
    OBVIOUS
  <2>3. d = b BY <2>1, <2>2
  <2>4. mark' = [mark EXCEPT ![k].activeSession = c, ![k].directBusy = d]
    BY <1>1, <2>2 DEF OpenSession
  <2>5. mark'[r] = [mark[r] EXCEPT !.activeSession = c, !.directBusy = b]
    BY <1>1, <1>2, <2>3, <2>4
  <2> QED BY <1>1, <1>2, <2>1, <2>5 DEF Mark
<1>3. CASE r # k
  <2>1. mark'[r] = mark[r] BY <1>1, <1>3 DEF OpenSession
  <2> QED BY <1>1, <1>3, <2>1
<1> QED BY <1>2, <1>3

(* When no counter changes, and c is no stream, the counters still count. *)
LEMMA ScopeCounts ==
  ASSUME TypeOK, NEW c \in Calls, ~IsStream(c) \/ pc[c] = "unborn", ~IsStream(c)',
         \A r \in Conns : /\ mark'[r].pendingStreams = mark[r].pendingStreams
                          /\ mark'[r].streamUsers = mark[r].streamUsers,
         \A d \in Calls \ {c} : conn'[d] = conn[d]
  PROVE  Counts(c)
<1>1. \A r \in Conns : mark[r].pendingStreams \in Int /\ mark[r].streamUsers \in Int
  BY DEF TypeOK, Mark
<1>2. \A r \in Conns : ~Using(c, r) /\ ~Pending(c, r) /\ ~Using(c, r)' /\ ~Pending(c, r)'
  BY DEF Using, Pending
<1> QED BY <1>1, <1>2 DEF Counts, One

-----------------------------------------------------------------------------
(* Steps that leave every resource where it is.                            *)

(* A stream goes on from one row to the next, or to its end. *)
LEMMA RowFrame ==
  ASSUME IInv, NEW c \in Calls, UNCHANGED <<req, conn, mark, idle>>,
         IsStream(c), pc[c] \in {"running", "suspended"}, pc'[c] \in InUse,
         \A h \in Calls : /\ scope'[h].streams = scope[h].streams
                          /\ scope'[h].drain = scope[h].drain
                          /\ scope'[h].awaited = scope[h].awaited
  PROVE  Frame(c)
<1>0. TypeOK BY DEF IInv
<1>1. Kindred(c) BY DEF Kindred, IsDone, InUse, Settled
<1>2. Places(c) BY DEF Places, ScopePC, Settled, InUse, IsStream
<1>3. Waits(c) BY DEF Waits, InUse
<1>4. Token(c) BY DEF Token, Holds, InUse, Free
<1>5. Admits(c) BY DEF Admits, InUse, Settled
<1>6. Loops(c) BY DEF Loops
<1>7. Counts(c) BY <1>0 DEF Counts, Using, Pending, IsStream, InUse, TypeOK, Mark, One
<1> QED BY <1>1, <1>2, <1>3, <1>4, <1>5, <1>6, <1>7 DEF Frame

LEMMA YieldFrame ==
  ASSUME IInv, NEW c \in Calls, Mode(c), Yield(c)
  PROVE  Frame(c)
<1>1. pc'[c] = "suspended" BY DEF IInv, TypeOK, Yield, Goto
<1> QED BY <1>1, RowFrame DEF Yield, InUse

LEMMA PullFrame ==
  ASSUME IInv, NEW c \in Calls, Mode(c), Pull(c)
  PROVE  Frame(c)
<1>1. pc'[c] = "running" BY DEF IInv, TypeOK, Pull, Goto
<1> QED BY <1>1, RowFrame DEF Pull, InUse, Mode

LEMMA StopFrame ==
  ASSUME IInv, NEW c \in Calls, Mode(c), Stop(c)
  PROVE  Frame(c)
<1>1. pc'[c] = "closing" BY DEF IInv, TypeOK, Stop, Goto
<1> QED BY <1>1, RowFrame DEF Stop, InUse, Mode

(* Only the outcome of a call is written down. *)
LEMMA OutcomeOnly ==
  ASSUME TypeOK, NEW c \in Calls, NEW o, scope' = [scope EXCEPT ![c].outcome = o]
  PROVE  \A h \in Calls : /\ scope'[h].streams = scope[h].streams
                          /\ scope'[h].drain = scope[h].drain
                          /\ scope'[h].awaited = scope[h].awaited
  BY DEF TypeOK, Scope

LEMMA ExhaustFrame ==
  ASSUME IInv, NEW c \in Calls, Mode(c), Exhaust(c)
  PROVE  Frame(c)
<1>1. TypeOK BY DEF IInv
<1>2. pc'[c] = "closing" BY <1>1 DEF TypeOK, Exhaust, Goto
<1>3. \A h \in Calls : /\ scope'[h].streams = scope[h].streams
                       /\ scope'[h].drain = scope[h].drain
                       /\ scope'[h].awaited = scope[h].awaited
  BY <1>1, OutcomeOnly DEF Exhaust
<1> QED BY <1>2, <1>3, RowFrame DEF Exhaust, InUse

(* A scope goes on with the resource it has. *)
LEMMA OnwardFrame ==
  ASSUME IInv, NEW c \in Calls, UNCHANGED <<req, conn, mark, idle>>,
         pc[c] \in ScopePC, pc'[c] \in ScopePC,
         \A h \in Calls \ {c} : scope'[h] = scope[h],
         scope'[c].streams = scope[c].streams,
         pc[c] = "body" =>
           pc'[c] = "drain" /\ Awaited(c) /\ scope'[c].drain = scope[c].streams,
         pc[c] = "drain" =>
           \/ /\ pc'[c] = "tail" /\ scope[c].drain = <<>>
              /\ scope'[c].awaited = ToSet(turns[conn[c]])
           \/ /\ pc'[c] = "drain" /\ scope[c].drain # <<>>
              /\ IsDone(Head(scope[c].drain)) /\ scope'[c].drain = Tail(scope[c].drain),
         pc[c] = "tail" => scope[c].awaited \cap ToSet(turns[conn[c]]) = {}
  PROVE  Frame(c)
<1>0. TypeOK /\ ~Statement(c) BY DEF IInv, Local
<1>1. Kindred(c) BY DEF Kindred, IsDone, ScopePC, Settled
<1>2. Places(c) BY DEF Places, ScopePC
<1>3. Waits(c) BY DEF Waits, InUse, ScopePC
<1>4. Token(c) BY DEF Token, Holds, Free
<1>5. Admits(c) BY <1>0 DEF Admits, Statement, ScopePC, Settled
<1>6. Loops(c) BY <1>0 DEF Loops, Statement, IsStream
<1>7. Counts(c) BY <1>0, ScopeCounts DEF Statement, IsStream
<1> QED BY <1>1, <1>2, <1>3, <1>4, <1>5, <1>6, <1>7 DEF Frame

LEMMA TurnFrame ==
  ASSUME IInv, NEW c \in Calls, Mode(c), Turn(c)
  PROVE  Frame(c)
<1>1. pc'[c] = "driver" BY DEF IInv, TypeOK, Turn, Goto
<1> QED BY <1>1, OnwardFrame DEF Turn, ScopePC

(* What finish() does first. *)
LEMMA FinishParts ==
  ASSUME TypeOK, NEW c \in Calls, NEW o, Finish(c, o)
  PROVE  /\ pc'[c] = "drain" /\ \A h \in Calls \ {c} : scope'[h] = scope[h]
         /\ scope'[c].streams = scope[c].streams /\ scope'[c].drain = scope[c].streams
  BY DEF Finish, Goto, SetScope, TypeOK, Scope

LEMMA ControlFailsParts ==
  ASSUME TypeOK, NEW c \in Calls, ControlFails(c)
  PROVE  /\ pc'[c] \in {"drain", "finalize"}
         /\ \A h \in Calls \ {c} : scope'[h] = scope[h]
         /\ scope'[c].streams = scope[c].streams
<1>1. CASE Finish(c, "failed") BY <1>1, FinishParts
<1>2. CASE Goto(c, "finalize") /\ UNCHANGED scope BY <1>2 DEF Goto, TypeOK
<1> QED BY <1>1, <1>2 DEF ControlFails

LEMMA AnnounceFrame ==
  ASSUME IInv, NEW c \in Calls, Mode(c), Announce(c)
  PROVE  Frame(c)
<1>0. TypeOK BY DEF IInv
<1>1. /\ pc'[c] \in {"turn", "drain", "finalize"}
      /\ \A h \in Calls \ {c} : scope'[h] = scope[h]
      /\ scope'[c].streams = scope[c].streams
  <2>1. CASE TakeTurn(c, conn[c]) /\ UNCHANGED scope
    BY <1>0, <2>1 DEF TakeTurn, Goto, TypeOK
  <2>2. CASE ControlFails(c) BY <1>0, <2>2, ControlFailsParts
  <2> QED BY <2>1, <2>2 DEF Announce
<1> QED BY <1>1, OnwardFrame DEF Announce, ScopePC

LEMMA ControlFrame ==
  ASSUME IInv, NEW c \in Calls, Mode(c), Control(c)
  PROVE  Frame(c)
<1>0. TypeOK BY DEF IInv
<1>1. /\ pc'[c] = "announced" /\ \A h \in Calls \ {c} : scope'[h] = scope[h]
      /\ scope'[c].streams = scope[c].streams
  <2>1. pc'[c] = "announced" BY <1>0 DEF Control, Goto, TypeOK
  <2>2. CASE \E a, b : SetScope(c, [scope[c] EXCEPT !.started = a, !.completed = b])
    BY <1>0, <2>1, <2>2 DEF SetScope, TypeOK, Scope
  <2>3. CASE SetScope(c, [scope[c] EXCEPT !.outcome = "failed"])
    BY <1>0, <2>1, <2>3 DEF SetScope, TypeOK, Scope
  <2>4. CASE SetScope(c, [scope[c] EXCEPT
                !.started   = @ \/ scope[c].phase \in {"begin", "savepoint"},
                !.completed = @ \/ scope[c].phase \in {"commit", "release"}])
    <3>1. PICK a, b : /\ a = (scope[c].started \/ scope[c].phase \in {"begin", "savepoint"})
                      /\ b = (scope[c].completed \/ scope[c].phase \in {"commit", "release"})
      OBVIOUS
    <3>2. SetScope(c, [scope[c] EXCEPT !.started = a, !.completed = b]) BY <2>4, <3>1
    <3> QED BY <2>2, <3>2
  <2> QED BY <2>3, <2>4 DEF Control
<1> QED BY <1>1, OnwardFrame DEF Control, ScopePC

LEMMA AnnouncedFrame ==
  ASSUME IInv, NEW c \in Calls, Mode(c), Announced(c)
  PROVE  Frame(c)
<1>0. TypeOK BY DEF IInv
<1>1. /\ pc'[c] \in {"body", "finalize", "drain", "announce"}
      /\ \A h \in Calls \ {c} : scope'[h] = scope[h]
      /\ scope'[c].streams = scope[c].streams
  <2>1. CASE (Goto(c, "body") \/ Goto(c, "finalize")) /\ UNCHANGED scope
    BY <1>0, <2>1 DEF Goto, TypeOK
  <2>2. CASE ControlFails(c) BY <1>0, <2>2, ControlFailsParts
  <2>3. CASE /\ Goto(c, "announce")
             /\ SetScope(c, [scope[c] EXCEPT !.phase = "discard-savepoint"])
    BY <1>0, <2>3 DEF Goto, SetScope, TypeOK, Scope
  <2> QED BY <2>1, <2>2, <2>3 DEF Announced
<1> QED BY <1>1, OnwardFrame DEF Announced, ScopePC

LEMMA ReturnFrame ==
  ASSUME IInv, NEW c \in Calls, Mode(c), Return(c)
  PROVE  Frame(c)
<1>1. TypeOK BY DEF IInv
<1>2. /\ pc'[c] = "drain" /\ \A h \in Calls \ {c} : scope'[h] = scope[h]
      /\ scope'[c].streams = scope[c].streams /\ scope'[c].drain = scope[c].streams
  BY <1>1, FinishParts DEF Return
<1> QED BY <1>2, OnwardFrame DEF Return, ScopePC

LEMMA DrainFrame ==
  ASSUME IInv, NEW c \in Calls, Mode(c), Drain(c)
  PROVE  Frame(c)
<1>0. TypeOK BY DEF IInv
<1>1. CASE scope[c].drain # <<>>
  <2>1. PICK q : q = Tail(scope[c].drain) OBVIOUS
  <2>2. scope' = [scope EXCEPT ![c] = [scope[c] EXCEPT !.drain = q]]
    BY <1>1, <2>1 DEF Drain, SetScope
  <2>3. /\ scope'[c].drain = q /\ scope'[c].streams = scope[c].streams
        /\ \A h \in Calls \ {c} : scope'[h] = scope[h]
    BY <1>0, <2>2 DEF TypeOK, Scope
  <2>4. pc' = pc /\ pc[c] = "drain" /\ IsDone(Head(scope[c].drain)) BY <1>1 DEF Drain
  <2> QED BY <1>1, <2>1, <2>3, <2>4, OnwardFrame DEF Drain, ScopePC
<1>2. CASE scope[c].drain = <<>>
  <2>1. PICK q : q = ToSet(turns[conn[c]]) OBVIOUS
  <2>2. scope' = [scope EXCEPT ![c] = [scope[c] EXCEPT !.awaited = q]]
    BY <1>2, <2>1 DEF Drain, SetScope, Ahead
  <2>3. /\ scope'[c].awaited = q /\ scope'[c].streams = scope[c].streams
        /\ \A h \in Calls \ {c} : scope'[h] = scope[h]
    BY <1>0, <2>2 DEF TypeOK, Scope
  <2>4. pc'[c] = "tail" /\ pc[c] = "drain" BY <1>0, <1>2 DEF Drain, Goto, TypeOK
  <2> QED BY <1>2, <2>1, <2>3, <2>4, OnwardFrame DEF Drain, ScopePC
<1> QED BY <1>1, <1>2

LEMMA FinishedFrame ==
  ASSUME IInv, NEW c \in Calls, Mode(c), Finished(c)
  PROVE  Frame(c)
<1>0. TypeOK BY DEF IInv
<1>1. /\ pc'[c] \in {"drain", "announce", "finalize"}
      /\ \A h \in Calls \ {c} : scope'[h] = scope[h]
      /\ scope'[c].streams = scope[c].streams
  <2>1. CASE Finish(c, "failed") BY <1>0, <2>1, FinishParts
  <2>2. CASE \E phase : NextControl(c, phase)
    BY <1>0, <2>2 DEF NextControl, Goto, SetScope, TypeOK, Scope
  <2>3. CASE Goto(c, "finalize") /\ UNCHANGED scope BY <1>0, <2>3 DEF Goto, TypeOK
  <2> QED BY <2>1, <2>2, <2>3 DEF Finished
<1> QED BY <1>1, OnwardFrame DEF Finished, ScopePC

-----------------------------------------------------------------------------
(* Statements that end.                                                    *)

(* A statement gives its place back: at the root it had the resource, which *)
(* a pooled call keeps until it is released.                                *)
LEMMA GiveBackToken ==
  ASSUME IInv, NEW c \in Calls, GiveBack(c), UNCHANGED <<req, conn, idle>>,
         pc[c] \in {"running", "closing"},
         IF req[c].via = Root /\ Pooled THEN pc'[c] = "releasing"
                                        ELSE pc'[c] \in {"closed"} \cup Settled
  PROVE  Token(c)
<1>0. TypeOK BY DEF IInv
<1>1. conn[c] \in Conns BY DEF IInv, Local, NeedsConn
<1>2. \A r \in Conns : mark'[r].directBusy =
        IF req[c].via = Root /\ Conservative /\ r = conn[c]
          THEN FALSE ELSE mark[r].directBusy
  BY <1>0, GiveBackMark
<1>3. CASE req[c].via # Root \/ Pooled
  <2>1. \A k \in Conns : Free(k)' <=> Free(k) BY <1>2, <1>3, ScopeConstants DEF Free
  <2>2. Holds(c)' <=> Holds(c) BY <1>3 DEF Holds, InUse
  <2> QED BY <2>1, <2>2 DEF Token
<1>4. CASE req[c].via = Root /\ ~Pooled
  <2>1. Holds(c) BY <1>1, <1>4, ScopeConstants DEF Holds, InUse
  <2>2. ~Holds(c)' BY <1>4 DEF Holds, InUse, ScopePC, Settled
  <2>3. Gives(c, conn[c]) BY <1>1, <1>2, <1>4, <2>1, <2>2 DEF Gives, Elsewhere, Free
  <2> QED BY <1>1, <2>3 DEF Token
<1> QED BY <1>3, <1>4

LEMMA CompleteFrame ==
  ASSUME IInv, NEW c \in Calls, Mode(c), Complete(c)
  PROVE  Frame(c)
<1>0. TypeOK BY DEF IInv
<1>1. /\ pc[c] = "running" /\ ~IsStream(c) /\ UNCHANGED <<req, conn, idle>> /\ GiveBack(c)
      /\ IF req[c].via = Root /\ Pooled THEN pc'[c] = "releasing" ELSE pc'[c] \in Settled
  BY <1>0 DEF Complete, Goto, EndAs, TypeOK, Settled
<1>2. \A h \in Calls : /\ scope'[h].streams = scope[h].streams
                       /\ scope'[h].drain = scope[h].drain
                       /\ scope'[h].awaited = scope[h].awaited
  BY <1>0, OutcomeOnly DEF Complete
<1>3. Token(c) BY <1>1, GiveBackToken
<1>4. Counts(c)
  <2>1. \A r \in Conns : /\ mark'[r].pendingStreams = mark[r].pendingStreams
                         /\ mark'[r].streamUsers = mark[r].streamUsers
    BY <1>0, <1>1, GiveBackMark
  <2> QED BY <1>0, <1>1, <2>1, ScopeCounts DEF IsStream
<1>5. Kindred(c) /\ Places(c)
  BY <1>1 DEF Kindred, Places, IsDone, Settled, ScopePC
<1>6. Waits(c) /\ Admits(c) BY <1>1, <1>2 DEF Waits, Admits, Settled, InUse
<1>7. Loops(c) BY <1>1, <1>2 DEF Loops, IsStream
<1> QED BY <1>3, <1>4, <1>5, <1>6, <1>7 DEF Frame

LEMMA CloseCursorFrame ==
  ASSUME IInv, NEW c \in Calls, Mode(c), CloseCursor(c)
  PROVE  Frame(c)
<1>0. TypeOK BY DEF IInv
<1>1. /\ pc[c] = "closing" /\ IsStream(c) /\ UNCHANGED <<req, conn, idle>> /\ GiveBack(c)
      /\ IF req[c].via = Root /\ Pooled THEN pc'[c] = "releasing" ELSE pc'[c] = "closed"
  BY <1>0 DEF CloseCursor, Goto, TypeOK, Mode
<1>2. \A h \in Calls : /\ scope'[h].streams = scope[h].streams
                       /\ scope'[h].drain = scope[h].drain
                       /\ scope'[h].awaited = scope[h].awaited
  BY <1>0, OutcomeOnly DEF CloseCursor
<1>3. Token(c) BY <1>1, GiveBackToken
<1>4. Counts(c)
  <2>1. \A r \in Conns : /\ mark'[r].pendingStreams = mark[r].pendingStreams
                         /\ mark'[r].streamUsers = mark[r].streamUsers
    BY <1>0, <1>1, GiveBackMark
  <2>2. \A r \in Conns : mark[r].pendingStreams \in Int /\ mark[r].streamUsers \in Int
    BY <1>0 DEF TypeOK, Mark
  <2> QED BY <1>1, <2>1, <2>2 DEF Counts, Using, Pending, IsStream, One
<1>5. Kindred(c) /\ Places(c)
  BY <1>1 DEF Kindred, Places, IsDone, Settled, ScopePC, IsStream
<1>6. Waits(c) /\ Admits(c) BY <1>1, <1>2 DEF Waits, Admits, Settled, InUse
<1>7. Loops(c) BY <1>1, <1>2 DEF Loops
<1> QED BY <1>3, <1>4, <1>5, <1>6, <1>7 DEF Frame

(* Only c leaves a sequence it is taken from. *)
LEMMA WithoutKeeps ==
  ASSUME NEW s \in Seq(Calls), NEW c, NEW d \in ToSet(s), d # c
  PROVE  d \in ToSet(Without(s, c))
<1>1. PICK j \in 1..Len(s) : s[j] = d BY DEF ToSet
<1>2. CASE \E i \in 1..Len(s) : s[i] = c
  <2>0. PICK i : i = CHOOSE x \in 1..Len(s) : s[x] = c OBVIOUS
  <2>1. i \in 1..Len(s) /\ s[i] = c BY <1>2, <2>0
  <2>2. Without(s, c) = SubSeq(s, 1, i - 1) \o SubSeq(s, i + 1, Len(s))
    BY <1>2, <2>0 DEF Without, RemoveAt
  <2>3. i # j BY <1>1, <2>1
  <2>4. /\ 1 \in 1..(Len(s) + 1) /\ i - 1 \in 0..Len(s)
        /\ i + 1 \in 1..(Len(s) + 1) /\ Len(s) \in i..Len(s) /\ Len(s) \in Nat
    BY <2>1
  <2>5. PICK a, b : a = SubSeq(s, 1, i - 1) /\ b = SubSeq(s, i + 1, Len(s)) OBVIOUS
  <2>6. /\ a \in Seq(Calls) /\ Len(a) = i - 1 /\ \A x \in 1..(i - 1) : a[x] = s[x]
        /\ b \in Seq(Calls) /\ Len(b) = Len(s) - i
        /\ \A x \in 1..(Len(s) - i) : b[x] = s[i + x]
    BY <2>1, <2>4, <2>5
  <2>6a. a \o b \in Seq(Calls) BY <2>6
  <2>7. \E x \in 1..Len(a \o b) : (a \o b)[x] = d
    <3>1. CASE j < i
      <4>1. j \in 1..Len(a \o b) /\ (a \o b)[j] = a[j] BY <2>1, <2>4, <2>6, <3>1
      <4>2. a[j] = d BY <1>1, <2>1, <2>6, <3>1
      <4> QED BY <4>1, <4>2
    <3>2. CASE j > i
      <4>1. j - 1 \in 1..Len(a \o b) /\ (a \o b)[j - 1] = b[j - i]
        BY <1>1, <2>1, <2>4, <2>6, <3>2
      <4>2. b[j - i] = s[i + (j - i)] BY <1>1, <2>1, <2>4, <2>6, <3>2
      <4>3. i + (j - i) = j BY <1>1, <2>1
      <4> QED BY <1>1, <4>1, <4>2, <4>3
    <3> QED BY <1>1, <2>1, <2>3, <3>1, <3>2
  <2>8. PICK q \in Seq(Calls) : q = a \o b BY <2>6a
  <2>9. DOMAIN q = 1..Len(q) /\ \E x \in 1..Len(q) : q[x] = d BY <2>7, <2>8
  <2>10. d \in ToSet(q) BY <2>9 DEF ToSet
  <2> QED BY <2>2, <2>5, <2>8, <2>10
<1>3. CASE ~ \E i \in 1..Len(s) : s[i] = c
  BY <1>3 DEF Without
<1> QED BY <1>2, <1>3

(* A stream that leaves its handle leaves the other streams there. *)
LEMMA LeaveStreamsKeeps ==
  ASSUME TypeOK, NEW c \in Calls, LeaveStreams(c)
  PROVE  \A h \in Calls :
           /\ scope'[h].awaited = scope[h].awaited /\ scope'[h].drain = scope[h].drain
           /\ \A d \in ToSet(scope[h].streams) : d = c \/ d \in ToSet(scope'[h].streams)
           /\ ~IsStream(c) => scope'[h] = scope[h]
<1>1. SUFFICES ASSUME NEW h \in Calls
      PROVE  /\ scope'[h].awaited = scope[h].awaited /\ scope'[h].drain = scope[h].drain
             /\ \A d \in ToSet(scope[h].streams) : d = c \/ d \in ToSet(scope'[h].streams)
             /\ ~IsStream(c) => scope'[h] = scope[h]
  OBVIOUS
<1>2. scope[h] \in Scope /\ scope[h].streams \in Seq(Calls) BY DEF TypeOK, Scope
<1>3. CASE IsStream(c) /\ req[c].via = h /\ h # Root
  <2>1. PICK q : q = Without(scope[h].streams, c) OBVIOUS
  <2>2. scope'[h] = [scope[h] EXCEPT !.streams = q]
    BY <1>3, <2>1 DEF LeaveStreams, TypeOK
  <2>3. scope'[h].streams = q /\ scope'[h].awaited = scope[h].awaited
        /\ scope'[h].drain = scope[h].drain
    BY <1>2, <2>2 DEF Scope
  <2> QED BY <1>2, <1>3, <2>1, <2>3, WithoutKeeps
<1>4. CASE ~(IsStream(c) /\ req[c].via = h /\ h # Root)
  <2>1. h # Root BY ScopeConstants
  <2>2. scope'[h] = scope[h] BY <1>4, <2>1 DEF LeaveStreams, TypeOK
  <2> QED BY <2>2
<1> QED BY <1>3, <1>4

LEMMA EndStreamFrame ==
  ASSUME IInv, NEW c \in Calls, Mode(c), EndStream(c)
  PROVE  Frame(c)
<1>0. TypeOK /\ Local(c) BY DEF IInv
<1>1. pc[c] = "closed" /\ pc'[c] \in Settled /\ UNCHANGED <<req, conn, idle>>
  BY <1>0 DEF EndStream, EndAs, Goto, TypeOK, Settled
<1>2. Kindred(c) /\ Places(c) BY <1>1 DEF Kindred, Places, IsDone, Settled, ScopePC
<1>3. Waits(c)
  <2>1. LeaveStreams(c) /\ IsDone(c)' /\ req' = req /\ pc[c] = "closed"
    BY <1>0 DEF EndStream, EndAs, Goto, TypeOK, IsDone, Settled
  <2> QED BY <1>0, <2>1, LeaveStreamsKeeps DEF Waits, IsDone, Settled, InUse
<1>4. Token(c)
  <2>1. conn[c] \in Conns \cup {None} /\ Admission(conn[c], 0, -1)
    BY <1>0 DEF EndStream, TypeOK
  <2>2. \A k \in Conns : mark'[k].directBusy = mark[k].directBusy
    BY <1>0, <2>1, AdmissionMark
  <2>3. \A k \in Conns : Free(k)' <=> Free(k) BY <2>2 DEF Free, EndStream
  <2>4. ~Holds(c) /\ ~Holds(c)'
    BY <1>0 DEF EndStream, EndAs, Goto, TypeOK, Settled, Holds, InUse, ScopePC
  <2> QED BY <2>3, <2>4 DEF Token
<1>5. Admits(c) BY <1>1 DEF Admits, Settled, InUse
<1>6. Loops(c)
  <2>1. LeaveStreams(c) /\ IsDone(c)' /\ req' = req /\ pc[c] \notin {"body", "drain"}
    BY <1>0 DEF EndStream, EndAs, Goto, TypeOK, IsDone, Settled
  <2> QED BY <1>0, <2>1, LeaveStreamsKeeps DEF Loops, IsDone, Settled
<1>7. Counts(c)
  <2>1. conn[c] \in Conns \cup {None} /\ Admission(conn[c], 0, -1) /\ conn' = conn
        /\ pc[c] = "closed" /\ IsStream(c) /\ req' = req
    BY <1>0 DEF EndStream, TypeOK, Mode
  <2>2. \A r \in Conns : /\ mark'[r].pendingStreams = mark[r].pendingStreams + 0
                         /\ mark'[r].streamUsers = mark[r].streamUsers + (IF r = conn[c] THEN -1 ELSE 0)
                         /\ mark[r].pendingStreams \in Int /\ mark[r].streamUsers \in Int
    <3>1. \A r \in Conns : mark[r].pendingStreams \in Int /\ mark[r].streamUsers \in Int
      BY <1>0 DEF TypeOK, Mark
    <3>2. PICK n \in {-1} : Admission(conn[c], 0, n) BY <2>1
    <3>3. ASSUME NEW r \in Conns
          PROVE  /\ mark'[r].pendingStreams = mark[r].pendingStreams + (IF r = conn[c] THEN 0 ELSE 0)
                 /\ mark'[r].streamUsers = mark[r].streamUsers + (IF r = conn[c] THEN n ELSE 0)
      BY <1>0, <2>1, <3>2, AdmissionMark
    <3> QED BY <3>1, <3>3
  <2>3. pc'[c] \in Settled BY <1>0 DEF EndStream, EndAs, Goto, TypeOK, Settled
  <2>4. \A r \in Conns : /\ Using(c, r) <=> r = conn[c]
                         /\ ~Using(c, r)' /\ ~Pending(c, r) /\ ~Pending(c, r)'
    BY <2>1, <2>3 DEF Using, Pending, Settled
  <2> QED BY <2>1, <2>2, <2>4 DEF Counts, One
<1> QED BY <1>1, <1>2, <1>3, <1>4, <1>5, <1>6, <1>7 DEF Frame

-----------------------------------------------------------------------------
(* Statements that are refused, granted, and released.                     *)

(* A call that is abandoned leaves what it had joined, and holds nothing. *)
LEMMA AbandonParts ==
  ASSUME IInv, NEW c \in Calls, Statement(c), pc[c] \in {"ready", "queued"}, Abandon(c),
         req' = req, conn' = conn, idle' = idle
  PROVE  Waits(c) /\ Token(c) /\ Loops(c) /\ Counts(c)
<1>0. TypeOK BY DEF IInv
<1>1. LeaveStreams(c) /\ pc'[c] = "rejected" BY <1>0 DEF Abandon, Goto, TypeOK
<1>2. StateOf(req[c].via) \in Conns \cup {None} BY <1>0, StateOfType DEF TypeOK, Request
<1>a. PICK n \in {-1, 0} : /\ n = IF IsStream(c) THEN -1 ELSE 0
                           /\ Admission(StateOf(req[c].via), n, 0)
  BY DEF Abandon
<1>3. n \in Int /\ n + One(IsStream(c)) = 0 BY <1>a DEF One
<1>4. ASSUME NEW r \in Conns
      PROVE  /\ mark'[r].directBusy = mark[r].directBusy
             /\ mark'[r].pendingStreams =
                  mark[r].pendingStreams + (IF r = StateOf(req[c].via) THEN n ELSE 0)
             /\ mark'[r].streamUsers = mark[r].streamUsers
             /\ mark[r].pendingStreams \in Int /\ mark[r].streamUsers \in Int
  <2>1. mark[r].pendingStreams \in Int /\ mark[r].streamUsers \in Int
    BY <1>0 DEF TypeOK, Mark
  <2>2. /\ mark'[r].directBusy = mark[r].directBusy
        /\ mark'[r].pendingStreams =
             mark[r].pendingStreams + (IF r = StateOf(req[c].via) THEN n ELSE 0)
        /\ mark'[r].streamUsers =
             mark[r].streamUsers + (IF r = StateOf(req[c].via) THEN 0 ELSE 0)
    BY <1>0, <1>2, <1>3, <1>a, AdmissionMark
  <2> QED BY <2>1, <2>2
<1>5. Waits(c) BY <1>0, <1>1, LeaveStreamsKeeps DEF Waits, InUse
<1>6. Token(c)
  <2>1. ~Holds(c) /\ ~Holds(c)' BY <1>1 DEF Holds, InUse, ScopePC
  <2> QED BY <1>4, <2>1 DEF Token, Free
<1>7. Loops(c) BY <1>0, <1>1, LeaveStreamsKeeps DEF Loops, IsDone, Settled
<1>8. Counts(c)
  <2>1. \A r \in Conns : /\ ~Using(c, r) /\ ~Using(c, r)' /\ ~Pending(c, r)'
                         /\ Pending(c, r) <=> IsStream(c) /\ r = StateOf(req[c].via)
    BY <1>1 DEF Using, Pending
  <2> QED BY <1>3, <1>4, <2>1 DEF Counts, One
<1> QED BY <1>5, <1>6, <1>7, <1>8

(* A statement that starts has left the pending streams for the users. *)
LEMMA StartParts ==
  ASSUME IInv, NEW c \in Calls, NEW k \in Conns, Statement(c),
         pc[c] \in {"queued", "acquiring"}, Start(c, k), req' = req, scope' = scope,
         req[c].via # Root => pc[req[c].via] = "body"
  PROVE  Waits(c) /\ Loops(c) /\ Counts(c)
<1>0. TypeOK BY DEF IInv
<1>1. /\ pc'[c] = "running" /\ conn'[c] = k
      /\ \A d \in Calls \ {c} : conn'[d] = conn[d]
  BY <1>0, StartFacts
<1>2. ASSUME NEW r \in Conns
      PROVE  /\ mark'[r].pendingStreams =
                  mark[r].pendingStreams - One(IsStream(c) /\ r = StateOf(req[c].via))
             /\ mark'[r].streamUsers = mark[r].streamUsers + One(IsStream(c) /\ r = k)
             /\ mark[r].pendingStreams \in Int /\ mark[r].streamUsers \in Int
  BY <1>0, StartMark DEF TypeOK, Mark
<1>3. \A r \in Conns : /\ ~Using(c, r) /\ ~Pending(c, r)'
                       /\ Pending(c, r) <=> IsStream(c) /\ r = StateOf(req[c].via)
                       /\ Using(c, r)' <=> IsStream(c) /\ r = k
  BY <1>1 DEF Using, Pending, IsStream
<1>4. Counts(c) BY <1>1, <1>2, <1>3 DEF Counts, One
<1> QED BY <1>1, <1>4 DEF Waits, Loops, InUse, IsStream

(* The resource a discarding root call had, or was offered, is a new one. *)
LEMMA DiscardParts ==
  ASSUME IInv, NEW c \in Calls, NEW k \in Conns, Pooled, req[c].via = Root,
         \/ pc[c] = "acquiring" /\ k \in idle
         \/ pc[c] = "releasing" /\ conn[c] = k,
         Discard(c, k), req' = req, pc'[c] \notin {"ready", "queued", "acquiring"}
  PROVE  Token(c) /\ Counts(c)
<1>0. TypeOK /\ Local(c) BY DEF IInv
<1>1. /\ \A d \in Calls \ {c} :
           conn'[d] = IF conn[d] = k /\ pc[d] = "closed" THEN None ELSE conn[d]
      /\ conn'[c] = None /\ idle' = idle \cup {k}
      /\ mark'[k] = Fresh /\ \A r \in Conns \ {k} : mark'[r] = mark[r]
  BY <1>0 DEF Discard, TypeOK
<1>2. ~Holds(c)' BY <1>1 DEF Holds
<1>3. CASE pc[c] = "acquiring" /\ k \in idle
  <2>1. conn[c] = None /\ ~Holds(c) BY <1>0, <1>3 DEF Local, Holds
  <2>2. Token(c) BY <1>1, <1>2, <1>3, <2>1 DEF Token, Free
  <2>3. Discards(c, k) BY <1>1, <1>2, <1>3, <2>1 DEF Discards, Free, Pending
  <2> QED BY <1>0, <1>1, <1>3, <2>1, <2>2, <2>3, ScopeConstants
      DEF Counts, One, Using, Pending, StateOf, TypeOK, Mark
<1>4. CASE pc[c] = "releasing" /\ conn[c] = k
  <2>1. Holds(c) BY <1>4, ScopeConstants DEF Holds
  <2>2. Gives(c, k) BY <1>1, <1>2, <1>4, <2>1 DEF Gives, Elsewhere, Free
  <2>3. Discards(c, k) BY <1>1, <1>2, <1>4, <2>1 DEF Discards, Free, Pending
  <2> QED BY <1>0, <1>1, <1>4, <2>1, <2>2, <2>3, ScopeConstants
      DEF Token, Counts, One, Using, Pending, StateOf, TypeOK, Mark
<1> QED BY <1>3, <1>4

LEMMA RefuseFrame ==
  ASSUME IInv, NEW c \in Calls, Mode(c), Refuse(c)
  PROVE  Frame(c)
<1>0. TypeOK BY DEF IInv
<1>1. /\ pc[c] = "ready" /\ pc'[c] = "rejected" /\ Statement(c)
      /\ UNCHANGED <<req, conn, idle>>
  BY <1>0 DEF Refuse, Abandon, Goto, TypeOK
<1>2. Waits(c) /\ Token(c) /\ Loops(c) /\ Counts(c) BY <1>1, AbandonParts DEF Refuse
<1>3. Kindred(c) BY <1>1 DEF Kindred, IsDone, Settled
<1>4. Places(c) BY <1>1 DEF Places, Settled, ScopePC
<1>5. Admits(c) BY <1>1 DEF Admits, Settled, InUse
<1> QED BY <1>2, <1>3, <1>4, <1>5 DEF Frame

LEMMA GrantTurnFrame ==
  ASSUME IInv, NEW c \in Calls, Mode(c), GrantTurn(c)
  PROVE  Frame(c)
<1>0. TypeOK /\ Local(c) BY DEF IInv
<1>a. CASE Abandon(c) /\ UNCHANGED conn
  <2>1. Waits(c) /\ Token(c) /\ Loops(c) /\ Counts(c) BY <1>a, AbandonParts DEF GrantTurn
  <2>2. Kindred(c)
    BY <1>0, <1>a DEF Kindred, IsDone, Settled, GrantTurn, Abandon, Goto, TypeOK
  <2>3. Places(c)
    BY <1>0, <1>a DEF Places, Mode, Settled, GrantTurn, Abandon, Goto, TypeOK, ScopePC
  <2>4. Admits(c)
    BY <1>0, <1>a DEF Admits, InUse, Settled, GrantTurn, Abandon, Goto, TypeOK
  <2> QED BY <2>1, <2>2, <2>3, <2>4 DEF Frame
<1>b. CASE Start(c, conn[c]) /\ UNCHANGED scope
  <2>0. conn[c] \in Conns /\ pc[c] = "queued" /\ Statement(c) /\ req' = req /\ idle' = idle
    BY <1>0 DEF GrantTurn, Local, NeedsConn
  <2>1. /\ pc'[c] = "running" /\ conn'[c] = conn[c]
        /\ \A k \in Conns : mark'[k].directBusy = mark[k].directBusy
    BY <1>0, <1>b, <2>0, StartFacts, StartMark
  <2>2. req[c].via # Root => pc[req[c].via] = "body"
    <3>1. CASE IsOpen(req[c].via)
      BY <2>0, <3>1 DEF IInv, Handles, Opened, IsOpen
    <3>2. CASE ~IsOpen(req[c].via)
      <4>1. pc'[c] = "rejected" BY <1>0, <3>2 DEF GrantTurn, Abandon, Goto, TypeOK
      <4> QED BY <2>1, <4>1
    <3> QED BY <3>1, <3>2
  <2>3. Waits(c) /\ Loops(c) /\ Counts(c) BY <1>b, <2>0, <2>2, StartParts
  <2>4. Kindred(c) BY <2>0, <2>1 DEF Kindred, IsDone, Settled
  <2>5. Places(c) BY <2>0, <2>1 DEF Places, Settled, ScopePC
  <2>6. Admits(c) BY <2>0 DEF Admits, Settled
  <2>7. Token(c)
    <3>1. ~Holds(c) /\ ~Holds(c)' BY <2>0 DEF Holds, GrantTurn
    <3> QED BY <2>0, <2>1, <3>1 DEF Token, Free
  <2> QED BY <2>3, <2>4, <2>5, <2>6, <2>7 DEF Frame
<1> QED BY <1>a, <1>b DEF GrantTurn

LEMMA GrantTailFrame ==
  ASSUME IInv, NEW c \in Calls, Mode(c), GrantTail(c)
  PROVE  Frame(c)
<1>0. TypeOK /\ Local(c) BY DEF IInv
<1>a. CASE Abandon(c) /\ UNCHANGED conn
  <2>1. Waits(c) /\ Token(c) /\ Loops(c) /\ Counts(c) BY <1>a, AbandonParts DEF GrantTail
  <2>2. Kindred(c)
    BY <1>0, <1>a DEF Kindred, IsDone, Settled, GrantTail, Abandon, Goto, TypeOK
  <2>3. Places(c)
    BY <1>0, <1>a DEF Places, Mode, Settled, GrantTail, Abandon, Goto, TypeOK, ScopePC
  <2>4. Admits(c)
    BY <1>0, <1>a DEF Admits, InUse, Settled, GrantTail, Abandon, Goto, TypeOK
  <2> QED BY <2>1, <2>2, <2>3, <2>4 DEF Frame
<1>b. CASE Start(c, conn[c]) /\ UNCHANGED scope
  <2>0. conn[c] \in Conns /\ pc[c] = "queued" /\ Statement(c) /\ req' = req /\ idle' = idle
    BY <1>0 DEF GrantTail, Local, NeedsConn
  <2>1. /\ pc'[c] = "running" /\ conn'[c] = conn[c]
        /\ \A k \in Conns : mark'[k].directBusy = mark[k].directBusy
    BY <1>0, <1>b, <2>0, StartFacts, StartMark
  <2>2. req[c].via = Root /\ ~Pooled /\ ~Conservative BY <2>0 DEF GrantTail, Mode
  <2>3. Waits(c) /\ Loops(c) /\ Counts(c) BY <1>b, <2>0, <2>2, StartParts
  <2>4. Kindred(c) BY <2>0, <2>1 DEF Kindred, IsDone, Settled
  <2>5. Places(c) BY <2>0, <2>1 DEF Places, Settled, ScopePC
  <2>6. Admits(c) BY <2>0 DEF Admits, Settled
  <2>7. Token(c)
    <3>1. ~Holds(c) /\ Holds(c)'
      BY <2>0, <2>1, <2>2, ScopeConstants DEF Holds, InUse, ScopePC
    <3>2. Takes(c, conn[c]) BY <2>1, <2>2, <3>1 DEF Takes, Elsewhere, Free
    <3> QED BY <2>0, <3>2 DEF Token
  <2> QED BY <2>3, <2>4, <2>5, <2>6, <2>7 DEF Frame
<1> QED BY <1>a, <1>b DEF GrantTail

LEMMA AcquireFrame ==
  ASSUME IInv, NEW c \in Calls, Mode(c), Acquire(c)
  PROVE  Frame(c)
<1>0. TypeOK /\ Local(c) BY DEF IInv
<1>1. /\ pc[c] = "acquiring" /\ Statement(c) /\ Pooled /\ req[c].via = Root /\ req' = req
      /\ idle \in SUBSET Conns /\ conn[c] = None
  BY <1>0 DEF Acquire, Local, TypeOK
<1>2. PICK k \in Conns : k \in idle /\
        IF IsHealthy(k)
           THEN /\ Start(c, k)
                /\ idle' = idle \ {k}
                /\ UNCHANGED <<scope, poisoned, open>>
           ELSE /\ Goto(c, "rejected")
                /\ Discard(c, k)
                /\ UNCHANGED scope
  BY <1>1 DEF Acquire
<1>3. CASE IsHealthy(k)
  <2>1. pc'[c] = "running" /\ conn'[c] = k BY <1>0, <1>2, <1>3, StartFacts
  <2>2. Waits(c) /\ Loops(c) /\ Counts(c) BY <1>1, <1>2, <1>3, StartParts
  <2>3. Token(c)
    <3>1. ~Holds(c) /\ Holds(c)' BY <1>1, <2>1, ScopeConstants DEF Holds, InUse
    <3>2. Takes(c, k)
      BY <1>1, <1>2, <1>3, <2>1, <3>1, ScopeConstants DEF Takes, Elsewhere, Free
    <3> QED BY <3>2 DEF Token
  <2>4. Kindred(c) /\ Places(c) /\ Admits(c)
    BY <1>1, <2>1 DEF Kindred, Places, Admits, IsDone, Settled, ScopePC
  <2> QED BY <2>2, <2>3, <2>4 DEF Frame
<1>4. CASE ~IsHealthy(k)
  <2>1. pc'[c] = "rejected" /\ Discard(c, k) /\ scope' = scope
    BY <1>0, <1>2, <1>4 DEF Goto, TypeOK
  <2>2. Token(c) /\ Counts(c) BY <1>1, <1>2, <2>1, DiscardParts
  <2>3. Kindred(c) /\ Places(c) /\ Admits(c) /\ Waits(c) /\ Loops(c)
   
      BY <1>1, <2>1 DEF Kindred, Places, Admits, Waits, Loops, InUse, IsDone, Settled, ScopePC
  <2> QED BY <2>2, <2>3 DEF Frame
<1> QED BY <1>3, <1>4

LEMMA ReleaseFrame ==
  ASSUME IInv, NEW c \in Calls, Mode(c), Release(c)
  PROVE  Frame(c)
<1>0. TypeOK /\ Local(c) BY DEF IInv
<1>1. /\ pc[c] = "releasing" /\ conn[c] \in Conns /\ req[c].via = Root /\ Pooled
      /\ req' = req
  BY <1>0 DEF Release, Local, NeedsConn, Mode
<1>2. IF IsStream(c) THEN pc'[c] = "closed" ELSE pc'[c] \in Settled
  BY <1>0 DEF Release, Goto, EndAs, TypeOK, Settled
<1>3. \A h \in Calls : /\ scope'[h].streams = scope[h].streams
                       /\ scope'[h].drain = scope[h].drain
                       /\ scope'[h].awaited = scope[h].awaited
  BY <1>0 DEF Release, TypeOK, Scope
<1>4. Token(c) /\ Counts(c)
  <2>1. CASE Discard(c, conn[c])
    BY <1>1, <1>2, <2>1, DiscardParts DEF Settled
  <2>2. CASE idle' = idle \cup {conn[c]} /\ UNCHANGED <<conn, mark>>
    <3>1. Holds(c) /\ ~Holds(c)'
      BY <1>1, <1>2, ScopeConstants DEF Holds, InUse, ScopePC, Settled
    <3>2. Gives(c, conn[c]) BY <1>1, <2>2, <3>1 DEF Gives, Elsewhere, Free
    <3>3. \A r \in Conns : /\ Using(c, r)' <=> Using(c, r)
                           /\ ~Pending(c, r) /\ ~Pending(c, r)'
      BY <1>1, <1>2, <2>2 DEF Using, Pending, IsStream, Settled
    <3>4. \A r \in Conns : mark[r].pendingStreams \in Int /\ mark[r].streamUsers \in Int
      BY <1>0 DEF TypeOK, Mark
    <3>5. Counts(c) BY <2>2, <3>3, <3>4 DEF Counts, One
    <3> QED BY <1>1, <3>2, <3>5 DEF Token
  <2> QED BY <2>1, <2>2 DEF Release
<1>5. Kindred(c) BY <1>1, <1>2 DEF Kindred, IsDone, Settled
<1>6. Places(c) BY <1>1, <1>2 DEF Places, Settled, ScopePC, IsStream
<1>7. Waits(c) BY <1>1, <1>2, <1>3 DEF Waits, Settled, InUse
<1>8. Admits(c) BY <1>1, <1>2 DEF Admits, Settled, InUse
<1>9. Loops(c) BY <1>1, <1>2, <1>3 DEF Loops, Settled
<1> QED BY <1>4, <1>5, <1>6, <1>7, <1>8, <1>9 DEF Frame

-----------------------------------------------------------------------------
(* Statements that join a queue, transactions and sessions.                *)

(* A step of a scope that has no callback yet, or none any more. *)
LEMMA ScopeFrame ==
  ASSUME IInv, NEW c \in Calls, Mode(c), Token(c), Counts(c), ~Statement(c)',
         \/ req' = req /\ pc[c] \in {"ready", "queued", "acquiring", "finalize"}
         \/ pc[c] = "unborn" /\ Around(req'[c].caller),
         \A h \in Calls \ {c} : scope'[h] = scope[h],
         pc'[c] \in {"ready", "queued", "acquiring", "announce", "turn", "body", "drain",
                     "finalize", "releasing"} \cup Settled,
         pc'[c] = "releasing" => Pooled /\ req'[c].via = Root,
         pc'[c] = "queued" /\ req'[c].via = Root => ~Pooled /\ ~Conservative,
         req'[c].via # Root => conn'[c] \in {conn[c], None, conn[req'[c].via]},
         pc[c] = "finalize" => conn'[c] = conn[c]
  PROVE  Frame(c)
<1>1. Kindred(c) BY DEF Kindred, IsDone, Settled
<1>2. Places(c) BY DEF Places, Settled, ScopePC
<1>3. Waits(c) BY DEF Waits, Settled, InUse
<1>4. Admits(c) BY DEF Admits, Settled, InUse
<1>5. Loops(c) BY DEF Loops, Settled, Statement, IsStream
<1> QED BY <1>1, <1>2, <1>3, <1>4, <1>5 DEF Frame

(* A call that takes nothing, gives nothing back and changes no flag. *)
LEMMA HoldToken ==
  ASSUME NEW c \in Calls, ~Holds(c), ~Holds(c)', idle' = idle,
         \A r \in Conns : mark'[r].directBusy = mark[r].directBusy
  PROVE  Token(c)
  BY DEF Token, Free

LEMMA LeaseFrame ==
  ASSUME IInv, NEW c \in Calls, Mode(c), Lease(c)
  PROVE  Frame(c)
<1>0. TypeOK /\ Local(c) BY DEF IInv
<1>1. /\ pc[c] = "ready" /\ Statement(c) /\ CanLease(c) /\ req' = req /\ scope' = scope
      /\ idle' = idle /\ conn[c] = None /\ ~Holds(c)
      /\ \A r \in Conns : mark[r].pendingStreams \in Int /\ mark[r].streamUsers \in Int
  BY <1>0 DEF Lease, Local, TypeOK, Mark, Holds
<1> DEFINE k == StateOf(req[c].via)
<1>2. req[c].via = Root /\ ~Pooled => k = Direct /\ k \in Conns
  BY DirectIsConn DEF StateOf
<1>3. req[c].via # Root => k = conn[req[c].via] BY DEF StateOf
<1>4. CASE /\ pc'[c] \in {"queued", "acquiring"} /\ UNCHANGED mark
           /\ \/ pc'[c] = "queued" /\ conn' = [conn EXCEPT ![c] = k]
              \/ pc'[c] = "acquiring" /\ conn' = conn
           /\ pc'[c] = "queued" /\ req[c].via = Root => ~Pooled /\ ~Conservative
  <2>1. Token(c)
    <3>1. ~Holds(c)' BY <1>4 DEF Holds, InUse, ScopePC
    <3> QED BY <1>1, <1>4, <3>1, HoldToken
  <2>2. Counts(c)
    <3>1. \A r \in Conns : /\ ~Using(c, r) /\ ~Using(c, r)'
                           /\ Pending(c, r) <=> IsStream(c) /\ k = r
      BY <1>1, <1>4 DEF Using, Pending
    <3>2. \A r \in Conns : Pending(c, r)' <=> IsStream(c) /\ k = r
      <4>0. Handles(c) /\ req[c].via \in Calls \cup {Root} BY DEF IInv, TypeOK, Request
      <4>1. req[c].via # c BY <1>1, <4>0, ScopeConstants DEF Handles, Opened
      <4>2. StateOf(req[c].via)' = k
        BY <1>0, <1>1, <1>4, <4>0, <4>1, ScopeConstants DEF StateOf, TypeOK
      <4> QED BY <1>1, <1>4, <4>2 DEF Pending, IsStream
    <3>3. \A d \in Calls \ {c} : conn'[d] = conn[d] BY <1>0, <1>4 DEF TypeOK
    <3> QED BY <1>1, <1>4, <3>1, <3>2, <3>3 DEF Counts, One
  <2>3. conn'[c] \in {None, k} BY <1>0, <1>1, <1>4 DEF TypeOK
  <2>4. Kindred(c) BY <1>1, <1>4 DEF Kindred, IsDone, Settled
  <2>5. Places(c) BY <1>1, <1>3, <1>4, <2>3 DEF Places, Settled, ScopePC
  <2>6. Waits(c) /\ Loops(c) BY <1>1, <1>4 DEF Waits, Loops, Settled, InUse
  <2>7. Admits(c)
    <3>1. req[c].via = Root /\ ~Conservative =>
            \A s \in req[c].caller : IsStream(s) \/ ~IsActive(s)
      BY <1>1 DEF CanLease, RootAllowed, IsStream
    <3> QED BY <1>1, <3>1 DEF Admits, Settled
  <2> QED BY <2>1, <2>2, <2>4, <2>5, <2>6, <2>7 DEF Frame
<1>5. CASE /\ req[c].via = Root /\ ~Pooled /\ Conservative
           /\ pc'[c] = "running"
           /\ conn' = [conn EXCEPT ![c] = k]
           /\ mark' = [mark EXCEPT ![k].directBusy = TRUE,
                 ![k].pendingStreams = IF IsStream(c) THEN @ - 1 ELSE @,
                 ![k].streamUsers    = IF IsStream(c) THEN @ + 1 ELSE @]
  <2>0. PICK q \in Conns : q = k BY <1>2, <1>5
  <2>1. conn'[c] = q /\ q = Direct /\ \A d \in Calls \ {c} : conn'[d] = conn[d]
    BY <1>0, <1>2, <1>5, <2>0 DEF TypeOK
  <2>1a. StateOf(req[c].via) = q BY <2>0
  <2>1b. mark' = [mark EXCEPT ![q].directBusy = TRUE,
                 ![q].pendingStreams = IF IsStream(c) THEN @ - 1 ELSE @,
                 ![q].streamUsers    = IF IsStream(c) THEN @ + 1 ELSE @]
    BY <1>5, <2>0
  <2> HIDE DEF k
  <2>2. ASSUME NEW r \in Conns
        PROVE  /\ IF r = q THEN mark'[r].directBusy
                           ELSE mark'[r].directBusy = mark[r].directBusy
               /\ mark'[r].pendingStreams = mark[r].pendingStreams - One(IsStream(c) /\ r = q)
               /\ mark'[r].streamUsers = mark[r].streamUsers + One(IsStream(c) /\ r = q)
    <3>1. mark \in [Conns -> Mark] /\ mark[r] \in Mark BY <1>0 DEF TypeOK
    <3>2. CASE r = q
      <4> DEFINE p == IF IsStream(c) THEN mark[r].pendingStreams - 1
                                     ELSE mark[r].pendingStreams
                 u == IF IsStream(c) THEN mark[r].streamUsers + 1
                                     ELSE mark[r].streamUsers
      <4>1. mark'[r] = [mark[r] EXCEPT !.directBusy = TRUE, !.pendingStreams = p,
                                       !.streamUsers = u]
        BY <2>1b, <3>1, <3>2
      <4>2. mark'[r].directBusy = TRUE /\ mark'[r].pendingStreams = p /\ mark'[r].streamUsers = u
        <5> HIDE DEF p, u
        <5> QED BY <3>1, <4>1 DEF Mark
      <4> QED BY <1>1, <3>2, <4>2 DEF One
    <3>3. CASE r # q
      <4>1. mark'[r] = mark[r] BY <2>1b, <3>1, <3>3
      <4> QED BY <1>1, <3>3, <4>1 DEF One
    <3> QED BY <3>2, <3>3
  <2>3. Token(c)
    <3>1. Holds(c)' BY <1>1, <1>5, <2>1, ScopeConstants DEF Holds, InUse
    <3>2. ~mark[q].directBusy BY <1>1, <1>5, <2>1 DEF CanLease, Busy
    <3>a. mark'[q].directBusy BY <2>1, <2>2
    <3>b. Free(q) /\ ~Free(q)' BY <1>5, <3>2, <3>a DEF Free
    <3>c. Elsewhere(q) BY <1>5, <2>2 DEF Elsewhere, Free
    <3>3. Takes(c, q) BY <1>1, <2>1, <3>1, <3>b, <3>c DEF Takes
    <3> QED BY <2>1, <3>3 DEF Token
  <2>4. Counts(c)
    <3>1. \A r \in Conns : /\ ~Using(c, r) /\ ~Pending(c, r)'
                           /\ Pending(c, r) <=> IsStream(c) /\ r = q
                           /\ Using(c, r)' <=> IsStream(c) /\ r = q
      BY <1>1, <1>5, <2>1, <2>1a DEF Using, Pending, IsStream
    <3> QED BY <1>1, <2>1, <2>2, <3>1 DEF Counts, One
  <2>5. Kindred(c) /\ Places(c)
    BY <1>1, <1>5 DEF Kindred, Places, IsDone, Settled, ScopePC
  <2>6. Waits(c) /\ Loops(c) /\ Admits(c)
    BY <1>1, <1>5 DEF Waits, Loops, Admits, Settled, InUse
  <2> QED BY <2>3, <2>4, <2>5, <2>6 DEF Frame
<1>6. \A l \in PC : Goto(c, l) => pc'[c] = l BY <1>0 DEF Goto, TypeOK
<1> QED BY <1>4, <1>5, <1>6, ScopeConstants DEF Lease, PC

LEMMA LeaseTxFrame ==
  ASSUME IInv, NEW c \in Calls, Mode(c), LeaseTx(c)
  PROVE  Frame(c)
<1>0. TypeOK /\ Local(c) BY DEF IInv
<1>1. /\ pc[c] = "ready" /\ ~Statement(c) /\ MayBegin(c) /\ req' = req /\ idle' = idle
      /\ conn[c] = None /\ ~Holds(c) /\ ~Statement(c)' /\ ~IsStream(c) /\ ~IsStream(c)'
  BY <1>0 DEF LeaseTx, IsTx, Statement, IsStream, Local, Holds
<1> DEFINE k == StateOf(req[c].via)
<1>2. req[c].via = Root /\ ~Pooled => k = Direct /\ k \in Conns
  BY DirectIsConn DEF StateOf
<1>3. req[c].via # Root => k = conn[req[c].via] /\ k \in Conns
  <2> SUFFICES ASSUME req[c].via # Root PROVE k = conn[req[c].via] /\ k \in Conns OBVIOUS
  <2>1. pc[req[c].via] = "body" /\ req[c].via \in Calls
    BY <1>0, <1>1 DEF IInv, Handles, IsDone, Settled, TypeOK, Request
  <2>2. Local(req[c].via) BY <2>1 DEF IInv
  <2> QED BY <2>1, <2>2 DEF Local, NeedsConn, StateOf
<1>4. CASE /\ req[c].via # Root \/ Conservative
           /\ Begin(c, k)
           /\ mark' = [mark EXCEPT ![k].activeScope = c,
                                   ![k].directBusy = @ \/ req[c].via = Root]
  <2>0. PICK q \in Conns : q = k BY <1>2, <1>3, <1>4, ScopeConstants
  <2>1. /\ Begin(c, q)
        /\ mark' = [mark EXCEPT ![q].activeScope = c,
                                ![q].directBusy = @ \/ req[c].via = Root]
    BY <1>4, <2>0
  <2> HIDE DEF k
  <2>2. /\ conn'[c] = q /\ pc'[c] \in {"turn", "drain"}
        /\ \A d \in Calls \ {c} : conn'[d] = conn[d] /\ scope'[d] = scope[d]
    BY <1>0, <2>1 DEF Begin, TakeTurn, Finish, SetScope, Goto, TypeOK
  <2>3. PICK b : b = (mark[q].directBusy \/ req[c].via = Root) OBVIOUS
  <2>4. mark' = [mark EXCEPT ![q].activeScope = c, ![q].directBusy = b]
    BY <1>0, <2>1, <2>3 DEF TypeOK
  <2>4a. b \in BOOLEAN BY <2>3
  <2>5. ASSUME NEW r \in Conns
        PROVE  /\ mark'[r].directBusy = IF r = q THEN b ELSE mark[r].directBusy
               /\ mark'[r].pendingStreams = mark[r].pendingStreams
               /\ mark'[r].streamUsers = mark[r].streamUsers
    <3>1. mark \in [Conns -> Mark] /\ mark[r] \in Mark BY <1>0 DEF TypeOK
    <3>2. CASE r = q
      <4>1. mark'[r] = [mark[r] EXCEPT !.activeScope = c, !.directBusy = b]
        BY <2>4, <3>1, <3>2
      <4> QED BY <2>4a, <3>1, <3>2, <4>1 DEF Mark
    <3>3. CASE r # q
      <4>1. mark'[r] = mark[r] BY <2>4, <3>1, <3>3
      <4> QED BY <3>3, <4>1
    <3> QED BY <3>2, <3>3
  <2>6. Counts(c) BY <1>0, <1>1, <2>2, <2>5, ScopeCounts
  <2>7. Token(c)
    <3>1. CASE req[c].via # Root
      <4>1. ~Holds(c)' BY <1>1, <3>1 DEF Holds
      <4>2. mark[q].directBusy \in BOOLEAN BY <1>0, <2>1 DEF TypeOK, Mark
      <4>3. b = mark[q].directBusy BY <2>3, <3>1, <4>2
      <4> QED BY <1>1, <2>5, <4>1, <4>3, HoldToken
    <3>2. CASE req[c].via = Root
      <4>1. Conservative /\ ~Pooled /\ q = Direct
        BY <1>2, <1>4, <2>0, <3>2, ScopeConstants
      <4>2. Holds(c)' BY <1>1, <2>1, <2>2, <3>2, ScopeConstants DEF Holds, ScopePC
      <4>3. ~mark[q].directBusy BY <1>1, <3>2, <4>1 DEF MayBegin, Busy
      <4>a. mark'[q].directBusy BY <2>1, <2>3, <2>5, <3>2
      <4>b. Free(q) /\ ~Free(q)' BY <4>1, <4>3, <4>a DEF Free
      <4>c. Elsewhere(q) BY <2>5, <4>1 DEF Elsewhere, Free
      <4>4. Takes(c, q) BY <1>1, <2>1, <2>2, <4>1, <4>2, <4>b, <4>c DEF Takes
      <4> QED BY <2>1, <4>4 DEF Token
    <3> QED BY <3>1, <3>2
  <2> QED BY <1>1, <1>3, <2>0, <2>2, <2>6, <2>7, ScopeFrame
<1>5. CASE pc'[c] = "acquiring" /\ UNCHANGED <<conn, scope, mark>>
  <2>1. ~Holds(c)' BY <1>5 DEF Holds, InUse, ScopePC
  <2>2. Token(c) BY <1>1, <1>5, <2>1, HoldToken
  <2>3. Counts(c) BY <1>0, <1>1, <1>5, ScopeCounts
  <2> QED BY <1>1, <1>5, <2>2, <2>3, ScopeFrame
<1>6. CASE /\ req[c].via = Root /\ ~Pooled /\ ~Conservative
           /\ pc'[c] = "queued"
           /\ conn' = [conn EXCEPT ![c] = k]
           /\ UNCHANGED <<scope, mark>>
  <2>0. \A d \in Calls \ {c} : conn'[d] = conn[d] BY <1>0, <1>6 DEF TypeOK
  <2>1. ~Holds(c)' BY <1>6 DEF Holds, InUse, ScopePC
  <2>2. Token(c) BY <1>1, <1>6, <2>1, HoldToken
  <2>3. Counts(c) BY <1>0, <1>1, <1>6, <2>0, ScopeCounts
  <2> QED BY <1>1, <1>6, <2>2, <2>3, ScopeFrame
<1>7. \A l \in PC : Goto(c, l) => pc'[c] = l BY <1>0 DEF Goto, TypeOK
<1> QED BY <1>4, <1>5, <1>6, <1>7 DEF LeaseTx, PC

LEMMA GrantTxFrame ==
  ASSUME IInv, NEW c \in Calls, Mode(c), GrantTx(c)
  PROVE  Frame(c)
<1>0. TypeOK /\ Local(c) BY DEF IInv
<1>1. /\ pc[c] = "queued" /\ ~Statement(c) /\ req' = req /\ idle' = idle
      /\ conn[c] \in Conns /\ ~Holds(c) /\ ~Statement(c)' /\ ~IsStream(c) /\ ~IsStream(c)'
  BY <1>0 DEF GrantTx, IsTx, Statement, IsStream, Local, NeedsConn, Holds, InUse, ScopePC
<1>2. CASE IsHealthy(conn[c])
  <2>2. /\ conn'[c] = conn[c] /\ pc'[c] \in {"turn", "drain"}
        /\ \A d \in Calls \ {c} : conn'[d] = conn[d] /\ scope'[d] = scope[d]
    BY <1>0, <1>1, <1>2 DEF GrantTx, Begin, TakeTurn, Finish, SetScope, Goto, TypeOK
  <2>3. mark' = [mark EXCEPT ![conn[c]].activeScope = c] BY <1>2 DEF GrantTx
  <2>5. \A r \in Conns : /\ mark'[r].directBusy = mark[r].directBusy
                         /\ mark'[r].pendingStreams = mark[r].pendingStreams
                         /\ mark'[r].streamUsers = mark[r].streamUsers
    BY <1>0, <1>1, <2>3, ActiveMarkOnly
  <2>6. Counts(c) BY <1>0, <1>1, <2>2, <2>5, ScopeCounts
  <2>7. Token(c)
    <3>1. CASE req[c].via # Root
      <4>1. ~Holds(c)' BY <1>1, <3>1 DEF Holds
      <4> QED BY <1>1, <2>5, <4>1, HoldToken
    <3>2. CASE req[c].via = Root
      <4>1. ~Conservative /\ ~Pooled BY <1>1, <3>2 DEF Mode
      <4>2. Holds(c)' BY <1>1, <2>2, <3>2, ScopeConstants DEF Holds, ScopePC
      <4>3. Takes(c, conn[c])
        BY <1>1, <2>2, <2>5, <4>1, <4>2 DEF Takes, Elsewhere, Free
      <4> QED BY <1>1, <4>3 DEF Token
    <3> QED BY <3>1, <3>2
  <2> QED BY <1>1, <2>2, <2>6, <2>7, ScopeFrame
<1>3. CASE ~IsHealthy(conn[c])
  <2>1. /\ pc'[c] = "finalize" /\ conn'[c] = None /\ mark' = mark
        /\ \A d \in Calls \ {c} : conn'[d] = conn[d] /\ scope'[d] = scope[d]
    BY <1>0, <1>1, <1>3 DEF GrantTx, NoResource, SetScope, Goto, TypeOK
  <2>2. ~Holds(c)' BY <2>1 DEF Holds
  <2>3. Token(c) BY <1>1, <2>1, <2>2, HoldToken
  <2>4. Counts(c) BY <1>0, <1>1, <2>1, ScopeCounts
  <2> QED BY <1>1, <2>1, <2>3, <2>4, ScopeFrame
<1> QED BY <1>2, <1>3

LEMMA AcquireTxFrame ==
  ASSUME IInv, NEW c \in Calls, Mode(c), AcquireTx(c)
  PROVE  Frame(c)
<1>0. TypeOK /\ Local(c) BY DEF IInv
<1>1. /\ pc[c] = "acquiring" /\ ~Statement(c) /\ req' = req /\ idle \in SUBSET Conns
      /\ conn[c] = None /\ ~Holds(c) /\ ~Statement(c)' /\ ~IsStream(c) /\ ~IsStream(c)'
      /\ Pooled /\ req[c].via = Root
  BY <1>0 DEF AcquireTx, IsTx, Statement, IsStream, Local, Holds, TypeOK
<1>2. PICK k \in Conns : k \in idle /\
         IF IsHealthy(k)
           THEN /\ Begin(c, k)
                /\ mark' = [mark EXCEPT ![k].activeScope = c]
                /\ idle' = idle \ {k}
                /\ UNCHANGED <<poisoned, open>>
           ELSE /\ NoResource(c)
                /\ Discard(c, k)
                /\ UNCHANGED turns
  BY <1>1 DEF AcquireTx
<1>3. CASE IsHealthy(k)
  <2>2. /\ conn'[c] = k /\ pc'[c] \in {"turn", "drain"}
        /\ \A d \in Calls \ {c} : conn'[d] = conn[d] /\ scope'[d] = scope[d]
    BY <1>0, <1>2, <1>3 DEF Begin, TakeTurn, Finish, SetScope, Goto, TypeOK
  <2>3. mark' = [mark EXCEPT ![k].activeScope = c] BY <1>2, <1>3
  <2>5. \A r \in Conns : /\ mark'[r].pendingStreams = mark[r].pendingStreams
                         /\ mark'[r].streamUsers = mark[r].streamUsers
    BY <1>0, <2>3, ActiveMarkOnly
  <2>6. Counts(c) BY <1>0, <1>1, <2>2, <2>5, ScopeCounts
  <2>7. Token(c)
    <3>1. Holds(c)' BY <1>1, <2>2, ScopeConstants DEF Holds, ScopePC
    <3>2. Takes(c, k)
      BY <1>1, <1>2, <1>3, <2>2, <3>1, ScopeConstants DEF Takes, Elsewhere, Free
    <3> QED BY <3>2 DEF Token
  <2> QED BY <1>1, <2>2, <2>6, <2>7, ScopeFrame
<1>4. CASE ~IsHealthy(k)
  <2>1. /\ pc'[c] = "finalize" /\ Discard(c, k) /\ conn'[c] = None
        /\ \A d \in Calls \ {c} : scope'[d] = scope[d]
    BY <1>0, <1>2, <1>4 DEF NoResource, SetScope, Goto, TypeOK, Discard
  <2>2. Token(c) /\ Counts(c) BY <1>1, <1>2, <2>1, DiscardParts
  <2> QED BY <1>1, <2>1, <2>2, ScopeFrame
<1> QED BY <1>3, <1>4

LEMMA RefuseTxFrame ==
  ASSUME IInv, NEW c \in Calls, Mode(c), RefuseTx(c)
  PROVE  Frame(c)
<1>0. TypeOK /\ Local(c) BY DEF IInv
<1>1. /\ pc[c] = "ready" /\ ~Statement(c) /\ UNCHANGED <<req, conn, mark, idle>>
      /\ pc'[c] = "finalize" /\ conn[c] = None
      /\ \A h \in Calls \ {c} : scope'[h] = scope[h]
  BY <1>0 DEF RefuseTx, IsTx, Statement, Local, NoResource, SetScope, Goto, TypeOK
<1>2. ~Statement(c)' /\ ~IsStream(c) /\ ~IsStream(c)' /\ ~Holds(c) /\ ~Holds(c)'
  BY <1>1 DEF Statement, IsStream, Holds
<1>3. Token(c) BY <1>1, <1>2, HoldToken
<1>4. Counts(c) BY <1>0, <1>1, <1>2, ScopeCounts
<1> QED BY <1>1, <1>2, <1>3, <1>4, ScopeFrame


LEMMA GrantSessionFrame ==
  ASSUME IInv, NEW c \in Calls, Mode(c), GrantSession(c)
  PROVE  Frame(c)
<1>0. TypeOK /\ Local(c) BY DEF IInv
<1>1. /\ pc[c] = "queued" /\ ~Statement(c) /\ req' = req /\ idle' = idle /\ conn' = conn
      /\ conn[c] \in Conns /\ ~Holds(c) /\ ~Statement(c)' /\ ~IsStream(c) /\ ~IsStream(c)'
 
    BY <1>0 DEF GrantSession, IsSession, Statement, IsStream, Local, NeedsConn, Holds, InUse, ScopePC
<1>2. CASE IsHealthy(conn[c])
  <2>1. /\ pc'[c] = "body" /\ OpenSession(c, conn[c])
        /\ \A d \in Calls \ {c} : scope'[d] = scope[d]
    BY <1>0, <1>2 DEF GrantSession, SetScope, Goto, TypeOK
  <2>2. \A r \in Conns :
          /\ mark'[r].directBusy <=>
               mark[r].directBusy \/ (r = conn[c] /\ Conservative /\ req[c].via = Root)
          /\ mark'[r].directBusy \in BOOLEAN /\ mark[r].directBusy \in BOOLEAN
          /\ mark'[r].pendingStreams = mark[r].pendingStreams
          /\ mark'[r].streamUsers = mark[r].streamUsers
    BY <1>0, <1>1, <2>1, OpenSessionMark DEF TypeOK, Mark
  <2>3. \A r \in Conns : mark'[r].directBusy = mark[r].directBusy BY <1>1, <2>2 DEF Mode
  <2>4. Counts(c) BY <1>0, <1>1, <2>2, ScopeCounts
  <2>5. Token(c)
    <3>1. CASE req[c].via # Root
      <4>1. ~Holds(c)' BY <1>1, <3>1 DEF Holds
      <4> QED BY <1>1, <2>3, <4>1, HoldToken
    <3>2. CASE req[c].via = Root
      <4>1. ~Conservative /\ ~Pooled BY <1>1, <3>2 DEF Mode
      <4>2. Holds(c)' BY <1>1, <2>1, <3>2, ScopeConstants DEF Holds, ScopePC
      <4>3. Takes(c, conn[c])
        BY <1>1, <2>3, <4>1, <4>2 DEF Takes, Elsewhere, Free
      <4> QED BY <1>1, <4>3 DEF Token
    <3> QED BY <3>1, <3>2
  <2> QED BY <1>1, <2>1, <2>4, <2>5, ScopeFrame
<1>3. CASE ~IsHealthy(conn[c])
  <2>1. pc'[c] = "rejected" /\ mark' = mark /\ scope' = scope
    BY <1>0, <1>3 DEF GrantSession, Goto, TypeOK
  <2>2. ~Holds(c)' BY <2>1 DEF Holds, InUse, ScopePC
  <2>3. Token(c) BY <1>1, <2>1, <2>2, HoldToken
  <2>4. Counts(c) BY <1>0, <1>1, <2>1, ScopeCounts
  <2> QED BY <1>1, <2>1, <2>3, <2>4, ScopeFrame DEF Settled
<1> QED BY <1>2, <1>3

LEMMA AcquireSessionFrame ==
  ASSUME IInv, NEW c \in Calls, Mode(c), AcquireSession(c)
  PROVE  Frame(c)
<1>0. TypeOK /\ Local(c) BY DEF IInv
<1>1. /\ pc[c] = "acquiring" /\ ~Statement(c) /\ req' = req /\ idle \in SUBSET Conns
      /\ conn[c] = None /\ ~Holds(c) /\ ~Statement(c)' /\ ~IsStream(c) /\ ~IsStream(c)'
      /\ Pooled /\ req[c].via = Root
  BY <1>0 DEF AcquireSession, IsSession, Statement, IsStream, Local, Holds, TypeOK
<1>2. PICK k \in Conns : k \in idle /\
         IF IsHealthy(k)
           THEN /\ Goto(c, "body")
                /\ conn' = [conn EXCEPT ![c] = k]
                /\ SetScope(c, [NewScope EXCEPT !.prev = mark[k].activeSession])
                /\ OpenSession(c, k)
                /\ idle' = idle \ {k}
                /\ UNCHANGED <<poisoned, open>>
           ELSE Goto(c, "rejected") /\ Discard(c, k) /\ UNCHANGED scope
  BY <1>1 DEF AcquireSession
<1>3. CASE IsHealthy(k)
  <2>1. /\ conn'[c] = k /\ pc'[c] = "body" /\ OpenSession(c, k)
        /\ \A d \in Calls \ {c} : conn'[d] = conn[d] /\ scope'[d] = scope[d]
    BY <1>0, <1>2, <1>3 DEF SetScope, Goto, TypeOK
  <2>2. \A r \in Conns : /\ mark'[r].pendingStreams = mark[r].pendingStreams
                         /\ mark'[r].streamUsers = mark[r].streamUsers
    BY <1>0, <2>1, OpenSessionMark
  <2>3. Counts(c) BY <1>0, <1>1, <2>1, <2>2, ScopeCounts
  <2>4. Token(c)
    <3>1. Holds(c)' BY <1>1, <2>1, ScopeConstants DEF Holds, ScopePC
    <3>2. Takes(c, k)
      BY <1>1, <1>2, <1>3, <2>1, <3>1, ScopeConstants DEF Takes, Elsewhere, Free
    <3> QED BY <3>2 DEF Token
  <2> QED BY <1>1, <2>1, <2>3, <2>4, ScopeFrame
<1>4. CASE ~IsHealthy(k)
  <2>1. pc'[c] = "rejected" /\ Discard(c, k) /\ conn'[c] = None /\ scope' = scope
    BY <1>0, <1>2, <1>4 DEF Goto, TypeOK, Discard
  <2>2. Token(c) /\ Counts(c) BY <1>1, <1>2, <2>1, DiscardParts
  <2> QED BY <1>1, <2>1, <2>2, ScopeFrame DEF Settled
<1> QED BY <1>3, <1>4

LEMMA FinalizeFrame ==
  ASSUME IInv, NEW c \in Calls, Mode(c), Finalize(c)
  PROVE  Frame(c)
<1>0. TypeOK /\ Local(c) BY DEF IInv
<1>1. /\ pc[c] = "finalize" /\ ~Statement(c) /\ req' = req /\ conn' = conn /\ idle' = idle
      /\ ~Statement(c)' /\ ~IsStream(c) /\ ~IsStream(c)'
      /\ req[c].via \in Calls \cup {Root}
  BY <1>0 DEF Finalize, Local, ScopePC, Statement, IsStream, TypeOK, Request
<1> DEFINE k == IF conn[c] # None THEN conn[c] ELSE StateOf(req[c].via)
           holds == req[c].via = Root /\ conn[c] # None
<1>2. /\ \A d \in Calls \ {c} : scope'[d] = scope[d]
      /\ IF holds /\ Pooled THEN pc'[c] = "releasing" ELSE pc'[c] \in Settled
  BY <1>0 DEF Finalize, SetScope, Goto, EndAs, TypeOK, Settled
<1>3. k \in Conns \cup {None} BY <1>0, <1>1, StateOfType DEF TypeOK
<1>4. PICK q \in Conns \cup {None} : q = k BY <1>3
<1>5. PICK m : m = IF q = None THEN Fresh ELSE Restored(c, mark[q]) OBVIOUS
<1>6. mark' = IF q = None THEN mark
              ELSE [mark EXCEPT ![q] = IF holds /\ Conservative
                                         THEN [m EXCEPT !.directBusy = FALSE] ELSE m]
  BY <1>4, <1>5 DEF Finalize
<1>7. holds => q = conn[c] /\ q \in Conns BY <1>4, ScopeConstants
<1> HIDE DEF k
<1>8. ASSUME NEW r \in Conns
      PROVE  /\ IF r = q /\ holds /\ Conservative
                  THEN ~mark'[r].directBusy
                  ELSE mark'[r].directBusy = mark[r].directBusy
             /\ mark'[r].pendingStreams = mark[r].pendingStreams
             /\ mark'[r].streamUsers = mark[r].streamUsers
  <2>1. mark \in [Conns -> Mark] /\ mark[r] \in Mark BY <1>0 DEF TypeOK
  <2>2. CASE r = q
    <3>1. q \in Conns /\ q # None /\ m = Restored(c, mark[r])
      BY <1>5, <2>2, ScopeConstants
    <3>2. /\ m \in Mark /\ m.directBusy = mark[r].directBusy
          /\ m.pendingStreams = mark[r].pendingStreams
          /\ m.streamUsers = mark[r].streamUsers
      <4>1. scope[c] \in Scope BY <1>0 DEF TypeOK
      <4> QED BY <2>1, <3>1, <4>1 DEF Restored, Mark, Scope
    <3>3. mark'[r] = IF holds /\ Conservative THEN [m EXCEPT !.directBusy = FALSE] ELSE m
      BY <1>6, <2>1, <2>2, <3>1
    <3> QED BY <2>2, <3>2, <3>3 DEF Mark
  <2>3. CASE r # q
    <3>1. mark'[r] = mark[r] BY <1>6, <2>1, <2>3
    <3> QED BY <2>3, <3>1
  <2> QED BY <2>2, <2>3
<1>9. Counts(c) BY <1>0, <1>1, <1>8, ScopeCounts
<1>10. Token(c)
  <2>1. CASE holds /\ ~Pooled
    <3>1. Holds(c) /\ ~Holds(c)'
      BY <1>1, <1>2, <2>1 DEF Holds, ScopePC, InUse, Settled
    <3>2. Conservative => Free(q)' BY <1>7, <1>8, <2>1 DEF Free
    <3>3. Elsewhere(q) BY <1>8, <2>1 DEF Elsewhere, Free
    <3>4. Gives(c, q) BY <1>7, <2>1, <3>1, <3>2, <3>3 DEF Gives
    <3> QED BY <1>7, <2>1, <3>4 DEF Token
  <2>2. CASE ~holds \/ Pooled
    <3>1. \A r \in Conns : mark'[r].directBusy = mark[r].directBusy
      BY <1>8, <2>2, ScopeConstants
    <3>2. \A r \in Conns : Free(r)' <=> Free(r) BY <1>1, <3>1 DEF Free
    <3>3. Holds(c)' <=> Holds(c)
      BY <1>1, <1>2, <2>2 DEF Holds, ScopePC, InUse, Settled
    <3> QED BY <1>1, <3>2, <3>3 DEF Token
  <2> QED BY <2>1, <2>2
<1> QED BY <1>1, <1>2, <1>9, <1>10, ScopeFrame DEF Settled

-----------------------------------------------------------------------------
(* Calls that are made. *)

LEMMA MadeFacts ==
  ASSUME IInv, NEW c \in Calls, NEW kind, NEW h, NEW caller \in SUBSET Calls,
         Around(caller), Make(c, kind, h, caller)
  PROVE  /\ TypeOK /\ pc[c] = "unborn" /\ conn[c] = None /\ ~Holds(c)
         /\ \A r \in Conns : ~Using(c, r) /\ ~Pending(c, r)
         /\ req'[c].kind = kind /\ req'[c].via = h /\ req'[c].caller = caller
         /\ Around(req'[c].caller) /\ h \in Calls \cup {Root} /\ h # c
         /\ h # Root => conn[h] \in Conns /\ (IsOpen(h) => pc[h] = "body")
         /\ \A l \in PC : Goto(c, l) => pc'[c] = l
<1>1. /\ TypeOK /\ pc[c] = "unborn" /\ conn[c] = None
      /\ req'[c].kind = kind /\ req'[c].via = h /\ req'[c].caller = caller
      /\ h \in Calls \cup {Root}
      /\ h # Root => /\ h # c /\ Opened(h) /\ conn[h] \in Conns
                     /\ (pc[h] = "body" /\ h \in caller) \/ scope[h].closed
  BY MakeFacts DEF IInv
<1>2. h # Root => (IsOpen(h) => pc[h] = "body") BY <1>1 DEF IsOpen
<1>3. ~Holds(c) /\ \A r \in Conns : ~Using(c, r) /\ ~Pending(c, r)
  BY <1>1 DEF Holds, Using, Pending
<1>4. \A l \in PC : Goto(c, l) => pc'[c] = l BY <1>1 DEF Goto, TypeOK
<1> QED BY <1>1, <1>2, <1>3, <1>4, ScopeConstants

LEMMA ExecuteFrame ==
  ASSUME IInv, NEW c \in Calls, NEW h, NEW caller \in SUBSET Calls, Around(caller),
         Execute(c, h, caller)
  PROVE  Frame(c)
<1>1. /\ TypeOK /\ pc[c] = "unborn" /\ conn[c] = None /\ ~Holds(c)
      /\ \A r \in Conns : ~Using(c, r) /\ ~Pending(c, r)
      /\ req'[c].kind = "execute" /\ Around(req'[c].caller)
      /\ pc'[c] \in {"ready", "rejected"}
  BY MadeFacts DEF Execute, PC, Settled
<1>2. UNCHANGED <<conn, scope, tail, turns, mark, poisoned, open, idle>> BY DEF Execute
<1>3. ~Holds(c)' BY <1>1 DEF Holds, InUse, ScopePC
<1>4. Token(c) BY <1>2, <1>1, <1>3, HoldToken
<1>5. ~IsStream(c)' BY <1>1 DEF IsStream
<1>6. Counts(c) BY <1>1, <1>2, <1>5, ScopeCounts
<1>7. Kindred(c) /\ Places(c) BY <1>1, <1>2 DEF Kindred, Places, IsDone, Settled, ScopePC
<1>8. Waits(c) /\ Loops(c) /\ Admits(c)
  BY <1>1, <1>2, <1>5 DEF Waits, Loops, Admits, Settled, InUse
<1> QED BY <1>4, <1>6, <1>7, <1>8 DEF Frame

(* A stream joins the streams of its handle, and the others stay there. *)
LEMMA JoinStreams ==
  ASSUME TypeOK, NEW h \in Calls, NEW c \in Calls,
         scope' = [scope EXCEPT ![h].streams = Append(@, c)]
  PROVE  /\ c \in ToSet(scope'[h].streams)
         /\ \A g \in Calls :
              /\ scope'[g].awaited = scope[g].awaited /\ scope'[g].drain = scope[g].drain
              /\ \A d \in ToSet(scope[g].streams) : d \in ToSet(scope'[g].streams)
<1>0. PICK s : s = scope[h].streams OBVIOUS
<1>1. scope[h] \in Scope /\ s \in Seq(Calls) BY <1>0 DEF TypeOK, Scope
<1>2. PICK q : q = Append(s, c) OBVIOUS
<1>3. scope'[h] = [scope[h] EXCEPT !.streams = q] BY <1>0, <1>2 DEF TypeOK
<1>4. /\ scope'[h].streams = q /\ scope'[h].awaited = scope[h].awaited
      /\ scope'[h].drain = scope[h].drain
  BY <1>1, <1>3 DEF Scope
<1>5. c \in ToSet(q) /\ \A d \in ToSet(s) : d \in ToSet(q)
  <2>1. q \in Seq(Calls) /\ Len(q) = Len(s) + 1 /\ q[Len(s) + 1] = c
        /\ \A i \in 1..Len(s) : q[i] = s[i]
    BY <1>1, <1>2
  <2>2. Len(s) \in Nat /\ DOMAIN q = 1..Len(q) /\ DOMAIN s = 1..Len(s) BY <1>1, <2>1
  <2> QED BY <2>1, <2>2 DEF ToSet
<1>6. \A g \in Calls \ {h} : scope'[g] = scope[g] BY DEF TypeOK
<1> QED BY <1>0, <1>4, <1>5, <1>6

LEMMA StreamFrame ==
  ASSUME IInv, NEW c \in Calls, NEW h, NEW caller \in SUBSET Calls, Around(caller),
         Stream(c, h, caller)
  PROVE  Frame(c)
<1>1. /\ TypeOK /\ pc[c] = "unborn" /\ conn[c] = None /\ ~Holds(c)
      /\ \A r \in Conns : ~Using(c, r) /\ ~Pending(c, r)
      /\ req'[c].kind = "stream" /\ Around(req'[c].caller) /\ req'[c].via = h
      /\ h \in Calls \cup {Root} /\ h # c
      /\ h # Root => conn[h] \in Conns /\ (IsOpen(h) => pc[h] = "body")
  BY MadeFacts DEF Stream
<1>2. UNCHANGED <<conn, tail, turns, poisoned, open, idle>> BY DEF Stream
<1>3. pc'[c] \in {"ready", "rejected"} BY <1>1 DEF Stream, Goto, TypeOK
<1>4. ~Holds(c)' BY <1>3 DEF Holds, InUse, ScopePC
<1>5. StateOf(h) \in Conns \cup {None} BY <1>1, StateOfType
<1>6. \A r \in Conns : mark[r].pendingStreams \in Int /\ mark[r].streamUsers \in Int
  BY <1>1 DEF TypeOK, Mark
<1>7. CASE pc'[c] = "rejected" /\ UNCHANGED <<scope, mark>>
  <2>1. Token(c) BY <1>1, <1>2, <1>4, <1>7, HoldToken
  <2>2. \A r \in Conns : ~Using(c, r)' /\ ~Pending(c, r)' BY <1>7 DEF Using, Pending
  <2>3. Counts(c) BY <1>1, <1>2, <1>6, <1>7, <2>2 DEF Counts, One
  <2>4. Kindred(c) /\ Places(c)
    BY <1>1, <1>2, <1>7 DEF Kindred, Places, IsDone, Settled, ScopePC
  <2>5. Waits(c) /\ Loops(c) /\ Admits(c)
    BY <1>1, <1>2, <1>7 DEF Waits, Loops, Admits, IsDone, Settled, InUse
  <2> QED BY <2>1, <2>3, <2>4, <2>5 DEF Frame
<1>8. CASE /\ pc'[c] = "ready" /\ IsOpen(h) /\ Admission(StateOf(h), 1, 0)
           /\ scope' = IF h = Root THEN scope
                       ELSE [scope EXCEPT ![h].streams = Append(@, c)]
  <2>1. ASSUME NEW r \in Conns
        PROVE  /\ mark'[r].directBusy = mark[r].directBusy
               /\ mark'[r].pendingStreams =
                    mark[r].pendingStreams + (IF r = StateOf(h) THEN 1 ELSE 0)
               /\ mark'[r].streamUsers =
                    mark[r].streamUsers + (IF r = StateOf(h) THEN 0 ELSE 0)
    <3>1. PICK q \in Conns \cup {None}, p \in Int, u \in Int :
            q = StateOf(h) /\ p = 1 /\ u = 0
      BY <1>5
    <3>2. Admission(q, p, u) BY <1>8, <3>1
    <3>3. /\ mark'[r].directBusy = mark[r].directBusy
          /\ mark'[r].pendingStreams = mark[r].pendingStreams + (IF r = q THEN p ELSE 0)
          /\ mark'[r].streamUsers = mark[r].streamUsers + (IF r = q THEN u ELSE 0)
      BY <1>1, <3>2, AdmissionMark
    <3> QED BY <3>1, <3>3
  <2>2. Token(c) BY <1>1, <1>2, <1>4, <2>1, HoldToken
  <2>3. Counts(c)
    <3>1. \A r \in Conns : ~Using(c, r)' /\ (Pending(c, r)' <=> r = StateOf(h))
      BY <1>1, <1>2, <1>8 DEF Using, Pending, IsStream, StateOf
    <3> QED BY <1>1, <1>2, <1>6, <2>1, <3>1 DEF Counts, One
  <2>4. Kindred(c) /\ Places(c)
    BY <1>1, <1>2, <1>8 DEF Kindred, Places, IsDone, Settled, ScopePC
  <2>5. /\ h # Root => c \in ToSet(scope'[h].streams)
        /\ \A g \in Calls :
              /\ scope'[g].awaited = scope[g].awaited /\ scope'[g].drain = scope[g].drain
              /\ \A d \in ToSet(scope[g].streams) : d \in ToSet(scope'[g].streams)
    BY <1>1, <1>8, JoinStreams
  <2>6. Waits(c) BY <1>1, <1>8, <2>5 DEF Waits, InUse
  <2>7. Loops(c) BY <1>1, <1>8, <2>5 DEF Loops
  <2>8. Admits(c) BY <1>1, <1>8, ScopeConstants DEF Admits, InUse, Settled
  <2> QED BY <2>2, <2>3, <2>4, <2>6, <2>7, <2>8 DEF Frame
<1> QED BY <1>1, <1>7, <1>8 DEF Stream, Goto, TypeOK

LEMMA TxFrame ==
  ASSUME IInv, NEW c \in Calls, NEW h, NEW caller \in SUBSET Calls, Around(caller),
         Tx(c, h, caller)
  PROVE  Frame(c)
<1>1. /\ TypeOK /\ pc[c] = "unborn" /\ conn[c] = None /\ ~Holds(c)
      /\ \A r \in Conns : ~Using(c, r) /\ ~Pending(c, r)
      /\ req'[c].kind = "tx" /\ Around(req'[c].caller) /\ req'[c].via = h
      /\ h \in Calls \cup {Root} /\ h # c
      /\ h # Root => conn[h] \in Conns /\ (IsOpen(h) => pc[h] = "body")
  BY MadeFacts DEF Tx
<1>2. ~Statement(c)' /\ ~IsStream(c)' /\ idle' = idle BY <1>1 DEF Statement, IsStream, Tx
<1>3. Mode(c) BY <1>1 DEF Mode
<1>4. CASE pc'[c] = "rejected" /\ UNCHANGED <<conn, scope, mark>>
  <2>1. ~Holds(c)' BY <1>4 DEF Holds, InUse, ScopePC
  <2>2. Token(c) BY <1>1, <1>2, <1>4, <2>1, HoldToken
  <2>3. Counts(c) BY <1>1, <1>2, <1>4, ScopeCounts
  <2> QED BY <1>1, <1>2, <1>3, <1>4, <2>2, <2>3, ScopeFrame DEF Settled
<1>5. CASE /\ pc'[c] = IF InTransaction(h) THEN "announce" ELSE "ready"
           /\ conn' = (IF InTransaction(h) THEN [conn EXCEPT ![c] = StateOf(h)] ELSE conn)
           /\ \E s : SetScope(c, s)
           /\ mark' = (IF InTransaction(h) \/ (h = Root /\ Conservative)
                         THEN [mark EXCEPT ![StateOf(h)].activeScope = c] ELSE mark)
  <2>1. InTransaction(h) => h # Root BY DEF InTransaction
  <2>2. InTransaction(h) \/ (h = Root /\ Conservative) => StateOf(h) \in Conns
    BY <1>1, <2>1, DirectIsConn, ScopeConstants DEF StateOf
  <2>3. ASSUME NEW r \in Conns
        PROVE  /\ mark'[r].directBusy = mark[r].directBusy
               /\ mark'[r].pendingStreams = mark[r].pendingStreams
               /\ mark'[r].streamUsers = mark[r].streamUsers
    <3>1. CASE InTransaction(h) \/ (h = Root /\ Conservative)
      <4>1. PICK q \in Conns : q = StateOf(h) BY <2>2, <3>1
      <4>2. mark' = [mark EXCEPT ![q].activeScope = c] BY <1>5, <3>1, <4>1
      <4> QED BY <1>1, <4>2, ActiveMarkOnly
    <3>2. CASE ~(InTransaction(h) \/ (h = Root /\ Conservative))
      BY <1>5, <3>2
    <3> QED BY <3>1, <3>2
  <2>4. \A d \in Calls \ {c} : conn'[d] = conn[d] /\ scope'[d] = scope[d]
    BY <1>1, <1>5 DEF TypeOK, SetScope
  <2>5. h # Root => conn'[c] \in {None, conn[h]} BY <1>1, <1>5 DEF TypeOK, StateOf
  <2>6. ~Holds(c)' BY <1>1, <1>5, <2>1 DEF Holds, InUse, ScopePC
  <2>7. Token(c) BY <1>1, <1>2, <2>3, <2>6, HoldToken
  <2>8. Counts(c) BY <1>1, <1>2, <2>3, <2>4, ScopeCounts
  <2> QED BY <1>1, <1>2, <1>3, <1>5, <2>4, <2>5, <2>7, <2>8, ScopeFrame
<1> QED BY <1>1, <1>4, <1>5 DEF Tx, Goto, TypeOK

LEMMA SessionFrame ==
  ASSUME IInv, NEW c \in Calls, NEW h, NEW caller \in SUBSET Calls, Around(caller),
         Session(c, h, caller)
  PROVE  Frame(c)
<1>1. /\ TypeOK /\ pc[c] = "unborn" /\ conn[c] = None /\ ~Holds(c)
      /\ \A r \in Conns : ~Using(c, r) /\ ~Pending(c, r)
      /\ req'[c].kind = "session" /\ Around(req'[c].caller) /\ req'[c].via = h
      /\ h \in Calls \cup {Root} /\ h # c
      /\ h # Root => conn[h] \in Conns /\ (IsOpen(h) => pc[h] = "body")
  BY MadeFacts DEF Session
<1>2. ~Statement(c)' /\ ~IsStream(c)' /\ idle' = idle
  BY <1>1 DEF Statement, IsStream, Session
<1>3. Mode(c) BY <1>1 DEF Mode
<1>4. CASE pc'[c] \in {"rejected", "acquiring"} /\ UNCHANGED <<conn, scope, mark>>
  <2>1. ~Holds(c)' BY <1>4 DEF Holds, InUse, ScopePC
  <2>2. Token(c) BY <1>1, <1>2, <1>4, <2>1, HoldToken
  <2>3. Counts(c) BY <1>1, <1>2, <1>4, ScopeCounts
  <2> QED BY <1>1, <1>2, <1>3, <1>4, <2>2, <2>3, ScopeFrame DEF Settled
<1>5. CASE /\ pc'[c] = "queued" /\ h = Root /\ ~Pooled /\ ~Conservative
           /\ conn' = [conn EXCEPT ![c] = StateOf(h)] /\ (\E s : SetScope(c, s))
           /\ UNCHANGED mark
  <2>1. ~Holds(c)' BY <1>5 DEF Holds, InUse, ScopePC
  <2>2. \A d \in Calls \ {c} : conn'[d] = conn[d] /\ scope'[d] = scope[d]
    BY <1>1, <1>5 DEF TypeOK, SetScope
  <2>3. Token(c) BY <1>1, <1>2, <1>5, <2>1, HoldToken
  <2>4. Counts(c) BY <1>1, <1>2, <1>5, <2>2, ScopeCounts
  <2> QED BY <1>1, <1>2, <1>3, <1>5, <2>2, <2>3, <2>4, ScopeFrame
<1>6. CASE /\ pc'[c] = "body" /\ (h # Root \/ (Conservative /\ ~Busy))
           /\ conn' = [conn EXCEPT ![c] = StateOf(h)] /\ (\E s : SetScope(c, s))
           /\ OpenSession(c, StateOf(h))
  <2>0. PICK q \in Conns : q = StateOf(h)
    <3>1. StateOf(h) \in Conns BY <1>1, <1>6, DirectIsConn, ScopeConstants DEF StateOf
    <3> QED BY <3>1
  <2>1. OpenSession(c, q) BY <1>6, <2>0
  <2>2. \A r \in Conns :
          /\ mark'[r].directBusy <=>
               mark[r].directBusy \/ (r = q /\ Conservative /\ h = Root)
          /\ mark'[r].directBusy \in BOOLEAN /\ mark[r].directBusy \in BOOLEAN
          /\ mark'[r].pendingStreams = mark[r].pendingStreams
          /\ mark'[r].streamUsers = mark[r].streamUsers
    BY <1>1, <2>1, OpenSessionMark DEF TypeOK, Mark
  <2>3. conn'[c] = q /\ \A d \in Calls \ {c} : conn'[d] = conn[d] /\ scope'[d] = scope[d]
    BY <1>1, <1>6, <2>0 DEF TypeOK, SetScope
  <2>4. Counts(c) BY <1>1, <1>2, <2>2, <2>3, ScopeCounts
  <2>5. Token(c)
    <3>1. CASE h # Root
      <4>1. ~Holds(c)' BY <1>1, <3>1 DEF Holds
      <4>2. \A r \in Conns : mark'[r].directBusy = mark[r].directBusy BY <2>2, <3>1
      <4> QED BY <1>1, <1>2, <4>1, <4>2, HoldToken
    <3>2. CASE h = Root
      <4>1. Conservative /\ ~Pooled /\ q = Direct /\ ~mark[q].directBusy
        BY <1>6, <2>0, <3>2, ScopeConstants DEF StateOf, Busy
      <4>2. Holds(c)' BY <1>1, <1>6, <2>3, <3>2, ScopeConstants DEF Holds, ScopePC
      <4>3. Free(q) /\ ~Free(q)' /\ Elsewhere(q) BY <2>2, <3>2, <4>1 DEF Free, Elsewhere
      <4>4. Takes(c, q) BY <1>1, <2>3, <4>1, <4>2, <4>3 DEF Takes
      <4> QED BY <4>4 DEF Token
    <3> QED BY <3>1, <3>2
  <2>6. h # Root => conn'[c] = conn[h] BY <2>0, <2>3 DEF StateOf
  <2> QED BY <1>1, <1>2, <1>3, <1>6, <2>3, <2>4, <2>5, <2>6, ScopeFrame
<1> QED BY <1>1, <1>4, <1>5, <1>6 DEF Session, Goto, TypeOK

-----------------------------------------------------------------------------
(* A step of c keeps each part of the invariant.                           *)

(* What a step of c leaves of any call d. *)
LEMMA StepFacts ==
  ASSUME JInv, NEW c \in Calls, Advance(c), Frame(c), NEW d \in Calls
  PROVE  /\ TypeOK /\ TypeOK' /\ Whole(d)
         /\ Local(d) /\ Handles(d) /\ Local(d)' /\ Handles(d)'
         /\ pc[d] # "unborn" => req'[d] = req[d] /\ pc'[d] # "unborn"
         /\ d # c => /\ req'[d] = req[d] /\ pc'[d] = pc[d]
                     /\ conn'[d] = conn[d] \/ pc[d] = "closed"
         /\ pc[c] \notin Settled
         /\ pc[c] = "body" => Awaited(c)
<1>1. IInv /\ IInv' BY AdvanceKeeps DEF JInv
<1>2. Kindred(c) /\ Moves(c) BY DEF Frame, Advance
<1> QED BY <1>1, <1>2 DEF JInv, IInv, Kindred, Moves, Advance, IsDone

(* A call that is not done is not made on itself. *)
LEMMA NotOwnHandle ==
  ASSUME IInv, NEW d \in Calls, Kin(d), Unfinished(d)
  PROVE  req[d].via # d
<1> SUFFICES ASSUME req[d].via = d PROVE FALSE OBVIOUS
<1>1. Handles(d) /\ d # Root BY ScopeConstants DEF IInv
<1>2. ~Statement(d) BY <1>1 DEF Handles, Opened, Unfinished
<1> QED BY <1>1, <1>2 DEF Handles, Unfinished, Kin

LEMMA KinKept ==
  ASSUME JInv, NEW c \in Calls, Advance(c), Frame(c), NEW d \in Calls
  PROVE  Kin(d)'
<1>0. \A s \in Calls : pc[s] # "unborn" => req'[s] = req[s] /\ pc'[s] # "unborn"
  BY StepFacts
<1>1. TypeOK /\ TypeOK' /\ Kin(d) BY StepFacts DEF Whole
<1>2. CASE pc[d] # "unborn"
  <2>1. req[d].caller \subseteq Calls BY <1>1 DEF TypeOK, Request
  <2> QED BY <1>0, <1>1, <1>2, <2>1 DEF Kin, Around
<1>3. CASE pc[d] = "unborn" /\ d = c
  <2>1. Around(req'[c].caller) BY <1>3 DEF Frame, Kindred
  <2>2. req'[c].caller \subseteq Calls BY <1>1 DEF TypeOK, Request
  <2>3. \A s \in req'[c].caller :
          /\ pc[s] # "unborn" /\ req[s].caller \subseteq req'[c].caller
          /\ req'[s] = req[s] /\ pc'[s] # "unborn"
    BY <1>0, <2>1, <2>2 DEF Around
  <2> QED BY <1>3, <2>3 DEF Kin, Around
<1>4. CASE pc[d] = "unborn" /\ d # c
  BY <1>4, StepFacts DEF Kin
<1> QED BY <1>2, <1>3, <1>4

LEMMA ModeKept ==
  ASSUME JInv, NEW c \in Calls, Advance(c), Frame(c), NEW d \in Calls
  PROVE  Mode(d)'
<1>1. Mode(d) BY StepFacts DEF Whole
<1>2. CASE d = c
  BY <1>2 DEF Frame, Places, Mode
<1>3. CASE d # c
  BY <1>1, <1>3, StepFacts DEF Mode, IsStream
<1> QED BY <1>2, <1>3

LEMMA ShareKept ==
  ASSUME JInv, NEW c \in Calls, Advance(c), Frame(c), NEW d \in Calls
  PROVE  Share(d)'
<1> SUFFICES ASSUME pc'[d] \notin {"unborn", "closed"} \cup Settled, req'[d].via # Root,
                    conn'[d] # None, pc'[req'[d].via] \in ScopePC
             PROVE  conn'[d] = conn'[req'[d].via]
  BY DEF Share
<1> DEFINE h == req'[d].via
<1>0. /\ TypeOK /\ TypeOK' /\ Share(d) /\ Kin(d)' /\ Local(d) /\ Handles(d)
      /\ pc[d] # "unborn" => req'[d] = req[d]
      /\ d # c => /\ req'[d] = req[d] /\ pc'[d] = pc[d]
                  /\ conn'[d] = conn[d] \/ pc[d] = "closed"
  BY StepFacts, KinKept DEF Whole
<1>1. h \in Calls BY <1>0 DEF TypeOK, Request
<1>2. h # c => pc'[h] = pc[h] /\ (conn'[h] = conn[h] \/ pc[h] = "closed")
  BY <1>1, StepFacts
<1>3. Places(c) /\ IInv' BY AdvanceKeeps DEF Frame, JInv
<1>4. CASE d # c /\ h # c
  BY <1>0, <1>1, <1>2, <1>4 DEF Share, ScopePC
<1>5. CASE d # c /\ h = c
  <2>1. Opened(c) BY <1>0, <1>1, <1>5 DEF Handles
  <2>2. pc[c] \in ScopePC BY <1>3, <1>5, <2>1 DEF Opened, Later, Places, ScopePC, Settled
  <2>3. conn'[c] = conn[c] BY <1>3, <2>2 DEF Places
  <2> QED BY <1>0, <1>5, <2>2, <2>3 DEF Share
<1>6. CASE d = c /\ h # c
  <2>1. pc[h] \in ScopePC /\ conn'[h] = conn[h] BY <1>2, <1>6 DEF ScopePC
  <2>2. conn'[c] \in {conn[c], None, conn[h]} BY <1>3, <1>6 DEF Places
  <2>3. ASSUME conn'[c] = conn[c] PROVE conn[c] = conn[h]
    <3>1. pc[c] # "unborn" BY <1>0, <1>6, <2>3 DEF Local
    <3>2. pc[c] \notin {"closed"} \cup Settled BY <1>3, <1>6, StepFacts DEF Places
    <3> QED BY <1>0, <1>6, <2>1, <2>3, <3>1, <3>2 DEF Share
  <2> QED BY <1>6, <2>1, <2>2, <2>3
<1>7. CASE d = c /\ h = c
  <2>1. pc[c] = "unborn" => Opened(h) BY <1>7 DEF Advance
  <2>2. pc[c] # "unborn" BY <1>7, <2>1 DEF Opened, Later, Settled
  <2>3. Kin(c) /\ IInv /\ Unfinished(c)
    BY <2>2, StepFacts DEF JInv, Whole, Unfinished, IsDone
  <2>4. req[c].via # c BY <2>3, NotOwnHandle
  <2> QED BY <1>0, <1>7, <2>2, <2>4
<1> QED BY <1>4, <1>5, <1>6, <1>7

(* A callback that is waited for, around or under unfinished calls, stays. *)
LEMMA BodyStays ==
  ASSUME JInv, NEW c \in Calls, Advance(c), Frame(c), NEW d \in Calls, NEW r \in Calls,
         pc[d] # "unborn", ~IsDone(d), ~Statement(d), r \in req[d].caller, pc[r] = "body"
  PROVE  pc'[r] = "body" /\ conn'[r] = conn[r] /\ r # c
<1>1. pc[c] = "body" => Awaited(c) BY StepFacts
<1>2. TypeOK BY StepFacts
<1>3. req[d].kind \in {"tx", "session"} BY <1>2 DEF TypeOK, Request, Kind, Statement
<1>4. r # c BY <1>1, <1>3 DEF Awaited
<1> QED BY <1>4, StepFacts

LEMMA UnderKept ==
  ASSUME JInv, NEW c \in Calls, Advance(c), Frame(c), NEW d \in Calls
  PROVE  Under(d)'
<1> SUFFICES ASSUME Unfinished(d)', ~Statement(d)', req'[d].via # Root
             PROVE  \E r \in req'[d].caller :
                       /\ req'[r].via = Root /\ ~Statement(r)' /\ pc'[r] = "body"
                       /\ conn'[r] = conn'[req'[d].via]
  BY DEF Under
<1>0. TypeOK /\ TypeOK' /\ Whole(d) /\ Handles(d) BY StepFacts
<1>1. CASE pc[d] # "unborn"
  <2>1. req'[d] = req[d] /\ pc[d] # "unborn" /\ ~IsDone(d) /\ ~Statement(d)
    BY <1>1, StepFacts DEF Unfinished, IsDone, Statement
  <2>2. PICK r \in req[d].caller :
          /\ req[r].via = Root /\ ~Statement(r) /\ pc[r] = "body"
          /\ conn[r] = conn[req[d].via]
    BY <1>0, <2>1 DEF Whole, Under, Unfinished
  <2>3. r \in Calls /\ req[d].via \in Calls BY <1>0, <2>1 DEF TypeOK, Request
  <2>4. pc[req[d].via] = "body" /\ req[d].via \in req[d].caller
    BY <1>0, <2>1 DEF Handles
  <2>5. pc'[r] = "body" /\ conn'[r] = conn[r] BY <2>1, <2>2, <2>3, BodyStays
  <2>6. conn'[req[d].via] = conn[req[d].via] BY <2>1, <2>3, <2>4, BodyStays
  <2>7. req'[r] = req[r] BY <2>2, <2>3, StepFacts
  <2> QED BY <2>1, <2>2, <2>5, <2>6, <2>7 DEF Statement
<1>2. CASE pc[d] = "unborn"
  <2>1. d = c BY <1>2, StepFacts DEF Unfinished
  <2>2. PICK h \in Calls : h = req'[c].via BY <1>0, <2>1 DEF TypeOK, Request
  <2>3. Opened(h) /\ pc[h] = "body" /\ h \in req'[c].caller /\ h # c
    BY <1>2, <2>1, <2>2 DEF Advance, Unfinished
  <2>4. Around(req'[c].caller) BY <1>2, <2>1 DEF Frame, Kindred
  <2>5. /\ Whole(h) /\ Handles(h) /\ Local(h) /\ req'[h] = req[h]
        /\ pc'[h] = pc[h] /\ conn'[h] = conn[h] /\ ~Statement(h)
    BY <2>3, StepFacts DEF Opened
  <2>6. CASE req[h].via = Root
    BY <2>1, <2>2, <2>3, <2>5, <2>6 DEF Statement
  <2>7. CASE req[h].via # Root
    <3>1. Unfinished(h) /\ ~IsDone(h) BY <2>3 DEF Unfinished, IsDone, Settled
    <3>2. PICK r \in req[h].caller :
            /\ req[r].via = Root /\ ~Statement(r) /\ pc[r] = "body"
            /\ conn[r] = conn[req[h].via]
      BY <2>5, <2>7, <3>1 DEF Whole, Under
    <3>3. r \in req'[c].caller /\ r \in Calls
      BY <1>0, <2>3, <2>4, <3>2 DEF Around, TypeOK, Request
    <3>4. pc[req[h].via] = "body" BY <2>3, <2>5, <2>7, <3>1 DEF Handles
    <3>5. conn[h] \in Conns BY <2>3, <2>5 DEF Local, NeedsConn
    <3>6. conn[h] = conn[req[h].via]
      BY <2>3, <2>5, <2>7, <3>4, <3>5, ScopeConstants DEF Whole, Share, ScopePC, Settled
    <3>7. r # c BY <1>2, <2>1, <3>2
    <3>8. req'[r] = req[r] /\ pc'[r] = pc[r] /\ conn'[r] = conn[r]
      BY <3>2, <3>3, <3>7, StepFacts
    <3> QED BY <2>1, <2>2, <2>5, <3>2, <3>3, <3>6, <3>8 DEF Statement
  <2> QED BY <2>6, <2>7
<1> QED BY <1>1, <1>2

LEMMA StaysKept ==
  ASSUME JInv, NEW c \in Calls, Advance(c), Frame(c), NEW d \in Calls
  PROVE  Stays(d)'
<1> SUFFICES ASSUME pc'[d] \in InUse, req'[d].via # Root
             PROVE  \/ pc'[req'[d].via] \in {"body", "drain"}
                    \/ pc'[req'[d].via] = "tail" /\ d \in scope'[req'[d].via].awaited
  BY DEF Stays
<1>0. /\ TypeOK /\ TypeOK' /\ Whole(d) /\ Local(d)
      /\ pc[d] # "unborn" => req'[d] = req[d]
      /\ d # c => req'[d] = req[d] /\ pc'[d] = pc[d]
  BY StepFacts
<1>1. PICK h \in Calls : h = req'[d].via BY <1>0 DEF TypeOK, Request
<1>2. Waits(c) BY DEF Frame
<1>3. h # c => pc'[h] = pc[h] BY StepFacts
<1>4. ASSUME pc[d] \in InUse, req[d].via = h
      PROVE  \/ pc'[h] \in {"body", "drain"}
             \/ pc'[h] = "tail" /\ d \in scope'[h].awaited
  <2>1. pc[h] \in {"body", "drain"} \/ (pc[h] = "tail" /\ d \in scope[h].awaited)
    BY <1>0, <1>1, <1>4 DEF Whole, Stays
  <2>2. CASE h # c
    BY <1>2, <1>3, <2>1, <2>2 DEF Waits
  <2>3. CASE h = c /\ pc[c] = "body"
    BY <1>2, <2>3 DEF Waits
  <2>4. CASE h = c /\ pc[c] \in {"drain", "tail"}
    <3>1. conn[d] \in Conns /\ HasTurn(d)
      BY <1>0, <1>1, <1>4 DEF Local, NeedsConn, InUse, HoldsTurn
    <3>2. conn[d] = conn[c]
      BY <1>0, <1>1, <1>4, <2>4, <3>1, ScopeConstants
      DEF Whole, Share, ScopePC, InUse, Settled
    <3>3. turns[conn[c]] \in Seq(Calls) BY <1>0, <3>1, <3>2 DEF TypeOK
    <3>4. d \in ToSet(turns[conn[c]])
      <4>1. turns[conn[c]] # <<>> /\ turns[conn[c]][1] = d
        BY <3>1, <3>2, <3>3 DEF HasTurn
      <4>2. 1 \in DOMAIN turns[conn[c]] BY <3>3, <4>1
      <4> QED BY <4>1, <4>2 DEF ToSet
    <3> QED BY <1>2, <2>1, <2>4, <3>4 DEF Waits
  <2> QED BY <2>1, <2>2, <2>3, <2>4
<1>5. CASE pc[d] \in InUse
  <2>1. req[d].via = h BY <1>0, <1>1, <1>5 DEF InUse
  <2> QED BY <1>1, <1>4, <1>5, <2>1
<1>6. CASE pc[d] \notin InUse
  <2>1. d = c /\ pc[h] = "body" BY <1>0, <1>1, <1>2, <1>6 DEF Waits
  <2>2. h # c
    <3>1. pc[c] = "unborn" => Opened(h) BY <1>1, <2>1 DEF Advance
    <3>2. pc[c] # "unborn" => Unfinished(c) BY StepFacts DEF Unfinished, IsDone
    <3>3. pc[c] # "unborn" => req[c].via # c
      BY <1>0, <2>1, <3>2, NotOwnHandle DEF JInv, Whole
    <3> QED BY <1>0, <1>1, <2>1, <3>1, <3>3
  <2> QED BY <1>1, <1>3, <2>1, <2>2
<1> QED BY <1>5, <1>6

LEMMA SoleKept ==
  ASSUME JInv, NEW c \in Calls, Advance(c), Frame(c), NEW d \in Calls
  PROVE  Sole(d)'
<1> SUFFICES ASSUME Holds(d)', Pooled \/ Conservative
             PROVE  /\ ~Free(conn[d])'
                    /\ Conservative => conn'[d] = Direct
                    /\ \A e \in Calls : Holds(e)' /\ conn'[e] = conn'[d] => e = d
  BY DEF Sole
<1>0. TypeOK /\ TypeOK' /\ \A e \in Calls : Sole(e) BY StepFacts DEF Whole
<1>1. ASSUME NEW e \in Calls, e # c
      PROVE  /\ Holds(e)' <=> Holds(e)
             /\ Holds(e) => conn'[e] = conn[e] /\ conn[e] \in Conns
  <2>1. /\ req'[e] = req[e] /\ pc'[e] = pc[e] /\ (conn'[e] = conn[e] \/ pc[e] = "closed")
    BY <1>1, StepFacts
  <2> QED BY <1>0, <2>1 DEF Holds, InUse, ScopePC, TypeOK
<1>2. CASE /\ \A k \in Conns : (Free(k)' <=> Free(k))
           /\ (Holds(c)' <=> Holds(c)) /\ (Holds(c) => conn'[c] = conn[c])
  <2>1. \A e \in Calls : /\ Holds(e)' <=> Holds(e)
                         /\ Holds(e) => conn'[e] = conn[e] /\ conn[e] \in Conns
    BY <1>0, <1>1, <1>2 DEF Holds, TypeOK
  <2>2. Holds(d) /\ conn'[d] = conn[d] /\ conn[d] \in Conns BY <2>1
  <2>3. PICK k \in Conns : k = conn[d] BY <2>2
  <2>4. ~Free(k) /\ (Conservative => k = Direct)
        /\ \A e \in Calls : Holds(e) /\ conn[e] = k => e = d
    BY <1>0, <2>2, <2>3 DEF Sole
  <2>5. ~Free(k)' BY <1>2, <2>4
  <2>6. ~Free(conn[d])' BY <2>2, <2>3, <2>5 DEF Free
  <2> QED BY <2>1, <2>2, <2>3, <2>4, <2>6
<1>3. ASSUME NEW k \in Conns, Takes(c, k)
      PROVE  /\ ~Free(conn[d])'
             /\ Conservative => conn'[d] = Direct
             /\ \A e \in Calls : Holds(e)' /\ conn'[e] = conn'[d] => e = d
  <2>1. /\ ~Holds(c) /\ Holds(c)' /\ conn'[c] = k /\ Free(k) /\ ~Free(k)'
        /\ (Conservative => k = Direct)
        /\ \A r \in Conns \ {k} : (Free(r)' <=> Free(r))
    BY <1>3 DEF Takes, Elsewhere
  <2>2. \A e \in Calls \ {c} : Holds(e) => conn[e] # k BY <1>0, <2>1 DEF Sole
  <2>3. CASE d = c
    <3>1. ~Free(conn[d])' BY <2>1, <2>3 DEF Free
    <3> QED BY <1>1, <2>1, <2>2, <2>3, <3>1
  <2>4. CASE d # c
    <3>1. Holds(d) /\ conn'[d] = conn[d] /\ conn[d] \in Conns BY <1>1, <2>4
    <3>2. PICK r \in Conns : r = conn[d] BY <3>1
    <3>3. ~Free(r) /\ (Conservative => r = Direct)
          /\ \A e \in Calls : Holds(e) /\ conn[e] = r => e = d
      BY <1>0, <3>1, <3>2 DEF Sole
    <3>4. r # k /\ ~Free(r)' BY <2>1, <2>2, <2>4, <3>1, <3>2, <3>3
    <3>5. ~Free(conn[d])' BY <3>1, <3>2, <3>4 DEF Free
    <3> QED BY <1>1, <2>1, <3>1, <3>2, <3>3, <3>4, <3>5
  <2> QED BY <2>3, <2>4
<1>4. ASSUME NEW k \in Conns, Gives(c, k)
      PROVE  /\ ~Free(conn[d])'
             /\ Conservative => conn'[d] = Direct
             /\ \A e \in Calls : Holds(e)' /\ conn'[e] = conn'[d] => e = d
  <2>1. /\ Holds(c) /\ ~Holds(c)' /\ conn[c] = k
        /\ \A r \in Conns \ {k} : (Free(r)' <=> Free(r))
    BY <1>4 DEF Gives, Elsewhere
  <2>2. d # c /\ Holds(d) /\ conn'[d] = conn[d] /\ conn[d] \in Conns BY <1>1, <2>1
  <2>3. PICK r \in Conns : r = conn[d] BY <2>2
  <2>4. ~Free(r) /\ (Conservative => r = Direct)
        /\ \A e \in Calls : Holds(e) /\ conn[e] = r => e = d
    BY <1>0, <2>2, <2>3 DEF Sole
  <2>5. r # k /\ ~Free(r)' BY <2>1, <2>2, <2>4
  <2>6. ~Free(conn[d])' BY <2>2, <2>3, <2>5 DEF Free
  <2> QED BY <1>1, <2>1, <2>2, <2>3, <2>4, <2>6
<1> QED BY <1>2, <1>3, <1>4 DEF Frame, Token

LEMMA LeasedKept ==
  ASSUME JInv, NEW c \in Calls, Advance(c), Frame(c)
  PROVE  Leased'
<1> SUFFICES ASSUME Pooled, NEW k \in Conns
             PROVE  k \in idle' \/ \E e \in Calls : Holds(e)' /\ conn'[e] = k
  BY DEF Leased
<1>0. TypeOK /\ (k \in idle \/ \E e \in Calls : Holds(e) /\ conn[e] = k)
  BY StepFacts DEF JInv, Leased
<1>1. ASSUME NEW e \in Calls, e # c, Holds(e)
      PROVE  Holds(e)' /\ conn'[e] = conn[e]
  <2>1. /\ req'[e] = req[e] /\ pc'[e] = pc[e] /\ (conn'[e] = conn[e] \/ pc[e] = "closed")
    BY <1>1, StepFacts
  <2> QED BY <1>1, <2>1 DEF Holds, InUse, ScopePC
<1>2. CASE /\ \A r \in Conns : (Free(r)' <=> Free(r))
           /\ (Holds(c)' <=> Holds(c)) /\ (Holds(c) => conn'[c] = conn[c])
  BY <1>0, <1>1, <1>2 DEF Free
<1>3. CASE \E r \in Conns : Takes(c, r)
  BY <1>0, <1>1, <1>3 DEF Takes, Elsewhere, Free
<1>4. CASE \E r \in Conns : Gives(c, r)
  BY <1>0, <1>1, <1>4 DEF Gives, Elsewhere, Free
<1> QED BY <1>2, <1>3, <1>4 DEF Frame, Token

LEMMA ClearKept ==
  ASSUME JInv, NEW c \in Calls, Advance(c), Frame(c), NEW d \in Calls
  PROVE  Clear(d)'
<1> SUFFICES ASSUME pc'[d] \in InUse \cup {"queued", "acquiring"}, Statement(d)',
                    req'[d].via = Root, ~Conservative, NEW s \in req'[d].caller
             PROVE  IsStream(s)' \/ ~IsActive(s)'
  BY DEF Clear
<1>0. /\ TypeOK /\ TypeOK' /\ Whole(d)
      /\ pc[d] # "unborn" => req'[d] = req[d]
      /\ d # c => req'[d] = req[d] /\ pc'[d] = pc[d]
  BY StepFacts
<1>1. s \in Calls /\ s # d BY <1>0, KinKept DEF TypeOK, Request, Kin, InUse
<1>2. s # c => req'[s] = req[s] /\ pc'[s] = pc[s] BY <1>1, StepFacts
<1>3. Admits(c) /\ pc[c] \notin Settled BY StepFacts DEF Frame
<1>4. ASSUME IsStream(s) \/ ~IsActive(s), pc[s] # "unborn"
      PROVE  IsStream(s)' \/ ~IsActive(s)'
  <2>1. req'[s] = req[s] BY <1>1, <1>4, StepFacts
  <2>2. CASE IsStream(s) BY <2>1, <2>2 DEF IsStream
  <2>3. CASE ~IsStream(s) /\ s # c
    BY <1>2, <1>4, <2>3 DEF IsActive
  <2>4. CASE ~IsStream(s) /\ s = c
    BY <1>3, <1>4, <2>4 DEF Admits, IsActive
  <2> QED BY <2>2, <2>3, <2>4
<1>5. CASE pc[d] \in InUse \cup {"queued", "acquiring"}
  <2>1. pc[d] # "unborn" /\ req'[d] = req[d] /\ Statement(d)
    BY <1>0, <1>5 DEF InUse, Statement
  <2>2. IsStream(s) \/ ~IsActive(s) BY <1>0, <1>5, <2>1 DEF Whole, Clear
  <2>3. pc[s] # "unborn" BY <1>0, <2>1 DEF Whole, Kin, Around
  <2> QED BY <1>4, <2>2, <2>3
<1>6. CASE pc[d] \notin InUse \cup {"queued", "acquiring"}
  <2>1. d = c BY <1>0, <1>6
  <2>2. IsStream(s) \/ ~IsActive(s) BY <1>3, <1>6, <2>1 DEF Admits
  <2>3. pc[s] # "unborn"
    <3>1. pc'[s] # "unborn" BY KinKept DEF Kin, Around, InUse
    <3> QED BY <1>1, <1>2, <2>1, <3>1
  <2> QED BY <1>4, <2>2, <2>3
<1> QED BY <1>5, <1>6

(* What is in a sequence and not its head is in its tail. *)
LEMMA InTail ==
  ASSUME NEW s \in Seq(Calls), s # <<>>, NEW d \in ToSet(s), d # Head(s)
  PROVE  d \in ToSet(Tail(s))
<1>1. PICK i \in 1..Len(s) : s[i] = d BY DEF ToSet
<1>2. i # 1 /\ i - 1 \in 1..Len(Tail(s)) /\ Tail(s)[i - 1] = d BY <1>1
<1>3. Tail(s) \in Seq(Calls) /\ DOMAIN Tail(s) = 1..Len(Tail(s)) BY <1>2
<1> QED BY <1>2, <1>3 DEF ToSet

LEMMA KnownKept ==
  ASSUME JInv, NEW c \in Calls, Advance(c), Frame(c), NEW d \in Calls
  PROVE  Known(d)'
<1> SUFFICES ASSUME Unfinished(d)', IsStream(d)', req'[d].via # Root
             PROVE  /\ d \in ToSet(scope'[req'[d].via].streams)
                    /\ \/ pc'[req'[d].via] = "body"
                       \/ pc'[req'[d].via] = "drain"
                          /\ d \in ToSet(scope'[req'[d].via].drain)
  BY DEF Known
<1>0. /\ TypeOK /\ TypeOK' /\ Whole(d)
      /\ pc[d] # "unborn" => req'[d] = req[d]
      /\ d # c => req'[d] = req[d] /\ pc'[d] = pc[d]
  BY StepFacts
<1>1. PICK h \in Calls : h = req'[d].via BY <1>0 DEF TypeOK, Request
<1>2. Loops(c) /\ Waits(c) BY DEF Frame
<1>3. h # c => pc'[h] = pc[h] BY StepFacts
<1>4. CASE pc[d] # "unborn"
  <2>1. Unfinished(d) /\ IsStream(d) /\ req[d].via = h
    BY <1>0, <1>1, <1>4, StepFacts DEF Unfinished, IsDone, IsStream
  <2>2. /\ d \in ToSet(scope[h].streams)
        /\ pc[h] = "body" \/ (pc[h] = "drain" /\ d \in ToSet(scope[h].drain))
    BY <1>0, <1>1, <2>1 DEF Whole, Known
  <2>3. d \in ToSet(scope'[h].streams) BY <1>2, <2>2 DEF Loops, Unfinished
  <2>4. CASE h # c
    BY <1>1, <1>2, <1>3, <2>2, <2>3, <2>4 DEF Loops
  <2>5. CASE h = c /\ pc[c] = "body"
    BY <1>1, <1>2, <2>2, <2>3, <2>5 DEF Loops, Waits
  <2>6. CASE h = c /\ pc[c] = "drain"
    <3>1. scope[c].drain \in Seq(Calls) BY <1>0 DEF TypeOK, Scope
    <3>2. scope[c].drain # <<>>
      <4>1. CASE scope[c].drain = <<>>
        BY <2>2, <2>6, <4>1 DEF ToSet
      <4> QED BY <4>1
    <3>3. /\ pc'[c] = "drain" /\ scope'[c].drain = Tail(scope[c].drain)
          /\ IsDone(Head(scope[c].drain))
      BY <1>2, <2>6, <3>2 DEF Loops
    <3>4. d # Head(scope[c].drain) BY <2>1, <3>3 DEF Unfinished
    <3>5. d \in ToSet(scope'[c].drain) BY <2>2, <2>6, <3>1, <3>2, <3>3, <3>4, InTail
    <3> QED BY <1>1, <2>3, <2>6, <3>3, <3>5
  <2> QED BY <2>2, <2>4, <2>5, <2>6
<1>5. CASE pc[d] = "unborn"
  <2>1. d = c BY <1>0, <1>5 DEF Unfinished
  <2>2. pc[h] = "body" /\ c \in ToSet(scope'[h].streams)
    BY <1>1, <1>2, <1>5, <2>1 DEF Loops, Unfinished
  <2> QED BY <1>1, <1>3, <1>5, <2>1, <2>2
<1> QED BY <1>4, <1>5

(* A scope that is entered is in a root scope that holds its resource. *)
LEMMA ScopeHeld ==
  ASSUME IInv, \A d \in Calls : Whole(d), NEW h \in Calls, ~Statement(h),
         pc[h] \in ScopePC, conn[h] # None
  PROVE  \E r \in Calls : /\ Holds(r) /\ conn[r] = conn[h] /\ ~Statement(r)
                          /\ pc[r] \in ScopePC
<1>0. TypeOK /\ Local(h) /\ Handles(h) /\ Whole(h) BY DEF IInv
<1>1. CASE req[h].via = Root
  BY <1>1 DEF Holds
<1>2. CASE req[h].via # Root
  <2>1. Unfinished(h) /\ ~IsDone(h) BY DEF Unfinished, IsDone, ScopePC, Settled
  <2>2. PICK r \in req[h].caller :
          /\ req[r].via = Root /\ ~Statement(r) /\ pc[r] = "body"
          /\ conn[r] = conn[req[h].via]
    BY <1>0, <1>2, <2>1 DEF Whole, Under
  <2>3. pc[req[h].via] = "body" BY <1>0, <1>2, <2>1 DEF Handles, Unfinished
  <2>4. conn[h] = conn[req[h].via]
    BY <1>0, <1>2, <2>3 DEF Whole, Share, ScopePC, Settled
  <2>5. r \in Calls BY <1>0 DEF TypeOK, Request
  <2> QED BY <2>2, <2>4, <2>5 DEF Holds, ScopePC
<1> QED BY <1>1, <1>2

(* A statement that is granted on a scope, and a stream that knows one. *)
LEMMA StatementHeld ==
  ASSUME IInv, \A d \in Calls : Whole(d), NEW d \in Calls,
         pc[d] \in InUse, req[d].via # Root
  PROVE  \E r \in Calls : /\ Holds(r) /\ conn[r] = conn[d] /\ ~Statement(r)
                          /\ pc[r] \in ScopePC
<1>0. TypeOK /\ Local(d) /\ Whole(d) BY DEF IInv
<1>1. PICK h \in Calls : h = req[d].via BY <1>0 DEF TypeOK, Request
<1>2. pc[h] \in ScopePC BY <1>0, <1>1 DEF Whole, Stays, ScopePC
<1>3. conn[d] \in Conns BY <1>0 DEF Local, NeedsConn, InUse
<1>4. conn[d] = conn[h]
  BY <1>0, <1>1, <1>2, <1>3, ScopeConstants DEF Whole, Share, InUse, Settled
<1>5. ~Statement(h) BY <1>2 DEF IInv, Local
<1> QED BY <1>2, <1>3, <1>4, <1>5, ScopeConstants, ScopeHeld

(* A set that gains or loses at most c. *)
LEMMA CountStep ==
  ASSUME NEW S, NEW T, NEW c, IsFiniteSet(S), S \ {c} = T \ {c}, NEW n \in Int,
         n + One(c \in S) = Cardinality(S) + One(c \in T)
  PROVE  IsFiniteSet(T) /\ n = Cardinality(T)
<1>1. Cardinality(S) \in Nat BY FS_CardinalityType
<1>2. CASE (c \in S) <=> (c \in T)
  <2>1. S = T BY <1>2
  <2>2. n = Cardinality(S) BY <1>1, <1>2 DEF One
  <2> QED BY <2>1, <2>2
<1>3. CASE c \in S /\ c \notin T
  <2>1. T = S \ {c} BY <1>3
  <2>2. IsFiniteSet(T) /\ Cardinality(T) = Cardinality(S) - 1
    BY <1>3, <2>1, FS_RemoveElement
  <2> QED BY <1>1, <1>3, <2>2 DEF One
<1>4. CASE c \notin S /\ c \in T
  <2>1. T = S \cup {c} BY <1>4
  <2>2. IsFiniteSet(T) /\ Cardinality(T) = Cardinality(S) + 1
    BY <1>4, <2>1, FS_AddElement
  <2> QED BY <1>1, <1>4, <2>2 DEF One
<1> QED BY <1>2, <1>3, <1>4

(* A stream on its way to a resource stays so until it moves itself. *)
LEMMA PendingKept ==
  ASSUME JInv, NEW c \in Calls, Advance(c), Frame(c), NEW d \in Calls, d # c,
         NEW k \in Conns
  PROVE  Pending(d, k)' <=> Pending(d, k)
<1>0. /\ TypeOK /\ TypeOK' /\ Whole(d) /\ req'[d] = req[d] /\ pc'[d] = pc[d]
  BY StepFacts
<1>1. CASE pc[d] \in {"ready", "queued", "acquiring"} /\ IsStream(d) /\ req[d].via # Root
  <2>1. PICK h \in Calls : h = req[d].via BY <1>0, <1>1 DEF TypeOK, Request
  <2>2. pc[h] \in {"body", "drain"}
    BY <1>0, <1>1, <2>1 DEF Whole, Known, Unfinished, IsDone, Settled
  <2>3. conn'[h] = conn[h]
    <3>1. CASE h = c BY <2>2, <3>1 DEF Frame, Places, ScopePC
    <3>2. CASE h # c BY <2>2, <3>2, StepFacts
    <3> QED BY <3>1, <3>2
  <2> QED BY <1>0, <2>1, <2>3 DEF Pending, StateOf, IsStream
<1>2. CASE ~(pc[d] \in {"ready", "queued", "acquiring"} /\ IsStream(d) /\ req[d].via # Root)
  BY <1>0, <1>2 DEF Pending, StateOf, IsStream
<1> QED BY <1>1, <1>2

(* When the resource is dropped no stream but perhaps c has been on it. *)
LEMMA DropsAlone ==
  ASSUME JInv, NEW c \in Calls, Advance(c), Frame(c), NEW k \in Conns, Discards(c, k),
         NEW d \in Calls
  PROVE  ~Using(d, k)' /\ ~Pending(d, k)'
<1>0. /\ TypeOK /\ IInv /\ Whole(d) /\ Local(d) /\ \A e \in Calls : Whole(e)
  BY StepFacts DEF JInv
<1>1. /\ Pooled /\ conn'[c] = None /\ ~Pending(c, k)'
      /\ d # c => conn'[d] = IF conn[d] = k /\ pc[d] = "closed" THEN None ELSE conn[d]
      /\ (Holds(c) /\ conn[c] = k /\ pc[c] = "releasing") \/ (~Holds(c) /\ Free(k))
  BY DEF Discards
<1>2. ASSUME NEW r \in Calls, Holds(r), conn[r] = k
      PROVE  r = c /\ pc[c] = "releasing"
  BY <1>0, <1>1, <1>2 DEF Whole, Sole
<1>3. CASE d = c
  BY <1>1, <1>3, ScopeConstants DEF Using
<1>4. CASE d # c
  <2>1. req'[d] = req[d] /\ pc'[d] = pc[d] BY <1>4, StepFacts
  <2>2. ASSUME Using(d, k)' PROVE FALSE
    <3>1. pc[d] # "closed" /\ conn[d] = k
      BY <1>1, <1>4, <2>1, <2>2, ScopeConstants DEF Using
    <3>2. pc[d] \in {"running", "suspended", "closing", "releasing"}
      BY <2>1, <2>2, <3>1 DEF Using
    <3>3. CASE req[d].via = Root
      <4>1. Holds(d) BY <3>1, <3>2, <3>3, ScopeConstants DEF Holds, InUse
      <4> QED BY <1>2, <1>4, <3>1, <4>1
    <3>4. CASE req[d].via # Root
      <4>1. pc[d] \in InUse BY <1>0, <3>2, <3>4 DEF InUse, Whole, Mode
      <4>2. PICK r \in Calls : Holds(r) /\ conn[r] = conn[d] /\ pc[r] \in ScopePC
        BY <1>0, <3>4, <4>1, StatementHeld
      <4> QED BY <1>2, <3>1, <4>2 DEF ScopePC
    <3> QED BY <3>3, <3>4
  <2>3. ASSUME Pending(d, k)' PROVE FALSE
    <3>1. Pending(d, k) BY <1>4, <2>3, PendingKept
    <3>2. req[d].via # Root BY <1>1, <3>1, ScopeConstants DEF Pending, StateOf
    <3>3. PICK h \in Calls : h = req[d].via BY <1>0, <3>2 DEF TypeOK, Request
    <3>4. conn[h] = k BY <3>1, <3>2, <3>3 DEF Pending, StateOf
    <3>5. pc[h] \in {"body", "drain"}
      BY <1>0, <3>1, <3>2, <3>3 DEF Pending, Whole, Known, Unfinished, IsDone, Settled
    <3>6. ~Statement(h) BY <3>5 DEF IInv, Local, ScopePC, JInv
    <3>7. PICK r \in Calls : Holds(r) /\ conn[r] = conn[h] /\ pc[r] \in ScopePC
      BY <1>0, <3>4, <3>5, <3>6, ScopeConstants, ScopeHeld DEF ScopePC
    <3> QED BY <1>2, <3>4, <3>7 DEF ScopePC
  <2> QED BY <2>2, <2>3
<1> QED BY <1>3, <1>4

LEMMA CountedKept ==
  ASSUME JInv, NEW c \in Calls, Advance(c), Frame(c), NEW k \in Conns
  PROVE  Counted(k)'
<1> DEFINE U == {d \in Calls : Using(d, k)}
           P == {d \in Calls : Pending(d, k)}
<1>0. /\ TypeOK /\ TypeOK'
      /\ IsFiniteSet(U) /\ mark[k].streamUsers = Cardinality(U)
      /\ IsFiniteSet(P) /\ mark[k].pendingStreams = Cardinality(P)
  BY StepFacts DEF JInv, Counted
<1>1. mark'[k].streamUsers \in Int /\ mark'[k].pendingStreams \in Int
  BY <1>0 DEF TypeOK, Mark
<1>2. SUFFICES /\ IsFiniteSet(U)' /\ mark'[k].streamUsers = Cardinality(U)'
               /\ IsFiniteSet(P)' /\ mark'[k].pendingStreams = Cardinality(P)'
  BY DEF Counted
<1>3. CASE Discards(c, k)
  <2>1. U' = {} /\ P' = {} BY <1>3, DropsAlone
  <2>2. mark'[k].streamUsers = 0 /\ mark'[k].pendingStreams = 0
    BY <1>3 DEF Discards, Fresh
  <2>3. IsFiniteSet({}) /\ Cardinality({}) = 0 BY FS_EmptySet
  <2> QED BY <2>1, <2>2, <2>3
<1>4. CASE /\ mark'[k].streamUsers + One(Using(c, k)) = mark[k].streamUsers + One(Using(c, k)')
           /\ mark'[k].pendingStreams + One(Pending(c, k))
                = mark[k].pendingStreams + One(Pending(c, k)')
           /\ \A d \in Calls \ {c} : (conn'[d] = k) <=> (conn[d] = k)
  <2>1. ASSUME NEW d \in Calls, d # c
        PROVE  (Using(d, k)' <=> Using(d, k)) /\ (Pending(d, k)' <=> Pending(d, k))
    <3>1. req'[d] = req[d] /\ pc'[d] = pc[d] BY <2>1, StepFacts
    <3> QED BY <1>4, <2>1, <3>1, PendingKept DEF Using, IsStream
  <2>2. U \ {c} = U' \ {c} /\ P \ {c} = P' \ {c} BY <2>1
  <2>3. /\ (c \in U) <=> Using(c, k)
        /\ (c \in U') <=> Using(c, k)'
        /\ (c \in P) <=> Pending(c, k)
        /\ (c \in P') <=> Pending(c, k)'
    OBVIOUS
  <2>4. /\ mark'[k].streamUsers + One(c \in U) = Cardinality(U) + One(c \in U')
        /\ mark'[k].pendingStreams + One(c \in P) = Cardinality(P) + One(c \in P')
    BY <1>0, <1>4, <2>3 DEF One
  <2> HIDE DEF U, P
  <2>5. IsFiniteSet(U') /\ mark'[k].streamUsers = Cardinality(U')
    BY <1>0, <1>1, <2>2, <2>4, CountStep
  <2>6. IsFiniteSet(P') /\ mark'[k].pendingStreams = Cardinality(P')
    BY <1>0, <1>1, <2>2, <2>4, CountStep
  <2> QED BY <2>5, <2>6
<1> QED BY <1>3, <1>4 DEF Frame, Counts

-----------------------------------------------------------------------------
(* Every step of the system is a step of one call. *)

LEMMA StepKeeps ==
  ASSUME JInv, NEW c \in Calls, Advance(c), Frame(c)
  PROVE  JInv'
<1>1. IInv' BY AdvanceKeeps DEF JInv
<1>2. Leased' BY LeasedKept
<1>3. \A k \in Conns : Counted(k)' BY CountedKept
<1>4. ASSUME NEW d \in Calls PROVE Whole(d)'
  BY KinKept, ModeKept, ShareKept, UnderKept, StaysKept, SoleKept, ClearKept, KnownKept
  DEF Whole
<1> QED BY <1>1, <1>2, <1>3, <1>4 DEF JInv

LEMMA LeadFrame ==
  ASSUME IInv, NEW c \in Calls, Mode(c),
         Lead(c) \/ Return(c) \/ Yield(c) \/ Exhaust(c) \/ Pull(c) \/ Stop(c)
  PROVE  Frame(c)
<1>1. CASE Lease(c) \/ Refuse(c) \/ GrantTurn(c) \/ GrantTail(c) \/ Acquire(c)
  BY <1>1, LeaseFrame, RefuseFrame, GrantTurnFrame, GrantTailFrame, AcquireFrame
<1>2. CASE Complete(c) \/ CloseCursor(c) \/ EndStream(c) \/ Release(c)
  BY <1>2, CompleteFrame, CloseCursorFrame, EndStreamFrame, ReleaseFrame
<1>3. CASE LeaseTx(c) \/ RefuseTx(c) \/ GrantTx(c) \/ AcquireTx(c)
  BY <1>3, LeaseTxFrame, RefuseTxFrame, GrantTxFrame, AcquireTxFrame
<1>4. CASE GrantSession(c) \/ AcquireSession(c)
  BY <1>4, GrantSessionFrame, AcquireSessionFrame
<1>5. CASE Announce(c) \/ Turn(c) \/ Control(c) \/ Announced(c)
  BY <1>5, AnnounceFrame, TurnFrame, ControlFrame, AnnouncedFrame
<1>6. CASE Drain(c) \/ Finished(c) \/ Finalize(c)
  BY <1>6, DrainFrame, FinishedFrame, FinalizeFrame
<1>7. CASE Return(c) \/ Yield(c) \/ Exhaust(c) \/ Pull(c) \/ Stop(c)
  BY <1>7, ReturnFrame, YieldFrame, ExhaustFrame, PullFrame, StopFrame
<1> QED BY <1>1, <1>2, <1>3, <1>4, <1>5, <1>6, <1>7 DEF Lead

LEMMA InvokeFrame ==
  ASSUME IInv, NEW c \in Calls, NEW h, NEW caller \in SUBSET Calls, Around(caller),
         \/ Execute(c, h, caller) \/ Stream(c, h, caller)
         \/ Tx(c, h, caller) \/ Session(c, h, caller)
  PROVE  Frame(c)
  BY ExecuteFrame, StreamFrame, TxFrame, SessionFrame

LEMMA NextKeepsAll ==
  ASSUME JInv, [Next]_vars
  PROVE  JInv'
<1>0. IInv /\ TypeOK /\ (\A c \in Calls : Kin(c) /\ Mode(c)) BY DEF JInv, IInv, Whole
<1>1. ASSUME NEW s \in Calls, pc[s] # "unborn"
      PROVE  {s} \cup req[s].caller \in SUBSET Calls /\ Around({s} \cup req[s].caller)
  BY <1>0, <1>1 DEF Kin, Around, TypeOK, Request
<1>2. ASSUME NEW c \in Calls, Invoke(c) PROVE JInv'
  <2>1. PICK caller \in Contexts : \E h \in {Root} \cup caller :
          Execute(c, h, caller) \/ Stream(c, h, caller)
          \/ Tx(c, h, caller) \/ Session(c, h, caller)
    BY <1>2 DEF Invoke
  <2>2. caller \in SUBSET Calls /\ Around(caller)
    <3>1. CASE caller = {} BY <3>1 DEF Around
    <3>2. CASE caller # {}
      <4>1. PICK s \in Calls : Running(s) /\ caller = {s} \cup req[s].caller
        BY <2>1, <3>2 DEF Contexts
      <4>2. pc[s] # "unborn" BY <4>1 DEF Running
      <4> QED BY <1>1, <4>1, <4>2
    <3> QED BY <3>1, <3>2
  <2> QED BY <1>0, <2>1, <2>2, InvokeStep, InvokeFrame, StepKeeps
<1>3. ASSUME NEW c \in Calls, Straggle(c) PROVE JInv'
  <2>1. PICK g \in Calls : pc[g] \in {"drain", "tail"} /\ \E h \in {g} :
          LET caller == {g} \cup req[g].caller IN
          Execute(c, h, caller) \/ Stream(c, h, caller)
          \/ Tx(c, h, caller) \/ Session(c, h, caller)
    BY <1>3 DEF Straggle
  <2>2. {g} \cup req[g].caller \in SUBSET Calls /\ Around({g} \cup req[g].caller)
    BY <1>1, <2>1
  <2> QED BY <1>0, <2>1, <2>2, InvokeStep, InvokeFrame, StepKeeps
<1>4. ASSUME NEW c \in Calls,
             Lead(c) \/ Return(c) \/ Yield(c) \/ Exhaust(c) \/ Pull(c) \/ Stop(c)
      PROVE  JInv'
  <2>1. Frame(c) BY <1>0, <1>4, LeadFrame
  <2>2. Advance(c)
    BY <1>0, <1>4, LeadStep, ReturnStep, YieldStep, ExhaustStep, PullStep, StopStep
  <2> QED BY <2>1, <2>2, StepKeeps
<1>5. CASE UNCHANGED vars
  <2>1. IInv' BY <1>0, <1>5, NextKeeps
  <2>2. \A c, k : /\ Holds(c)' <=> Holds(c)
                  /\ Free(k)' <=> Free(k)
                  /\ Using(c, k)' <=> Using(c, k)
                  /\ Pending(c, k)' <=> Pending(c, k)
    BY <1>5 DEF vars, Holds, Free, Using, Pending, IsStream, StateOf
  <2>3. Leased' BY <1>5, <2>2 DEF JInv, Leased, vars
  <2>4. \A k \in Conns : Counted(k)' BY <1>5, <2>2 DEF JInv, Counted, vars
  <2>5. ASSUME NEW c \in Calls PROVE Whole(c)'
    <3>1. Whole(c) BY DEF JInv
    <3>2. Kin(c)' /\ Mode(c)' BY <1>5, <3>1 DEF Whole, Kin, Around, Mode, IsStream, vars
    <3>3. Share(c)' /\ Stays(c)' BY <1>5, <3>1 DEF Whole, Share, Stays, vars
    <3>4. Under(c)' BY <1>5, <3>1 DEF Whole, Under, Unfinished, IsDone, Statement, vars
    <3>5. Sole(c)' BY <1>5, <3>1 DEF Whole, Sole, Holds, Free, vars
    <3>6. Clear(c)' BY <1>5, <3>1 DEF Whole, Clear, Statement, IsStream, IsActive, vars
    <3>7. Known(c)' BY <1>5, <3>1 DEF Whole, Known, Unfinished, IsDone, IsStream, vars
    <3> QED BY <3>2, <3>3, <3>4, <3>5, <3>6, <3>7 DEF Whole
  <2> QED BY <2>1, <2>3, <2>4, <2>5 DEF JInv
<1> QED BY <1>2, <1>3, <1>4, <1>5 DEF Next, Quiet

LEMMA InitKeepsAll ==
  ASSUME Init
  PROVE  JInv
<1>1. IInv BY InitKeeps
<1>2. \A c \in Calls : pc[c] = "unborn" /\ conn[c] = None /\ ~Holds(c) BY DEF Init, Holds
<1>3. Leased BY DEF Init, Leased
<1>4. ASSUME NEW k \in Conns PROVE Counted(k)
  <2>1. \A c \in Calls : ~Using(c, k) /\ ~Pending(c, k) BY <1>2 DEF Using, Pending
  <2>2. {c \in Calls : Using(c, k)} = {} /\ {c \in Calls : Pending(c, k)} = {} BY <2>1
  <2>3. mark[k] = Fresh BY DEF Init
  <2>4. IsFiniteSet({}) /\ Cardinality({}) = 0 BY FS_EmptySet
  <2> QED BY <2>2, <2>3, <2>4 DEF Counted, Fresh
<1>5. ASSUME NEW c \in Calls PROVE Whole(c)
  BY <1>2 DEF Whole, Kin, Mode, Share, Under, Stays, Sole, Clear, Known, Unfinished, InUse
<1> QED BY <1>1, <1>3, <1>4, <1>5 DEF JInv

-----------------------------------------------------------------------------
(* JInv holds of every behaviour of the runtime, whatever the application   *)
(* asks of it: who holds a resource, which scope every call is in, and what *)
(* each scope waits for.                                                   *)
THEOREM HoldersInductive == Spec => []JInv
<1>1. Init => JInv BY InitKeepsAll
<1>2. JInv /\ [Next]_vars => JInv' BY NextKeepsAll
<1> QED BY <1>1, <1>2, PTL DEF Spec

(* A call in the driver has a root call that holds its resource: itself, or *)
(* the scope it is in, and that scope is no statement.                      *)
LEMMA DriverHeld ==
  ASSUME JInv, NEW c \in Calls, InDriver(c)
  PROVE  \E r \in Calls : /\ Holds(r) /\ conn[r] = conn[c]
                          /\ r = c \/ (~Statement(r) /\ pc[r] \in ScopePC)
<1>0. IInv /\ (\A d \in Calls : Whole(d)) /\ Local(c) BY DEF JInv, IInv
<1>1. conn[c] \in Conns BY <1>0 DEF Local, NeedsConn, InDriver
<1>2. CASE req[c].via = Root
  BY <1>1, <1>2, ScopeConstants DEF Holds, InDriver, InUse, ScopePC
<1>3. CASE req[c].via # Root /\ pc[c] = "driver"
  <2>1. ~Statement(c) BY <1>0, <1>3 DEF Local, ScopePC
  <2> QED BY <1>0, <1>1, <1>3, <2>1, ScopeHeld, ScopeConstants DEF ScopePC
<1>4. CASE req[c].via # Root /\ pc[c] \in {"running", "closing"}
  <2>1. pc[c] \in InUse BY <1>4 DEF InUse
  <2> QED BY <1>0, <1>4, <2>1, StatementHeld
<1> QED BY <1>2, <1>3, <1>4 DEF InDriver

(* Two calls on one resource: the head of its turns is one call, and a      *)
(* statement of the root that holds it is its only root call.               *)
LEMMA Excluded ==
  ASSUME JInv, NEW c \in Calls, NEW d \in Calls, InDriver(c), InDriver(d),
         conn[c] = conn[d], ~HoldsTurn(c)
  PROVE  c = d
<1>0. IInv /\ Whole(c) /\ Local(c) BY DEF JInv, IInv
<1>1. /\ req[c].via = Root /\ pc[c] \in {"running", "closing"} /\ Statement(c)
      /\ conn[c] \in Conns
  BY <1>0 DEF InDriver, HoldsTurn, Local, StatementPC, NeedsConn
<1>2. Holds(c) BY <1>1, ScopeConstants DEF Holds, InUse
<1>3. PICK r \in Calls : /\ Holds(r) /\ conn[r] = conn[c]
                         /\ r = d \/ (~Statement(r) /\ pc[r] \in ScopePC)
  BY DriverHeld
<1>4. r = c
  <2>1. CASE Pooled \/ Conservative
    BY <1>0, <1>2, <1>3, <2>1 DEF Whole, Sole
  <2>2. CASE ~Pooled /\ ~Conservative
    <3>1. HoldsTail(c) BY <1>1, <2>2 DEF HoldsTail
    <3>2. HoldsTail(r)
      <4>1. req[r].via = Root /\ conn[r] # None BY <1>3 DEF Holds
      <4>2. CASE ~Statement(r) /\ pc[r] \in ScopePC
        <5>1. req[r].kind \in {"tx", "session"}
          BY <1>0, <4>2 DEF IInv, TypeOK, Request, Kind, Statement
        <5>2. Entered(r)
         
            BY <4>1, <4>2, <5>1 DEF Entered, IsTx, IsSession, Unfinished, IsDone, ScopePC, Settled
        <5> QED BY <2>2, <4>1, <5>2 DEF HoldsTail
      <4>3. CASE r = d /\ ~(~Statement(r) /\ pc[r] \in ScopePC)
        <5>1. pc[r] \in {"running", "closing"}
          BY <1>0, <4>3 DEF IInv, Local, InDriver, ScopePC
        <5> QED BY <2>2, <4>1, <5>1 DEF HoldsTail
      <4> QED BY <1>3, <4>2, <4>3
    <3>3. HasTail(c) /\ HasTail(r) BY <1>0, <3>1, <3>2 DEF IInv, Local
    <3> QED BY <1>3, <3>3 DEF HasTail
  <2> QED BY <2>1, <2>2
<1> QED BY <1>1, <1>3, <1>4

(* One connection never has two of the runtime's calls in its driver, on    *)
(* whichever of its handles they were made: the queue of root calls, the    *)
(* queue of scoped calls, a pool's lease and a browser's flag together      *)
(* exclude each other.                                                     *)
THEOREM ExclusionHolds == Spec => []PhysicalExclusion
<1>1. ASSUME JInv PROVE PhysicalExclusion
  <2> SUFFICES ASSUME NEW c \in Calls, NEW d \in Calls, c # d, InDriver(c), InDriver(d),
                      conn[c] = conn[d]
               PROVE  FALSE
    BY DEF PhysicalExclusion
  <2>1. CASE HoldsTurn(c) /\ HoldsTurn(d)
    <3>1. HasTurn(c) /\ HasTurn(d) BY <1>1, <2>1 DEF JInv, IInv, Local
    <3> QED BY <3>1 DEF HasTurn
  <2>2. CASE ~HoldsTurn(c) BY <1>1, <2>2, Excluded
  <2>3. CASE ~HoldsTurn(d) BY <1>1, <2>3, Excluded
  <2> QED BY <2>1, <2>2, <2>3
<1>2. JInv => PhysicalExclusion BY <1>1
<1> QED BY <1>2, HoldersInductive, PTL

(* While a callback runs, no statement made in it runs through the root     *)
(* handle, outside its transaction: assertRootAllowed is not outlived by    *)
(* the code it let through.                                                *)
THEOREM NoEscapeHolds == Spec => []NoEscape
<1>1. ASSUME JInv PROVE NoEscape
  <2>1. \A c \in Calls : Clear(c) /\ Local(c) BY <1>1 DEF JInv, IInv, Whole
  <2> QED BY <2>1 DEF NoEscape, Clear, Local, StatementPC, InUse
<1>2. JInv => NoEscape BY <1>1
<1> QED BY <1>2, HoldersInductive, PTL

(* Every lease that is out has exactly one root call to give it back, and   *)
(* the two counters of a resource are the number of its streams.           *)
THEOREM OneHolderHolds == Spec => []OneHolder
<1>1. ASSUME JInv PROVE OneHolder
  <2>1. ASSUME NEW k \in Conns PROVE StreamCount(k)
    BY <1>1 DEF JInv, Counted, StreamCount, Using, Pending
  <2>2. ASSUME Pooled, NEW k \in Conns
        PROVE  Cardinality({c \in Calls : /\ req[c].via = Root /\ conn[c] = k
                                          /\ ~IsDone(c) /\ pc[c] # "closed"})
                 = IF k \in idle THEN 0 ELSE 1
    <3> DEFINE S == {c \in Calls : /\ req[c].via = Root /\ conn[c] = k
                                   /\ ~IsDone(c) /\ pc[c] # "closed"}
    <3>1. ASSUME NEW c \in Calls PROVE c \in S <=> Holds(c) /\ conn[c] = k
      <4>1. Local(c) /\ Mode(c) /\ pc[c] \in PC BY <1>1 DEF JInv, IInv, Whole, TypeOK
      <4> QED BY <2>2, <4>1, ScopeConstants
          DEF Local, Mode, PC, Holds, InUse, ScopePC, IsDone, Settled
    <3>2. CASE k \in idle
      <4>1. S = {} BY <1>1, <2>2, <3>1, <3>2 DEF JInv, Whole, Sole, Free
      <4>2. Cardinality({}) = 0 BY FS_EmptySet
      <4> QED BY <3>2, <4>1, <4>2
    <3>3. CASE k \notin idle
      <4>1. PICK e \in Calls : Holds(e) /\ conn[e] = k
        BY <1>1, <2>2, <3>3 DEF JInv, Leased
      <4>2. S = {e} BY <1>1, <2>2, <3>1, <4>1 DEF JInv, Whole, Sole
      <4>3. Cardinality({e}) = 1 BY FS_Singleton
      <4> QED BY <3>3, <4>2, <4>3
    <3> QED BY <3>2, <3>3
  <2> QED BY <2>1, <2>2 DEF OneHolder
<1>2. JInv => OneHolder BY <1>1
<1> QED BY <1>2, HoldersInductive, PTL
=============================================================================
