---------------------------- MODULE MigrateProofs ----------------------------
(***************************************************************************)
(* Proofs about Migrate, for every set of programs, manifests and engines. *)
(*                                                                         *)
(* The argument. A row that is chosen but not yet in the table (its        *)
(* program is about to claim it, or holds it in an open transaction) is    *)
(* one past the last row, and nothing in the table is at work (Fresh). So  *)
(* the first of the programs that inserts takes the rank from the others,  *)
(* and from there on a running row, the lock or a refusing engine keeps    *)
(* all of them away from the body (Bodies, OneOpen).                       *)
(***************************************************************************)
EXTENDS Migrate, SequenceTheorems, WellFoundedInduction, TLAPS

(* Where a program that locks holds the lock.                              *)
Inside == {"look", "waiting", "claim", "body", "mark", "baseline", "repair", "choose", "accept", "stamp"}
LockHeld == engine.locks => \A p \in Runners : pc[p] \in Inside => lock = p

(* The rows of one attempt: all but what finish and schemaHash change.     *)
Alike(r, s) ==
    /\ r.rank = s.rank /\ r.source = s.source /\ r.version = s.version
    /\ r.sum = s.sum /\ r.kind = s.kind /\ r.by = s.by

(* A row is that of an entry of some manifest.                             *)
OfEntry(r) ==
    /\ \E e \in Entries : r.source = e.source /\ r.version = e.version /\ r.sum = e.sum
    /\ r.kind = "versioned" => r.version # 0
    /\ r.kind = "repeatable" => r.version = 0

Attempt(p, r) ==
    r \in Rows /\ r.by = p /\ r.status = "running" /\ r.kind # "baseline" /\ OfEntry(r)

(* What a program has in its locals j where it stands at label l.           *)
Promised(p, l, j) ==
    /\ l = "new" => j.op = "apply"
    /\ l = "repair" => j.op = "repair"
    /\ l \in {"claim", "body", "mark"} => Attempt(p, j.row)
    /\ l \in {"accept", "stamp"} => j.row \in Rows
    /\ l = "mark" => ~Transactional(j.row)
    /\ l = "claim" => j.done = 0
    /\ j.op = "verify" => l \in {"report", "verdict", "leave", "done", "failed", "crashed"}
    /\ l = "leave" /\ j.ok => j.op # "verify"
Locals == \A p \in Runners : Promised(p, pc[p], job[p])

(* Ranks are a key, and there is a last one and a greatest version.        *)
Bounded(R) == \E n \in Nat : \A r \in R : r.rank <= n /\ r.version <= n
Ranked ==
    /\ \A r, s \in rows : r.rank = s.rank => r = s
    /\ Bounded(rows)
    /\ \A r \in rows : OfEntry(r)

OpenRows ==
    \A p \in Runners :
        open[p] = IF pc[p] = "body" /\ Transactional(job[p].row) THEN {job[p].row} ELSE {}
OneOpen == \A p, q \in Runners : open[p] # {} /\ open[q] # {} => p = q

(* The row of a body without a transaction is in the table, and what it has *)
(* run are the last statements of the schema.                              *)
Alone(p) == pc[p] = "body" /\ ~Transactional(job[p].row)
AtTheEnd(p) ==
    \A i \in 1..job[p].done :
        /\ Len(schema) - job[p].done + i \in DOMAIN schema
        /\ schema[Len(schema) - job[p].done + i] = Body(job[p].row.source, p)[i]
Bodies ==
    /\ \A p \in Runners : Alone(p) => job[p].row \in rows /\ AtTheEnd(p)
    /\ \A p \in Runners : pc[p] = "mark" => \E r \in rows : Alike(r, job[p].row) /\ r.status # "failed"
    /\ \A r, s \in rows : r.status = "running" /\ s.status = "running" => r = s

(* A row that is chosen and not in the table.                              *)
Chosen(p) == (pc[p] = "claim" /\ ~Taken(job[p].row.rank)) \/ open[p] # {}
After(R, row) ==
    row.kind = "versioned" =>
        \A r \in R : r.kind # "baseline" /\ r.rank # row.rank => r.version < row.version
Next1(R, row) ==
    /\ \A r \in R : r.rank < row.rank
    /\ row.rank = 1 \/ \E r \in R : r.rank = row.rank - 1
    /\ \A r \in R : r.status # "running"
    /\ \A r \in R : r.status = "failed" => Whole(r.source, r.by)
Fresh ==
    /\ \A p \in Runners : Chosen(p) => Next1(rows, job[p].row)
    /\ \A p \in Runners : Chosen(p) \/ Alone(p) => After(rows, job[p].row)

(* The statements of success rows are in the schema in one piece.          *)
Piece(source, p) ==
    \E k \in DOMAIN schema :
        \A i \in 1..Length : k + i - 1 \in DOMAIN schema /\ schema[k + i - 1] = Body(source, p)[i]
Pieces == \A r \in Successes(rows) : r.kind # "baseline" => Piece(r.source, r.by)

OneRow ==
    /\ \A r, s \in rows : r.kind = "versioned" /\ s.kind = "versioned" /\ r.version = s.version => r = s
    /\ RankedInOrder

(* Until someone repairs every statement has its row.                      *)
Owned ==
    Unrepaired =>
        \A i \in DOMAIN schema :
            \E r \in rows : r.kind # "baseline" /\ r.source = schema[i][1] /\ r.by = schema[i][2]

(* What a program read in its report is still so.                          *)
SeenAt(p) ==
    pc[p] = "verdict" /\ job[p].seen # Null =>
        /\ Bounded(job[p].seen)
        /\ \A r \in job[p].seen : OfEntry(r)
        /\ \A r \in Successes(job[p].seen) : r.kind # "baseline" => Whole(r.source, r.by)
        /\ \A r \in Successes(job[p].seen) :
             r.kind = "baseline" => \E s \in Successes(rows) : s.kind = "baseline" /\ s.version = r.version
SeenHolds == \A p \in Runners : SeenAt(p)

(* The part of the invariant that is about the table, and all of it.        *)
Table ==
    /\ Ranked /\ OpenRows /\ OneOpen /\ Bodies /\ Fresh
    /\ Pieces /\ OneRow /\ Owned /\ Atomic /\ RanInOrder

IInv == TypeOK /\ LockHeld /\ Locals /\ Table /\ SeenHolds /\ Resolved
-----------------------------------------------------------------------------
(* Numbers: a set of them has a least one and, if it is bounded, a greatest. *)
LEMMA HasLeast ==
    ASSUME NEW S \in SUBSET Nat, S # {}
    PROVE  \E n \in S : \A k \in S : n <= k
<1> DEFINE Less == OpToRel(<, Nat)
<1>1. IsWellFoundedOn(Less, Nat)
  BY NatLessThanWellFounded
<1>2. \E n \in S : \A k \in S : <<k, n>> \notin Less
  <2> HIDE DEF Less
  <2> QED BY <1>1, WFMin
<1>3. \A k, n \in Nat : <<k, n>> \in Less <=> k < n
  BY DEF OpToRel
<1> HIDE DEF Less
<1>4. PICK n \in S : \A k \in S : <<k, n>> \notin Less BY <1>2
<1>5. n \in Nat /\ \A k \in S : k \in Nat /\ ~ k < n BY <1>3, <1>4
<1> QED BY <1>5

(* A bounded set of numbers has a greatest.                                *)
LEMMA HasGreatest ==
    ASSUME NEW S \in SUBSET Nat, S # {}, NEW b \in Nat, \A k \in S : k <= b
    PROVE  \E n \in S : \A k \in S : k <= n
<1> DEFINE Bounds == {n \in Nat : \A k \in S : k <= n}
<1>1. PICK n \in Bounds : \A m \in Bounds : n <= m
  <2>1. b \in Bounds OBVIOUS
  <2> HIDE DEF Bounds
  <2>2. Bounds # {} BY <2>1
  <2>3. Bounds \in SUBSET Nat BY DEF Bounds
  <2> QED BY <2>2, <2>3, HasLeast
<1>2. n \in S
  <2> SUFFICES ASSUME n \notin S PROVE FALSE
    OBVIOUS
  <2>1. PICK k \in S : TRUE OBVIOUS
  <2>2. n \in Nat /\ k <= n /\ k # n BY <2>1
  <2>3. n - 1 \in Nat BY <2>2
  <2>4. \A j \in S : j <= n - 1 BY <2>2
  <2>5. n - 1 \in Bounds BY <2>3, <2>4
  <2> QED BY <2>5, <1>1, <2>2
<1> QED BY <1>2

(* Max of a bounded set of numbers is its greatest.                        *)
LEMMA MaxIsGreatest ==
    ASSUME NEW S \in SUBSET Nat, S # {}, NEW b \in Nat, \A k \in S : k <= b
    PROVE  Max(S) \in S /\ \A k \in S : k <= Max(S)
<1>1. PICK n \in S : \A k \in S : k <= n BY HasGreatest
<1>2. \E x \in S : \A y \in S : x >= y BY <1>1
<1> QED BY <1>2 DEF Max

(* The last row of a bounded history, and the rank after it.               *)
LEMMA LastIs ==
    ASSUME NEW R \in SUBSET Rows, R # {}, NEW b \in Nat, \A r \in R : r.rank <= b
    PROVE  LastOf(R) \in R /\ \A s \in R : s.rank <= LastOf(R).rank
<1> DEFINE S == {r.rank : r \in R}
<1>1. S \in SUBSET Nat /\ S # {} /\ \A k \in S : k <= b
  BY DEF Rows
<1>2. PICK n \in S : \A k \in S : k <= n
  <2> HIDE DEF S
  <2> QED BY <1>1, HasGreatest
<1>3. \E r \in R : \A s \in R : s.rank <= r.rank
  BY <1>2
<1> QED BY <1>3 DEF LastOf

(* nextRank (index.ts) is one past the last rank, and 1 in an empty        *)
(* history.                                                                *)
LEMMA NextRankIs ==
    ASSUME NEW R \in SUBSET Rows, NEW b \in Nat, \A r \in R : r.rank <= b
    PROVE  /\ NextRank(R) \in Nat \ {0}
           /\ \A r \in R : r.rank < NextRank(R)
           /\ NextRank(R) = 1 \/ \E r \in R : r.rank = NextRank(R) - 1
<1>1. CASE R = {}
  BY <1>1 DEF NextRank
<1>2. CASE R # {}
  <2>1. LastOf(R) \in R /\ \A s \in R : s.rank <= LastOf(R).rank
    BY <1>2, LastIs
  <2>2. \A s \in R : s.rank \in Nat \ {0} BY DEF Rows
  <2> QED BY <1>2, <2>1, <2>2 DEF NextRank
<1> QED BY <1>1, <1>2

(* head and baseline bound the versions they were taken from.              *)
LEMMA HeadIs ==
    ASSUME NEW R \in SUBSET Rows, NEW b \in Nat, \A r \in R : r.version <= b
    PROVE  HeadVersion(R) \in Nat /\ \A r \in Successes(R) : r.version <= HeadVersion(R)
<1> DEFINE S == {0} \cup {r.version : r \in Successes(R)}
<1>1. S \in SUBSET Nat /\ S # {} /\ \A k \in S : k <= b
  BY DEF Rows, Successes
<1>2. Max(S) \in S /\ \A k \in S : k <= Max(S)
  <2> HIDE DEF S
  <2> QED BY <1>1, MaxIsGreatest
<1>3. HeadVersion(R) = Max(S) BY DEF HeadVersion
<1>4. \A r \in Successes(R) : r.version \in S OBVIOUS
<1> HIDE DEF S
<1> QED BY <1>1, <1>2, <1>3, <1>4

(* The baseline of a history is that of one of its rows, and bounds them.  *)
LEMMA BaselineIs ==
    ASSUME NEW R \in SUBSET Rows, NEW b \in Nat, \A r \in R : r.version <= b
    PROVE  /\ BaselineVersion(R) \in Nat
           /\ \A r \in Successes(R) : r.kind = "baseline" => r.version <= BaselineVersion(R)
           /\ \/ BaselineVersion(R) = 0
              \/ \E r \in Successes(R) : r.kind = "baseline" /\ r.version = BaselineVersion(R)
<1> DEFINE S == {0} \cup {r.version : r \in {s \in Successes(R) : s.kind = "baseline"}}
<1>1. S \in SUBSET Nat /\ S # {} /\ \A k \in S : k <= b
  BY DEF Rows, Successes
<1>2. Max(S) \in S /\ \A k \in S : k <= Max(S)
  <2> HIDE DEF S
  <2> QED BY <1>1, MaxIsGreatest
<1>3. BaselineVersion(R) = Max(S) BY DEF BaselineVersion
<1>4. /\ \A r \in Successes(R) : r.kind = "baseline" => r.version \in S
      /\ \A k \in S : k = 0 \/ \E r \in Successes(R) : r.kind = "baseline" /\ r.version = k
  OBVIOUS
<1> HIDE DEF S
<1> QED BY <1>1, <1>2, <1>3, <1>4

(* A version with a success row has one in the map applied.                *)
LEMMA AppliedIs ==
    ASSUME NEW R \in SUBSET Rows, NEW b \in Nat, \A r \in R : r.rank <= b,
           NEW r \in Successes(R), r.kind = "versioned"
    PROVE  \E s \in Applied(R) : s.version = r.version
<1> DEFINE versioned == {s \in Successes(R) : s.kind = "versioned"}
           Same == {s \in versioned : s.version = r.version}
<1>1. Same \in SUBSET Rows /\ Same # {} /\ \A s \in Same : s.rank <= b
  BY DEF Successes
<1>2. LastOf(Same) \in Same /\ \A s \in Same : s.rank <= LastOf(Same).rank
  <2> HIDE DEF Same
  <2> QED BY <1>1, LastIs
<1> DEFINE l == LastOf(Same)
<1>3. l \in versioned /\ l.version = r.version /\ \A s \in versioned : s.version = l.version => s.rank <= l.rank
  <2> HIDE DEF l
  <2>1. l \in Same /\ \A s \in Same : s.rank <= l.rank BY <1>2 DEF l
  <2> QED BY <2>1
<1> HIDE DEF l
<1>4. l \in Applied(R) BY <1>3 DEF Applied
<1> QED BY <1>3, <1>4

-----------------------------------------------------------------------------
(* What the steps of p are to the table: each kind says what it does to the *)
(* rows, the schema and the open transactions, and where it leaves p.       *)
Others(p) == \A q \in Runners \ {p} : pc'[q] = pc[q] /\ job'[q] = job[q] /\ open'[q] = open[q]
Step(p) == engine' = engine /\ Others(p) /\ (job'[p].op = job[p].op \/ job[p].op = "apply")
Away(p) == pc'[p] \notin {"claim", "body", "mark"} /\ open'[p] = {}

Still(p) == Step(p) /\ Away(p) /\ rows' = rows /\ schema' = schema
Chooses(p) ==
    /\ Step(p) /\ pc[p] = "look" /\ pc'[p] = "claim" /\ open'[p] = open[p]
    /\ rows' = rows /\ schema' = schema
    /\ Attempt(p, job'[p].row) /\ Next1(rows, job'[p].row) /\ After(rows, job'[p].row)
Claims(p) == Step(p) /\ pc[p] = "claim" /\ ~Refused(p) /\ ~Taken(job[p].row.rank) /\ schema' = schema
ClaimsOpen(p) ==
    /\ Claims(p) /\ Transactional(job[p].row)
    /\ rows' = rows /\ open'[p] = {job[p].row}
    /\ pc'[p] = "body" /\ job'[p] = job[p]
ClaimsAlone(p) ==
    /\ Claims(p) /\ ~Transactional(job[p].row)
    /\ rows' = rows \cup {job[p].row} /\ open'[p] = open[p]
    /\ (pc'[p] = "body" /\ job'[p] = job[p]) \/ Away(p)
Runs(p) ==
    /\ Step(p) /\ pc[p] = "body" /\ pc'[p] = "body" /\ job[p].done < Length
    /\ rows' = rows /\ open'[p] = open[p]
    /\ job'[p].row = job[p].row /\ job'[p].done = job[p].done + 1
    /\ schema' = IF Transactional(job[p].row) THEN schema
                 ELSE Append(schema, Body(job[p].row.source, p)[job[p].done + 1])
Fails(p) ==
    /\ Step(p) /\ Alone(p) /\ pc'[p] = "mark" /\ job'[p] = job[p]
    /\ rows' = rows /\ schema' = schema /\ open'[p] = {}
Commits(p) ==
    /\ Step(p) /\ pc[p] = "body" /\ Transactional(job[p].row) /\ Away(p)
    /\ rows' = rows \cup {[job[p].row EXCEPT !.status = "success"]}
    /\ schema' = schema \o Body(job[p].row.source, p)
Finishes(p) ==
    /\ Step(p) /\ Alone(p) /\ job[p].done = Length /\ open'[p] = {} /\ schema' = schema
    /\ rows' = Finished(p, "success")
    /\ Away(p) \/ (pc'[p] = "mark" /\ job'[p] = job[p])
Marks(p) ==
    /\ Step(p) /\ pc[p] = "mark" /\ Away(p) /\ schema' = schema
    /\ rows' = Finished(p, "failed")
Hashes(p) ==
    /\ Step(p) /\ pc[p] \in {"record", "stamp"} /\ Away(p) /\ schema' = schema
    /\ \E rank \in Nat, by \in Runners, hash \in Nat : rows' = Hashed(rank, by, hash)
Baselines(p) ==
    /\ Step(p) /\ pc[p] = "baseline" /\ Away(p) /\ schema' = schema /\ ~Refused(p) /\ ~Taken(1)
    /\ \E row \in Rows :
         /\ row.rank = 1 /\ row.kind = "baseline" /\ row.status = "success" /\ OfEntry(row)
         /\ rows' = rows \cup {row}
Repairs(p) ==
    /\ Step(p) /\ pc[p] = "repair" /\ Away(p) /\ schema' = schema
    /\ ~Refused(p) /\ (engine.locks \/ Inspected)
    /\ rows' = Successes(rows)

(* What is not taken back: statements, and the rows of a baseline.          *)
Lasts ==
    /\ \A s, q : Whole(s, q) => Whole(s, q)'
    /\ \A r \in Successes(rows) :
         r.kind = "baseline" => \E s \in Successes(rows') : s.kind = "baseline" /\ s.version = r.version
-----------------------------------------------------------------------------
(* A schema that is unchanged or grows keeps what it has.                   *)
LEMMA SchemaSame ==
    ASSUME schema' = schema
    PROVE  /\ \A s, q : Whole(s, q)' <=> Whole(s, q)
           /\ \A s, q : Part(s, q)' <=> Part(s, q)
           /\ \A s, q : Piece(s, q)' <=> Piece(s, q)
BY DEF Whole, Part, Piece, Took

(* A schema that is appended to keeps whole bodies and pieces, and gains   *)
(* parts only by what is appended.                                         *)
LEMMA SchemaGrows ==
    ASSUME NEW X, schema \in Seq(X), NEW t \in Seq(X), schema' = schema \o t
    PROVE  /\ \A s, q : Whole(s, q) => Whole(s, q)'
           /\ \A s, q : Part(s, q) => Part(s, q)'
           /\ \A s, q : Piece(s, q) => Piece(s, q)'
           /\ \A s, q : Part(s, q)' => Part(s, q) \/ \E i \in DOMAIN t, k \in 1..Length : t[i] = Body(s, q)[k]
<1>1. /\ \A i \in DOMAIN schema : i \in DOMAIN schema' /\ schema'[i] = schema[i]
      /\ \A i \in DOMAIN schema' : i \in DOMAIN schema \/ \E k \in DOMAIN t : schema'[i] = t[k]
  <2>1. /\ Len(schema) \in Nat /\ DOMAIN schema = 1..Len(schema)
        /\ Len(t) \in Nat /\ DOMAIN t = 1..Len(t)
        /\ DOMAIN schema' = 1..(Len(schema) + Len(t))
    OBVIOUS
  <2>2. \A i \in 1..(Len(schema) + Len(t)) :
          schema'[i] = IF i <= Len(schema) THEN schema[i] ELSE t[i - Len(schema)]
    OBVIOUS
  <2>3. \A i \in DOMAIN schema' : i \notin DOMAIN schema => i - Len(schema) \in DOMAIN t
    BY <2>1
  <2> QED BY <2>1, <2>2, <2>3
<1>2. \A x : Took(x) => Took(x)' BY <1>1 DEF Took
<1>3. \A x : Took(x)' => Took(x) \/ \E i \in DOMAIN t : t[i] = x BY <1>1 DEF Took
<1>4. \A s, q : Whole(s, q) => Whole(s, q)' BY <1>2 DEF Whole
<1>5. \A s, q : Part(s, q) => Part(s, q)' BY <1>2 DEF Part
<1>6. \A s, q : Piece(s, q) => Piece(s, q)' BY <1>1 DEF Piece
<1>7. \A s, q : Part(s, q)' => Part(s, q) \/ \E i \in DOMAIN t, k \in 1..Length : t[i] = Body(s, q)[k]
  BY <1>3 DEF Part
<1> QED BY <1>4, <1>5, <1>6, <1>7

(* A repair that is asked for stays asked for.                              *)
LEMMA StaysRepaired ==
    ASSUME NEW p \in Runners, Step(p)
    PROVE  Unrepaired' => Unrepaired
BY DEF Step, Others, Unrepaired

(* A step that leaves rows, schema and transactions alone keeps the table. *)
LEMMA StillTable ==
    ASSUME NEW p \in Runners, TypeOK, Table, Still(p)
    PROVE  Table'
<1> USE DEF Still, Step, Away
<1>1. Unrepaired' => Unrepaired BY StaysRepaired
<1>2. \A q \in Runners : q # p => pc'[q] = pc[q] /\ job'[q] = job[q] /\ open'[q] = open[q]
  BY DEF Others
<1>3. Ranked' BY DEF Table, Ranked
<1>4. OpenRows' BY <1>2 DEF Table, OpenRows, Transactional
<1>5. OneOpen' BY <1>2 DEF Table, OneOpen
<1>6. Bodies' BY <1>2 DEF Table, Bodies, Alone, AtTheEnd, Transactional
<1>7. Fresh'
  <2>1. ASSUME NEW q \in Runners, Chosen(q)' PROVE q # p /\ Chosen(q) /\ job'[q] = job[q]
    BY <1>2, <2>1 DEF Chosen, Taken
  <2>2. ASSUME NEW q \in Runners, Alone(q)' PROVE q # p /\ Alone(q) /\ job'[q] = job[q]
    BY <1>2, <2>2 DEF Alone, Transactional
  <2>3. \A row : Next1(rows, row) => Next1(rows, row)'
    BY SchemaSame DEF Next1
  <2> QED BY <2>1, <2>2, <2>3 DEF Table, Fresh, After, Next1
<1>8. Pieces' BY SchemaSame DEF Table, Pieces
<1>9. OneRow' BY DEF Table, OneRow, RankedInOrder
<1>10. Owned' BY <1>1 DEF Table, Owned
<1>11. Atomic' BY SchemaSame DEF Table, Atomic
<1>12. RanInOrder' BY <1>1 DEF Table, RanInOrder
<1> QED BY <1>3, <1>4, <1>5, <1>6, <1>7, <1>8, <1>9, <1>10, <1>11, <1>12 DEF Table

(* Two rows that are chosen have one rank, and none is while a row runs.    *)
LEMMA OneRank ==
    ASSUME TypeOK, Locals, OpenRows, Fresh,
           NEW p \in Runners, NEW q \in Runners, Chosen(p), Chosen(q)
    PROVE  job[p].row.rank = job[q].row.rank
<1>1. Next1(rows, job[p].row) /\ Next1(rows, job[q].row) BY DEF Fresh
<1>2. ASSUME NEW r \in Runners, Chosen(r) PROVE job[r].row \in Rows
  BY <1>2 DEF Chosen, OpenRows, Locals, Promised, Attempt
<1>3. job[p].row.rank \in Nat \ {0} /\ job[q].row.rank \in Nat \ {0}
  BY <1>2 DEF Rows
<1>4. \A r \in rows : r.rank \in Nat BY DEF TypeOK, Rows
<1> QED BY <1>1, <1>3, <1>4 DEF Next1

(* While a body runs outside a transaction no other row is chosen: its row *)
(* runs in the table.                                                      *)
LEMMA NoneChosen ==
    ASSUME Locals, Bodies, Fresh, NEW p \in Runners, Alone(p), NEW q \in Runners
    PROVE  ~Chosen(q)
<1>1. job[p].row \in rows /\ job[p].row.status = "running"
  BY DEF Bodies, Alone, Locals, Promised, Attempt
<1> QED BY <1>1 DEF Fresh, Next1

(* While a body runs no other does, and no other program claims.            *)
LEMMA Apart ==
    ASSUME TypeOK, LockHeld, Locals, Table,
           NEW p \in Runners, NEW q \in Runners, p # q, pc[p] = "body"
    PROVE  /\ pc[q] # "body"
           /\ ~(pc[q] = "claim" /\ ~Taken(job[q].row.rank) /\ ~Refused(q))
<1> USE DEF Table
<1>1. CASE Alone(p)
  <2>1. ~Chosen(q) BY <1>1, NoneChosen
  <2>2. ~Alone(q)
    BY <1>1 DEF Bodies, Alone, Locals, Promised, Attempt
  <2>3. pc[q] # "body"
    BY <2>1, <2>2 DEF Chosen, Alone, OpenRows
  <2> QED BY <2>1, <2>3 DEF Chosen
<1>2. CASE ~Alone(p)
  <2>1. open[p] # {} /\ Transactional(job[p].row)
    BY <1>2 DEF Alone, OpenRows
  <2>2. engine.locks \/ engine.busy
    BY <2>1, MigrateConstants DEF TypeOK, Transactional
  <2>3. pc[q] # "body"
    <3> SUFFICES ASSUME pc[q] = "body" PROVE FALSE
      OBVIOUS
    <3>1. ~Alone(q)
      <4> SUFFICES ASSUME Alone(q) PROVE FALSE
        OBVIOUS
      <4>1. ~Chosen(p) BY NoneChosen
      <4> QED BY <4>1, <2>1 DEF Chosen
    <3>2. open[q] # {} BY <3>1 DEF Alone, OpenRows
    <3> QED BY <3>2, <2>1 DEF OneOpen
  <2>4. CASE engine.locks
    BY <2>3, <2>4 DEF LockHeld, Inside
  <2>5. CASE engine.busy
    BY <2>1, <2>3, <2>5 DEF Refused
  <2> QED BY <2>2, <2>4, <2>5
<1> QED BY <1>1, <1>2

(* The row that finish updates is one, and that of the attempt.             *)
LEMMA MineIs ==
    ASSUME TypeOK, Locals, Ranked, Bodies, NEW p \in Runners, Alone(p) \/ pc[p] = "mark", NEW status
    PROVE  \E r \in rows :
             /\ Alike(r, job[p].row) /\ r.status # "failed"
             /\ Alone(p) => r = job[p].row
             /\ Mine(p) = {r}
             /\ Finished(p, status) = (rows \ {r}) \cup {[r EXCEPT !.status = status]}
<1>1. Attempt(p, job[p].row) BY DEF Locals, Promised, Alone
<1>2. PICK r \in rows : Alike(r, job[p].row) /\ r.status # "failed" /\ (Alone(p) => r = job[p].row)
  <2>1. CASE Alone(p)
    <3>1. job[p].row \in rows BY <2>1 DEF Bodies
    <3> QED BY <1>1, <3>1 DEF Alike, Attempt
  <2>2. CASE pc[p] = "mark"
    <3>1. ~Alone(p) BY <2>2 DEF Alone
    <3> QED BY <2>2, <3>1 DEF Bodies
  <2> QED BY <2>1, <2>2
<1>3. job[p].row # Null BY <1>1, NullIsNoRow DEF Attempt
<1>4. Mine(p) = {r}
  <2>1. r \in Mine(p) BY <1>1, <1>2, <1>3 DEF Mine, Alike, Attempt
  <2>2. \A s \in Mine(p) : s = r BY <1>2 DEF Mine, Alike, Ranked
  <2>3. Mine(p) \subseteq rows BY DEF Mine
  <2> QED BY <2>1, <2>2
<1>5. Finished(p, status) = (rows \ {r}) \cup {[r EXCEPT !.status = status]}
  BY <1>4 DEF Finished
<1> QED BY <1>2, <1>4, <1>5

(* schemaHash changes the hash of success rows and nothing else.            *)
LEMMA HashedIs ==
    ASSUME rows \subseteq Rows, Ranked, NEW rank, NEW by, NEW hash \in Nat
    PROVE  /\ Hashed(rank, by, hash) \subseteq Rows
           /\ \A s \in Hashed(rank, by, hash) :
                \E r \in rows : Alike(r, s) /\ r.status = s.status /\ (r.status # "success" => r = s)
           /\ \A r \in rows :
                \E s \in Hashed(rank, by, hash) : Alike(r, s) /\ r.status = s.status /\ (r.status # "success" => r = s)
           /\ \A s, t \in Hashed(rank, by, hash) : s.rank = t.rank => s = t
<1> DEFINE h(r) == IF r.rank = rank /\ r.by = by /\ r.status = "success" THEN [r EXCEPT !.hash = hash] ELSE r
<1>1. \A r \in rows : h(r) \in Rows /\ Alike(r, h(r)) /\ r.status = h(r).status /\ (r.status # "success" => r = h(r))
  BY DEF Rows, Alike
<1>2. Hashed(rank, by, hash) = {h(r) : r \in rows} BY DEF Hashed
<1> HIDE DEF h
<1>3. \A r, s \in rows : h(r).rank = h(s).rank => h(r) = h(s) BY <1>1 DEF Ranked, Alike
<1> QED BY <1>1, <1>2, <1>3

(* apply chooses the next row under the rules of Next1 and After.          *)
LEMMA ChoosesTable ==
    ASSUME NEW p \in Runners, TypeOK, Table, Chooses(p)
    PROVE  Table'
<1> USE DEF Chooses, Step
<1>1. Unrepaired' => Unrepaired BY StaysRepaired
<1>2. \A q \in Runners : q # p => pc'[q] = pc[q] /\ job'[q] = job[q] /\ open'[q] = open[q]
  BY DEF Others
<1>3. open[p] = {} BY DEF Table, OpenRows
<1>4. Ranked' BY DEF Table, Ranked
<1>5. OpenRows' BY <1>2, <1>3 DEF Table, OpenRows, Transactional
<1>6. OneOpen' BY <1>2 DEF Table, OneOpen
<1>7. Bodies' BY <1>2 DEF Table, Bodies, Alone, AtTheEnd, Transactional
<1>8. Fresh'
  <2>1. ASSUME NEW q \in Runners, q # p, Chosen(q)' PROVE Chosen(q) /\ job'[q] = job[q]
    BY <1>2, <2>1 DEF Chosen, Taken
  <2>2. ASSUME NEW q \in Runners, Alone(q)' PROVE q # p /\ Alone(q) /\ job'[q] = job[q]
    BY <1>2, <2>2 DEF Alone, Transactional
  <2>3. \A row : Next1(rows, row) => Next1(rows, row)'
    BY SchemaSame DEF Next1
  <2>4. ASSUME NEW q \in Runners, Chosen(q)' PROVE Next1(rows, job[q].row)' /\ After(rows, job[q].row)'
    BY <2>1, <2>3, <2>4 DEF Table, Fresh, After
  <2> QED BY <2>2, <2>4 DEF Table, Fresh, After
<1>9. Pieces' BY SchemaSame DEF Table, Pieces
<1>10. OneRow' BY DEF Table, OneRow, RankedInOrder
<1>11. Owned' BY <1>1 DEF Table, Owned
<1>12. Atomic' BY SchemaSame DEF Table, Atomic
<1>13. RanInOrder' BY <1>1 DEF Table, RanInOrder
<1> QED BY <1>4, <1>5, <1>6, <1>7, <1>8, <1>9, <1>10, <1>11, <1>12, <1>13 DEF Table

(* A claim whose row waits in an open transaction.                         *)
LEMMA ClaimsOpenTable ==
    ASSUME NEW p \in Runners, TypeOK, LockHeld, Locals, Table, ClaimsOpen(p)
    PROVE  Table'
<1> USE DEF ClaimsOpen, Claims, Step
<1>1. Unrepaired' => Unrepaired BY StaysRepaired
<1>2. \A q \in Runners : q # p => pc'[q] = pc[q] /\ job'[q] = job[q] /\ open'[q] = open[q]
  BY DEF Others
<1>3. \A q \in Runners : q # p => pc[q] # "body" /\ open[q] = {}
  <2>1. \A q \in Runners : q # p => pc[q] # "body" BY Apart
  <2> QED BY <2>1 DEF Table, OpenRows
<1>4. Ranked' BY DEF Table, Ranked
<1>5. OpenRows' BY <1>2 DEF Table, OpenRows, Transactional
<1>6. OneOpen' BY <1>2, <1>3 DEF OneOpen
<1>7. Bodies' BY <1>2, <1>3 DEF Table, Bodies, Alone, AtTheEnd, Transactional
<1>8. Fresh'
  <2>1. ASSUME NEW q \in Runners, Chosen(q)' PROVE Chosen(q) /\ job'[q] = job[q]
    BY <1>2, <2>1 DEF Chosen, Taken
  <2>2. \A q \in Runners : ~Alone(q)'
    BY <1>2, <1>3 DEF Alone, Transactional
  <2>3. \A row : Next1(rows, row) => Next1(rows, row)'
    BY SchemaSame DEF Next1
  <2>4. ASSUME NEW q \in Runners, Chosen(q)' PROVE Next1(rows, job[q].row)' /\ After(rows, job[q].row)'
    BY <2>1, <2>3, <2>4 DEF Table, Fresh, After
  <2> QED BY <2>2, <2>4 DEF Table, Fresh, After
<1>9. Pieces' BY SchemaSame DEF Table, Pieces
<1>10. OneRow' BY DEF Table, OneRow, RankedInOrder
<1>11. Owned' BY <1>1 DEF Table, Owned
<1>12. Atomic' BY SchemaSame DEF Table, Atomic
<1>13. RanInOrder' BY <1>1 DEF Table, RanInOrder
<1> QED BY <1>4, <1>5, <1>6, <1>7, <1>8, <1>9, <1>10, <1>11, <1>12, <1>13 DEF Table

(* A claim that commits its running row: the first to insert takes the     *)
(* rank, and the other programs that chose it have no row to claim any     *)
(* more.                                                                   *)
LEMMA ClaimsAloneTable ==
    ASSUME NEW p \in Runners, TypeOK, LockHeld, Locals, Table, ClaimsAlone(p)
    PROVE  Table'
<1> USE DEF ClaimsAlone, Claims, Step
<1> DEFINE row == job[p].row
<1>1. Unrepaired' => Unrepaired BY StaysRepaired
<1>2. \A q \in Runners : q # p => pc'[q] = pc[q] /\ job'[q] = job[q] /\ open'[q] = open[q]
  BY DEF Others
<1>3. /\ \A q \in Runners : q # p => pc[q] # "body"
      /\ \A q \in Runners : open[q] = {} /\ open'[q] = {}
  <2>1. \A q \in Runners : q # p => pc[q] # "body" BY Apart
  <2>2. \A q \in Runners : open[q] = {} BY <2>1 DEF Table, OpenRows
  <2> QED BY <2>1, <2>2, <1>2 DEF Away
<1>4. Attempt(p, row) BY DEF Locals, Promised
<1>5. Chosen(p) BY DEF Chosen
<1>6. Next1(rows, row) /\ After(rows, row) BY <1>5 DEF Table, Fresh
<1>7. Ranked'
  <2>1. \A r, s \in rows' : r.rank = s.rank => r = s
    BY DEF Table, Ranked, Taken
  <2>2. Bounded(rows')
    <3>1. PICK n \in Nat : \A r \in rows : r.rank <= n /\ r.version <= n
      BY DEF Table, Ranked, Bounded
    <3>2. row.rank \in Nat /\ row.version \in Nat BY <1>4 DEF Attempt, Rows
    <3>3. \A r \in rows : r.rank \in Nat /\ r.version \in Nat BY DEF TypeOK, Rows
    <3>4. \A r \in rows' : r.rank <= n + row.rank + row.version /\ r.version <= n + row.rank + row.version
      BY <3>1, <3>2, <3>3
    <3> QED BY <3>2, <3>4 DEF Bounded
  <2>3. \A r \in rows' : OfEntry(r) BY <1>4 DEF Table, Ranked, Attempt
  <2> QED BY <2>1, <2>2, <2>3 DEF Ranked
<1>8. OpenRows'
  <2>1. ~(pc'[p] = "body" /\ Transactional(job[p].row)') BY DEF Away, Transactional
  <2> QED BY <1>2, <1>3, <2>1 DEF OpenRows
<1>9. OneOpen' BY <1>3 DEF OneOpen
<1>10. Bodies'
  <2>1. ASSUME NEW q \in Runners, Alone(q)' PROVE q = p /\ job'[p] = job[p]
    BY <1>2, <1>3, <2>1 DEF Alone, Away
  <2>2. ASSUME Alone(p)' PROVE job'[p].row \in rows' /\ AtTheEnd(p)'
    BY <2>1, <2>2 DEF AtTheEnd, Locals, Promised
  <2>3. ASSUME NEW q \in Runners, pc'[q] = "mark"
        PROVE  \E r \in rows' : Alike(r, job'[q].row) /\ r.status # "failed"
    <3>1. q # p BY <2>3 DEF Away
    <3> QED BY <1>2, <2>3, <3>1 DEF Table, Bodies
  <2>4. \A r, s \in rows' : r.status = "running" /\ s.status = "running" => r = s
    BY <1>6 DEF Next1
  <2> QED BY <2>1, <2>2, <2>3, <2>4 DEF Bodies
<1>11. Fresh'
  <2>1. ASSUME NEW q \in Runners PROVE ~Chosen(q)'
    <3> SUFFICES ASSUME Chosen(q)' PROVE FALSE
      OBVIOUS
    <3>1. pc'[q] = "claim" /\ ~Taken(job[q].row.rank)' BY <1>3 DEF Chosen
    <3>2. q # p BY <3>1 DEF Away
    <3>3. Chosen(q) /\ job'[q] = job[q] BY <1>2, <3>1, <3>2 DEF Chosen, Taken
    <3>4. job[q].row.rank = row.rank BY <1>5, <3>3, OneRank DEF Table
    <3> QED BY <3>1, <3>3, <3>4 DEF Taken
  <2>2. ASSUME NEW q \in Runners, Alone(q)' PROVE After(rows, job[q].row)'
    <3>1. q = p /\ job'[p] = job[p] BY <1>2, <1>3, <2>2 DEF Alone, Away
    <3> QED BY <1>6, <3>1 DEF After
  <2> QED BY <2>1, <2>2 DEF Fresh
<1>12. Pieces'
  <2>1. Successes(rows') = Successes(rows) BY <1>4 DEF Successes, Attempt
  <2> QED BY <2>1, SchemaSame DEF Table, Pieces
<1>13. OneRow'
  <2>1. \A r \in rows : r.version \in Nat BY DEF TypeOK, Rows
  <2>2. row.version \in Nat BY <1>4 DEF Attempt, Rows
  <2>3. \A r \in rows : r.kind = "versioned" /\ row.kind = "versioned" => r.version # row.version
    BY <1>6, <2>1, <2>2 DEF After, Taken
  <2>4. \A r, s \in rows' : r.kind = "versioned" /\ s.kind = "versioned" /\ r.version = s.version => r = s
    BY <2>3 DEF Table, OneRow
  <2>5. RankedInOrder'
    <3>1. \A r \in rows : r.rank < row.rank /\ r.rank \in Nat /\ row.rank \in Nat
      BY <1>4, <1>6 DEF Next1, TypeOK, Attempt, Rows
    <3>2. \A r \in rows : r.kind = "versioned" /\ row.kind = "versioned" => r.version < row.version
      BY <1>6, <3>1 DEF After
    <3> QED BY <2>1, <2>2, <3>1, <3>2 DEF Table, OneRow, RankedInOrder
  <2> QED BY <2>4, <2>5 DEF OneRow
<1>14. Owned' BY <1>1 DEF Table, Owned
<1>15. Atomic'
  <2> SUFFICES ASSUME engine.transacts, NEW q \in Runners, NEW e \in Entries, e.source \notin Off
               PROVE  LET attempts == {r \in rows' : r.by = q /\ r.source = e.source /\ r.kind # "baseline"} IN
                      (Part(e.source, q)' <=> attempts # {}) /\ attempts \subseteq Successes(rows')
    BY DEF Atomic
  <2>1. row.source \in Off BY DEF Transactional
  <2>2. {r \in rows' : r.by = q /\ r.source = e.source /\ r.kind # "baseline"}
        = {r \in rows : r.by = q /\ r.source = e.source /\ r.kind # "baseline"}
    BY <2>1
  <2>3. Successes(rows) \subseteq Successes(rows') BY DEF Successes
  <2> QED BY <2>2, <2>3, SchemaSame DEF Table, Atomic
<1>16. RanInOrder' BY <1>1 DEF Table, RanInOrder
<1> QED BY <1>7, <1>8, <1>9, <1>10, <1>11, <1>12, <1>13, <1>14, <1>15, <1>16 DEF Table

(* The statements of a body.                                               *)
LEMMA BodyIs ==
    ASSUME NEW source \in Nat, NEW p \in Runners
    PROVE  /\ Body(source, p) \in Seq(Nat \X Runners \X (1..Length))
           /\ Len(Body(source, p)) = Length /\ DOMAIN Body(source, p) = 1..Length
           /\ \A i \in 1..Length : Body(source, p)[i] = <<source, p, i>>
BY DEF Body, Length

(* The schema after a step that appends t, position by position.           *)
LEMMA Joined ==
    ASSUME NEW X, NEW s \in Seq(X), NEW t \in Seq(X)
    PROVE  /\ Len(s) \in Nat /\ DOMAIN s = 1..Len(s)
           /\ Len(t) \in Nat /\ DOMAIN t = 1..Len(t)
           /\ DOMAIN (s \o t) = 1..(Len(s) + Len(t)) /\ Len(s \o t) = Len(s) + Len(t)
           /\ \A k \in 1..(Len(s) + Len(t)) : (s \o t)[k] = IF k <= Len(s) THEN s[k] ELSE t[k - Len(s)]
OBVIOUS

(* Appending one statement is appending a sequence of one.                 *)
LEMMA Appended ==
    ASSUME NEW X, NEW s \in Seq(X), NEW x \in X
    PROVE  Append(s, x) = s \o <<x>> /\ s = s \o <<>> /\ <<x>> \in Seq(X) /\ <<>> \in Seq(X)
OBVIOUS

(* A statement has a source that is not one of another version.            *)
LEMMA OneVersion ==
    ASSUME NEW r, OfEntry(r), NEW e \in Entries, r.source = e.source
    PROVE  r.version = e.version
BY ManifestConstants DEF OfEntry

(* The statements of a body come after those of the versions before it.     *)
LEMMA InTurn ==
    ASSUME TypeOK, Locals, Ranked, Owned, Unrepaired, RanInOrder,
           NEW p \in Runners, Attempt(p, job[p].row), After(rows, job[p].row),
           \A r \in rows : r.rank = job[p].row.rank => r.source = job[p].row.source,
           NEW t \in Seq(Nat \X Runners \X (1..Length)), schema' = schema \o t, engine' = engine,
           \A i \in DOMAIN t : t[i][1] = job[p].row.source
    PROVE  RanInOrder'
<1> DEFINE row == job[p].row
<1> SUFFICES ASSUME NEW d \in Entries, NEW e \in Entries, d.version > e.version, e.version # 0,
                    NEW i \in DOMAIN schema', NEW j \in DOMAIN schema',
                    d.source = schema'[i][1], e.source = schema'[j][1]
             PROVE  j < i
  BY DEF RanInOrder
<1>1. /\ Len(schema) \in Nat /\ DOMAIN schema = 1..Len(schema)
      /\ i \in Nat /\ j \in Nat
      /\ \A k \in DOMAIN schema' :
           \/ k \in DOMAIN schema /\ schema'[k] = schema[k]
           \/ k > Len(schema) /\ schema'[k][1] = row.source
  <2>1. /\ Len(schema) \in Nat /\ DOMAIN schema = 1..Len(schema)
        /\ Len(t) \in Nat /\ DOMAIN t = 1..Len(t)
        /\ DOMAIN schema' = 1..(Len(schema) + Len(t))
        /\ \A k \in 1..(Len(schema) + Len(t)) :
             schema'[k] = IF k <= Len(schema) THEN schema[k] ELSE t[k - Len(schema)]
    BY Joined DEF TypeOK
  <2>3. \A k \in DOMAIN schema' : k > Len(schema) => k - Len(schema) \in DOMAIN t
    BY <2>1
  <2> QED BY <2>1, <2>3
<1>2. d.version \in Nat /\ e.version \in Nat
  BY ManifestConstants DEF Entries, Entry
<1>3. OfEntry(row) /\ row.kind # "baseline" /\ row \in Rows BY DEF Attempt
<1>4. CASE schema'[j][1] = row.source /\ i \in DOMAIN schema /\ schema'[i] = schema[i]
  <2>1. PICK r \in rows : r.kind # "baseline" /\ r.source = d.source
    BY <1>4 DEF Owned
  <2>2. r.version = d.version BY <2>1, OneVersion DEF Ranked
  <2>3. row.version = e.version BY <1>3, <1>4, OneVersion
  <2>4. row.kind = "versioned" BY <1>3, <2>3 DEF OfEntry, Rows
  <2>5. r.rank = row.rank \/ r.version < row.version BY <2>1, <2>4 DEF After
  <2>6. r.rank # row.rank
    <3> SUFFICES ASSUME r.rank = row.rank PROVE FALSE
      OBVIOUS
    <3>1. r.source = e.source BY <1>4
    <3>2. r.version = e.version BY <3>1, OneVersion DEF Ranked
    <3> QED BY <3>2, <2>2, <1>2
  <2> QED BY <2>2, <2>3, <2>5, <2>6, <1>2
<1>5. CASE j \in DOMAIN schema /\ schema'[j] = schema[j] /\ i \in DOMAIN schema /\ schema'[i] = schema[i]
  BY <1>5 DEF RanInOrder
<1>6. CASE j \in DOMAIN schema /\ i > Len(schema)
  BY <1>1, <1>6
<1>7. CASE schema'[i][1] = row.source /\ schema'[j][1] = row.source
  <2>1. d.version = e.version BY <1>7, ManifestConstants
  <2> QED BY <2>1, <1>2
<1> QED BY <1>1, <1>4, <1>5, <1>6, <1>7

(* A statement of a body takes effect, at once outside a transaction.      *)
LEMMA RunsTable ==
    ASSUME NEW p \in Runners, TypeOK, LockHeld, Locals, Table, Runs(p)
    PROVE  Table' /\ Lasts
<1> USE DEF Runs, Step
<1> DEFINE row == job[p].row
           n == job[p].done
<1>1. Unrepaired' => Unrepaired BY StaysRepaired
<1>2. \A q \in Runners : q # p => pc'[q] = pc[q] /\ job'[q] = job[q] /\ open'[q] = open[q]
  BY DEF Others
<1>3. \A q \in Runners : q # p => pc[q] # "body" BY Apart
<1>4. Attempt(p, row) BY DEF Locals, Promised
<1>5. n \in 0..Length /\ n + 1 \in 1..Length BY DEF TypeOK, Jobs, Length
<1>6. row.source \in Nat BY <1>4 DEF Attempt, Rows
<1>7. Body(row.source, p)[n + 1] = <<row.source, p, n + 1>> BY <1>5, <1>6, BodyIs
<1> DEFINE t == IF Transactional(row) THEN <<>> ELSE <<Body(row.source, p)[n + 1]>>
<1>8. /\ schema \in Seq(Nat \X Runners \X (1..Length)) /\ t \in Seq(Nat \X Runners \X (1..Length))
      /\ schema' = schema \o t
  <2> DEFINE X == Nat \X Runners \X (1..Length)
             x == Body(row.source, p)[n + 1]
  <2>1. x \in X BY <1>5, <1>6, <1>7
  <2>2. schema \in Seq(X) BY DEF TypeOK
  <2>3. schema' = IF Transactional(row) THEN schema ELSE Append(schema, x) OBVIOUS
  <2>4. t = IF Transactional(row) THEN <<>> ELSE <<x>> OBVIOUS
  <2> HIDE DEF X, x, t
  <2>5. Append(schema, x) = schema \o <<x>> /\ schema = schema \o <<>> /\ <<x>> \in Seq(X) /\ <<>> \in Seq(X)
    BY <2>1, <2>2, Appended
  <2>6. schema \in Seq(X) /\ t \in Seq(X) /\ schema' = schema \o t
    BY <2>2, <2>3, <2>4, <2>5
  <2> QED BY <2>6 DEF X
<1>9. \A i \in DOMAIN t : ~Transactional(row) /\ t[i] = <<row.source, p, n + 1>>
  BY <1>7
<1>10. /\ \A s, q : Whole(s, q) => Whole(s, q)'
       /\ \A s, q : Part(s, q) => Part(s, q)'
       /\ \A s, q : Piece(s, q) => Piece(s, q)'
       /\ \A s, q : Part(s, q)' => Part(s, q) \/ \E i \in DOMAIN t, k \in 1..Length : t[i] = Body(s, q)[k]
  <2> HIDE DEF t
  <2> QED BY <1>8, SchemaGrows
<1> HIDE DEF t
<1>11. Ranked' BY DEF Table, Ranked
<1>12. OpenRows'
  <2>1. \A q \in Runners : pc'[q] = pc[q] /\ job'[q].row = job[q].row /\ open'[q] = open[q]
    BY <1>2
  <2>2. \A q \in Runners : Transactional(job[q].row)' = Transactional(job[q].row)
    BY <2>1 DEF Transactional
  <2> QED BY <2>1, <2>2 DEF Table, OpenRows
<1>13. OneOpen' BY <1>2 DEF Table, OneOpen
<1>14. Bodies'
  <2>1. ASSUME NEW q \in Runners, Alone(q)' PROVE q = p /\ Alone(p)
    BY <1>2, <1>3, <2>1 DEF Alone, Transactional
  <2>2. ASSUME Alone(p) PROVE job'[p].row \in rows' /\ AtTheEnd(p)'
    <3>1. row \in rows /\ AtTheEnd(p) BY <2>2 DEF Table, Bodies
    <3>2. schema' = Append(schema, Body(row.source, p)[n + 1]) BY <2>2 DEF Alone
    <3>3. Len(schema) \in Nat /\ Len(schema') = Len(schema) + 1 /\ DOMAIN schema' = 1..(Len(schema) + 1)
      BY <3>2 DEF TypeOK
    <3>4. ASSUME NEW i \in 1..(n + 1)
          PROVE  /\ Len(schema) + 1 - (n + 1) + i \in DOMAIN schema'
                 /\ schema'[Len(schema) + 1 - (n + 1) + i] = Body(row.source, p)[i]
      <4>1. CASE i = n + 1
        BY <1>5, <3>2, <3>3, <4>1 DEF TypeOK
      <4>2. CASE i # n + 1
        <5>1. i \in 1..n BY <1>5, <4>2
        <5> DEFINE k == Len(schema) - n + i
        <5>2. k \in DOMAIN schema /\ schema[k] = Body(row.source, p)[i] BY <3>1, <5>1 DEF AtTheEnd
        <5>3. DOMAIN schema = 1..Len(schema) BY DEF TypeOK
        <5>4. schema'[k] = schema[k] BY <3>2, <5>2, <5>3 DEF TypeOK
        <5>5. Len(schema) + 1 - (n + 1) + i = k BY <1>5, <3>3
        <5> QED BY <3>3, <5>2, <5>3, <5>4, <5>5
      <4> QED BY <4>1, <4>2
    <3>5. job'[p].done = n + 1 /\ job'[p].row = row /\ rows' = rows OBVIOUS
    <3> HIDE DEF Runs, Step, row, n
    <3>6. Len(schema') - job'[p].done = Len(schema) + 1 - (n + 1) BY <1>5, <3>3, <3>5
    <3>7. \A i \in 1..job'[p].done : /\ Len(schema') - job'[p].done + i \in DOMAIN schema'
                                     /\ schema'[Len(schema') - job'[p].done + i] = Body(job'[p].row.source, p)[i]
      BY <3>4, <3>5, <3>6
    <3>8. AtTheEnd(p)' BY <3>7 DEF AtTheEnd
    <3> QED BY <3>1, <3>5, <3>8 DEF row
  <2> QED BY <1>2, <2>1, <2>2 DEF Table, Bodies
<1>15. Fresh'
  <2>1. ASSUME NEW q \in Runners, Chosen(q)' PROVE Chosen(q) /\ job'[q].row = job[q].row
    BY <1>2, <2>1 DEF Chosen, Taken
  <2>2. ASSUME NEW q \in Runners, Alone(q)' PROVE Alone(q) /\ job'[q].row = job[q].row
    BY <1>2, <2>2 DEF Alone, Transactional
  <2>3. \A r : Next1(rows, r) => Next1(rows, r)'
    BY <1>10 DEF Next1
  <2> QED BY <2>1, <2>2, <2>3 DEF Table, Fresh, After
<1>16. Pieces' BY <1>10 DEF Table, Pieces
<1>17. OneRow' BY DEF Table, OneRow, RankedInOrder
<1>18. Owned'
  <2> SUFFICES ASSUME Unrepaired', NEW i \in DOMAIN schema'
               PROVE  \E r \in rows : r.kind # "baseline" /\ r.source = schema'[i][1] /\ r.by = schema'[i][2]
    BY DEF Owned
  <2>1. CASE Transactional(row)
    BY <1>1, <2>1 DEF Table, Owned
  <2>2. CASE ~Transactional(row)
    <3>1. row \in rows BY <2>2 DEF Table, Bodies, Alone
    <3>2. \/ i \in DOMAIN schema /\ schema'[i] = schema[i]
          \/ schema'[i] = <<row.source, p, n + 1>>
      BY <1>7, <2>2 DEF TypeOK
    <3>3. CASE i \in DOMAIN schema /\ schema'[i] = schema[i]
      BY <1>1, <3>3 DEF Table, Owned
    <3>4. CASE schema'[i] = <<row.source, p, n + 1>>
      BY <1>4, <3>1, <3>4 DEF Attempt
    <3> QED BY <3>2, <3>3, <3>4
  <2> QED BY <2>1, <2>2
<1>19. Atomic'
  <2> SUFFICES ASSUME engine.transacts, NEW q \in Runners, NEW e \in Entries, e.source \notin Off
               PROVE  LET attempts == {r \in rows : r.by = q /\ r.source = e.source /\ r.kind # "baseline"} IN
                      (Part(e.source, q)' <=> attempts # {}) /\ attempts \subseteq Successes(rows)
    BY DEF Atomic
  <2>1. Part(e.source, q)' <=> Part(e.source, q)
    <3>1. ASSUME NEW i \in DOMAIN t, NEW k \in 1..Length, t[i] = Body(e.source, q)[k] PROVE FALSE
      <4>1. Body(e.source, q)[k] = <<e.source, q, k>> BY DEF Body
      <4>2. e.source = row.source BY <1>9, <3>1, <4>1
      <4>3. row.source \in Off BY <1>9 DEF Transactional
      <4> QED BY <4>2, <4>3
    <3> QED BY <3>1, <1>10
  <2> QED BY <2>1 DEF Table, Atomic
<1>20. RanInOrder'
  <2> SUFFICES ASSUME Unrepaired PROVE RanInOrder'
    BY <1>1 DEF RanInOrder
  <2>1. CASE Transactional(row)
    BY <2>1 DEF Table, RanInOrder
  <2>2. CASE ~Transactional(row)
    <3>1. Alone(p) BY <2>2 DEF Alone
    <3>2. row \in rows /\ After(rows, row) BY <3>1 DEF Table, Bodies, Fresh
    <3>3. \A r \in rows : r.rank = row.rank => r.source = row.source BY <3>2 DEF Table, Ranked
    <3>4. \A i \in DOMAIN t : t[i][1] = row.source BY <1>9
    <3> QED BY <1>4, <1>8, <3>2, <3>3, <3>4, InTurn DEF Table
  <2> QED BY <2>1, <2>2
<1>21. Lasts BY <1>10 DEF Lasts
<1> QED BY <1>11, <1>12, <1>13, <1>14, <1>15, <1>16, <1>17, <1>18, <1>19, <1>20, <1>21 DEF Table

(* A body outside a transaction fails, and its row is to be marked.        *)
LEMMA FailsTable ==
    ASSUME NEW p \in Runners, TypeOK, LockHeld, Locals, Table, Fails(p)
    PROVE  Table'
<1> USE DEF Fails, Step
<1>1. Unrepaired' => Unrepaired BY StaysRepaired
<1>2. \A q \in Runners : q # p => pc'[q] = pc[q] /\ job'[q] = job[q] /\ open'[q] = open[q]
  BY DEF Others
<1>3. Ranked' BY DEF Table, Ranked
<1>4. OpenRows' BY <1>2 DEF Table, OpenRows, Transactional
<1>5. OneOpen' BY <1>2 DEF Table, OneOpen
<1>6. Bodies'
  <2>1. ASSUME NEW q \in Runners, Alone(q)' PROVE q # p /\ Alone(q) /\ job'[q] = job[q]
    BY <1>2, <2>1 DEF Alone, Transactional
  <2>2. job[p].row \in rows /\ Alike(job[p].row, job[p].row) /\ job[p].row.status # "failed"
    BY DEF Table, Bodies, Alike, Locals, Promised, Attempt, Alone
  <2> QED BY <1>2, <2>1, <2>2 DEF Table, Bodies, AtTheEnd
<1>7. Fresh'
  <2>1. ASSUME NEW q \in Runners, Chosen(q)' PROVE q # p /\ Chosen(q) /\ job'[q] = job[q]
    BY <1>2, <2>1 DEF Chosen, Taken
  <2>2. ASSUME NEW q \in Runners, Alone(q)' PROVE q # p /\ Alone(q) /\ job'[q] = job[q]
    BY <1>2, <2>2 DEF Alone, Transactional
  <2>3. \A row : Next1(rows, row) => Next1(rows, row)'
    BY SchemaSame DEF Next1
  <2> QED BY <2>1, <2>2, <2>3 DEF Table, Fresh, After, Next1
<1>8. Pieces' BY SchemaSame DEF Table, Pieces
<1>9. OneRow' BY DEF Table, OneRow, RankedInOrder
<1>10. Owned' BY <1>1 DEF Table, Owned
<1>11. Atomic' BY SchemaSame DEF Table, Atomic
<1>12. RanInOrder' BY <1>1 DEF Table, RanInOrder
<1> QED BY <1>3, <1>4, <1>5, <1>6, <1>7, <1>8, <1>9, <1>10, <1>11, <1>12 DEF Table

(* A body in a transaction commits: statements and success row appear in   *)
(* one step.                                                               *)
LEMMA CommitsTable ==
    ASSUME NEW p \in Runners, TypeOK, LockHeld, Locals, Table, Commits(p)
    PROVE  Table' /\ Lasts /\ rows' \subseteq Rows
<1> USE DEF Commits, Step, Away
<1>0. PICK row : row = job[p].row OBVIOUS
<1> USE <1>0
<1> DEFINE won == [row EXCEPT !.status = "success"]
           t == Body(row.source, p)
           X == Nat \X Runners \X (1..Length)
<1>1. Unrepaired' => Unrepaired BY StaysRepaired
<1>2. \A q \in Runners : q # p => pc'[q] = pc[q] /\ job'[q] = job[q] /\ open'[q] = open[q]
  BY DEF Others
<1>3. /\ \A q \in Runners : q # p => pc[q] # "body"
      /\ \A q \in Runners : open'[q] = {}
  <2>1. \A q \in Runners : q # p => pc[q] # "body" BY Apart
  <2> QED BY <2>1, <1>2 DEF Table, OpenRows
<1>4. Attempt(p, row) BY DEF Locals, Promised
<1>5. Chosen(p) BY DEF Chosen, Table, OpenRows
<1>6. Next1(rows, row) /\ After(rows, row) BY <1>5 DEF Table, Fresh
<1>7. won \in Rows /\ Alike(won, row) /\ won.status = "success" /\ OfEntry(won)
  BY <1>4 DEF Attempt, Rows, Alike, OfEntry
<1>8. row.source \in Nat /\ row.rank \in Nat \ {0} /\ row.version \in Nat BY <1>4 DEF Attempt, Rows
<1>9. schema \in Seq(X) /\ t \in Seq(X) /\ schema' = schema \o t /\ Len(t) = Length /\ DOMAIN t = 1..Length
      /\ \A i \in 1..Length : t[i] = <<row.source, p, i>>
  BY <1>8, BodyIs DEF TypeOK
<1>10. /\ \A s, q : Whole(s, q) => Whole(s, q)'
       /\ \A s, q : Part(s, q) => Part(s, q)'
       /\ \A s, q : Piece(s, q) => Piece(s, q)'
       /\ \A s, q : Part(s, q)' => Part(s, q) \/ \E i \in DOMAIN t, k \in 1..Length : t[i] = Body(s, q)[k]
  <2> HIDE DEF t, X
  <2> QED BY <1>9, SchemaGrows
<1>11. /\ Len(schema) \in Nat
       /\ DOMAIN schema = 1..Len(schema) /\ DOMAIN schema' = 1..(Len(schema) + Length)
       /\ \A k \in 1..Len(schema) : schema'[k] = schema[k]
       /\ \A i \in 1..Length : Len(schema) + i \in DOMAIN schema' /\ schema'[Len(schema) + i] = <<row.source, p, i>>
  <2>1. /\ Len(schema) \in Nat /\ DOMAIN schema = 1..Len(schema)
        /\ DOMAIN schema' = 1..(Len(schema) + Length)
        /\ \A k \in 1..(Len(schema) + Length) :
             schema'[k] = IF k <= Len(schema) THEN schema[k] ELSE t[k - Len(schema)]
    <3> HIDE DEF t, X
    <3> QED BY <1>9, Joined
  <2>2. Length \in Nat BY DEF Length
  <2>3. \A i \in 1..Length : Len(schema) + i \in 1..(Len(schema) + Length) /\ ~ Len(schema) + i <= Len(schema)
                             /\ Len(schema) + i - Len(schema) = i
    BY <2>1, <2>2
  <2>4. \A k \in 1..Len(schema) : k \in 1..(Len(schema) + Length) BY <2>1, <2>2
  <2> HIDE DEF t, X
  <2> QED BY <1>9, <2>1, <2>3, <2>4
<1>12. rows' = rows \cup {won} /\ engine' = engine /\ pc'[p] \notin {"claim", "body", "mark"}
  OBVIOUS
<1> HIDE DEF t, X, won, Commits, Step, Away
<1>13. Ranked'
  <2>1. \A r \in rows : r.rank < row.rank BY <1>6 DEF Next1
  <2>2. \A r \in rows : r.rank \in Nat /\ r.version \in Nat BY DEF TypeOK, Rows
  <2>3. \A r, s \in rows' : r.rank = s.rank => r = s
    BY <1>7, <1>8, <1>12, <2>1, <2>2 DEF Table, Ranked, Alike
  <2>4. Bounded(rows')
    <3>1. PICK n \in Nat : \A r \in rows : r.rank <= n /\ r.version <= n
      BY DEF Table, Ranked, Bounded
    <3>2. \A r \in rows' : r.rank <= n + row.rank + row.version /\ r.version <= n + row.rank + row.version
      BY <1>7, <1>8, <1>12, <2>2, <3>1 DEF Alike
    <3> QED BY <1>8, <3>2 DEF Bounded
  <2>5. \A r \in rows' : OfEntry(r) BY <1>7, <1>12 DEF Table, Ranked
  <2> QED BY <2>3, <2>4, <2>5 DEF Ranked
<1>14. OpenRows' BY <1>2, <1>3, <1>12 DEF OpenRows
<1>15. OneOpen' BY <1>3 DEF OneOpen
<1>16. \A q \in Runners : ~Alone(q)' BY <1>2, <1>3, <1>12 DEF Alone
<1>17. Bodies'
  <2>1. ASSUME NEW q \in Runners, pc'[q] = "mark"
        PROVE  \E r \in rows' : Alike(r, job'[q].row) /\ r.status # "failed"
    BY <1>2, <1>12, <2>1 DEF Table, Bodies
  <2>2. \A r, s \in rows' : r.status = "running" /\ s.status = "running" => r = s
    BY <1>7, <1>12 DEF Table, Bodies
  <2> QED BY <1>16, <2>1, <2>2 DEF Bodies
<1>18. Fresh'
  <2>1. ASSUME NEW q \in Runners PROVE ~Chosen(q)'
    <3> SUFFICES ASSUME Chosen(q)' PROVE FALSE
      OBVIOUS
    <3>1. pc'[q] = "claim" /\ ~Taken(job[q].row.rank)' BY <1>3 DEF Chosen
    <3>2. q # p BY <1>12, <3>1
    <3>3. Chosen(q) /\ job'[q] = job[q] BY <1>2, <1>12, <3>1, <3>2 DEF Chosen, Taken
    <3>4. job[q].row.rank = row.rank BY <1>5, <3>3, OneRank DEF Table
    <3> QED BY <1>7, <1>12, <3>1, <3>3, <3>4 DEF Taken, Alike
  <2> QED BY <1>16, <2>1 DEF Fresh
<1>19. Pieces'
  <2>1. Piece(row.source, p)'
    <3>1. Len(schema) + 1 \in DOMAIN schema' /\ Length \in Nat BY <1>11 DEF Length
    <3>2. \A i \in 1..Length : Len(schema) + 1 + i - 1 = Len(schema) + i BY <1>11
    <3>3. \A i \in 1..Length : Body(row.source, p)[i] = <<row.source, p, i>> BY <1>8, BodyIs
    <3> QED BY <1>11, <3>1, <3>2, <3>3 DEF Piece
  <2>2. won.source = row.source /\ won.by = p BY <1>4, <1>7 DEF Alike, Attempt
  <2> QED BY <1>10, <1>12, <2>1, <2>2 DEF Table, Pieces, Successes
<1>20. OneRow'
  <2>1. \A r \in rows : r.version \in Nat /\ r.rank \in Nat /\ r.rank < row.rank
    BY <1>6 DEF TypeOK, Rows, Next1
  <2>2. \A r \in rows : r.kind = "versioned" /\ row.kind = "versioned" => r.version # row.version
    BY <1>6, <1>8, <2>1 DEF After
  <2>3. \A r, s \in rows' : r.kind = "versioned" /\ s.kind = "versioned" /\ r.version = s.version => r = s
    BY <1>7, <1>12, <2>2 DEF Table, OneRow, Alike
  <2>4. \A r \in rows : r.kind = "versioned" /\ row.kind = "versioned" => r.version < row.version
    BY <1>6, <1>8, <2>1 DEF After
  <2>5. RankedInOrder'
    BY <1>7, <1>8, <1>12, <2>1, <2>4 DEF Table, OneRow, RankedInOrder, Alike
  <2> QED BY <2>3, <2>5 DEF OneRow
<1>21. Owned'
  <2>1. won.kind # "baseline" /\ won.source = row.source /\ won.by = p BY <1>4, <1>7 DEF Alike, Attempt
  <2>2. \A i \in DOMAIN schema' : \/ i \in DOMAIN schema /\ schema'[i] = schema[i]
                                  \/ schema'[i][1] = row.source /\ schema'[i][2] = p
    <3> SUFFICES ASSUME NEW i \in DOMAIN schema', i \notin DOMAIN schema
                 PROVE  schema'[i][1] = row.source /\ schema'[i][2] = p
      BY <1>11
    <3>1. i - Len(schema) \in 1..Length /\ Len(schema) + (i - Len(schema)) = i BY <1>11 DEF Length
    <3> QED BY <1>11, <3>1
  <2> QED BY <1>1, <1>12, <2>1, <2>2 DEF Table, Owned
<1>22. Atomic'
  <2> SUFFICES ASSUME engine.transacts, NEW q \in Runners, NEW e \in Entries, e.source \notin Off
               PROVE  LET attempts == {r \in rows' : r.by = q /\ r.source = e.source /\ r.kind # "baseline"} IN
                      (Part(e.source, q)' <=> attempts # {}) /\ attempts \subseteq Successes(rows')
    BY <1>12 DEF Atomic
  <2> DEFINE old == {r \in rows : r.by = q /\ r.source = e.source /\ r.kind # "baseline"}
             new == {r \in rows' : r.by = q /\ r.source = e.source /\ r.kind # "baseline"}
  <2>1. (Part(e.source, q) <=> old # {}) /\ old \subseteq Successes(rows)
    BY DEF Table, Atomic
  <2>2. won.source = row.source /\ won.by = p /\ won.kind # "baseline" BY <1>4, <1>7 DEF Alike, Attempt
  <2>3. new \subseteq Successes(rows') BY <1>7, <1>12, <2>1 DEF Successes
  <2>4. CASE q = p /\ e.source = row.source
    <3>1. won \in new BY <1>12, <2>2, <2>4
    <3>2. Part(row.source, p)'
      <4>1. 1 \in 1..Length BY DEF Length
      <4>2. Body(row.source, p)[1] = <<row.source, p, 1>> BY <1>8, <4>1, BodyIs
      <4> QED BY <1>11, <4>1, <4>2 DEF Part, Took
    <3> QED BY <2>3, <2>4, <3>1, <3>2
  <2>5. CASE ~(q = p /\ e.source = row.source)
    <3>1. new = old BY <1>12, <2>2, <2>5
    <3>2. \A i \in 1..Length, k \in 1..Length : t[i] # Body(e.source, q)[k]
      BY <1>9, <2>5 DEF Body
    <3>3. Part(e.source, q)' <=> Part(e.source, q) BY <1>9, <1>10, <3>2
    <3> QED BY <2>1, <2>3, <3>1, <3>3
  <2> QED BY <2>4, <2>5
<1>23. RanInOrder'
  <2> SUFFICES ASSUME Unrepaired PROVE RanInOrder'
    BY <1>1 DEF RanInOrder
  <2>1. \A r \in rows : r.rank = row.rank => r.source = row.source
    <3>1. \A r \in rows : r.rank < row.rank /\ r.rank \in Nat BY <1>6 DEF Next1, TypeOK, Rows
    <3> QED BY <1>8, <3>1
  <2>2. \A i \in DOMAIN t : t[i][1] = row.source BY <1>9
  <2> QED BY <1>4, <1>6, <1>9, <1>12, <2>1, <2>2, InTurn DEF Table, X
<1>24. Lasts BY <1>10, <1>12 DEF Lasts, Successes
<1>25. rows' \subseteq Rows BY <1>7, <1>12 DEF TypeOK
<1> QED BY <1>25, <1>13, <1>14, <1>15, <1>17, <1>18, <1>19, <1>20, <1>21, <1>22, <1>23, <1>24 DEF Table

(* Rows that are rewritten stay those of their attempts.                    *)
LEMMA Rewritten ==
    ASSUME TypeOK, Ranked, OneRow, rows' \subseteq Rows,
           \A s \in rows' : \E r \in rows : Alike(r, s),
           \A s, t \in rows' : s.rank = t.rank => s = t
    PROVE  /\ Ranked' /\ OneRow'
           /\ \A row : After(rows, row) => After(rows', row)
           /\ \A k : Taken(k)' => Taken(k)
<1>1. Ranked'
  <2>1. Bounded(rows')
    <3>1. PICK n \in Nat : \A r \in rows : r.rank <= n /\ r.version <= n BY DEF Ranked, Bounded
    <3>2. \A s \in rows' : s.rank <= n /\ s.version <= n BY <3>1 DEF Alike
    <3> QED BY <3>2 DEF Bounded
  <2>2. \A s \in rows' : OfEntry(s)
    <3>1. \A r, s : Alike(r, s) /\ OfEntry(r) => OfEntry(s) BY DEF Alike, OfEntry
    <3> QED BY <3>1 DEF Ranked
  <2> QED BY <2>1, <2>2 DEF Ranked
<1>2. OneRow'
  <2> SUFFICES ASSUME NEW s \in rows', NEW t \in rows', s.kind = "versioned", t.kind = "versioned"
               PROVE  (s.version = t.version => s = t) /\ (s.version < t.version => s.rank < t.rank)
    BY DEF OneRow, RankedInOrder
  <2>1. PICK r \in rows : Alike(r, s) OBVIOUS
  <2>2. PICK q \in rows : Alike(q, t) OBVIOUS
  <2>3. s.version = t.version => r = q BY <2>1, <2>2 DEF OneRow, Alike
  <2>4. s.version < t.version => r.rank < q.rank BY <2>1, <2>2 DEF OneRow, RankedInOrder, Alike
  <2> QED BY <2>1, <2>2, <2>3, <2>4 DEF Alike
<1>3. \A row : After(rows, row) => After(rows', row)
  <2> SUFFICES ASSUME NEW row, After(rows, row), row.kind = "versioned",
                      NEW s \in rows', s.kind # "baseline", s.rank # row.rank
               PROVE  s.version < row.version
    BY DEF After
  <2>1. PICK r \in rows : Alike(r, s) OBVIOUS
  <2> QED BY <2>1 DEF After, Alike
<1>4. \A k : Taken(k)' => Taken(k)
  <2>1. \A k : (\E s \in rows' : s.rank = k) => \E r \in rows : r.rank = k BY DEF Alike
  <2> QED BY <2>1 DEF Taken
<1> QED BY <1>1, <1>2, <1>3, <1>4

(* schemaHash rewrites the hash of one row.                                *)
LEMMA HashesTable ==
    ASSUME NEW p \in Runners, TypeOK, LockHeld, Locals, Table, Hashes(p)
    PROVE  Table' /\ Lasts /\ rows' \subseteq Rows
<1>1. Unrepaired' => Unrepaired BY StaysRepaired DEF Hashes
<1>2. \A q \in Runners : q # p => pc'[q] = pc[q] /\ job'[q] = job[q] /\ open'[q] = open[q]
  BY DEF Hashes, Step, Others
<1>3. /\ engine' = engine /\ schema' = schema
      /\ pc'[p] \notin {"claim", "body", "mark"} /\ open'[p] = {}
      /\ pc[p] \notin {"claim", "body", "mark"}
  BY DEF Hashes, Step, Away
<1>4. /\ rows' \subseteq Rows
      /\ \A s \in rows' : \E r \in rows : Alike(r, s) /\ r.status = s.status /\ (r.status # "success" => r = s)
      /\ \A r \in rows : \E s \in rows' : Alike(r, s) /\ r.status = s.status /\ (r.status # "success" => r = s)
      /\ \A s, t \in rows' : s.rank = t.rank => s = t
  <2>1. PICK rank \in Nat, by \in Runners, hash \in Nat : rows' = Hashed(rank, by, hash)
    BY DEF Hashes
  <2> QED BY <2>1, HashedIs DEF TypeOK, Table
<1>5. /\ Ranked' /\ OneRow'
      /\ \A row : After(rows, row) => After(rows', row)
      /\ \A k : Taken(k)' => Taken(k)
  BY <1>4, Rewritten DEF Table
<1>6. OpenRows' BY <1>2, <1>3 DEF Table, OpenRows, Transactional
<1>7. OneOpen' BY <1>2, <1>3 DEF Table, OneOpen
<1>8. ASSUME NEW q \in Runners, Alone(q)' PROVE q # p /\ Alone(q) /\ job'[q] = job[q]
  BY <1>2, <1>3, <1>8 DEF Alone, Transactional
<1>9. Bodies'
  <2>1. ASSUME NEW q \in Runners, Alone(q)' PROVE job'[q].row \in rows' /\ AtTheEnd(q)'
    <3>1. job[q].row \in rows /\ AtTheEnd(q) /\ job[q].row.status = "running"
      BY <1>8, <2>1 DEF Table, Bodies, Locals, Promised, Attempt, Alone
    <3>2. job[q].row \in rows' BY <1>4, <3>1
    <3> QED BY <1>3, <1>8, <2>1, <3>1, <3>2 DEF AtTheEnd
  <2>2. ASSUME NEW q \in Runners, pc'[q] = "mark"
        PROVE  \E r \in rows' : Alike(r, job'[q].row) /\ r.status # "failed"
    <3>1. q # p /\ pc[q] = "mark" /\ job'[q] = job[q] BY <1>2, <1>3, <2>2
    <3>2. PICK r \in rows : Alike(r, job[q].row) /\ r.status # "failed"
      BY <3>1 DEF Table, Bodies
    <3>3. PICK s \in rows' : Alike(r, s) /\ r.status = s.status BY <1>4
    <3> QED BY <3>1, <3>2, <3>3 DEF Alike
  <2>3. \A r, s \in rows' : r.status = "running" /\ s.status = "running" => r = s
    BY <1>4 DEF Table, Bodies
  <2> QED BY <2>1, <2>2, <2>3 DEF Bodies
<1>10. Fresh'
  <2>1. \A k : Taken(k) => Taken(k)' BY <1>4 DEF Taken, Alike
  <2>2. ASSUME NEW q \in Runners, Chosen(q)' PROVE q # p /\ Chosen(q) /\ job'[q] = job[q]
    BY <1>2, <1>3, <2>1, <2>2 DEF Chosen
  <2>3. ASSUME NEW row, Next1(rows, row) PROVE Next1(rows, row)'
    <3>1. \A s \in rows' : s.rank < row.rank /\ s.status # "running" BY <1>4, <2>3 DEF Next1, Alike
    <3>2. row.rank = 1 \/ \E s \in rows' : s.rank = row.rank - 1 BY <1>4, <2>3 DEF Next1, Alike
    <3>3. \A s \in rows' : s.status = "failed" => Whole(s.source, s.by)'
      BY <1>3, <1>4, <2>3, SchemaSame DEF Next1, Alike
    <3> QED BY <3>1, <3>2, <3>3 DEF Next1
  <2>4. ASSUME NEW q \in Runners, Chosen(q)' PROVE Next1(rows, job[q].row)'
    <3>1. PICK row : row = job[q].row OBVIOUS
    <3>2. Next1(rows, row) BY <2>2, <2>4, <3>1 DEF Table, Fresh
    <3>3. Next1(rows, row)' /\ job'[q].row = row BY <2>2, <2>3, <2>4, <3>1, <3>2
    <3> QED BY <3>3 DEF Next1
  <2>5. ASSUME NEW q \in Runners, Chosen(q)' \/ Alone(q)' PROVE After(rows', job'[q].row)
    BY <1>5, <1>8, <2>2, <2>5 DEF Table, Fresh
  <2> QED BY <2>4, <2>5 DEF Fresh
<1>11. Pieces'
  <2> SUFFICES ASSUME NEW s \in rows', s.status = "success", s.kind # "baseline" PROVE Piece(s.source, s.by)'
    BY DEF Pieces, Successes
  <2>1. PICK r \in rows : Alike(r, s) /\ r.status = s.status BY <1>4
  <2>2. Piece(r.source, r.by) BY <2>1 DEF Table, Pieces, Successes, Alike
  <2> QED BY <1>3, <2>1, <2>2, SchemaSame DEF Alike
<1>12. Owned' BY <1>1, <1>3, <1>4 DEF Table, Owned, Alike
<1>13. Atomic'
  <2> SUFFICES ASSUME engine.transacts, NEW q \in Runners, NEW e \in Entries, e.source \notin Off
               PROVE  LET attempts == {r \in rows' : r.by = q /\ r.source = e.source /\ r.kind # "baseline"} IN
                      (Part(e.source, q)' <=> attempts # {}) /\ attempts \subseteq Successes(rows')
    BY <1>3 DEF Atomic
  <2> DEFINE old == {r \in rows : r.by = q /\ r.source = e.source /\ r.kind # "baseline"}
             new == {r \in rows' : r.by = q /\ r.source = e.source /\ r.kind # "baseline"}
  <2>1. (Part(e.source, q) <=> old # {}) /\ old \subseteq Successes(rows)
    BY DEF Table, Atomic
  <2>2. old # {} <=> new # {} BY <1>4 DEF Alike
  <2>3. new \subseteq Successes(rows') BY <1>4, <2>1 DEF Successes, Alike
  <2> QED BY <1>3, <2>1, <2>2, <2>3, SchemaSame
<1>14. RanInOrder' BY <1>1, <1>3 DEF Table, RanInOrder
<1>15. Lasts
  <2>1. \A r \in Successes(rows) :
          r.kind = "baseline" => \E s \in Successes(rows') : s.kind = "baseline" /\ s.version = r.version
    BY <1>4 DEF Successes, Alike
  <2> QED BY <1>3, <2>1, SchemaSame DEF Lasts
<1> QED BY <1>4, <1>5, <1>6, <1>7, <1>9, <1>10, <1>11, <1>12, <1>13, <1>14, <1>15 DEF Table


(* A row whose status is written keeps the others apart.                    *)
LEMMA Replaced ==
    ASSUME rows \subseteq Rows, Ranked, NEW row \in rows, NEW new \in Rows, Alike(row, new),
           rows' = (rows \ {row}) \cup {new}
    PROVE  /\ rows' \subseteq Rows
           /\ \A s \in rows' : \E r \in rows : Alike(r, s)
           /\ \A r \in rows : \E s \in rows' : Alike(r, s)
           /\ \A s, t \in rows' : s.rank = t.rank => s = t
<1>1. \A r : Alike(r, r) BY DEF Alike
<1>2. \A s \in rows' : s = new \/ (s \in rows /\ s # row) OBVIOUS
<1>3. \A s \in rows : s.rank = new.rank => s = row BY DEF Ranked, Alike
<1>4. \A s, t \in rows : s.rank = t.rank => s = t BY DEF Ranked
<1>5. \A s, t \in rows' : s.rank = t.rank => s = t BY <1>2, <1>3, <1>4
<1>6. \A s \in rows' : \E r \in rows : Alike(r, s) BY <1>1, <1>2
<1>7. \A r \in rows : \E s \in rows' : Alike(r, s) BY <1>1
<1> QED BY <1>5, <1>6, <1>7

(* finish writes success on the row of a body that has run to its end.      *)
LEMMA FinishesTable ==
    ASSUME NEW p \in Runners, TypeOK, LockHeld, Locals, Table, Finishes(p)
    PROVE  Table' /\ Lasts /\ rows' \subseteq Rows
<1>0. PICK row : row = job[p].row OBVIOUS
<1> DEFINE won == [row EXCEPT !.status = "success"]
<1>1. Unrepaired' => Unrepaired BY StaysRepaired DEF Finishes
<1>2. \A q \in Runners : q # p => pc'[q] = pc[q] /\ job'[q] = job[q] /\ open'[q] = open[q]
  BY DEF Finishes, Step, Others
<1>3. /\ engine' = engine /\ schema' = schema /\ open'[p] = {} /\ Alone(p) /\ pc[p] = "body"
      /\ pc'[p] \notin {"claim", "body"} /\ (pc'[p] = "mark" => job'[p] = job[p])
  BY DEF Finishes, Step, Away, Alone
<1>4. Attempt(p, row) /\ ~Transactional(row) /\ AtTheEnd(p) /\ job[p].done = Length
  BY <1>0 DEF Locals, Promised, Alone, Finishes, Table, Bodies
<1>5. row \in rows /\ rows' = (rows \ {row}) \cup {won}
  BY <1>0, <1>3, MineIs DEF Finishes, Table
<1>6. won \in Rows /\ Alike(row, won) /\ won.status = "success" /\ won.kind # "baseline" /\ row.kind # "baseline"
      /\ row.by = p
  BY <1>4 DEF Attempt, Rows, Alike
<1> HIDE DEF won
<1>7. /\ rows' \subseteq Rows
      /\ \A s \in rows' : \E r \in rows : Alike(r, s)
      /\ \A r \in rows : \E s \in rows' : Alike(r, s)
      /\ \A s, t \in rows' : s.rank = t.rank => s = t
  BY <1>5, <1>6, Replaced DEF TypeOK, Table
<1>8. /\ Ranked' /\ OneRow'
      /\ \A r : After(rows, r) => After(rows', r)
      /\ \A k : Taken(k)' => Taken(k)
  BY <1>7, Rewritten DEF Table
<1>9. \A q \in Runners : q # p => pc[q] # "body" BY <1>3, Apart
<1>10. OpenRows' BY <1>2, <1>3, <1>9 DEF Table, OpenRows
<1>11. OneOpen' BY <1>2, <1>3 DEF Table, OneOpen
<1>12. \A q \in Runners : ~Alone(q)' BY <1>2, <1>3, <1>9 DEF Alone
<1>13. Bodies'
  <2>1. ASSUME NEW q \in Runners, pc'[q] = "mark"
        PROVE  \E r \in rows' : Alike(r, job'[q].row) /\ r.status # "failed"
    <3>1. CASE q = p
      <4>1. won \in rows' /\ Alike(won, row) /\ won.status # "failed" BY <1>5, <1>6 DEF Alike
      <4> QED BY <1>0, <1>3, <2>1, <3>1, <4>1
    <3>2. CASE q # p
      <4>1. pc[q] = "mark" /\ job'[q] = job[q] BY <1>2, <2>1, <3>2
      <4>2. PICK r \in rows : Alike(r, job[q].row) /\ r.status # "failed"
        BY <4>1 DEF Table, Bodies
      <4>3. r.by = q BY <4>1, <4>2 DEF Alike, Locals, Promised, Attempt
      <4> QED BY <1>5, <1>6, <3>2, <4>1, <4>2, <4>3
    <3> QED BY <3>1, <3>2
  <2>2. \A r, s \in rows' : r.status = "running" /\ s.status = "running" => r = s
    BY <1>5, <1>6 DEF Table, Bodies
  <2> QED BY <1>12, <2>1, <2>2 DEF Bodies
<1>14. Fresh'
  <2>1. ASSUME NEW q \in Runners, Chosen(q)' PROVE FALSE
    <3>1. q # p BY <1>3, <2>1 DEF Chosen
    <3>2. \A k : Taken(k) => Taken(k)' BY <1>7 DEF Taken, Alike
    <3>3. Chosen(q) BY <1>2, <2>1, <3>1, <3>2 DEF Chosen
    <3> QED BY <1>3, <3>3, NoneChosen DEF Table
  <2> QED BY <1>12, <2>1 DEF Fresh
<1>15. Pieces'
  <2>1. Piece(row.source, p)
    <3> DEFINE k == Len(schema) - Length + 1
    <3>1. \A i \in 1..Length : /\ Len(schema) - Length + i \in DOMAIN schema
                               /\ schema[Len(schema) - Length + i] = Body(row.source, p)[i]
      BY <1>0, <1>4 DEF AtTheEnd
    <3>2. Len(schema) \in Nat BY DEF TypeOK
    <3>3. Length \in Nat /\ 1 \in 1..Length BY DEF Length
    <3>4. \A i \in 1..Length : k + i - 1 = Len(schema) - Length + i BY <3>2, <3>3
    <3>5. k \in DOMAIN schema BY <3>1, <3>3
    <3> QED BY <3>1, <3>4, <3>5 DEF Piece
  <2>2. won.source = row.source /\ won.by = p BY <1>6 DEF Alike
  <2> QED BY <1>3, <1>5, <2>1, <2>2, SchemaSame DEF Table, Pieces, Successes
<1>16. Owned' BY <1>1, <1>3, <1>7 DEF Table, Owned, Alike
<1>17. Atomic'
  <2> SUFFICES ASSUME engine.transacts, NEW q \in Runners, NEW e \in Entries, e.source \notin Off
               PROVE  LET attempts == {r \in rows' : r.by = q /\ r.source = e.source /\ r.kind # "baseline"} IN
                      (Part(e.source, q)' <=> attempts # {}) /\ attempts \subseteq Successes(rows')
    BY <1>3 DEF Atomic
  <2>1. row.source # e.source /\ won.source # e.source
    BY <1>4, <1>6 DEF Transactional, Alike
  <2>2. {r \in rows' : r.by = q /\ r.source = e.source /\ r.kind # "baseline"}
          = {r \in rows : r.by = q /\ r.source = e.source /\ r.kind # "baseline"}
    BY <1>5, <2>1
  <2> QED BY <1>3, <2>2, SchemaSame DEF Table, Atomic, Successes
<1>18. RanInOrder' BY <1>1, <1>3 DEF Table, RanInOrder
<1>19. Lasts
  <2>1. \A r \in Successes(rows) :
          r.kind = "baseline" => \E s \in Successes(rows') : s.kind = "baseline" /\ s.version = r.version
    BY <1>5, <1>6 DEF Successes
  <2> QED BY <1>3, <2>1, SchemaSame DEF Lasts
<1> QED BY <1>7, <1>8, <1>10, <1>11, <1>13, <1>14, <1>15, <1>16, <1>17, <1>18, <1>19 DEF Table

(* fail marks the row of a body that did not, or of one whose success is    *)
(* not known: a row that was a success stays that of a whole body.          *)
LEMMA MarksTable ==
    ASSUME NEW p \in Runners, TypeOK, LockHeld, Locals, Table, Marks(p)
    PROVE  Table' /\ Lasts /\ rows' \subseteq Rows
<1>1. Unrepaired' => Unrepaired BY StaysRepaired DEF Marks
<1>2. \A q \in Runners : q # p => pc'[q] = pc[q] /\ job'[q] = job[q] /\ open'[q] = open[q]
  BY DEF Marks, Step, Others
<1>3. /\ engine' = engine /\ schema' = schema /\ open'[p] = {} /\ pc[p] = "mark"
      /\ pc'[p] \notin {"claim", "body", "mark"}
  BY DEF Marks, Step, Away
<1>4. Attempt(p, job[p].row) /\ ~Transactional(job[p].row)
  BY <1>3 DEF Locals, Promised
<1>5. PICK row \in rows : /\ Alike(row, job[p].row) /\ row.status # "failed"
                          /\ rows' = (rows \ {row}) \cup {[row EXCEPT !.status = "failed"]}
  BY <1>3, MineIs DEF Marks, Table
<1> DEFINE lost == [row EXCEPT !.status = "failed"]
<1>6. /\ lost \in Rows /\ Alike(row, lost) /\ lost.status = "failed"
      /\ lost.kind # "baseline" /\ row.kind # "baseline" /\ row.by = p
      /\ rows' = (rows \ {row}) \cup {lost}
      /\ ~Transactional(row)
  BY <1>4, <1>5 DEF Attempt, Rows, Alike, TypeOK, Transactional
<1> HIDE DEF lost
<1>7. /\ rows' \subseteq Rows
      /\ \A s \in rows' : \E r \in rows : Alike(r, s)
      /\ \A r \in rows : \E s \in rows' : Alike(r, s)
      /\ \A s, t \in rows' : s.rank = t.rank => s = t
  BY <1>5, <1>6, Replaced DEF TypeOK, Table
<1>8. /\ Ranked' /\ OneRow'
      /\ \A r : After(rows, r) => After(rows', r)
      /\ \A k : Taken(k)' => Taken(k)
  BY <1>7, Rewritten DEF Table
<1>9. \A k : Taken(k) => Taken(k)' BY <1>7 DEF Taken, Alike
<1>10. OpenRows' BY <1>2, <1>3 DEF Table, OpenRows, Transactional
<1>11. OneOpen' BY <1>2, <1>3 DEF Table, OneOpen
<1>12. ASSUME NEW q \in Runners, Alone(q)' PROVE q # p /\ Alone(q) /\ job'[q] = job[q]
  BY <1>2, <1>3, <1>12 DEF Alone, Transactional
<1>13. ASSUME NEW q \in Runners, Chosen(q)' PROVE q # p /\ Chosen(q) /\ job'[q] = job[q]
  BY <1>2, <1>3, <1>9, <1>13 DEF Chosen
<1>14. Bodies'
  <2>1. ASSUME NEW q \in Runners, Alone(q)' PROVE job'[q].row \in rows' /\ AtTheEnd(q)'
    <3>1. q # p /\ job'[q] = job[q] /\ job[q].row \in rows /\ AtTheEnd(q) /\ job[q].row.by = q
      BY <1>12, <2>1 DEF Table, Bodies, Locals, Promised, Attempt, Alone
    <3> QED BY <1>3, <1>6, <3>1 DEF AtTheEnd
  <2>2. ASSUME NEW q \in Runners, pc'[q] = "mark"
        PROVE  \E r \in rows' : Alike(r, job'[q].row) /\ r.status # "failed"
    <3>1. q # p /\ pc[q] = "mark" /\ job'[q] = job[q] BY <1>2, <1>3, <2>2
    <3>2. PICK r \in rows : Alike(r, job[q].row) /\ r.status # "failed"
      BY <3>1 DEF Table, Bodies
    <3>3. r.by = q BY <3>1, <3>2 DEF Alike, Locals, Promised, Attempt
    <3> QED BY <1>6, <3>1, <3>2, <3>3
  <2>3. \A r, s \in rows' : r.status = "running" /\ s.status = "running" => r = s
    BY <1>6 DEF Table, Bodies
  <2> QED BY <2>1, <2>2, <2>3 DEF Bodies
<1>15. Fresh'
  <2>1. ASSUME NEW q \in Runners, Chosen(q)' PROVE Next1(rows, job[q].row)'
    <3>1. PICK next : next = job[q].row OBVIOUS
    <3>2. Next1(rows, next) /\ job'[q].row = next BY <1>13, <2>1, <3>1 DEF Table, Fresh
    <3>3. Whole(row.source, p)
      <4>1. row.status = "success" BY <1>5, <3>2 DEF Next1, TypeOK, Rows
      <4>2. Piece(row.source, p) BY <1>6, <4>1 DEF Table, Pieces, Successes
      <4> QED BY <4>2 DEF Piece, Whole, Took
    <3>4. \A s \in rows' : s.rank < next.rank /\ s.status # "running"
      BY <1>6, <3>2 DEF Next1, Alike
    <3>5. next.rank = 1 \/ \E s \in rows' : s.rank = next.rank - 1 BY <1>7, <3>2 DEF Next1, Alike
    <3>6. \A s \in rows' : s.status = "failed" => Whole(s.source, s.by)'
      <4>1. lost.source = row.source /\ lost.by = p BY <1>6 DEF Alike
      <4> QED BY <1>3, <1>6, <3>2, <3>3, <4>1, SchemaSame DEF Next1
    <3> QED BY <3>2, <3>4, <3>5, <3>6 DEF Next1
  <2>2. ASSUME NEW q \in Runners, Chosen(q)' \/ Alone(q)' PROVE After(rows', job'[q].row)
    BY <1>8, <1>12, <1>13, <2>2 DEF Table, Fresh
  <2> QED BY <2>1, <2>2 DEF Fresh
<1>16. Pieces' BY <1>3, <1>6, SchemaSame DEF Table, Pieces, Successes
<1>17. Owned' BY <1>1, <1>3, <1>7 DEF Table, Owned, Alike
<1>18. Atomic'
  <2> SUFFICES ASSUME engine.transacts, NEW q \in Runners, NEW e \in Entries, e.source \notin Off
               PROVE  LET attempts == {r \in rows' : r.by = q /\ r.source = e.source /\ r.kind # "baseline"} IN
                      (Part(e.source, q)' <=> attempts # {}) /\ attempts \subseteq Successes(rows')
    BY <1>3 DEF Atomic
  <2>1. row.source # e.source /\ lost.source # e.source
    BY <1>6 DEF Transactional, Alike
  <2>2. {r \in rows' : r.by = q /\ r.source = e.source /\ r.kind # "baseline"}
          = {r \in rows : r.by = q /\ r.source = e.source /\ r.kind # "baseline"}
    BY <1>6, <2>1
  <2> QED BY <1>3, <2>2, SchemaSame DEF Table, Atomic, Successes
<1>19. RanInOrder' BY <1>1, <1>3 DEF Table, RanInOrder
<1>20. Lasts
  <2>1. \A r \in Successes(rows) :
          r.kind = "baseline" => \E s \in Successes(rows') : s.kind = "baseline" /\ s.version = r.version
    BY <1>6 DEF Successes
  <2> QED BY <1>3, <2>1, SchemaSame DEF Lasts
<1> QED BY <1>7, <1>8, <1>10, <1>11, <1>14, <1>15, <1>16, <1>17, <1>18, <1>19, <1>20 DEF Table

(* baseline puts its row below every rank that was chosen meanwhile.        *)
LEMMA BaselinesTable ==
    ASSUME NEW p \in Runners, TypeOK, LockHeld, Locals, Table, Baselines(p)
    PROVE  Table' /\ Lasts /\ rows' \subseteq Rows
<1>1. Unrepaired' => Unrepaired BY StaysRepaired DEF Baselines
<1>2. \A q \in Runners : q # p => pc'[q] = pc[q] /\ job'[q] = job[q] /\ open'[q] = open[q]
  BY DEF Baselines, Step, Others
<1>3. /\ engine' = engine /\ schema' = schema /\ open'[p] = {} /\ pc[p] = "baseline"
      /\ pc'[p] \notin {"claim", "body", "mark"}
  BY DEF Baselines, Step, Away
<1>4. PICK row \in Rows : /\ row.rank = 1 /\ row.kind = "baseline" /\ row.status = "success" /\ OfEntry(row)
                          /\ rows' = rows \cup {row}
  BY DEF Baselines
<1>5. \A r \in rows : r.rank # 1 BY DEF Baselines, Taken
<1>6. rows' \subseteq Rows BY <1>4 DEF TypeOK
<1>7. Ranked'
  <2>1. \A r, s \in rows' : r.rank = s.rank => r = s
    BY <1>4, <1>5 DEF Table, Ranked
  <2>2. Bounded(rows')
    <3>1. PICK n \in Nat : \A r \in rows : r.rank <= n /\ r.version <= n
      BY DEF Table, Ranked, Bounded
    <3>2. \A r \in rows' : r.rank \in Nat /\ r.version \in Nat BY <1>6 DEF Rows
    <3>3. row.version \in Nat BY DEF Rows
    <3>4. n + 1 + row.version \in Nat BY <3>3
    <3>5. \A r \in rows' : r.rank <= n + 1 + row.version /\ r.version <= n + 1 + row.version
      BY <1>4, <3>1, <3>2, <3>3
    <3> QED BY <3>4, <3>5 DEF Bounded
  <2>3. \A r \in rows' : OfEntry(r) BY <1>4 DEF Table, Ranked
  <2> QED BY <2>1, <2>2, <2>3 DEF Ranked
<1>8. OpenRows' BY <1>2, <1>3 DEF Table, OpenRows, Transactional
<1>9. OneOpen' BY <1>2, <1>3 DEF Table, OneOpen
<1>10. ASSUME NEW q \in Runners, Alone(q)' PROVE q # p /\ Alone(q) /\ job'[q] = job[q]
  BY <1>2, <1>3, <1>10 DEF Alone, Transactional
<1>11. \A q \in Runners : open[q] = {}
  <2> SUFFICES ASSUME NEW q \in Runners, open[q] # {} PROVE FALSE
    OBVIOUS
  <2>1. pc[q] = "body" /\ engine.transacts BY DEF Table, OpenRows, Transactional
  <2>2. q # p BY <1>3, <2>1
  <2>3. engine.locks \/ engine.busy BY <2>1, MigrateConstants DEF TypeOK
  <2> QED BY <1>3, <2>1, <2>2, <2>3 DEF LockHeld, Inside, Baselines, Refused
<1>12. ASSUME NEW q \in Runners, Chosen(q)'
       PROVE  q # p /\ Chosen(q) /\ job'[q] = job[q] /\ job[q].row.rank # 1
  <2>1. open'[q] = {} BY <1>2, <1>3, <1>11
  <2>2. pc'[q] = "claim" /\ ~Taken(job[q].row.rank)' BY <2>1, <1>12 DEF Chosen
  <2>3. q # p /\ pc[q] = "claim" /\ job'[q] = job[q] BY <1>2, <1>3, <2>2
  <2>4. PICK k : k = job[q].row.rank OBVIOUS
  <2>5. \A r \in rows' : r.rank # k BY <2>2, <2>3, <2>4 DEF Taken
  <2> QED BY <1>4, <2>3, <2>4, <2>5 DEF Chosen, Taken
<1>13. Bodies'
  <2>1. ASSUME NEW q \in Runners, Alone(q)' PROVE job'[q].row \in rows' /\ AtTheEnd(q)'
    BY <1>3, <1>4, <1>10, <2>1 DEF Table, Bodies, AtTheEnd
  <2>2. ASSUME NEW q \in Runners, pc'[q] = "mark"
        PROVE  \E r \in rows' : Alike(r, job'[q].row) /\ r.status # "failed"
    BY <1>2, <1>3, <1>4, <2>2 DEF Table, Bodies
  <2>3. \A r, s \in rows' : r.status = "running" /\ s.status = "running" => r = s
    BY <1>4 DEF Table, Bodies
  <2> QED BY <2>1, <2>2, <2>3 DEF Bodies
<1>14. Fresh'
  <2>1. ASSUME NEW q \in Runners, Chosen(q)' PROVE Next1(rows, job[q].row)'
    <3>1. PICK next : next = job[q].row OBVIOUS
    <3>2. Next1(rows, next) /\ job'[q].row = next /\ next.rank # 1 BY <1>12, <2>1, <3>1 DEF Table, Fresh
    <3>3. \E r \in rows : r.rank = next.rank - 1 /\ r.rank \in Nat \ {0} /\ r.rank < next.rank
      BY <3>2 DEF Next1, TypeOK, Rows
    <3>4. \A r \in rows' : r.rank < next.rank /\ r.status # "running"
      <4>1. next.rank \in Nat
        <5>1. Attempt(q, next) BY <1>2, <1>12, <2>1, <3>1, <1>11 DEF Chosen, Locals, Promised
        <5> QED BY <5>1 DEF Attempt, Rows
      <4>2. \E r \in rows : r.rank \in Nat \ {0} /\ r.rank < next.rank BY <3>3
      <4>3. 1 < next.rank BY <4>1, <4>2
      <4> QED BY <1>4, <3>2, <4>3 DEF Next1
    <3>5. \E r \in rows' : r.rank = next.rank - 1 BY <1>4, <3>3
    <3>6. \A r \in rows' : r.status = "failed" => Whole(r.source, r.by)'
      BY <1>3, <1>4, <3>2, SchemaSame DEF Next1
    <3> QED BY <3>2, <3>4, <3>5, <3>6 DEF Next1
  <2>2. \A r : After(rows, r) => After(rows', r) BY <1>4 DEF After
  <2>3. ASSUME NEW q \in Runners, Chosen(q)' \/ Alone(q)' PROVE After(rows', job'[q].row)
    BY <1>10, <1>12, <2>2, <2>3 DEF Table, Fresh
  <2> QED BY <2>1, <2>3 DEF Fresh
<1>15. Pieces' BY <1>3, <1>4, SchemaSame DEF Table, Pieces, Successes
<1>16. OneRow' BY <1>4 DEF Table, OneRow, RankedInOrder
<1>17. Owned' BY <1>1, <1>3, <1>4 DEF Table, Owned
<1>18. Atomic'
  <2> SUFFICES ASSUME engine.transacts, NEW q \in Runners, NEW e \in Entries, e.source \notin Off
               PROVE  LET attempts == {r \in rows' : r.by = q /\ r.source = e.source /\ r.kind # "baseline"} IN
                      (Part(e.source, q)' <=> attempts # {}) /\ attempts \subseteq Successes(rows')
    BY <1>3 DEF Atomic
  <2>1. {r \in rows' : r.by = q /\ r.source = e.source /\ r.kind # "baseline"}
          = {r \in rows : r.by = q /\ r.source = e.source /\ r.kind # "baseline"}
    BY <1>4
  <2> QED BY <1>3, <2>1, SchemaSame DEF Table, Atomic, Successes
<1>19. RanInOrder' BY <1>1, <1>3 DEF Table, RanInOrder
<1>20. Lasts BY <1>3, <1>4, SchemaSame DEF Lasts, Successes
<1> QED BY <1>6, <1>7, <1>8, <1>9, <1>13, <1>14, <1>15, <1>16, <1>17, <1>18, <1>19, <1>20 DEF Table

(* A repair meets no program at work: the lock, the transaction of another  *)
(* one, or the inspection before it keeps them apart.                      *)
LEMMA RepairsTable ==
    ASSUME NEW p \in Runners, TypeOK, LockHeld, Locals, Table, Repairs(p)
    PROVE  Table' /\ Lasts /\ rows' \subseteq Rows
<1>1. \A q \in Runners : q # p => pc'[q] = pc[q] /\ job'[q] = job[q] /\ open'[q] = open[q]
  BY DEF Repairs, Step, Others
<1>2. /\ engine' = engine /\ schema' = schema /\ open'[p] = {} /\ pc[p] = "repair"
      /\ pc'[p] \notin {"claim", "body", "mark"} /\ rows' = Successes(rows)
  BY DEF Repairs, Step, Away
<1>3. ~Unrepaired'
  <2>1. job[p].op = "repair" BY <1>2 DEF Locals, Promised
  <2>2. job'[p].op = "repair" BY <2>1 DEF Repairs, Step
  <2> QED BY <2>2 DEF Unrepaired
<1>4. ASSUME NEW q \in Runners PROVE ~Alone(q) /\ open[q] = {} /\ pc[q] # "claim"
  <2>1. CASE engine.locks
    <3>1. q # p => pc[q] \notin Inside BY <1>2, <2>1 DEF LockHeld, Inside
    <3>2. pc[q] \notin {"claim", "body"} BY <1>2, <3>1 DEF Inside
    <3> QED BY <3>2 DEF Alone, Table, OpenRows
  <2>2. CASE ~engine.locks
    <3>1. Inspected BY <2>2 DEF Repairs
    <3>2. ~Alone(q)
      <4> SUFFICES ASSUME Alone(q) PROVE FALSE
        OBVIOUS
      <4>1. job[q].row \in rows /\ job[q].row.status = "running" /\ job[q].row.by = q /\ pc[q] = "body"
        BY DEF Table, Bodies, Alone, Locals, Promised, Attempt
      <4> QED BY <3>1, <4>1 DEF Inspected
    <3>3. open[q] = {}
      <4> SUFFICES ASSUME open[q] # {} PROVE FALSE
        OBVIOUS
      <4>1. pc[q] = "body" /\ engine.transacts BY DEF Table, OpenRows, Transactional
      <4>2. q # p BY <1>2, <4>1
      <4>3. engine.busy BY <2>2, <4>1, MigrateConstants DEF TypeOK
      <4> QED BY <4>2, <4>3 DEF Repairs, Refused
    <3> QED BY <3>1, <3>2, <3>3 DEF Inspected
  <2> QED BY <2>1, <2>2
<1>5. /\ rows' \subseteq Rows
      /\ \A s \in rows' : \E r \in rows : Alike(r, s)
      /\ \A s, t \in rows' : s.rank = t.rank => s = t
  BY <1>2 DEF Successes, Alike, TypeOK, Table, Ranked
<1>6. Ranked' /\ OneRow' BY <1>5, Rewritten DEF Table
<1>7. \A q \in Runners : ~Alone(q)' /\ open'[q] = {} /\ pc'[q] \notin {"claim", "body"}
  <2>1. \A q \in Runners : pc[q] # "body" BY <1>4 DEF Table, OpenRows, Alone
  <2> QED BY <1>1, <1>2, <1>4, <2>1 DEF Alone, Transactional
<1>8. OpenRows' BY <1>7 DEF OpenRows
<1>9. OneOpen' BY <1>7 DEF OneOpen
<1>10. Bodies'
  <2>1. ASSUME NEW q \in Runners, pc'[q] = "mark"
        PROVE  \E r \in rows' : Alike(r, job'[q].row) /\ r.status # "failed"
    <3>1. q # p /\ pc[q] = "mark" /\ job'[q] = job[q] BY <1>1, <1>2, <2>1
    <3>2. PICK r \in rows : Alike(r, job[q].row) /\ r.status # "failed"
      BY <3>1 DEF Table, Bodies
    <3>3. r.by = q BY <3>1, <3>2 DEF Alike, Locals, Promised, Attempt
    <3>4. ~engine.locks BY <1>2, <3>1 DEF LockHeld, Inside
    <3>5. r.status # "running" BY <3>1, <3>3, <3>4 DEF Repairs, Inspected
    <3>6. r.status = "success" BY <3>2, <3>5 DEF TypeOK, Rows
    <3> QED BY <1>2, <3>1, <3>2, <3>6 DEF Successes
  <2>2. \A r, s \in rows' : r.status = "running" /\ s.status = "running" => r = s
    BY <1>2 DEF Successes
  <2> QED BY <1>7, <2>1, <2>2 DEF Bodies
<1>11. Fresh' BY <1>7 DEF Fresh, Chosen
<1>12. Pieces' BY <1>2, SchemaSame DEF Table, Pieces, Successes
<1>13. Owned' /\ RanInOrder' BY <1>3 DEF Owned, RanInOrder
<1>14. Atomic'
  <2> SUFFICES ASSUME engine.transacts, NEW q \in Runners, NEW e \in Entries, e.source \notin Off
               PROVE  LET attempts == {r \in rows' : r.by = q /\ r.source = e.source /\ r.kind # "baseline"} IN
                      (Part(e.source, q)' <=> attempts # {}) /\ attempts \subseteq Successes(rows')
    BY <1>2 DEF Atomic
  <2>1. {r \in rows : r.by = q /\ r.source = e.source /\ r.kind # "baseline"} \subseteq Successes(rows)
    BY DEF Table, Atomic
  <2>2. {r \in rows' : r.by = q /\ r.source = e.source /\ r.kind # "baseline"}
          = {r \in rows : r.by = q /\ r.source = e.source /\ r.kind # "baseline"}
    BY <1>2, <2>1 DEF Successes
  <2> QED BY <1>2, <2>2, SchemaSame DEF Table, Atomic, Successes
<1>15. Lasts BY <1>2, SchemaSame DEF Lasts, Successes
<1> QED BY <1>5, <1>6, <1>8, <1>9, <1>10, <1>11, <1>12, <1>13, <1>14, <1>15 DEF Table

(* The kinds of step that leave the schema and only add rows.               *)
LEMMA StillLasts ==
    ASSUME NEW p \in Runners, Still(p) \/ Chooses(p) \/ ClaimsOpen(p) \/ ClaimsAlone(p) \/ Fails(p)
    PROVE  Lasts
<1>1. schema' = schema /\ rows \subseteq rows'
  BY DEF Still, Chooses, ClaimsOpen, ClaimsAlone, Claims, Fails
<1> QED BY <1>1, SchemaSame DEF Lasts, Successes
-----------------------------------------------------------------------------
(* A step of p leads to label l with locals j. What it does to the lock,    *)
(* and what the state is otherwise made of.                                *)
Locked(p, l) ==
    \/ lock' = lock /\ (l \in Inside => pc[p] \in Inside)
    \/ (engine.locks => lock = Null) /\ lock' = IF engine.locks THEN p ELSE Null
    \/ l \notin Inside /\ lock' = IF lock = p THEN Null ELSE lock
Data ==
    /\ table \in BOOLEAN /\ rows \subseteq Rows /\ open \in [Runners -> SUBSET Rows]
    /\ schema \in Seq(Nat \X Runners \X (1..Length))
    /\ faults \in 0..MaxFaults[engine]

(* What the typing of the parts of a step gives for all of it.             *)
LEMMA Typed ==
    ASSUME NEW p \in Runners, NEW l \in Labels, NEW j \in Jobs, TypeOK, Goto(p, l, j)
    PROVE  /\ pc' \in [Runners -> Labels] /\ job' \in [Runners -> Jobs]
           /\ pc'[p] = l /\ job'[p] = j
           /\ \A q \in Runners : q # p => pc'[q] = pc[q] /\ job'[q] = job[q]
BY DEF TypeOK, Goto

(* The lock is held by the program it lets in, and by no other.             *)
LEMMA LockStays ==
    ASSUME NEW p \in Runners, NEW l, TypeOK, LockHeld, Locked(p, l), engine' = engine, pc'[p] = l,
           \A q \in Runners : q # p => pc'[q] = pc[q]
    PROVE  LockHeld' /\ lock' \in Runners \cup {Null}
<1>1. lock' \in Runners \cup {Null} BY DEF Locked, TypeOK
<1>2. LockHeld'
  <2> SUFFICES ASSUME engine.locks, NEW q \in Runners, pc'[q] \in Inside PROVE lock' = q
    BY DEF LockHeld
  <2>1. CASE q = p
    BY <2>1 DEF Locked, LockHeld
  <2>2. CASE q # p
    <3>1. lock = q BY <2>2 DEF LockHeld
    <3>2. lock # Null /\ lock # p BY <2>2, <3>1, MigrateConstants
    <3> QED BY <3>1, <3>2 DEF Locked
  <2> QED BY <2>1, <2>2
<1> QED BY <1>1, <1>2

(* A promise is about a program and its own locals.                        *)
LEMMA PromisesStay ==
    ASSUME NEW p \in Runners, Locals, engine' = engine, Promised(p, pc'[p], job'[p]),
           \A q \in Runners : q # p => pc'[q] = pc[q] /\ job'[q] = job[q]
    PROVE  Locals'
<1>1. \A q \in Runners : Promised(q, pc'[q], job'[q]) BY DEF Locals
<1>2. \A q \in Runners : Promised(q, pc[q], job[q])' <=> Promised(q, pc'[q], job'[q])
  BY DEF Promised, Transactional, Attempt, OfEntry
<1> QED BY <1>1, <1>2 DEF Locals

(* What Resolved says of p.                                                *)
ResolvedAt(p) ==
    pc[p] = "done" /\ job[p].op \in {"apply", "verify"} =>
        \A e \in job[p].manifest.versioned :
            \/ e.version <= BaselineVersion(rows)
            \/ \E f \in Entries, q \in Runners :
                 f.version = e.version /\ f.sum = e.sum /\ Whole(f.source, q)

(* What a report read, and what it resolved on, lasts.                     *)
LEMMA ReportsLast ==
    ASSUME NEW p \in Runners, TypeOK, TypeOK', Table, Table', Lasts, SeenHolds, Resolved,
           SeenAt(p)', ResolvedAt(p)',
           \A q \in Runners : q # p => pc'[q] = pc[q] /\ job'[q] = job[q]
    PROVE  SeenHolds' /\ Resolved'
<1>1. SeenHolds'
  <2> SUFFICES ASSUME NEW q \in Runners, q # p, pc'[q] = "verdict", job'[q].seen # Null
               PROVE  /\ Bounded(job'[q].seen)
                      /\ \A r \in job'[q].seen : OfEntry(r)
                      /\ \A r \in Successes(job'[q].seen) : r.kind # "baseline" => Whole(r.source, r.by)'
                      /\ \A r \in Successes(job'[q].seen) :
                           r.kind = "baseline" => \E s \in Successes(rows') : s.kind = "baseline" /\ s.version = r.version
    BY DEF SeenHolds, SeenAt, Bounded, OfEntry
  <2>1. PICK seen : seen = job[q].seen OBVIOUS
  <2>2. pc[q] = "verdict" /\ seen # Null /\ job'[q].seen = seen BY <2>1
  <2>3. /\ Bounded(seen) /\ \A r \in seen : OfEntry(r)
        /\ \A r \in Successes(seen) : r.kind # "baseline" => Whole(r.source, r.by)
        /\ \A r \in Successes(seen) :
             r.kind = "baseline" => \E s \in Successes(rows) : s.kind = "baseline" /\ s.version = r.version
    BY <2>1, <2>2 DEF SeenHolds, SeenAt
  <2>4. ASSUME NEW r \in Successes(seen), r.kind = "baseline"
        PROVE  \E s \in Successes(rows') : s.kind = "baseline" /\ s.version = r.version
    <3>1. PICK s \in Successes(rows) : s.kind = "baseline" /\ s.version = r.version BY <2>3, <2>4
    <3>2. PICK t \in Successes(rows') : t.kind = "baseline" /\ t.version = s.version BY <3>1 DEF Lasts
    <3> QED BY <3>1, <3>2
  <2>5. \A r \in Successes(seen) : r.kind # "baseline" => Whole(r.source, r.by)' BY <2>3 DEF Lasts
  <2> QED BY <2>2, <2>3, <2>4, <2>5
<1>2. BaselineVersion(rows) \in Nat /\ BaselineVersion(rows') \in Nat /\ BaselineVersion(rows) <= BaselineVersion(rows')
  <2>1. PICK m \in Nat : \A r \in rows : r.version <= m BY DEF Table, Ranked, Bounded
  <2>2. PICK n \in Nat : \A r \in rows' : r.version <= n BY DEF Table, Ranked, Bounded
  <2>3. rows \subseteq Rows /\ rows' \subseteq Rows BY DEF TypeOK
  <2>4. /\ BaselineVersion(rows) \in Nat
        /\ \/ BaselineVersion(rows) = 0
           \/ \E r \in Successes(rows) : r.kind = "baseline" /\ r.version = BaselineVersion(rows)
    BY <2>1, <2>3, BaselineIs
  <2>5. /\ BaselineVersion(rows') \in Nat
        /\ \A r \in Successes(rows') : r.kind = "baseline" => r.version <= BaselineVersion(rows')
    BY <2>2, <2>3, BaselineIs
  <2>6. CASE BaselineVersion(rows) = 0
    BY <2>5, <2>6
  <2>7. CASE \E r \in Successes(rows) : r.kind = "baseline" /\ r.version = BaselineVersion(rows)
    <3>1. \E s \in Successes(rows') : s.kind = "baseline" /\ s.version = BaselineVersion(rows)
      BY <2>7 DEF Lasts
    <3> QED BY <2>4, <2>5, <3>1
  <2> QED BY <2>4, <2>5, <2>6, <2>7
<1>3. Resolved'
  <2> SUFFICES ASSUME NEW q \in Runners, q # p, pc'[q] = "done", job'[q].op \in {"apply", "verify"},
                      NEW e \in job'[q].manifest.versioned
               PROVE  \/ e.version <= BaselineVersion(rows')
                      \/ \E f \in Entries, r \in Runners :
                           f.version = e.version /\ f.sum = e.sum /\ Whole(f.source, r)'
    BY DEF Resolved, ResolvedAt
  <2>1. pc[q] = "done" /\ job'[q] = job[q] OBVIOUS
  <2>2. \/ e.version <= BaselineVersion(rows)
        \/ \E f \in Entries, r \in Runners : f.version = e.version /\ f.sum = e.sum /\ Whole(f.source, r)
    BY <2>1 DEF Resolved
  <2>3. e.version \in Nat
    <3>1. job'[q].manifest \in Manifests BY DEF TypeOK, Jobs
    <3> QED BY <3>1, ManifestConstants DEF Entry
  <2>4. e.version <= BaselineVersion(rows) => e.version <= BaselineVersion(rows') BY <1>2, <2>3
  <2> QED BY <2>2, <2>4 DEF Lasts
<1> QED BY <1>1, <1>3

(* What is left to show of a step whose kind is known.                     *)
LEMMA MovedOn ==
    ASSUME NEW p \in Runners, NEW l \in Labels, NEW j \in Jobs, IInv, Goto(p, l, j), engine' = engine,
           Promised(p, l, j), Locked(p, l), Data', Table', Lasts, SeenAt(p)', ResolvedAt(p)'
    PROVE  IInv'
<1> USE DEF IInv
<1>1. /\ pc' \in [Runners -> Labels] /\ job' \in [Runners -> Jobs]
      /\ pc'[p] = l /\ job'[p] = j
      /\ \A q \in Runners : q # p => pc'[q] = pc[q] /\ job'[q] = job[q]
  BY Typed
<1>2. LockHeld' /\ lock' \in Runners \cup {Null} BY <1>1, LockStays
<1>3. Locals' BY <1>1, PromisesStay
<1>4. TypeOK' BY <1>1, <1>2 DEF Data, TypeOK
<1>5. SeenHolds' /\ Resolved' BY <1>1, <1>4, ReportsLast
<1> QED BY <1>2, <1>3, <1>4, <1>5

(* The whole invariant after a step of a kind that keeps the table.        *)
LEMMA Moved ==
    ASSUME NEW p \in Runners, NEW l \in Labels, NEW j \in Jobs, IInv, Goto(p, l, j), engine' = engine,
           Promised(p, l, j), Locked(p, l), Data', Table', Lasts,
           l # "verdict", l = "done" => j.op \notin {"apply", "verify"}
    PROVE  IInv'
<1>1. pc'[p] = l /\ job'[p] = j BY Typed DEF IInv
<1>2. SeenAt(p)' /\ ResolvedAt(p)' BY <1>1 DEF SeenAt, ResolvedAt
<1> QED BY <1>2, MovedOn

(* A step that leaves the table alone, outside the body of p.               *)
LEMMA StillMoved ==
    ASSUME NEW p \in Runners, NEW l \in Labels \ {"claim", "body", "mark", "verdict"}, NEW j \in Jobs,
           IInv, Goto(p, l, j), UNCHANGED <<engine, rows, schema>>,
           Promised(p, l, j), Locked(p, l), j.op = job[p].op \/ job[p].op = "apply",
           table' \in BOOLEAN, faults' \in 0..MaxFaults[engine],
           (UNCHANGED open /\ open[p] = {}) \/ open' = [open EXCEPT ![p] = {}],
           l = "done" => j.op \notin {"apply", "verify"}
    PROVE  IInv'
<1>1. /\ pc'[p] = l /\ job'[p] = j
      /\ \A q \in Runners : q # p => pc'[q] = pc[q] /\ job'[q] = job[q]
  BY Typed DEF IInv
<1>2. Still(p) BY <1>1 DEF IInv, TypeOK, Still, Step, Others, Away
<1>3. Table' BY <1>2, StillTable DEF IInv
<1>4. Lasts BY <1>2, StillLasts
<1>5. Data' BY DEF IInv, TypeOK, Data
<1> QED BY <1>3, <1>4, <1>5, Moved
-----------------------------------------------------------------------------
(* What the steps have in common: idle locals, faults, failed callbacks.    *)
LEMMA IdleIs == Idle \in Jobs /\ Idle.op = "apply"
<1>1. (CHOOSE m \in Manifests : TRUE) \in Manifests BY ManifestConstants
<1> QED BY <1>1 DEF Idle, Jobs, Length

(* The locals of a program are a record of these fields.                   *)
LEMMA JobIs ==
    ASSUME NEW p \in Runners, IInv
    PROVE  job[p] \in Jobs /\ job[p].op \in Ops \cup {"apply"}
BY DEF IInv, TypeOK, Jobs

(* A fault is counted, and the count stays within its bound.               *)
LEMMA FaultIs ==
    ASSUME TypeOK, UNCHANGED faults \/ Fault
    PROVE  faults' \in 0..MaxFaults[engine]
<1>1. MaxFaults[engine] \in Nat /\ faults \in Nat /\ faults <= MaxFaults[engine]
  BY MigrateConstants DEF TypeOK
<1> QED BY <1>1 DEF Fault

(* A program that ends, by crash or error, leaves the invariant as it is.  *)
LEMMA Ends ==
    ASSUME NEW p \in Runners, NEW l \in {"leave", "failed", "crashed"},
           IInv, Goto(p, l, [Idle EXCEPT !.op = job[p].op, !.ok = FALSE]),
           UNCHANGED <<engine, rows, schema>>, Locked(p, l),
           table' \in BOOLEAN, UNCHANGED faults \/ Fault,
           (UNCHANGED open /\ open[p] = {}) \/ open' = [open EXCEPT ![p] = {}]
    PROVE  IInv'
<1>0. PICK j : j = [Idle EXCEPT !.op = job[p].op, !.ok = FALSE] OBVIOUS
<1>1. j \in Jobs /\ j.op = job[p].op /\ j.ok = FALSE BY <1>0, JobIs, IdleIs DEF Jobs
<1>2. Promised(p, l, j) BY <1>1 DEF Promised
<1>3. faults' \in 0..MaxFaults[engine] BY FaultIs DEF IInv
<1>4. l \in Labels \ {"claim", "body", "mark", "verdict", "done"} BY DEF Labels
<1> QED BY <1>0, <1>1, <1>2, <1>3, <1>4, StillMoved

(* A callback that throws without effect outside a body.                    *)
LEMMA Throws ==
    ASSUME NEW p \in Runners, IInv, Throw(p), pc[p] # "body",
           UNCHANGED <<engine, table, rows, schema, lock, open>>, UNCHANGED faults \/ Fault
    PROVE  IInv'
<1>1. Locked(p, "leave") BY DEF Locked, Inside
<1>2. open[p] = {} BY DEF IInv, Table, OpenRows
<1>3. table' \in BOOLEAN BY DEF IInv, TypeOK
<1> QED BY <1>1, <1>2, <1>3, Ends DEF Throw

(* A step that goes from label to label.                                   *)
LEMMA Passes ==
    ASSUME NEW p \in Runners, NEW l \in Labels \ {"claim", "body", "mark", "verdict"}, NEW j \in Jobs,
           IInv, Goto(p, l, j), pc[p] # "body", UNCHANGED <<engine, table, rows, schema, open>>,
           Promised(p, l, j), Locked(p, l), j.op = job[p].op \/ job[p].op = "apply",
           UNCHANGED faults \/ Fault,
           l = "done" => j.op \notin {"apply", "verify"}
    PROVE  IInv'
<1>1. open[p] = {} BY DEF IInv, Table, OpenRows
<1>2. table' \in BOOLEAN BY DEF IInv, TypeOK
<1>3. faults' \in 0..MaxFaults[engine] BY FaultIs DEF IInv
<1> QED BY <1>1, <1>2, <1>3, StillMoved

(* A program starts an operation with a manifest and an option.            *)
LEMMA StartHolds ==
    ASSUME NEW p \in Runners, IInv, Start(p)
    PROVE  IInv'
<1>1. PICK op \in Ops, m \in Manifests :
        Goto(p, CASE op = "apply" -> "before" [] op = "verify" -> "report" [] OTHER -> "enter",
             [Idle EXCEPT !.op = op, !.manifest = m])
  <2>1. Idle.manifest \in Manifests BY IdleIs DEF Jobs
  <2> QED BY <2>1 DEF Start
<1>0. PICK j : j = [Idle EXCEPT !.op = op, !.manifest = m] OBVIOUS
<1>2. j \in Jobs /\ j.op = op BY <1>0, IdleIs DEF Jobs
<1>3. PICK l : l = CASE op = "apply" -> "before" [] op = "verify" -> "report" [] OTHER -> "enter"
  OBVIOUS
<1>4. l \in {"before", "report", "enter"} /\ (op = "verify" => l = "report")
  BY <1>3
<1>5. Goto(p, l, j) BY <1>0, <1>1, <1>3
<1>6. Promised(p, l, j) BY <1>2, <1>4 DEF Promised
<1>7. job[p].op = "apply" /\ pc[p] = "new" BY DEF Start, IInv, Locals, Promised
<1>8. Locked(p, l) BY <1>4 DEF Start, Locked, Inside
<1>9. l \in Labels \ {"claim", "body", "mark", "verdict"} /\ l # "done" BY <1>4 DEF Labels
<1> QED BY <1>2, <1>5, <1>6, <1>7, <1>8, <1>9, Passes DEF Start

(* The report, compared with the recorded hash (verify).                   *)
LEMMA ComparedHolds ==
    ASSUME NEW p \in Runners, IInv, Compared(p)
    PROVE  IInv'
<1>1. CASE Stop(p, "failed")
  <2>1. Locked(p, "failed") BY DEF Compared, Locked, Inside
  <2>2. open[p] = {} BY DEF Compared, IInv, Table, OpenRows
  <2>3. table' \in BOOLEAN BY DEF Compared, IInv, TypeOK
  <2> QED BY <1>1, <2>1, <2>2, <2>3, Ends DEF Compared, Stop
<1>2. CASE Goto(p, "enter", [job[p] EXCEPT !.seen = Null])
  <2>0. PICK j : j = [job[p] EXCEPT !.seen = Null] OBVIOUS
  <2>1. j \in Jobs /\ j.op = job[p].op BY <2>0, JobIs DEF Jobs
  <2>2. Promised(p, "enter", j) BY <2>1 DEF Compared, IInv, Locals, Promised
  <2>3. Locked(p, "enter") BY DEF Compared, Locked, Inside
  <2> QED BY <1>2, <2>0, <2>1, <2>2, <2>3, Passes DEF Compared, Labels
<1> QED BY <1>1, <1>2 DEF Compared

(* withLock: the program takes the lock, or goes in where the engine has   *)
(* none.                                                                   *)
LEMMA EnterHolds ==
    ASSUME NEW p \in Runners, IInv, Enter(p)
    PROVE  IInv'
<1>1. PICK l : l = CASE job[p].op = "repair" -> "repair" [] job[p].op = "accept" -> "choose" [] OTHER -> "look"
  OBVIOUS
<1>2. /\ l \in {"repair", "choose", "look"} /\ (l = "repair" => job[p].op = "repair")
      /\ Goto(p, l, job[p])
  BY <1>1 DEF Enter
<1>3. Promised(p, l, job[p]) BY <1>2 DEF Enter, IInv, Locals, Promised
<1>4. Locked(p, l) BY DEF Enter, Locked
<1>5. job[p] \in Jobs BY DEF IInv, TypeOK
<1>6. l \in Labels \ {"claim", "body", "mark", "verdict"} /\ l # "done" BY <1>2 DEF Labels
<1> QED BY <1>2, <1>3, <1>4, <1>5, <1>6, Passes DEF Enter

(* withLock gives up waiting.                                              *)
LEMMA LockTimeoutHolds ==
    ASSUME NEW p \in Runners, IInv, LockTimeout(p)
    PROVE  IInv'
<1>1. Locked(p, "failed") BY DEF LockTimeout, Locked, Inside
<1>2. open[p] = {} BY DEF LockTimeout, IInv, Table, OpenRows
<1>3. table' \in BOOLEAN BY DEF LockTimeout, IInv, TypeOK
<1> QED BY <1>1, <1>2, <1>3, Ends DEF LockTimeout, Stop

(* The finally of withLock.                                                *)
LEMMA LeaveHolds ==
    ASSUME NEW p \in Runners, IInv, Leave(p)
    PROVE  IInv'
<1>1. CASE ~job[p].ok
  <2>1. Locked(p, "failed") BY DEF Leave, Locked, Inside
  <2>2. open[p] = {} BY DEF Leave, IInv, Table, OpenRows
  <2>3. table' \in BOOLEAN BY DEF Leave, IInv, TypeOK
  <2> QED BY <1>1, <2>1, <2>2, <2>3, Ends DEF Leave, Stop
<1>2. CASE job[p].ok
  <2>0. PICK j : j = [job[p] EXCEPT !.row = Null, !.seen = Null] OBVIOUS
  <2>1. j \in Jobs /\ j.op = job[p].op BY <2>0, JobIs DEF Jobs
  <2>2. PICK l : l = IF job[p].last # 0 THEN "inspect" ELSE IF job[p].op = "apply" THEN "report" ELSE "done"
    OBVIOUS
  <2>3. l \in {"inspect", "report", "done"} /\ (l = "done" => j.op # "apply") /\ Goto(p, l, j)
    BY <1>2, <2>0, <2>1, <2>2 DEF Leave
  <2>4. j.op # "verify" BY <1>2, <2>1 DEF Leave, IInv, Locals, Promised
  <2>5. Promised(p, l, j) BY <2>3, <2>4 DEF Promised
  <2>6. Locked(p, l) BY <2>3 DEF Leave, Locked, Inside
  <2>7. l \in Labels \ {"claim", "body", "mark", "verdict"} BY <2>3 DEF Labels
  <2> QED BY <2>1, <2>3, <2>4, <2>5, <2>6, <2>7, Passes DEF Leave
<1> QED BY <1>1, <1>2 DEF IInv, TypeOK, Jobs

(* inspect, from apply, baseline, repair and acceptSchema.                 *)
LEMMA InspectHolds ==
    ASSUME NEW p \in Runners, IInv, Inspect(p) \/ Survey(p)
    PROVE  IInv'
<1>1. PICK l \in {"record", "stamp"} :
        /\ Goto(p, l, [job[p] EXCEPT !.hash = Len(schema)])
        /\ pc[p] = (IF l = "record" THEN "inspect" ELSE "accept")
  BY DEF Inspect, Survey
<1>0. PICK j : j = [job[p] EXCEPT !.hash = Len(schema)] OBVIOUS
<1>2. j \in Jobs /\ j.op = job[p].op /\ j.row = job[p].row
  <2>1. Len(schema) \in Nat BY DEF IInv, TypeOK
  <2> QED BY <1>0, <2>1, JobIs DEF Jobs
<1>3. Promised(p, l, j) BY <1>1, <1>2 DEF IInv, Locals, Promised
<1>4. Locked(p, l) BY <1>1 DEF Inspect, Survey, Locked, Inside
<1>5. l \in Labels \ {"claim", "body", "mark", "verdict"} /\ l # "done" BY DEF Labels
<1>6. UNCHANGED <<engine, table, rows, schema, open, faults>> /\ pc[p] # "body" BY <1>1 DEF Inspect, Survey
<1> QED BY <1>0, <1>1, <1>2, <1>3, <1>4, <1>5, <1>6, Passes

(* bootstrap creates the history table.                                    *)
LEMMA BootstrapHolds ==
    ASSUME NEW p \in Runners, IInv, Bootstrap(p)
    PROVE  IInv'
<1>1. open[p] = {} BY DEF Bootstrap, IInv, Table, OpenRows
<1>2. table' \in BOOLEAN BY DEF Bootstrap
<1>3. CASE Throw(p) /\ Fault
  <2>1. Locked(p, "leave") BY DEF Bootstrap, Locked, Inside
  <2> QED BY <1>1, <1>2, <1>3, <2>1, Ends DEF Bootstrap, Throw
<1>4. CASE Goto(p, "look", job[p]) /\ UNCHANGED faults
  <2>1. Promised(p, "look", job[p]) BY DEF Bootstrap, IInv, Locals, Promised
  <2>2. Locked(p, "look") BY DEF Bootstrap, Locked, Inside
  <2>3. job[p] \in Jobs BY DEF IInv, TypeOK
  <2>4. faults' \in 0..MaxFaults[engine] BY <1>4, FaultIs DEF IInv
  <2> QED BY <1>1, <1>2, <1>4, <2>1, <2>2, <2>3, <2>4, StillMoved DEF Bootstrap, Labels
<1> QED BY <1>3, <1>4 DEF Bootstrap, Answer

(* The loser of a rank looks again.                                        *)
LEMMA RetryHolds ==
    ASSUME NEW p \in Runners, IInv, Retry(p)
    PROVE  IInv'
<1>1. Promised(p, "look", job[p]) BY DEF Retry, IInv, Locals, Promised
<1>2. Locked(p, "look") BY DEF Retry, Locked, Inside
<1>3. job[p] \in Jobs BY DEF IInv, TypeOK
<1> QED BY <1>1, <1>2, <1>3, Passes DEF Retry, Labels

(* acceptSchema chooses the row whose hash it writes.                      *)
LEMMA ChooseHolds ==
    ASSUME NEW p \in Runners, IInv, Choose(p)
    PROVE  IInv'
<1>1. CASE Throw(p)
  BY <1>1, Throws DEF Choose
<1>2. CASE /\ Incomplete(rows) = {} /\ rows # {}
           /\ Goto(p, "accept", [job[p] EXCEPT !.row = LastOf(Successes(rows))])
  <2>1. Successes(rows) # {} /\ Successes(rows) \subseteq rows
    BY <1>2 DEF Incomplete, Successes
  <2>2. PICK n \in Nat : \A r \in rows : r.rank <= n BY DEF IInv, Table, Ranked, Bounded
  <2>3. rows \subseteq Rows BY DEF IInv, TypeOK
  <2>4. LastOf(Successes(rows)) \in Rows BY <2>1, <2>2, <2>3, LastIs
  <2>0. PICK j : j = [job[p] EXCEPT !.row = LastOf(Successes(rows))] OBVIOUS
  <2>5. j \in Jobs /\ j.op = job[p].op /\ j.row \in Rows BY <2>0, <2>4, JobIs DEF Jobs
  <2>6. Promised(p, "accept", j) BY <2>5 DEF Choose, IInv, Locals, Promised
  <2>7. Locked(p, "accept") BY DEF Choose, Locked, Inside
  <2> QED BY <1>2, <2>0, <2>5, <2>6, <2>7, Passes DEF Choose, Labels
<1> QED BY <1>1, <1>2 DEF Choose

(* A lost connection, an error or a crash of the program.                  *)
LEMMA StopsHold ==
    ASSUME NEW p \in Runners, IInv, GiveUp(p) \/ Broken(p) \/ Crash(p)
    PROVE  IInv'
<1>1. CASE GiveUp(p) \/ Broken(p)
  BY <1>1, Throws DEF GiveUp, Broken
<1>2. CASE Crash(p)
  <2>1. Locked(p, "crashed") BY <1>2 DEF Crash, Locked, Inside
  <2>2. table' \in BOOLEAN BY <1>2 DEF Crash, IInv, TypeOK
  <2> QED BY <1>2, <2>1, <2>2, Ends DEF Crash, Stop
<1> QED BY <1>1, <1>2

(* The report reads the history.                                           *)
LEMMA ReadHolds ==
    ASSUME NEW p \in Runners, IInv, Read(p)
    PROVE  IInv'
<1>0. PICK j : j = [job[p] EXCEPT !.seen = Stored] OBVIOUS
<1>1. j \in Jobs /\ j.op = job[p].op /\ j.seen = Stored
  <2>1. Stored \in {Null} \cup SUBSET Rows BY DEF Stored, IInv, TypeOK
  <2> QED BY <1>0, <2>1, JobIs DEF Jobs
<1>2. CASE pc[p] = "before"
  <2>1. Goto(p, "compare", j) BY <1>0, <1>2 DEF Read
  <2>2. Promised(p, "compare", j) BY <1>1, <1>2 DEF IInv, Locals, Promised
  <2>3. Locked(p, "compare") BY DEF Read, Locked, Inside
  <2> QED BY <1>1, <1>2, <2>1, <2>2, <2>3, Passes DEF Read, Labels
<1>3. CASE pc[p] = "report"
  <2>1. Goto(p, "verdict", j) BY <1>0, <1>3 DEF Read
  <2>2. Promised(p, "verdict", j) BY <1>1, <1>3 DEF IInv, Locals, Promised
  <2>3. Locked(p, "verdict") BY DEF Read, Locked, Inside
  <2>4. pc'[p] = "verdict" /\ job'[p] = j /\ \A q \in Runners : q # p => pc'[q] = pc[q] /\ job'[q] = job[q]
    BY <1>1, <2>1, Typed DEF IInv, Labels
  <2>5. open[p] = {} BY <1>3 DEF IInv, Table, OpenRows
  <2>6. Still(p) BY <1>1, <2>4, <2>5 DEF Read, Still, Step, Others, Away
  <2>7. Table' BY <2>6, StillTable DEF IInv
  <2>8. Lasts BY <2>6, StillLasts
  <2>9. Data' BY DEF Read, IInv, TypeOK, Data
  <2>10. SeenAt(p)'
    <3> SUFFICES ASSUME j.seen # Null
                 PROVE  /\ Bounded(rows) /\ \A r \in rows : OfEntry(r)
                        /\ \A r \in Successes(rows) : r.kind # "baseline" => Whole(r.source, r.by)'
                        /\ j.seen = rows /\ rows' = rows
      BY <2>4 DEF SeenAt, Bounded, OfEntry, Successes
    <3>1. j.seen = rows /\ rows' = rows /\ schema' = schema BY <1>1 DEF Stored, Read
    <3>2. \A r \in Successes(rows) : r.kind # "baseline" => Whole(r.source, r.by)
      BY DEF IInv, Table, Pieces, Piece, Whole, Took
    <3> QED BY <3>1, <3>2, SchemaSame DEF IInv, Table, Ranked
  <2>11. ResolvedAt(p)' BY <2>4 DEF ResolvedAt
  <2>12. engine' = engine /\ "verdict" \in Labels BY DEF Read, Labels
  <2> QED BY <1>1, <2>1, <2>2, <2>3, <2>7, <2>8, <2>9, <2>10, <2>11, <2>12, MovedOn
<1> QED BY <1>2, <1>3 DEF Read

(* A report that finds nothing to do has seen every version of its manifest. *)
LEMMA CurrentIs ==
    ASSUME NEW m \in Manifests, NEW R \in SUBSET Rows, Bounded(R), \A r \in R : OfEntry(r),
           Compare(m, R) \in {"current", "ahead"}, R # Null, NEW e \in m.versioned
    PROVE  \/ e.version <= BaselineVersion(R)
           \/ \E r \in Successes(R), f \in Entries :
                /\ r.kind = "versioned" /\ f.source = r.source
                /\ f.version = e.version /\ f.sum = e.sum
<1>1. Incomplete(R) = {} /\ ~Mismatch(m, R) /\ Pending(m, R) = {}
  BY DEF Compare
<1>2. Missing(m, R) = {} BY <1>1 DEF Mismatch
<1>3. PICK n \in Nat : \A r \in R : r.rank <= n /\ r.version <= n BY DEF Bounded
<1>4. e.version \in Nat \ {0} /\ BaselineVersion(R) \in Nat
  <2>1. BaselineVersion(R) \in Nat BY <1>3, BaselineIs
  <2> QED BY <2>1, ManifestConstants DEF Entry
<1>5. CASE e.version > BaselineVersion(R)
  <2>1. PICK r \in Applied(R) : r.version = e.version BY <1>2, <1>5 DEF Missing
  <2>2. r \in Successes(R) /\ r.kind = "versioned" /\ r \in R BY DEF Applied, Successes
  <2>3. r.version <= LastVersion(m)
    <3> DEFINE S == {0} \cup {d.version : d \in m.versioned}
    <3>1. S \in SUBSET Nat /\ S # {} /\ e.version \in S
      BY ManifestConstants DEF Entry
    <3>2. \E b \in Nat : \A k \in S : k <= b
      <4>1. m.versioned \in (SUBSET m.versioned) \ {{}} OBVIOUS
      <4>2. PICK d \in m.versioned : \A f \in m.versioned : f.version <= d.version
        BY <4>1, ManifestConstants
      <4>3. d.version \in Nat BY ManifestConstants DEF Entry
      <4>4. \A k \in S : k = 0 \/ \E f \in m.versioned : k = f.version OBVIOUS
      <4> HIDE DEF S
      <4>5. \A k \in S : k <= d.version BY <4>2, <4>3, <4>4
      <4> QED BY <4>3, <4>5
    <3>3. LastVersion(m) = Max(S) BY DEF LastVersion
    <3> HIDE DEF S
    <3> QED BY <2>1, <3>1, <3>2, <3>3, MaxIsGreatest
  <2>4. PICK d \in m.versioned : d.version = r.version /\ d.sum = r.sum
    BY <1>1, <2>1, <2>3 DEF Mismatch
  <2>5. d = e BY <2>1, <2>4, ManifestConstants
  <2>6. PICK f \in Entries : r.source = f.source /\ r.version = f.version /\ r.sum = f.sum
    BY <2>2 DEF OfEntry
  <2> QED BY <2>1, <2>2, <2>4, <2>5, <2>6
<1> QED BY <1>4, <1>5

(* The report resolves or rejects on what it has read.                     *)
LEMMA VerdictHolds ==
    ASSUME NEW p \in Runners, IInv, Verdict(p)
    PROVE  IInv'
<1>1. open[p] = {} /\ table' \in BOOLEAN BY DEF Verdict, IInv, TypeOK, Table, OpenRows
<1>2. CASE Stop(p, "failed")
  <2>1. Locked(p, "failed") BY DEF Verdict, Locked, Inside
  <2> QED BY <1>1, <1>2, <2>1, Ends DEF Verdict, Stop
<1>3. CASE /\ ~Drift(p) /\ Compare(job[p].manifest, job[p].seen) \in {"current", "ahead"}
           /\ Goto(p, "done", [Idle EXCEPT !.op = job[p].op, !.manifest = job[p].manifest])
  <2>0. PICK j : j = [Idle EXCEPT !.op = job[p].op, !.manifest = job[p].manifest] OBVIOUS
  <2>1. PICK m \in Manifests, seen \in {Null} \cup SUBSET Rows : m = job[p].manifest /\ seen = job[p].seen
    BY JobIs DEF Jobs
  <2>2. j \in Jobs /\ j.op = job[p].op /\ j.manifest = m
    BY <2>0, <2>1, JobIs, IdleIs DEF Jobs
  <2>3. Goto(p, "done", j) BY <1>3, <2>0
  <2>4. Promised(p, "done", j) BY DEF Promised
  <2>5. Locked(p, "done") BY DEF Verdict, Locked, Inside
  <2>6. pc'[p] = "done" /\ job'[p] = j /\ \A q \in Runners : q # p => pc'[q] = pc[q] /\ job'[q] = job[q]
    BY <2>2, <2>3, Typed DEF IInv, Labels
  <2>7. Still(p) BY <1>1, <2>2, <2>6 DEF Verdict, Still, Step, Others, Away
  <2>8. Table' BY <2>7, StillTable DEF IInv
  <2>9. Lasts BY <2>7, StillLasts
  <2>10. Data' BY DEF Verdict, IInv, TypeOK, Data
  <2>11. SeenAt(p)' BY <2>6 DEF SeenAt
  <2>12. seen # Null /\ seen \in SUBSET Rows
    BY <1>3, <2>1 DEF Compare
  <2>13. /\ Bounded(seen) /\ \A r \in seen : OfEntry(r)
         /\ \A r \in Successes(seen) : r.kind # "baseline" => Whole(r.source, r.by)
         /\ \A r \in Successes(seen) :
              r.kind = "baseline" => \E s \in Successes(rows) : s.kind = "baseline" /\ s.version = r.version
    BY <2>1, <2>12 DEF Verdict, IInv, SeenHolds, SeenAt
  <2>14. ASSUME NEW e \in m.versioned
         PROVE  \/ e.version <= BaselineVersion(rows)
                \/ \E f \in Entries, q \in Runners :
                     f.version = e.version /\ f.sum = e.sum /\ Whole(f.source, q)
    <3>1. CASE e.version <= BaselineVersion(seen)
      <4>1. PICK n \in Nat : \A r \in rows : r.version <= n BY DEF IInv, Table, Ranked, Bounded
      <4>2. PICK k \in Nat : \A r \in seen : r.version <= k BY <2>13 DEF Bounded
      <4>3. rows \subseteq Rows BY DEF IInv, TypeOK
      <4>4. /\ BaselineVersion(rows) \in Nat
            /\ \A r \in Successes(rows) : r.kind = "baseline" => r.version <= BaselineVersion(rows)
        BY <4>1, <4>3, BaselineIs
      <4>5. BaselineVersion(seen) = 0 \/
            \E r \in Successes(seen) : r.kind = "baseline" /\ r.version = BaselineVersion(seen)
        BY <2>12, <4>2, BaselineIs
      <4>6. BaselineVersion(seen) <= BaselineVersion(rows) /\ BaselineVersion(seen) \in Nat
        <5>1. BaselineVersion(seen) \in Nat BY <2>12, <4>2, BaselineIs
        <5> QED BY <5>1, <2>13, <4>4, <4>5
      <4>7. e.version \in Nat BY ManifestConstants DEF Entry
      <4> QED BY <3>1, <4>4, <4>6, <4>7
    <3>2. CASE \E r \in Successes(seen), f \in Entries :
                 /\ r.kind = "versioned" /\ f.source = r.source
                 /\ f.version = e.version /\ f.sum = e.sum
      <4>1. PICK r \in Successes(seen), f \in Entries :
              /\ r.kind = "versioned" /\ f.source = r.source
              /\ f.version = e.version /\ f.sum = e.sum
        BY <3>2
      <4>2. Whole(f.source, r.by) BY <2>13, <4>1
      <4>3. r.by \in Runners BY <2>12 DEF Successes, Rows
      <4> QED BY <4>1, <4>2, <4>3
    <3> QED BY <1>3, <2>1, <2>12, <2>13, <3>1, <3>2, CurrentIs
  <2>15. ResolvedAt(p)'
    <3>1. rows' = rows /\ schema' = schema BY DEF Verdict
    <3>2. \A s, q : Whole(s, q) => Whole(s, q)' BY <3>1, SchemaSame
    <3> QED BY <2>2, <2>6, <2>14, <3>1, <3>2 DEF ResolvedAt
  <2>16. engine' = engine /\ "done" \in Labels BY DEF Verdict, Labels
  <2> QED BY <2>2, <2>3, <2>4, <2>5, <2>8, <2>9, <2>10, <2>11, <2>15, <2>16, MovedOn
<1> QED BY <1>2, <1>3 DEF Verdict

(* The entry to run next, and the row for it.                              *)
LEMMA NextIs ==
    ASSUME NEW p \in Runners, NEW m \in Manifests, NEW R \in SUBSET Rows, Bounded(R), \A r \in R : OfEntry(r),
           \A r \in R : r.status = "success",
           Pending(m, R) \cup Changed(m, R) # {}, NEW row, row = Row(NextEntry(m, R), p, NextRank(R))
    PROVE  Attempt(p, row) /\ Next1(R, row) /\ After(R, row)
<1>1. PICK e : e = NextEntry(m, R) OBVIOUS
<1>2. \/ e \in Pending(m, R)
      \/ e \in m.repeatable
  <2>1. CASE Pending(m, R) # {}
    <3>1. Pending(m, R) \in (SUBSET m.versioned) \ {{}} BY <2>1 DEF Pending, Missing
    <3>2. \E d \in Pending(m, R) : \A f \in Pending(m, R) : d.version <= f.version
      BY <3>1, ManifestConstants
    <3> QED BY <1>1, <2>1, <3>2 DEF NextEntry
  <2>2. CASE Pending(m, R) = {}
    <3>1. Changed(m, R) \in (SUBSET m.repeatable) \ {{}} BY <2>2 DEF Changed
    <3>2. \E d \in Changed(m, R) : \A f \in Changed(m, R) : d.source <= f.source
      BY <3>1, ManifestConstants
    <3> QED BY <1>1, <2>2, <3>1, <3>2 DEF NextEntry
  <2> QED BY <2>1, <2>2
<1>3. /\ e \in Entries /\ e.source \in Nat /\ e.version \in Nat /\ e.sum \in STRING
      /\ e \notin Pending(m, R) => e.version = 0
  <2>1. e \in m.versioned \cup m.repeatable BY <1>2 DEF Pending, Missing
  <2>2. e \in m.versioned => e \in Entry(Nat \ {0}) BY ManifestConstants
  <2>3. e \in m.repeatable => e \in Entry({0}) BY ManifestConstants
  <2> QED BY <1>2, <2>1, <2>2, <2>3 DEF Entries, Entry
<1>4. PICK n \in Nat : \A r \in R : r.rank <= n /\ r.version <= n BY DEF Bounded
<1>5. /\ NextRank(R) \in Nat \ {0}
      /\ \A r \in R : r.rank < NextRank(R)
      /\ NextRank(R) = 1 \/ \E r \in R : r.rank = NextRank(R) - 1
  BY <1>4, NextRankIs
<1>6. /\ row.rank = NextRank(R) /\ row.source = e.source /\ row.version = e.version /\ row.sum = e.sum
      /\ row.kind = (IF e.version = 0 THEN "repeatable" ELSE "versioned")
      /\ row.status = "running" /\ row.by = p /\ row \in Rows
  BY <1>1, <1>3, <1>5 DEF Row, Rows
<1>7. Attempt(p, row) BY <1>3, <1>6 DEF Attempt, OfEntry
<1>8. Next1(R, row) BY <1>5, <1>6 DEF Next1
<1>9. After(R, row)
  <2> SUFFICES ASSUME row.kind = "versioned", NEW r \in R, r.kind # "baseline", r.rank # row.rank
               PROVE  r.version < row.version
    BY DEF After
  <2>1. e.version # 0 /\ e \in Pending(m, R) BY <1>3, <1>6
  <2>2. /\ HeadVersion(R) \in Nat /\ \A s \in Successes(R) : s.version <= HeadVersion(R)
    BY <1>4, HeadIs
  <2>3. e.version >= HeadVersion(R) /\ \A s \in Applied(R) : s.version # e.version
    BY <2>1 DEF Pending, Missing
  <2>4. r \in Successes(R) BY DEF Successes
  <2>5. r.version # e.version
    <3>1. CASE r.kind = "versioned"
      BY <1>4, <2>3, <2>4, <3>1, AppliedIs
    <3>2. CASE r.kind = "repeatable"
      BY <2>1, <3>2 DEF OfEntry
    <3> QED BY <3>1, <3>2 DEF Rows
  <2>6. r.version \in Nat BY DEF Rows
  <2> QED BY <1>3, <1>6, <2>2, <2>3, <2>4, <2>5, <2>6
<1> QED BY <1>7, <1>8, <1>9

(* apply reads the history and chooses its next entry.                     *)
LEMMA LookHolds ==
    ASSUME NEW p \in Runners, IInv, Look(p)
    PROVE  IInv'
<1>1. CASE Throw(p)
  BY <1>1, Throws DEF Look
<1>2. CASE \E l \in {"baseline", "waiting", "leave"} : Goto(p, l, job[p])
  <2>1. PICK l \in {"baseline", "waiting", "leave"} : Goto(p, l, job[p]) BY <1>2
  <2>2. Promised(p, l, job[p]) BY DEF Look, IInv, Locals, Promised
  <2>3. Locked(p, l) BY DEF Look, Locked, Inside
  <2>4. l \in Labels \ {"claim", "body", "mark", "verdict"} /\ l # "done" BY DEF Labels
  <2> QED BY <2>1, <2>2, <2>3, <2>4, JobIs, Passes DEF Look
<1>3. CASE LET m == job[p].manifest IN
             /\ ~AnyFailed(rows) /\ ~AnyRunning(rows) /\ Pending(m, rows) \cup Changed(m, rows) # {}
             /\ Goto(p, "claim", [job[p] EXCEPT !.row = Row(NextEntry(m, rows), p, NextRank(rows)), !.done = 0])
  <2>1. PICK m \in Manifests : m = job[p].manifest BY JobIs DEF Jobs
  <2>2. PICK row : row = Row(NextEntry(m, rows), p, NextRank(rows)) OBVIOUS
  <2>3. rows \in SUBSET Rows /\ Bounded(rows) /\ \A r \in rows : OfEntry(r)
    BY DEF IInv, TypeOK, Table, Ranked
  <2>4. \A r \in rows : r.status = "success"
    BY <1>3, <2>3 DEF AnyFailed, AnyRunning, Rows
  <2>5. Attempt(p, row) /\ Next1(rows, row) /\ After(rows, row)
    BY <1>3, <2>1, <2>2, <2>3, <2>4, NextIs
  <2>6. PICK j : j = [job[p] EXCEPT !.row = row, !.done = 0] OBVIOUS
  <2>7. row \in Rows BY <2>5 DEF Attempt
  <2>8. j \in Jobs /\ j.op = job[p].op /\ j.row = row /\ j.done = 0
    <3>1. 0 \in 0..Length BY DEF Length
    <3> QED BY <2>6, <2>7, <3>1, JobIs DEF Jobs
  <2>9. Goto(p, "claim", j) BY <1>3, <2>1, <2>2, <2>6
  <2>10. Promised(p, "claim", j) BY <2>5, <2>8 DEF Look, IInv, Locals, Promised
  <2>11. Locked(p, "claim") BY DEF Look, Locked, Inside
  <2>12. pc'[p] = "claim" /\ job'[p] = j /\ \A q \in Runners : q # p => pc'[q] = pc[q] /\ job'[q] = job[q]
    BY <2>8, <2>9, Typed DEF IInv, Labels
  <2>13. Attempt(p, job'[p].row) /\ Next1(rows, job'[p].row) /\ After(rows, job'[p].row)
    BY <2>5, <2>8, <2>12
  <2>14. Chooses(p) BY <2>8, <2>12, <2>13 DEF Look, Chooses, Step, Others
  <2>15. Table' BY <2>14, ChoosesTable DEF IInv
  <2>16. Lasts BY <2>14, StillLasts
  <2>17. Data' BY DEF Look, IInv, TypeOK, Data
  <2>18. engine' = engine /\ "claim" \in Labels BY DEF Look, Labels
  <2> QED BY <2>8, <2>9, <2>10, <2>11, <2>15, <2>16, <2>17, <2>18, Moved
<1> QED BY <1>1, <1>2, <1>3 DEF Look

(* The lost answer of a write leaves p in its finally, with idle locals.    *)
LEMMA ThrownIs ==
    ASSUME NEW p \in Runners, IInv, Throw(p)
    PROVE  \E j \in Jobs : Goto(p, "leave", j) /\ Promised(p, "leave", j) /\ j.op = job[p].op /\ "leave" \in Labels
<1>0. PICK j : j = [Idle EXCEPT !.op = job[p].op, !.ok = FALSE] OBVIOUS
<1>1. j \in Jobs /\ j.op = job[p].op /\ j.ok = FALSE BY <1>0, JobIs, IdleIs DEF Jobs
<1>2. Promised(p, "leave", j) BY <1>1 DEF Promised
<1>3. Goto(p, "leave", j) BY <1>0 DEF Throw
<1> QED BY <1>1, <1>2, <1>3 DEF Labels

(* claim inserts the row, and the rank as primary key admits one of them.  *)
LEMMA ClaimHolds ==
    ASSUME NEW p \in Runners, IInv, Claim(p)
    PROVE  IInv'
<1>1. PICK row : row = job[p].row /\ row \in Rows BY DEF Claim, IInv, Locals, Promised, Attempt
<1>2. open[p] = {} /\ engine' = engine /\ lock' = lock BY DEF Claim, IInv, Table, OpenRows
<1>3. CASE \E l \in {"waiting", "look"} :
             Goto(p, l, [job[p] EXCEPT !.row = Null]) /\ UNCHANGED <<rows, open, faults>>
  <2>1. PICK l \in {"waiting", "look"} : Goto(p, l, [job[p] EXCEPT !.row = Null]) BY <1>3
  <2>2. PICK j : j = [job[p] EXCEPT !.row = Null] OBVIOUS
  <2>3. j \in Jobs /\ j.op = job[p].op BY <2>2, JobIs DEF Jobs
  <2>4. Promised(p, l, j) BY <2>3 DEF Claim, IInv, Locals, Promised
  <2>5. Locked(p, l) BY DEF Claim, Locked, Inside
  <2>6. l \in Labels \ {"claim", "body", "mark", "verdict"} /\ l # "done" BY DEF Labels
  <2> QED BY <1>3, <2>1, <2>2, <2>3, <2>4, <2>5, <2>6, Passes DEF Claim
<1>4. CASE /\ ~Refused(p) /\ ~Taken(row.rank) /\ Transactional(row)
           /\ open' = [open EXCEPT ![p] = {row}] /\ Goto(p, "body", job[p])
           /\ UNCHANGED <<rows, faults>>
  <2>1. pc'[p] = "body" /\ job'[p] = job[p] /\ \A q \in Runners : q # p => pc'[q] = pc[q] /\ job'[q] = job[q]
    BY <1>4, JobIs, Typed DEF IInv, Labels
  <2>2. open'[p] = {row} /\ \A q \in Runners : q # p => open'[q] = open[q]
    BY <1>4 DEF IInv, TypeOK
  <2>3. ClaimsOpen(p) BY <1>1, <1>4, <2>1, <2>2 DEF Claim, ClaimsOpen, Claims, Step, Others
  <2>4. Table' BY <2>3, ClaimsOpenTable DEF IInv
  <2>5. Lasts BY <2>3, StillLasts
  <2>6. Data' BY <1>1, <1>4 DEF Claim, IInv, TypeOK, Data
  <2>7. Promised(p, "body", job[p]) BY DEF Claim, IInv, Locals, Promised
  <2>8. Locked(p, "body") BY DEF Claim, Locked, Inside
  <2> QED BY <1>2, <1>4, <2>4, <2>5, <2>6, <2>7, <2>8, JobIs, Moved DEF Labels
<1>5. CASE /\ ~Refused(p) /\ ~Taken(row.rank) /\ ~Transactional(row)
           /\ rows' = rows \cup {row} /\ Answer(p, "body", job[p]) /\ UNCHANGED open
  <2>1. PICK l \in {"body", "leave"}, j \in Jobs :
          /\ Goto(p, l, j) /\ Promised(p, l, j) /\ (l = "body" => j = job[p]) /\ j.op = job[p].op
          /\ UNCHANGED faults \/ Fault
    <3>1. Promised(p, "body", job[p]) BY DEF Claim, IInv, Locals, Promised
    <3> QED BY <1>5, <3>1, JobIs, ThrownIs DEF Answer
  <2>2. l \in Labels /\ l # "verdict" /\ l # "done" BY DEF Labels
  <2>3. pc'[p] = l /\ job'[p] = j /\ \A q \in Runners : q # p => pc'[q] = pc[q] /\ job'[q] = job[q]
    BY <2>1, <2>2, Typed DEF IInv
  <2>4. ClaimsAlone(p)
    BY <1>1, <1>2, <1>5, <2>1, <2>3 DEF Claim, ClaimsAlone, Claims, Step, Others, Away
  <2>5. Table' BY <2>4, ClaimsAloneTable DEF IInv
  <2>6. Lasts BY <2>4, StillLasts
  <2>7. faults' \in 0..MaxFaults[engine] BY <2>1, FaultIs DEF IInv
  <2>8. Data' BY <1>1, <1>2, <1>5, <2>7 DEF Claim, IInv, TypeOK, Data
  <2>9. Locked(p, l) BY <1>2 DEF Claim, Locked, Inside
  <2> QED BY <1>2, <2>1, <2>2, <2>5, <2>6, <2>8, <2>9, Moved
<1> QED BY <1>1, <1>3, <1>4, <1>5 DEF Claim

(* A body that fails: rolled back in a transaction, marked outside one.    *)
LEMMA FailHolds ==
    ASSUME NEW p \in Runners, IInv, pc[p] = "body", ~Transactional(job[p].row), Goto(p, "mark", job[p]),
           open' = [open EXCEPT ![p] = {}], UNCHANGED <<engine, table, rows, schema, lock>>, Fault
    PROVE  IInv'
<1>1. pc'[p] = "mark" /\ job'[p] = job[p] /\ \A q \in Runners : q # p => pc'[q] = pc[q] /\ job'[q] = job[q]
  BY JobIs, Typed DEF IInv, Labels
<1>2. open'[p] = {} /\ \A q \in Runners : q # p => open'[q] = open[q]
  BY DEF IInv, TypeOK
<1>3. Fails(p) BY <1>1, <1>2 DEF Fails, Step, Others, Alone
<1>4. Table' BY <1>3, FailsTable DEF IInv
<1>5. Lasts BY <1>3, StillLasts
<1>6. faults' \in 0..MaxFaults[engine] BY FaultIs DEF IInv
<1>7. Data' BY <1>6 DEF IInv, TypeOK, Data
<1>8. Promised(p, "mark", job[p]) BY DEF IInv, Locals, Promised
<1>9. Locked(p, "mark") BY DEF Locked, Inside
<1> QED BY <1>4, <1>5, <1>7, <1>8, <1>9, JobIs, Moved DEF Labels

(* One statement of a body.                                                *)
LEMMA StatementHolds ==
    ASSUME NEW p \in Runners, IInv, Statement(p)
    PROVE  IInv'
<1>1. PICK row : row = job[p].row /\ row \in Rows /\ row.source \in Nat
  BY DEF Statement, IInv, Locals, Promised, Attempt, Rows
<1>2. /\ engine' = engine /\ lock' = lock /\ rows' = rows /\ table' = table
      /\ pc[p] = "body" /\ job[p].done < Length /\ table \in BOOLEAN
  BY DEF Statement, IInv, TypeOK
<1>3. CASE /\ schema' = IF Transactional(row) THEN schema
                        ELSE Append(schema, Body(row.source, p)[job[p].done + 1])
           /\ Goto(p, "body", [job[p] EXCEPT !.done = @ + 1])
           /\ UNCHANGED <<open, faults>>
  <2>1. PICK n : n = job[p].done + 1 OBVIOUS
  <2>2. n \in 1..Length /\ n \in 0..Length BY <1>2, <2>1, JobIs DEF Jobs, Length
  <2>3. PICK j : j = [job[p] EXCEPT !.done = n] OBVIOUS
  <2>4. j \in Jobs /\ j.op = job[p].op /\ j.row = row /\ j.done = n BY <1>1, <2>2, <2>3, JobIs DEF Jobs
  <2>5. Goto(p, "body", j) BY <1>3, <2>1, <2>3
  <2>6. pc'[p] = "body" /\ job'[p] = j /\ \A q \in Runners : q # p => pc'[q] = pc[q] /\ job'[q] = job[q]
    BY <2>4, <2>5, Typed DEF IInv, Labels
  <2>7. Runs(p) BY <1>1, <1>2, <1>3, <2>1, <2>4, <2>6 DEF Runs, Step, Others
  <2>8. Table' /\ Lasts BY <2>7, RunsTable DEF IInv
  <2>9. schema' \in Seq(Nat \X Runners \X (1..Length))
    <3> DEFINE X == Nat \X Runners \X (1..Length)
    <3>1. schema \in Seq(X) BY DEF IInv, TypeOK
    <3>2. PICK x : x = Body(row.source, p)[n] OBVIOUS
    <3>3. x = <<row.source, p, n>> BY <1>1, <2>2, <3>2, BodyIs
    <3>4. x \in X BY <1>1, <2>2, <3>3
    <3>5. schema' = schema \/ schema' = Append(schema, x) BY <1>3, <2>1, <3>2
    <3> HIDE DEF X
    <3>6. schema' \in Seq(X) BY <3>1, <3>4, <3>5
    <3> QED BY <3>6 DEF X
  <2>10. Data' BY <1>2, <1>3, <2>9 DEF IInv, TypeOK, Data
  <2>11. Promised(p, "body", j) BY <1>1, <1>2, <2>4 DEF IInv, Locals, Promised
  <2>12. Locked(p, "body") BY <1>2 DEF Locked
  <2> QED BY <1>2, <2>4, <2>5, <2>8, <2>10, <2>11, <2>12, Moved DEF Labels
<1>4. CASE Fault /\ Transactional(row) /\ Throw(p) /\ open' = [open EXCEPT ![p] = {}] /\ UNCHANGED schema
  <2>1. Locked(p, "leave") BY <1>2 DEF Locked, Inside
  <2> QED BY <1>2, <1>4, <2>1, Ends DEF Throw
<1>5. CASE Fault /\ ~Transactional(row) /\ Goto(p, "mark", job[p]) /\ open' = [open EXCEPT ![p] = {}] /\ UNCHANGED schema
  BY <1>1, <1>2, <1>5, FailHolds
<1> QED BY <1>1, <1>3, <1>4, <1>5 DEF Statement

(* A write whose answer comes or is lost, after which p is outside a body.  *)
LEMMA AnswerIs ==
    ASSUME NEW p \in Runners, IInv, NEW l \in Labels \ {"claim", "body", "mark", "verdict"}, NEW j \in Jobs,
           Answer(p, l, j), Promised(p, l, j), j.op = job[p].op, l = "done" => j.op \notin {"apply", "verify"},
           l \in Inside => pc[p] \in Inside, UNCHANGED <<engine, lock>>
    PROVE  /\ \E k \in Labels \ {"claim", "body", "mark", "verdict"}, i \in Jobs :
                /\ Goto(p, k, i) /\ Promised(p, k, i) /\ i.op = job[p].op
                /\ k = "done" => i.op \notin {"apply", "verify"}
                /\ Locked(p, k) /\ pc'[p] = k /\ job'[p] = i
           /\ \A q \in Runners : q # p => pc'[q] = pc[q] /\ job'[q] = job[q]
           /\ faults' \in 0..MaxFaults[engine]
<1>1. PICK k \in {l, "leave"}, i \in Jobs :
        /\ Goto(p, k, i) /\ Promised(p, k, i) /\ i.op = job[p].op
        /\ k = "done" => i.op \notin {"apply", "verify"}
        /\ UNCHANGED faults \/ Fault
  BY ThrownIs DEF Answer
<1>2. k \in Labels \ {"claim", "body", "mark", "verdict"} BY DEF Labels
<1>3. Locked(p, k) BY DEF Locked, Inside
<1>4. pc'[p] = k /\ job'[p] = i /\ \A q \in Runners : q # p => pc'[q] = pc[q] /\ job'[q] = job[q]
  BY <1>1, <1>2, Typed DEF IInv
<1>5. faults' \in 0..MaxFaults[engine] BY <1>1, FaultIs DEF IInv
<1> QED BY <1>1, <1>2, <1>3, <1>4, <1>5

(* finish writes success, in the transaction of the body or outside it,    *)
(* and the answer may be lost.                                             *)
LEMMA FinishHolds ==
    ASSUME NEW p \in Runners, IInv, Finish(p)
    PROVE  IInv'
<1>1. PICK row : row = job[p].row /\ row \in Rows /\ row.source \in Nat /\ row.rank \in Nat
  BY DEF Finish, IInv, Locals, Promised, Attempt, Rows
<1>2. /\ engine' = engine /\ lock' = lock /\ table' = table /\ table \in BOOLEAN
      /\ pc[p] = "body" /\ job[p].done = Length
      /\ open' = [open EXCEPT ![p] = {}] /\ open' \in [Runners -> SUBSET Rows]
      /\ open'[p] = {} /\ \A q \in Runners : q # p => open'[q] = open[q]
  BY DEF Finish, IInv, TypeOK
<1>3. CASE Fault /\ UNCHANGED <<rows, schema>> /\ Throw(p)
  <2>1. Locked(p, "leave") BY <1>2 DEF Locked, Inside
  <2> QED BY <1>2, <1>3, <2>1, Ends DEF Throw
<1>4. CASE Fault /\ UNCHANGED <<rows, schema>> /\ ~Transactional(row) /\ Goto(p, "mark", job[p])
  BY <1>1, <1>2, <1>4, FailHolds
<1>5. PICK next : next = [job[p] EXCEPT !.last = row.rank, !.row = Null, !.done = 0] OBVIOUS
<1>6. next \in Jobs /\ next.op = job[p].op
  <2>1. 0 \in 0..Length BY DEF Length
  <2> QED BY <1>1, <1>5, <2>1, JobIs DEF Jobs
<1>7. Promised(p, "look", next) /\ "look" \in Labels \ {"claim", "body", "mark", "verdict", "done"}
      /\ pc[p] \in Inside
  BY <1>2, <1>6 DEF IInv, Locals, Promised, Labels, Inside
<1>8. CASE /\ Transactional(row) /\ Answer(p, "look", next)
           /\ rows' = rows \cup {[r EXCEPT !.status = "success"] : r \in open[p]}
           /\ schema' = schema \o Body(row.source, p)
  <2>1. PICK k \in Labels \ {"claim", "body", "mark", "verdict"}, i \in Jobs :
          /\ Goto(p, k, i) /\ Promised(p, k, i) /\ i.op = job[p].op
          /\ k = "done" => i.op \notin {"apply", "verify"}
          /\ Locked(p, k) /\ pc'[p] = k /\ job'[p] = i
          /\ \A q \in Runners : q # p => pc'[q] = pc[q] /\ job'[q] = job[q]
          /\ faults' \in 0..MaxFaults[engine]
    BY <1>2, <1>6, <1>7, <1>8, AnswerIs
  <2>2. open[p] = {row} BY <1>1, <1>2, <1>8 DEF IInv, Table, OpenRows
  <2>3. rows' = rows \cup {[row EXCEPT !.status = "success"]} BY <1>8, <2>2
  <2>4. Commits(p) BY <1>1, <1>2, <1>8, <2>1, <2>3 DEF Commits, Step, Others, Away
  <2>5. Table' /\ Lasts /\ rows' \subseteq Rows BY <2>4, CommitsTable DEF IInv
  <2>6. schema' \in Seq(Nat \X Runners \X (1..Length))
    <3> DEFINE X == Nat \X Runners \X (1..Length)
    <3>1. PICK t : t = Body(row.source, p) OBVIOUS
    <3>2. t \in Seq(X) BY <1>1, <3>1, BodyIs
    <3>3. schema \in Seq(X) BY DEF IInv, TypeOK
    <3>4. schema' = schema \o t BY <1>8, <3>1
    <3> HIDE DEF X
    <3>5. schema' \in Seq(X) BY <3>2, <3>3, <3>4
    <3> QED BY <3>5 DEF X
  <2>7. Data' BY <1>2, <2>1, <2>5, <2>6 DEF Data
  <2> QED BY <1>2, <2>1, <2>5, <2>7, Moved
<1>9. CASE /\ ~Transactional(row) /\ rows' = Finished(p, "success") /\ UNCHANGED schema
           /\ Answer(p, "look", next)
  <2>1. PICK k \in Labels \ {"claim", "body", "mark", "verdict"}, i \in Jobs :
          /\ Goto(p, k, i) /\ Promised(p, k, i) /\ i.op = job[p].op
          /\ k = "done" => i.op \notin {"apply", "verify"}
          /\ Locked(p, k) /\ pc'[p] = k /\ job'[p] = i
          /\ \A q \in Runners : q # p => pc'[q] = pc[q] /\ job'[q] = job[q]
          /\ faults' \in 0..MaxFaults[engine]
    BY <1>2, <1>6, <1>7, <1>9, AnswerIs
  <2>2. Finishes(p) BY <1>1, <1>2, <1>9, <2>1 DEF Finishes, Alone, Step, Others, Away
  <2>3. Table' /\ Lasts /\ rows' \subseteq Rows BY <2>2, FinishesTable DEF IInv
  <2>4. Data' BY <1>2, <1>9, <2>1, <2>3 DEF IInv, TypeOK, Data
  <2> QED BY <1>2, <2>1, <2>3, <2>4, Moved
<1>10. CASE /\ ~Transactional(row) /\ rows' = Finished(p, "success") /\ UNCHANGED schema
            /\ Goto(p, "mark", job[p]) /\ Fault
  <2>1. pc'[p] = "mark" /\ job'[p] = job[p] /\ \A q \in Runners : q # p => pc'[q] = pc[q] /\ job'[q] = job[q]
    BY <1>10, JobIs, Typed DEF IInv, Labels
  <2>2. Finishes(p) BY <1>1, <1>2, <1>10, <2>1 DEF Finishes, Alone, Step, Others, Away
  <2>3. Table' /\ Lasts /\ rows' \subseteq Rows BY <2>2, FinishesTable DEF IInv
  <2>4. faults' \in 0..MaxFaults[engine] BY <1>10, FaultIs DEF IInv
  <2>5. Data' BY <1>2, <1>10, <2>3, <2>4 DEF IInv, TypeOK, Data
  <2>6. Promised(p, "mark", job[p]) BY <1>1, <1>2, <1>10 DEF IInv, Locals, Promised
  <2>7. Locked(p, "mark") BY <1>2 DEF Locked, Inside
  <2> QED BY <1>2, <1>10, <2>3, <2>5, <2>6, <2>7, JobIs, Moved DEF Labels
<1> QED BY <1>1, <1>3, <1>4, <1>5, <1>8, <1>9, <1>10 DEF Finish, Succeed

(* finish writes failed on the row of a body that failed.                  *)
LEMMA MarkHolds ==
    ASSUME NEW p \in Runners, IInv, Mark(p)
    PROVE  IInv'
<1>1. engine' = engine /\ lock' = lock /\ schema' = schema /\ open' = open /\ table' = table /\ pc[p] = "mark"
      /\ Throw(p)
  BY DEF Mark
<1>2. CASE rows' = Finished(p, "failed") /\ UNCHANGED faults
  <2>1. PICK j \in Jobs : Goto(p, "leave", j) /\ Promised(p, "leave", j) /\ j.op = job[p].op /\ "leave" \in Labels
    BY <1>1, ThrownIs
  <2>2. pc'[p] = "leave" /\ job'[p] = j /\ \A q \in Runners : q # p => pc'[q] = pc[q] /\ job'[q] = job[q]
    BY <2>1, Typed DEF IInv
  <2>3. open[p] = {} BY <1>1 DEF IInv, Table, OpenRows
  <2>4. Marks(p) BY <1>1, <1>2, <2>1, <2>2, <2>3 DEF Marks, Step, Others, Away
  <2>5. Table' /\ Lasts /\ rows' \subseteq Rows BY <2>4, MarksTable DEF IInv
  <2>6. Data' BY <1>1, <1>2, <2>5 DEF IInv, TypeOK, Data
  <2>7. Locked(p, "leave") BY <1>1 DEF Locked, Inside
  <2> QED BY <1>1, <2>1, <2>5, <2>6, <2>7, Moved
<1>3. CASE UNCHANGED rows /\ (UNCHANGED faults \/ Fault)
  BY <1>1, <1>3, Throws
<1> QED BY <1>2, <1>3 DEF Mark

(* baseline inserts its row at rank 1.                                     *)
LEMMA BaselineHolds ==
    ASSUME NEW p \in Runners, IInv, Baseline(p)
    PROVE  IInv'
<1>1. engine' = engine /\ lock' = lock /\ schema' = schema /\ open' = open /\ table' = table /\ pc[p] = "baseline"
  BY DEF Baseline
<1>2. PICK e \in job[p].manifest.versioned :
        LET row == [Row(e, p, 1) EXCEPT !.kind = "baseline", !.status = "success"] IN
        IF Refused(p) \/ Taken(1) THEN Throw(p) /\ UNCHANGED <<rows, faults>>
        ELSE rows' = rows \cup {row} /\ Answer(p, "leave", [job[p] EXCEPT !.last = 1])
  BY DEF Baseline
<1>3. CASE Throw(p) /\ UNCHANGED <<rows, faults>>
  BY <1>1, <1>3, Throws
<1>4. CASE /\ ~Refused(p) /\ ~Taken(1) /\ Answer(p, "leave", [job[p] EXCEPT !.last = 1])
           /\ rows' = rows \cup {[Row(e, p, 1) EXCEPT !.kind = "baseline", !.status = "success"]}
  <2>1. PICK j : j = [job[p] EXCEPT !.last = 1] OBVIOUS
  <2>2. j \in Jobs /\ j.op = job[p].op BY <2>1, JobIs DEF Jobs
  <2>3. j.op # "verify" BY <1>1, <2>2 DEF IInv, Locals, Promised
  <2>4. Promised(p, "leave", j) BY <2>3 DEF Promised
  <2>5. "leave" \in Labels \ {"claim", "body", "mark", "verdict"} /\ "leave" \notin Inside BY DEF Labels, Inside
  <2>6. PICK k \in Labels \ {"claim", "body", "mark", "verdict"}, i \in Jobs :
          /\ Goto(p, k, i) /\ Promised(p, k, i) /\ i.op = job[p].op
          /\ k = "done" => i.op \notin {"apply", "verify"}
          /\ Locked(p, k) /\ pc'[p] = k /\ job'[p] = i
          /\ \A q \in Runners : q # p => pc'[q] = pc[q] /\ job'[q] = job[q]
          /\ faults' \in 0..MaxFaults[engine]
    BY <1>1, <1>4, <2>1, <2>2, <2>4, <2>5, AnswerIs
  <2>7. PICK row : row = [Row(e, p, 1) EXCEPT !.kind = "baseline", !.status = "success"] OBVIOUS
  <2>8. row \in Rows /\ row.rank = 1 /\ row.kind = "baseline" /\ row.status = "success" /\ OfEntry(row)
    <3>1. PICK m \in Manifests : m = job[p].manifest BY JobIs DEF Jobs
    <3>2. e \in Entries /\ e \in Entry(Nat \ {0}) BY <3>1, ManifestConstants DEF Entries
    <3>3. e.source \in Nat /\ e.version \in Nat /\ e.sum \in STRING BY <3>2 DEF Entry
    <3>4. PICK first : first = Row(e, p, 1) OBVIOUS
    <3>5. /\ first.source = e.source /\ first.version = e.version /\ first.sum = e.sum
          /\ first \in Rows /\ first.rank = 1
      BY <3>3, <3>4 DEF Row, Rows
    <3>6. row = [first EXCEPT !.kind = "baseline", !.status = "success"] BY <2>7, <3>4
    <3>7. /\ row.source = e.source /\ row.version = e.version /\ row.sum = e.sum
          /\ row \in Rows /\ row.rank = 1 /\ row.kind = "baseline" /\ row.status = "success"
      BY <3>5, <3>6 DEF Rows
    <3> QED BY <3>2, <3>7 DEF OfEntry
  <2>9. open[p] = {} BY <1>1 DEF IInv, Table, OpenRows
  <2>10. Baselines(p) BY <1>1, <1>4, <2>6, <2>7, <2>8, <2>9 DEF Baselines, Step, Others, Away
  <2>11. Table' /\ Lasts /\ rows' \subseteq Rows BY <2>10, BaselinesTable DEF IInv
  <2>12. Data' BY <1>1, <2>6, <2>11 DEF IInv, TypeOK, Data
  <2> QED BY <1>1, <2>6, <2>11, <2>12, Moved
<1> QED BY <1>2, <1>3, <1>4

(* repair deletes what is not a success.                                   *)
LEMMA RepairHolds ==
    ASSUME NEW p \in Runners, IInv, Repair(p)
    PROVE  IInv'
<1>1. engine' = engine /\ lock' = lock /\ schema' = schema /\ open' = open /\ table' = table /\ pc[p] = "repair"
      /\ (engine.locks \/ Inspected)
  BY DEF Repair
<1>2. CASE Throw(p) /\ UNCHANGED <<rows, faults>>
  BY <1>1, <1>2, Throws
<1>3. CASE ~Refused(p) /\ rows' = Successes(rows) /\ Answer(p, "leave", job[p])
  <2>1. job[p].op = "repair" BY <1>1 DEF IInv, Locals, Promised
  <2>2. Promised(p, "leave", job[p]) BY <2>1 DEF Promised
  <2>3. "leave" \in Labels \ {"claim", "body", "mark", "verdict"} /\ "leave" \notin Inside BY DEF Labels, Inside
  <2>4. PICK k \in Labels \ {"claim", "body", "mark", "verdict"}, i \in Jobs :
          /\ Goto(p, k, i) /\ Promised(p, k, i) /\ i.op = job[p].op
          /\ k = "done" => i.op \notin {"apply", "verify"}
          /\ Locked(p, k) /\ pc'[p] = k /\ job'[p] = i
          /\ \A q \in Runners : q # p => pc'[q] = pc[q] /\ job'[q] = job[q]
          /\ faults' \in 0..MaxFaults[engine]
    BY <1>1, <1>3, <2>2, <2>3, JobIs, AnswerIs
  <2>5. open[p] = {} BY <1>1 DEF IInv, Table, OpenRows
  <2>6. Repairs(p) BY <1>1, <1>3, <2>4, <2>5 DEF Repairs, Step, Others, Away
  <2>7. Table' /\ Lasts /\ rows' \subseteq Rows BY <2>6, RepairsTable DEF IInv
  <2>8. Data' BY <1>1, <2>4, <2>7 DEF IInv, TypeOK, Data
  <2> QED BY <1>1, <2>4, <2>7, <2>8, Moved
<1> QED BY <1>2, <1>3 DEF Repair

(* schemaHash, from apply or baseline and from acceptSchema.                *)
LEMMA HashHolds ==
    ASSUME NEW p \in Runners, IInv, Record(p) \/ Stamp(p)
    PROVE  IInv'
<1>1. engine' = engine /\ lock' = lock /\ schema' = schema /\ open' = open /\ table' = table
      /\ pc[p] \in {"record", "stamp"}
  BY DEF Record, Stamp
<1>2. CASE Throw(p) /\ UNCHANGED <<rows, faults>>
  BY <1>1, <1>2, Throws
<1>3. CASE /\ \E rank \in Nat, by \in Runners, hash \in Nat : rows' = Hashed(rank, by, hash)
           /\ \E l \in {"report", "done", "leave"}, j \in Jobs :
                /\ Answer(p, l, j) /\ Promised(p, l, j) /\ j.op = job[p].op
                /\ l = "done" => j.op \notin {"apply", "verify"}
  <2>1. PICK l \in {"report", "done", "leave"}, j \in Jobs :
          /\ Answer(p, l, j) /\ Promised(p, l, j) /\ j.op = job[p].op
          /\ l = "done" => j.op \notin {"apply", "verify"}
    BY <1>3
  <2>2. l \in Labels \ {"claim", "body", "mark", "verdict"} /\ l \notin Inside BY DEF Labels, Inside
  <2>3. PICK k \in Labels \ {"claim", "body", "mark", "verdict"}, i \in Jobs :
          /\ Goto(p, k, i) /\ Promised(p, k, i) /\ i.op = job[p].op
          /\ k = "done" => i.op \notin {"apply", "verify"}
          /\ Locked(p, k) /\ pc'[p] = k /\ job'[p] = i
          /\ \A q \in Runners : q # p => pc'[q] = pc[q] /\ job'[q] = job[q]
          /\ faults' \in 0..MaxFaults[engine]
    BY <1>1, <2>1, <2>2, AnswerIs
  <2>4. open[p] = {} BY <1>1 DEF IInv, Table, OpenRows
  <2>5. Hashes(p) BY <1>1, <1>3, <2>3, <2>4 DEF Hashes, Step, Others, Away
  <2>6. Table' /\ Lasts /\ rows' \subseteq Rows BY <2>5, HashesTable DEF IInv
  <2>7. Data' BY <1>1, <2>3, <2>6 DEF IInv, TypeOK, Data
  <2> QED BY <1>1, <2>3, <2>6, <2>7, Moved
<1>4. job[p].op # "verify" BY <1>1 DEF IInv, Locals, Promised
<1>5. job[p] \in Jobs /\ job[p].hash \in Nat /\ job[p].last \in Nat BY JobIs DEF Jobs
<1>6. CASE Record(p)
  <2>1. PICK j : j = [job[p] EXCEPT !.hash = 0, !.last = 0] OBVIOUS
  <2>2. j \in Jobs /\ j.op = job[p].op BY <1>5, <2>1 DEF Jobs
  <2>3. PICK l : l = IF job[p].op = "apply" THEN "report" ELSE "done" OBVIOUS
  <2>4. l \in {"report", "done"} /\ (l = "done" => j.op \notin {"apply", "verify"}) BY <1>4, <2>2, <2>3
  <2>5. Promised(p, l, j) BY <2>4 DEF Promised
  <2> QED BY <1>2, <1>3, <1>5, <1>6, <2>1, <2>2, <2>3, <2>4, <2>5 DEF Record
<1>7. CASE Stamp(p)
  <2>1. PICK j : j = [job[p] EXCEPT !.hash = 0] OBVIOUS
  <2>2. j \in Jobs /\ j.op = job[p].op BY <1>5, <2>1 DEF Jobs
  <2>3. Promised(p, "leave", j) BY <1>4, <2>2 DEF Promised
  <2>4. job[p].row \in Rows BY <1>7 DEF Stamp, IInv, Locals, Promised
  <2>5. job[p].row.rank \in Nat /\ job[p].row.by \in Runners BY <2>4 DEF Rows
  <2> QED BY <1>2, <1>3, <1>5, <1>7, <2>1, <2>2, <2>3, <2>5 DEF Stamp
<1> QED BY <1>6, <1>7
-----------------------------------------------------------------------------
(* The initial states have the invariant.                                  *)
LEMMA StartsWith == Init => IInv
<1> SUFFICES ASSUME Init PROVE IInv
  OBVIOUS
<1>1. TypeOK
  <2>1. MaxFaults[engine] \in Nat BY MigrateConstants DEF Init
  <2>2. schema \in Seq(Nat \X Runners \X (1..Length)) BY DEF Init
  <2>3. open \in [Runners -> SUBSET Rows] /\ rows \subseteq Rows BY DEF Init
  <2>4. pc \in [Runners -> Labels] BY DEF Init, Labels
  <2>5. job \in [Runners -> Jobs] BY IdleIs DEF Init
  <2>6. engine \in Engines /\ table \in BOOLEAN /\ lock \in Runners \cup {Null} /\ faults = 0 BY DEF Init
  <2>7. faults \in 0..MaxFaults[engine] BY <2>1, <2>6
  <2> QED BY <2>2, <2>3, <2>4, <2>5, <2>6, <2>7 DEF TypeOK
<1>2. rows = {} /\ Len(schema) = 0 /\ DOMAIN schema = {}
      /\ \A p \in Runners : open[p] = {} /\ pc[p] = "new" /\ job[p].op = "apply"
  BY IdleIs DEF Init
<1>3. LockHeld /\ Locals BY <1>2 DEF LockHeld, Inside, Locals, Promised
<1>4. Ranked
  <2>1. 0 \in Nat OBVIOUS
  <2> QED BY <1>2, <2>1 DEF Ranked, Bounded
<1>5. OpenRows /\ OneOpen /\ Bodies /\ Fresh BY <1>2 DEF OpenRows, OneOpen, Bodies, Fresh, Chosen, Alone
<1>6. Pieces /\ OneRow /\ Owned BY <1>2 DEF Pieces, OneRow, RankedInOrder, Owned, Successes
<1>7. Atomic /\ RanInOrder BY <1>2 DEF Atomic, Part, Took, Successes, RanInOrder
<1>8. SeenHolds /\ Resolved BY <1>2 DEF SeenHolds, SeenAt, Resolved
<1> QED BY <1>1, <1>3, <1>4, <1>5, <1>6, <1>7, <1>8 DEF IInv, Table

(* Every step of every program keeps the invariant.                        *)
LEMMA StepsKeep == IInv /\ [Next]_vars => IInv'
<1> SUFFICES ASSUME IInv, [Next]_vars PROVE IInv'
  OBVIOUS
<1>1. CASE UNCHANGED vars
  <2> USE DEF vars
  <2>1. TypeOK' /\ LockHeld' /\ Locals'
    BY <1>1 DEF IInv, TypeOK, LockHeld, Locals, Promised, Attempt, OfEntry, Transactional
  <2>2. Ranked' /\ OpenRows' /\ OneOpen' /\ Pieces' /\ OneRow' /\ Owned'
    BY <1>1, SchemaSame DEF IInv, Table, Ranked, OpenRows, OneOpen, Pieces, OneRow, RankedInOrder, Owned, Unrepaired, Transactional
  <2>3. Bodies'
    BY <1>1 DEF IInv, Table, Bodies, Alone, AtTheEnd, Transactional
  <2>4. Fresh'
    <3>1. \A row : Next1(rows, row) => Next1(rows, row)' BY <1>1, SchemaSame DEF Next1
    <3>2. \A q \in Runners : (Chosen(q)' => Chosen(q)) /\ (Alone(q)' => Alone(q))
      BY <1>1 DEF Chosen, Alone, Taken, Transactional
    <3> QED BY <1>1, <3>1, <3>2 DEF IInv, Table, Fresh, After, Next1
  <2>5. Atomic' /\ RanInOrder'
    BY <1>1, SchemaSame DEF IInv, Table, Atomic, RanInOrder, Unrepaired
  <2>6. SeenHolds' /\ Resolved'
    BY <1>1, SchemaSame DEF IInv, SeenHolds, SeenAt, Resolved
  <2> QED BY <2>1, <2>2, <2>3, <2>4, <2>5, <2>6 DEF IInv, Table
<1>2. CASE Next
  <2>1. ASSUME NEW p \in Runners, Start(p) PROVE IInv' BY <2>1, StartHolds
  <2>2. ASSUME NEW p \in Runners, Work(p) PROVE IInv'
    <3>1. CASE Read(p) \/ Compared(p) \/ Verdict(p)
      BY <3>1, ReadHolds, ComparedHolds, VerdictHolds
    <3>2. CASE Enter(p) \/ LockTimeout(p) \/ Leave(p) \/ Inspect(p) \/ Record(p)
      BY <3>2, EnterHolds, LockTimeoutHolds, LeaveHolds, InspectHolds, HashHolds
    <3>3. CASE Look(p) \/ Bootstrap(p) \/ Retry(p) \/ Claim(p) \/ Statement(p) \/ Finish(p) \/ Mark(p)
      BY <3>3, LookHolds, BootstrapHolds, RetryHolds, ClaimHolds, StatementHolds, FinishHolds, MarkHolds
    <3>4. CASE Baseline(p) \/ Repair(p) \/ Choose(p) \/ Survey(p) \/ Stamp(p)
      BY <3>4, BaselineHolds, RepairHolds, ChooseHolds, InspectHolds, HashHolds
    <3> QED BY <2>2, <3>1, <3>2, <3>3, <3>4 DEF Work
  <2>3. ASSUME NEW p \in Runners, GiveUp(p) \/ Broken(p) \/ Crash(p) PROVE IInv' BY <2>3, StopsHold
  <2>4. CASE Quiet BY <1>1, <2>4 DEF Quiet
  <2> QED BY <1>2, <2>1, <2>2, <2>3, <2>4 DEF Next
<1> QED BY <1>1, <1>2

(* In every reachable state of the runner the invariant holds, for every   *)
(* set of programs, manifests and engines that meets the assumptions       *)
(* (index.ts runMigrations and History of the migrate package).            *)
THEOREM MigrationInductive == Spec => []IInv
BY StartsWith, StepsKeep, PTL DEF Spec

(* The history, the schema and the locals of the programs have their       *)
(* types: every row the runner writes is a row of the table it creates.    *)
THEOREM MigrateTyped == Spec => []TypeOK
<1>1. IInv => TypeOK BY DEF IInv
<1> QED BY <1>1, MigrationInductive, PTL

(* Statements of one version have one row, and rows of one program.         *)
LEMMA OnceFromOwned == IInv => RunOnce
<1> SUFFICES ASSUME IInv, Unrepaired, NEW i \in DOMAIN schema, NEW k \in DOMAIN schema,
                    schema[i][1] = schema[k][1], schema[i][1] \in Versions
             PROVE  schema[i][2] = schema[k][2]
  BY DEF RunOnce
<1>1. PICK r \in rows : r.kind # "baseline" /\ r.source = schema[i][1] /\ r.by = schema[i][2]
  BY DEF IInv, Table, Owned
<1>2. PICK s \in rows : s.kind # "baseline" /\ s.source = schema[k][1] /\ s.by = schema[k][2]
  BY DEF IInv, Table, Owned
<1>3. PICK e \in Entries : e.version # 0 /\ e.source = r.source BY <1>1 DEF Versions
<1>4. OfEntry(r) /\ OfEntry(s) BY DEF IInv, Table, Ranked
<1>5. r.version = e.version /\ s.version = e.version BY <1>1, <1>2, <1>3, <1>4, OneVersion
<1>6. r.kind = "versioned" /\ s.kind = "versioned"
  BY <1>1, <1>2, <1>3, <1>4, <1>5 DEF OfEntry, IInv, TypeOK, Rows
<1>7. r = s BY <1>5, <1>6 DEF IInv, Table, OneRow, RankedInOrder
<1> QED BY <1>1, <1>2, <1>7

(* Two programs that run apply at the same time never run bodies at the    *)
(* same time, and until someone repairs a version is run by one of them:   *)
(* the claim by rank of index.ts, with the lock, without one and where the *)
(* database refuses to wait.                                               *)
THEOREM StartedOnceHolds == Spec => []StartedOnce
<1>1. IInv => OneBody BY Apart DEF IInv, OneBody
<1>2. IInv => StartedOnce BY <1>1, OnceFromOwned DEF StartedOnce
<1> QED BY <1>2, MigrationInductive, PTL

(* apply starts no body while the history has a failed or running row      *)
(* whose statements are not all there (the check of incomplete rows before *)
(* a claim).                                                               *)
THEOREM NothingPartialHolds == Spec => NothingPartial
<1>1. ASSUME IInv, [Next]_vars, NEW p \in Runners, pc[p] # "body", pc'[p] = "body", NEW r \in Incomplete(rows)
      PROVE  Whole(r.source, r.by)
  <2>1. PICK q \in Runners : Claim(q) /\ pc'[p] # pc[p]
    <3>1. pc \in [Runners -> Labels] BY <1>1 DEF IInv, TypeOK
    <3>2. ASSUME NEW q \in Runners, Claim(q) \/ (\E l, j : Goto(q, l, j) /\ (l # "body" \/ pc[q] = "body"))
          PROVE  Claim(q)
      BY <1>1, <3>1, <3>2 DEF Goto
    <3>3. ASSUME NEW q \in Runners
          PROVE  /\ Throw(q) \/ Stop(q, "failed") \/ Stop(q, "crashed") => Claim(q)
                 /\ \A l, j : Goto(q, l, j) /\ l # "body" => Claim(q)
                 /\ \A l, j : Answer(q, l, j) /\ l # "body" => Claim(q)
      BY <3>2 DEF Throw, Stop, Answer
    <3>4. ASSUME NEW q \in Runners, Start(q) \/ Work(q) \/ GiveUp(q) \/ Broken(q) \/ Crash(q)
          PROVE  Claim(q)
      <4>1. CASE Start(q)
        <5>1. PICK l, j : l \in {"before", "report", "enter"} /\ Goto(q, l, j) BY <4>1 DEF Start
        <5> QED BY <3>3, <5>1
      <4>2. CASE Read(q) \/ Compared(q) \/ Verdict(q)
        BY <3>3, <4>2 DEF Read, Compared, Verdict
      <4>3. CASE GiveUp(q) \/ Broken(q) \/ Crash(q)
        BY <3>3, <4>3 DEF GiveUp, Broken, Crash
      <4>4. CASE Enter(q) \/ LockTimeout(q) \/ Leave(q) \/ Inspect(q) \/ Record(q)
        BY <3>3, <4>4 DEF Enter, LockTimeout, Leave, Inspect, Record
      <4>5. CASE Look(q) \/ Bootstrap(q) \/ Retry(q) \/ Mark(q)
        BY <3>3, <4>5 DEF Look, Bootstrap, Retry, Mark
      <4>6. CASE Statement(q) \/ Finish(q)
        BY <3>2, <3>3, <4>6 DEF Statement, Finish, Succeed
      <4>7. CASE Baseline(q) \/ Repair(q) \/ Stamp(q)
        BY <3>3, <4>7 DEF Baseline, Repair, Stamp
      <4>8. CASE Choose(q) \/ Survey(q)
        BY <3>3, <4>8 DEF Choose, Survey
      <4> QED BY <3>4, <4>1, <4>2, <4>3, <4>4, <4>5, <4>6, <4>7, <4>8 DEF Work
    <3> QED BY <1>1, <3>4 DEF Next, Quiet, vars
  <2>2. Claim(p) /\ ~Taken(job[p].row.rank) /\ pc[p] = "claim"
    <3>1. pc \in [Runners -> Labels] BY <1>1 DEF IInv, TypeOK
    <3>2. q = p BY <2>1, <3>1 DEF Claim, Goto, Answer, Throw
    <3> QED BY <1>1, <2>1, <3>1, <3>2 DEF Claim, Goto
  <2>3. Next1(rows, job[p].row) BY <1>1, <2>2 DEF IInv, Table, Fresh, Chosen
  <2> QED BY <1>1, <2>3 DEF Next1, Incomplete, Successes, IInv, TypeOK, Rows
<1>2. IInv /\ [Next]_vars =>
        [\A p \in Runners :
           pc[p] # "body" /\ pc'[p] = "body" => \A r \in Incomplete(rows) : Whole(r.source, r.by)]_vars
  BY <1>1
<1> QED BY <1>2, MigrationInductive, PTL DEF Spec, NothingPartial

(* A body that runs in a transaction is there exactly if its success row   *)
(* is, whatever fails or crashes between claim and finish.                 *)
THEOREM AtomicHolds == Spec => []Atomic
<1>1. IInv => Atomic BY DEF IInv, Table
<1> QED BY <1>1, MigrationInductive, PTL

(* The statements of a success row are in the schema in one piece.         *)
LEMMA RecordIsWhole == IInv => SuccessIsWhole
<1> SUFFICES ASSUME IInv, NEW r \in Successes(rows), r.kind # "baseline"
             PROVE  \E i \in 1..Len(schema) : /\ i + Length - 1 <= Len(schema)
                                             /\ SubSeq(schema, i, i + Length - 1) = Body(r.source, r.by)
  BY DEF SuccessIsWhole
<1>1. PICK k \in DOMAIN schema :
        \A i \in 1..Length : k + i - 1 \in DOMAIN schema /\ schema[k + i - 1] = Body(r.source, r.by)[i]
  BY DEF IInv, Table, Pieces, Piece
<1>2. Len(schema) \in Nat /\ DOMAIN schema = 1..Len(schema) /\ schema \in Seq(Nat \X Runners \X (1..Length))
  BY DEF IInv, TypeOK
<1>3. r.source \in Nat /\ r.by \in Runners BY DEF IInv, TypeOK, Rows, Successes
<1>4. Length \in Nat /\ Length \in 1..Length BY DEF Length
<1>5. k \in 1..Len(schema) /\ k + Length - 1 <= Len(schema) BY <1>1, <1>2, <1>4
<1>6. SubSeq(schema, k, k + Length - 1) = Body(r.source, r.by)
  <2> DEFINE X == Nat \X Runners \X (1..Length)
  <2>1. PICK b \in Seq(X) : b = Body(r.source, r.by) /\ Len(b) = Length BY <1>3, BodyIs
  <2>2. PICK n : n = k + Length - 1 OBVIOUS
  <2>3. schema \in Seq(X) BY <1>2
  <2> HIDE DEF X
  <2>4. k \in Nat /\ n \in Nat /\ 1 <= k /\ k <= n /\ n <= Len(schema) /\ n - k + 1 = Length
    BY <1>2, <1>5, <2>2 DEF Length
  <2>5. \A i \in k..n : schema[i] \in X
    <3>1. \A i \in k..n : i \in 1..Len(schema) BY <1>2, <2>4
    <3>2. \A i \in 1..Len(schema) : schema[i] \in X BY <1>2, <2>3
    <3> QED BY <3>1, <3>2
  <2>6. /\ SubSeq(schema, k, n) \in Seq(X) /\ Len(SubSeq(schema, k, n)) = Length
        /\ \A i \in 1..Length : SubSeq(schema, k, n)[i] = schema[k + i - 1]
    BY <2>4, <2>5, SubSeqProperties
  <2>7. SubSeq(schema, k, n) = b BY <1>1, <2>1, <2>6, SeqEqual
  <2> QED BY <2>1, <2>2, <2>7
<1> QED BY <1>5, <1>6

(* apply runs versions in ascending order until someone repairs, across    *)
(* programs with different manifests, and always records them in it (next  *)
(* entry and nextRank of index.ts).                                        *)
THEOREM OrderedHolds == Spec => []Ordered
<1>1. IInv => Ordered BY DEF IInv, Table, OneRow, Ordered
<1> QED BY <1>1, MigrationInductive, PTL
-----------------------------------------------------------------------------
(* The recorded hash, and with it all of Evidence.                         *)
(*                                                                         *)
(* As long as nothing failed, the last row of the history has the hash of  *)
(* the schema, or its program is still on its way to record it. Who        *)
(* inspected the schema before the last statement of another program has a *)
(* row before that program's.                                              *)

(* Where a program that rejects stands, and where it has applied nothing.   *)
Steady(l, j) ==
    /\ j.ok \/ l \in {"leave", "failed", "crashed"}
    /\ l \in {"new", "before", "compare", "enter", "baseline"} => j.last = 0
    /\ j.op = "baseline" => l \notin {"waiting", "claim", "body", "mark"} /\ (l = "look" => j.last = 0)
AllSteady == \A p \in Runners : Steady(pc[p], job[p])

(* Nothing failed so far, and no program is on its way to reject.          *)
Well == \A p \in Runners : pc[p] \notin {"mark", "failed", "crashed"} /\ job[p].ok

Greatest(R, m) == m \in R /\ \A r \in R : r.rank <= m.rank

(* A body outside a transaction is that of the last row.                   *)
AtTop == \A p \in Runners : Alone(p) => Greatest(rows, job[p].row)

(* Before the inspection of what a program has applied.                    *)
Unseen == {"look", "waiting", "claim", "body", "leave", "inspect"}

(* The program of row m runs its body, has yet to inspect the schema, or    *)
(* has just done so.                                                       *)
Owes(p, m) ==
    \/ Alone(p) /\ job[p].row = m
    \/ /\ job[p].last = m.rank
       /\ pc[p] \in Unseen \/ (pc[p] = "record" /\ job[p].hash = Len(schema))

NoneLost == \A r \in rows : r.status = "success" \/ (Alone(r.by) /\ job[r.by].row = r)
LastHashed == \A m \in rows : Greatest(rows, m) => m.hash = Len(schema) \/ Owes(m.by, m)

(* A hash that is about to be written on the last row is that of the        *)
(* schema.                                                                 *)
Current ==
    \A p \in Runners :
        /\ pc[p] = "record" => \A m \in rows :
             Greatest(rows, m) /\ m.by = p /\ m.rank = job[p].last => job[p].hash = Len(schema)
        /\ pc[p] \in {"accept", "stamp"} => \E r \in Successes(rows) : r.rank = job[p].row.rank
        /\ pc[p] = "stamp" => \A m \in rows :
             Greatest(rows, m) /\ m.status = "success" /\ m.rank = job[p].row.rank => job[p].hash = Len(schema)

HInv == AllSteady /\ AtTop /\ (Well => NoneLost /\ LastHashed /\ Current)

(* What a step of p is to the other programs.                              *)
Moves(p, l, j) ==
    /\ engine' = engine /\ pc'[p] = l /\ job'[p] = j
    /\ \A q \in Runners : q # p => pc'[q] = pc[q] /\ job'[q] = job[q]
-----------------------------------------------------------------------------
(* Every action moves one program.                                         *)
LEMMA MovesOne ==
    ASSUME NEW p \in Runners, NEW l, NEW j, IInv, Goto(p, l, j), engine' = engine
    PROVE  Moves(p, l, j)
BY DEF IInv, TypeOK, Goto, Moves

(* Whoever did not move runs its body if it did.                           *)
LEMMA AloneStays ==
    ASSUME NEW p \in Runners, NEW l, NEW j, Moves(p, l, j)
    PROVE  /\ \A q \in Runners : q # p => (Alone(q)' <=> Alone(q))
           /\ Alone(p)' <=> l = "body" /\ ~Transactional(j.row)
BY DEF Moves, Alone, Transactional

(* A program that fails, or is going to reject, leaves only the place of    *)
(* other bodies to be shown.                                               *)
LEMMA Spoils ==
    ASSUME NEW p \in Runners, NEW l, NEW j, IInv, IInv', HInv, Moves(p, l, j),
           l # "body", Steady(l, j), ~Well',
           \A q \in Runners : q # p /\ Alone(q) => \A r \in rows' : r.rank <= job[q].row.rank
    PROVE  HInv'
<1>1. AllSteady' BY DEF HInv, AllSteady, Moves
<1>2. AtTop'
  <2> SUFFICES ASSUME NEW q \in Runners, Alone(q)' PROVE Greatest(rows', job'[q].row)
    BY DEF AtTop
  <2>1. q # p /\ Alone(q) /\ job'[q] = job[q] BY AloneStays DEF Moves
  <2>2. job'[q].row \in rows' BY DEF IInv, Table, Bodies
  <2> QED BY <2>1, <2>2 DEF Greatest
<1> QED BY <1>1, <1>2 DEF HInv

(* The same where the rows are not touched, or lose some.                  *)
LEMMA Fails1 ==
    ASSUME NEW p \in Runners, NEW l, NEW j, IInv, IInv', HInv, Goto(p, l, j), engine' = engine,
           l # "body", Steady(l, j), l \in {"mark", "failed", "crashed"} \/ ~j.ok,
           \A s \in rows' : \E r \in rows : r.rank = s.rank
    PROVE  HInv'
<1>1. Moves(p, l, j) BY MovesOne
<1>2. ~Well' BY <1>1 DEF Well, Moves
<1>3. ASSUME NEW q \in Runners, Alone(q) PROVE \A r \in rows' : r.rank <= job[q].row.rank
  BY <1>3 DEF HInv, AtTop, Greatest
<1> QED BY <1>1, <1>2, <1>3, Spoils

(* Throw and Stop are such steps.                                          *)
LEMMA Rejects ==
    ASSUME NEW p \in Runners, NEW l \in {"leave", "failed", "crashed"}, IInv, IInv', HInv,
           Goto(p, l, [Idle EXCEPT !.op = job[p].op, !.ok = FALSE]), engine' = engine,
           \A s \in rows' : \E r \in rows : r.rank = s.rank
    PROVE  HInv'
<1>1. PICK j : j = [Idle EXCEPT !.op = job[p].op, !.ok = FALSE] OBVIOUS
<1>2. j.ok = FALSE BY <1>1 DEF Idle
<1>3. Steady(l, j) BY <1>2 DEF Steady
<1> QED BY <1>1, <1>2, <1>3, Fails1

(* A step of a program that goes on and leaves rows and schema alone: what  *)
(* it owes it goes on to owe, and a hash it takes is that of the schema.    *)
LEMMA GoesOn ==
    ASSUME NEW p \in Runners, NEW l, NEW j, IInv, IInv', HInv, Goto(p, l, j),
           engine' = engine, Well' => rows' = rows, schema' = schema,
           \A s \in rows' : \E r \in rows : r.rank = s.rank,
           pc[p] \notin {"record", "mark", "failed", "crashed"}, ~Alone(p), job[p].ok,
           Steady(l, j),
           l = "body" => Transactional(j.row),
           pc[p] \in Unseen /\ job[p].last # 0 => j.last = job[p].last /\ (l \in Unseen \/ l = "record"),
           l \in {"record", "stamp"} => j.hash = Len(schema),
           Well /\ l \in {"accept", "stamp"} => \E r \in Successes(rows) : r.rank = j.row.rank
    PROVE  HInv'
<1>1. Moves(p, l, j) BY MovesOne
<1>2. Well' => Well
  BY <1>1 DEF Well, Moves
<1>3. AllSteady' BY <1>1 DEF HInv, AllSteady, Moves
<1>4. /\ \A q \in Runners : q # p => (Alone(q)' <=> Alone(q))
      /\ ~Alone(p)'
  BY <1>1, AloneStays
<1>5. AtTop'
  <2> SUFFICES ASSUME NEW q \in Runners, Alone(q)' PROVE Greatest(rows', job'[q].row)
    BY DEF AtTop
  <2>1. q # p /\ Alone(q) /\ job'[q] = job[q] BY <1>1, <1>4 DEF Moves
  <2>2. job'[q].row \in rows' BY DEF IInv, Table, Bodies
  <2> QED BY <2>1, <2>2 DEF HInv, AtTop, Greatest
<1> SUFFICES ASSUME Well' PROVE (NoneLost /\ LastHashed /\ Current)'
  BY <1>3, <1>5 DEF HInv
<1>6. NoneLost /\ LastHashed /\ Current /\ rows' = rows BY <1>2 DEF HInv
<1>7. \A r \in rows : r.by \in Runners /\ r.rank # 0 BY DEF IInv, TypeOK, Rows
<1>8. NoneLost'
  <2> SUFFICES ASSUME NEW r \in rows, r.status # "success" PROVE Alone(r.by)' /\ job'[r.by].row = r
    BY <1>6 DEF NoneLost
  <2>1. r.by \in Runners /\ Alone(r.by) /\ job[r.by].row = r BY <1>6, <1>7 DEF NoneLost
  <2>2. r.by # p BY <2>1
  <2> QED BY <1>1, <1>4, <2>1, <2>2 DEF Moves
<1>9. LastHashed'
  <2> SUFFICES ASSUME NEW m \in rows, Greatest(rows, m), m.hash # Len(schema) PROVE Owes(m.by, m)'
    BY <1>6 DEF LastHashed
  <2>1. Owes(m.by, m) /\ m.by \in Runners /\ m.rank # 0 BY <1>6, <1>7 DEF LastHashed
  <2>2. CASE m.by # p
    BY <1>1, <1>4, <2>1, <2>2 DEF Owes, Moves
  <2>3. CASE m.by = p
    <3>1. job[p].last = m.rank /\ pc[p] \in Unseen BY <2>1, <2>3 DEF Owes
    <3> QED BY <1>1, <2>1, <2>3, <3>1 DEF Owes, Moves
  <2> QED BY <2>2, <2>3
<1>10. Current'
  <2> SUFFICES ASSUME NEW q \in Runners
      PROVE /\ pc'[q] = "record" => \A m \in rows :
                 Greatest(rows, m) /\ m.by = q /\ m.rank = job'[q].last => job'[q].hash = Len(schema)
            /\ pc'[q] \in {"accept", "stamp"} => \E r \in Successes(rows) : r.rank = job'[q].row.rank
            /\ pc'[q] = "stamp" => \A m \in rows :
                 Greatest(rows, m) /\ m.status = "success" /\ m.rank = job'[q].row.rank => job'[q].hash = Len(schema)
    BY <1>6 DEF Current
  <2>1. CASE q # p BY <1>1, <1>6, <2>1 DEF Current, Moves
  <2>2. CASE q = p BY <1>1, <1>2, <2>2 DEF Moves
  <2> QED BY <2>1, <2>2
<1> QED BY <1>8, <1>9, <1>10

(* schemaHash by a program that goes on: a last row gets the hash of the    *)
(* schema, the others are not last.                                        *)
LEMMA Writes ==
    ASSUME NEW p \in Runners, NEW l \in {"report", "done", "leave"}, NEW j, IInv, IInv', HInv, Goto(p, l, j),
           NEW rank \in Nat, NEW by \in Runners, NEW hash \in Nat,
           engine' = engine, schema' = schema, rows' = Hashed(rank, by, hash),
           pc[p] \in {"record", "stamp"}, job[p].ok, Steady(l, j),
           pc[p] = "record" => rank = job[p].last /\ by = p /\ hash = job[p].hash,
           pc[p] = "stamp" => rank = job[p].row.rank /\ hash = job[p].hash
    PROVE  HInv'
<1>1. Moves(p, l, j) BY MovesOne
<1>2. Well' => Well
  BY <1>1 DEF Well, Moves
<1>3. AllSteady' BY <1>1 DEF HInv, AllSteady, Moves
<1>4. /\ \A q \in Runners : q # p => (Alone(q)' <=> Alone(q))
      /\ ~Alone(p)' /\ ~Alone(p)
  BY <1>1, AloneStays DEF Alone
<1>5. /\ \A s \in rows' : \E r \in rows :
           /\ Alike(r, s) /\ r.status = s.status /\ (r.status # "success" => r = s)
           /\ r.rank = rank /\ r.by = by /\ r.status = "success" => s.hash = hash
           /\ s # r => r.rank = rank /\ r.by = by /\ r.status = "success"
      /\ \A r \in rows : \E s \in rows' : Alike(r, s) /\ r.status = s.status
  <2> DEFINE h(r) == IF r.rank = rank /\ r.by = by /\ r.status = "success" THEN [r EXCEPT !.hash = hash] ELSE r
  <2>1. rows' = {h(r) : r \in rows} BY DEF Hashed
  <2>2. \A r \in rows : /\ Alike(r, h(r)) /\ r.status = h(r).status /\ (r.status # "success" => r = h(r))
                        /\ r.rank = rank /\ r.by = by /\ r.status = "success" => h(r).hash = hash
                        /\ ~(r.rank = rank /\ r.by = by /\ r.status = "success") => h(r) = r
    BY DEF Alike, IInv, TypeOK, Rows
  <2> HIDE DEF h
  <2> QED BY <2>1, <2>2
<1>6. AtTop'
  <2> SUFFICES ASSUME NEW q \in Runners, Alone(q)' PROVE Greatest(rows', job'[q].row)
    BY DEF AtTop
  <2>1. q # p /\ Alone(q) /\ job'[q] = job[q] BY <1>1, <1>4 DEF Moves
  <2>2. job'[q].row \in rows' BY DEF IInv, Table, Bodies
  <2> QED BY <1>5, <2>1, <2>2 DEF HInv, AtTop, Greatest, Alike
<1> SUFFICES ASSUME Well' PROVE (NoneLost /\ LastHashed /\ Current)'
  BY <1>3, <1>6 DEF HInv
<1>7. NoneLost /\ LastHashed /\ Current BY <1>2 DEF HInv
<1>8. \A r \in rows : r.by \in Runners /\ r.rank # 0 BY DEF IInv, TypeOK, Rows
<1>9. NoneLost'
  <2> SUFFICES ASSUME NEW s \in rows', s.status # "success" PROVE Alone(s.by)' /\ job'[s.by].row = s
    BY DEF NoneLost
  <2>1. s \in rows BY <1>5
  <2>2. s.by \in Runners /\ Alone(s.by) /\ job[s.by].row = s BY <1>7, <1>8, <2>1 DEF NoneLost
  <2> QED BY <1>1, <1>4, <2>2 DEF Moves
<1>10. ASSUME NEW s \in rows', Greatest(rows', s), NEW r \in rows, Alike(r, s)
       PROVE  Greatest(rows, r)
  BY <1>5, <1>10 DEF Greatest, Alike
<1>11. \A m \in rows : Greatest(rows, m) /\ m.rank = rank /\ m.by = by /\ m.status = "success" => hash = Len(schema)
  BY <1>7 DEF Current
<1>12. LastHashed'
  <2> SUFFICES ASSUME NEW s \in rows', Greatest(rows', s), s.hash # Len(schema) PROVE Owes(s.by, s)'
    BY DEF LastHashed
  <2>1. PICK r \in rows : /\ Alike(r, s) /\ r.status = s.status
                          /\ r.rank = rank /\ r.by = by /\ r.status = "success" => s.hash = hash
                          /\ s # r => r.rank = rank /\ r.by = by /\ r.status = "success"
    BY <1>5
  <2>2. Greatest(rows, r) BY <1>10, <2>1
  <2>3. ~(r.rank = rank /\ r.by = by /\ r.status = "success") BY <1>11, <2>1, <2>2
  <2>4. s = r BY <2>1, <2>3
  <2>5. Owes(r.by, r) /\ r.by \in Runners BY <1>7, <1>8, <2>2, <2>4 DEF LastHashed
  <2>6. r.by # p
    <3> SUFFICES ASSUME r.by = p PROVE FALSE
      OBVIOUS
    <3>1. pc[p] = "record" /\ job[p].last = r.rank BY <1>4, <2>5 DEF Owes, Unseen
    <3>2. r.status = "success" BY <1>4, <1>7 DEF NoneLost
    <3> QED BY <2>3, <3>1, <3>2
  <2> QED BY <1>1, <1>4, <2>4, <2>5, <2>6 DEF Owes, Moves
<1>13. Current'
  <2> SUFFICES ASSUME NEW q \in Runners
      PROVE /\ pc'[q] = "record" => \A s \in rows' :
                 Greatest(rows', s) /\ s.by = q /\ s.rank = job'[q].last => job'[q].hash = Len(schema)
            /\ pc'[q] \in {"accept", "stamp"} => \E s \in Successes(rows') : s.rank = job'[q].row.rank
            /\ pc'[q] = "stamp" => \A s \in rows' :
                 Greatest(rows', s) /\ s.status = "success" /\ s.rank = job'[q].row.rank => job'[q].hash = Len(schema)
    BY DEF Current
  <2>1. CASE q # p
    <3>1. pc'[q] = pc[q] /\ job'[q] = job[q] BY <1>1, <2>1 DEF Moves
    <3>2. \A s \in rows' : Greatest(rows', s) =>
            \E r \in rows : Greatest(rows, r) /\ r.by = s.by /\ r.rank = s.rank /\ r.status = s.status
      <4> SUFFICES ASSUME NEW s \in rows', Greatest(rows', s)
                   PROVE  \E r \in rows : Greatest(rows, r) /\ r.by = s.by /\ r.rank = s.rank /\ r.status = s.status
        OBVIOUS
      <4>1. PICK r \in rows : Alike(r, s) /\ r.status = s.status BY <1>5
      <4>2. Greatest(rows, r) BY <1>10, <4>1
      <4> QED BY <4>1, <4>2 DEF Alike
    <3>3. pc[q] \in {"accept", "stamp"} => \E s \in Successes(rows') : s.rank = job[q].row.rank
      <4> SUFFICES ASSUME pc[q] \in {"accept", "stamp"} PROVE \E s \in Successes(rows') : s.rank = job[q].row.rank
        OBVIOUS
      <4>1. PICK r \in rows : r.status = "success" /\ r.rank = job[q].row.rank BY <1>7 DEF Current, Successes
      <4> QED BY <1>5, <4>1 DEF Successes, Alike
    <3> QED BY <1>7, <3>1, <3>2, <3>3 DEF Current
  <2>2. CASE q = p BY <1>1, <2>2 DEF Moves
  <2> QED BY <2>1, <2>2
<1> QED BY <1>9, <1>12, <1>13

(* A statement outside a transaction: the last row is that of its program,  *)
(* which has yet to inspect the schema.                                    *)
LEMMA Runs1 ==
    ASSUME NEW p \in Runners, NEW j, IInv, IInv', HInv, Goto(p, "body", j),
           engine' = engine, rows' = rows, Alone(p), job[p].ok,
           j.row = job[p].row, Steady("body", j)
    PROVE  HInv'
<1>1. Moves(p, "body", j) BY MovesOne
<1>2. Well' => Well
  BY <1>1 DEF Well, Moves, Alone
<1>3. AllSteady' BY <1>1 DEF HInv, AllSteady, Moves
<1>4. \A q \in Runners : Alone(q)' <=> Alone(q)
  <2>1. Alone(p)' BY <1>1, AloneStays DEF Alone, Transactional
  <2> QED BY <1>1, <2>1, AloneStays
<1>5. \A q \in Runners : job'[q].row = job[q].row BY <1>1 DEF Moves
<1>6. AtTop' BY <1>4, <1>5 DEF HInv, AtTop
<1> SUFFICES ASSUME Well' PROVE (NoneLost /\ LastHashed /\ Current)'
  BY <1>3, <1>6 DEF HInv
<1>7. NoneLost /\ Current BY <1>2 DEF HInv
<1>8. \A r \in rows : r.by \in Runners /\ r.rank \in Nat BY DEF IInv, TypeOK, Rows
<1>9. NoneLost' BY <1>4, <1>5, <1>7, <1>8 DEF NoneLost
<1>10. PICK row \in rows : row = job[p].row /\ Greatest(rows, row) /\ row.by = p /\ row.status = "running"
  BY DEF HInv, AtTop, Greatest, IInv, Locals, Promised, Attempt, Alone
<1>11. \A m \in rows : Greatest(rows, m) => m = row
  BY <1>8, <1>10 DEF Greatest, IInv, Table, Ranked
<1>12. LastHashed' BY <1>4, <1>5, <1>10, <1>11 DEF LastHashed, Owes
<1>13. Current'
  <2>1. \A q \in Runners : pc'[q] # "body" => q # p /\ pc'[q] = pc[q] /\ job'[q] = job[q]
    BY <1>1 DEF Moves
  <2> QED BY <1>7, <1>10, <1>11, <2>1 DEF Current
<1> QED BY <1>9, <1>12, <1>13

(* A row is inserted after all others, by a program that now owes its hash, *)
(* alone in its body.                                                      *)
LEMMA Claims1 ==
    ASSUME NEW p \in Runners, NEW row \in Rows, IInv, IInv', HInv, Goto(p, "body", job[p]),
           engine' = engine, rows' = rows \cup {row}, job[p].ok, pc[p] = "claim",
           row = job[p].row, ~Transactional(row), row.by = p, row.status = "running",
           \A r \in rows : r.rank < row.rank, \A q \in Runners : ~Alone(q)
    PROVE  HInv'
<1>1. Moves(p, "body", job[p]) BY MovesOne
<1>2. Well' => Well
  BY <1>1 DEF Well, Moves
<1>3. AllSteady'
  <2>1. Steady("body", job[p]) BY DEF HInv, AllSteady, Steady
  <2> QED BY <1>1, <2>1 DEF HInv, AllSteady, Moves
<1>4. Alone(p)' /\ \A q \in Runners : q # p => ~Alone(q)'
  BY <1>1, AloneStays
<1>5. \A r \in rows : r.by \in Runners /\ r.rank \in Nat BY DEF IInv, TypeOK, Rows
<1>6. row.rank \in Nat BY DEF Rows
<1>7. \A m : Greatest(rows', m) <=> m = row
  BY <1>5, <1>6 DEF Greatest
<1>8. AtTop' BY <1>1, <1>4, <1>7 DEF AtTop, Moves
<1> SUFFICES ASSUME Well' PROVE (NoneLost /\ LastHashed /\ Current)'
  BY <1>3, <1>8 DEF HInv
<1>9. NoneLost /\ Current BY <1>2 DEF HInv
<1>10. NoneLost'
  <2>1. \A r \in rows : r.status = "success" BY <1>5, <1>9 DEF NoneLost
  <2> QED BY <1>1, <1>4, <2>1 DEF NoneLost, Moves
<1>11. LastHashed' BY <1>1, <1>4, <1>7 DEF LastHashed, Owes, Moves
<1>12. Current'
  <2>1. \A q \in Runners : pc'[q] # "body" => q # p /\ pc'[q] = pc[q] /\ job'[q] = job[q]
    BY <1>1 DEF Moves
  <2>2. Successes(rows) \subseteq Successes(rows') BY DEF Successes
  <2>3. ASSUME NEW q \in Runners, pc'[q] = "record", NEW m \in rows', Greatest(rows', m), m.by = q PROVE FALSE
    BY <1>7, <2>1, <2>3
  <2>4. ASSUME NEW q \in Runners, pc'[q] = "stamp", NEW m \in rows', Greatest(rows', m), m.status = "success"
        PROVE  FALSE
    BY <1>7, <2>4
  <2>5. ASSUME NEW q \in Runners, pc'[q] \in {"accept", "stamp"}
        PROVE  \E r \in Successes(rows') : r.rank = job'[q].row.rank
    <3>1. pc[q] \in {"accept", "stamp"} /\ job'[q] = job[q] BY <2>1, <2>5
    <3> QED BY <1>9, <2>2, <3>1 DEF Current
  <2> QED BY <2>3, <2>4, <2>5 DEF Current
<1> QED BY <1>10, <1>11, <1>12

(* A success becomes the last row and the program remembers its rank.      *)
LEMMA Succeeds ==
    ASSUME NEW p \in Runners, NEW row \in Rows, NEW won \in Rows, NEW j, IInv, IInv', HInv, Goto(p, "look", j),
           engine' = engine, rows' = (rows \ {row}) \cup {won},
           job[p].ok, pc[p] = "body", Steady("look", j),
           row.by = p, won.by = p, won.rank = row.rank, won.status = "success", j.last = row.rank,
           row \in rows <=> Alone(p), row = job[p].row, row.status = "running",
           \A r \in rows : r # row => r.rank < row.rank,
           \A q \in Runners : q # p => ~Alone(q)
    PROVE  HInv'
<1>1. Moves(p, "look", j) BY MovesOne
<1>2. Well' => Well
  BY <1>1 DEF Well, Moves
<1>3. AllSteady' BY <1>1 DEF HInv, AllSteady, Moves
<1>4. \A q \in Runners : ~Alone(q)'
  BY <1>1, AloneStays
<1>5. \A r \in rows : r.by \in Runners /\ r.rank \in Nat BY DEF IInv, TypeOK, Rows
<1>6. row.rank \in Nat BY DEF Rows
<1>7. \A m : Greatest(rows', m) <=> m = won
  BY <1>5, <1>6 DEF Greatest
<1>8. AtTop' BY <1>4 DEF AtTop
<1> SUFFICES ASSUME Well' PROVE (NoneLost /\ LastHashed /\ Current)'
  BY <1>3, <1>8 DEF HInv
<1>9. NoneLost /\ Current BY <1>2 DEF HInv
<1>10. NoneLost'
  <2>1. ASSUME NEW r \in rows, r # row PROVE r.status = "success"
    <3> SUFFICES ASSUME r.status # "success" PROVE FALSE
      OBVIOUS
    <3>1. Alone(r.by) /\ job[r.by].row = r BY <1>9 DEF NoneLost
    <3>2. r.by = p BY <1>5, <3>1
    <3> QED BY <2>1, <3>1, <3>2
  <2> QED BY <2>1 DEF NoneLost
<1>11. LastHashed' BY <1>1, <1>7 DEF LastHashed, Owes, Unseen, Moves
<1>12. Current'
  <2>1. \A q \in Runners : pc'[q] # "look" => q # p /\ pc'[q] = pc[q] /\ job'[q] = job[q]
    BY <1>1 DEF Moves
  <2>2. ASSUME NEW q \in Runners, pc'[q] \in {"accept", "stamp"}
        PROVE  \E r \in Successes(rows') : r.rank = job'[q].row.rank /\ r.rank < won.rank
    <3>1. pc[q] \in {"accept", "stamp"} /\ job'[q] = job[q] BY <2>1, <2>2
    <3>2. PICK r \in rows : r.status = "success" /\ r.rank = job[q].row.rank
      BY <1>9, <3>1 DEF Current, Successes
    <3>3. r \in Successes(rows') /\ r.rank < won.rank BY <3>2 DEF Successes
    <3> QED BY <3>1, <3>2, <3>3
  <2>3. ASSUME NEW q \in Runners, pc'[q] = "record", NEW m \in rows', Greatest(rows', m), m.by = q PROVE FALSE
    BY <1>7, <2>1, <2>3
  <2>4. ASSUME NEW q \in Runners, pc'[q] = "stamp", NEW m \in rows', Greatest(rows', m), m.rank = job'[q].row.rank
        PROVE  FALSE
    <3>1. PICK r \in Successes(rows') : r.rank = m.rank /\ r.rank < won.rank BY <2>2, <2>4
    <3>2. m = won BY <1>7, <2>4
    <3>3. won.rank \in Nat BY DEF Rows
    <3> QED BY <3>1, <3>2, <3>3
  <2> QED BY <2>2, <2>3, <2>4 DEF Current
<1> QED BY <1>10, <1>11, <1>12

(* A baseline is the only row, or below the last one.                      *)
LEMMA BaselineKeeps ==
    ASSUME NEW p \in Runners, NEW row \in Rows, NEW j, IInv, IInv', HInv, Goto(p, "leave", j),
           engine' = engine, schema' = schema, rows' = rows \cup {row}, ~Taken(1),
           job[p].ok, pc[p] = "baseline", Steady("leave", j),
           row.by = p, row.rank = 1, row.status = "success", j.last = 1
    PROVE  HInv'
<1>1. Moves(p, "leave", j) BY MovesOne
<1>2. Well' => Well
  BY <1>1 DEF Well, Moves
<1>3. AllSteady' BY <1>1 DEF HInv, AllSteady, Moves
<1>4. /\ \A q \in Runners : q # p => (Alone(q)' <=> Alone(q))
      /\ ~Alone(p)' /\ ~Alone(p)
  BY <1>1, AloneStays DEF Alone
<1>5. \A r \in rows : r.by \in Runners /\ r.rank \in Nat /\ r.rank > 1
  BY DEF IInv, TypeOK, Rows, Taken
<1>6. AtTop'
  <2> SUFFICES ASSUME NEW q \in Runners, Alone(q)' PROVE Greatest(rows', job'[q].row)
    BY DEF AtTop
  <2>1. q # p /\ Alone(q) /\ job'[q] = job[q] BY <1>1, <1>4 DEF Moves
  <2>2. Greatest(rows, job[q].row) BY <2>1 DEF HInv, AtTop
  <2> QED BY <1>5, <2>1, <2>2 DEF Greatest
<1> SUFFICES ASSUME Well' PROVE (NoneLost /\ LastHashed /\ Current)'
  BY <1>3, <1>6 DEF HInv
<1>7. NoneLost /\ LastHashed /\ Current BY <1>2 DEF HInv
<1>8. NoneLost'
  <2> SUFFICES ASSUME NEW r \in rows, r.status # "success" PROVE Alone(r.by)' /\ job'[r.by].row = r
    BY DEF NoneLost
  <2>1. r.by \in Runners /\ Alone(r.by) /\ job[r.by].row = r BY <1>5, <1>7 DEF NoneLost
  <2> QED BY <1>1, <1>4, <2>1 DEF Moves
<1>9. \A m : Greatest(rows', m) => Greatest(rows, m) \/ (m = row /\ rows = {})
  BY <1>5 DEF Greatest
<1>10. LastHashed'
  <2> SUFFICES ASSUME NEW m \in rows', Greatest(rows', m), m.hash # Len(schema) PROVE Owes(m.by, m)'
    BY DEF LastHashed
  <2>1. CASE m = row BY <1>1, <2>1 DEF Owes, Unseen, Moves
  <2>2. CASE m # row
    <3>1. m \in rows /\ Greatest(rows, m) BY <1>9, <2>2
    <3>2. Owes(m.by, m) /\ m.by \in Runners BY <1>5, <1>7, <3>1 DEF LastHashed
    <3>3. m.by # p BY <1>4, <3>2 DEF Owes, Unseen
    <3> QED BY <1>1, <1>4, <3>2, <3>3 DEF Owes, Moves
  <2> QED BY <2>1, <2>2
<1>11. Current'
  <2>1. \A q \in Runners : pc'[q] # "leave" => q # p /\ pc'[q] = pc[q] /\ job'[q] = job[q]
    BY <1>1 DEF Moves
  <2>2. ASSUME NEW q \in Runners, pc'[q] \in {"accept", "stamp"}
        PROVE  \E r \in Successes(rows') : r.rank = job'[q].row.rank /\ r \in rows
    <3>1. pc[q] \in {"accept", "stamp"} /\ job'[q] = job[q] BY <2>1, <2>2
    <3>2. PICK r \in rows : r.status = "success" /\ r.rank = job[q].row.rank
      BY <1>7, <3>1 DEF Current, Successes
    <3> QED BY <3>1, <3>2 DEF Successes
  <2>3. ASSUME NEW q \in Runners, pc'[q] = "record", NEW m \in rows', Greatest(rows', m), m.by = q,
               m.rank = job'[q].last
        PROVE  job'[q].hash = Len(schema)
    <3>1. q # p /\ pc[q] = "record" /\ job'[q] = job[q] BY <2>1, <2>3
    <3>2. m \in rows /\ Greatest(rows, m) BY <1>9, <2>3, <3>1
    <3> QED BY <1>7, <2>3, <3>1, <3>2 DEF Current
  <2>4. ASSUME NEW q \in Runners, pc'[q] = "stamp", NEW m \in rows', Greatest(rows', m),
               m.status = "success", m.rank = job'[q].row.rank
        PROVE  job'[q].hash = Len(schema)
    <3>1. pc[q] = "stamp" /\ job'[q] = job[q] BY <2>1, <2>4
    <3>2. rows # {} BY <2>2, <2>4
    <3>3. m \in rows /\ Greatest(rows, m) BY <1>9, <2>4, <3>2 DEF Greatest
    <3> QED BY <1>7, <2>4, <3>1, <3>3 DEF Current
  <2> QED BY <2>2, <2>3, <2>4 DEF Current
<1> QED BY <1>8, <1>10, <1>11
-----------------------------------------------------------------------------
(* The steps that leave rows and schema alone.                             *)
LEMMA QuietSteps ==
    ASSUME NEW p \in Runners, IInv, IInv', HInv,
           Start(p) \/ Read(p) \/ Compared(p) \/ Verdict(p) \/ Enter(p) \/ LockTimeout(p) \/ Leave(p)
             \/ Inspect(p) \/ Bootstrap(p) \/ Retry(p) \/ Survey(p)
    PROVE  HInv'
<1> USE JobIs DEF Jobs
<1>1. Steady(pc[p], job[p]) BY DEF HInv, AllSteady
<1>2. \A l \in {"leave", "failed", "crashed"} :
        /\ Goto(p, l, [Idle EXCEPT !.op = job[p].op, !.ok = FALSE])
        /\ engine' = engine /\ rows' = rows
        => HInv'
  <2> SUFFICES ASSUME NEW l \in {"leave", "failed", "crashed"},
                      Goto(p, l, [Idle EXCEPT !.op = job[p].op, !.ok = FALSE]),
                      engine' = engine, rows' = rows
               PROVE  HInv'
    OBVIOUS
  <2> QED BY Rejects
<1>3. CASE Start(p)
  <2>1. PICK op \in Ops, m \in Manifests, l \in {"before", "report", "enter"} :
          Goto(p, l, [Idle EXCEPT !.op = op, !.manifest = m])
    <3>1. Idle.manifest \in Manifests BY IdleIs
    <3> QED BY <1>3, <3>1 DEF Start
  <2>2. PICK j : j = [Idle EXCEPT !.op = op, !.manifest = m] OBVIOUS
  <2>3. j.ok /\ j.last = 0 BY <2>2 DEF Idle
  <2>4. Steady(l, j) BY <2>3 DEF Steady
  <2>5. pc[p] = "new" /\ job[p].ok BY <1>1, <1>3 DEF Start, Steady
  <2> QED BY <1>3, <2>1, <2>2, <2>4, <2>5, GoesOn DEF Start, Alone, Unseen
<1>4. CASE Read(p)
  <2>1. PICK l \in {"compare", "verdict"} : Goto(p, l, [job[p] EXCEPT !.seen = Stored]) /\ pc[p] = IF l = "compare" THEN "before" ELSE "report"
    BY <1>4 DEF Read
  <2>2. PICK j : j = [job[p] EXCEPT !.seen = Stored] OBVIOUS
  <2>3. j.ok = job[p].ok /\ j.last = job[p].last /\ j.op = job[p].op BY <2>2
  <2>4. Steady(l, j) /\ job[p].ok BY <1>1, <2>1, <2>3 DEF Steady
  <2> QED BY <1>4, <2>1, <2>2, <2>4, GoesOn DEF Read, Alone, Unseen
<1>5. CASE Compared(p)
  <2>1. CASE Stop(p, "failed") BY <1>2, <1>5, <2>1 DEF Compared, Stop
  <2>2. CASE Goto(p, "enter", [job[p] EXCEPT !.seen = Null])
    <3>1. PICK j : j = [job[p] EXCEPT !.seen = Null] OBVIOUS
    <3>2. j.ok = job[p].ok /\ j.last = job[p].last /\ j.op = job[p].op BY <3>1
    <3>3. Steady("enter", j) /\ job[p].ok BY <1>1, <1>5, <3>2 DEF Compared, Steady
    <3> QED BY <1>5, <2>2, <3>1, <3>3, GoesOn DEF Compared, Alone, Unseen
  <2> QED BY <1>5, <2>1, <2>2 DEF Compared
<1>6. CASE Verdict(p)
  <2>1. CASE Stop(p, "failed") BY <1>2, <1>6, <2>1 DEF Verdict, Stop
  <2>2. CASE Goto(p, "done", [Idle EXCEPT !.op = job[p].op, !.manifest = job[p].manifest])
    <3>1. PICK j : j = [Idle EXCEPT !.op = job[p].op, !.manifest = job[p].manifest] OBVIOUS
    <3>2. j.ok /\ j.last = 0 BY <3>1 DEF Idle
    <3>3. Steady("done", j) /\ job[p].ok BY <1>1, <1>6, <3>2 DEF Verdict, Steady
    <3> QED BY <1>6, <2>2, <3>1, <3>3, GoesOn DEF Verdict, Alone, Unseen
  <2> QED BY <1>6, <2>1, <2>2 DEF Verdict
<1>7. CASE Enter(p)
  <2>1. PICK l \in {"repair", "choose", "look"} : Goto(p, l, job[p]) BY <1>7 DEF Enter
  <2>2. Steady(l, job[p]) /\ job[p].ok BY <1>1, <1>7 DEF Enter, Steady
  <2> QED BY <1>7, <2>1, <2>2, GoesOn DEF Enter, Alone, Unseen
<1>8. CASE LockTimeout(p) BY <1>2, <1>8 DEF LockTimeout, Stop
<1>9. CASE Leave(p)
  <2>1. CASE ~job[p].ok BY <1>2, <1>9, <2>1 DEF Leave, Stop
  <2>2. CASE job[p].ok
    <3>1. PICK l \in {"inspect", "report", "done"} :
            Goto(p, l, [job[p] EXCEPT !.row = Null, !.seen = Null]) /\ (job[p].last # 0 => l = "inspect")
      BY <1>9, <2>2 DEF Leave
    <3>2. PICK j : j = [job[p] EXCEPT !.row = Null, !.seen = Null] OBVIOUS
    <3>3. j.ok = job[p].ok /\ j.last = job[p].last /\ j.op = job[p].op BY <3>2
    <3>4. Steady(l, j) BY <2>2, <3>3 DEF Steady
    <3> QED BY <1>9, <2>2, <3>1, <3>2, <3>3, <3>4, GoesOn DEF Leave, Alone, Unseen
  <2> QED BY <2>1, <2>2
<1>10. CASE Inspect(p) \/ Survey(p)
  <2>1. PICK l \in {"record", "stamp"} :
          Goto(p, l, [job[p] EXCEPT !.hash = Len(schema)]) /\ pc[p] = IF l = "record" THEN "inspect" ELSE "accept"
    BY <1>10 DEF Inspect, Survey
  <2>2. PICK j : j = [job[p] EXCEPT !.hash = Len(schema)] OBVIOUS
  <2>3. j.ok = job[p].ok /\ j.last = job[p].last /\ j.op = job[p].op /\ j.row = job[p].row /\ j.hash = Len(schema)
    BY <2>2
  <2>4. Steady(l, j) /\ job[p].ok BY <1>1, <2>1, <2>3 DEF Steady
  <2>5. Well /\ l = "stamp" => \E r \in Successes(rows) : r.rank = j.row.rank
    BY <2>1, <2>3 DEF HInv, Current
  <2> QED BY <1>10, <2>1, <2>2, <2>3, <2>4, <2>5, GoesOn DEF Inspect, Survey, Alone, Unseen
<1>11. CASE Bootstrap(p)
  <2>1. CASE Throw(p) BY <1>2, <1>11, <2>1 DEF Bootstrap, Throw
  <2>2. CASE Goto(p, "look", job[p])
    <3>1. Steady("look", job[p]) /\ job[p].ok BY <1>1, <1>11 DEF Bootstrap, Steady
    <3> QED BY <1>11, <2>2, <3>1, GoesOn DEF Bootstrap, Alone, Unseen
  <2> QED BY <1>11, <2>1, <2>2 DEF Bootstrap, Answer
<1>12. CASE Retry(p)
  <2>1. Steady("look", job[p]) /\ job[p].ok BY <1>1, <1>12 DEF Retry, Steady
  <2> QED BY <1>12, <2>1, GoesOn DEF Retry, Alone, Unseen
<1> QED BY <1>3, <1>4, <1>5, <1>6, <1>7, <1>8, <1>9, <1>10, <1>11, <1>12

(* A write of a hash: by apply and baseline, and by acceptSchema.          *)
LEMMA HashSteps ==
    ASSUME NEW p \in Runners, IInv, IInv', HInv, Record(p) \/ Stamp(p)
    PROVE  HInv'
<1>1. Steady(pc[p], job[p]) BY DEF HInv, AllSteady
<1>2. /\ job[p].ok /\ job[p].hash \in Nat /\ job[p].last \in Nat
      /\ engine' = engine /\ schema' = schema /\ pc[p] \in {"record", "stamp"}
  BY <1>1, JobIs DEF Record, Stamp, Steady, Jobs
<1>3. ASSUME NEW rank, NEW by, NEW hash, rows' = Hashed(rank, by, hash)
      PROVE  \A s \in rows' : \E r \in rows : r.rank = s.rank
  <2> DEFINE h(r) == IF r.rank = rank /\ r.by = by /\ r.status = "success" THEN [r EXCEPT !.hash = hash] ELSE r
  <2>1. rows' = {h(r) : r \in rows} BY <1>3 DEF Hashed
  <2>2. \A r \in rows : h(r).rank = r.rank BY DEF IInv, TypeOK, Rows
  <2> HIDE DEF h
  <2> QED BY <2>1, <2>2
<1>4. CASE Throw(p) /\ \A s \in rows' : \E r \in rows : r.rank = s.rank
  BY <1>2, <1>4, Rejects DEF Throw
<1>5. CASE Record(p)
  <2>1. PICK j : j = [job[p] EXCEPT !.hash = 0, !.last = 0] OBVIOUS
  <2>2. PICK l \in {"report", "done"} : l = IF job[p].op = "apply" THEN "report" ELSE "done" OBVIOUS
  <2>3. j.ok = job[p].ok /\ j.op = job[p].op BY <2>1, JobIs DEF Jobs
  <2>4. Steady(l, j) BY <1>2, <2>3 DEF Steady
  <2>5. CASE rows' = Hashed(job[p].last, p, job[p].hash) /\ Goto(p, l, j)
    BY <1>2, <1>5, <2>4, <2>5, Writes DEF Record
  <2>6. CASE rows' = Hashed(job[p].last, p, job[p].hash) /\ Throw(p) BY <1>3, <1>4, <2>6
  <2>7. CASE rows' = rows /\ Throw(p) BY <1>4, <2>7
  <2> QED BY <1>5, <2>1, <2>2, <2>5, <2>6, <2>7 DEF Record, Answer
<1>6. CASE Stamp(p)
  <2>1. PICK j : j = [job[p] EXCEPT !.hash = 0] OBVIOUS
  <2>2. j.ok = job[p].ok /\ j.op = job[p].op BY <2>1, JobIs DEF Jobs
  <2>3. Steady("leave", j) BY <1>2, <2>2 DEF Steady
  <2>4. job[p].row \in Rows BY <1>6 DEF Stamp, IInv, Locals, Promised
  <2>5. job[p].row.rank \in Nat /\ job[p].row.by \in Runners BY <2>4 DEF Rows
  <2>6. CASE rows' = Hashed(job[p].row.rank, job[p].row.by, job[p].hash) /\ Goto(p, "leave", j)
    BY <1>2, <1>6, <2>3, <2>5, <2>6, Writes DEF Stamp
  <2>7. CASE rows' = Hashed(job[p].row.rank, job[p].row.by, job[p].hash) /\ Throw(p)
    BY <1>3, <1>4, <2>7
  <2>8. CASE rows' = rows /\ Throw(p) BY <1>4, <2>8
  <2> QED BY <1>6, <2>1, <2>6, <2>7, <2>8 DEF Stamp, Answer
<1> QED BY <1>5, <1>6

(* The reads of apply and acceptSchema.                                    *)
LEMMA ReadSteps ==
    ASSUME NEW p \in Runners, IInv, IInv', HInv, Look(p) \/ Choose(p)
    PROVE  HInv'
<1>1. Steady(pc[p], job[p]) BY DEF HInv, AllSteady
<1>2. job[p].ok /\ engine' = engine /\ schema' = schema /\ rows' = rows /\ pc[p] \in {"look", "choose"}
  BY <1>1 DEF Look, Choose, Steady
<1>3. CASE Throw(p) BY <1>2, <1>3, Rejects DEF Throw
<1>4. CASE Look(p) /\ Goto(p, "baseline", job[p]) /\ job[p].op = "baseline"
  <2>1. job[p].last = 0 BY <1>1, <1>4 DEF Look, Steady
  <2>2. Steady("baseline", job[p]) BY <1>2, <2>1 DEF Steady
  <2> QED BY <1>2, <1>4, <2>1, <2>2, GoesOn DEF Alone
<1>5. ASSUME Look(p), job[p].op # "baseline", NEW l \in {"waiting", "leave"}, Goto(p, l, job[p]) PROVE HInv'
  <2>1. Steady(l, job[p]) BY <1>2, <1>5 DEF Steady
  <2> QED BY <1>2, <1>5, <2>1, GoesOn DEF Alone, Unseen
<1>6. ASSUME Look(p), job[p].op # "baseline", NEW row, Goto(p, "claim", [job[p] EXCEPT !.row = row, !.done = 0])
      PROVE  HInv'
  <2>1. PICK j : j = [job[p] EXCEPT !.row = row, !.done = 0] OBVIOUS
  <2>2. j.ok = job[p].ok /\ j.last = job[p].last /\ j.op = job[p].op BY <2>1, JobIs DEF Jobs
  <2>3. Steady("claim", j) BY <1>2, <1>6, <2>2 DEF Steady
  <2> QED BY <1>2, <1>6, <2>1, <2>2, <2>3, GoesOn DEF Alone, Unseen
<1>7. CASE Look(p)
  <2>1. PICK m : m = job[p].manifest OBVIOUS
  <2>2. PICK row : row = Row(NextEntry(m, rows), p, NextRank(rows)) OBVIOUS
  <2> QED BY <1>3, <1>4, <1>5, <1>6, <1>7, <2>1, <2>2 DEF Look
<1>8. CASE Choose(p) /\ Incomplete(rows) = {} /\ rows # {}
           /\ Goto(p, "accept", [job[p] EXCEPT !.row = LastOf(Successes(rows))])
  <2>1. PICK row : row = LastOf(Successes(rows)) OBVIOUS
  <2>2. row \in Successes(rows)
    <3>1. rows \subseteq Rows /\ Bounded(rows) BY DEF IInv, TypeOK, Table, Ranked
    <3>2. PICK n \in Nat : \A r \in rows : r.rank <= n BY <3>1 DEF Bounded
    <3>3. Successes(rows) \in SUBSET Rows /\ Successes(rows) # {} /\ \A r \in Successes(rows) : r.rank <= n
      BY <1>8, <3>1, <3>2 DEF Successes, Incomplete
    <3> QED BY <2>1, <3>3, LastIs
  <2>3. PICK j : j = [job[p] EXCEPT !.row = row] OBVIOUS
  <2>4. j.ok = job[p].ok /\ j.last = job[p].last /\ j.op = job[p].op /\ j.row = row BY <2>3, JobIs DEF Jobs
  <2>5. Steady("accept", j) BY <1>2, <2>4 DEF Steady
  <2>6. Goto(p, "accept", j) BY <1>8, <2>1, <2>3
  <2>7. pc[p] = "choose" BY <1>8 DEF Choose
  <2> QED BY <1>2, <2>2, <2>4, <2>5, <2>6, <2>7, GoesOn DEF Alone, Unseen
<1> QED BY <1>3, <1>7, <1>8 DEF Choose

(* A wait without result, a failure and a crash.                           *)
LEMMA StopSteps ==
    ASSUME NEW p \in Runners, IInv, IInv', HInv, GiveUp(p) \/ Broken(p) \/ Crash(p)
    PROVE  HInv'
<1>1. engine' = engine /\ rows' = rows BY DEF GiveUp, Broken, Crash
<1>2. \E l \in {"leave", "crashed"} : Goto(p, l, [Idle EXCEPT !.op = job[p].op, !.ok = FALSE])
  BY DEF GiveUp, Broken, Crash, Throw, Stop
<1> QED BY <1>1, <1>2, Rejects

(* A claim: alone in the body, or the answer to its insert is lost.         *)
LEMMA ClaimSteps ==
    ASSUME NEW p \in Runners, IInv, IInv', HInv, Claim(p)
    PROVE  HInv'
<1>1. Steady(pc[p], job[p]) BY DEF HInv, AllSteady
<1>2. job[p].ok /\ job[p].op # "baseline" /\ engine' = engine /\ schema' = schema /\ pc[p] = "claim"
  BY <1>1 DEF Claim, Steady
<1>3. PICK row : row = job[p].row /\ Attempt(p, row) BY <1>2 DEF IInv, Locals, Promised
<1>4. ASSUME NEW l \in {"waiting", "look"}, Goto(p, l, [job[p] EXCEPT !.row = Null]), rows' = rows
      PROVE  HInv'
  <2>1. PICK j : j = [job[p] EXCEPT !.row = Null] OBVIOUS
  <2>2. j.ok = job[p].ok /\ j.last = job[p].last /\ j.op = job[p].op BY <2>1, JobIs DEF Jobs
  <2>3. Steady(l, j) BY <1>2, <2>2 DEF Steady
  <2> QED BY <1>2, <1>4, <2>1, <2>2, <2>3, GoesOn DEF Alone, Unseen
<1>5. CASE Transactional(row) /\ rows' = rows /\ Goto(p, "body", job[p])
  <2>1. Steady("body", job[p]) BY <1>2 DEF Steady
  <2> QED BY <1>2, <1>3, <1>5, <2>1, GoesOn DEF Alone, Unseen
<1>6. CASE ~Refused(p) /\ ~Taken(row.rank) /\ ~Transactional(row) /\ rows' = rows \cup {row}
           /\ Answer(p, "body", job[p])
  <2>1. row \in Rows /\ row.by = p /\ row.status = "running" BY <1>3 DEF Attempt
  <2>2. \A r \in rows : r.rank < row.rank
    BY <1>2, <1>3, <1>6 DEF IInv, Table, Fresh, Chosen, Next1
  <2>3. \A q \in Runners : ~Alone(q)
    <3> SUFFICES ASSUME NEW q \in Runners, Alone(q) PROVE FALSE
      OBVIOUS
    <3>1. q # p /\ pc[q] = "body" BY <1>2 DEF Alone
    <3> QED BY <1>2, <1>3, <1>6, <3>1, Apart DEF IInv
  <2>4. CASE Goto(p, "body", job[p])
    BY <1>2, <1>3, <1>6, <2>1, <2>2, <2>3, <2>4, Claims1
  <2>5. CASE Throw(p)
    <3>1. PICK j : j = [Idle EXCEPT !.op = job[p].op, !.ok = FALSE] OBVIOUS
    <3>2. j.ok = FALSE BY <3>1 DEF Idle
    <3>3. Moves(p, "leave", j) BY <1>2, <2>5, <3>1, MovesOne DEF Throw
    <3>4. Steady("leave", j) BY <3>2 DEF Steady
    <3>5. ~Well' BY <3>2, <3>3 DEF Well, Moves
    <3> QED BY <2>3, <3>3, <3>4, <3>5, Spoils
  <2> QED BY <1>6, <2>4, <2>5 DEF Answer
<1> QED BY <1>2, <1>3, <1>4, <1>5, <1>6 DEF Claim

(* A statement of a body, or its failure.                                  *)
LEMMA StatementSteps ==
    ASSUME NEW p \in Runners, IInv, IInv', HInv, Statement(p)
    PROVE  HInv'
<1>1. Steady(pc[p], job[p]) BY DEF HInv, AllSteady
<1>2. job[p].ok /\ job[p].op # "baseline" /\ engine' = engine /\ rows' = rows /\ pc[p] = "body"
  BY <1>1 DEF Statement, Steady
<1>3. CASE /\ schema' = IF Transactional(job[p].row) THEN schema
                        ELSE Append(schema, Body(job[p].row.source, p)[job[p].done + 1])
           /\ Goto(p, "body", [job[p] EXCEPT !.done = @ + 1])
  <2>1. PICK n : n = job[p].done + 1 OBVIOUS
  <2>2. PICK j : j = [job[p] EXCEPT !.done = n] OBVIOUS
  <2>3. j.ok = job[p].ok /\ j.last = job[p].last /\ j.op = job[p].op /\ j.row = job[p].row
    BY <2>2, JobIs DEF Jobs
  <2>4. Steady("body", j) BY <1>2, <2>3 DEF Steady
  <2>5. Goto(p, "body", j) BY <1>3, <2>1, <2>2
  <2>6. CASE Alone(p) BY <1>2, <2>3, <2>4, <2>5, <2>6, Runs1
  <2>7. CASE ~Alone(p)
    <3>1. Transactional(j.row) /\ schema' = schema BY <1>2, <1>3, <2>3, <2>7 DEF Alone
    <3> QED BY <1>2, <2>3, <2>4, <2>5, <2>7, <3>1, GoesOn DEF Unseen
  <2> QED BY <2>6, <2>7
<1>4. CASE Throw(p) BY <1>2, <1>4, Rejects DEF Throw
<1>5. CASE Goto(p, "mark", job[p])
  <2>1. Steady("mark", job[p]) BY <1>2 DEF Steady
  <2> QED BY <1>2, <1>5, <2>1, Fails1
<1> QED BY <1>3, <1>4, <1>5 DEF Statement

(* The end of a body.                                                      *)
LEMMA FinishSteps ==
    ASSUME NEW p \in Runners, IInv, IInv', HInv, Finish(p)
    PROVE  HInv'
<1>1. Steady(pc[p], job[p]) BY DEF HInv, AllSteady
<1>2. job[p].ok /\ job[p].op # "baseline" /\ engine' = engine /\ pc[p] = "body"
  BY <1>1 DEF Finish, Steady
<1>3. PICK row : row = job[p].row /\ Attempt(p, row) BY <1>2 DEF IInv, Locals, Promised
<1>4. row \in Rows /\ row.by = p /\ row.status = "running" /\ row.rank \in Nat BY <1>3 DEF Attempt, Rows
<1>5. \A q \in Runners : q # p => ~Alone(q) BY <1>2, Apart DEF Alone, IInv
<1>6. PICK next : next = [job[p] EXCEPT !.last = row.rank, !.row = Null, !.done = 0] OBVIOUS
<1>7. next.ok = job[p].ok /\ next.op = job[p].op /\ next.last = row.rank BY <1>6, JobIs DEF Jobs
<1>8. Steady("look", next) BY <1>2, <1>7 DEF Steady
<1>9. PICK won : won = [row EXCEPT !.status = "success"] OBVIOUS
<1>10. won \in Rows /\ won.by = p /\ won.rank = row.rank /\ won.status = "success"
  BY <1>4, <1>9 DEF Rows
<1>11. ASSUME Throw(p) PROVE HInv'
  <2>1. PICK j : j = [Idle EXCEPT !.op = job[p].op, !.ok = FALSE] OBVIOUS
  <2>2. j.ok = FALSE BY <2>1 DEF Idle
  <2>3. Moves(p, "leave", j) BY <1>2, <1>11, <2>1, MovesOne DEF Throw
  <2>4. Steady("leave", j) BY <2>2 DEF Steady
  <2>5. ~Well' BY <2>2, <2>3 DEF Well, Moves
  <2> QED BY <1>5, <2>3, <2>4, <2>5, Spoils
<1>12. ASSUME Goto(p, "mark", job[p]) PROVE HInv'
  <2>1. Steady("mark", job[p]) BY <1>2 DEF Steady
  <2>2. Moves(p, "mark", job[p]) BY <1>2, <1>12, MovesOne
  <2>3. ~Well' BY <2>2 DEF Well, Moves
  <2> QED BY <1>5, <2>1, <2>2, <2>3, Spoils
<1>13. CASE /\ Transactional(row) /\ Goto(p, "look", next)
            /\ rows' = rows \cup {[r EXCEPT !.status = "success"] : r \in open[p]}
  <2>1. open[p] = {row} /\ ~Alone(p) BY <1>2, <1>3, <1>13 DEF IInv, Table, OpenRows, Alone
  <2>2. \A r \in rows : r.rank < row.rank
    BY <1>3, <2>1 DEF IInv, Table, Fresh, Chosen, Next1
  <2>3. row \notin rows BY <1>4, <2>2
  <2>4. rows' = (rows \ {row}) \cup {won} BY <1>9, <1>13, <2>1, <2>3
  <2> QED BY <1>2, <1>3, <1>4, <1>5, <1>7, <1>8, <1>10, <1>13, <2>1, <2>2, <2>3, <2>4, Succeeds
<1>14. CASE ~Transactional(row) /\ Goto(p, "look", next) /\ rows' = Finished(p, "success")
  <2>1. Alone(p) BY <1>2, <1>3, <1>14 DEF Alone
  <2>2. row \in rows /\ rows' = (rows \ {row}) \cup {won}
    BY <1>3, <1>9, <1>14, <2>1, MineIs DEF IInv, Table
  <2>3. \A r \in rows : r # row => r.rank < row.rank
    <3> SUFFICES ASSUME NEW r \in rows, r # row PROVE r.rank < row.rank
      OBVIOUS
    <3>1. r.rank <= row.rank BY <1>3, <2>1 DEF HInv, AtTop, Greatest
    <3>2. r.rank # row.rank BY <2>2 DEF IInv, Table, Ranked
    <3>3. r.rank \in Nat BY DEF IInv, TypeOK, Rows
    <3> QED BY <1>4, <3>1, <3>2, <3>3
  <2> QED BY <1>2, <1>3, <1>4, <1>5, <1>7, <1>8, <1>10, <1>14, <2>1, <2>2, <2>3, Succeeds
<1>15. \/ Throw(p) \/ Goto(p, "mark", job[p])
       \/ /\ Transactional(row) /\ Goto(p, "look", next)
          /\ rows' = rows \cup {[r EXCEPT !.status = "success"] : r \in open[p]}
       \/ ~Transactional(row) /\ Goto(p, "look", next) /\ rows' = Finished(p, "success")
  BY <1>3, <1>6 DEF Finish, Succeed, Answer
<1> QED BY <1>11, <1>12, <1>13, <1>14, <1>15

(* The mark on the row of a failed body.                                   *)
LEMMA MarkSteps ==
    ASSUME NEW p \in Runners, IInv, IInv', HInv, Mark(p)
    PROVE  HInv'
<1>1. engine' = engine /\ pc[p] = "mark" /\ Throw(p) BY DEF Mark
<1>2. ASSUME rows' = Finished(p, "failed") PROVE \A s \in rows' : \E r \in rows : r.rank = s.rank
  <2>1. PICK r \in rows : rows' = (rows \ {r}) \cup {[r EXCEPT !.status = "failed"]}
    BY <1>1, <1>2, MineIs DEF IInv, Table
  <2>2. \A s : s = [r EXCEPT !.status = "failed"] => s.rank = r.rank BY DEF IInv, TypeOK, Rows
  <2> QED BY <2>1, <2>2
<1>3. \A s \in rows' : \E r \in rows : r.rank = s.rank BY <1>2 DEF Mark
<1> QED BY <1>1, <1>3, Rejects DEF Throw

(* The row of a baseline.                                                  *)
LEMMA BaselineSteps ==
    ASSUME NEW p \in Runners, IInv, IInv', HInv, Baseline(p)
    PROVE  HInv'
<1>1. Steady(pc[p], job[p]) BY DEF HInv, AllSteady
<1>2. job[p].ok /\ engine' = engine /\ schema' = schema /\ pc[p] = "baseline"
  BY <1>1 DEF Baseline, Steady
<1>3. PICK e \in job[p].manifest.versioned :
        LET row == [Row(e, p, 1) EXCEPT !.kind = "baseline", !.status = "success"] IN
        IF Refused(p) \/ Taken(1) THEN Throw(p) /\ UNCHANGED <<rows, faults>>
        ELSE rows' = rows \cup {row} /\ Answer(p, "leave", [job[p] EXCEPT !.last = 1])
  BY DEF Baseline
<1>4. PICK row : row = [Row(e, p, 1) EXCEPT !.kind = "baseline", !.status = "success"] OBVIOUS
<1>5. row \in Rows /\ row.rank = 1 /\ row.by = p /\ row.status = "success"
  <2>1. PICK m \in Manifests : m = job[p].manifest BY JobIs DEF Jobs
  <2>2. e \in Entry(Nat \ {0}) BY <2>1, ManifestConstants
  <2>3. e.source \in Nat /\ e.version \in Nat /\ e.sum \in STRING BY <2>2 DEF Entry
  <2>4. PICK first : first = Row(e, p, 1) OBVIOUS
  <2>5. first \in Rows /\ first.rank = 1 /\ first.by = p BY <2>3, <2>4 DEF Row, Rows
  <2>6. row = [first EXCEPT !.kind = "baseline", !.status = "success"] BY <1>4, <2>4
  <2> QED BY <2>5, <2>6 DEF Rows
<1>6. CASE Throw(p) /\ rows' = rows BY <1>2, <1>6, Rejects DEF Throw
<1>7. CASE ~Taken(1) /\ rows' = rows \cup {row} /\ Goto(p, "leave", [job[p] EXCEPT !.last = 1])
  <2>1. PICK j : j = [job[p] EXCEPT !.last = 1] OBVIOUS
  <2>2. j.ok = job[p].ok /\ j.op = job[p].op /\ j.last = 1 BY <2>1, JobIs DEF Jobs
  <2>3. Steady("leave", j) BY <1>2, <2>2 DEF Steady
  <2> QED BY <1>2, <1>5, <1>7, <2>1, <2>2, <2>3, BaselineKeeps
<1>8. CASE rows' = rows \cup {row} /\ Throw(p)
  <2>1. PICK j : j = [Idle EXCEPT !.op = job[p].op, !.ok = FALSE] OBVIOUS
  <2>2. j.ok = FALSE BY <2>1 DEF Idle
  <2>3. Moves(p, "leave", j) BY <1>2, <1>8, <2>1, MovesOne DEF Throw
  <2>4. Steady("leave", j) BY <2>2 DEF Steady
  <2>5. ~Well' BY <2>2, <2>3 DEF Well, Moves
  <2>6. ASSUME NEW q \in Runners, Alone(q) PROVE \A r \in rows' : r.rank <= job[q].row.rank
    <3>1. job[q].row \in rows /\ \A r \in rows : r.rank <= job[q].row.rank BY <2>6 DEF HInv, AtTop, Greatest
    <3>2. 1 <= job[q].row.rank BY <3>1 DEF IInv, TypeOK, Rows
    <3> QED BY <1>5, <1>8, <3>1, <3>2
  <2> QED BY <2>3, <2>4, <2>5, <2>6, Spoils
<1> QED BY <1>3, <1>4, <1>6, <1>7, <1>8 DEF Answer

(* Until something failed a repair has nothing to delete.                  *)
LEMMA RepairSteps ==
    ASSUME NEW p \in Runners, IInv, IInv', HInv, Repair(p)
    PROVE  HInv'
<1>1. Steady(pc[p], job[p]) BY DEF HInv, AllSteady
<1>2. job[p].ok /\ engine' = engine /\ schema' = schema /\ pc[p] = "repair"
  BY <1>1 DEF Repair, Steady
<1>3. \A s \in rows' : \E r \in rows : r.rank = s.rank BY DEF Repair, Successes
<1>4. CASE Throw(p) BY <1>2, <1>3, <1>4, Rejects DEF Throw
<1>5. CASE rows' = Successes(rows) /\ Goto(p, "leave", job[p])
  <2>1. job[p].op = "repair" BY <1>2 DEF IInv, Locals, Promised
  <2>2. Steady("leave", job[p]) BY <1>2, <2>1 DEF Steady
  <2>3. Moves(p, "leave", job[p]) BY <1>2, <1>5, MovesOne
  <2>4. ASSUME Well' PROVE rows' = rows
    <3>1. Well BY <1>2, <2>3, <2>4 DEF Well, Moves
    <3>2. NoneLost BY <3>1 DEF HInv
    <3>3. \A r \in rows : r.status = "success"
      <4> SUFFICES ASSUME NEW r \in rows, r.status # "success" PROVE FALSE
        OBVIOUS
      <4>1. r.by \in Runners /\ Alone(r.by) /\ job[r.by].row = r BY <3>2 DEF NoneLost, IInv, TypeOK, Rows
      <4>2. r.status = "running" BY <4>1 DEF Alone, IInv, Locals, Promised, Attempt
      <4>3. CASE engine.locks
        <5>1. r.by # p BY <1>2, <4>1 DEF Alone
        <5> QED BY <1>2, <4>1, <4>3, <5>1 DEF Alone, IInv, LockHeld, Inside
      <4>4. CASE Inspected BY <4>1, <4>2, <4>4 DEF Inspected, Alone
      <4> QED BY <4>3, <4>4 DEF Repair
    <3> QED BY <1>5, <3>3 DEF Successes
  <2> QED BY <1>2, <1>3, <1>5, <2>2, <2>4, GoesOn DEF Alone, Unseen
<1>6. (rows' = rows /\ Throw(p)) \/ (rows' = Successes(rows) /\ Answer(p, "leave", job[p]))
  BY DEF Repair
<1> QED BY <1>4, <1>5, <1>6 DEF Answer
-----------------------------------------------------------------------------
(* The initial states have the invariant: nothing is recorded.             *)
LEMMA HashStarts == Init => HInv
<1> SUFFICES ASSUME Init PROVE HInv
  OBVIOUS
<1>1. rows = {} /\ \A p \in Runners : pc[p] = "new" /\ job[p] = Idle BY DEF Init
<1>2. Idle.ok /\ Idle.last = 0 /\ Idle.op = "apply" BY DEF Idle
<1>3. AllSteady BY <1>1, <1>2 DEF AllSteady, Steady
<1>4. AtTop BY <1>1 DEF AtTop, Alone
<1>5. NoneLost /\ LastHashed /\ Current BY <1>1 DEF NoneLost, LastHashed, Current
<1> QED BY <1>3, <1>4, <1>5 DEF HInv

(* A step that changes nothing keeps it.                                   *)
LEMMA HashStays == ASSUME HInv, UNCHANGED vars PROVE HInv'
<1> USE DEF vars
<1>1. AllSteady' BY DEF HInv, AllSteady, Steady
<1>2. \A q \in Runners : Alone(q)' <=> Alone(q) BY DEF Alone, Transactional
<1>3. AtTop' BY <1>2 DEF HInv, AtTop, Greatest
<1> SUFFICES ASSUME Well' PROVE (NoneLost /\ LastHashed /\ Current)'
  BY <1>1, <1>3 DEF HInv
<1>4. NoneLost /\ LastHashed /\ Current BY DEF HInv, Well
<1>5. \A q : Alone(q)' <=> Alone(q) BY DEF Alone, Transactional
<1>6. NoneLost' BY <1>4, <1>5 DEF NoneLost
<1>7. LastHashed' BY <1>4, <1>5 DEF LastHashed, Owes, Greatest
<1>8. Current' BY <1>4 DEF Current, Greatest
<1> QED BY <1>6, <1>7, <1>8

(* Every step of every program keeps the invariant of the hash.            *)
LEMMA HashSteadies == IInv /\ IInv' /\ HInv /\ [Next]_vars => HInv'
<1> SUFFICES ASSUME IInv, IInv', HInv, [Next]_vars PROVE HInv'
  OBVIOUS
<1>1. CASE UNCHANGED vars BY <1>1, HashStays
<1>2. CASE Next
  <2>1. ASSUME NEW p \in Runners, Start(p) PROVE HInv' BY <2>1, QuietSteps
  <2>2. ASSUME NEW p \in Runners, GiveUp(p) \/ Broken(p) \/ Crash(p) PROVE HInv' BY <2>2, StopSteps
  <2>3. ASSUME NEW p \in Runners, Work(p) PROVE HInv'
    <3>1. CASE Read(p) \/ Compared(p) \/ Verdict(p) \/ Enter(p) \/ LockTimeout(p) \/ Leave(p)
                 \/ Inspect(p) \/ Bootstrap(p) \/ Retry(p) \/ Survey(p)
      BY <3>1, QuietSteps
    <3>2. CASE Record(p) \/ Stamp(p) BY <3>2, HashSteps
    <3>3. CASE Look(p) \/ Choose(p) BY <3>3, ReadSteps
    <3>4. CASE Claim(p) \/ Statement(p) \/ Finish(p) \/ Mark(p)
      BY <3>4, ClaimSteps, StatementSteps, FinishSteps, MarkSteps
    <3>5. CASE Baseline(p) \/ Repair(p) BY <3>5, BaselineSteps, RepairSteps
    <3> QED BY <2>3, <3>1, <3>2, <3>3, <3>4, <3>5 DEF Work
  <2>4. CASE Quiet BY <2>4, HashStays DEF Quiet
  <2> QED BY <1>2, <2>1, <2>2, <2>3, <2>4 DEF Next
<1> QED BY <1>1, <1>2

(* When all programs have ended well the last row has the schema's hash.    *)
LEMMA AtRest == IInv /\ HInv => HashAtRest
<1> SUFFICES ASSUME IInv, HInv, \A p \in Runners : pc[p] = "done"
             PROVE  LatestHash(rows) \in {Null, Len(schema)}
  BY DEF HashAtRest
<1>1. LastHashed
  <2>1. \A p \in Runners : job[p].ok BY DEF HInv, AllSteady, Steady
  <2> QED BY <2>1 DEF HInv, Well
<1> DEFINE hashed == {r \in rows : r.hash # Null}
<1>2. CASE hashed = {} BY <1>2 DEF LatestHash
<1>3. CASE hashed # {}
  <2>1. rows \subseteq Rows /\ Bounded(rows) BY DEF IInv, TypeOK, Table, Ranked
  <2>2. PICK n \in Nat : \A r \in rows : r.rank <= n BY <2>1 DEF Bounded
  <2>3. PICK m : m = LastOf(rows) OBVIOUS
  <2>4. m \in rows /\ Greatest(rows, m)
    <3>1. rows \in SUBSET Rows /\ rows # {} BY <1>3, <2>1
    <3> QED BY <2>2, <2>3, <3>1, LastIs DEF Greatest
  <2>5. m.hash = Len(schema)
    <3>1. m.by \in Runners BY <2>1, <2>4 DEF Rows
    <3>2. ~Owes(m.by, m) BY <3>1 DEF Owes, Alone, Unseen
    <3> QED BY <1>1, <2>4, <3>2 DEF LastHashed
  <2>6. m \in hashed
    <3>1. Len(schema) \in Nat BY DEF IInv, TypeOK
    <3> QED BY <2>4, <2>5, <3>1, MigrateConstants
  <2>7. PICK l : l = LastOf(hashed) OBVIOUS
  <2>8. l \in hashed /\ m.rank <= l.rank
    <3>1. hashed \in SUBSET Rows /\ \A r \in hashed : r.rank <= n BY <2>1, <2>2
    <3> HIDE DEF hashed
    <3>2. LastOf(hashed) \in hashed /\ \A s \in hashed : s.rank <= LastOf(hashed).rank
      BY <1>3, <2>2, <3>1, LastIs
    <3> QED BY <2>6, <2>7, <3>2
  <2>9. l = m
    <3>1. l \in rows /\ l.rank <= m.rank BY <2>4, <2>8 DEF Greatest
    <3>2. l.rank \in Nat /\ m.rank \in Nat BY <2>1, <2>4, <3>1 DEF Rows
    <3> QED BY <2>4, <2>8, <3>1, <3>2 DEF IInv, Table, Ranked
  <2> QED BY <1>3, <2>5, <2>7, <2>9 DEF LatestHash
<1> QED BY <1>2, <1>3

(* As long as nothing failed the last row of the history has the hash of   *)
(* the schema, or its program is on its way to record it: schemaHash after *)
(* the lock is given back (index.ts), whoever applies in between.          *)
THEOREM HashInductive == Spec => [](IInv /\ HInv)
<1>1. Init => IInv /\ HInv BY StartsWith, HashStarts
<1>2. IInv /\ HInv /\ [Next]_vars => (IInv /\ HInv)' BY StepsKeep, HashSteadies
<1> QED BY <1>1, <1>2, PTL DEF Spec

(* A success row is written by finish after the last statement of its body *)
(* took effect; apply and verify resolve only on a database that holds     *)
(* every version of their manifest or was baselined at it; and when every  *)
(* program has ended well, the recorded hash is that of the schema         *)
(* (index.ts finish, schemaHash, and compareHistory of history.ts).        *)
THEOREM EvidenceHolds == Spec => []Evidence
<1>1. IInv /\ HInv => Evidence BY AtRest, RecordIsWhole DEF IInv, Evidence
<1> QED BY <1>1, HashInductive, PTL
=============================================================================
