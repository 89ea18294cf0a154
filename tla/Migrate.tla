------------------------------- MODULE Migrate -------------------------------
(***************************************************************************)
(* Programs that run the migrator of @sqlbraid/migrate (index.ts) against  *)
(* one database at a time, each one operation once: startup in mode apply  *)
(* or verify, baseline, repair or acceptSchema, all with a drift adapter   *)
(* and schema: "hash". A row is claimed by its rank; the body of the       *)
(* migration follows, in one transaction with the claim or after it.       *)
(*                                                                         *)
(* The schema is the sequence of the statements that took effect. Nothing  *)
(* removes one, so its length stands for the hash of an inspection.        *)
(***************************************************************************)
EXTENDS Integers, Sequences, FiniteSetsExt

CONSTANTS
    Null,           \* no hash, no history table, nobody
    Runners,        \* programs, each with an execution id of its own
    Manifests,      \* the manifests they were built with
    Engines,        \* the databases to try
    Ops,            \* the operations a program may ask for
    Off,            \* the sources that say transaction=off
    MaxFaults       \* bound by engine: failing statements, lost answers and crashes

(* Transactional DDL comes with a lock (PostgreSQL, SQL Server), or in an    *)
(* engine that refuses a second writer (SQLite).                           *)
ASSUME MigrateConstants ==
    /\ Engines \subseteq [locks : BOOLEAN, transacts : BOOLEAN, busy : BOOLEAN]
    /\ \A e \in Engines : e.transacts => e.locks \/ e.busy
    /\ Ops \subseteq {"apply", "verify", "baseline", "repair", "accept"}
    /\ MaxFaults \in [Engines -> Nat]
    /\ Null \notin Nat \cup Runners

Entry(versions) == [source : Nat, version : versions, sum : STRING]
Entries == UNION {m.versioned \cup m.repeatable : m \in Manifests}

(* validateManifest: a source's name says its version, a version is given    *)
(* once in a manifest; its lists are finite, so that each part of one has a *)
(* first and a last entry.                                                 *)
ASSUME ManifestConstants ==
    /\ Manifests # {}
    /\ \A d, e \in Entries : d.source = e.source => d.version = e.version
    /\ \A m \in Manifests :
         /\ m.versioned \subseteq Entry(Nat \ {0}) /\ m.repeatable \subseteq Entry({0})
         /\ \A d, e \in m.versioned : d.version = e.version => d = e
         /\ \A part \in (SUBSET m.versioned) \ {{}} :
              /\ \E e \in part : \A f \in part : e.version <= f.version
              /\ \E e \in part : \A f \in part : f.version <= e.version
         /\ \A part \in (SUBSET m.repeatable) \ {{}} :
              \E e \in part : \A f \in part : e.source <= f.source

VARIABLES
    engine,     \* the database, chosen once
    table,      \* the history table exists
    rows,       \* its committed rows, of this scope
    schema,     \* the statements of migrations that were committed
    lock,       \* the holder of the advisory lock, or Null
    open,       \* open[p]: the row p inserted in its open transaction, a set
    pc,         \* where a program stands
    job,        \* its locals
    faults      \* faults so far

vars == <<engine, table, rows, schema, lock, open, pc, job, faults>>

-----------------------------------------------------------------------------
(* The history (history.ts): the rows of its table, and compareHistory,     *)
(* which holds a manifest against them.  A version is a natural number, 0   *)
(* where the code has null: a repeatable migration has version 0. A source  *)
(* is a number, in the order of names. A manifest is a pair of sets of      *)
(* entries.                                                                *)

(* Mutant of Successes: whatever its status. *)
SuccessesAny(R) == R

Successes(R) == {r \in R : r.status = "success"}
Incomplete(R) == R \ Successes(R)

(* What apply asks before anything else; the mutants never ask. *)
FailedIgnored(R) == FALSE
AnyFailed(R) == \E r \in R : r.status = "failed"
RunningIgnored(R) == FALSE
AnyRunning(R) == \E r \in R : r.status = "running"

LastOf(R) == CHOOSE r \in R : \A s \in R : s.rank <= r.rank

(* head and baseline: the greatest version of any row, and of a baseline. *)
HeadVersion(R) == Max({0} \cup {r.version : r \in Successes(R)})
BaselineVersion(R) ==
    Max({0} \cup {r.version : r \in {s \in Successes(R) : s.kind = "baseline"}})

(* The maps applied and repeatable: the last row of each version or source. *)
Applied(R) ==
    LET versioned == {r \in Successes(R) : r.kind = "versioned"} IN
    {r \in versioned : \A s \in versioned : s.version = r.version => s.rank <= r.rank}
Repeated(R, source) ==
    {r \in Successes(R) : r.kind = "repeatable" /\ r.source = source}

LastVersion(m) == Max({0} \cup {e.version : e \in m.versioned})

(* The versions still to be run, those of them that come too late, and the  *)
(* repeatables whose text changed.                                          *)
Missing(m, R) ==
    {e \in m.versioned : /\ e.version > BaselineVersion(R)
                         /\ \A r \in Applied(R) : r.version # e.version}
(* Mutant of Pending: late versions too. *)
PendingLate(m, R) == Missing(m, R)
Pending(m, R) == {e \in Missing(m, R) : e.version >= HeadVersion(R)}
Changed(m, R) ==
    {e \in m.repeatable : \/ Repeated(R, e.source) = {}
                          \/ LastOf(Repeated(R, e.source)).sum # e.sum}

(* checksum-mismatch, missing-source and out-of-order. *)
Mismatch(m, R) ==
    \/ Pending(m, R) # Missing(m, R)
    \/ \E r \in Applied(R) :
         /\ r.version <= LastVersion(m)
         /\ ~\E e \in m.versioned : e.version = r.version /\ e.sum = r.sum

Ahead(m, R) == HeadVersion(R) > LastVersion(m)

(* compareHistory; R is Null where there is no history table. *)
Compare(m, R) ==
    IF R = Null THEN "uninitialized"
    ELSE IF Incomplete(R) # {} THEN "incomplete"
    ELSE IF Mismatch(m, R) THEN "mismatch"
    ELSE IF Pending(m, R) \cup Changed(m, R) # {} THEN "pending"
    ELSE IF Ahead(m, R) THEN "ahead" ELSE "current"

(* The first difference of kind pending or repeatable-changed. *)
NextEntry(m, R) ==
    IF Pending(m, R) # {}
      THEN CHOOSE e \in Pending(m, R) : \A f \in Pending(m, R) : e.version <= f.version
      ELSE CHOOSE e \in Changed(m, R) : \A f \in Changed(m, R) : e.source <= f.source

(* installed_rank of the next attempt: one more than the last. *)
NextRank(R) == IF R = {} THEN 1 ELSE LastOf(R).rank + 1

(* The last schema hash recorded in the history. *)
LatestHash(R) ==
    LET hashed == {r \in R : r.hash # Null} IN
    IF hashed = {} THEN Null ELSE LastOf(hashed).hash
-----------------------------------------------------------------------------
(* Two statements make a body. *)
Length == 2
Body(source, p) == [i \in 1..Length |-> <<source, p, i>>]

Idle == [op |-> "apply", manifest |-> CHOOSE m \in Manifests : TRUE,
         row |-> Null, done |-> 0, last |-> 0, seen |-> Null, hash |-> 0, ok |-> TRUE]

Init ==
    /\ engine \in Engines
    /\ table = FALSE
    /\ rows = {}
    /\ schema = <<>>
    /\ lock = Null
    /\ open = [p \in Runners |-> {}]
    /\ pc = [p \in Runners |-> "new"]
    /\ job = [p \in Runners |-> Idle]
    /\ faults = 0

(* A step of p leads to label l and gives its locals j. *)
Goto(p, l, j) ==
    /\ pc' = [pc EXCEPT ![p] = l]
    /\ job' = [job EXCEPT ![p] = j]

(* What p does when its callback under the lock throws. *)
Throw(p) == Goto(p, "leave", [Idle EXCEPT !.op = job[p].op, !.ok = FALSE])

Fault == faults < MaxFaults[engine] /\ faults' = faults + 1

(* The answer to a write that took effect arrives, or is lost.              *)
Answer(p, l, j) == (Goto(p, l, j) /\ UNCHANGED faults) \/ (Throw(p) /\ Fault)

Stop(p, l) == Goto(p, l, [Idle EXCEPT !.op = job[p].op, !.ok = FALSE])

Stored == IF table THEN rows ELSE Null

(* SQLite refuses a write while another program's transaction has written. *)
Refused(p) == engine.busy /\ \E q \in Runners \ {p} : open[q] # {}

(* Mutant of Transactional: the capability is never seen. *)
TransactionalNever(row) == FALSE
Transactional(row) == engine.transacts /\ row.source \notin Off

Row(e, p, rank) ==
    [rank |-> rank, source |-> e.source, version |-> e.version, sum |-> e.sum,
     kind |-> IF e.version = 0 THEN "repeatable" ELSE "versioned",
     status |-> "running", by |-> p, hash |-> Null]

(* finish and schemaHash: an UPDATE of the row with this rank and           *)
(* execution id, if it is still there.                                     *)
Mine(p) == {r \in rows : job[p].row # Null /\ r.rank = job[p].row.rank /\ r.by = p}
(* Mutant of Finished: always a success. *)
FinishedWell(p, status) == (rows \ Mine(p)) \cup {[r EXCEPT !.status = "success"] : r \in Mine(p)}
Finished(p, status) == (rows \ Mine(p)) \cup {[r EXCEPT !.status = status] : r \in Mine(p)}
(* Mutant of Hashed: the last row, whoever's. *)
HashedLast(rank, by, hash) ==
    {IF r = LastOf(rows) THEN [r EXCEPT !.hash = hash] ELSE r : r \in rows}
Hashed(rank, by, hash) ==
    {IF r.rank = rank /\ r.by = by /\ r.status = "success" THEN [r EXCEPT !.hash = hash] ELSE r : r \in rows}
-----------------------------------------------------------------------------
(* The call of an operation. *)
Start(p) ==
    /\ pc[p] = "new"
    /\ \E op \in Ops : \E m \in IF op \in {"repair", "accept"} THEN {Idle.manifest} ELSE Manifests :
         Goto(p, CASE op = "apply" -> "before" [] op = "verify" -> "report" [] OTHER -> "enter",
              [Idle EXCEPT !.op = op, !.manifest = m])
    /\ UNCHANGED <<engine, table, rows, schema, lock, open, faults>>

(* report: the history is read, then the schema inspected. startup runs it  *)
(* before it applies, where only drift counts, and at its end.             *)
Read(p) ==
    /\ \/ pc[p] = "before" /\ Goto(p, "compare", [job[p] EXCEPT !.seen = Stored])
       \/ pc[p] = "report" /\ Goto(p, "verdict", [job[p] EXCEPT !.seen = Stored])
    /\ UNCHANGED <<engine, table, rows, schema, lock, open, faults>>

Drift(p) ==
    /\ job[p].seen # Null
    /\ LatestHash(job[p].seen) \notin {Null, Len(schema)}

Compared(p) ==
    /\ pc[p] = "compare"
    /\ IF Drift(p) THEN Stop(p, "failed") ELSE Goto(p, "enter", [job[p] EXCEPT !.seen = Null])
    /\ UNCHANGED <<engine, table, rows, schema, lock, open, faults>>

Verdict(p) ==
    /\ pc[p] = "verdict"
    /\ LET good == ~Drift(p) /\ Compare(job[p].manifest, job[p].seen) \in {"current", "ahead"} IN
       IF good THEN Goto(p, "done", [Idle EXCEPT !.op = job[p].op, !.manifest = job[p].manifest])
       ELSE Stop(p, "failed")
    /\ UNCHANGED <<engine, table, rows, schema, lock, open, faults>>
-----------------------------------------------------------------------------
(* withMigrationLock, and its finally. *)
Enter(p) ==
    /\ pc[p] = "enter"
    /\ engine.locks => lock = Null
    /\ lock' = IF engine.locks THEN p ELSE Null
    /\ Goto(p, CASE job[p].op = "repair" -> "repair" [] job[p].op = "accept" -> "choose"
                 [] OTHER -> "look", job[p])
    /\ UNCHANGED <<engine, table, rows, schema, open, faults>>

LockTimeout(p) ==
    /\ pc[p] = "enter"
    /\ engine.locks /\ lock # Null
    /\ Stop(p, "failed")
    /\ UNCHANGED <<engine, table, rows, schema, lock, open, faults>>

Leave(p) ==
    /\ pc[p] = "leave"
    /\ lock' = IF lock = p THEN Null ELSE lock
    /\ IF ~job[p].ok THEN Stop(p, "failed")
       ELSE Goto(p, IF job[p].last # 0 THEN "inspect"
                    ELSE IF job[p].op = "apply" THEN "report" ELSE "done",
                 [job[p] EXCEPT !.row = Null, !.seen = Null])
    /\ UNCHANGED <<engine, table, rows, schema, open, faults>>

(* Outside the lock: the schema is inspected and its hash recorded on the   *)
(* last row this program applied.                                          *)
Inspect(p) ==
    /\ pc[p] = "inspect"
    /\ Goto(p, "record", [job[p] EXCEPT !.hash = Len(schema)])
    /\ UNCHANGED <<engine, table, rows, schema, lock, open, faults>>

Record(p) ==
    /\ pc[p] = "record"
    /\ IF Refused(p) THEN Throw(p) /\ UNCHANGED <<rows, faults>>
       ELSE /\ rows' = Hashed(job[p].last, p, job[p].hash)
            /\ Answer(p, IF job[p].op = "apply" THEN "report" ELSE "done",
                      [job[p] EXCEPT !.hash = 0, !.last = 0])
    /\ UNCHANGED <<engine, table, schema, lock, open>>
-----------------------------------------------------------------------------
(* apply, under the lock: read the history, then leave, wait, or choose the *)
(* next entry and the rank of its row.                                     *)
Look(p) ==
    /\ pc[p] = "look" /\ table
    /\ LET m == job[p].manifest
           e == NextEntry(m, rows)
       IN IF job[p].op = "baseline"
            THEN IF rows = {} THEN Goto(p, "baseline", job[p]) ELSE Throw(p)
          ELSE IF AnyFailed(rows) THEN Throw(p)
          ELSE IF AnyRunning(rows) THEN Goto(p, "waiting", job[p])
          ELSE IF Mismatch(m, rows) THEN Throw(p)
          ELSE IF Pending(m, rows) \cup Changed(m, rows) = {} THEN Goto(p, "leave", job[p])
          ELSE Goto(p, "claim", [job[p] EXCEPT !.row = Row(e, p, NextRank(rows)), !.done = 0])
    /\ UNCHANGED <<engine, table, rows, schema, lock, open, faults>>

(* bootstrapHistory: one that lost the race finds the table in place.       *)
Bootstrap(p) ==
    /\ pc[p] = "look" /\ ~table
    /\ table' = TRUE
    /\ Answer(p, "look", job[p])
    /\ UNCHANGED <<engine, rows, schema, lock, open>>

(* waitForClaim: wait and read again, or give up after busyTimeoutMs.       *)
Retry(p) ==
    /\ pc[p] = "waiting"
    /\ Goto(p, "look", job[p])
    /\ UNCHANGED <<engine, table, rows, schema, lock, open, faults>>

(* Mutant of GiveUp: the time runs anew with every wait. *)
GiveUpNever(p) == FALSE
GiveUp(p) ==
    /\ pc[p] = "waiting"
    /\ Throw(p)
    /\ UNCHANGED <<engine, table, rows, schema, lock, open, faults>>

(* claim: the row is inserted. A taken rank sends the program back to read, *)
(* a busy database to wait; a transaction keeps the row to itself; without  *)
(* one the row is committed, even if the answer is lost.                   *)
(* Mutant of Taken: no unique key. *)
TakenNever(rank) == FALSE
Taken(rank) == \E r \in rows : r.rank = rank

Claim(p) ==
    /\ pc[p] = "claim"
    /\ LET row == job[p].row IN
       \/ /\ Refused(p)
          /\ Goto(p, "waiting", [job[p] EXCEPT !.row = Null])
          /\ UNCHANGED <<rows, open, faults>>
       \/ /\ ~Refused(p) /\ Taken(row.rank)
          /\ Goto(p, "look", [job[p] EXCEPT !.row = Null])
          /\ UNCHANGED <<rows, open, faults>>
       \/ /\ ~Refused(p) /\ ~Taken(row.rank) /\ Transactional(row)
          /\ open' = [open EXCEPT ![p] = {row}]
          /\ Goto(p, "body", job[p])
          /\ UNCHANGED <<rows, faults>>
       \/ /\ ~Refused(p) /\ ~Taken(row.rank) /\ ~Transactional(row)
          /\ rows' = rows \cup {row}
          /\ Answer(p, "body", job[p])
          /\ UNCHANGED open
    /\ UNCHANGED <<engine, table, schema, lock>>

(* The next statement of the body. One that fails ends the attempt: the     *)
(* transaction is rolled back, or the row is to be marked. (A committed    *)
(* row keeps every other program from a transaction: nothing is refused.)  *)
Statement(p) ==
    /\ pc[p] = "body" /\ job[p].done < Length
    /\ LET row == job[p].row IN
       \/ /\ schema' = IF Transactional(row) THEN schema
                       ELSE Append(schema, Body(row.source, p)[job[p].done + 1])
          /\ Goto(p, "body", [job[p] EXCEPT !.done = @ + 1])
          /\ UNCHANGED <<open, faults>>
       \/ /\ Fault
          /\ IF Transactional(row) THEN Throw(p) ELSE Goto(p, "mark", job[p])
          /\ open' = [open EXCEPT ![p] = {}]
          /\ UNCHANGED schema
    /\ UNCHANGED <<engine, table, rows, lock>>

(* The attempt becomes a success: its transaction commits, or its row is    *)
(* updated. Either may fail, or take effect and its answer be lost.        *)
Succeed(p) ==
    LET row == job[p].row
        next == [job[p] EXCEPT !.last = row.rank, !.row = Null, !.done = 0]
    IN IF Transactional(row)
         THEN /\ rows' = rows \cup {[r EXCEPT !.status = "success"] : r \in open[p]}
              /\ schema' = schema \o Body(row.source, p)
              /\ Answer(p, "look", next)
         ELSE /\ rows' = Finished(p, "success")
              /\ \/ Answer(p, "look", next)
                 \/ Goto(p, "mark", job[p]) /\ Fault
              /\ UNCHANGED schema

Finish(p) ==
    /\ pc[p] = "body" /\ job[p].done = Length
    /\ \/ Succeed(p)
       \/ /\ Fault
          /\ IF Transactional(job[p].row) THEN Throw(p) ELSE Goto(p, "mark", job[p])
          /\ UNCHANGED <<rows, schema>>
    /\ open' = [open EXCEPT ![p] = {}]
    /\ UNCHANGED <<engine, table, lock>>

(* The row of a failed body is marked, if that write succeeds: the row of a *)
(* body that was whole no longer keeps another program from a transaction. *)
Mark(p) ==
    /\ pc[p] = "mark"
    /\ \/ ~Refused(p) /\ rows' = Finished(p, "failed") /\ UNCHANGED faults
       \/ Refused(p) /\ UNCHANGED <<rows, faults>>
       \/ Fault /\ UNCHANGED rows
    /\ Throw(p)
    /\ UNCHANGED <<engine, table, schema, lock, open>>
-----------------------------------------------------------------------------
(* baseline, in an empty scope: the version is recorded as if applied.      *)
Baseline(p) ==
    /\ pc[p] = "baseline"
    /\ \E e \in job[p].manifest.versioned :
         LET row == [Row(e, p, 1) EXCEPT !.kind = "baseline", !.status = "success"] IN
         IF Refused(p) \/ Taken(1) THEN Throw(p) /\ UNCHANGED <<rows, faults>>
         ELSE rows' = rows \cup {row} /\ Answer(p, "leave", [job[p] EXCEPT !.last = 1])
    /\ UNCHANGED <<engine, table, schema, lock, open>>

(* The README asks that the database be inspected before a repair: without  *)
(* a lock nothing else keeps it from the row of a program at work, or from  *)
(* one that is about to claim on the history it read.                      *)
Inspected ==
    /\ \A r \in rows : r.status = "running" => pc[r.by] \in {"failed", "crashed"}
    /\ \A p \in Runners : pc[p] # "claim"

Repair(p) ==
    /\ pc[p] = "repair"
    /\ engine.locks \/ Inspected
    /\ IF Refused(p) THEN Throw(p) /\ UNCHANGED <<rows, faults>>
       ELSE /\ rows' = Successes(rows)
            /\ Answer(p, "leave", job[p])
    /\ UNCHANGED <<engine, table, schema, lock, open>>

(* acceptSchema: the last success is chosen, then the schema inspected and  *)
(* its hash written, all under the lock.                                   *)
Choose(p) ==
    /\ pc[p] = "choose"
    /\ IF ~table \/ Incomplete(rows) # {} \/ rows = {} THEN Throw(p)
       ELSE Goto(p, "accept", [job[p] EXCEPT !.row = LastOf(Successes(rows))])
    /\ UNCHANGED <<engine, table, rows, schema, lock, open, faults>>

Survey(p) ==
    /\ pc[p] = "accept"
    /\ Goto(p, "stamp", [job[p] EXCEPT !.hash = Len(schema)])
    /\ UNCHANGED <<engine, table, rows, schema, lock, open, faults>>

Stamp(p) ==
    /\ pc[p] = "stamp"
    /\ IF Refused(p) THEN Throw(p) /\ UNCHANGED <<rows, faults>>
       ELSE /\ rows' = Hashed(job[p].row.rank, job[p].row.by, job[p].hash)
            /\ Answer(p, "leave", [job[p] EXCEPT !.hash = 0])
    /\ UNCHANGED <<engine, table, schema, lock, open>>
-----------------------------------------------------------------------------
(* A read, an inspection or a lock that fails, or a write without effect.   *)
Broken(p) ==
    /\ pc[p] \notin {"new", "body", "mark", "leave", "done", "failed", "crashed"}
    /\ Fault
    /\ Throw(p)
    /\ UNCHANGED <<engine, table, rows, schema, lock, open>>

(* A program stops. The database drops its session: the lock is free and    *)
(* its transaction rolled back. What it committed stays.                   *)
Crash(p) ==
    /\ pc[p] \notin {"new", "done", "failed", "crashed"}
    /\ Fault
    /\ Stop(p, "crashed")
    /\ lock' = IF lock = p THEN Null ELSE lock
    /\ open' = [open EXCEPT ![p] = {}]
    /\ UNCHANGED <<engine, table, rows, schema>>

Ended(p) == pc[p] \in {"done", "failed", "crashed"}

Quiet == (\A p \in Runners : Ended(p)) /\ UNCHANGED vars

Work(p) ==
    \/ Read(p) \/ Compared(p) \/ Verdict(p)
    \/ Enter(p) \/ LockTimeout(p) \/ Leave(p) \/ Inspect(p) \/ Record(p)
    \/ Look(p) \/ Bootstrap(p) \/ Retry(p) \/ Claim(p) \/ Statement(p) \/ Finish(p) \/ Mark(p)
    \/ Baseline(p) \/ Repair(p) \/ Choose(p) \/ Survey(p) \/ Stamp(p)

Next == (\E p \in Runners : Start(p) \/ Work(p) \/ GiveUp(p) \/ Broken(p) \/ Crash(p)) \/ Quiet

Spec == Init /\ [][Next]_vars

(* A program that was started goes on, and a wait has an end.               *)
Fairness == \A p \in Runners : WF_vars(Work(p)) /\ SF_vars(GiveUp(p))
FairSpec == Spec /\ Fairness
-----------------------------------------------------------------------------
(* What the migrator promises.                                             *)
Labels == {"new", "before", "compare", "enter", "look", "waiting", "claim", "body", "mark",
           "baseline", "repair", "choose", "accept", "stamp", "leave", "inspect", "record",
           "report", "verdict", "done", "failed", "crashed"}
Rows == [rank : Nat \ {0}, source : Nat, version : Nat, sum : STRING,
         kind : {"versioned", "repeatable", "baseline"},
         status : {"running", "success", "failed"}, by : Runners, hash : Nat \cup {Null}]

ASSUME NullIsNoRow == Null \notin Rows
Jobs == [op : Ops \cup {"apply"}, manifest : Manifests, row : Rows \cup {Null}, done : 0..Length,
         last : Nat, seen : {Null} \cup SUBSET Rows, hash : Nat, ok : BOOLEAN]

(* The state is typed; installed_rank is at least 1, or read would reject    *)
(* the history (history.ts 52).                                            *)
TypeOK ==
    /\ engine \in Engines /\ table \in BOOLEAN
    /\ rows \subseteq Rows /\ open \in [Runners -> SUBSET Rows]
    /\ schema \in Seq(Nat \X Runners \X (1..Length))
    /\ lock \in Runners \cup {Null}
    /\ pc \in [Runners -> Labels]
    /\ job \in [Runners -> Jobs]
    /\ faults \in 0..MaxFaults[engine]

Took(x) == \E i \in DOMAIN schema : schema[i] = x
Versions == {e.source : e \in {e \in Entries : e.version # 0}}
Whole(source, p) == \A i \in 1..Length : Took(Body(source, p)[i])
Part(source, p) == \E i \in 1..Length : Took(Body(source, p)[i])

OneBody == \A p, q \in Runners : pc[p] = "body" /\ pc[q] = "body" => p = q

Unrepaired == \A p \in Runners : job[p].op # "repair"

RunOnce ==
    Unrepaired =>
        \A i, j \in DOMAIN schema :
            schema[i][1] = schema[j][1] /\ schema[i][1] \in Versions => schema[i][2] = schema[j][2]

(* Two programs never run bodies at the same time, lock or no lock: the     *)
(* rank is the claim (index.ts 279-287, README "Splitting and ownership").  *)
(* "It never executes the migration owned by that claim": until someone     *)
(* repairs, a version is run by one program at most, whatever was lost.    *)
StartedOnce == OneBody /\ RunOnce

SuccessIsWhole ==
    \A r \in Successes(rows) :
        r.kind # "baseline" =>
            \E i \in 1..Len(schema) : /\ i + Length - 1 <= Len(schema)
                                     /\ SubSeq(schema, i, i + Length - 1) = Body(r.source, r.by)

Resolved ==
    \A p \in Runners :
        pc[p] = "done" /\ job[p].op \in {"apply", "verify"} =>
            \A e \in job[p].manifest.versioned :
                \/ e.version <= BaselineVersion(rows)
                \/ \E f \in Entries, q \in Runners :
                     f.version = e.version /\ f.sum = e.sum /\ Whole(f.source, q)

HashAtRest ==
    (\A p \in Runners : pc[p] = "done") => LatestHash(rows) \in {Null, Len(schema)}

(* The history is evidence.  The statements of the body of a success row    *)
(* took effect, one after the other with nothing between them; apply and    *)
(* verify resolve only on a database that holds every version of their      *)
(* manifest, with its checksum, or was baselined at it; and when every      *)
(* program has ended well the recorded hash is that of the schema: the next *)
(* start finds no drift that nobody caused.                                 *)
Evidence == SuccessIsWhole /\ Resolved /\ HashAtRest

(* "A transactional migration failure rolls back its claim and DDL": what   *)
(* a program ran in a transaction is there exactly if its success is, and  *)
(* it leaves no unfinished row.                                            *)
Atomic ==
    engine.transacts =>
        \A p \in Runners, e \in Entries :
            e.source \notin Off =>
                LET attempts == {r \in rows : r.by = p /\ r.source = e.source /\ r.kind # "baseline"} IN
                /\ Part(e.source, p) <=> attempts # {}
                /\ attempts \subseteq Successes(rows)

RanInOrder ==
    Unrepaired =>
      \A d, e \in Entries :
        d.version > e.version /\ e.version # 0 =>
            \A i, j \in DOMAIN schema :
                d.source = schema[i][1] /\ e.source = schema[j][1] => j < i

RankedInOrder ==
    \A r, s \in rows :
        r.kind = "versioned" /\ s.kind = "versioned" /\ r.version < s.version => r.rank < s.rank

(* Versions take effect in ascending order, across programs with different  *)
(* manifests and failures, and are recorded in it. A repair leaves the      *)
(* order of the record: what a failed body did is forgotten with its row,   *)
(* so that an earlier version may still be run after it.                    *)
Ordered == RanInOrder /\ RankedInOrder

(* No body starts on a database that another one left in pieces.           *)
NothingPartial ==
    [][\A p \in Runners :
        pc[p] # "body" /\ pc'[p] = "body" =>
            \A r \in Incomplete(rows) : Whole(r.source, r.by)]_vars

(* A program that was started resolves or rejects: no wait for a lock, a    *)
(* claim or a rank is without end.                                         *)
Settles == \A p \in Runners : pc[p] # "new" ~> Ended(p)
=============================================================================
