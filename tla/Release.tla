------------------------------ MODULE Release ------------------------------
(***************************************************************************)
(* scripts/release.mjs and release-recovery.mjs: how a certified candidate *)
(* gets to npm.  A workflow run uploads each package to npm's staging      *)
(* area and keeps a journal of what it did; a person approves or rejects   *)
(* what is staged; a run that failed is recovered by another run that      *)
(* starts from its journal.                                                *)
(*                                                                         *)
(* A group of reads, a write or an upload is a step, so the registry and   *)
(* the people act in between; the runner may die before each, and what it  *)
(* has written may be kept or lost.                                        *)
(***************************************************************************)
EXTENDS Naturals, Sequences, FiniteSets, SequencesExt, FiniteSetsExt

CONSTANTS
    Names,          \* the packages of the workspace, as names sort
    Deps,           \* what each package depends on
    Candidates,     \* [release, prerelease, legacy]: what is to be released
    Worlds,         \* what the registry may hold at first
    MaxEvents, MaxStages,   \* bounds: runs and meddling, uploads
    Rerunnable      \* the outcomes of an upload step after which a run is run again

Packages == Range(Names)

(* Versions, for the tags: none, an older, this, a newer. *)
None == 0
Older == 1
This == 2
Newer == 3

(* publishOrder refuses names that are given twice and dependencies that go *)
(* round; a candidate of the former workflow is of several packages.       *)
ASSUME ReleaseAssumption ==
    /\ Names \in Seq(Packages) /\ IsInjective(Names)
    /\ Deps \in [Packages -> SUBSET Packages]
    /\ \A S \in (SUBSET Packages) \ {{}} : \E p \in S : Deps[p] \cap S = {}
    /\ Candidates \subseteq [release : SUBSET Packages, prerelease : BOOLEAN, legacy : BOOLEAN]
    /\ \A c \in Candidates : IF c.legacy THEN Cardinality(c.release) > 1 ELSE Cardinality(c.release) = 1
    /\ Worlds \subseteq [Packages -> [bytes : {"none", "mine", "other"},
                                     latest : None..Newer, next : None..Newer]]

VARIABLES
    candidate,      \* the certified candidate
    registry,       \* per package: the bytes of this version, and the tags
    stages,         \* the uploads npm's staging area got
    runs,           \* the workflow runs for this candidate
    job,            \* the run that has the lock, and where it is
    memory, disk,   \* its journal, and the journal it has written
    meddled         \* how often somebody published something else

vars == <<candidate, registry, stages, runs, job, memory, disk, meddled>>

----------------------------------------------------------------------------
(* The candidate                                                           *)

(* Packages in an order in which each follows what it depends on: the      *)
(* first by name of those that are ready, again and again.                 *)
order[n \in 0..Len(Names)] ==
    IF n = 0 THEN <<>>
    ELSE LET done == Range(order[n - 1])
             ready == {i \in DOMAIN Names : Names[i] \notin done /\ Deps[Names[i]] \subseteq done}
         IN  IF ready = {} THEN order[n - 1] ELSE Append(order[n - 1], Names[Min(ready)])

publishOrder == order[Len(Names)]

(* The places of the packages that are released.                           *)
releaseEntries == {i \in DOMAIN publishOrder : publishOrder[i] \in candidate.release}
first == Min(releaseEntries)
releaseTag == IF candidate.prerelease THEN "next" ELSE "latest"

(* Packages by layer: all within a layer depends on the layers before it    *)
(* only.                                                                   *)
within(release) ==
    LET upTo[n \in 0..Cardinality(release)] ==
            IF n = 0 THEN {} ELSE {p \in release : Deps[p] \cap release \subseteq upTo[n - 1]}
    IN  upTo

(* What each layer stages; the layers that stage nothing print no command. *)
approvalCommands(records) ==
    LET upTo == within(DOMAIN records)
    IN  [n \in 1..Cardinality(DOMAIN records) |->
            {records[p].id : p \in {q \in upTo[n] \ upTo[n - 1] : records[q].state = "staged"}}]

----------------------------------------------------------------------------
(* The journal                                                             *)

NoJournal == [run |-> 0, attempt |-> 0, records |-> <<>>, before |-> <<>>, complete |-> FALSE]
Records(state) == [p \in candidate.release |-> [state |-> state, id |-> 0]]
registryTagSnapshot == [p \in candidate.release |-> registry[p].latest]

freshEvidence(r) ==
    [run |-> r, attempt |-> runs[r].attempt, records |-> Records("absent"),
     before |-> registryTagSnapshot, complete |-> FALSE]

(* A reconciled journal keeps the records and the tags of the one before. *)
reconciledEvidence(r, prior) == [prior EXCEPT !.run = r, !.attempt = runs[r].attempt, !.complete = FALSE]

----------------------------------------------------------------------------
(* What the workflow may do                                                *)

Idle == [run |-> 0, pc |-> "idle", index |-> 1]

(* mutation is what GitHub says of the step that uploads. *)
Run(mode, prior, artifact) ==
    [mode |-> mode, prior |-> prior, artifact |-> artifact, attempt |-> 1, status |-> "queued",
     mutation |-> "skipped", journal |-> NoJournal, preserved |-> FALSE]

(* Mutant of assertNoPriorStageAttempt: a run that is over is over. *)
assertNoOtherStage(r) ==
    /\ runs[r].attempt = 1
    /\ \A q \in DOMAIN runs \ {r} : runs[q].mode # "pack" => runs[q].status = "completed"

(* A run that staged, whichever attempt, must be reconciled: but GitHub     *)
(* lists the jobs of the last attempt only.                                *)
assertNoPriorStageAttempt(r) ==
    /\ runs[r].attempt = 1
    /\ \A q \in DOMAIN runs \ {r} :
         runs[q].mode # "pack" => runs[q].status = "completed" /\ runs[q].mutation = "skipped"

(* The evidence a recovery starts from must be that of the run it names. *)
assertPriorStagingEvidence(q) ==
    LET journal == runs[q].journal
    IN  IF journal # NoJournal
        THEN /\ journal.run = q /\ journal.attempt = runs[q].attempt
             /\ runs[q].mutation # "skipped"
        ELSE runs[q].mutation = "failure" /\ runs[q].preserved /\ Cardinality(candidate.release) = 1

recoverRelease(r) ==
    LET run == runs[r]
    IN  /\ run.artifact = "certified"
        /\ run.mode = "stage" =>
             /\ run.prior = 1 /\ Cardinality(candidate.release) = 1
             /\ assertNoPriorStageAttempt(r)
        /\ run.mode = "recover" =>
             /\ run.prior # r /\ runs[run.prior].status = "completed" /\ runs[run.prior].preserved
             /\ assertPriorStagingEvidence(run.prior)

assertStageablePackages ==
    \A p \in candidate.release : registry[p].bytes # "none" \/ registry[p].latest # None

assertPublishedInternalDependencies ==
    \A p \in candidate.release : \A d \in Deps[p] \ candidate.release : registry[d].bytes # "none"

assertLatestUnchanged(p) == registry[p].latest = memory.before[p]
assertNoTagDowngrade(p) == registry[p][releaseTag] <= This

----------------------------------------------------------------------------
(* The job                                                                 *)

Finish(mutation, journal, preserved) ==
    /\ runs' = [runs EXCEPT ![job.run].status = "completed", ![job.run].mutation = mutation,
                            ![job.run].journal = journal, ![job.run].preserved = preserved]
    /\ job' = Idle /\ memory' = NoJournal /\ disk' = NoJournal
    /\ UNCHANGED stages

(* Once there is a journal, whatever ends the step writes it a last time. *)
Fail == Finish("failure", memory, TRUE)
Goto(pc, index) == job' = [job EXCEPT !.pc = pc, !.index = index]
persist(evidence) == memory' = evidence /\ disk' = evidence

Dispatched(mode, prior, artifact) ==
    /\ Len(runs) + meddled < MaxEvents
    /\ runs' = Append(runs, Run(mode, prior, artifact))
    /\ UNCHANGED <<candidate, registry, stages, job, memory, disk, meddled>>

DispatchStage ==
    \E artifact \in {"certified", "altered"} : Dispatched("stage", 1, artifact)

(* Who asks for a recovery says that every earlier stage was rejected, and  *)
(* has looked; one recovery is asked for at a time.                        *)
DispatchRecovery ==
    /\ \A s \in DOMAIN stages : stages[s].state # "live"
    /\ \A r \in DOMAIN runs : runs[r].mode = "recover" => runs[r].status = "completed"
    /\ \A r \in DOMAIN runs : runs[r].status # "running"
    /\ \E prior \in DOMAIN runs : Dispatched("recover", prior, "certified")

Rerun ==
    /\ \E r \in DOMAIN runs :
         /\ runs[r].mode = "stage" /\ runs[r].status = "completed" /\ runs[r].attempt < 2
         /\ runs[r].mutation \in Rerunnable
         /\ runs' = [runs EXCEPT ![r].status = "queued", ![r].attempt = @ + 1,
                                 ![r].mutation = "skipped"]
    /\ UNCHANGED <<candidate, registry, stages, job, memory, disk, meddled>>

(* One job at a time has the lock of the candidate. *)
Start ==
    /\ job = Idle
    /\ \E r \in DOMAIN runs :
         /\ runs[r].status = "queued"
         /\ runs' = [runs EXCEPT ![r].status = "running"]
         /\ job' = [run |-> r, pc |-> "preflight", index |-> 1]
    /\ UNCHANGED <<candidate, registry, stages, memory, disk, meddled>>

World == <<candidate, registry, meddled>>

Preflight ==
    /\ job.pc = "preflight"
    /\ IF recoverRelease(job.run)
       THEN Goto("mutate", 1) /\ UNCHANGED <<stages, runs, memory, disk>>
       ELSE Finish("skipped", NoJournal, TRUE)
    /\ UNCHANGED World

(* The checks again, then the journal. *)
Begin ==
    /\ job.pc = "mutate"
    /\ IF recoverRelease(job.run) /\ assertStageablePackages /\ assertPublishedInternalDependencies
       THEN LET run == runs[job.run]
                prior == IF run.mode = "recover" THEN runs[run.prior].journal ELSE NoJournal
            IN  /\ persist(IF prior = NoJournal THEN freshEvidence(job.run)
                           ELSE reconciledEvidence(job.run, prior))
                /\ Goto(IF prior = NoJournal THEN "tags" ELSE "confirmed", 1)
                /\ UNCHANGED <<stages, runs>>
       ELSE Finish("failure", NoJournal, TRUE)
    /\ UNCHANGED World

TagsAllow(p) ==
    /\ assertLatestUnchanged(p) /\ assertNoTagDowngrade(p)
    /\ ~(candidate.prerelease /\ registry[p].latest = This)

CheckTags ==
    /\ job.pc \in {"tags", "confirmed"}
    /\ IF /\ \A p \in candidate.release : TagsAllow(p)
          /\ job.pc = "confirmed" => \A p \in candidate.release : registry[p].bytes # "other"
       THEN Goto(IF job.pc = "confirmed" THEN "reset" ELSE "look", first)
            /\ UNCHANGED <<stages, runs, memory, disk>>
       ELSE Fail
    /\ UNCHANGED World

(* The rejected stages are forgotten; what is public stays. *)
Reset ==
    /\ job.pc = "reset"
    /\ persist([memory EXCEPT !.records = [p \in DOMAIN @ |->
            IF @[p].state \in {"staged", "pending"} THEN [state |-> "absent", id |-> 0] ELSE @[p]]])
    /\ Goto("look", first)
    /\ UNCHANGED <<candidate, registry, stages, runs, meddled>>

Entry == publishOrder[job.index]
Recorded(state, id) == [memory EXCEPT !.records[Entry] = [state |-> state, id |-> id]]

(* Mutant of Look: the intent is kept in memory only. *)
LookUnwritten ==
    /\ job.pc = "look"
    /\ IF registry[Entry].bytes = "mine" THEN persist(Recorded("public", 0)) /\ Goto("after", job.index)
       ELSE memory' = Recorded("pending", 0) /\ UNCHANGED disk /\ Goto("upload", job.index)
    /\ UNCHANGED <<candidate, registry, stages, runs, meddled>>

(* Public already, or in doubt, or intended: written before the upload. *)
Look ==
    /\ job.pc = "look"
    /\ LET bytes == registry[Entry].bytes
           record == memory.records[Entry]
           uncertain == record.state \in {"staged", "pending"} \/ record.id # 0
       IN  \/ /\ bytes = "mine"
              /\ persist([memory EXCEPT !.records[Entry].state = "public"])
              /\ Goto("after", job.index)
              /\ UNCHANGED <<stages, runs>>
           \/ /\ bytes = "none" /\ ~uncertain
              /\ persist(Recorded("pending", 0))
              /\ Goto("upload", job.index)
              /\ UNCHANGED <<stages, runs>>
           \/ (bytes = "other" \/ (bytes = "none" /\ uncertain)) /\ Fail
    /\ UNCHANGED World

Staged == Append(stages, [package |-> Entry, run |-> job.run, state |-> "live"])

(* pnpm stage publish: it works and says so, works and is not heard, or    *)
(* does not work.  npm takes a version that is public no second time.      *)
Upload ==
    /\ job.pc = "upload"
    /\ \/ /\ registry[Entry].bytes = "none" /\ Len(stages) < MaxStages
          /\ stages' = Staged
          /\ persist(Recorded("pending", Len(stages) + 1))
          /\ \E answer \in {"settle", "mismatch"} : Goto(answer, job.index)
          /\ UNCHANGED runs
       \/ /\ registry[Entry].bytes = "none" /\ Len(stages) < MaxStages
          /\ stages' = Staged
          /\ Goto("unheard", job.index)
          /\ UNCHANGED <<runs, memory, disk>>
       \/ Fail
    /\ UNCHANGED World

Unresolved == job.pc \in {"mismatch", "unheard"} /\ Fail /\ UNCHANGED World

Settle ==
    /\ job.pc = "settle"
    /\ persist([memory EXCEPT !.records[Entry].state = "staged"])
    /\ Goto("after", job.index)
    /\ UNCHANGED <<candidate, registry, stages, runs, meddled>>

(* The next package, if there is one. *)
Advance ==
    LET rest == {i \in releaseEntries : i > job.index}
    IN  IF rest = {} THEN Goto("final", first) ELSE Goto("look", Min(rest))

(* Mutant of After: a public package is as good as staged. *)
AfterUntagged ==
    /\ job.pc = "after"
    /\ IF assertLatestUnchanged(Entry)
       THEN /\ Advance
            /\ UNCHANGED <<stages, runs, memory, disk>>
       ELSE Fail
    /\ UNCHANGED World

After ==
    /\ job.pc = "after"
    /\ IF /\ assertLatestUnchanged(Entry)
          /\ memory.records[Entry].state = "public" => registry[Entry][releaseTag] = This
       THEN /\ Advance
            /\ UNCHANGED <<stages, runs, memory, disk>>
       ELSE Fail
    /\ UNCHANGED World

Final ==
    /\ job.pc = "final"
    /\ IF \A p \in candidate.release : assertLatestUnchanged(p) /\ assertNoTagDowngrade(p)
       THEN Finish("success", [memory EXCEPT !.complete = TRUE], TRUE)
       ELSE Fail
    /\ UNCHANGED World

(* The runner dies, or its time is up; what is on its disk may be kept. *)
Crash ==
    /\ job # Idle
    /\ \E preserved \in BOOLEAN :
         Finish(IF job.pc = "preflight" THEN "skipped" ELSE "cancelled",
                IF preserved THEN disk ELSE NoJournal, preserved)
    /\ UNCHANGED World

----------------------------------------------------------------------------
(* The people                                                              *)

(* A complete run prints what to approve, layer by layer, stop on failure. *)
Approve ==
    \E r \in DOMAIN runs :
        /\ runs[r].mutation = "success" /\ runs[r].journal.complete
        /\ LET layers == approvalCommands(runs[r].journal.records)
           IN  \E n \in DOMAIN layers : \E s \in layers[n] :
                 /\ stages[s].state = "live" /\ registry[stages[s].package].bytes = "none"
                 /\ \A m \in 1..n - 1 : \A q \in layers[m] : stages[q].state = "approved"
                 /\ stages' = [stages EXCEPT ![s].state = "approved"]
                 /\ registry' = [registry EXCEPT ![stages[s].package].bytes = "mine",
                                                 ![stages[s].package][releaseTag] = This]
        /\ UNCHANGED <<candidate, runs, job, memory, disk, meddled>>

Reject ==
    /\ \E s \in DOMAIN stages :
         stages[s].state = "live" /\ stages' = [stages EXCEPT ![s].state = "rejected"]
    /\ UNCHANGED <<candidate, registry, runs, job, memory, disk, meddled>>

(* Somebody publishes without the scripts: this version, or a newer one. *)
Meddle ==
    /\ Len(runs) + meddled < MaxEvents /\ meddled' = meddled + 1
    /\ \E p \in Packages :
         \/ /\ registry[p].bytes = "none"
            /\ \E bytes \in {"mine", "other"}, tag \in {"latest", "next"} :
                 registry' = [registry EXCEPT ![p].bytes = bytes, ![p][tag] = This]
         \/ registry' = [registry EXCEPT ![p].latest = Newer]
    /\ UNCHANGED <<candidate, stages, runs, job, memory, disk>>

----------------------------------------------------------------------------
(* A coordinated candidate of the former workflow was certified and staged *)
(* in one run, which failed on its way.                                    *)
LegacyRun(records, uploaded) ==
    /\ runs = <<[Run("legacy", 0, "certified") EXCEPT
                    !.status = "completed", !.mutation = "failure", !.preserved = TRUE,
                    !.journal = [run |-> 1, attempt |-> 1, records |-> records,
                                 before |-> registryTagSnapshot, complete |-> FALSE]]>>
    /\ stages = [i \in 1..Len(uploaded) |-> [package |-> uploaded[i], run |-> 1, state |-> "live"]]

Init ==
    /\ candidate \in Candidates
    /\ registry \in Worlds
    /\ job = Idle /\ memory = NoJournal /\ disk = NoJournal /\ meddled = 0
    /\ IF candidate.legacy
       THEN LET p == publishOrder[first]
                q == publishOrder[Min(releaseEntries \ {first})]
                known == [Records("absent") EXCEPT ![p] = [state |-> "staged", id |-> 1],
                                                   ![q] = [state |-> "pending", id |-> 0]]
            IN  LegacyRun(known, <<p>>) \/ LegacyRun(known, <<p, q>>)
       ELSE runs = <<[Run("pack", 0, "certified") EXCEPT !.status = "completed"]>> /\ stages = <<>>

Next ==
    \/ DispatchStage \/ DispatchRecovery \/ Rerun
    \/ Start \/ Preflight \/ Begin \/ CheckTags \/ Reset \/ Look \/ Upload \/ Unresolved
    \/ Settle \/ After \/ Final \/ Crash
    \/ Approve \/ Reject \/ Meddle

Spec == Init /\ [][Next]_vars

----------------------------------------------------------------------------
(* A package is never in npm's staging area twice: whoever dispatches a    *)
(* run, whichever run fails at whatever point, and whatever becomes of its *)
(* evidence, no other run uploads until the first upload was settled       *)
(* (assert-release-workflows.mjs:207).                                     *)
OneStage ==
    \A s, t \in DOMAIN stages :
        s # t /\ stages[s].package = stages[t].package => stages[s].state # "live" \/ stages[t].state # "live"

(* What a run uploaded is in the journal it leaves behind: under its id    *)
(* once it is staged, as an intent before (release.mjs:685).               *)
NothingForgotten ==
    \A s \in DOMAIN stages :
        LET run == runs[stages[s].run]
            journal == IF stages[s].run = job.run THEN disk ELSE run.journal
            record == journal.records[stages[s].package]
        IN  run.preserved \/ stages[s].run = job.run
              => journal # NoJournal /\ record.state \in {"pending", "staged"} /\ record.id \in {0, s}

DependenciesFirst ==
    \A s \in DOMAIN stages :
        stages[s].state = "approved" => \A d \in Deps[stages[s].package] : registry[d].bytes # "none"

(* Whoever follows the printed commands never publishes a package before    *)
(* what it depends on (release.mjs:619); and once all that a complete journal *)
(* staged is approved and nobody meddled, verifyPublished finds what it     *)
(* looks for: this release under its tag, and a prerelease has left latest  *)
(* alone (release.mjs:1044).                                               *)
Verifiable ==
    /\ DependenciesFirst
    /\ \A r \in DOMAIN runs :
           LET journal == runs[r].journal
               records == journal.records
               staged == {records[p].id : p \in {q \in DOMAIN records : records[q].state = "staged"}}
           IN  journal.complete /\ meddled = 0 /\ (\A s \in staged : stages[s].state = "approved")
                 => \A p \in candidate.release :
                       /\ registry[p].bytes = "mine" /\ registry[p][releaseTag] = This
                       /\ candidate.prerelease => registry[p].latest = journal.before[p]
=============================================================================
