------------------------------ MODULE Workspace ------------------------------
(***************************************************************************)
(* createWorkspace of @sqlbraid/tooling (workspace.ts): open documents, a  *)
(* revision, one refresh that concurrent callers share, and the caches it  *)
(* reads through.                                                          *)
(*                                                                         *)
(* The event loop: a refresh and its callers run in turns.  What happens   *)
(* between two awaits of I/O, and the promise jobs that a settled promise  *)
(* starts, are one turn; edits, closes, cancellations and timers come in   *)
(* turns of their own.  Drained says that this turn has no job left.       *)
(*                                                                         *)
(* The code compares the revision only with a copy it took earlier, so a   *)
(* copy is a flag here: TRUE for as long as the revision has not moved.    *)
(* The files are the config and the TypeScript project, each with what it  *)
(* imports or extends, which the evidence of the file itself (its path,    *)
(* times and size) does not show.                                          *)
(***************************************************************************)
EXTENDS Naturals, FiniteSets

CONSTANTS Docs, Calls,
          Present,       \* the files that exist
          MaxRevision,   \* bound on edits, closes and invalidations
          MaxWrites,     \* bound on changes to the files
          None           \* no document, no refresh, no context

ASSUME WorkspaceConstants ==
    /\ Present \in {{"project"}, {"config", "project"}}
    /\ MaxRevision \in Nat /\ MaxWrites \in Nat

VARIABLES docs, revision, disk, noticed, configCache, projectContext, refresh, call

files == <<disk, noticed, configCache, projectContext>>
workspaceVars == <<docs, revision, files, refresh, call>>

-----------------------------------------------------------------------------
(* State. *)

Files    == {"config", "project"}
File     == [own : 0 .. MaxWrites, parts : 0 .. MaxWrites]
Empty    == [own |-> 0, parts |-> 0]
Idle     == [at |-> "idle", attempt |-> 0, current |-> FALSE, since |-> 0,
             cancelled |-> FALSE, disposed |-> FALSE, state |-> None]
Blank    == [config |-> Empty, project |-> Empty, sources |-> [d \in Docs |-> None]]

Document == [version : 1 .. MaxRevision, text : 0 .. MaxRevision]
State    == [config : File, project : File, sources : [Docs -> Document \cup {None}]]

ASSUME NoneIsNothing == None \notin Calls /\ None \notin Document /\ None \notin State

Running == {"config", "load", "loaded", "project", "context", "targets"}

(* The callers inside service(), and those that wait for the shared refresh. *)
Requests == {c \in Calls : call[c].at \in {"wait", "ready"} /\ ~call[c].disposed}
Waiting  == {c \in Requests : call[c].at = "wait"}
Drained  == \A c \in Calls : call[c].at \notin {"ready", "rejected"}

(* isCancellationRequested of the shared refresh. *)
Doomed == ~refresh.current \/ \A c \in Requests : call[c].cancelled

InitWorkspace ==
    /\ docs = [d \in Docs |-> None]
    /\ revision = 0
    /\ disk = [f \in Files |-> Empty]
    /\ noticed = disk
    /\ configCache = {}
    /\ projectContext = None
    /\ refresh = None
    /\ call = [c \in Calls |-> Idle]

-----------------------------------------------------------------------------
(* service() *)

(* refresh(): whoever finds none pending starts one. *)
Refreshed ==
    IF refresh # None THEN refresh
    ELSE [at |-> IF "config" \in Present THEN "config" ELSE "project",
          current |-> TRUE, key |-> 0, state |-> Blank]

Attempt(c, n, since) ==
    /\ call' = [call EXCEPT ![c] = [Idle EXCEPT !.at = "wait", !.attempt = n,
                                                !.current = TRUE, !.since = since]]
    /\ refresh' = Refreshed

Service(c) ==
    /\ Drained
    /\ call[c].at = "idle"
    /\ Attempt(c, 1, 0)
    /\ UNCHANGED <<docs, revision, files>>

Reject(c) == call' = [call EXCEPT ![c].at = "rejected", ![c].state = None]

Usable(c) == call[c].state # None /\ call[c].current

Attempts == 3

(* What service does with the outcome of the refresh it waited for. *)
Resume(c) ==
    /\ call[c].at = "ready"
    /\ UNCHANGED <<docs, revision, files>>
    /\ LET lost == call[c].cancelled \/ call[c].disposed IN
       \/ lost /\ Reject(c) /\ UNCHANGED refresh
       \/ /\ ~lost /\ Usable(c)
          /\ call' = [call EXCEPT ![c].at = "served"]
          /\ UNCHANGED refresh
       \/ /\ ~lost /\ ~Usable(c) /\ call[c].attempt < Attempts
          /\ Attempt(c, call[c].attempt + 1, call[c].since)
       \/ /\ ~lost /\ ~Usable(c) /\ call[c].attempt >= Attempts
          /\ Reject(c) /\ UNCHANGED refresh

(* The timer of waitForRefresh: a caller that is cancelled, or whose       *)
(* workspace is disposed, leaves before the refresh has settled.           *)
Leave(c) ==
    /\ Drained
    /\ call[c].at = "wait"
    /\ call[c].cancelled \/ call[c].disposed
    /\ Reject(c)
    /\ UNCHANGED <<docs, revision, files, refresh>>

-----------------------------------------------------------------------------
(* rebuild(): one action for each await it comes back from. *)

Rebuilding(at) == Drained /\ refresh # None /\ refresh.at = at /\ ~Doomed

Step(at, key, state) == refresh' = [refresh EXCEPT !.at = at, !.key = key, !.state = state]

(* .finally clears pendingRefresh, then the callers get the outcome. *)
Deliver(state) ==
    /\ refresh' = None
    /\ call' = [c \in Calls |-> IF c \in Waiting THEN [call[c] EXCEPT !.at = "ready", !.state = state]
                                ELSE call[c]]

Abandon ==
    /\ Drained /\ refresh # None /\ Doomed
    /\ Deliver(None)
    /\ UNCHANGED <<docs, revision, files>>

(* The evidence of the config file: its own times, not those of its imports. *)
StatConfig ==
    /\ Rebuilding("config")
    /\ LET own == disk["config"].own
           hit == {e \in configCache : e.key = own} IN
       \/ hit = {} /\ Step("load", own, refresh.state)
       \/ \E e \in hit : Step("project", 0, [refresh.state EXCEPT !.config = e.value])
    /\ UNCHANGED <<docs, revision, files, call>>

(* The worker imports the module and what that imports. *)
ReadConfig ==
    /\ Rebuilding("load")
    /\ Step("loaded", refresh.key, [refresh.state EXCEPT !.config = disk["config"]])
    /\ UNCHANGED <<docs, revision, files, call>>

ConfigLoaded ==
    /\ Rebuilding("loaded")
    /\ configCache' = configCache \cup {[key |-> refresh.key, value |-> refresh.state.config]}
    /\ Step("project", 0, refresh.state)
    /\ UNCHANGED <<docs, revision, disk, noticed, projectContext, call>>

StatProject ==
    /\ Rebuilding("project")
    /\ Step("context", disk["project"].own, refresh.state)
    /\ UNCHANGED <<docs, revision, files, call>>

(* The last turn: targets, loadSources and the state, all of one revision. *)
Complete(state) == Deliver([state EXCEPT !.sources = docs])

(* loadProjectContext: the context is kept for as long as its evidence is. *)
(* Only a config names targets, whose files are read next.                 *)
LoadProject ==
    /\ Rebuilding("context")
    /\ projectContext' = IF projectContext # None /\ projectContext.key = refresh.key
                         THEN projectContext
                         ELSE [key |-> refresh.key, value |-> disk["project"]]
    /\ LET state == [refresh.state EXCEPT !.project = projectContext'.value] IN
       IF "config" \in Present THEN Step("targets", 0, state) /\ UNCHANGED call
       ELSE Complete(state)
    /\ UNCHANGED <<docs, revision, disk, noticed, configCache>>

LoadTargets ==
    /\ Rebuilding("targets")
    /\ Complete(refresh.state)
    /\ UNCHANGED <<docs, revision, files>>

Rebuild == \/ StatConfig \/ ReadConfig \/ ConfigLoaded \/ StatProject
           \/ LoadProject \/ LoadTargets \/ Abandon

-----------------------------------------------------------------------------
(* What its owner calls. *)

(* One revision; cancelled and disposed are the calls it also takes away.  *)
(* since counts the events a call has seen, up to two.                     *)
Event(cancelled, disposed) ==
    /\ Drained
    /\ revision < MaxRevision /\ revision' = revision + 1
    /\ call' = [c \in Calls |->
                  IF call[c].at = "idle" THEN Idle
                  ELSE [call[c] EXCEPT !.current = FALSE,
                          !.since = IF @ < 2 THEN @ + 1 ELSE 2,
                          !.cancelled = @ \/ c \in cancelled,
                          !.disposed = @ \/ c \in disposed]]

(* A copy of the revision that the pending refresh took is out of date. *)
Outrun == refresh' = IF refresh = None THEN None ELSE [refresh EXCEPT !.current = FALSE]

setDocument(d, document) == docs' = [docs EXCEPT ![d] = document] /\ Outrun
closeDocument(d)         == docs' = [docs EXCEPT ![d] = None] /\ Outrun

(* Mutant of invalidate: the config stays cached. *)
invalidateProject ==
    /\ projectContext' = None
    /\ noticed' = disk
    /\ UNCHANGED configCache
    /\ Outrun

invalidate ==
    /\ configCache' = {}
    /\ projectContext' = None
    /\ noticed' = disk
    /\ Outrun

(* dispose(), and a new workspace for the same documents. *)
Replace ==
    /\ configCache' = {}
    /\ projectContext' = None
    /\ noticed' = disk
    /\ refresh' = None

(* Somebody writes a file, or one of those it imports. *)
Write(f, part) ==
    /\ Drained
    /\ f \in Present
    /\ disk["config"].own + disk["config"].parts + disk["project"].own + disk["project"].parts < MaxWrites
    /\ disk' = [disk EXCEPT ![f][part] = @ + 1]
    /\ UNCHANGED <<docs, revision, noticed, configCache, projectContext, refresh, call>>

-----------------------------------------------------------------------------
(* Properties. *)

NotOlder(f, g) == f.own >= g.own /\ f.parts >= g.parts

(* What a service is built from is one revision of the documents, the      *)
(* present one, and files no older than the last time somebody told the    *)
(* workspace that they changed: neither the refresh another caller began   *)
(* nor a cached config may hand out what an edit or invalidate() replaced.  *)
(* Nor is a caller that is neither cancelled nor left with a disposed       *)
(* workspace refused, unless two events or more came while it waited: the   *)
(* refresh it shared being given up, by others or before it called, costs   *)
(* it one of its three attempts and no more.                               *)
ServedCurrent ==
    [][\A c \in Calls : call[c].at = "ready" =>
         /\ call'[c].at = "served" =>
              LET s == call'[c].state IN
              /\ s.sources = docs
              /\ NotOlder(s.config, noticed["config"])
              /\ NotOlder(s.project, noticed["project"])
         /\ call'[c].at = "rejected" =>
              call[c].cancelled \/ call[c].disposed \/ call[c].since = 2]_workspaceVars
=============================================================================
