------------------------ MODULE LanguageServerProofs ------------------------
(***************************************************************************)
(* Proofs about LanguageServer and the Workspace it calls: what is shown   *)
(* is about the text it is shown for, and a caller is given what is        *)
(* current.                                                                *)
(*                                                                         *)
(* The argument. Of the workspace: nothing comes between the delivery of a *)
(* refresh and the resumption of its callers, which therefore get the      *)
(* present documents; what a refresh has read, or a cache holds, is not    *)
(* older than the last notice, or the refresh is out of date; and every    *)
(* attempt of a caller after the first has cost it an event. Of the server:*)
(* a job whose document still has the version it started with works on the *)
(* text of that version, because a version is never used twice while a     *)
(* document is open; and a run of publishDiagnostics is the one its        *)
(* document remembers, or is cancelled, so that no event passes it by.     *)
(***************************************************************************)
EXTENDS LanguageServer, TLAPS

(* The shape of the variables. *)
Refresh == [at : Running, current : BOOLEAN, key : 0 .. MaxWrites, state : State]
Entry   == [key : 0 .. MaxWrites, value : File]
Caller  == [at : {"idle", "wait", "ready", "served", "rejected"}, attempt : 0 .. Attempts,
            current : BOOLEAN, since : 0 .. 2, cancelled : BOOLEAN, disposed : BOOLEAN,
            state : State \cup {None}]
Job     == [kind : {"none", "publish", "pull", "request"}, doc : Docs \cup {None},
            version : 0 .. MaxRevision, current : BOOLEAN, closed : Document \cup {None},
            items : Result \cup {None}]

(* Workspace. *)
WShape ==
    /\ docs \in [Docs -> Document \cup {None}]
    /\ revision \in 0 .. MaxRevision
    /\ disk \in [Files -> File] /\ noticed \in [Files -> File]
    /\ configCache \subseteq Entry
    /\ projectContext \in {None} \cup Entry
    /\ refresh \in {None} \cup Refresh
    /\ call \in [Calls -> Caller]

(* The server. *)
SShape ==
    /\ texts \in [Docs -> 0 .. MaxRevision]
    /\ pendingDiagnostics \subseteq Docs
    /\ activeDiagnostics \in [Docs -> Publishers \cup {None}]
    /\ job \in [Calls -> Job]
    /\ published \in [Docs -> Message]

(* Versions and texts are counted by the revision. *)
Numbered ==
    \A d \in Docs :
        /\ texts[d] <= revision
        /\ docs[d] # None => docs[d].version <= revision /\ docs[d].text <= texts[d]

(* Nothing is older than what the workspace was told of. *)
Newest ==
    /\ \A f \in Files : NotOlder(disk[f], noticed[f])
    /\ "config" \notin Present => disk["config"] = Empty
    /\ \A e \in configCache : NotOlder(e.value, noticed["config"])
    /\ projectContext # None => NotOlder(projectContext.value, noticed["project"])
    /\ refresh # None /\ refresh.current =>
         /\ refresh.at \notin {"config", "load"} =>
              NotOlder(refresh.state.config, noticed["config"])
         /\ refresh.at = "targets" => NotOlder(refresh.state.project, noticed["project"])

(* Every attempt of a caller but one cost it an event. *)
Due(c) ==
    LET n == call[c].attempt
        s == call[c].since IN
    /\ call[c].at = "wait" /\ ~call[c].disposed =>
         /\ n >= 1 /\ s + 2 >= n
         /\ (refresh # None /\ ~refresh.current) \/ ~call[c].current => s + 1 >= n
    /\ call[c].at = "ready" =>
         /\ n >= 1
         /\ refresh # None => refresh.current
         /\ Usable(c) \/ call[c].cancelled \/ call[c].disposed \/ s + 1 >= n

(* What the callers of a refresh are given. *)
Granted(c) ==
    call[c].at = "ready" /\ call[c].state # None =>
        /\ call[c].state.sources = docs
        /\ NotOlder(call[c].state.config, noticed["config"])
        /\ NotOlder(call[c].state.project, noticed["project"])

(* The document of a job has the version and the text it started with. *)
Same(c) == job[c].closed = None /\ docs[job[c].doc].version = job[c].version

Kept(c) ==
    Busy(c) =>
        /\ job[c].doc \in Docs
        /\ job[c].closed = None =>
             Open(job[c].doc) /\ docs[job[c].doc].version >= job[c].version
        /\ Same(c) =>
             /\ job[c].items # None =>
                  job[c].items.analysed = docs[job[c].doc].text
                  /\ job[c].items.built = docs[job[c].doc].text
             /\ job[c].items = None /\ call[c].at = "served" =>
                  call[c].state.sources[job[c].doc] = docs[job[c].doc]
        /\ job[c].items = None /\ call[c].at = "served" => call[c].state # None

(* A run of publishDiagnostics is the one of its document, or cancelled. *)
Sole(c) ==
    job[c].kind = "publish" /\ ~call[c].cancelled =>
        activeDiagnostics[job[c].doc] = c /\ job[c].closed = None

Timed ==
    /\ \A d \in pendingDiagnostics : Open(d) /\ activeDiagnostics[d] = None
    /\ \A c \in Calls : Busy(c) <=> call[c].at # "idle"

(* What the workspace keeps, and what the server keeps. *)
WInv == WShape /\ Newest /\ \A c \in Calls : Due(c) /\ Granted(c)

SInv == /\ SShape /\ Numbered /\ Timed /\ PushedForItsText /\ RequestForItsText
        /\ \A c \in Calls : Kept(c) /\ Sole(c)

USE WorkspaceConstants, ServerConstants, NoneIsNothing
-----------------------------------------------------------------------------
(* A call that starts is given a refresh.                                  *)
LEMMA RefreshedTyped ==
    ASSUME WShape
    PROVE  /\ Refreshed \in Refresh
           /\ refresh # None => Refreshed = refresh
           /\ refresh = None => /\ Refreshed.current /\ Refreshed.at \in {"config", "project"}
                                /\ Refreshed.at = "project" => "config" \notin Present
                                /\ Refreshed.state.config = Empty
<1>1. Empty \in File BY DEF Empty, File
<1>2. Blank \in State BY <1>1 DEF Blank, State
<1> QED BY <1>2 DEF WShape, Refreshed, Refresh, Running, Blank

(* What a new refresh has read of the files is not older than what was told. *)
LEMMA RefreshedNewest ==
    ASSUME WShape, Newest, refresh' = Refreshed, UNCHANGED files
    PROVE  Newest'
<1>1. CASE refresh # None BY <1>1, RefreshedTyped DEF Newest, files
<1>2. CASE refresh = None
  <2>1. "config" \notin Present => NotOlder(Empty, noticed["config"])
    BY DEF Newest, NotOlder, Files, WShape, File, Empty
  <2> QED BY <1>2, <2>1, RefreshedTyped DEF Newest, files
<1> QED BY <1>1, <1>2

(* One call changes, and its state with it.                                *)
LEMMA OneCallKeeps ==
    ASSUME NEW c \in Calls, NEW k \in Caller, WInv, Newest',
           call' = [call EXCEPT ![c] = k], UNCHANGED <<docs, revision, files>>,
           \/ refresh' = refresh
           \/ /\ refresh' = Refreshed
              /\ \A e \in Calls : call[e].at = "ready" /\ refresh # None => refresh.current,
           (Due(c) /\ Granted(c))'
    PROVE  WInv'
<1>1. refresh' \in {None} \cup Refresh BY RefreshedTyped DEF WInv, WShape
<1>2. WShape' BY <1>1 DEF WInv, WShape, files
<1>3. ASSUME NEW e \in Calls PROVE (Due(e) /\ Granted(e))'
  <2>1. CASE e = c BY <2>1
  <2>2. CASE e # c
    <3>1. call'[e] = call[e] BY <2>2 DEF WInv, WShape
    <3>2. Granted(e)' BY <3>1 DEF WInv, Granted, files
    <3>3. Due(e)' BY <3>1, RefreshedTyped DEF WInv, Due, Usable
    <3> QED BY <3>2, <3>3
  <2> QED BY <2>1, <2>2
<1> QED BY <1>2, <1>3 DEF WInv

LEMMA IdleTyped == Idle \in Caller /\ Idle.at = "idle" /\ Idle.state = None
<1>1. 0 \in 0 .. Attempts BY DEF Attempts
<1> QED BY <1>1 DEF Idle, Caller

(* A caller that begins, or begins again.                                  *)
LEMMA AttemptKeeps ==
    ASSUME NEW c \in Calls, NEW n \in 1 .. Attempts, NEW s \in 0 .. 2, WInv,
           Attempt(c, n, s), UNCHANGED <<docs, revision, files>>, s + 2 >= n,
           refresh # None => \/ refresh.current
                             \/ s + 1 >= n /\ \A e \in Calls : call[e].at # "ready"
    PROVE  WInv'
<1> DEFINE k == [Idle EXCEPT !.at = "wait", !.attempt = n, !.current = TRUE, !.since = s]
<1>1. k \in Caller /\ k.at = "wait" /\ k.attempt = n /\ k.current /\ k.since = s
  <2>1. n \in 0 .. Attempts BY DEF Attempts
  <2> QED BY <2>1, IdleTyped DEF Caller
<1>2. call' = [call EXCEPT ![c] = k] /\ call'[c] = k BY DEF Attempt, WInv, WShape
<1>3. Newest' BY RefreshedNewest DEF Attempt, WInv
<1> HIDE DEF k
<1>4. Granted(c)' BY <1>1, <1>2 DEF Granted
<1>5. Due(c)' BY <1>1, <1>2, RefreshedTyped DEF Due, Attempt, WInv, Attempts
<1> QED BY <1>1, <1>2, <1>3, <1>4, <1>5, OneCallKeeps DEF Attempt

LEMMA ServiceKeeps ==
    ASSUME NEW c \in Calls, WInv, Service(c)
    PROVE  WInv'
BY AttemptKeeps DEF Service, Drained, Attempts

(* A call that is neither waiting nor about to resume.                     *)
LEMMA AsideKeeps ==
    ASSUME NEW c \in Calls, NEW k \in Caller, WInv, k.at \notin {"wait", "ready"},
           call' = [call EXCEPT ![c] = k], UNCHANGED <<docs, revision, files, refresh>>
    PROVE  WInv'
<1>1. Newest' BY DEF WInv, Newest, files
<1>2. (Due(c) /\ Granted(c))' BY DEF WInv, WShape, Due, Granted
<1> QED BY <1>1, <1>2, OneCallKeeps

LEMMA RejectedTyped ==
    ASSUME NEW c \in Calls, WShape
    PROVE  [call[c] EXCEPT !.at = "rejected", !.state = None] \in Caller
<1>1. call[c] \in Caller BY DEF WShape
<1> QED BY <1>1 DEF Caller

LEMMA RejectKeeps ==
    ASSUME NEW c \in Calls, WInv, Reject(c), UNCHANGED <<docs, revision, files, refresh>>
    PROVE  WInv'
<1> DEFINE k == [call[c] EXCEPT !.at = "rejected", !.state = None]
<1>1. call' = [call EXCEPT ![c] = k] BY DEF Reject, WInv, WShape
<1>2. k \in Caller /\ k.at = "rejected" BY RejectedTyped DEF WInv, WShape, Caller
<1> HIDE DEF k
<1> QED BY <1>1, <1>2, AsideKeeps

LEMMA ResumeKeeps ==
    ASSUME NEW c \in Calls, WInv, Resume(c)
    PROVE  WInv'
<1>0. call[c] \in Caller /\ Due(c) BY DEF WInv, WShape
<1>1. CASE Reject(c) /\ UNCHANGED refresh BY <1>1, RejectKeeps DEF Resume
<1>2. CASE call' = [call EXCEPT ![c].at = "served"] /\ UNCHANGED refresh
  <2> DEFINE k == [call[c] EXCEPT !.at = "served"]
  <2>1. call' = [call EXCEPT ![c] = k] BY <1>2
  <2>2. k \in Caller /\ k.at = "served" BY <1>0 DEF Caller
  <2> HIDE DEF k
  <2> QED BY <1>2, <2>1, <2>2, AsideKeeps DEF Resume
<1>3. CASE /\ ~call[c].cancelled /\ ~call[c].disposed /\ ~Usable(c)
           /\ call[c].attempt < Attempts
           /\ Attempt(c, call[c].attempt + 1, call[c].since)
  <2> DEFINE n == call[c].attempt + 1
             s == call[c].since
  <2>1. n \in 1 .. Attempts /\ s \in 0 .. 2 BY <1>0, <1>3 DEF Caller, Attempts
  <2>2. s + 2 >= n /\ (refresh # None => refresh.current)
    BY <1>0, <1>3 DEF Resume, Due, Caller, Attempts
  <2>3. UNCHANGED <<docs, revision, files>> BY DEF Resume
  <2> HIDE DEF n, s
  <2>4. Attempt(c, n, s) BY <1>3 DEF n, s
  <2> QED BY <2>1, <2>2, <2>3, <2>4, AttemptKeeps
<1> QED BY <1>1, <1>2, <1>3 DEF Resume

LEMMA LeaveKeeps ==
    ASSUME NEW c \in Calls, WInv, Leave(c)
    PROVE  WInv'
BY RejectKeeps DEF Leave

LEMMA WriteKeeps ==
    ASSUME NEW f \in Files, NEW part \in {"own", "parts"}, WInv, Write(f, part)
    PROVE  WInv'
<1>1. disk' \in [Files -> File] /\ \A g \in Files : NotOlder(disk'[g], disk[g])
  BY DEF Write, WInv, WShape, File, Files, NotOlder
<1>2. WShape' BY <1>1 DEF Write, WInv, WShape
<1>3. "config" \notin Present => disk'["config"] = Empty
  BY DEF Write, WInv, WShape, Newest, Files
<1>4. \A g \in Files : NotOlder(disk'[g], noticed'[g])
  BY <1>1 DEF Write, WInv, WShape, Newest, NotOlder, File, Files
<1>5. Newest' BY <1>3, <1>4 DEF Write, WInv, Newest
<1>6. ASSUME NEW e \in Calls PROVE (Due(e) /\ Granted(e))'
  BY DEF Write, WInv, Due, Granted, Usable
<1> QED BY <1>2, <1>5, <1>6 DEF WInv

-----------------------------------------------------------------------------
(* rebuild                                                                 *)

LEMMA StepKeeps ==
    ASSUME NEW at \in Running, NEW key \in 0 .. MaxWrites, NEW s \in State, WInv,
           refresh # None, Drained, Step(at, key, s),
           UNCHANGED <<docs, revision, disk, noticed, call>>,
           configCache' \subseteq Entry, projectContext' \in {None} \cup Entry, Newest'
    PROVE  WInv'
<1>1. /\ refresh' \in Refresh /\ (refresh'.current <=> refresh.current)
  BY DEF Step, WInv, WShape, Refresh
<1>2. WShape' BY <1>1 DEF WInv, WShape
<1>3. ASSUME NEW e \in Calls PROVE (Due(e) /\ Granted(e))'
  <2>1. call'[e] = call[e] /\ call[e].at # "ready" BY DEF Drained
  <2> QED BY <1>1, <2>1 DEF WInv, Due, Granted, Usable
<1> QED BY <1>2, <1>3 DEF WInv

LEMMA StepFields ==
    ASSUME NEW at, NEW key, NEW s, WShape, refresh # None, Step(at, key, s)
    PROVE  /\ refresh'.at = at /\ refresh'.state = s /\ refresh'.key = key
           /\ refresh'.current <=> refresh.current
BY DEF Step, WShape, Refresh

LEMMA RefreshTyped ==
    ASSUME WShape, refresh # None
    PROVE  /\ refresh \in Refresh /\ refresh.at \in Running /\ refresh.current \in BOOLEAN
           /\ refresh.key \in 0 .. MaxWrites /\ refresh.state \in State
BY DEF WShape, Refresh

LEMMA StateTyped ==
    ASSUME NEW s \in State, NEW f \in File
    PROVE  /\ [s EXCEPT !.config = f] \in State /\ [s EXCEPT !.config = f].config = f
           /\ [s EXCEPT !.project = f] \in State /\ [s EXCEPT !.project = f].project = f
           /\ [s EXCEPT !.project = f].config = s.config
BY DEF State

LEMMA StatConfigKeeps ==
    ASSUME WInv, StatConfig
    PROVE  WInv'
<1> DEFINE own == disk["config"].own
<1>0. /\ WShape /\ Newest /\ Drained /\ refresh # None /\ refresh.at = "config" /\ ~Doomed
      /\ UNCHANGED <<docs, revision, files, call>>
  BY DEF WInv, StatConfig, Rebuilding
<1>1. own \in 0 .. MaxWrites BY <1>0 DEF WShape, File, Files
<1>2. CASE Step("load", own, refresh.state)
  <2>1. Newest' BY <1>0, <1>2, StepFields DEF Newest, files
  <2> QED BY <1>0, <1>1, <1>2, <2>1, StepKeeps, RefreshTyped DEF Running, WShape, files
<1>3. ASSUME NEW e \in configCache,
             Step("project", 0, [refresh.state EXCEPT !.config = e.value])
      PROVE  WInv'
  <2>1. e.value \in File /\ NotOlder(e.value, noticed["config"])
    BY <1>0 DEF WShape, Entry, Newest
  <2> DEFINE s == [refresh.state EXCEPT !.config = e.value]
  <2>2. s \in State /\ s.config = e.value BY <1>0, <2>1, StateTyped, RefreshTyped
  <2>3. Step("project", 0, s) BY <1>3
  <2> HIDE DEF s
  <2>4. Newest' BY <1>0, <2>1, <2>2, <2>3, StepFields DEF Newest, files
  <2> QED BY <1>0, <2>2, <2>3, <2>4, StepKeeps DEF Running, WShape, files
<1> QED BY <1>2, <1>3 DEF StatConfig

LEMMA ReadConfigKeeps ==
    ASSUME WInv, ReadConfig
    PROVE  WInv'
<1>0. /\ WShape /\ Newest /\ Drained /\ refresh # None /\ refresh.at = "load"
      /\ UNCHANGED <<docs, revision, files, call>>
  BY DEF WInv, ReadConfig, Rebuilding
<1> DEFINE s == [refresh.state EXCEPT !.config = disk["config"]]
<1>1. s \in State /\ s.config = disk["config"]
  <2>1. disk["config"] \in File BY <1>0 DEF WShape, Files
  <2>2. refresh.state \in State BY <1>0, RefreshTyped
  <2> QED BY <2>1, <2>2, StateTyped
<1>2. Step("loaded", refresh.key, s) BY DEF ReadConfig
<1> HIDE DEF s
<1>3. NotOlder(s.config, noticed["config"]) BY <1>0, <1>1 DEF Newest, Files
<1>4. Newest' BY <1>0, <1>2, <1>3, StepFields DEF Newest, files
<1> QED BY <1>0, <1>1, <1>2, <1>4, StepKeeps, RefreshTyped DEF Running, WShape, files

LEMMA ConfigLoadedKeeps ==
    ASSUME WInv, ConfigLoaded
    PROVE  WInv'
<1>0. /\ WShape /\ Newest /\ Drained /\ refresh # None
      /\ refresh.at = "loaded" /\ refresh.current
      /\ UNCHANGED <<docs, revision, disk, noticed, projectContext, call>>
      /\ Step("project", 0, refresh.state)
  BY DEF WInv, ConfigLoaded, Rebuilding, Doomed
<1> DEFINE entry == [key |-> refresh.key, value |-> refresh.state.config]
<1>1. entry \in Entry /\ entry.value = refresh.state.config
  BY <1>0, RefreshTyped DEF Entry, State
<1>2. configCache' = configCache \cup {entry} BY DEF ConfigLoaded
<1> HIDE DEF entry
<1>3. Newest' BY <1>0, <1>1, <1>2, StepFields DEF Newest
<1>4. configCache' \subseteq Entry BY <1>0, <1>1, <1>2 DEF WShape
<1> QED BY <1>0, <1>3, <1>4, StepKeeps, RefreshTyped DEF Running, WShape

LEMMA StatProjectKeeps ==
    ASSUME WInv, StatProject
    PROVE  WInv'
<1>0. /\ WShape /\ Newest /\ Drained /\ refresh # None /\ refresh.at = "project"
      /\ UNCHANGED <<docs, revision, files, call>>
      /\ Step("context", disk["project"].own, refresh.state)
  BY DEF WInv, StatProject, Rebuilding
<1>1. disk["project"].own \in 0 .. MaxWrites BY <1>0 DEF WShape, File, Files
<1>2. Newest' BY <1>0, StepFields DEF Newest, files
<1> QED BY <1>0, <1>1, <1>2, StepKeeps, RefreshTyped DEF Running, WShape, files

(* The callers of the refresh get its outcome.                             *)
LEMMA DeliverKeeps ==
    ASSUME NEW s \in State \cup {None}, WInv, refresh # None, Drained, Deliver(s),
           UNCHANGED <<docs, revision, disk, noticed>>,
           configCache' \subseteq Entry, projectContext' \in {None} \cup Entry, Newest',
           s # None => s.sources = docs /\ NotOlder(s.config, noticed["config"])
                       /\ NotOlder(s.project, noticed["project"]),
           s = None => Doomed
    PROVE  WInv'
<1>1. ASSUME NEW e \in Waiting
      PROVE  /\ call'[e] \in Caller /\ call'[e].at = "ready" /\ call'[e].state = s
             /\ call'[e].attempt = call[e].attempt /\ call'[e].since = call[e].since
             /\ call'[e].current = call[e].current /\ call'[e].cancelled = call[e].cancelled
             /\ call[e].at = "wait" /\ ~call[e].disposed /\ e \in Calls /\ e \in Requests
  <2>1. e \in Calls /\ e \in Requests /\ call[e].at = "wait" /\ ~call[e].disposed
    BY DEF Waiting, Requests
  <2>2. call'[e] = [call[e] EXCEPT !.at = "ready", !.state = s] BY <2>1 DEF Deliver
  <2>3. call[e] \in Caller BY <2>1 DEF WInv, WShape
  <2> QED BY <2>1, <2>2, <2>3 DEF Caller
<1>2. ASSUME NEW e \in Calls, e \notin Waiting PROVE call'[e] = call[e]
  BY <1>2 DEF Deliver
<1>3. call' \in [Calls -> Caller]
  <2>1. \A e \in Calls : call'[e] \in Caller BY <1>1, <1>2 DEF WInv, WShape
  <2>2. call' = [e \in Calls |-> call'[e]] BY DEF Deliver
  <2> QED BY <2>1, <2>2
<1>4. WShape' BY <1>3 DEF WInv, WShape, Deliver
<1>5. ASSUME NEW e \in Calls PROVE (Due(e) /\ Granted(e))'
  <2>0. Due(e) /\ refresh' = None BY DEF WInv, Deliver
  <2>1. CASE e \notin Waiting
    <3>1. call'[e] = call[e] /\ call[e].at # "ready" BY <1>2, <2>1 DEF Drained
    <3> QED BY <2>0, <3>1 DEF Due, Granted
  <2>2. CASE e \in Waiting
    <3>1. Granted(e)' BY <1>1, <2>2 DEF Granted
    <3>2. call[e] \in Caller /\ call[e].attempt \in 0 .. 3 /\ call[e].since \in 0 .. 2
      BY DEF WInv, WShape, Caller, Attempts
    <3>3. /\ call[e].attempt >= 1
          /\ ~refresh.current \/ ~call[e].current => call[e].since + 1 >= call[e].attempt
      BY <1>1, <2>0, <2>2 DEF Due
    <3>4. s = None => ~refresh.current \/ call[e].cancelled BY <1>1, <2>2 DEF Doomed
    <3>5. \/ Usable(e)' \/ call'[e].cancelled \/ call'[e].since + 1 >= call'[e].attempt
      BY <1>1, <2>2, <3>3, <3>4 DEF Usable
    <3>6. Due(e)' BY <1>1, <2>0, <2>2, <3>3, <3>5 DEF Due
    <3> QED BY <3>1, <3>6
  <2> QED BY <2>1, <2>2
<1> QED BY <1>4, <1>5 DEF WInv

LEMMA CompleteKeeps ==
    ASSUME NEW s \in State, WInv, refresh # None, Drained, Complete(s),
           UNCHANGED <<docs, revision, disk, noticed>>,
           configCache' \subseteq Entry, projectContext' \in {None} \cup Entry, Newest',
           NotOlder(s.config, noticed["config"]), NotOlder(s.project, noticed["project"])
    PROVE  WInv'
<1> DEFINE t == [s EXCEPT !.sources = docs]
<1>1. t \in State /\ t.sources = docs /\ t.config = s.config /\ t.project = s.project
  BY DEF State, WInv, WShape
<1>2. Deliver(t) BY DEF Complete
<1> HIDE DEF t
<1>3. t # None BY <1>1
<1> QED BY <1>1, <1>2, <1>3, DeliverKeeps

LEMMA LoadProjectKeeps ==
    ASSUME WInv, LoadProject
    PROVE  WInv'
<1>0. /\ WShape /\ Newest /\ Drained /\ refresh # None
      /\ refresh.at = "context" /\ refresh.current
      /\ UNCHANGED <<docs, revision, disk, noticed, configCache>>
  BY DEF WInv, LoadProject, Rebuilding, Doomed
<1>1. projectContext' \in Entry /\ NotOlder(projectContext'.value, noticed["project"])
  BY <1>0, RefreshTyped DEF LoadProject, WShape, Entry, Newest, Files
<1> DEFINE s == [refresh.state EXCEPT !.project = projectContext'.value]
<1>2. s \in State /\ s.project = projectContext'.value /\ s.config = refresh.state.config
  BY <1>0, <1>1, StateTyped, RefreshTyped DEF Entry
<1>3. IF "config" \in Present THEN Step("targets", 0, s) /\ UNCHANGED call ELSE Complete(s)
  BY DEF LoadProject
<1> HIDE DEF s
<1>4. NotOlder(s.config, noticed["config"]) /\ NotOlder(s.project, noticed["project"])
  BY <1>0, <1>1, <1>2 DEF Newest
<1>5. CASE "config" \in Present
  <2>1. Newest' BY <1>0, <1>1, <1>3, <1>4, <1>5, StepFields DEF Newest
  <2> QED BY <1>0, <1>1, <1>2, <1>3, <1>5, <2>1, StepKeeps DEF Running, WShape
<1>6. CASE "config" \notin Present
  <2>1. refresh' = None BY <1>3, <1>6 DEF Complete, Deliver
  <2>2. Newest' BY <1>0, <1>1, <2>1 DEF Newest
  <2> QED BY <1>0, <1>1, <1>2, <1>3, <1>4, <1>6, <2>2, CompleteKeeps DEF WShape
<1> QED BY <1>5, <1>6

LEMMA LoadTargetsKeeps ==
    ASSUME WInv, LoadTargets
    PROVE  WInv'
<1>0. /\ WShape /\ Newest /\ Drained /\ refresh # None
      /\ refresh.at = "targets" /\ refresh.current
      /\ UNCHANGED <<docs, revision, files>> /\ Complete(refresh.state)
  BY DEF WInv, LoadTargets, Rebuilding, Doomed
<1>1. refresh' = None BY <1>0 DEF Complete, Deliver
<1>2. Newest' BY <1>0, <1>1 DEF Newest, files
<1>3. /\ NotOlder(refresh.state.config, noticed["config"])
      /\ NotOlder(refresh.state.project, noticed["project"])
  BY <1>0 DEF Newest
<1> QED BY <1>0, <1>2, <1>3, CompleteKeeps, RefreshTyped DEF WShape, files

LEMMA AbandonKeeps ==
    ASSUME WInv, Abandon
    PROVE  WInv'
<1>0. /\ WShape /\ Newest /\ Drained /\ refresh # None /\ Doomed /\ Deliver(None)
      /\ UNCHANGED <<docs, revision, files>>
  BY DEF WInv, Abandon
<1>1. Newest' BY <1>0 DEF Newest, files, Deliver
<1> QED BY <1>0, <1>1, DeliverKeeps DEF WShape, files

LEMMA RebuildKeeps ==
    ASSUME WInv, Rebuild
    PROVE  WInv'
BY StatConfigKeeps, ReadConfigKeeps, ConfigLoadedKeeps, StatProjectKeeps,
   LoadProjectKeeps, LoadTargetsKeeps, AbandonKeeps DEF Rebuild

-----------------------------------------------------------------------------
(* What an event does to the calls.                                        *)
After(e, C, D) ==
    /\ call'[e].attempt = call[e].attempt /\ call'[e].state = call[e].state
    /\ ~call'[e].current
    /\ call'[e].since >= call[e].since
    /\ call'[e].since = 2 \/ call'[e].since = call[e].since + 1
    /\ call'[e].cancelled <=> call[e].cancelled \/ e \in C
    /\ call'[e].disposed <=> call[e].disposed \/ e \in D

LEMMA EventCalls ==
    ASSUME NEW C, NEW D, NEW e \in Calls, WShape, Event(C, D)
    PROVE  /\ call[e].at \notin {"ready", "rejected"} /\ call'[e].at = call[e].at
           /\ call'[e] \in Caller
           /\ call[e].at # "idle" => After(e, C, D)
<1>1. call[e].at \notin {"ready", "rejected"} BY DEF Event, Drained
<1>2. CASE call[e].at = "idle"
  <2>1. call'[e] = Idle BY <1>2 DEF Event
  <2> QED BY <1>1, <1>2, <2>1, IdleTyped
<1>3. CASE call[e].at # "idle"
  <2>0. PICK a \in BOOLEAN, b \in BOOLEAN :
          a = (call[e].cancelled \/ e \in C) /\ b = (call[e].disposed \/ e \in D)
    OBVIOUS
  <2>2. call[e] \in Caller /\ call[e].since \in 0 .. 2 BY DEF WShape, Caller
  <2>6. PICK n \in 0 .. 2 : n = IF call[e].since < 2 THEN call[e].since + 1 ELSE 2
    BY <2>2
  <2>1. call'[e] = [call[e] EXCEPT !.current = FALSE, !.since = n,
                                   !.cancelled = a, !.disposed = b]
    BY <1>3, <2>0, <2>6 DEF Event
  <2>7. n >= call[e].since /\ (n = 2 \/ n = call[e].since + 1) BY <2>2, <2>6
  <2>3. call'[e] \in Caller BY <2>1, <2>2 DEF Caller
  <2>4. call'[e].at = call[e].at BY <2>1, <2>2 DEF Caller
  <2>5. After(e, C, D) BY <2>0, <2>1, <2>2, <2>7 DEF Caller, After
  <2> QED BY <1>1, <2>3, <2>4, <2>5
<1> QED BY <1>2, <1>3

(* Whatever an event changes of the documents or the files, callers lose    *)
(* no more than one attempt by it.                                         *)
LEMMA EventKeeps ==
    ASSUME NEW C, NEW D, WInv, Event(C, D),
           docs' \in [Docs -> Document \cup {None}],
           UNCHANGED disk, noticed' \in [Files -> File], configCache' \subseteq Entry,
           projectContext' \in {None} \cup Entry, Outrun \/ refresh' = None, Newest'
    PROVE  WInv'
<1>1. refresh' \in {None} \cup Refresh BY DEF Outrun, WInv, WShape, Refresh
<1>2. revision' \in 0 .. MaxRevision 
  <2>1. revision < MaxRevision /\ revision' = revision + 1 BY DEF Event
  <2> QED BY <2>1 DEF WInv, WShape
<1>3. call' \in [Calls -> Caller]
  <2>1. \A e \in Calls : call'[e] \in Caller BY EventCalls DEF WInv
  <2>2. call' = [e \in Calls |-> call'[e]] BY DEF Event
  <2> QED BY <2>1, <2>2
<1>4. WShape' BY <1>1, <1>2, <1>3 DEF WInv, WShape
<1>5. ASSUME NEW e \in Calls PROVE (Due(e) /\ Granted(e))'
  <2>0. WShape BY DEF WInv
  <2>1. call'[e].at # "ready" /\ call'[e].at = call[e].at BY <2>0, EventCalls
  <2>2. Granted(e)' BY <2>1 DEF Granted
  <2>3. Due(e) /\ call[e] \in Caller BY DEF WInv, WShape
  <2>4. CASE call'[e].at = "wait"
    <3>1. call[e].at = "wait" BY <2>1, <2>4
    <3>3. After(e, C, D) BY <2>0, <3>1, EventCalls
    <3>2. ~call'[e].disposed => ~call[e].disposed BY <3>3 DEF After
    <3>4. call[e].attempt \in 0 .. 3 /\ call[e].since \in 0 .. 2 BY <2>3 DEF Caller, Attempts
    <3>5. ~call'[e].disposed =>
            /\ call'[e].attempt >= 1 /\ call'[e].since + 2 >= call'[e].attempt
            /\ call'[e].since + 1 >= call'[e].attempt
      BY <2>3, <3>1, <3>2, <3>3, <3>4 DEF Due, After
    <3> QED BY <2>2, <2>4, <3>5 DEF Due
  <2> QED BY <2>1, <2>2, <2>4 DEF Due
<1> QED BY <1>4, <1>5 DEF WInv

(* setDocument and closeDocument leave the files alone.                    *)
LEMMA EditNewest ==
    ASSUME WInv, Outrun, UNCHANGED files
    PROVE  Newest'
<1>1. refresh' # None => ~refresh'.current BY DEF Outrun, WInv, WShape, Refresh
<1> QED BY <1>1 DEF WInv, Newest, files

(* invalidate and a new workspace forget what was cached.                  *)
LEMMA ForgetNewest ==
    ASSUME WInv, UNCHANGED disk, noticed' = disk, configCache' = {}, projectContext' = None,
           Outrun \/ refresh' = None
    PROVE  Newest'
<1>1. refresh' # None => ~refresh'.current BY DEF Outrun, WInv, WShape, Refresh
<1>2. \A f \in Files : NotOlder(disk[f], disk[f]) BY DEF WInv, WShape, NotOlder, File
<1> QED BY <1>1, <1>2 DEF WInv, Newest

LEMMA CancelKeeps ==
    ASSUME NEW c \in Calls, WInv, call' = [call EXCEPT ![c].cancelled = TRUE], Drained,
           UNCHANGED <<docs, revision, files, refresh>>
    PROVE  WInv'
<1> DEFINE k == [call[c] EXCEPT !.cancelled = TRUE]
<1>1. call' = [call EXCEPT ![c] = k] /\ call'[c] = k BY DEF WInv, WShape
<1>0. call[c] \in Caller /\ call[c].at # "ready" BY DEF WInv, WShape, Drained
<1>2. /\ k \in Caller /\ k.at = call[c].at /\ k.attempt = call[c].attempt
      /\ k.since = call[c].since
      /\ (k.current <=> call[c].current) /\ (k.disposed <=> call[c].disposed) /\ k.at # "ready"
  BY <1>0 DEF Caller
<1> HIDE DEF k
<1>3. Due(c)' BY <1>1, <1>2 DEF WInv, Due
<1>4. Granted(c)' BY <1>1, <1>2 DEF Granted
<1>5. Newest' BY DEF WInv, Newest, files
<1> QED BY <1>1, <1>2, <1>3, <1>4, <1>5, OneCallKeeps
-----------------------------------------------------------------------------
(* What a step of the workspace does to a call that a job made.            *)
Onward(e) ==
    /\ call'[e].at = "idle" <=> call[e].at = "idle"
    /\ call[e].cancelled => call'[e].cancelled
    /\ call'[e].at = "served" =>
         \/ call[e].at = "served" /\ call'[e].state = call[e].state
         \/ call'[e].state # None /\ call'[e].state.sources = docs

LEMMA OutsideKeeps ==
    ASSUME WShape, SInv, UNCHANGED <<serverVars, docs, revision>>, answer' = None,
           \A e \in Calls : Onward(e)
    PROVE  SInv'
<1>1. SShape' /\ Numbered' /\ PushedForItsText' /\ RequestForItsText'
  BY DEF SInv, SShape, Numbered, PushedForItsText, RequestForItsText, serverVars, Open
<1>2. Timed' BY DEF SInv, Timed, serverVars, Open, Busy, Onward
<1>3. ASSUME NEW e \in Calls PROVE (Kept(e) /\ Sole(e))'
  <2>1. Onward(e) /\ Kept(e) /\ Sole(e) /\ job'[e] = job[e] BY DEF SInv, serverVars
  <2>2. Kept(e)' BY <2>1 DEF Kept, Same, Busy, Open, Onward
  <2>3. Sole(e)' BY <2>1 DEF Sole, Onward, serverVars
  <2> QED BY <2>2, <2>3
<1> QED BY <1>1, <1>2, <1>3 DEF SInv

LEMMA DeliverOnward ==
    ASSUME NEW s, NEW e \in Calls, WShape, Deliver(s)
    PROVE  Onward(e)
<1>0. call[e] \in Caller BY DEF WShape
<1>1. CASE e \in Waiting
  <2>1. call[e].at = "wait" BY <1>1 DEF Waiting
  <2>2. call'[e] = [call[e] EXCEPT !.at = "ready", !.state = s] BY <1>1 DEF Deliver
  <2> QED BY <1>0, <2>1, <2>2 DEF Onward, Caller
<1>2. CASE e \notin Waiting
  <2>1. call'[e] = call[e] BY <1>2 DEF Deliver
  <2> QED BY <2>1 DEF Onward
<1> QED BY <1>1, <1>2

LEMMA RebuildOnward ==
    ASSUME NEW e \in Calls, WShape, Rebuild
    PROVE  Onward(e) /\ UNCHANGED <<docs, revision>>
<1>1. CASE UNCHANGED <<docs, revision, call>> BY <1>1 DEF Onward
<1>2. CASE LoadProject
  <2>1. call' = call \/ \E s : Deliver(s) BY <1>2 DEF LoadProject, Complete
  <2> QED BY <1>2, <2>1, DeliverOnward DEF LoadProject, Onward
<1>3. CASE LoadTargets
  <2>1. \E s : Deliver(s) BY <1>3 DEF LoadTargets, Complete
  <2> QED BY <1>3, <2>1, DeliverOnward DEF LoadTargets
<1>4. CASE Abandon BY <1>4, DeliverOnward DEF Abandon
<1> QED BY <1>1, <1>2, <1>3, <1>4
        DEF Rebuild, StatConfig, ReadConfig, ConfigLoaded, StatProject

(* One call of another.                                                    *)
LEMMA OtherOnward ==
    ASSUME NEW c \in Calls, NEW k, NEW e \in Calls, e # c, WShape,
           call' = [call EXCEPT ![c] = k]
    PROVE  Onward(e)
BY DEF Onward, WShape

LEMMA RejectOnward ==
    ASSUME NEW c \in Calls, NEW e \in Calls, WShape, Reject(c), call[c].at # "idle"
    PROVE  Onward(e)
<1>1. call[c] \in Caller BY DEF WShape
<1>2. call' = [call EXCEPT ![c] = [call[c] EXCEPT !.at = "rejected", !.state = None]]
  BY DEF Reject, WShape
<1>3. CASE e = c BY <1>1, <1>2, <1>3 DEF Onward, WShape, Caller
<1> QED BY <1>2, <1>3, OtherOnward

LEMMA ResumeOnward ==
    ASSUME NEW c \in Calls, NEW e \in Calls, WInv, Resume(c)
    PROVE  Onward(e) /\ UNCHANGED <<docs, revision>>
<1>0. WShape /\ call[c] \in Caller /\ call[c].at = "ready" /\ Granted(c)
      /\ UNCHANGED <<docs, revision>>
  BY DEF WInv, WShape, Resume
<1>1. CASE Reject(c) BY <1>0, <1>1, RejectOnward
<1>2. CASE Usable(c) /\ call' = [call EXCEPT ![c].at = "served"]
  <2>1. call' = [call EXCEPT ![c] = [call[c] EXCEPT !.at = "served"]] BY <1>0, <1>2
  <2>2. CASE e = c
    <3>1. call[c].state # None /\ call[c].state.sources = docs
      BY <1>0, <1>2 DEF Usable, Granted
    <3>2. call'[c].at = "served" /\ call'[c].state = call[c].state
          /\ call'[c].cancelled = call[c].cancelled
      BY <1>0, <2>1 DEF WShape, Caller
    <3> QED BY <1>0, <2>2, <3>1, <3>2 DEF Onward
  <2> QED BY <1>0, <2>1, <2>2, OtherOnward
<1>3. CASE ~call[c].cancelled /\ Attempt(c, call[c].attempt + 1, call[c].since)
  <2> DEFINE k == [Idle EXCEPT !.at = "wait", !.attempt = call[c].attempt + 1,
                               !.current = TRUE, !.since = call[c].since]
  <2>1. call' = [call EXCEPT ![c] = k] /\ k.at = "wait" BY <1>3 DEF Attempt, Idle
  <2> HIDE DEF k
  <2>2. CASE e = c BY <1>0, <1>3, <2>1, <2>2 DEF Onward, WShape
  <2> QED BY <1>0, <2>1, <2>2, OtherOnward
<1> QED BY <1>0, <1>1, <1>2, <1>3 DEF Resume

LEMMA LeaveOnward ==
    ASSUME NEW c \in Calls, NEW e \in Calls, WShape, Leave(c)
    PROVE  Onward(e) /\ UNCHANGED <<docs, revision>>
BY RejectOnward DEF Leave

LEMMA WriteOnward ==
    ASSUME NEW f, NEW part, NEW e \in Calls, Write(f, part)
    PROVE  Onward(e) /\ UNCHANGED <<docs, revision>>
BY DEF Write, Onward
-----------------------------------------------------------------------------
(* The end of a job.                                                       *)
LEMMA NoJobTyped == NoJob \in Job /\ NoJob.kind = "none"
BY DEF NoJob, Job

LEMMA FinishKeeps ==
    ASSUME NEW c \in Calls, WInv, SInv, Finish(c), RequestForItsText',
           published' \in [Docs -> Message], PushedForItsText'
    PROVE  WInv' /\ SInv'
<1>0. WShape /\ SShape BY DEF WInv, SInv
<1>1. WInv' BY IdleTyped, AsideKeeps DEF Finish
<1>2. /\ job' = [job EXCEPT ![c] = NoJob] /\ call' = [call EXCEPT ![c] = Idle]
      /\ activeDiagnostics' =
           [d \in Docs |-> IF activeDiagnostics[d] = c THEN None ELSE activeDiagnostics[d]]
      /\ UNCHANGED <<docs, revision, texts, pendingDiagnostics>>
  BY DEF Finish
<1>3. SShape' BY <1>0, <1>2, NoJobTyped DEF SShape
<1>4. Numbered' BY <1>2 DEF SInv, Numbered
<1>5. Timed'
  <2>1. \A d \in pendingDiagnostics' : (Open(d) /\ activeDiagnostics[d] = None)'
    BY <1>2 DEF SInv, Timed, Open, SShape
  <2>2. \A e \in Calls : (Busy(e) <=> call[e].at # "idle")'
    BY <1>0, <1>2, NoJobTyped, IdleTyped DEF SInv, Timed, Busy, WShape, SShape
  <2> QED BY <2>1, <2>2 DEF Timed
<1>6. ASSUME NEW e \in Calls PROVE (Kept(e) /\ Sole(e))'
  <2>1. CASE e = c BY <1>0, <1>2, <2>1, NoJobTyped DEF Kept, Sole, Busy, SShape
  <2>2. CASE e # c
    <3>1. job'[e] = job[e] /\ call'[e] = call[e] /\ Kept(e) /\ Sole(e)
      BY <1>0, <1>2, <2>2 DEF SInv, WShape, SShape
    <3>2. Kept(e)' BY <1>2, <3>1 DEF Kept, Same, Busy, Open
    <3>3. Sole(e)'
      <4> SUFFICES ASSUME job[e].kind = "publish", ~call[e].cancelled
                   PROVE  activeDiagnostics'[job[e].doc] = e /\ job[e].closed = None
        BY <3>1 DEF Sole
      <4>1. job[e].doc \in Docs BY <3>1 DEF Kept, Busy
      <4> QED BY <1>2, <2>2, <3>1, <4>1 DEF Sole
    <3> QED BY <3>2, <3>3
  <2> QED BY <2>1, <2>2
<1> QED BY <1>1, <1>3, <1>4, <1>5, <1>6 DEF SInv, SShape

LEMMA SilentKeeps ==
    ASSUME NEW c \in Calls, WInv, SInv, Silent(c)
    PROVE  WInv' /\ SInv'
<1>1. RequestForItsText' BY DEF Silent, RequestForItsText
<1>2. published' \in [Docs -> Message] BY DEF Silent, SInv, SShape
<1>3. PushedForItsText' BY DEF Silent, Finish, SInv, PushedForItsText, Open
<1> QED BY <1>1, <1>2, <1>3, FinishKeeps DEF Silent

(* A job that looked at its document, and found it as it was.              *)
LEMMA ValidSame ==
    ASSUME NEW c \in Calls, SInv, Busy(c), Valid(c), job[c].closed = None,
           job[c].kind = "request"
    PROVE  Same(c)
BY DEF SInv, Valid, Remembered, Same

LEMMA AnalyseKeeps ==
    ASSUME NEW c \in Calls, WInv, SInv, Analyse(c)
    PROVE  WInv' /\ SInv'
<1>0. /\ WShape /\ SShape /\ Kept(c) /\ Sole(c) /\ call[c] \in Caller /\ job[c] \in Job
      /\ call[c].at = "served" /\ job[c].items = None /\ Busy(c)
  BY DEF WInv, SInv, WShape, SShape, Analyse, Timed
<1>1. CASE Silent(c) BY <1>1, SilentKeeps
<1>2. CASE /\ Valid(c)
           /\ job' = [job EXCEPT ![c].items = Analysed(c)]
           /\ call' = [call EXCEPT ![c].state = None]
           /\ answer' = None
           /\ UNCHANGED <<docs, revision, files, refresh, texts, pendingDiagnostics,
                          activeDiagnostics, published, scheduled>>
  <2> DEFINE k == [call[c] EXCEPT !.state = None]
             i == Analysed(c)
             j == [job[c] EXCEPT !.items = i]
             source == call[c].state.sources[job[c].doc]
  <2>1. call' = [call EXCEPT ![c] = k] /\ job' = [job EXCEPT ![c] = j] BY <1>2
  <2>2. k \in Caller /\ k.at = "served" /\ k.cancelled = call[c].cancelled BY <1>0 DEF Caller
  <2>3. job[c].doc \in Docs /\ call[c].state \in State BY <1>0 DEF Kept, Caller
  <2>4. source \in Document \cup {None} /\ Held(c) \in Document
    BY <1>0, <2>3 DEF Kept, Held, Open, WShape, State, Job
  <2>5. i.analysed = Held(c).text /\ i.built = IF source = None THEN 0 ELSE source.text
    BY DEF Analysed
  <2>12. i \in Result
    <3>1. i = [analysed |-> i.analysed, built |-> i.built] BY DEF Analysed
    <3>2. i.analysed \in Texts /\ i.built \in Texts BY <2>4, <2>5 DEF Document, Texts
    <3> HIDE DEF i
    <3> QED BY <3>1, <3>2 DEF Result
  <2>13. i # None BY <2>12
  <2>14. Same(c) => i.analysed = docs[job[c].doc].text /\ i.built = docs[job[c].doc].text
    BY <1>0, <2>3, <2>5 DEF Kept, Same, Held, Open
  <2> HIDE DEF i
  <2>6. j \in Job /\ j.items = i /\ j.kind = job[c].kind /\ j.doc = job[c].doc
        /\ j.version = job[c].version /\ j.closed = job[c].closed
    BY <1>0, <2>12 DEF Job
  <2> HIDE DEF k, j
  <2>7. WInv' BY <1>2, <2>1, <2>2, AsideKeeps
  <2>8. SShape' BY <1>0, <1>2, <2>1, <2>6 DEF SShape
  <2>9. Numbered' /\ PushedForItsText' /\ RequestForItsText'
    BY <1>2 DEF SInv, Numbered, PushedForItsText, RequestForItsText, Open
  <2>10. Timed' BY <1>0, <1>2, <2>1, <2>2, <2>6 DEF SInv, Timed, Open, Busy, WShape, SShape
  <2>11. ASSUME NEW e \in Calls PROVE (Kept(e) /\ Sole(e))'
    <3>1. CASE e = c
      <4>1. job'[c] = j /\ call'[c] = k BY <1>0, <2>1 DEF WShape, SShape
      <4>2. Kept(c)' BY <1>0, <1>2, <2>13, <2>14, <2>6, <4>1 DEF Kept, Same, Busy, Open
      <4>3. Sole(c)' BY <1>0, <1>2, <2>2, <2>6, <4>1 DEF Sole
      <4> QED BY <3>1, <4>2, <4>3
    <3>2. CASE e # c
      <4>1. job'[e] = job[e] /\ call'[e] = call[e] /\ Kept(e) /\ Sole(e)
        BY <1>0, <2>1, <3>2 DEF SInv, WShape, SShape
      <4> QED BY <1>2, <4>1 DEF Kept, Same, Busy, Open, Sole
    <3> QED BY <3>1, <3>2
  <2> QED BY <2>7, <2>8, <2>9, <2>10, <2>11 DEF SInv
<1> QED BY <1>1, <1>2 DEF Analyse
LEMMA ReplyKeeps ==
    ASSUME NEW c \in Calls, WInv, SInv, Reply(c)
    PROVE  WInv' /\ SInv'
<1>0. /\ WShape /\ SShape /\ Kept(c) /\ Sole(c) /\ job[c] \in Job /\ job[c].items # None
  BY DEF WInv, SInv, WShape, SShape, Reply
<1>1. CASE Silent(c) BY <1>1, SilentKeeps
<1>2. CASE /\ Sendable(c) /\ job[c].kind = "publish"
           /\ published' = [published EXCEPT ![job[c].doc] = Sent(c)]
           /\ answer' = None /\ Finish(c)
  <2> DEFINE d == job[c].doc
             m == Sent(c)
  <2>1. d \in Docs /\ Busy(c) BY <1>0, <1>2 DEF Kept, Busy
  <2>2. Same(c) /\ Open(d) BY <1>0, <1>2 DEF Sendable, Valid, Sole, Same
  <2>3. docs[d] \in Document /\ job[c].items \in Result
    BY <1>0, <2>1, <2>2 DEF WShape, Open, Job
  <2>4. m = [text |-> docs[d].text, analysed |-> job[c].items.analysed,
             built |-> job[c].items.built]
    BY <1>2 DEF Sent
  <2>5. m.analysed = m.text /\ m.built = m.text BY <1>0, <2>1, <2>2, <2>4 DEF Kept
  <2>6. m \in Message BY <2>3, <2>4 DEF Message, Document, Result, Texts
  <2>7. published' = [published EXCEPT ![d] = m] /\ docs' = docs BY <1>2 DEF Finish
  <2> HIDE DEF m
  <2>8. RequestForItsText' BY <1>2 DEF RequestForItsText
  <2>9. published' \in [Docs -> Message] BY <1>0, <2>1, <2>6, <2>7 DEF SShape
  <2>10. PushedForItsText'
    BY <1>0, <2>1, <2>2, <2>5, <2>7 DEF SInv, PushedForItsText, Open, SShape
  <2> QED BY <1>2, <2>8, <2>9, <2>10, FinishKeeps
<1>3. CASE /\ Sendable(c) /\ job[c].kind # "publish"
           /\ answer' = [kind |-> job[c].kind, again |-> job[c].closed # None,
                         now |-> docs[job[c].doc].text, sent |-> Sent(c)]
           /\ Finish(c) /\ UNCHANGED published
  <2>1. published' \in [Docs -> Message] BY <1>0, <1>3 DEF SShape
  <2>2. PushedForItsText' BY <1>3 DEF Finish, SInv, PushedForItsText, Open
  <2>3. ASSUME job[c].kind = "request", job[c].closed = None
        PROVE  /\ job[c].items.analysed = docs[job[c].doc].text
               /\ job[c].items.built = docs[job[c].doc].text
    <3>1. Same(c) /\ Busy(c) BY <1>3, <2>3, ValidSame DEF Sendable, Busy
    <3> QED BY <1>0, <3>1 DEF Kept
  <2>4. Sent(c).analysed = job[c].items.analysed /\ Sent(c).built = job[c].items.built
    BY DEF Sent
  <2>5. /\ answer'.kind = job[c].kind /\ answer'.again = (job[c].closed # None)
        /\ answer'.now = docs[job[c].doc].text /\ answer'.sent = Sent(c)
    BY <1>3
  <2>6. RequestForItsText' BY <2>3, <2>4, <2>5 DEF RequestForItsText
  <2> QED BY <1>3, <2>1, <2>2, <2>6, FinishKeeps
<1> QED BY <1>1, <1>2, <1>3 DEF Reply
-----------------------------------------------------------------------------
(* The beginning of a job.                                                 *)
LEMMA StartKeeps ==
    ASSUME NEW c \in Calls, NEW kind \in {"publish", "pull", "request"}, NEW d \in Docs,
           WInv, SInv, Start(c, kind, d),
           pendingDiagnostics' \subseteq pendingDiagnostics,
           \/ kind # "publish" /\ UNCHANGED activeDiagnostics
           \/ /\ c \in Publishers
              /\ activeDiagnostics[d] = None /\ d \notin pendingDiagnostics'
              /\ activeDiagnostics' = [activeDiagnostics EXCEPT ![d] = c]
    PROVE  WInv' /\ SInv'
<1>0. WShape /\ SShape BY DEF WInv, SInv
<1> DEFINE j == [kind |-> kind, doc |-> d, version |-> docs[d].version,
                 current |-> TRUE, closed |-> None, items |-> None]
           k == [Idle EXCEPT !.at = "wait", !.attempt = 1, !.current = TRUE, !.since = 0]
<1>1. /\ Open(d) /\ Service(c) /\ job' = [job EXCEPT ![c] = j] /\ answer' = None
      /\ UNCHANGED <<texts, published, docs, revision>> /\ call' = [call EXCEPT ![c] = k]
  BY DEF Start, Service, Attempt
<1>2. docs[d] \in Document /\ docs[d].version \in 0 .. MaxRevision
  BY <1>0, <1>1 DEF WShape, Open, Document
<1>3. j \in Job BY <1>2 DEF Job
<1>4. /\ j.kind = kind /\ j.doc = d /\ j.version = docs[d].version
      /\ j.closed = None /\ j.items = None
  OBVIOUS
<1>5. k.at = "wait" BY IdleTyped DEF Idle
<1> HIDE DEF j, k
<1>6. WInv' BY <1>1, ServiceKeeps
<1>7. SShape' BY <1>0, <1>1, <1>3 DEF SShape
<1>8. Numbered' /\ PushedForItsText' /\ RequestForItsText'
  BY <1>1 DEF SInv, Numbered, PushedForItsText, RequestForItsText, Open
<1>9. Timed'
  <2>1. \A x \in pendingDiagnostics' : (Open(x) /\ activeDiagnostics[x] = None)'
    BY <1>0, <1>1 DEF SInv, Timed, Open, SShape
  <2>2. \A e \in Calls : (Busy(e) <=> call[e].at # "idle")'
    BY <1>0, <1>1, <1>4, <1>5 DEF SInv, Timed, Busy, WShape, SShape
  <2> QED BY <2>1, <2>2 DEF Timed
<1>10. ASSUME NEW e \in Calls PROVE (Kept(e) /\ Sole(e))'
  <2>1. CASE e = c
    <3>1. job'[c] = j /\ call'[c] = k BY <1>0, <1>1 DEF WShape, SShape
    <3>2. Kept(c)' BY <1>1, <1>2, <1>4, <1>5, <3>1 DEF Kept, Same, Busy, Open, Document
    <3>3. Sole(c)' BY <1>0, <1>4, <3>1 DEF Sole, SShape
    <3> QED BY <2>1, <3>2, <3>3
  <2>2. CASE e # c
    <3>1. job'[e] = job[e] /\ call'[e] = call[e] /\ Kept(e) /\ Sole(e)
      BY <1>0, <1>1, <2>2 DEF SInv, WShape, SShape
    <3>2. Kept(e)' BY <1>1, <3>1 DEF Kept, Same, Busy, Open
    <3>3. ASSUME job[e].kind = "publish", ~call[e].cancelled
          PROVE  activeDiagnostics'[job[e].doc] = e
      <4>1. job[e].doc \in Docs /\ activeDiagnostics[job[e].doc] = e
        BY <3>1, <3>3 DEF Kept, Sole, Busy
      <4> QED BY <1>0, <4>1 DEF SShape
    <3>4. Sole(e)' BY <3>1, <3>3 DEF Sole
    <3> QED BY <3>2, <3>4
  <2> QED BY <2>1, <2>2
<1> QED BY <1>6, <1>7, <1>8, <1>9, <1>10 DEF SInv

LEMMA PublishDiagnosticsKeeps ==
    ASSUME NEW c \in Publishers, NEW d \in Docs, WInv, SInv, publishDiagnostics(c, d)
    PROVE  WInv' /\ SInv'
<1>1. activeDiagnostics[d] = None BY DEF SInv, Timed, publishDiagnostics
<1>2. /\ Start(c, "publish", d) /\ d \notin pendingDiagnostics'
      /\ pendingDiagnostics' \subseteq pendingDiagnostics
      /\ activeDiagnostics' = [activeDiagnostics EXCEPT ![d] = c]
  BY DEF publishDiagnostics
<1> QED BY <1>1, <1>2, StartKeeps

LEMMA OnRequestKeeps ==
    ASSUME NEW c \in Requesters, NEW d \in Docs, NEW kind \in {"pull", "request"}, WInv, SInv,
           onRequest(c, kind, d)
    PROVE  WInv' /\ SInv'
BY StartKeeps DEF onRequest

LEMMA CancelRequestKeeps ==
    ASSUME NEW c \in Calls, WInv, SInv, cancelRequest(c)
    PROVE  WInv' /\ SInv'
<1>1. WInv' BY CancelKeeps DEF cancelRequest
<1>2. \A e \in Calls : Onward(e)
  <2>1. call[c] \in Caller BY DEF WInv, WShape
  <2>2. call' = [call EXCEPT ![c] = [call[c] EXCEPT !.cancelled = TRUE]]
    BY DEF cancelRequest, WInv, WShape
  <2> QED BY <2>1, <2>2, OtherOnward DEF WInv, WShape, Caller, Onward
<1> QED BY <1>1, <1>2, OutsideKeeps DEF cancelRequest, WInv
-----------------------------------------------------------------------------
(* Events. Whoever may publish for a document that an event is about is     *)
(* cancelled by it.                                                        *)
LEMMA EventSole ==
    ASSUME NEW D \in SUBSET Docs, NEW X, NEW e \in Calls, WInv, SInv,
           Event(Active(D), X), ClearActive(D),
           job'[e].kind = job[e].kind, job'[e].doc = job[e].doc,
           job[e].doc \notin D => job'[e].closed = job[e].closed
    PROVE  Sole(e)'
<1> SUFFICES ASSUME job[e].kind = "publish", ~call'[e].cancelled
             PROVE  activeDiagnostics'[job[e].doc] = e /\ job'[e].closed = None
  BY DEF Sole
<1>0. Busy(e) /\ Kept(e) /\ Sole(e) /\ WShape /\ call[e].at # "idle"
  BY DEF SInv, WInv, Busy, Timed
<1>1. After(e, Active(D), X) BY <1>0, EventCalls
<1>2. ~call[e].cancelled /\ e \notin Active(D) BY <1>1 DEF After
<1>3. activeDiagnostics[job[e].doc] = e /\ job[e].closed = None /\ job[e].doc \in Docs
  BY <1>0, <1>2 DEF Sole, Kept
<1>4. job[e].doc \notin D BY <1>2, <1>3 DEF Active
<1> QED BY <1>3, <1>4 DEF ClearActive

(* What the jobs see of an event.                                          *)
LEMMA EventJobs ==
    ASSUME NEW C, NEW X, NEW e \in Calls, WInv, SInv, Event(C, X), Busy(e)
    PROVE  /\ Kept(e) /\ call'[e].at = call[e].at /\ call'[e].state = call[e].state
<1>1. call[e].at # "idle" /\ Kept(e) /\ WShape BY DEF SInv, WInv, Timed
<1>2. After(e, C, X) /\ call'[e].at = call[e].at BY <1>1, EventCalls
<1> QED BY <1>1, <1>2 DEF After

LEMMA EventBusy ==
    ASSUME NEW C, NEW X, NEW e \in Calls, WInv, SInv, Event(C, X), job'[e].kind = job[e].kind
    PROVE  (Busy(e) <=> call[e].at # "idle")'
BY EventCalls DEF SInv, WInv, Timed, Busy

LEMMA EventRevision ==
    ASSUME NEW C, NEW X, WShape, Event(C, X)
    PROVE  revision' = revision + 1 /\ revision' \in 1 .. MaxRevision
<1>1. revision < MaxRevision /\ revision' = revision + 1 BY DEF Event
<1> QED BY <1>1 DEF WShape

LEMMA ReceiveKeeps ==
    ASSUME NEW d \in Docs, NEW v, WInv, SInv, Receive(d, v),
           \/ docs[d] = None /\ v = 1
           \/ docs[d] # None /\ v = docs[d].version + 1
    PROVE  WInv' /\ SInv'
<1> DEFINE t == texts[d] + 1
           new == [version |-> v, text |-> t]
<1>0. /\ WShape /\ SShape /\ Event(Active({d}), {}) /\ Outrun
      /\ UNCHANGED <<files, job, published>>
      /\ texts' = [texts EXCEPT ![d] = t] /\ docs' = [docs EXCEPT ![d] = new]
      /\ ClearActive({d})
      /\ pendingDiagnostics' = pendingDiagnostics \cup {d} /\ answer' = None
  BY DEF WInv, SInv, SShape, Receive, setDocument, Schedule, Started
<1>1. revision' = revision + 1 /\ revision' \in 1 .. MaxRevision BY <1>0, EventRevision
<1>2. /\ t \in 1 .. MaxRevision /\ t <= revision'
      /\ v \in 1 .. MaxRevision /\ v <= revision'
  BY <1>0, <1>1 DEF SInv, Numbered, SShape, WShape, Document
<1>3. new \in Document /\ new.version = v /\ new.text = t BY <1>2 DEF Document
<1>4. new # None BY <1>3
<1> HIDE DEF new, t
<1>5. docs' \in [Docs -> Document \cup {None}] BY <1>0, <1>3 DEF WShape
<1>6. Newest' BY <1>0, EditNewest
<1>7. WInv' BY <1>0, <1>5, <1>6, EventKeeps DEF files, WShape
<1>8. SShape' BY <1>0, <1>2 DEF SShape, ClearActive
<1>9. Numbered'
  <2>1. \A x \in Docs :
          /\ texts[x] \in 0 .. MaxRevision /\ texts[x] <= revision
          /\ docs[x] # None => /\ docs[x] \in Document
                               /\ docs[x].version <= revision /\ docs[x].text <= texts[x]
    BY <1>0 DEF SInv, Numbered, WShape, SShape
  <2>2. \A x \in Docs : x # d => texts'[x] = texts[x] /\ docs'[x] = docs[x]
    BY <1>0 DEF WShape, SShape
  <2>3. texts'[d] = t /\ docs'[d] = new BY <1>0 DEF WShape, SShape
  <2> SUFFICES ASSUME NEW x \in Docs
               PROVE  /\ texts'[x] <= revision'
                      /\ docs'[x] # None => /\ docs'[x].version <= revision'
                                            /\ docs'[x].text <= texts'[x]
    BY DEF Numbered
  <2>4. CASE x = d BY <1>1, <1>2, <1>3, <2>3, <2>4
  <2>5. CASE x # d
    <3>1. texts'[x] = texts[x] /\ docs'[x] = docs[x] BY <2>2, <2>5
    <3>2. revision \in Nat BY <1>0 DEF WShape
    <3>3. texts[x] \in Nat /\ texts[x] <= revision BY <2>1
    <3>4. docs[x] # None => /\ docs[x].version \in Nat /\ docs[x].version <= revision
                            /\ docs[x].text <= texts[x]
      BY <2>1 DEF Document
    <3> QED BY <1>1, <3>1, <3>2, <3>3, <3>4
  <2> QED BY <2>4, <2>5
<1>10. Timed'
  <2>1. \A x \in pendingDiagnostics' : (Open(x) /\ activeDiagnostics[x] = None)'
    BY <1>0, <1>4 DEF SInv, Timed, Open, SShape, WShape, ClearActive
  <2> QED BY <1>0, <2>1, EventBusy DEF Timed
<1>11. PushedForItsText' BY <1>0, <1>4 DEF SInv, PushedForItsText, Open, WShape
<1>12. RequestForItsText' BY <1>0 DEF RequestForItsText
<1>13. ASSUME NEW e \in Calls PROVE (Kept(e) /\ Sole(e))'
  <2>1. Sole(e)' BY <1>0, EventSole
  <2>2. CASE Busy(e)
    <3>1. /\ Kept(e) /\ job'[e] = job[e]
          /\ call'[e].at = call[e].at /\ call'[e].state = call[e].state
      BY <1>0, <2>2, EventJobs
    <3>2. CASE job[e].doc # d \/ job[e].closed # None
      BY <1>0, <2>1, <3>1, <3>2 DEF Kept, Same, Busy, Open, WShape
    <3>3. CASE job[e].doc = d /\ job[e].closed = None
      <4>1. docs[d] # None /\ docs[d].version >= job[e].version
        BY <2>2, <3>1, <3>3 DEF Kept, Open
      <4>2. docs[d] \in Document /\ job[e].version \in 0 .. MaxRevision
        BY <1>0, <4>1 DEF WShape, SShape, Job
      <4>3. docs'[d] = new /\ v > job[e].version BY <1>0, <4>1, <4>2 DEF WShape, Document
      <4>4. docs'[d].version > job[e].version /\ docs'[d].version >= job[e].version
        BY <1>2, <1>3, <4>2, <4>3
      <4>5. ~Same(e)' BY <1>2, <1>3, <3>1, <3>3, <4>2, <4>3 DEF Same
      <4> QED BY <1>4, <2>1, <2>2, <3>1, <3>3, <4>3, <4>4, <4>5 DEF Kept, Open, Busy
    <3> QED BY <3>2, <3>3
  <2>3. CASE ~Busy(e) BY <1>0, <2>1, <2>3 DEF Kept, Busy
  <2> QED BY <2>1, <2>2, <2>3
<1> QED BY <1>7, <1>8, <1>9, <1>10, <1>11, <1>12, <1>13 DEF SInv

LEMMA DidOpenKeeps ==
    ASSUME NEW d \in Docs, WInv, SInv, didOpen(d)
    PROVE  WInv' /\ SInv'
BY ReceiveKeeps DEF didOpen, Open

LEMMA DidChangeContentKeeps ==
    ASSUME NEW d \in Docs, WInv, SInv, didChangeContent(d)
    PROVE  WInv' /\ SInv'
BY ReceiveKeeps DEF didChangeContent, Open

LEMMA DidCloseKeeps ==
    ASSUME NEW d \in Docs, WInv, SInv, didClose(d)
    PROVE  WInv' /\ SInv'
<1>0. /\ WShape /\ SShape /\ Event(Active({d}), {}) /\ Outrun /\ UNCHANGED <<files, texts>>
      /\ docs[d] # None /\ docs' = [docs EXCEPT ![d] = None]
      /\ ClearActive({d}) /\ pendingDiagnostics' = pendingDiagnostics \ {d} /\ answer' = None
      /\ published' = [published EXCEPT ![d] = None]
  BY DEF WInv, SInv, didClose, closeDocument, Open
<1>1. revision' = revision + 1 /\ revision' \in 1 .. MaxRevision BY <1>0, EventRevision
<1>2. docs[d] \in Document BY <1>0 DEF WShape
<1>3. ASSUME NEW e \in Calls
      PROVE  /\ job'[e] \in Job /\ job'[e].kind = job[e].kind /\ job'[e].doc = job[e].doc
             /\ job'[e].version = job[e].version /\ job'[e].items = job[e].items
             /\ job'[e].closed = IF Busy(e) /\ job[e].doc = d /\ job[e].closed = None
                                 THEN docs[d] ELSE job[e].closed
  <2>1. job[e] \in Job BY <1>0 DEF SShape
  <2>2. CASE Busy(e) /\ job[e].doc = d /\ job[e].closed = None
    <3>1. job'[e] = [job[e] EXCEPT !.closed = docs[d]] BY <2>2 DEF didClose
    <3> QED BY <1>2, <2>1, <2>2, <3>1 DEF Job
  <2>3. CASE ~(Busy(e) /\ job[e].doc = d /\ job[e].closed = None)
    <3>1. job'[e] = job[e] BY <2>3 DEF didClose
    <3> QED BY <2>1, <2>3, <3>1
  <2> QED BY <2>2, <2>3
<1>4. job' \in [Calls -> Job]
  <2>1. job' = [e \in Calls |-> job'[e]] BY DEF didClose
  <2> QED BY <1>3, <2>1
<1>5. docs' \in [Docs -> Document \cup {None}] BY <1>0 DEF WShape
<1>6. Newest' BY <1>0, EditNewest
<1>7. WInv' BY <1>0, <1>5, <1>6, EventKeeps DEF files, WShape
<1>8. SShape' BY <1>0, <1>4 DEF SShape, ClearActive, Message
<1>9. Numbered'
  <2>1. \A x \in Docs : texts[x] <= revision' BY <1>0, <1>1 DEF SInv, Numbered, SShape, WShape
  <2>2. \A x \in Docs : docs'[x] # None => docs[x] \in Document /\ docs'[x] = docs[x]
    BY <1>0 DEF WShape
  <2>3. \A x \in Docs :
          docs'[x] # None => docs[x].version <= revision' /\ docs[x].text <= texts[x]
    BY <1>0, <1>1, <2>2 DEF SInv, Numbered, WShape, Document
  <2> QED BY <1>0, <2>1, <2>2, <2>3 DEF Numbered
<1>10. Timed'
  <2>1. \A x \in pendingDiagnostics' : (Open(x) /\ activeDiagnostics[x] = None)'
    BY <1>0 DEF SInv, Timed, Open, SShape, WShape, ClearActive
  <2> QED BY <1>0, <1>3, <2>1, EventBusy DEF Timed
<1>11. PushedForItsText' BY <1>0 DEF SInv, PushedForItsText, Open, WShape, SShape
<1>12. RequestForItsText' BY <1>0 DEF RequestForItsText
<1>13. ASSUME NEW e \in Calls PROVE (Kept(e) /\ Sole(e))'
  <2>1. Sole(e)'
    <3>1. job[e].doc \notin {d} => job'[e].closed = job[e].closed BY <1>3
    <3> QED BY <1>0, <1>3, <3>1, EventSole
  <2>2. CASE Busy(e)
    <3>1. Kept(e) /\ call'[e].at = call[e].at /\ call'[e].state = call[e].state
      BY <1>0, <2>2, EventJobs
    <3>2. CASE job[e].doc = d
      <4>1. job'[e].closed # None BY <1>0, <1>3, <2>2, <3>2
      <4> QED BY <1>3, <2>1, <2>2, <3>1, <4>1 DEF Kept, Same, Busy
    <3>3. CASE job[e].doc # d
      <4>1. docs'[job[e].doc] = docs[job[e].doc] BY <1>0, <3>3 DEF WShape
      <4> QED BY <1>3, <2>1, <3>1, <3>3, <4>1 DEF Kept, Same, Busy, Open
    <3> QED BY <3>2, <3>3
  <2>3. CASE ~Busy(e) BY <1>3, <2>1, <2>3 DEF Kept, Busy
  <2> QED BY <2>1, <2>2, <2>3
<1> QED BY <1>7, <1>8, <1>9, <1>10, <1>11, <1>12, <1>13 DEF SInv

(* Every open document is scheduled again.                                 *)
LEMMA RescheduleKeeps ==
    ASSUME NEW X, WInv, SInv, WInv',
           Event(Active({d \in Docs : Open(d)}), X), NextWorkspaceRevision,
           Schedule({d \in Docs : Open(d)}), UNCHANGED <<docs, texts, published>>
    PROVE  SInv'
<1> DEFINE D == {d \in Docs : Open(d)}
<1>0. /\ WShape /\ SShape /\ ClearActive(D) /\ pendingDiagnostics' = pendingDiagnostics \cup D
      /\ answer' = None /\ D \in SUBSET Docs /\ Event(Active(D), X)
  BY DEF WInv, SInv, Schedule, Started
<1>1. revision' = revision + 1 /\ revision' \in 1 .. MaxRevision BY <1>0, EventRevision
<1>2. ASSUME NEW e \in Calls
      PROVE  /\ job'[e] \in Job /\ job'[e].kind = job[e].kind /\ job'[e].doc = job[e].doc
             /\ job'[e].version = job[e].version /\ job'[e].items = job[e].items
             /\ job'[e].closed = job[e].closed
  <2>1. job[e] \in Job /\ job'[e] = [job[e] EXCEPT !.current = FALSE]
    BY <1>0 DEF SShape, NextWorkspaceRevision
  <2> QED BY <2>1 DEF Job
<1>3. job' \in [Calls -> Job]
  <2>1. job' = [e \in Calls |-> job'[e]] BY DEF NextWorkspaceRevision
  <2> QED BY <1>2, <2>1
<1>4. SShape' BY <1>0, <1>3 DEF SShape, ClearActive
<1>5. Numbered' BY <1>0, <1>1 DEF SInv, Numbered, WShape, SShape, Document
<1>6. Timed'
  <2>1. \A x \in pendingDiagnostics' : (Open(x) /\ activeDiagnostics[x] = None)'
    BY <1>0 DEF SInv, Timed, Open, SShape, ClearActive
  <2> QED BY <1>0, <1>2, <2>1, EventBusy DEF Timed
<1>7. PushedForItsText' /\ RequestForItsText'
  BY <1>0 DEF SInv, PushedForItsText, RequestForItsText, Open
<1>8. ASSUME NEW e \in Calls PROVE (Kept(e) /\ Sole(e))'
  <2>1. Sole(e)' BY <1>0, <1>2, EventSole
  <2>2. CASE Busy(e)
    <3>1. Kept(e) /\ call'[e].at = call[e].at /\ call'[e].state = call[e].state
      BY <1>0, <2>2, EventJobs
    <3> QED BY <1>2, <2>1, <3>1 DEF Kept, Same, Busy, Open
  <2>3. CASE ~Busy(e) BY <1>2, <2>1, <2>3 DEF Kept, Busy
  <2> QED BY <2>1, <2>2, <2>3
<1> QED BY <1>4, <1>5, <1>6, <1>7, <1>8 DEF SInv

LEMMA ForgetKeeps ==
    ASSUME NEW C, NEW X, WInv, Event(C, X), UNCHANGED <<docs, disk>>, noticed' = disk,
           configCache' = {}, projectContext' = None, Outrun \/ refresh' = None
    PROVE  WInv'
<1>1. Newest' BY ForgetNewest
<1>2. docs' \in [Docs -> Document \cup {None}] /\ noticed' \in [Files -> File]
  BY DEF WInv, WShape
<1> QED BY <1>1, <1>2, EventKeeps

LEMMA InvalidateAndScheduleKeeps ==
    ASSUME WInv, SInv, invalidateAndSchedule
    PROVE  WInv' /\ SInv'
<1>1. WInv' BY ForgetKeeps DEF invalidateAndSchedule, invalidate
<1> QED BY <1>1, RescheduleKeeps DEF invalidateAndSchedule

LEMMA UpdateWorkspaceFoldersKeeps ==
    ASSUME WInv, SInv, updateWorkspaceFolders
    PROVE  WInv' /\ SInv'
<1>1. WInv' BY ForgetKeeps DEF updateWorkspaceFolders, Replace
<1> QED BY <1>1, RescheduleKeeps DEF updateWorkspaceFolders
-----------------------------------------------------------------------------
LEMMA InitKeeps == InitServer => WInv /\ SInv
<1> SUFFICES ASSUME InitServer PROVE WInv /\ SInv
  OBVIOUS
<1> USE DEF InitServer, InitWorkspace
<1>1. WShape
  <2>1. disk \in [Files -> File] BY DEF Empty, File
  <2> QED BY <2>1, IdleTyped DEF WShape
<1>2. SShape BY NoJobTyped DEF SShape, Message
<1>3. Newest BY DEF Newest, NotOlder, Empty, Files
<1>4. Numbered /\ Timed /\ PushedForItsText /\ RequestForItsText
  BY NoJobTyped, IdleTyped
  DEF Numbered, Timed, PushedForItsText, RequestForItsText, Busy
<1>5. \A c \in Calls : Due(c) /\ Granted(c) /\ Kept(c) /\ Sole(c)
  BY NoJobTyped, IdleTyped DEF Due, Granted, Kept, Sole, Busy
<1> QED BY <1>1, <1>2, <1>3, <1>4, <1>5 DEF WInv, SInv

LEMMA NextKeeps ==
    ASSUME WInv, SInv, [Next]_vars
    PROVE  WInv' /\ SInv'
<1>0. WShape BY DEF WInv
<1>1. CASE Outside(Rebuild)
  <2>1. WInv' BY <1>1, RebuildKeeps DEF Outside
  <2>2. UNCHANGED <<docs, revision>> /\ \A e \in Calls : Onward(e)
    <3>1. Rebuild BY <1>1 DEF Outside
    <3>3. UNCHANGED <<docs, revision>>
      BY <3>1 DEF Rebuild, StatConfig, ReadConfig, ConfigLoaded, StatProject, LoadProject,
                  LoadTargets, Abandon
    <3> QED BY <1>0, <3>1, <3>3, RebuildOnward
  <2>3. UNCHANGED serverVars /\ answer' = None BY <1>1 DEF Outside
  <2> QED BY <1>0, <2>1, <2>2, <2>3, OutsideKeeps
<1>2. ASSUME NEW c \in Calls, Outside(Resume(c)) PROVE WInv' /\ SInv'
  <2>1. WInv' BY <1>2, ResumeKeeps DEF Outside
  <2> QED BY <1>0, <1>2, <2>1, ResumeOnward, OutsideKeeps DEF Outside, Resume
<1>3. ASSUME NEW c \in Calls, Outside(Leave(c)) PROVE WInv' /\ SInv'
  <2>1. WInv' BY <1>3, LeaveKeeps DEF Outside
  <2> QED BY <1>0, <1>3, <2>1, LeaveOnward, OutsideKeeps DEF Outside, Leave
<1>4. ASSUME NEW f \in Files, NEW part \in {"own", "parts"}, Outside(Write(f, part))
      PROVE  WInv' /\ SInv'
  <2>1. WInv' BY <1>4, WriteKeeps DEF Outside
  <2> QED BY <1>0, <1>4, <2>1, WriteOnward, OutsideKeeps DEF Outside, Write
<1>5. ASSUME NEW c \in Calls, Refused(c) PROVE WInv' /\ SInv'
  BY <1>5, SilentKeeps DEF Refused
<1>6. CASE UNCHANGED vars
  <2>1. Newest' BY <1>6 DEF vars, workspaceVars, files, WInv, Newest
  <2>2. WInv' BY <1>6, <2>1 DEF vars, workspaceVars, files, WInv, WShape, Due, Granted, Usable
  <2>3. SShape' /\ Numbered' /\ Timed' /\ PushedForItsText' /\ RequestForItsText'
    BY <1>6 DEF vars, workspaceVars, serverVars, SInv, SShape, Numbered, Timed,
                PushedForItsText, RequestForItsText, Open, Busy
  <2>4. \A c \in Calls : (Kept(c) /\ Sole(c))'
    BY <1>6 DEF vars, workspaceVars, serverVars, SInv, Kept, Sole, Same, Busy, Open
  <2> QED BY <2>2, <2>3, <2>4 DEF SInv
<1>7. CASE Client
  BY <1>4, <1>7, DidOpenKeeps, DidChangeContentKeeps, DidCloseKeeps,
     InvalidateAndScheduleKeeps, UpdateWorkspaceFoldersKeeps, OnRequestKeeps,
     CancelRequestKeeps DEF Client
<1>8. CASE Work
  BY <1>1, <1>2, <1>3, <1>5, <1>8, AnalyseKeeps, ReplyKeeps, PublishDiagnosticsKeeps DEF Work
<1> QED BY <1>6, <1>7, <1>8 DEF Next

(* The inductive invariant behind the theorems below.                      *)
THEOREM ServerInductive == Spec => [](WInv /\ SInv)
<1>1. (WInv /\ SInv) /\ [Next]_vars => (WInv /\ SInv)' BY NextKeeps
<1> QED BY <1>1, InitKeeps, PTL DEF Spec

(* Every variable keeps its type, and the counts stay within their bounds.  *)
THEOREM ServerTyped == Spec => []TypeOK
<1>1. WInv /\ SInv => TypeOK
  <2> SUFFICES ASSUME WInv, SInv PROVE TypeOK
    OBVIOUS
  <2>1. \A c \in Calls : call[c].at \in {"idle", "wait", "ready", "served", "rejected"}
    BY DEF WInv, WShape, Caller
  <2>2. refresh # None => refresh.at \in Running BY RefreshTyped DEF WInv
  <2> QED BY <2>1, <2>2 DEF WInv, SInv, WShape, SShape, Timed, TypeOK, Entry
<1> QED BY <1>1, ServerInductive, PTL

(* Pushed diagnostics (publishDiagnostics): what the editor shows for a     *)
(* document was computed on the text it was sent with, by a service built   *)
(* from that text, for any number of documents, jobs, edits and closes.    *)
THEOREM PushedHolds == Spec => []PushedForItsText
<1>1. WInv /\ SInv => PushedForItsText BY DEF SInv
<1> QED BY <1>1, ServerInductive, PTL

(* withService: the result of a request is about the text its document has  *)
(* when the result leaves.                                                 *)
THEOREM RequestHolds == Spec => []RequestForItsText
<1>1. WInv /\ SInv => RequestForItsText BY DEF SInv
<1> QED BY <1>1, ServerInductive, PTL

(* What a step does to the callers that have their refresh.                *)
LEMMA ServedStep ==
    ASSUME WInv, SInv, [Next]_vars, NEW c \in Calls, call[c].at = "ready"
    PROVE  /\ call'[c].at = "served" =>
                /\ call'[c].state.sources = docs
                /\ NotOlder(call'[c].state.config, noticed["config"])
                /\ NotOlder(call'[c].state.project, noticed["project"])
           /\ call'[c].at = "rejected" =>
                call[c].cancelled \/ call[c].disposed \/ call[c].since = 2
<1>0. ~Drained /\ WShape /\ SShape /\ Due(c) /\ Granted(c) /\ call[c] \in Caller
  BY DEF Drained, WInv, SInv, WShape
<1>1. CASE call'[c] = call[c] BY <1>1
<1>2. CASE Resume(c)
  <2>1. CASE /\ ~call[c].cancelled /\ ~call[c].disposed /\ Usable(c)
             /\ call' = [call EXCEPT ![c].at = "served"]
    <3>1. call'[c].state = call[c].state /\ call'[c].at = "served"
      BY <1>0, <2>1 DEF WShape, Caller
    <3>2. call[c].state # None BY <2>1 DEF Usable
    <3> QED BY <1>0, <3>1, <3>2 DEF Granted
  <2>2. CASE /\ Reject(c)
             /\ \/ call[c].cancelled \/ call[c].disposed
                \/ (~Usable(c) /\ call[c].attempt >= 3)
    <3>1. call'[c].at = "rejected" BY <1>0, <2>2 DEF Reject, WShape, Caller
    <3>3. call[c].since \in 0 .. 2 /\ call[c].attempt \in 0 .. 3 BY <1>0 DEF Caller, Attempts
    <3> QED BY <1>0, <2>2, <3>1, <3>3 DEF Due
  <2>3. CASE Attempt(c, call[c].attempt + 1, call[c].since)
    <3>1. call'[c].at = "wait" BY <1>0, <2>3 DEF Attempt, WShape, Idle
    <3> QED BY <3>1
  <2> QED BY <1>2, <2>1, <2>2, <2>3 DEF Resume, Attempts
<1>3. ASSUME NEW e \in Calls, Resume(e) PROVE Resume(c) \/ call'[c] = call[c]
  BY <1>0, <1>3 DEF Resume, Reject, Attempt, WShape
<1>4. ASSUME NEW e \in Calls, Refused(e) PROVE call'[c] = call[c]
  BY <1>0, <1>4 DEF Refused, Silent, Finish, WShape
<1>5. ~Rebuild
  BY <1>0 DEF Rebuild, StatConfig, ReadConfig, ConfigLoaded, StatProject, LoadProject,
              LoadTargets, Abandon, Rebuilding
<1>6. \A e \in Calls : ~Leave(e) /\ ~Analyse(e) /\ ~Reply(e) /\ ~cancelRequest(e)
  BY <1>0 DEF Leave, Analyse, Reply, cancelRequest
<1>7. \A e \in Calls, kind \in {"publish", "pull", "request"}, d \in Docs : ~Start(e, kind, d)
  BY <1>0 DEF Start, Service
<1>8. \A f \in Files, part \in {"own", "parts"} : ~Write(f, part) BY <1>0 DEF Write
<1>9. ~Client
  <2>1. \A C, D : ~Event(C, D) BY <1>0 DEF Event
  <2>2. \A d \in Docs : ~didOpen(d) /\ ~didChangeContent(d) /\ ~didClose(d)
    BY <2>1 DEF didOpen, didChangeContent, didClose, Receive
  <2>3. ~invalidateAndSchedule /\ ~updateWorkspaceFolders
    BY <2>1 DEF invalidateAndSchedule, updateWorkspaceFolders
  <2>4. \A e \in Requesters, d \in Docs, kind \in {"pull", "request"} : ~onRequest(e, kind, d)
    BY <1>7 DEF onRequest
  <2>5. \A f \in Files, part \in {"own", "parts"} : ~Outside(Write(f, part))
    BY <1>8 DEF Outside
  <2> QED BY <1>6, <2>2, <2>3, <2>4, <2>5 DEF Client
<1>10. CASE Work
  <2>1. \A e \in Publishers, d \in Docs : ~publishDiagnostics(e, d)
    BY <1>7 DEF publishDiagnostics
  <2> QED BY <1>1, <1>2, <1>3, <1>4, <1>5, <1>6, <1>10, <2>1 DEF Work, Outside
<1>11. CASE UNCHANGED vars BY <1>1, <1>11 DEF vars, workspaceVars
<1> QED BY <1>9, <1>10, <1>11 DEF Next

(* service: what a caller is given is built from the present documents and  *)
(* from files no older than the last notice of a change, and of its three   *)
(* attempts it loses only one to what others did.                          *)
THEOREM ServedHolds == Spec => ServedCurrent
<1>1. (WInv /\ SInv) /\ [Next]_vars =>
        [\A c \in Calls : call[c].at = "ready" =>
         /\ call'[c].at = "served" =>
              LET s == call'[c].state IN
              /\ s.sources = docs
              /\ NotOlder(s.config, noticed["config"])
              /\ NotOlder(s.project, noticed["project"])
         /\ call'[c].at = "rejected" =>
              call[c].cancelled \/ call[c].disposed \/ call[c].since = 2]_workspaceVars
  BY ServedStep
<1> QED BY <1>1, ServerInductive, PTL DEF Spec, ServedCurrent
=============================================================================
