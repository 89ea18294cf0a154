--------------------------- MODULE LanguageServer ---------------------------
(***************************************************************************)
(* The stdio server of @sqlbraid/language-server (server.ts) over one      *)
(* workspace folder: documents that the client opens, changes and closes,  *)
(* diagnostics pushed after a pause, diagnostics pulled, and the other     *)
(* requests (hover, completion and so on), which all go through            *)
(* withService.                                                            *)
(*                                                                         *)
(* A job is one run of publishDiagnostics, of a pull or of a request; the  *)
(* call of the workspace with the same name is its service(token).  The    *)
(* library that keeps the documents changes one in place: who holds a      *)
(* document sees the version and the text it has now, until it is closed.  *)
(* Opening a document again makes another one, with version 1 again.  The  *)
(* texts of a document are numbered.                                       *)
(***************************************************************************)
EXTENDS Workspace

CONSTANTS Publishers,   \* the calls that may be runs of publishDiagnostics
          Requesters    \* those that may be pulls and other requests

Texts  == 0 .. MaxRevision
Result == [analysed : Texts, built : Texts]

ASSUME ServerConstants == Publishers \cup Requesters = Calls /\ None \notin Result

VARIABLES texts,              \* how many texts each document has had
          pendingDiagnostics, \* the documents a timer runs for
          activeDiagnostics,  \* the job that may publish, if any
          job,
          published,          \* what the client was sent last
          answer,             \* the reply that is leaving, if any
          scheduled           \* history: what the last event scheduled

serverVars == <<texts, pendingDiagnostics, activeDiagnostics, job, published, scheduled>>
vars == <<workspaceVars, serverVars, answer>>

NoJob  == [kind |-> "none", doc |-> None, version |-> 0, current |-> FALSE,
           closed |-> None, items |-> None]
Busy(c) == job[c].kind # "none"

Open(d) == docs[d] # None

(* The document a job holds: as it is now, or as it was when it was closed. *)
Held(c) == IF job[c].closed = None THEN docs[job[c].doc] ELSE job[c].closed

InitServer ==
    /\ InitWorkspace
    /\ texts = [d \in Docs |-> 0]
    /\ pendingDiagnostics = {}
    /\ activeDiagnostics = [d \in Docs |-> None]
    /\ job = [c \in Calls |-> NoJob]
    /\ published = [d \in Docs |-> None]
    /\ answer = None
    /\ scheduled = {}

-----------------------------------------------------------------------------
(* Events. *)

(* Mutant of Active: the job that runs may still publish. *)
ActiveNone(D) == {}

(* cancelDiagnostics: whom it cancels, and the map it leaves. *)
Active(D) == {activeDiagnostics[d] : d \in D} \ {None}
ClearActive(D) ==
    activeDiagnostics' = [d \in Docs |-> IF d \in D THEN None ELSE activeDiagnostics[d]]

(* Mutant of Started: a document whose job runs gets no timer. *)
StartedIdle(D) == {d \in D : activeDiagnostics[d] = None}

(* scheduleDiagnostics: the timers of D start again. *)
Started(D) == D
Schedule(D) ==
    /\ ClearActive(D)
    /\ pendingDiagnostics' = pendingDiagnostics \cup Started(D)
    /\ scheduled' = D
    /\ answer' = None

(* A document gets a text; a document that was not open is a new one. *)
Receive(d, version) ==
    /\ Event(Active({d}), {})
    /\ texts' = [texts EXCEPT ![d] = @ + 1]
    /\ setDocument(d, [version |-> version, text |-> texts'[d]])
    /\ Schedule({d})
    /\ UNCHANGED <<files, job, published>>

didOpen(d) == ~Open(d) /\ Receive(d, 1)
didChangeContent(d) == Open(d) /\ Receive(d, docs[d].version + 1)

didClose(d) ==
    /\ Open(d)
    /\ Event(Active({d}), {})
    /\ ClearActive({d})
    /\ pendingDiagnostics' = pendingDiagnostics \ {d}
    /\ closeDocument(d)
    /\ published' = [published EXCEPT ![d] = None]
    /\ job' = [c \in Calls |-> IF Busy(c) /\ job[c].doc = d /\ job[c].closed = None
                               THEN [job[c] EXCEPT !.closed = docs[d]] ELSE job[c]]
    /\ scheduled' = {} /\ answer' = None
    /\ UNCHANGED <<files, texts>>

(* workspaceRevision += 1 *)
NextWorkspaceRevision == job' = [c \in Calls |-> [job[c] EXCEPT !.current = FALSE]]

(* invalidateAndSchedule, after a watched file or the configuration changed. *)
invalidateAndSchedule ==
    LET D == {d \in Docs : Open(d)} IN
    /\ Event(Active(D), {})
    /\ NextWorkspaceRevision
    /\ invalidate
    /\ Schedule(D)
    /\ UNCHANGED <<docs, disk, texts, published>>

(* updateWorkspaceFolders takes the folder away and adds it again: its     *)
(* workspace is disposed and another one gets the documents.               *)
updateWorkspaceFolders ==
    LET D == {d \in Docs : Open(d)} IN
    /\ Event(Active(D), Calls)
    /\ NextWorkspaceRevision
    /\ Replace
    /\ Schedule(D)
    /\ UNCHANGED <<docs, disk, texts, published>>

(* $/cancelRequest *)
cancelRequest(c) ==
    /\ Drained
    /\ job[c].kind \in {"pull", "request"} /\ ~call[c].cancelled
    /\ call' = [call EXCEPT ![c].cancelled = TRUE]
    /\ answer' = None
    /\ UNCHANGED <<docs, revision, files, refresh, serverVars>>

-----------------------------------------------------------------------------
(* Jobs.  Each starts with the document it finds and what it remembers of  *)
(* it, and calls service(token).                                           *)

Start(c, kind, d) ==
    /\ Open(d)
    /\ Service(c)
    /\ job' = [job EXCEPT ![c] = [kind |-> kind, doc |-> d, version |-> docs[d].version,
                                  current |-> TRUE, closed |-> None, items |-> None]]
    /\ answer' = None
    /\ UNCHANGED <<texts, published, scheduled>>

(* The timer of scheduleDiagnostics; its version is the document's, which  *)
(* every change schedules again.                                           *)
publishDiagnostics(c, d) ==
    /\ d \in pendingDiagnostics
    /\ Start(c, "publish", d)
    /\ pendingDiagnostics' = pendingDiagnostics \ {d}
    /\ activeDiagnostics' = [activeDiagnostics EXCEPT ![d] = c]

onRequest(c, kind, d) ==
    /\ Start(c, kind, d)
    /\ UNCHANGED <<pendingDiagnostics, activeDiagnostics>>

(* The version computeDiagnostics compares with is that of the document it *)
(* holds; withService compares with a copy.                                *)
Remembered(c) == IF job[c].kind = "request" THEN job[c].version ELSE Held(c).version

(* Mutant of Valid: only its own cancellation and a close count. *)
ValidOpen(c) == ~call[c].cancelled /\ Open(job[c].doc)

(* The checks after each pause. *)
Valid(c) ==
    /\ ~call[c].cancelled
    /\ Open(job[c].doc) /\ docs[job[c].doc].version = Remembered(c)
    /\ job[c].current

Finish(c) ==
    /\ job' = [job EXCEPT ![c] = NoJob]
    /\ call' = [call EXCEPT ![c] = Idle]
    /\ activeDiagnostics' = [d \in Docs |-> IF activeDiagnostics[d] = c THEN None ELSE activeDiagnostics[d]]
    /\ UNCHANGED <<docs, revision, files, refresh, texts, pendingDiagnostics, scheduled>>

(* An error, no result, or an empty report. *)
Silent(c) == Finish(c) /\ answer' = None /\ UNCHANGED published

Refused(c) == call[c].at = "rejected" /\ Silent(c)

(* After the first pause: the service, and the text the document has now. *)
Analysed(c) ==
    LET source == call[c].state.sources[job[c].doc] IN
    [analysed |-> Held(c).text, built |-> IF source = None THEN 0 ELSE source.text]

Analyse(c) ==
    /\ Drained
    /\ call[c].at = "served" /\ job[c].items = None
    /\ \/ ~Valid(c) /\ Silent(c)
       \/ /\ Valid(c)
          /\ job' = [job EXCEPT ![c].items = Analysed(c)]
          /\ call' = [call EXCEPT ![c].state = None]
          /\ answer' = None
          /\ UNCHANGED <<docs, revision, files, refresh, texts, pendingDiagnostics,
                         activeDiagnostics, published, scheduled>>

(* After the second pause; publishDiagnostics looks again for itself. *)
Sendable(c) ==
    /\ Valid(c)
    /\ job[c].kind = "publish" => /\ docs[job[c].doc].version = job[c].version
                                 /\ job[c].doc \notin pendingDiagnostics

(* What leaves: the text of the version it names (a push names the one     *)
(* that is open, a pull the one its document has now), and its origin.     *)
Sent(c) ==
    [text |-> IF job[c].kind = "pull" THEN Held(c).text ELSE docs[job[c].doc].text,
     analysed |-> job[c].items.analysed, built |-> job[c].items.built]

Reply(c) ==
    /\ Drained
    /\ job[c].items # None
    /\ \/ ~Sendable(c) /\ Silent(c)
       \/ /\ Sendable(c) /\ job[c].kind = "publish"
          /\ published' = [published EXCEPT ![job[c].doc] = Sent(c)]
          /\ answer' = None
          /\ Finish(c)
       \/ /\ Sendable(c) /\ job[c].kind # "publish"
          /\ answer' = [kind |-> job[c].kind, again |-> job[c].closed # None,
                        now |-> docs[job[c].doc].text, sent |-> Sent(c)]
          /\ Finish(c)
          /\ UNCHANGED published

-----------------------------------------------------------------------------
(* Steps of the workspace leave the server as it is. *)
Outside(A) == A /\ UNCHANGED serverVars /\ answer' = None

(* The server's own work, and what comes from outside. *)
Work ==
    \/ Outside(Rebuild)
    \/ \E c \in Calls : \/ Outside(Resume(c)) \/ Outside(Leave(c))
                         \/ Refused(c) \/ Analyse(c) \/ Reply(c)
    \/ \E c \in Publishers, d \in Docs : publishDiagnostics(c, d)

Client ==
    \/ \E d \in Docs : didOpen(d) \/ didChangeContent(d) \/ didClose(d)
    \/ invalidateAndSchedule \/ updateWorkspaceFolders
    \/ \E c \in Requesters, d \in Docs, kind \in {"pull", "request"} : onRequest(c, kind, d)
    \/ \E c \in Calls : cancelRequest(c)
    \/ \E f \in Files, part \in {"own", "parts"} : Outside(Write(f, part))

Next == Work \/ Client

Spec == InitServer /\ [][Next]_vars

(* The event loop goes on for as long as something is ready.  Nobody has to *)
(* edit, ask or cancel.                                                     *)
FairSpec == Spec /\ WF_vars(Work)

-----------------------------------------------------------------------------
(* Properties. *)

Message == [text : Texts, analysed : Texts, built : Texts] \cup {None}

(* Every variable keeps its type. *)
TypeOK ==
    /\ docs \in [Docs -> Document \cup {None}]
    /\ revision \in 0 .. MaxRevision
    /\ disk \in [Files -> File] /\ noticed \in [Files -> File]
    /\ configCache \subseteq [key : 0 .. MaxWrites, value : File]
    /\ projectContext \in {None} \cup [key : 0 .. MaxWrites, value : File]
    /\ refresh # None => refresh.at \in Running
    /\ \A c \in Calls : call[c].at \in {"idle", "wait", "ready", "served", "rejected"}
    /\ \A c \in Calls : Busy(c) <=> call[c].at # "idle"
    /\ \A d \in pendingDiagnostics : Open(d)
    /\ activeDiagnostics \in [Docs -> Publishers \cup {None}]
    /\ published \in [Docs -> Message]

(* What the editor shows for a document was computed on the text it has in  *)
(* the version it is sent with, by a service built from that text, although *)
(* the document was edited, closed, opened again or invalidated meanwhile;  *)
(* and a closed document shows nothing, whatever was under way.             *)
PushedForItsText ==
    \A d \in Docs : published[d] # None =>
      /\ Open(d)
      /\ published[d].analysed = published[d].text
      /\ published[d].built = published[d].text

(* The result of a hover or another request is about the text that the      *)
(* document has when the result leaves, unless it was opened again.         *)
RequestForItsText ==
    answer # None /\ answer.kind = "request" /\ ~answer.again =>
      answer.sent.analysed = answer.now /\ answer.sent.built = answer.now

(* A document for which the last of all events asked for diagnostics gets   *)
(* them, whatever was cancelled, shared or given up before.                 *)
LastShown ==
    \A d \in Docs : <>[](Open(d) /\ d \in scheduled =>
      published[d] # None /\ published[d].text = docs[d].text)

(* server.ts:493, the last check of a pull: what is answered as the report  *)
(* of a version was computed on the text of that version.                   *)
PulledForItsText ==
    answer # None /\ answer.kind = "pull" /\ ~answer.again => answer.sent.analysed = answer.sent.text
=============================================================================
