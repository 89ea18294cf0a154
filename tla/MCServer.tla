------------------------------ MODULE MCServer ------------------------------
(* Two editors, in behaviours of their own: one has two documents open and  *)
(* waits for what is pushed; the other has one, asks for more meanwhile,    *)
(* cancels, and changes the files of its workspace.                         *)
EXTENDS LanguageServer

CONSTANTS d1, d2, c1, c2

VARIABLE editor

Asking ==
    INSTANCE LanguageServer
        WITH Publishers <- {c1}, Requesters <- {c2}, Present <- {"config", "project"},
             MaxRevision <- 3, MaxWrites <- 1

EditorsInit ==
    \/ editor = "waiting" /\ InitServer
    \/ editor = "asking" /\ Asking!InitServer

(* The second document is never opened by the editor that asks. *)
AskingNext == Asking!Next /\ docs'[d2] = None

EditorsNext ==
    /\ UNCHANGED editor
    /\ \/ editor = "waiting" /\ Next
       \/ editor = "asking" /\ AskingNext

(* The event loop goes on, as in FairSpec; an editor may ask for ever. *)
Editors ==
    /\ EditorsInit /\ [][EditorsNext]_<<vars, editor>>
    /\ WF_vars(editor = "waiting" /\ Work)

(* The editor that waits is shown what its last event asked for, whatever   *)
(* was cancelled, shared or given up before (LanguageServer, LastShown).    *)
WaiterShown == editor = "waiting" => LastShown
=============================================================================
