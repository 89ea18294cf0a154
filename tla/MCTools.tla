------------------------------ MODULE MCTools ------------------------------
(* What works on text and packages, and needs no database: in behaviours of *)
(* their own, a template is written, built and rendered, a migration file   *)
(* is split (both MCTemplate), or a candidate is released.                  *)
EXTENDS Release, MCTemplate

----------------------------------------------------------------------------
(* Candidates: b depends on a, and both on core, which is public already.   *)
(* They are released alone, as a prerelease or not, or together as they     *)
(* once were.                                                              *)
MCNames == <<"b", "a">>
MCDeps == [b |-> {"a"}, a |-> {}]

MCCandidates ==
    {[release |-> {"b"}, prerelease |-> FALSE, legacy |-> FALSE],
     [release |-> {"a"}, prerelease |-> TRUE, legacy |-> FALSE],
     [release |-> {"a", "b"}, prerelease |-> TRUE, legacy |-> TRUE]}

At(latest) == [bytes |-> "none", latest |-> latest, next |-> None]

(* Each package has been published before, and a is perhaps public at this *)
(* version already, under its tag or not.                                  *)
MCWorlds ==
    {[b |-> At(Older), a |-> At(Older)],
     [b |-> At(Older), a |-> [bytes |-> "mine", latest |-> This, next |-> None]],
     [b |-> At(Older), a |-> [bytes |-> "mine", latest |-> Older, next |-> None]]}

----------------------------------------------------------------------------
text == <<template, migration>>

NoRelease ==
    /\ candidate = CHOOSE c \in Candidates : TRUE
    /\ registry = CHOOSE w \in Worlds : TRUE
    /\ job = Idle /\ memory = NoJournal /\ disk = NoJournal /\ meddled = 0
    /\ runs = <<>> /\ stages = <<>>

ToolsInit ==
    \/ Init /\ Quiet
    \/ NoRelease /\ ReadingInit

ToolsNext ==
    \/ runs # <<>> /\ Next /\ UNCHANGED text
    \/ ReadingNext /\ UNCHANGED vars

Tools == ToolsInit /\ [][ToolsNext]_<<vars, text>>
=============================================================================
