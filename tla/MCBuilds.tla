------------------------------ MODULE MCBuilds ------------------------------
(* The two builds of the runtime on one executor, in behaviours of their    *)
(* own: with asynchronous context, where root calls wait for each other,    *)
(* and the browser's, where overlap is refused (Statements, Conservative).  *)
EXTENDS MCScopes

VARIABLE build

Browser == INSTANCE Scopes WITH Conservative <- TRUE, Faults <- Broken

BuildsInit ==
    \/ build = "node" /\ Init
    \/ build = "browser" /\ Browser!Init

BuildsNext ==
    /\ UNCHANGED build
    /\ \/ build = "node" /\ Next
       \/ build = "browser" /\ Browser!Next

Builds == BuildsInit /\ [][BuildsNext]_<<vars, build>>
=============================================================================
