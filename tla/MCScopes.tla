------------------------------ MODULE MCScopes ------------------------------
(* Small instances of Scopes for TLC. *)
EXTENDS Scopes, TLC

CONSTANTS c1, c2, c3, c4, k1, k2

ThreeCalls == {c1, c2, c3}
FourCalls  == {c1, c2, c3, c4}
OneConn    == {k1}
TwoConns   == {k1, k2}

AllKinds   == Kind
ScopesOnly == {"tx", "session"}

AllFaults  == Fault
NoFaults   == {}
Untidy     == {"cleanup"}
Broken     == {"control"}

\* Programs that keep to all rules but one.
AllRules    == Rule
Overlapping == Rule \ {"siblings"}

Symmetry == Permutations(Calls)
=============================================================================
