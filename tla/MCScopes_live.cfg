\* Liveness on one executor, no symmetry.
SPECIFICATION FairSpec
CONSTANTS
    c1 = c1
    c2 = c2
    c3 = c3
    c4 = c4
    k1 = k1
    k2 = k2
    Root = Root
    None = None
    Calls <- ThreeCalls
    Conns <- OneConn
    Pooled = FALSE
    Conservative = FALSE
    Kinds <- AllKinds
    Faults <- Untidy
    Rules <- AllRules
INVARIANTS
    Ownership
PROPERTIES
    Answered
