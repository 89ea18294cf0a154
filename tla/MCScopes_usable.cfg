\* A transaction queued behind another one, and a session after both.
SPECIFICATION Spec
CONSTANTS
    c1 = c1
    c2 = c2
    c3 = c3
    c4 = c4
    k1 = k1
    k2 = k2
    Root = Root
    None = None
    Calls <- ThreeCalls
    Conns <- OneConn
    Pooled = FALSE
    Conservative = FALSE
    Kinds <- ScopesOnly
    Faults <- NoFaults
    Rules <- AllRules
SYMMETRY Symmetry
INVARIANTS
    UsableHandle
