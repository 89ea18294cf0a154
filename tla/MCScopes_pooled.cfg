\* A pool of two leases, three calls, everything may fail.
SPECIFICATION Spec
CONSTANTS
    c1 = c1
    c2 = c2
    c3 = c3
    c4 = c4
    k1 = k1
    k2 = k2
    Root = Root
    None = None
    Calls <- ThreeCalls
    Conns <- TwoConns
    Pooled = TRUE
    Conservative = FALSE
    Kinds <- AllKinds
    Faults <- AllFaults
    Rules <- AllRules
SYMMETRY Symmetry
INVARIANTS
    CleanReturn
    OneHolder
    NoEscape
    UsableHandle
PROPERTIES
    PoisonQuarantine
