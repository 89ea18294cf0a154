\* One executor shared by four calls, in both builds; cleanup or control may fail.
SPECIFICATION Builds
CONSTANTS
    c1 = c1
    c2 = c2
    c3 = c3
    c4 = c4
    k1 = k1
    k2 = k2
    Root = Root
    None = None
    Calls <- FourCalls
    Conns <- OneConn
    Pooled = FALSE
    Conservative = FALSE
    Kinds <- AllKinds
    Faults <- Untidy
    Rules <- AllRules
SYMMETRY Symmetry
INVARIANTS
    TypeOK
    PhysicalExclusion
    InOwnTransaction
    EndsAlone
    UsableInTransaction
