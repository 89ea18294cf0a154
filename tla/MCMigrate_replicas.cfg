\* Three programs that apply or repair, on every engine.
SPECIFICATION Spec
CONSTANTS
    p1 = p1
    p2 = p2
    p3 = p3
    Null = Null
    Runners <- ThreeRunners
    Manifests <- Branches
    Engines <- AllEngines
    Ops <- Applies
    Off <- Bare
    MaxFaults <- OnceUnlocked
SYMMETRY Symmetry
INVARIANTS
    StartedOnce
    Evidence
    Atomic
    Ordered
PROPERTIES
    NothingPartial
