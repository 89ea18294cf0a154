\* Two programs and every operation; no symmetry, for liveness.
SPECIFICATION FairSpec
CONSTANTS
    p1 = p1
    p2 = p2
    p3 = p3
    Null = Null
    Runners <- TwoRunners
    Manifests <- Releases
    Engines <- AllEngines
    Ops <- AllOps
    Off <- Bare
    MaxFaults <- Twice
PROPERTIES
    Settles
