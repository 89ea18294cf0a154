\* Pushed diagnostics of two documents, and liveness; no symmetry.
SPECIFICATION FairSpec
CONSTANTS
    None = None
    Docs = {d1, d2}
    Present = {"project"}
    Calls = {c1, c2}
    Publishers = {c1, c2}
    Requesters = {}
    MaxRevision = 4
    MaxWrites = 0
INVARIANTS
    PushedForItsText
PROPERTIES
    LastShown
CHECK_DEADLOCK FALSE
