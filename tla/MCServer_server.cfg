\* Pushed diagnostics of two documents; requests beside pushes and changing
\* files; liveness, so no symmetry.
SPECIFICATION Editors
CONSTANTS
    None = None
    d1 = d1
    d2 = d2
    c1 = c1
    c2 = c2
    Docs = {d1, d2}
    Present = {"project"}
    Calls = {c1, c2}
    Publishers = {c1, c2}
    Requesters = {}
    MaxRevision = 4
    MaxWrites = 0
INVARIANTS
    PushedForItsText
    RequestForItsText
PROPERTIES
    ServedCurrent
    WaiterShown
CHECK_DEADLOCK FALSE
