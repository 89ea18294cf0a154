\* Requests beside pushes, and changing files.
SPECIFICATION Spec
CONSTANTS
    None = None
    Docs = {d1}
    Present = {"config", "project"}
    Calls = {c1, c2}
    Publishers = {c1}
    Requesters = {c2}
    MaxRevision = 3
    MaxWrites = 1
INVARIANTS
    RequestForItsText
PROPERTIES
    ServedCurrent
CHECK_DEADLOCK FALSE
