\* Templates, migration files and releases.
SPECIFICATION Tools
CONSTANTS
    Names <- MCNames
    Deps <- MCDeps
    Candidates <- MCCandidates
    Worlds <- MCWorlds
    MaxEvents = 4
    MaxStages = 3
    Rerunnable = {"skipped"}
    Subjects <- MCSubjects
    ResultKind = "rows"
    MaxBinds = 4
    MaxItems = 4
    MaxNesting = 4
INVARIANTS
    OneStage
    NothingForgotten
    Verifiable
    RendersActive
    BindsStayLive
    SameHoweverBuilt
    SplitsAsWritten
CHECK_DEADLOCK FALSE
