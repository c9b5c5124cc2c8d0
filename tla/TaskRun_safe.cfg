SPECIFICATION FairSpec
CONSTANTS
    NSteps = 3
    MaxAttempts = 2
    MaxReplans = 2
    MaxIterations = 6
    MaxTurns = 2
    Timeouts = {"scope"}
    Requests = {"abort", "pref"}
    AutoAccept = {TRUE, FALSE}
INVARIANTS
    TypeOK
    GateIsAnswerable
    ParkedCopyIsCurrent
    ShadowHeld
    ReviewIsActionable
    NothingLeftBehind
PROPERTIES
    TerminalIsFinal
    LifeSpec
    RunComesToRest
