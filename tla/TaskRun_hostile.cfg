SPECIFICATION Spec
CONSTANTS
    NSteps = 3
    MaxAttempts = 2
    MaxReplans = 2
    MaxIterations = 6
    MaxTurns = 2
    Timeouts = {"scope"}
    Requests = {"cancel", "abort", "pref", "early"}
    AutoAccept = {TRUE, FALSE}
INVARIANTS
    BaselineHeld
    OneCoroutine
    RunningIsMarked
PROPERTIES
    AbortBeginsNoStep
