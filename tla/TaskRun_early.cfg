SPECIFICATION Spec
CONSTANTS
    NSteps = 2
    MaxAttempts = 2
    MaxReplans = 1
    MaxIterations = 3
    MaxTurns = 1
    Timeouts = {"scope"}
    Requests = {"early"}
    AutoAccept = {TRUE, FALSE}
PROPERTIES
    TerminalIsFinal
