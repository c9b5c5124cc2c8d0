SPECIFICATION Spec
CONSTANTS
    Files = {f1, f2}
    Steps = {1, 2}
    MaxAttempts = 2
    MaxReplans = 2
    MaxStamps = 4
    Features = {"delete", "multi", "command", "discard", "auto", "partial", "torn", "stale"}
    Created = {f2}
INVARIANTS
    TypeOK
    NoUnreviewedChange
    CompletedIsPromoted
PROPERTIES
    AttemptsStartAlike
    DiscardRestores
