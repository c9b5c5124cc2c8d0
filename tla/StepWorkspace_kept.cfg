SPECIFICATION Spec
CONSTANTS
    Files = {f1, f2}
    Steps = {1, 2, 3}
    MaxAttempts = 2
    MaxReplans = 2
    MaxStamps = 5
    Features = {"delete", "multi", "auto"}
    Created = {f2}
INVARIANTS
    ChangesAreTracked
    CompletedWorkIsInShadow
PROPERTIES
    RevertIsTrue
    AcceptDelivers
