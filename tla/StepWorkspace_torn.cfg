SPECIFICATION Spec
CONSTANTS
    Files = {f1, f2}
    Steps = {1, 2, 3}
    MaxAttempts = 2
    MaxReplans = 0
    MaxStamps = 5
    Features = {"torn"}
    Created = {f2}
PROPERTIES
    AcceptDelivers
