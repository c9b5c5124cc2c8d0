SPECIFICATION Spec
CONSTANTS
    MaxTurns = 3
    MaxEdits = 1
    MaxIters = 2
    MaxMalformed = 1
    Requests = {"restart"}
PROPERTIES
    ReviewIsHonoured
