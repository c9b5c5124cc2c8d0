SPECIFICATION FairSpec
CONSTANTS
    MaxTurns = 3
    MaxEdits = 2
    MaxIters = 3
    MaxMalformed = 1
    Requests = {"stop", "stopearly", "timeout", "restart"}
INVARIANTS
    TypeOK
    ActiveIsLive
    GateHasOwner
    EditsAreOnRecord
    PromotedIsRemembered
    RelaysEnd
PROPERTIES
    TurnSettles
