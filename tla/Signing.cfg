SPECIFICATION Spec
CONSTANTS
    AppName  <- MCName
    AppValue <- MCValue
    Input    <- AllInputs
    MaxSigns = 2
    MaxSends = 2
CHECK_DEADLOCK FALSE
INVARIANTS
    TypeOK
    VerifiesExactly
    NoNewLife
    RequestArrives
