SPECIFICATION Spec
CONSTANTS
    AppName  <- MCName
    AppValue <- Values
    Input    <- AllInputs
CHECK_DEADLOCK FALSE
INVARIANTS
    TypeOK
    VerifiesExactly
    RepeatedNamesAgree
