SPECIFICATION Spec
CONSTANTS
    AppName  <- MCName
    AppValue <- MCValue
    Input    <- PatchInput
    MaxSigns = 1
    MaxSends = 1
CHECK_DEADLOCK FALSE
INVARIANTS
    PatchVerifies
