SPECIFICATION Spec
CONSTANTS
    Key   <- MCKey
    Text  <- MCTexts
    Realm <- MCRealm
CHECK_DEADLOCK FALSE
INVARIANTS
    TypeOK
    EscapeIsUndone
    RaisesOnOddRealm
    ParametersArrive
