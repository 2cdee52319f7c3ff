SPECIFICATION Spec
CONSTANTS
    None = None
    Host <- MCHost
    Segment <- MCSegment
    Caller = {t1}
    Config <- AllConfigs
    PlainRef <- AllRefs
    ServiceRef <- AllRefs
    TokenOpts <- AllOpts
    Answer <- AllAnswers
    AppHttp <- AllHttp
    AppUri <- AllUri
INVARIANTS
    TypeOK
    StaysOnOneOrigin
    SignedForConnection
PROPERTIES
    ServiceCallRestores
