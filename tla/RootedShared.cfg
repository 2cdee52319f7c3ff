SPECIFICATION Spec
CONSTANTS
    None = None
    Host <- MCHost
    Segment <- MCSegment
    Caller = {t1, t2}
    Config <- PathConfigs
    PlainRef <- OnlyA
    ServiceRef <- OnlyA
    TokenOpts <- Default
    Answer <- AllAnswers
    AppHttp <- Nothing
    AppUri <- Nothing
INVARIANTS
    RelativeReachesSite
    SignedForConnection
PROPERTIES
    ImplementsPromise
