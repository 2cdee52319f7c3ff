SPECIFICATION Spec
CONSTANTS
    None = None
    Host <- MCHost
    Segment <- MCSegment
    Caller = {t1}
    Config <- PathConfigs
    PlainRef <- OnlyA
    ServiceRef <- AllRefs
    TokenOpts <- Default
    Answer <- AllAnswers
    AppHttp <- Nothing
    AppUri <- Nothing
INVARIANTS
    RelativeReachesSite
    RootIsSiteAtRest
PROPERTIES
    ImplementsPromise
