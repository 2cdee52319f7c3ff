SPECIFICATION FairSpec
CONSTANTS
    None = None
    Host <- MCHost
    Segment <- MCSegment
    Caller = {t1, t2}
    Config <- FewConfigs
    PlainRef <- SomeRefs
    ServiceRef <- SomeRefs
    TokenOpts <- Default
    Answer <- SomeAnswers
    AppHttp <- Nothing
    AppUri <- Nothing
INVARIANTS
    RedirectsBounded
    EndpointPinsConnection
PROPERTIES
    CallsEnd
