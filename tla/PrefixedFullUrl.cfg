SPECIFICATION Spec
CONSTANTS
    None = None
    Host <- MCHost
    Segment <- MCSegment
    Caller = {t1}
    Config <- SameHost
    PlainRef <- NoRefs
    ServiceRef <- NoRefs
    TokenOpts <- Default
    Answer <- Nothing
    AppHttp <- Nothing
    AppUri <- Nothing
INVARIANTS FullUrlKeepsPath
