SPECIFICATION Spec
CONSTANTS
    None = None
    Host <- MCHost
    Segment <- MCSegment
    Caller = {t1}
    Config <- FullConfig
    PlainRef <- NoRefs
    ServiceRef <- NoRefs
    TokenOpts <- Default
    Answer <- SiteAnswers
    AppHttp <- Nothing
    AppUri <- Nothing
INVARIANTS FollowedWithinOrigin
