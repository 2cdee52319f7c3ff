SPECIFICATION FairSpec
CONSTANTS
    Pages <- MCPages
    None = None
    Hashes = {"part"}
    NoHash = ""
    AboutBlank = AboutBlank
    Full = 1
    Entries <- MCEntries
    Order <- MCOrder
    Above <- MCAbove
    Folded <- MCFolded
    Queries = {"o", "co"}
    Blank = ""
    Hits <- MCHits
    Batch = 1
    MaxMoves = 3
    MaxFailures = 2
INVARIANTS TypeOK AddressAgrees ContentAgrees NavAgrees BarAtRest SearchExact
PROPERTIES LatestWins ClickedStaysInSight Arrives BarEnds SearchEnds
CHECK_DEADLOCK FALSE
