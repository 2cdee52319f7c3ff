SPECIFICATION FairSpec
CONSTANTS
    Sessions = {"s1", "s2"}
    Hashes = {"h1", "h2"}
    None = None
    Own = "https://app/cb"
    Setups <- MCSetups
    Stores <- MCStores
    MaxHops = 1
    MaxTries = 2
INVARIANTS TypeOK CallbackAsAsked GrantIsOwn ReplayExplained
PROPERTIES CallsEnd
CHECK_DEADLOCK FALSE
