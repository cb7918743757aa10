SPECIFICATION Spec
CONSTANTS
    good = good
    slow = slow
    g = g
    a1 = a1
    a2 = a2
    a3 = a3
    y3 = y3
    None = None
    Peer = {good, slow}
    Prompt = {good}
    Best <- MCBest
    Block <- MCBlock
    Genesis = g
    Parent <- MCParent
    Offered = {a1, y3}
    Kinds <- MCKinds
    Bad = {y3}
    Recent = {a2, a3, y3}
    Near = {a2, a3, y3}
    Submitted = {a1}
    MAX_BLOCKS_IN_TRANSIT_PER_PEER = 2
    BLOCK_DOWNLOAD_WINDOW = 2
    MAX_HEADERS_RESULTS = 2
    nMinimumChainWork = 2
    MaxConnections = 1
INVARIANTS
    AccountsExact
    StallersOwe
    LastCommonLinked
CHECK_DEADLOCK FALSE
PROPERTY Synced
