CONSTANTS
    c1 = c1 c2 = c2 c3 = c3 k1 = k1 k2 = k2 ig = ig cond = cond a = a b = b
    None = None
    Callers = {c1, c2}
    Ttl = 2
    MaxAge = 4
    EvictEvery = 2
    MaxPeriod = 2
    Editors = {c1, c2}
    Nodes = {ig, cond, a, b}
    Ignition = {ig}
    Condition = {cond}
    MaxConns = 4
    MaxEdits = 1
    Chats = {c1, c2, c3}
    Storage = Storage
    MaxTools = 1
    StoredTools = 2
    MaxTurns = 2
    MaxTruncations = 2
    Clients = {c1, c2}
    Keys = {k1, k2}
    NoKey = NoKey
    MaxChanges = 3
    Users = {c1, c2}
    Projects = {k1, k2}
    First = k1
    MaxRequests = 3
    MaxServers = 3
    AtOnce = 2
SYMMETRY OtherNodes
SPECIFICATION Spec
INVARIANTS AcceptedIsRecent QuietEditsHold ToolUsesAreAnswered LoneTurnsAreRemembered
    QuietEditsAreMirrored CallsSeeQuietEdits NoBindingIsOrphaned LastWishHolds
    OfferedCallsAreServed EveryServerIsToldOf ResultsAreTrue
    SortCountsNodes UpstreamFirst OutcomeIsAsDefined
CHECK_DEADLOCK FALSE
