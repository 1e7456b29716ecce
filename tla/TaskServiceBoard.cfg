CONSTANTS
    a = a b = b c = c d = d f1 = f1 f2 = f2
    Workers = {w1, w2, w3}
    Tasks = {a, b, c, d}
    NoTask = NoTask NoWorker = NoWorker
    Deps <- Fork
    Rank <- ForkRank
    Title <- OwnTitle
    InitialStatus <- ForkStatus
    Ops = {"select", "initial", "retry_failed", "follow_up"}
    StorageFails = TRUE
SPECIFICATION Spec
INVARIANT ClaimsAreExclusive
PROPERTY ImplementsBoard
CHECK_DEADLOCK FALSE
