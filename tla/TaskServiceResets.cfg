CONSTANTS
    a = a b = b c = c d = d f1 = f1 f2 = f2
    Workers = {w1, w2}
    Tasks = {a, b, f1, f2}
    NoTask = NoTask NoWorker = NoWorker
    Deps <- Mixed
    Rank <- MixedRank
    Title <- MixedTitle
    InitialStatus <- MixedStatus
    Ops = {"select", "initial", "reset_all", "reset", "retry", "follow_up"}
    StorageFails = TRUE
SPECIFICATION Spec
INVARIANTS ChosenTaskStaysReady
CHECK_DEADLOCK FALSE
