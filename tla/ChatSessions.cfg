CONSTANTS
    m = m
    Turns = {t1, t2}
    Models = {m}
    NoModel = NoModel
    None = None
    MaxCuts = 1
SPECIFICATION FairSpec
INVARIANTS StoredReplyIsOneReply ReopenedSessionKnowsTheChat
PROPERTIES OrphansAreReleased StreamsEnd
CHECK_DEADLOCK FALSE
