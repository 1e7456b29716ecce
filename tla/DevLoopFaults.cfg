CONSTANTS
    Requests = {r1, r2}
    Instances = {i1}
    None = None
    Faults = {"stop", "stream", "finish", "close", "drop", "crash"}
SPECIFICATION FairSpec
PROPERTIES StopRemovesWhatItSelected EndedStreamIsCleanedUp
CHECK_DEADLOCK FALSE
