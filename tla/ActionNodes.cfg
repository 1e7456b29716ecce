CONSTANTS
    LastNode = 2
    MaxParts <- FirstSplits
    MaxConcurrency = 1
    OutputFile <- DefaultFile
SPECIFICATION FairSpec
INVARIANTS OwnOutputIsKept OutputIsReadAfterTheEnd
PROPERTIES NodesEnd
CHECK_DEADLOCK FALSE
