CONSTANTS
    i = i j = j s = s t = t f = f g = g
    Loops = {i}
    Tasks = {s, t}
    None = None
    Capacity = 2
    MaxRuns = 3
    MaxPieces = 1
    Followers = {f, g}
    MaxSpent = 2
    Tools = {s, t}
    NoTool = NoTool
    MaxLines = 3
    Backlog = 2
    Workers = {f, g}
    MaxEdits = 3
    LastRun = 2
    Sockets = {f, g}
    NoSocket = None
    MaxOutput = 4
    ChannelSize = 2
SPECIFICATION FairSpec
INVARIANTS IntactRunIsSaved RecordsAreTrue StoredTurnIsWhole
PROPERTIES EndedRunIsSaved TurnEnds EnabledJobRuns ServedTerminalIsReleased
CHECK_DEADLOCK FALSE
