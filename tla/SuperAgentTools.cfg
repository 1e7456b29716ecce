SPECIFICATION ToolsSpec
INVARIANT OfferedToolsAreKnown
CHECK_DEADLOCK FALSE
