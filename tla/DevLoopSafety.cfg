CONSTANTS
    Requests = {r1, r2, r3}
    Instances = {i1}
    None = None
    Faults = {"status", "attach"}
SPECIFICATION Spec
SYMMETRY InterchangeableRequests
INVARIANTS SessionAndAgentAreServed RunningLoopIsFollowed
CHECK_DEADLOCK FALSE
