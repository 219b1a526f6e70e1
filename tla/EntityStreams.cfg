\* One request at a time and one connection, with expiries.
SPECIFICATION StreamSpec
CONSTANTS
    Entities = {e1}
    Workers = {w1, s1}
    Streams = {s1}
    Times = {}
    Expiries = {1}
    Horizon = 2
    PublishedValues = {"p1"}
    OverrideValues = {}
    Paths = {}
    Sent <- MCSent
    EnforceSourceTime = TRUE
    MaxClock = 1
    MaxEvents = 4
    Absent = Absent
    NoBase = NoBase
    NoRow = NoRow
    Idle = Idle
    Untold = Untold
INVARIANTS
    StreamTypeOK
    FollowerInStep
