\* A publisher and a connection.
SPECIFICATION StreamSpec
CONSTANTS
    Entities = {e1}
    Workers = {w1, s1}
    Streams = {s1}
    Times = {}
    Expiries = {}
    Horizon = 2
    PublishedValues = {"p1"}
    OverrideValues = {}
    Paths = {}
    Sent <- MCSent
    EnforceSourceTime = TRUE
    MaxClock = 0
    MaxEvents = 3
    Absent = Absent
    NoBase = NoBase
    NoRow = NoRow
    Idle = Idle
    Untold = Untold
INVARIANTS
    NoUpdateDropped
