\* One request at a time publishes, sweeps, overrides and restores.
SPECIFICATION Spec
CONSTANTS
    Entities = {e1, e2}
    Workers = {w1}
    Times = {1, 2}
    Expiries = {1}
    Horizon = 2
    PublishedValues = {}
    OverrideValues = {"o1"}
    Paths = {"isLive", "time", "field"}
    Sent <- MCSent
    EnforceSourceTime = TRUE
    MaxClock = 1
    MaxEvents = 3
    Absent = Absent
    NoBase = NoBase
    NoRow = NoRow
    Idle = Idle
SYMMETRY EntitySymmetry
INVARIANTS
    DeletedOncePerLife
    LastEventIsStored
PROPERTY RegisterImplemented
