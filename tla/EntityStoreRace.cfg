\* Two requests publish, sweep and override one entity, its time in a nested object.
SPECIFICATION Spec
CONSTANTS
    Entities = {e1}
    Workers = {w1, w2}
    Times = {1, 2}
    Expiries = {1}
    Horizon = 2
    PublishedValues = {}
    OverrideValues = {}
    Paths = {"isLive", "time"}
    Sent <- MCSentBases
    EnforceSourceTime = TRUE
    MaxClock = 1
    MaxEvents = 3
    Absent = Absent
    NoBase = NoBase
    NoRow = NoRow
    Idle = Idle
SYMMETRY Symmetry
INVARIANTS
    TypeOK
    StoredWasTold
    AnnouncedOnce
    OverrideStands
PROPERTIES
    FreshCommits
