\* One REST thread, one task, two agents and a listener without a name.
SPECIFICATION DeliverySpec
CONSTANTS
    Tasks = {t1}
    Agents = {"a1", "a2"}
    RestWorkers = {r1}
    GrpcWorkers = {}
    ClientStatuses = {}
    Versions = {}
    EnforceGrpcVersion = TRUE
    MaxEvents = 4
    MaxRestarts = 1
    Absent = Absent
    NoRow = NoRow
    Idle = Idle
INVARIANTS
    DeliveryTypeOK
    HandedInOrder
    ExecuteHandedFirst
    RepeatsNeedRestarts
PROPERTY
    EveryRequestHanded
