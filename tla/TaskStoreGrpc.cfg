\* A gRPC server alone: one handler at a time, two tasks.
SPECIFICATION Spec
CONSTANTS
    Tasks = {t1, t2}
    Agents = {"a1"}
    RestWorkers = {}
    GrpcWorkers = {g1}
    ClientStatuses = {"STATUS_EXECUTING", "STATUS_DONE_OK"}
    Versions = {1, 2, 3}
    EnforceGrpcVersion = TRUE
    MaxEvents = 5
    Absent = Absent
    NoRow = NoRow
    Idle = Idle
INVARIANTS
    ColumnsAgree
PROPERTY
    LifecycleImplemented
