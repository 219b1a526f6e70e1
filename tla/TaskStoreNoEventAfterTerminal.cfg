\* A REST thread beside the gRPC server.
SPECIFICATION Spec
CONSTANTS
    Tasks = {t1}
    Agents = {"a1"}
    RestWorkers = {r1}
    GrpcWorkers = {g1}
    ClientStatuses = {"STATUS_EXECUTING"}
    Versions = {1, 2}
    EnforceGrpcVersion = TRUE
    MaxEvents = 6
    Absent = Absent
    NoRow = NoRow
    Idle = Idle
INVARIANT
    NoEventAfterTerminal
