\* A REST thread, a gRPC server, and one connection.
SPECIFICATION StreamSpec
CONSTANTS
    Tasks = {t1}
    Agents = {"a1"}
    RestWorkers = {r1}
    GrpcWorkers = {g1}
    ClientStatuses = {}
    Versions = {}
    EnforceGrpcVersion = FALSE
    MaxEvents = 4
    Streams = {s1}
    Absent = Absent
    NoRow = NoRow
    Idle = Idle
    Unknown = Unknown
INVARIANTS
    StreamTypeOK
    FollowerInStep
    AgentToldOfCancel
PROPERTY
    EachEventTold
