\* Two REST threads on one task.
SPECIFICATION Spec
CONSTANTS
    Tasks = {t1}
    Agents = {"a1"}
    RestWorkers = {r1, r2}
    GrpcWorkers = {}
    ClientStatuses = {"STATUS_EXECUTING", "STATUS_DONE_OK"}
    Versions = {0, 2}
    EnforceGrpcVersion = TRUE
    MaxEvents = 5
    Absent = Absent
    NoRow = NoRow
    Idle = Idle
SYMMETRY RestSymmetry
INVARIANTS
    TypeOK
    TerminalMatchesLog
    RowIsLastEvent
    CreatedOnce
    ExecuteBeforeCancel
PROPERTY
    OnlyStaleReadsHarm
    PhasesImplemented
