\* The event loop and two threads, two objects one of which may be a directory
\* of the other's, and the process may die.
SPECIFICATION Spec
SYMMETRY ThreadSymmetry
VIEW WithoutAnswer
CONSTANTS
    Paths <- MCPaths
    Beneath <- MCBeneath
    Contents = {c1}
    Loop = Loop
    Threads = {w1, w2}
    MaxEvents = 3
    NoRow = NoRow
    NoFile = NoFile
    Torn = Torn
    Idle = Idle
INVARIANTS
    ObjectTypeOK
    FileMatchesRow
    LogTellsLives
PROPERTY
    AnswerIsWhole
\* The bound on events stops the requests.
CHECK_DEADLOCK FALSE
