SPECIFICATION Spec
CONSTANTS
  Fixtures <- MCFixtures
  MaxRuns = 2
  MaxFaults = 2
  MaxProbes = 2
  MaxWrong = 2
  None = None
INVARIANTS
  CertTypeOK
  ReportTellsRun
  ReportedRunsLeaveNothing
PROPERTY
  RunEnds
