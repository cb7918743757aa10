SPECIFICATION FairSpec
CONSTANTS
  w1 = w1
  w2 = w2
  m1 = m1
  m2 = m2
  None = None
  Worker <- TwoWorkers
  Master <- TwoMasters
  BatchSize = 2
  MaxChecks = 4
  MaxSessions = 2
INVARIANTS TypeOK TodoExact VerdictCorrect SessionIsolated MasterNotStranded
PROPERTY WaitReturns
CHECK_DEADLOCK FALSE
