SPECIFICATION Spec
CONSTANTS
  r = r
  s = s
  Key <- MCKey
  Sub <- MCSub
  Root <- MCRoot
  MaxBlocks = 3
  MaxCrashes = 1
INVARIANTS AnswersExact DiskFollowsChain
PROPERTY FlushInvisible
CHECK_DEADLOCK FALSE
