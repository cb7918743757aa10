SPECIFICATION FairSpec
CONSTANTS
  g = g
  a1 = a1
  a2 = a2
  a3 = a3
  b1 = b1
  b2 = b2
  c2 = c2
  None = None
  Shape = "small"
  BadContext = {}
  BadConnect = {a2}
  Thread = {"msg", "rpc"}
  MinBlocksToKeep = 2
  MinimumChainWork = 0
  MaxReorgDepth = 60
  Guarded = FALSE
  Commands = {"invalidate", "reconsider", "precious"}
  MaxCommands = 1
  MaxSequenceId = 8
  Genesis = g
  Block <- MCBlock
  Parent <- MCParent
  Height <- MCHeight
  Work <- MCWork
  Addr <- MCAddr
PROPERTY ActivationReturns

CHECK_DEADLOCK FALSE
