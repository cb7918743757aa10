SPECIFICATION Spec
CONSTANTS
  g = g
  a1 = a1
  a2 = a2
  a3 = a3
  b1 = b1
  b2 = b2
  c2 = c2
  None = None
  Shape = "forked"
  BadContext = {}
  BadConnect = {}
  Thread = {"msg"}
  MinBlocksToKeep = 1
  MinimumChainWork = 0
  MaxReorgDepth = 60
  Guarded = FALSE
  Commands = {"prune", "precious", "restart"}
  MaxCommands = 3
  MaxSequenceId = 9
  Genesis = g
  Block <- MCBlock
  Parent <- MCParent
  Height <- MCHeight
  Work <- MCWork
  Addr <- MCAddr
INVARIANTS ReceiptConsistent StoredIsLinked UnlinkedExact

CHECK_DEADLOCK FALSE
