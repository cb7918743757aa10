SPECIFICATION Spec
CONSTANTS
  g = g
  a1 = a1
  a2 = a2
  a3 = a3
  b1 = b1
  b2 = b2
  c2 = c2
  None = None
  Shape = "full"
  BadContext = {b2}
  BadConnect = {a3}
  Thread = {"msg"}
  MinBlocksToKeep = 2
  MinimumChainWork = 3
  MaxReorgDepth = 2
  Guarded = TRUE
  Commands = {"invalidate", "precious", "restart"}
  MaxCommands = 2
  MaxSequenceId = 8
  Genesis = g
  Block <- MCBlock
  Parent <- MCParent
  Height <- MCHeight
  Work <- MCWork
  Addr <- MCAddr
INVARIANTS TypeOK CandidatesExact UnlinkedExact FailedHasReason NoAssertFails NoFailedInChain BestChainActive

CHECK_DEADLOCK FALSE
