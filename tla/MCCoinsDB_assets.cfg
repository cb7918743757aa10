SPECIFICATION Spec
CONSTANTS
  g = g
  a1 = a1
  a2 = a2
  b1 = b1
  b2 = b2
  o1 = o1
  o2 = o2
  o3 = o3
  Spent = Spent
  Null = Null
  MaxCrashes = 2
  Genesis = g
  Block <- MCBlock
  Parent <- MCParent
  Height <- MCHeight
  Outpoint <- MCOutpoint
  Creates <- MCCreates
  Spends <- MCSpends
INVARIANTS AssetsFollowChain
