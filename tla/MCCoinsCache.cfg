SPECIFICATION Spec
CONSTANTS
  o1 = o1
  o2 = o2
  c1 = c1
  c2 = c2
  cU = cU
  b1 = b1
  b2 = b2
  Spent = Spent
  Null = Null
  Outpoint <- MCOutpoint
  Coin <- MCCoin
  Unspendable <- MCUnspendable
  Block <- MCBlock
INVARIANTS TypeOK FlagsTruthful NoLogicError
PROPERTY ImplementsView
