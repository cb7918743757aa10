SPECIFICATION Spec
CONSTANTS
  A = A
  B = B
  h = h
  h2 = h2
  v = v
  w = w
  None = None
  Gone = Gone
  Asset = {A, B}
  Restricted = {A}
  Units = {0, 1}
  Hash = {h, h2}
  Verifier = {v, w}
  Block <- OneEach
  Relayed <- Pooled
  MaxBlocks = 3
INVARIANTS AssetsExact AcceptsExactly CachesAgree
CHECK_DEADLOCK FALSE
