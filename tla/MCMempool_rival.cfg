SPECIFICATION Spec
CONSTANTS
  par = par
  kid = kid
  both = both
  iss = iss
  riv = riv
  rei = rei
  again = again
  cb = cb
  use = use
  N = N
  M = M
  Base = Base
  None = None
  Children = TRUE
  Tx <- MCTx
  vin <- MCvin
  Fee <- MCFee
  Coinbase = {cb}
  Standard = {par, kid, both, iss, riv, rei, again, use}
  Signals = {par, kid, both}
  LockHeight <- MCLockHeight
  Issue <- MCIssue
  Reissue <- MCReissue
  BaseAssets = {M}
  Block <- MCBlocks
  EnableReplacement = TRUE
  MinRelayFee = 1
  AncestorLimit = 3
  DescendantLimit = 3
  MaxMempool = 4
  MaxDisconnected = 3
  MaxHeight = 2
  Prioritised = {kid}
  MaxRestarts = 1
INVARIANT InputsAvailable

CHECK_DEADLOCK FALSE
