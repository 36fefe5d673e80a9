SPECIFICATION Spec
CHECK_DEADLOCK FALSE
CONSTANTS
  None = None
  Dropped = Dropped
  Pending = Pending
  Server = {s1, s2}
  Registration = {g1, g2}
  Call = {c1}
  Configs <- MCConfigs
  Blocks <- MCBlocks
INVARIANTS
  FieldStaysTheirs
  NothingWithoutCapture
  LatestRegistrationRules
  PurposeWins
  FailsClosed
