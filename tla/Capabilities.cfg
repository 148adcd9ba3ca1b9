CONSTANTS
  Candidates = {c1, c2, c3}
  Capabilities = {reduce}
  Texts = {text}
  Reviewers = {v1, v2}
  Numbers = {1, 2}
  None = None
  Sessions = {s1, s2}
  Reduce = reduce
  Other = other
  Target = target
  Limit = limit
  Names = {target, limit}
  Kinds = {reduce, other}
  Contracts <- MCContracts
SPECIFICATION CapabilitiesSpec
INVARIANTS
  ActivationsCitePromoted
  LoweredUnderContract
  ActivationIsAllOrNothing
  HistoryIsTruthful
PROPERTIES
  IsGoverned
CHECK_DEADLOCK FALSE
