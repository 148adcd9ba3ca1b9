CONSTANTS
  w1 = w1  w2 = w2  w3 = w3  k1 = k1  p1 = p1  o1 = o1
  None = None
  Workers = {w1, w2, w3}
  Runs = {k1}
  Payloads = {p1}
  Options = {o1}
  MaxRevision = 2
  TTL = 1
  MaxTime = 2
  ExecutionEnabled = TRUE
  Faults = {"busy", "crash"}
SPECIFICATION Spec
SYMMETRY Symmetry
INVARIANTS
  IInv
  RunFollowsProposal
  OwnershipIsExclusive
  EffectAtMostOnce
  EffectWasApproved
  OutcomeMatchesEffect
  AuditReplays
PROPERTIES
  TerminalIsForever
  GateSpec
