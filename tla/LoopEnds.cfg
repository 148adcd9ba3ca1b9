CONSTANTS
  w1 = w1  k1 = k1  p1 = p1  o1 = o1
  None = None
  Workers = {w1}
  Runs = {k1}
  Payloads = {p1}
  Options = {o1}
  MaxRevision = 2
  TTL = 1
  MaxTime = 2
  ExecutionEnabled = TRUE
  Faults = {"busy"}
SPECIFICATION LoopSpec
PROPERTIES
  UnansweredProposalsExpire
