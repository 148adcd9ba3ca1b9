CONSTANTS
  c1 = c1  c2 = c2  c3 = c3  b1 = b1  b2 = b2  t1 = t1  v1 = v1  v2 = v2
  None = None
  Candidates = {c1, c2, c3}
  Runbooks = {b1, b2}
  Texts = {t1}
  Reviewers = {v1, v2}
  Signals = {"memory_pressure", "worker_concurrency_increased", "concurrency_correlated_oom", "oom_kill", "http_503", "cpu_normal", "latency_high"}
  Policies = {"sound", "wide", "unsound"}
SPECIFICATION LearningSpec
SYMMETRY Symmetry
INVARIANTS
  VersionsAreReviewed
  PromotedOnce
  LineageIsLinear
  ReviewedIsObserved
  RevisionKeepsPassing
  PromotedIsSelective
PROPERTIES
  DecisionsAreFinal
CHECK_DEADLOCK FALSE
