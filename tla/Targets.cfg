CONSTANTS
  t1 = t1  t2 = t2  t3 = t3
  Threads = {t1, t2}
  Actions = {"cleanup_rotated_logs", "cleanup_log_storm_temp_files"}
  Faults = {"engine"}
  LabThreads = {t1, t2}
  MaxBoots = 3
  LabFaults = {"exit", "timeout"}
SPECIFICATION TargetsSpec
SYMMETRY Symmetry
INVARIANTS
  AccessFollowsExecutions
  CompletedMeansDone
  SandboxOutlivesContainer
  RestartedMeansRecovered
PROPERTIES
  WritesNeedAnExecution
CHECK_DEADLOCK FALSE
