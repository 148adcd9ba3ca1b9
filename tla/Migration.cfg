CONSTANTS
  p1 = p1  p2 = p2  k1 = k1  k2 = k2
  Processes = {p1, p2}
  Runs = {k1, k2}
  Crashes = TRUE
SPECIFICATION FairSpec
INVARIANTS
  ServedIsMigrated
PROPERTIES
  LegacyIsNeverServed
  MigrationCompletes
