CONSTANTS
  Threads = {t1, t2}
  Calls = {c1, c2}
  Evidence = {"resources-1", "logs-1", "changes-1", "health-1"}
  Category <- MCCategory
  Signals <- MCSignals
  Observable <- MCObservable
  Items = {i1}
  Knowledge <- MCKnowledge
  Required = {t2}
  MaxVersion = 2
  None = None
  Tools = 4
  Interrupted = {"tools", "decided", "claimed", "acted", "finalized", "noted"}
  MaxInterrupts = 3
  MaxMessages = 2
  Faults = {"intake", "late", "restart"}
SPECIFICATION AgentsSpec
SYMMETRY Symmetry
INVARIANTS
  AcceptedRestsOnEvidence
  OpenedIsRelevant
  ActsAndVerifiesOnce
  GraphFollowsRecord
PROPERTIES
  ApprovedThreadsEnd
CHECK_DEADLOCK FALSE
