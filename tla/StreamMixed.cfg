SPECIFICATION Spec
CONSTANTS
  EventIds = {e1, e2}
  NoId = NoId
  Torn = Torn
  Kinds = {"event", "malformed", "uncaught"}
  Source = "redis"
  Modes = {"watch", "rolling"}
  DedupEnabled = TRUE
  Coalesce = TRUE
  TornWrites = TRUE
  MaxIds = 1
  CycleLimit = 2
  MaxLog = 3
  MaxCrashes = 1
  MaxRuns = 3
  MaxRevs = 4
SYMMETRY EventIdSymmetry
INVARIANT PublishedFirst
CHECK_DEADLOCK FALSE
