SPECIFICATION FairSpec
CONSTANTS
  EventIds = {e1, e2}
  NoId = NoId
  Torn = Torn
  Kinds = {"event", "malformed"}
  Source = "kafka"
  Modes = {"watch"}
  DedupEnabled = TRUE
  Coalesce = FALSE
  TornWrites = FALSE
  MaxIds = 1
  CycleLimit = 0
  MaxLog = 3
  MaxCrashes = 2
  MaxRuns = 3
  MaxRevs = 4
INVARIANT RevisionsSound
INVARIANT DurableIdsSound
PROPERTY RecordedNeverRepublished
PROPERTY DeliveryRefined
PROPERTY EveryEntrySettled
