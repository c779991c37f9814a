CONSTANTS
    Assets = {"s1", "s2", "s3"}
    Types = {"radar", "weather"}
    TypeOf <- Kinds
    Anchored = {"s1", "s2", "s3"}
    Mobile = {"s3"}
    Profile <- Reviewed
    Clamps <- Bounds
    StepPct = 10
    FalsePositive = 30
    FalseNegative = 20
    LateShare = 30
    LeadSamples = 3
    Menus <- AllMenus
    Skew = 0
    Retention = 14
    MaxSeries = 3
    OutlierMin = 3
    FrozenMin = 3
    DriftMin = 3
    DriftMultiplier = 3
    RiseFault = 5
    Builders = {b1, b2}
    TrendMax = 2
    TrendRuns = 2
SPECIFICATION Spec
CHECK_DEADLOCK FALSE
INVARIANT EvidenceRobust
INVARIANT ListedRunsWhole
PROPERTY CompactionKeepsVerdict
PROPERTY TuningAccountable
