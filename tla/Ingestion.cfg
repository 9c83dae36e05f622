SPECIFICATION MCSpec
SYMMETRY Symmetry
CHECK_DEADLOCK FALSE
CONSTANTS
    Workers = {w1, w2}
    MaxArtifact = 3
    Files = {1, 2, 3}
    Legacy = {1, 2, 3}
    Leftover = {}
    Unstreamable = {2}
    Implausible = {3}
    Unparsable = {}
    Ttl = 0
    KeyTtl = 1
    MaxMishaps = 1
    MaxQuarantined = 1
    FaultPhases = {"clear", "swap", "dump"}
    CrashPhases = {"ready", "dump"}
    MaxTime = 1
    MaxFaults = 1
    MaxCrashes = 1
    Absent = Absent
    Broken = Broken
    Garbled = Garbled
    Months = {1, 2, 3}
    Cells = {1, 2}
    MaxRows = 3
    Targets = {"a", "b"}
    WireMonths = {1, 2}
    WireCells = {1, 2}
    SampleCounts = {1, 2}
    MaxShards = 4
    Capacity = 6
INVARIANTS
    HistoricalTypeOK
    OnlySoundServed
    DiskNeverFailsRequest
    AnswersALookup
    StreamedAsSorted
    RefusedUnlessBackfilled
    AssembledAsWhole
    NothingFilled
    MonthsWithinCapacity
