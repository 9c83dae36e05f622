SPECIFICATION Spec
CONSTANTS
  Absent = Absent
  Broken = Broken
  Garbled = Garbled
  Unfetched = Unfetched
  Workers = {w1, w2}
  MaxRun = 2
  Files = {0, 1, 2}
  Legacy = {0}
  Leftover = {}
  Malformed = {}
  Unrenderable = {}
  Defective = {}
  Unidentifiable = {}
  Undated = {}
  Sla = 0
  Ttl = 0
  MemTtl = 1
  MaxBlips = 0
  MaxRulings = 0
  FaultPhases = {"dump"}
  CrashPhases = {"clear", "dump"}
  MaxTime = 0
  MaxFaults = 1
  MaxCrashes = 1
INVARIANTS
  LabelledAsLookedUp
  DiskAnswersTheManifest
SYMMETRY Symmetry
