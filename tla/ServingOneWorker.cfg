SPECIFICATION Spec
CONSTANTS
  Absent = Absent
  Broken = Broken
  Garbled = Garbled
  Unfetched = Unfetched
  Workers = {w1}
  MaxRun = 3
  Files = {0, 1, 2, 3}
  Legacy = {0}
  Leftover = {0, 1}
  Malformed = {}
  Unrenderable = {}
  Defective = {}
  Unidentifiable = {2}
  Undated = {}
  Sla = 0
  Ttl = 0
  MemTtl = 1
  MaxBlips = 1
  MaxRulings = 2
  FaultPhases = {"load", "clear", "swap", "dump"}
  CrashPhases = {"ready", "r_lock", "a_lock", "load", "clear", "swap", "dump"}
  MaxTime = 1
  MaxFaults = 1
  MaxCrashes = 1
INVARIANTS
  TypeOK
  OnlyGatedRunsServed
  AnswersTheManifest
PROPERTIES
  LastGoodGivenUpInAdoption
