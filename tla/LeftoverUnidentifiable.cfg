SPECIFICATION Spec
CONSTANTS
  Absent = Absent
  Broken = Broken
  Garbled = Garbled
  Unfetched = Unfetched
  Workers = {w1}
  MaxRun = 2
  Files = {0, 1, 2}
  Legacy = {0}
  Leftover = {1}
  Malformed = {}
  Unrenderable = {}
  Defective = {}
  Unidentifiable = {1}
  Undated = {}
  Sla = 0
  Ttl = 0
  MemTtl = 1
  MaxBlips = 0
  MaxRulings = 2
  FaultPhases = {"load", "clear", "swap", "dump"}
  CrashPhases = {"ready", "r_lock", "a_lock", "load", "clear", "swap", "dump"}
  MaxTime = 0
  MaxFaults = 0
  MaxCrashes = 0
INVARIANTS
  OnlyGatedRunsServed
