SPECIFICATION Spec
CONSTANTS
  Absent = Absent
  Broken = Broken
  Garbled = Garbled
  Unfetched = Unfetched
  Workers = {w1}
  MaxRun = 1
  Files = {0, 1}
  Legacy = {0}
  Leftover = {}
  Malformed = {}
  Unrenderable = {}
  Defective = {}
  Unidentifiable = {}
  Undated = {}
  Sla = 0
  Ttl = 0
  MemTtl = 1
  MaxBlips = 1
  MaxRulings = 0
  FaultPhases = {"load", "clear", "swap", "dump"}
  CrashPhases = {"ready", "r_lock", "a_lock", "load", "clear", "swap", "dump"}
  MaxTime = 1
  MaxFaults = 0
  MaxCrashes = 0
INVARIANTS
  BlipServesCache
