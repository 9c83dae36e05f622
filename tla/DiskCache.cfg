SPECIFICATION DiskFairSpec
CONSTANTS
  Absent = Absent
  Broken = Broken
  Garbled = Garbled
  Workers = {w1, w2}
  Files = {f1, f2, old1}
  Legacy = {old1}
  Leftover = {f1, old1}
  Ttl = 0
  FaultPhases = {"load", "fill", "clear", "swap", "dump"}
  CrashPhases = {"ready", "r_lock", "w_lock", "a_lock", "load", "fill", "clear", "swap", "dump"}
  MaxTime = 1
  MaxFaults = 1
  MaxCrashes = 1
INVARIANTS
  DiskTypeOK
  LockOwnership
  HitsAreWhole
PROPERTIES
  CallsReturn
  StoreIsWhole
  ReadsKeepFreshEntries
  ImplementsSlot
