SPECIFICATION MCSpec
CONSTANTS
  Threads = {t1, t2}
  Keys = {k1, k2, k3}
  Capacity = 2
  NoManager = NoManager
  Months = {1, 2}
  Cells = {c1, c2}
  Codes = {A, B}
  Targets = {"sb", "ns"}
  NoCode = NoCode
  Other = Other
  All = All
  Bad = Bad
  Draws = 2
  Budget = 4000
  MonthFilters <- FewMonths
  CellFilters <- FewCells
  CodeFilters <- FewCodes
  ColumnFilters <- FewColumns
  MaxManifest = 2
  LegacyRecord = LegacyRecord
  Stale = {LegacyRecord, 1}
  None = None
SYMMETRY Symmetry
INVARIANTS
  ApiTypeOK
  TenantOwnManager
  EvictedOnlyByCapacity
  UnbuiltOnlyIfRaced
  UntimedOnlyIfMixed
  GuardBoundsPayload
  UnitsWhole
  ReportsWhatIsServed
