SPECIFICATION MCSpec
CONSTANTS
  Clients = {m1, m2}
  Contents = {f1, f2}
  PageLimit = 1
  MaxFiles = 2
  MaxDocs = 2
  MaxFaults = 1
  StrayMessages = FALSE
  None = None
  Holders = {m1, m2}
  Files = {f1, f2}
  Names = {n1, n2}
  CacheTtl = 0
  MaxEvents = 1
  Nothing = Nothing
  Torn = Torn
SYMMETRY Symmetry
INVARIANTS
  AppwriteTypeOK
  UploadReportsTruth
  SearchIsComplete
  WrongBytesHaveCause
  CopiesWithinTtl
  FailsOnlyForCause
PROPERTIES
  ValidMetadataKept
