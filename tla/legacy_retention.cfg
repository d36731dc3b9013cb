SPECIFICATION Spec
CONSTANTS
  u1 = u1
  u2 = u2
  u3 = u3
  u4 = u4
  Uidls = {u1, u2, u3, u4}
  WithoutMessageId = {}
  MaxMessagesPerRun = 3
  IncrementalScanLimit = 2
  KnownBeforeStop = 2
  RetentionTicks = 1
  MinimumRetainedCount = 3
  CleanupBatchSize = 2
  MaxImportCalls = 2
  MaxLive = 1
  MaxRuns = 3
  MaxTicks = 3
  MaxFaults = 1
SYMMETRY MCSymmetry
PROPERTIES
  ScanRemembered
CHECK_DEADLOCK FALSE
