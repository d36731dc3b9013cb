SPECIFICATION Spec
CONSTANTS
  u1 = u1
  u2 = u2
  u3 = u3
  u4 = u4
  Uidls = {u1, u2}
  WithoutMessageId = {u2}
  MaxMessagesPerRun = 2
  IncrementalScanLimit = 2
  KnownBeforeStop = 2
  RetentionTicks = 1
  MinimumRetainedCount = 3
  CleanupBatchSize = 1
  MaxImportCalls = 2
  MaxLive = 2
  MaxRuns = 2
  MaxTicks = 2
  MaxFaults = 2
INVARIANTS
  TypeOK
  ClaimHeld
  ImportedIsDelivered
  DuplicatesNeedFaults
  ReturnedRunSettled
  SummariesTruthful
  LiveRunRecorded
  ReturnedRunProjected
PROPERTIES
  ClaimsKept
CHECK_DEADLOCK FALSE
