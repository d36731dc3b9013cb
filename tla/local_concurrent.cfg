SPECIFICATION Spec
CONSTANTS
  bg = bg
  manual = manual
  m1 = m1
  m2 = m2
  m3 = m3
  id1 = id1
  Procs = {bg, manual}
  Background = bg
  Msgs = {m1, m3}
  Backlog = {m1, m3}
  MessageIds = {id1}
  NoMessageId = NoMessageId
  MessageIdOf <- MCMessageIdOf
  BatchLimits = {2}
  MaxRuns = 2
  MaxDisturbances = 1
INVARIANTS
  TypeOK
  StateSound
  NothingLost
  StepsJustified
  CompletedRunAccounts
  ImportedNeverOverstated
  RowsAreOwned
PROPERTIES
  ResultsAreFinal
  DryRunChangesNothing
  ImplementsPromise
  ImplementsLifecycle
CHECK_DEADLOCK FALSE
