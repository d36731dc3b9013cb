SPECIFICATION Spec
CONSTANTS
  bg = bg
  manual = manual
  m1 = m1
  m2 = m2
  m3 = m3
  id1 = id1
  Procs = {bg}
  Background = bg
  Msgs = {m1, m2, m3}
  Backlog = {m2, m3}
  MessageIds = {id1}
  NoMessageId = NoMessageId
  MessageIdOf <- MCMessageIdOf
  BatchLimits = {2}
  MaxRuns = 3
  MaxDisturbances = 2
INVARIANTS
  AtMostOncePerProcess
  CountedEmailsMoved
PROPERTIES
  NoImportOnceConfirmed
CHECK_DEADLOCK FALSE
