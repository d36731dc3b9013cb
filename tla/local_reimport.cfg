SPECIFICATION Spec
CONSTANTS
  bg = bg
  manual = manual
  m1 = m1
  m2 = m2
  m3 = m3
  id1 = id1
  Procs = {bg}
  Background = bg
  Msgs = {m3}
  Backlog = {m3}
  MessageIds = {id1}
  NoMessageId = NoMessageId
  MessageIdOf <- MCMessageIdOf
  BatchLimits = {1}
  MaxRuns = 2
  MaxDisturbances = 1
PROPERTIES
  ConfirmedNeverReimported
CHECK_DEADLOCK FALSE
