SPECIFICATION FairSpec
CONSTANTS
  bg = bg
  manual = manual
  m1 = m1
  m2 = m2
  m3 = m3
  id1 = id1
  Procs = {bg}
  Background = bg
  Msgs = {m1, m2, m3}
  Backlog = {m1, m2, m3}
  MessageIds = {id1}
  NoMessageId = NoMessageId
  MessageIdOf <- MCMessageIdOf
  BatchLimits = {1}
  MaxRuns = 4
  MaxDisturbances = 1
PROPERTIES
  RunsEnd
  BacklogDrains
CHECK_DEADLOCK FALSE
