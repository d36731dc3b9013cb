SPECIFICATION FairSpec
CONSTANTS
  bg = bg
  manual = manual
  Procs = {bg, manual}
  Background = bg
  MaxRuns = 2
  MaxDisturbances = 1
PROPERTIES
  AbandonedIsInterrupted
CHECK_DEADLOCK FALSE
