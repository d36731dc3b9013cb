SPECIFICATION Spec
CONSTANTS
  bg = bg
  manual = manual
  Procs = {bg, manual}
  Background = bg
  MaxRuns = 2
  MaxDisturbances = 0
INVARIANTS
  LiveRowsSurvive
CHECK_DEADLOCK FALSE
