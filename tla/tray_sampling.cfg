SPECIFICATION TrayFairSpec
CONSTANTS
  bg = bg
  manual = manual
  Procs = {bg, manual}
  Background = bg
  MaxRuns = 2
  MaxDisturbances = 2
INVARIANTS
  TypeOK
  ResultsShownTruly
PROPERTIES
  OnlyDeletionsMislead
  LiveRunIsShown
CHECK_DEADLOCK FALSE
