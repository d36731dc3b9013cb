SPECIFICATION FairSpec
CONSTANTS
  stranger = stranger
  Owner = Owner
  Nobody = Nobody
  Nothing = Nothing
  NoDuration = NoDuration
  Strangers = {stranger}
  Inputs <- MCInputs
  Instants = {5, 6}
  TicksPerDay = 2
  RecentDays = 2
  RecentLimit = 3
  MaxReloads = 2
  MaxChanges = 1
INVARIANTS
  AnswersSound
  StatisticsSound
PROPERTIES
  OwnerKept
  RefusedLeave
CHECK_DEADLOCK FALSE
