SPECIFICATION Spec
CONSTANTS
  Unset = Unset
  Blank = Blank
  Malformed = Malformed
  Text = Text
  Invalid = Invalid
  Nothing = Nothing
  Environments <- MCEnvironments
  Files <- MCFiles
  MessageCounts = {0, 1, 2, 3}
  AskedLimits = {0, 1, 25}
INVARIANTS
  SessionsClosed
  ErrorsTruthful
  RetriesBounded
  ListsNewest
  ConfigurationSound
CHECK_DEADLOCK FALSE
