\* Reading config.ini, and the age of the last sync at every start.
SPECIFICATION Spec
CONSTANTS
  MaxTime = 16
  Days <- MCDays
  Words <- MCWords
  TrueWords <- MCTrueWords
  FalseWords <- MCFalseWords
  MaxLines = 2
  DayHours = 2
  MaxInterval = 3
  DefaultInterval = 2
INVARIANTS
  TypeOK
  ConfigIsFile
PROPERTIES
  StaleIsSynced
  FreshIsKept
