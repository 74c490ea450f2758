SPECIFICATION LogSpec
CONSTANTS
  MaxSize = 2
  MaxAge = 2
  LastDay = 4
  MaxEntries = 5
INVARIANTS
  LogTypeOK
  LatestInMemory
  DayIsOnFile
