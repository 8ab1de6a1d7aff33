CONSTANTS
  h1 = h1
  h2 = h2
  Handlers = {h1, h2}
  Days = {1, 2}
  Hours = {1}
  Minutes = {30}
  Servers = 4
  x = x
  Others = {x}
  MaxRows = 2
  MaxEdits = 1
  MaxFaults = 1
SPECIFICATION Spec
INVARIANTS
  TypeOK
  NoSecondEvent
  SuccessIsOnCalendar
  RecordsFollow
PROPERTIES
  SettledStays
  RetryConverges
CHECK_DEADLOCK FALSE
