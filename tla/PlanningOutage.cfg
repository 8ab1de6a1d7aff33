CONSTANTS
  own = own
  srv = srv
  p1 = p1
  None = None
  Own = own
  Others = {srv}
  Procs = {p1}
  Nudges = 1
  MaxEvents = 2
SPECIFICATION Spec
PROPERTY FailSoft
CHECK_DEADLOCK FALSE
