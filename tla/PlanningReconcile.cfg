CONSTANTS
  own = own
  srv = srv
  p1 = p1
  None = None
  Own = own
  Others = {srv}
  Procs = {p1}
  Nudges = 1
  MaxEvents = 1
SPECIFICATION Spec
INVARIANTS
  TypeOK
  OneSeries
PROPERTIES
  ImplementsSeries
  NoStaleCard
  PlannedSilences
  MissingIsNagged
CHECK_DEADLOCK FALSE
