CONSTANTS
  m1 = m1
  m2 = m2
  t1 = t1
  c1 = c1
  None = None
  Messages = {m1, m2}
  Topics = {t1}
  Tasks = {}
  Callers = {c1}
  Specs <- MCSpecs
  SettingsRows <- MCSettings
  MaxSchedules = 2
SPECIFICATION Spec
INVARIANTS
  TypeOK
  IndexesMirrorPending
  PendingHasDriver
  DeliveriesBounded
  AttemptsAccounted
PROPERTIES
  NoResurrection
  ImplementsFollowUps
  FollowUpsEnd
CHECK_DEADLOCK FALSE
