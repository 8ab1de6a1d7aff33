CONSTANTS
  None = None
  Day = 6
  Calendars <- MCCalendars
  FocusBlock <- MCFocusBlock
  Offered <- MCOffered
  MaxEvents = 3
  MaxAttempts = 2
SPECIFICATION Spec
INVARIANTS
  TypeOK
  TimeboxIsSchedule
PROPERTIES
  RejectsOnlyUnschedulable
CHECK_DEADLOCK FALSE
