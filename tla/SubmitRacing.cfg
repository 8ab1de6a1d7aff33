CONSTANTS
  lunch = lunch
  None = None
  h1 = h1
  h2 = h2
  Others <- MCOthers
  StartTolerance = 20
  OverlapPercent = 80
  Names <- MCNames
  Times <- MCTimes
  Details <- MCDetails
  Handlers = {h1, h2}
  Plans <- MCRacePlans
  Day <- MCRaceDay
  UserSlots <- MCUserSlots
  Unreadable <- MCUnreadable
  MaxRequests = 3
  MaxEdits = 0
SPECIFICATION Spec
INVARIANTS
  NoDoubleBooking
CHECK_DEADLOCK FALSE
