CONSTANTS
  lunch = lunch
  None = None
  h1 = h1
  Others <- MCOthers
  StartTolerance = 20
  OverlapPercent = 80
  Names <- MCNames
  Times <- MCTimes
  Details <- MCDetails
  Handlers = {h1}
  Plans <- MCTwicePlans
  Day <- MCDay
  UserSlots <- MCUserSlots
  Unreadable = {}
  MaxRequests = 3
  MaxEdits = 0
SPECIFICATION Spec
INVARIANT
  EverySubmissionUndoable
CHECK_DEADLOCK FALSE
