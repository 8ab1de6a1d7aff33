\* Two messages at a time, three in all.
CONSTANTS
  Handlers = {h1, h2}
  MaxFacts = 2
  Patches = {3}
  Overlapping = {2}
  MaxMessages = 3
SPECIFICATION Spec
INVARIANTS TypeOK PlanIsMaterialised
PROPERTIES DraftNotOlder SubmitsTheReviewed EveryTurnEnds
CHECK_DEADLOCK FALSE
