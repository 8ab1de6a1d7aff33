\* One message after another: a cancelled session and a reply that submits.
CONSTANTS
  Handlers = {h1}
  MaxFacts = 1
  Patches = {2}
  Overlapping = {}
  MaxMessages = 4
SPECIFICATION Spec
PROPERTY EndedTakesNoSubmission
CHECK_DEADLOCK FALSE
