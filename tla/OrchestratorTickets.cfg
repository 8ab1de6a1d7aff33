CONSTANTS
  s1 = s1
  s2 = s2
  ev = ev
  u1 = u1
  u2 = u2
  u3 = u3
  None = None
  Sessions = {s1, s2}
  Hooks = {ev}
  Uuids = {u1, u2, u3}
  Limits = {2}
  HookLimit = 1
  MaxEnvelopes = 3
SPECIFICATION Spec
INVARIANTS
  TypeOK
  IndexMirrorsTickets
  TicketHasDriver
PROPERTIES
  SilencedStays
  ImplementsChains
  TicketsEnd
CHECK_DEADLOCK FALSE
