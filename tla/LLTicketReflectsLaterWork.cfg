SPECIFICATION Spec
CONSTANTS
  Clients = {c1, c2}
  None = None
  MaxInputs = 2
  MaxDumps = 2
PROPERTY
  TicketReflectsLaterWork
CHECK_DEADLOCK FALSE
