SPECIFICATION FairSpec
CONSTANTS
  Clients = {c1, c2}
  None = None
  MaxInputs = 2
  MaxDumps = 2
INVARIANTS
  TypeOK
  PassesCounted
  BaselineSurvives
PROPERTIES
  TicketsAreFresh
  ConfirmedBaseline
  AwaitReturns
CHECK_DEADLOCK FALSE
