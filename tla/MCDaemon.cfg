SPECIFICATION Spec
CONSTANTS
  NAgents = 2
  Tickets <- MCTickets
  Limits <- MCLimits
  MaxComments = 1
  MaxRaises = 1
INVARIANTS
  TypeOK
  BacklogNeverSleeps
  StopIsPrompt
  ChancesAccounted
PROPERTIES
  TicketsAreServed
  DaemonEnds
