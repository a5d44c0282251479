SPECIFICATION TransportSpec
CONSTANTS
  Top = Top
  c1 = c1
  c2 = c2
  Children <- MCChildren
  MaxInFlight = 2
PROPERTY RegistrationCompletes
CHECK_DEADLOCK FALSE
