SPECIFICATION Spec
CONSTANTS
  Top = Top
  c1 = c1
  a = a
  d = d
  body = body
  Children <- MCChildren
  Elements <- MCElements
  Links <- MCLinks
  Invalid <- MCInvalid
  Labels = {""}
  NoTarget = NoTarget
  NoZone = NoZone
  Undefined = Undefined
  MaxZones <- MCMaxZones
  MaxPid = 2
  MaxInFlight = 1
CONSTRAINT ChanBound
INVARIANTS
  TypeOK
  SelectionSingleTarget
CHECK_DEADLOCK FALSE
