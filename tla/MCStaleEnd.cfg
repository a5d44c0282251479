SPECIFICATION Spec
CONSTANTS
  Top = Top
  c1 = c1
  a = a
  d = d
  body = body
  Children <- MCChildren
  Elements = {a}
  Links <- MCLinks
  Invalid = {}
  Labels = {""}
  NoTarget = NoTarget
  NoZone = NoZone
  Undefined = Undefined
  MaxZones <- MCMaxZones
  MaxPid = 1
  MaxInFlight = 1
CONSTRAINT ChanBound
PROPERTY SelectionEndsByUser
CHECK_DEADLOCK FALSE
