SPECIFICATION Spec
CONSTANTS
  Top = Top
  c1 = c1
  a = a
  d = d
  body = body
  Children = {}
  Elements = {a}
  Links <- MCLinks
  Invalid = {}
  Labels = {"", "x"}
  NoTarget = NoTarget
  NoZone = NoZone
  Undefined = Undefined
  MaxZones <- MCMaxZones
  MaxPid = 1
  MaxInFlight = 1
CONSTRAINT ChanBound
INVARIANT NoHandleForRemovedZone
CHECK_DEADLOCK FALSE
