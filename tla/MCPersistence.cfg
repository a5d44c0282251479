SPECIFICATION Spec
CONSTANTS
  Top = Top
  c1 = c1
  a = a
  d = d
  body = body
  Children = {}
  Elements = {a, body}
  Links <- MCLinks
  Invalid = {body}
  Labels <- MCLabels
  NoTarget = NoTarget
  NoZone = NoZone
  Undefined = Undefined
  MaxZones <- MCMaxZones
  MaxPid = 2
  MaxInFlight = 1
CONSTRAINT ChanBound
INVARIANTS
  SavedRecordOwned
CHECK_DEADLOCK FALSE
