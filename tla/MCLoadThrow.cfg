SPECIFICATION Spec
CONSTANTS
  a = a
  p = p
  body = body
  Elements = {a, p, body}
  Links = {a}
  Invalid = {body}
  Labels <- MCLabels
  NoTarget = NoTarget
  NoZone = NoZone
  MaxPid = 1
  MaxZones = 2
  Pages <- MCSavedPage
PROPERTY
  LoadAnnouncesAll
CHECK_DEADLOCK FALSE
