SPECIFICATION Spec
CONSTANTS
  z1 = z1  z2 = z2  z3 = z3
  r1 = r1  c1 = c1  tc = tc
  t1 = t1  t2 = t2  t3 = t3  t4 = t4  d1 = d1  d2 = d2  s1 = s1  i1 = i1  a1 = a1
  ov = ov  tb = tb  tt = tt  zd1 = zd1  zd2 = zd2  zd3 = zd3
  rd1 = rd1  rd2 = rd2  rd3 = rd3
  Zones = {z2, z3}
  RefZones = {z2}
  TypeOf <- MCTypeOf
  Ranges = {r1}
  Carets = {c1, tc}
  ToolCaret = tc
  StartOf <- MCStartOf
  EndOf <- MCEndOf
  NoRange = NoRange
  Undefined = Undefined
  Body = Body
  PageNodes = {t1, t2, t3, t4, d1, d2, s1, i1, a1}
  PageKids <- MCPageKids
  NameOf <- MCNameOf
  Positioned <- MCPositioned
  Overlay = ov
  Toolbar = tb
  ToolText = tt
  ZoneDiv <- MCZoneDiv
  RefDiv <- MCRefDiv
  TargetOf <- MCTargetOf
  Filter <- MCFilter
  NoNode = NoNode
  NoData = NoData
INVARIANTS
  TypeOK
  XpathRoundTrip
