CONSTANTS
  Processes = {p1, p2, p3}
  Nobody = Nobody
  MayCrash = {p1}
  MayClose = {}
  MayStall = {}
SPECIFICATION Spec
PROPERTIES BoundStays
