CONSTANTS
  Processes = {p1, p2, p3}
  Nobody = Nobody
  MayCrash = {p1, p2, p3}
  MayClose = {p1, p2, p3}
  MayStall = {p3}
SPECIFICATION Spec
INVARIANTS LoneStarterServes MutexIsReleased
PROPERTIES EstablishedStays
