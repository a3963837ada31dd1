CONSTANTS
  build1 = build1
  build2 = build2
  read = read
  exclusive = exclusive
  Requests = {build1, build2, read, exclusive}
  Class <- MixedClasses
  MaxReentrant = 1
SPECIFICATION Spec
INVARIANTS NoIdleCapacity PositionsKnown
PROPERTIES ImplementsFairLock NoOvertaking Admitted
