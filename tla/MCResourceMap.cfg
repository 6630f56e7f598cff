CONSTANTS
  Core <- HoledCore
  MaxReq = 3
SPECIFICATION Spec
INVARIANTS
  MapSound
PROPERTIES
  CoreFreedWakes
  ImplementsAllocator
