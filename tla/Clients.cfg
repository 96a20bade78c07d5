SPECIFICATION Spec
CONSTANTS
  rome = rome
  paris = paris
  oslo = oslo
  nozone = nozone
  t1 = t1
  t2 = t2
  NoZone = nozone
  NoFormat = ""
  DstZones = {paris}
  Threads = {t1, t2}
  Calls <- SomeCalls
  Others <- NetworkChanges
  Settings0 <- Started
  Lossy <- SomeLosses
  MaxQueue = 2
SYMMETRY SameThreads
INVARIANTS TypeOK Coherent TzAtHome NoLateCopy SemaphoreHeld
