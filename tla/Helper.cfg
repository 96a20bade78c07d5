SPECIFICATION Spec
CONSTANTS
  rome = rome
  ghost = ghost
  ghost2 = ghost2
  nozone = nozone
  h1 = h1
  h2 = h2
  Helpers = {h1, h2}
  Zones = {rome, ghost}
  Installed = {rome}
  NoZone = nozone
  Times = {1}
INVARIANTS TypeOK LinkSurvives
PROPERTIES LinkReturns KeepsPromise
