SPECIFICATION Spec
CONSTANTS
  hup = hup
  term = term
  usr1 = usr1
  Terminators = {hup, term}
  Usr1 = usr1
INVARIANTS TypeOK NoQuitAfterFree
PROPERTY SignalEnds
CHECK_DEADLOCK FALSE
