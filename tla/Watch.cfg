SPECIFICATION Spec
CONSTANTS
  Codes = {244, 262}
  NoCode = 0
  MaxCalls = 3
  MaxSignals = 2
INVARIANTS TypeOK MatchAsBelieved UpToDate
