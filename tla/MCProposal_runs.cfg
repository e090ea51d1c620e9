\* Two captures with five finals and a request; everything stops when they are spent.
SPECIFICATION FairSpec

CONSTANTS
  Reader = {r1, r2}
  Asker = {k1}
  Nobody = Nobody
  Debounce = 2
  Attempts = 2
  MaxSegments = 5

INVARIANTS
  SpendIsBounded
  RepeatsAreBounded

PROPERTIES
  FlagIsCleared

CHECK_DEADLOCK FALSE
