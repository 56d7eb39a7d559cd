SPECIFICATION Spec
CONSTANTS
  Requests = {r1, r2}
  Limit = 2
  Window = 2
  MaxClock = 2
  MaxRestarts = 1
  MaxLosses = 1
  MaxResends = 1
  MaxReconnects = 2
INVARIANTS
  TypeOK
  AdmissionsBounded
  CounterEnds
SYMMETRY RequestSymmetry
