SPECIFICATION Spec
CONSTANTS
  Meetings = {"m1"}
  Slots = {"s1", "s2"}
  Calls = {c1, c2}
  MaxCalls = 5
  MaxMessages = 2
INVARIANTS
  TypeOK
  NoticesAgree
  AnsweredOnce
  ClaimAgrees
PROPERTIES
  DecisionStands
SYMMETRY CallSymmetry
CHECK_DEADLOCK FALSE
