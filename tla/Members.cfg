SPECIFICATION Spec
CONSTANTS
  Passwords = {p1, p2}
  Calls = {c1, c2}
  LoginMaxAttempts = 2
  MaxCalls = 6
  MaxVerifications = 2
  MaxLinks = 2
INVARIANTS
  TypeOK
  StandingAgrees
  AttemptsBounded
  LinksWorkOnce
PROPERTIES
  ApprovalStands
SYMMETRY MemberSymmetry
