SPECIFICATION MembershipSpec
CONSTANTS
  founder = founder
  u1 = u1
  u2 = u2
  e1 = e1
  e2 = e2
  e3 = e3
  q1 = q1
  p1 = p1
  p2 = p2
  Users = {founder, u1, u2}
  Emails = {e1, e2}
  NoEmail = noEmail
  Founder = founder
  KeyHolders = {founder}
  Requests = {q1}
  Limited = TRUE
  Limit = 2
  OneAtATime = TRUE
  AskedRoles = {"owner", "member"}
  MaxRows = 3
  MaxInvites = 2
SYMMETRY Symmetry
INVARIANTS
  OwnerKept
  OneRowPerUser
  SeatsWithinPlan
  OverlapBounded
PROPERTIES
  PendingInvitesDistinct
CHECK_DEADLOCK FALSE
