SPECIFICATION Spec
CONSTANTS
  Users = {"founder", "ann", "bob"}
  Emails = {"ann@"}
  NoEmail = ""
  Founder = "founder"
  KeyHolders = {}
  Requests = {1, 2}
  Limited = FALSE
  Limit = 5
  OneAtATime = FALSE
  AskedRoles = {"owner", "admin", "member"}
  MaxRows = 2
  MaxInvites = 1
PROPERTIES
  LastOwnerStays
CHECK_DEADLOCK FALSE
