SPECIFICATION ApiClientSpec
CONSTANTS
  ApiClients = {"p"}
  Calls = {1}
  MaxIssued = 2
  MaxExpiries = 1
  MaxRefreshFaults = 0
INVARIANTS
  RetryCarriesNewToken
CHECK_DEADLOCK FALSE
