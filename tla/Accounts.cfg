SPECIFICATION AccountsSpec
CONSTANTS
  Browsers = {1}
  Workspaces = {1}
  Primary = 1
  SessionCalls = {1, 2}
  MaxTokens = 3
  MaxSessionFaults = 1
  People = {"ann", "bob"}
  SignIns = {1, 2, 3}
  MaxSignInFaults = 1
  PaidPlans = {"pro", "business"}
  Shoppers = {1, 2}
  Deliveries = {1}
  MaxSubs = 2
  MaxChanges = 1
  MaxBillingFaults = 1
  Repos = {"a", "b", "c"}
  Patches = {1, 2}
  FreeRepos = 1
  ProRepos = 2
  Ids = {1, 2}
  Requests = {1, 2}
  FreeSpaces = 1
  ProSpaces = 2
  MaxSlug = 2
  Found = {"a", "b"}
  Spaces = {"s", "t"}
  Callbacks = {"x", "y"}
  Walkers = {"v", "w"}
  PageOf = 1
  MaxTries = 2
  Links = {1}
  MaxEdits = 1
  MaxWalkFaults = 1
  RetentionRepos = {"r", "s"}
  Rows = {1, 2}
  BatchSize = 1
  FixedDays = 1
  CeilingDays = 2
  EnvDays = 1
  LastDay = 2
  MaxSettings = 1
  MaxHistory = 1
  MaxCleanupCrashes = 1
INVARIANTS
  AccountsTypeOK
  OneLivePerSession CookieStaysLive LogoutAllHolds
  BootstrapHolds
  PlanIsPaidPlan
  PlanLimitsHold
  DiscoveryComplete
PROPERTIES
  LastWorkspaceKept CleanupIsExact
CHECK_DEADLOCK FALSE
