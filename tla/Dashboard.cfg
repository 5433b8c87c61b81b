SPECIFICATION DashboardSpec
CONSTANTS
  Found = {"a", "b"}
  Spaces = {"s"}
  Callbacks = {"x", "y"}
  Walkers = {"v"}
  PageOf = 1
  MaxTries = 2
  Links = {1}
  MaxEdits = 1
  MaxWalkFaults = 1
  Requests = {1, 2}
  Intervals = {30, 60}
  Default = 60
  GlobalPolling = TRUE
  OneAtATime = TRUE
  MaxFaults = 2
  Clients = {"c"}
  MaxGrants = 3
  MaxPublished = 2
  MaxDrops = 2
  ViewRuns = {1, 2}
  Slots = {1}
  MaxReports = 2
  MaxViewFaults = 1
  RunIds = {1, 2, 3, 4}
  PageSize = 2
  LastStart = 2
  MaxMoves = 2
  Entries = {1, 2}
  SheetLoads = {1, 2}
  MaxAsks = 2
  MaxSheetFaults = 1
  Tracked = {"r"}
  StatusSlots = {1, 2}
  MaxTasks = 2
  MaxTaskTries = 2
  MaxClicks = 2
  MaxLost = 1
  Offered = {"a", "b"}
  OfferLimit = 1
  ContextLoads = {1}
  ListLoads = {1, 2}
  MaxStarts = 2
  MaxTroubles = 1
  ApiClients = {"p", "q"}
  Calls = {1, 2}
  MaxIssued = 3
  MaxExpiries = 1
  MaxRefreshFaults = 1
INVARIANTS
  DashboardTypeOK
  EachRunOnce
  SerialSyncExact SerialSyncRepairs
  SelectionStored
  SessionKept
PROPERTIES
  ConnectedIsDiscovered
  NothingOutlivesThePage StreamResumes
  ViewSettles
  SettingsSettle StatusSettles
  OnboardingSettles MemorySettles
CHECK_DEADLOCK FALSE
