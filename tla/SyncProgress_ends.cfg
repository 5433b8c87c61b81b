SPECIFICATION SyncProgressSpec
CONSTANTS
  Tracked = {"r"}
  StatusSlots = {1}
  MaxTasks = 1
  MaxTaskTries = 1
  MaxClicks = 1
  MaxLost = 0
PROPERTIES
  ResyncEnds
CHECK_DEADLOCK FALSE
