SPECIFICATION SessionSpec
CONSTANTS
  Browsers = {1}
  Workspaces = {1, 2}
  Primary = 1
  SessionCalls = {1}
  MaxTokens = 3
  MaxSessionFaults = 0
INVARIANT SwitchedWorkspaceKept
CHECK_DEADLOCK FALSE
