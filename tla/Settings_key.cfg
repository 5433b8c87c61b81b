SPECIFICATION SettingsSpec
CONSTANTS
  Entries = {1}
  SheetLoads = {1}
  MaxAsks = 1
  MaxSheetFaults = 0
PROPERTIES
  KeyStaysUntilDone
CHECK_DEADLOCK FALSE
