CONSTANTS
  Hosts = {"h1", "h2"}
  JobIds = {"j1", "j2"}
  MaxLines = 5
SPECIFICATION FilterSpec
CHECK_DEADLOCK FALSE
INVARIANT EveryHostWritten
