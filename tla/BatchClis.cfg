\* The server and a standalone CLI execute the same job, and the UPS MCP
\* process of either may fail to respawn.
SPECIFICATION Spec
CONSTANTS
  Rows = {r1}
  Server = server
  Clis = {cli}
  MaxConcurrent = 1
  ReconnectMayFail = TRUE
  MaxCrashes = 1
  NoStatus = NoStatus
INVARIANTS
  AtMostOncePerExecutor
  ShippedRowsAreClaimed
CHECK_DEADLOCK FALSE
