\* One server whose UPS MCP process may fail to respawn.
SPECIFICATION Spec
CONSTANTS
  Rows = {r1, r2}
  Server = server
  Clis = {}
  MaxConcurrent = 2
  ReconnectMayFail = TRUE
  MaxCrashes = 0
  NoStatus = NoStatus
INVARIANT
  NoHiddenShipment
CHECK_DEADLOCK FALSE
