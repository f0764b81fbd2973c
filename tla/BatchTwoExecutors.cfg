\* A server and a standalone CLI execute the same job.
SPECIFICATION Spec
CONSTANTS
  Rows = {r1, r2}
  Server = server
  Clis = {cli}
  MaxConcurrent = 2
  ReconnectMayFail = FALSE
  MaxCrashes = 0
  NoStatus = NoStatus
INVARIANT
  AtMostOneShipment
CHECK_DEADLOCK FALSE
