\* One server, no standalone CLI: three rows under a two-slot semaphore.
SPECIFICATION Spec
CONSTANTS
  Rows = {r1, r2, r3}
  Server = server
  Clis = {}
  MaxConcurrent = 2
  ReconnectMayFail = FALSE
  MaxCrashes = 2
  NoStatus = NoStatus
SYMMETRY RowSymmetry
INVARIANTS
  AtMostOneShipment
  NoHiddenShipment
  RecordsAreTrue
  
  
PROPERTIES
  
  RunningJobIsRecovered
  
\* A finished or deleted job at rest is where the system stops.
CHECK_DEADLOCK FALSE
