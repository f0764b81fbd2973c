\* One server under fair scheduling: two rows contend for one slot.
SPECIFICATION FairSpec
CONSTANTS
  Rows = {r1, r2}
  Server = server
  Clis = {}
  MaxConcurrent = 1
  ReconnectMayFail = TRUE
  MaxCrashes = 1
  NoStatus = NoStatus
PROPERTIES
  BatchTerminates
  RecoveryTerminates
CHECK_DEADLOCK FALSE
