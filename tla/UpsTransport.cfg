\* Two reads and a mutation share one session; one read may find that the
\* process does not respawn.
SPECIFICATION FairSpec
CONSTANTS
  Mutating = {ship, void}
  ReadOnly = {rate}
  Unlucky = {rate}
  MaxSessions = 2
  MaxToolRetries = 1
  MaxDeaths = 1
  Nobody = Nobody
INVARIANTS
  MutatingActsOnce
PROPERTIES
  
  CallsReturn
CHECK_DEADLOCK FALSE
