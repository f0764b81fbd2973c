\* A delimited file with an empty line, a workbook, a JSON file, a database and a shop replace each other
\* while a job ships, its process dies twice and further runs follow.
SPECIFICATION FairSpec
CONSTANTS
  Sources = {"orders", "book", "feed", "stock", "shop"}
  KindOf <- KindTable
  LinesOf <- LineTable
  HasHeader <- HeaderTable
  NoSource = NoSource
  MaxChanges = 3
  MaxRuns = 3
  MaxCrashes = 2
INVARIANTS
  StateIsSound
  TrackingOnItsRow
  OwnTasksClosedWhenWritten
PROPERTY
  RunEnds
CHECK_DEADLOCK FALSE
