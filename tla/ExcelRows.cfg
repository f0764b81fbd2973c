\* A workbook with an empty row.
SPECIFICATION Spec
CONSTANTS
  Sources = {"sheet"}
  KindOf <- KindTable
  LinesOf <- LineTable
  HasHeader <- HeaderTable
  NoSource = NoSource
  MaxChanges = 1
  MaxRuns = 1
  MaxCrashes = 0
INVARIANT
  TrackingOnItsRow
CHECK_DEADLOCK FALSE
