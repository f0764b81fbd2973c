\* Two messages and four tool calls; the source is replaced once, by one of the
\* same schema or another; a token lives one tick.
SPECIFICATION Spec
CONSTANTS
  Columns = {"state", "status"}
  Values = {"NY", "CA", "open", "done"}
  Orders = {"o1", "o2", "o3"}
  Attr <- AttrTable
  TierB = {"northeast", "west"}
  Expansion <- ExpansionTable
  Signatures = {"full", "short"}
  SchemaOf <- SchemaTable
  TTL = 0
  Commands = {"all", "open", "openNortheast"}
  Score <- ScoreTable
  Implies <- ImpliesTable
  Needs <- NeedsTable
  Wants <- WantsTable
  Enforced = {"status"}
  Bounds = {}
  Intents <- PlainIntents
  Sources = {"first", "second", "third"}
  RowsOf <- RowsTable
  SigOf <- SigTable
  Initially = "first"
  Stable = {"first", "second", "third"}
  None = None
  Limit = 1
  MaxFetch = 2
  MaxMessages = 2
  MaxTools = 4
  MaxSwitches = 1
  MaxTime = 1
INVARIANTS
  PipelineIsSound
  JobShipsItsMatchSet
  
  
CHECK_DEADLOCK FALSE
