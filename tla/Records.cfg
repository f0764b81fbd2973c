\* One component after the other: the chat, the book, the labels, the saved sources, the ledger,
\* the pickups, the schema, the daemon.
SPECIFICATION RecordsSpec
CONSTANTS
  None = None
  MaxMessages = 2
  MaxShown = 2
  MaxFaults = 1
  Resume = 2
  Handles = {"jo", "joe"}
  Fields = {"city", "phone"}
  MaxBookCalls = 3
  LabelRows = {1, 2, 3}
  MaxStops = 2
  Imports <- MCImports
  Importers = {server, cli}
  MaxImports = 3
  Orders = {o1, o2, o3}
  Chats = {chat1, chat2}
  MaxPickups = 2
  MaxCalls = 3
  MaxConfirms = 2
  Starters = {server, cli}
  ColumnsOf <- MCColumns
  Filled = {"version"}
  OldTasks <- MCTasks
  MaxFailures = 2
  Pids = {1, 2, 3}
  NoPid = 0
  MaxStopCmds = 2
INVARIANTS
  ChatPromise
  
  
PROPERTIES
  NamedRowsPromise
  
  
CHECK_DEADLOCK FALSE
