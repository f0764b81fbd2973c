\* One component after the other: shipment, mapping, audit, connections, progress, hot folder,
\* external sources.
SPECIFICATION Spec
CONSTANTS
  None = None
  Orders <- MCOrders
  Origins = {"US", "DE"}
  Overrides <- MCOverrides
  Selectable = {"03", "65"}
  Processes = {p1, p2}
  Tables <- MCTables
  MaxFiles = 1
  Runs = {r1}
  Writers = {w1, w2}
  MaxEvents = 3
  MirrorQueue = 1
  Calls = {c1, c2}
  Entries <- MCEntries
  Accepted = {"good"}
  MaxRows = 1
  MaxStreams = 2
  BatchRows = {1, 2}
  MaxQueues = 3
  Folders = {"a", "b"}
  FolderRules <- MCFolderRules
  GlobalRules <- MCGlobalRules
  Previews <- MCPreviews
  MaxDrops = 2
  Shops <- MCShops
  MaxCalls = 3
SYMMETRY Symmetry
INVARIANTS
  MappingPromise
  AuditPromise
  ConnectionPromise
  
  
  ShopPromise
PROPERTY
  ShipmentPromise
CHECK_DEADLOCK FALSE
