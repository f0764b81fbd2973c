----------------------------- MODULE MCServices -----------------------------
(***************************************************************************)
(* The services around the batch, each on its own: "focus" is the one that *)
(* runs, the others keep their initial state, so the state space is the    *)
(* sum of theirs.  They share no state in the code but the database rows   *)
(* the other modules model.                                                *)
(***************************************************************************)
EXTENDS Naturals, Sequences, FiniteSets, TLC

CONSTANTS None,
  Orders, Origins, Overrides, Selectable,
  Processes, Tables, MaxFiles,
  Runs, Writers, MaxEvents, MirrorQueue,
  Calls, Entries, Accepted, MaxRows,
  MaxStreams, BatchRows, MaxQueues,
  Folders, FolderRules, GlobalRules, Previews, MaxDrops,
  Shops, MaxCalls

VARIABLES focus,
  origin, open, order, job, row, chosen, quote, shipped, pc,
  memory, files, draft, lookup, table, answer,
  run, old, events, step, about, seen, backlog, mirror, kept,
  saved, keyFile, call, raced, rows,
  queue, waiting, stream, emitted, counted, batch,
  watchdog, dropped, inbox, timer, fired, worker, filed, source, batches, clashed,
  connection, client, closed, tool, fulfilled, updated, overlapped

Ship  == INSTANCE Shipment
Cache == INSTANCE MappingCache
Audit == INSTANCE DecisionAudit
Conn  == INSTANCE Connections
Progress == INSTANCE ProgressStream
Hot == INSTANCE HotFolder
Ext == INSTANCE ExternalSources

\* None is no value; a key is neither a missing file nor one that is empty, what a user enters is a
\* mode with credentials, the queue to the mirror and the cache have a capacity, the
\* queues of the progress are numbered, and costs are counted in cents.
ASSUME ServicesAssumption ==
  /\ None # "empty" /\ {None, "empty"} \cap Calls = {}
  /\ \A e \in Entries : e = <<e[1], e[2]>>
  /\ MirrorQueue \in Nat /\ MaxFiles \in Nat
  /\ MaxQueues \in Nat /\ None \notin 1..MaxQueues
  /\ MaxDrops \in Nat /\ None \notin [file : 1..MaxDrops, whole : BOOLEAN]
  /\ GlobalRules.cost \in Nat /\ GlobalRules.top \in Nat
  /\ \A f \in Folders : FolderRules[f].cost \in Nat \cup {None}
  /\ \A p \in Previews : p.cost \in Nat /\ p.top \in Nat

-----------------------------------------------------------------------------
AllCustoms == {"contact", "description", "commodities", "invoice", "state"}

Plain == [country |-> "US", service |-> "03", packaging |-> "02", weight |-> 20,
          saturday |-> FALSE, packages |-> <<>>, options |-> {}, from |-> "none",
          customs |-> AllCustoms, platform |-> FALSE]

\* Orders that differ in what the checks of packaging, weight and day look at,
\* in what the customs of a lane ask for, and in what a rate depends on.
MCOrders ==
  {[Plain EXCEPT !.country = c, !.service = s, !.packaging = p, !.weight = w, !.saturday = d] :
     c \in {"US", "PR", "GB", ""}, s \in {None, "03", "01", "65"}, p \in {"02", "01", "24"},
     w \in {0, 20, 1510}, d \in BOOLEAN}
  \cup
  {[Plain EXCEPT !.country = c, !.service = s, !.platform = f, !.customs = k] :
     c \in {"PR", "CA", "GB", "FR"}, s \in {"03", "11"}, f \in BOOLEAN,
     k \in {AllCustoms \ {x} : x \in AllCustoms} \cup {AllCustoms \cup {"other currency"}}}
  \cup
  {[Plain EXCEPT !.options = o, !.from = f, !.packages = b] :
     o \in SUBSET {"hold", "notify"}, f \in {"none", "partial", "full"},
     b \in {<<>>, <<[packaging |-> "01", weight |-> 20], [packaging |-> "02", weight |-> 1510]>>}}

MCOverrides == {[service |-> s, packaging |-> p] : s \in {None, "03", "01"}, p \in {None, "04"}}

-----------------------------------------------------------------------------
Header(name, exact, within, length, letter) ==
  [name |-> name, exact |-> exact, within |-> within, length |-> length, letter |-> letter]

Street    == Header("address_1", {"address", "1"}, {}, 9, 1)
Address   == Header("address", {"address"}, {}, 7, 2)
City      == Header("city", {"city"}, {}, 4, 3)
Country   == Header("country", {"country"}, {}, 7, 4)
Customer  == Header("customer_name", {"customer", "name"}, {"st"}, 13, 5)
Name      == Header("name", {"name"}, {}, 4, 6)
Recipient == Header("recipient_name", {"recipient", "name"}, {}, 14, 6)
FromCity  == Header("ship_from_city", {"ship", "from", "city"}, {}, 14, 7)
FromName  == Header("ship_from_name", {"ship", "from", "name"}, {}, 14, 8)
ShipTo    == Header("ship_to_name", {"ship", "to", "name", "ship_to_name"}, {}, 12, 9)
State     == Header("state", {"state"}, {"st"}, 5, 10)
Weight    == Header("weight", {"weight"}, {}, 6, 11)
Zip       == Header("zip", {"zip"}, {}, 3, 12)

Table(print, columns) == [print |-> print, columns |-> columns]

\* Two sets of columns under one fingerprint, one of them without a recipient, so
\* that its mapping is used and not kept; and a second fingerprint.
MCTables ==
  LET common == {City, Country, State, Weight, Zip}
  IN  {Table("a", common \cup {Address, Street, Customer, ShipTo}),
       Table("a", (common \ {State}) \cup {Address, Customer}),
       Table("b", common \cup {Address, Recipient, FromCity})}

\* The columns of a source that has a warehouse.
MCWarehouse == {Table("w", {City, Country, State, Weight, Zip, Address, Name, FromCity, FromName})}

-----------------------------------------------------------------------------
\* A folder with its own limit of cost, and one whose limits are unset or zero.
MCFolderRules == "a" :> [auto |-> TRUE, cost |-> 10, rows |-> None]
              @@ "b" :> [auto |-> TRUE, cost |-> 0, rows |-> None]

MCGlobalRules == [cost |-> 20, top |-> 8, rows |-> 2, services |-> {"03"}, addresses |-> FALSE]

\* Previews within every limit, beyond the limit of one folder, and beyond the
\* other rules.
MCPreviews == {[rows |-> 1, cost |-> 5, top |-> 5, services |-> {"03"}],
               [rows |-> 2, cost |-> 15, top |-> 8, services |-> {"03"}],
               [rows |-> 3, cost |-> 9, top |-> 9, services |-> {"01"}]}

-----------------------------------------------------------------------------
\* Two modes and two sets of credentials, of which the provider accepts one.
MCEntries == {<<"legacy", "good">>, <<"legacy", "bad">>, <<"client", "good">>}

MCShops == "one" :> "shopify" @@ "two" :> "shopify" @@ "works" :> "sap" @@ "blog" :> "woocommerce"

Symmetry == Permutations(Processes) \cup Permutations(Writers) \cup Permutations(Calls)

Components == {"shipment", "mapping", "audit", "connections", "progress", "hotfolder", "external"}

shipVars  == <<origin, open, order, job, row, chosen, quote, shipped, pc>>
cacheVars == <<memory, files, draft, lookup, table, answer>>
auditVars == <<run, old, events, step, about, seen, backlog, mirror, kept>>
connVars  == <<saved, keyFile, call, raced, rows>>
progressVars == <<queue, waiting, stream, emitted, counted, batch>>
hotVars == <<watchdog, dropped, inbox, timer, fired, worker, filed, source, batches, clashed>>
extVars == <<connection, client, closed, tool, fulfilled, updated, overlapped>>

Rest(c) ==
  /\ UNCHANGED focus
  /\ c # "shipment" => UNCHANGED shipVars
  /\ c # "mapping" => UNCHANGED cacheVars
  /\ c # "audit" => UNCHANGED auditVars
  /\ c # "connections" => UNCHANGED connVars
  /\ c # "progress" => UNCHANGED progressVars
  /\ c # "hotfolder" => UNCHANGED hotVars
  /\ c # "external" => UNCHANGED extVars

Init ==
  /\ focus \in Components
  /\ Ship!Init
  /\ Cache!Init
  /\ Audit!Init
  /\ Conn!Init
  /\ Progress!Init
  /\ Hot!Init
  /\ Ext!Init

Next ==
  \/ focus = "shipment" /\ Ship!Next /\ Rest("shipment")
  \/ focus = "mapping" /\ Cache!Next /\ Rest("mapping")
  \/ focus = "audit" /\ Audit!Next /\ Rest("audit")
  \/ focus = "connections" /\ Conn!Next /\ Rest("connections")
  \/ focus = "progress" /\ Progress!Next /\ Rest("progress")
  \/ focus = "hotfolder" /\ Hot!Next /\ Rest("hotfolder")
  \/ focus = "external" /\ Ext!Next /\ Rest("external")

allVars == <<focus, shipVars, cacheVars, auditVars, connVars, progressVars, hotVars, extVars>>

Spec == Init /\ [][Next]_allVars

-----------------------------------------------------------------------------
\* The promises of a component need no check while another one runs.
Running(c) == focus = c

\* What ships is a combination UPS sells, carries the customs its lane requires, is
\* what was rated and paid for, and crosses a border on no lane that is closed
\* when it ships.
ShipmentPromise ==
  /\ [](Running("shipment") => /\ Ship!TypeOK
                            /\ Ship!CompatibleShipment
                            /\ Ship!CustomsComplete
                            /\ Ship!QuoteIsForWhatShips)
  /\ Ship!ClosedLanesStayClosed

\* Whatever was cached, imported, evicted or torn by whom, a caller gets the mapping
\* of the columns it asked about.
MappingPromise ==
  Running("mapping") => Cache!TypeOK /\ Cache!AnswersAreForTheColumns

\* The events of a run are numbered without a gap and chained, whoever wrote them, and
\* the mirror shows none the ledger does not have.
AuditPromise ==
  Running("audit") => Audit!TypeOK /\ Audit!ChainUnbroken /\ Audit!MirrorOfCommitted

\* What is saved of a connection can be decrypted, and a connected row holds
\* credentials the provider has accepted, but for overlaps the histories name.
ConnectionPromise ==
  Running("connections") => Conn!TypeOK /\ Conn!SavedIsReadable /\ Conn!ConnectedIsAccepted

\* A page alone on a job is told everything from its subscription on, no event is
\* shown twice, and no page is ahead of the counters it would reload.
ProgressPromise ==
  Running("progress") =>
    /\ Progress!TypeOK
    /\ Progress!AlonePageMissesNothing
    /\ Progress!ShownOnce
    /\ Progress!PageIsNotAhead

\* A watched file is kept in one place, batched at most once, as a job of its own
\* rows, and ships unattended only within the limits set.
WatchdogPromise ==
  Running("hotfolder") =>
    /\ Hot!TypeOK
    /\ Hot!FilesAreKept
    /\ Hot!BatchedOnce
    /\ Hot!WatchedJobIsOfItsFile
    /\ Hot!UnattendedIsWithinLimits

\* A call is answered from the shop its platform is connected to, a repeated update
\* fulfills an order once, and a number reported as written is on the order.
ShopPromise ==
  Running("external") =>
    /\ Ext!TypeOK
    /\ Ext!AnswersAreTheConnectedShops
    /\ Ext!RetriesDoNotDuplicate
    /\ Ext!ReportedNumberIsOnTheOrder
=============================================================================
