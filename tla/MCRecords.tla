----------------------------- MODULE MCRecords ------------------------------
(***************************************************************************)
(* The records the services keep, each on its own: "focus" is the one that *)
(* runs, the others keep their initial state, so the state space is the    *)
(* sum of theirs.  The order ledger, which the execution of a job is shown *)
(* to implement, is one of them.                                           *)
(***************************************************************************)
EXTENDS OrderLedger, Sequences, FiniteSets, TLC

CONSTANTS None,
  MaxMessages, MaxShown, MaxFaults, Resume,
  Handles, Fields, MaxBookCalls,
  LabelRows, MaxStops,
  Imports, Importers, MaxImports,
  Chats, MaxPickups, MaxCalls, MaxConfirms,
  Starters, ColumnsOf, Filled, OldTasks, MaxFailures,
  Pids, NoPid, MaxStopCmds

VARIABLES focus,
  chat, record, messages, line, turn, page, agent, staged, sent, faults,
  book, made, edited, op,
  backend, staging, final, rowIs, labelAt, step, answered, merged, stops,
  table, current, importer, imports, crossed, returned,
  ups, previewed, confirmed, used, acted, broken, doing, cards, calls,
  tables, columns, nulls, clash, tasks, unique, writer, at, todo, company, failures,
  pidFile, proc, found, bound, stopping, overlaps, stopCmds

ASSUME RecordsAssumption == {MaxMessages, MaxShown, MaxFaults, Resume} \subseteq Nat

Chat == INSTANCE ChatRecord WITH asked <- messages
Book == INSTANCE AddressBook
Label == INSTANCE LabelStorage
Sources == INSTANCE SavedSources
Desk == INSTANCE PickupDesk
Schema == INSTANCE SchemaUpgrade
Daemon == INSTANCE DaemonControl

-----------------------------------------------------------------------------
Import(type, name, sheet, saves) ==
  [type |-> type, name |-> name, path |-> name, sheet |-> sheet, saves |-> saves]

\* One workbook with and without a sheet named, a file, and one of a kind that is
\* not saved.
MCImports == {Import("csv", "a.csv", None, TRUE), Import("excel", "b.xlsx", None, TRUE),
              Import("excel", "b.xlsx", "s", TRUE), Import("json", "c.json", None, FALSE)}

\* Two tables, one column each, and up to three write-back tasks of one row.
MCColumns == [jobs |-> {"hash"}, connections |-> {"version"}]
MCTasks   ==
  {[row |-> 1, status |-> "pending", age |-> 1], [row |-> 1, status |-> "completed", age |-> 2],
   [row |-> 1, status |-> "pending", age |-> 3]}

-----------------------------------------------------------------------------
Components == {"chat", "book", "labels", "saved", "ledger", "pickup", "schema", "daemon"}

chatVars == <<chat, record, messages, line, turn, page, agent, staged, sent, faults>>
bookVars == <<book, made, edited, op>>
labelVars == <<backend, staging, final, rowIs, labelAt, step, answered, merged, stops>>
savedVars == <<table, current, importer, imports, crossed, returned>>
ledgerVars == vars
pickupVars == <<ups, previewed, confirmed, used, acted, broken, doing, cards, calls>>
schemaVars == <<tables, columns, nulls, clash, tasks, unique, writer, at, todo, company, failures>>
daemonVars == <<pidFile, proc, found, bound, stopping, overlaps, stopCmds>>

Rest(c) ==
  /\ UNCHANGED focus
  /\ c # "chat" => UNCHANGED chatVars
  /\ c # "book" => UNCHANGED bookVars
  /\ c # "labels" => UNCHANGED labelVars
  /\ c # "saved" => UNCHANGED savedVars
  /\ c # "ledger" => UNCHANGED ledgerVars
  /\ c # "pickup" => UNCHANGED pickupVars
  /\ c # "schema" => UNCHANGED schemaVars
  /\ c # "daemon" => UNCHANGED daemonVars

RecordsInit ==
  /\ focus \in Components
  /\ Chat!Init
  /\ Book!Init
  /\ Label!Init
  /\ Sources!Init
  /\ Init
  /\ Desk!Init
  /\ Schema!Init /\ (focus # "schema" => tables = {})
  /\ Daemon!Init

RecordsNext ==
  \/ focus = "chat" /\ Chat!Next /\ Rest("chat")
  \/ focus = "book" /\ Book!Next /\ Rest("book")
  \/ focus = "labels" /\ Label!Next /\ Rest("labels")
  \/ focus = "saved" /\ Sources!Next /\ Rest("saved")
  \/ focus = "ledger" /\ Next /\ Rest("ledger")
  \/ focus = "pickup" /\ Desk!Next /\ Rest("pickup")
  \/ focus = "schema" /\ Schema!Next /\ Rest("schema")
  \/ focus = "daemon" /\ Daemon!Next /\ Rest("daemon")

allVars == <<focus, chatVars, bookVars, labelVars, savedVars, ledgerVars, pickupVars, schemaVars, daemonVars>>

RecordsSpec == RecordsInit /\ [][RecordsNext]_allVars

-----------------------------------------------------------------------------
\* The promises of a component need no check while another one runs.
Running(c) == focus = c

\* The record of a conversation replays what its page was shown, in the order of the
\* messages, its title stays the user's, and a document goes to UPS once.
ChatPromise ==
  Running("chat") =>
    /\ Chat!TypeOK
    /\ Chat!ReplayIsThePage
    /\ Chat!AnswersInOrder
    /\ Chat!TitleStays
    /\ Chat!DocumentSentOnce

\* Contacts, commands and saved sources: no two rows take one name, an accepted edit
\* is not undone by an edit of something else, what was deleted stays deleted, and a
\* reconnection imports the source that was picked.
NamedRowsPromise ==
  /\ [](Running("book") => Book!TypeOK /\ Book!NamesAreUnique /\ Book!EditsAreKept)
  /\ [](Running("saved") => Sources!TypeOK /\ Sources!SourceSavedOnce /\ Sources!ReconnectsThePicked)
  /\ Book!DeletedStaysDeleted

\* A completed row has its label whenever the server died, the merged download has
\* every label of the job, and no cleanup takes the label of a row still to be resolved.
LabelPromise ==
  /\ [](Running("labels") => Label!TypeOK /\ Label!CompletedHasItsLabel /\ Label!MergedIsWhole)
  /\ Label!ReviewKeepsItsLabel

\* Conversations book and cancel no more pickups than their users confirmed, what a
\* card claims is so at UPS, and no live pickup is without its card, but for answers lost.
PickupPromise ==
  Running("pickup") =>
    /\ Desk!TypeOK
    /\ Desk!CallsAreConfirmed
    /\ Desk!ActsAsConfirmed
    /\ Desk!CardsAreTrue
    /\ Desk!NoHiddenPickup

\* Whatever starts at once or died half way, a process that is up works on a whole
\* schema, a lone start succeeds, no pending write-back is dropped; a daemon that serves
\* is the one on record, and a server recovers jobs only when no other one runs.
StartupPromise ==
  /\ [](Running("schema") => Schema!TypeOK /\ Schema!UpgradeIsComplete /\ Schema!LoneStartSucceeds)
  /\ [](Running("daemon") => Daemon!TypeOK /\ Daemon!ServingIsOnRecord /\ Daemon!RecoversAlone)
  /\ Schema!PendingWriteBackSurvives
=============================================================================
