---------------------------- MODULE DataSource ----------------------------
(***************************************************************************)
(* The Data Source MCP server and the process-global gateway to it.  The   *)
(* server holds one source at a time: the DuckDB table imported_data and,  *)
(* kept apart from it, the metadata current_source.  Sessions, routes and  *)
(* CLI commands share it and may replace the source at any moment.  A tool *)
(* of the server is one step, except get_source_info, which reads the      *)
(* metadata, waits on its log message, and reads the table then.  A        *)
(* transport failure makes the gateway kill the server and spawn another   *)
(* one, which holds nothing.                                               *)
(***************************************************************************)
EXTENDS SourceRows

CONSTANTS
  NoSource,    \* no source is loaded
  MaxChanges   \* bound: imports, disconnects and server losses in a behaviour

ASSUME ChangeAssumption ==
  /\ NoSource \notin Sources
  /\ MaxChanges \in Nat

VARIABLES
  current,  \* lifespan_context["current_source"]
  table,    \* the source whose rows imported_data holds
  loaded,   \* the row numbers imported_data holds
  torn,     \* history: an import failed part way and nothing has healed it
  changes   \* imports, disconnects and server losses so far

sourceVars == <<current, table, loaded, torn, changes>>

SourceTypeOK ==
  /\ current \in Sources \cup {NoSource}
  /\ table \in Sources \cup {NoSource}
  /\ loaded \in SUBSET (UNION {Numbers(s) : s \in Sources})
  /\ torn \in BOOLEAN
  /\ changes \in 0 .. MaxChanges

SourceInit ==
  /\ current = NoSource
  /\ table = NoSource
  /\ loaded = {}
  /\ torn = FALSE
  /\ changes = 0

Change == changes < MaxChanges /\ changes' = changes + 1

\* A tool that succeeds replaces the table, then the metadata, no await between.
Load(s) ==
  /\ Change
  /\ table' = s
  /\ loaded' = Numbers(s)
  /\ current' = s
  /\ torn' = FALSE

\* An adapter that creates the table and then raises among its inserts has
\* replaced the table already; the tool raises with it and the metadata stays.
LoadFails(s) ==
  /\ Change
  /\ table' = s
  /\ \E k \in 0 .. Cardinality(Numbers(s)) - 1 : loaded' = {n \in Numbers(s) : n <= k}
  /\ torn' = TRUE
  /\ UNCHANGED current

\* import_records drops the old table first, so a column list DuckDB refuses
\* leaves no table at all.
RecordsRefused(s) ==
  /\ Change
  /\ table' = NoSource
  /\ loaded' = {}
  /\ torn' = TRUE
  /\ UNCHANGED current

\* import_csv and import_file: one CREATE OR REPLACE TABLE ... AS statement.
ImportDelimited(s) == KindOf[s] \in {"csv", "delimited"} /\ Load(s)

\* import_database: likewise, from a database attached for this call only.
ImportDatabase(s) == KindOf[s] = "database" /\ Load(s)

\* import_excel: a typed table, then one insert per row.
ImportExcel(s) == KindOf[s] = "excel" /\ (Load(s) \/ LoadFails(s))

\* import_file for JSON, XML, EDI and fixed-width files, import_edi and
\* import_fixed_width: column types come from the first value of each column.
ImportParsed(s) == KindOf[s] \in Companion /\ (Load(s) \/ LoadFails(s))

\* import_records: the orders an agent fetched from a platform.
ImportRecords(s) ==
  KindOf[s] \in Platforms /\ (Load(s) \/ LoadFails(s) \/ RecordsRefused(s))

\* Mutant of ClearSource: leaves the metadata behind.
ClearSourceKeeping ==
  /\ Change
  /\ table' = NoSource
  /\ loaded' = {}
  /\ torn' = FALSE
  /\ UNCHANGED current

\* disconnect() -> clear_source.
ClearSource ==
  /\ Change
  /\ table' = NoSource
  /\ loaded' = {}
  /\ current' = NoSource
  /\ torn' = FALSE

\* The transport breaks; the next call spawns a server that holds nothing.
ServerLost ==
  /\ table' = NoSource
  /\ loaded' = {}
  /\ current' = NoSource
  /\ torn' = FALSE

SourceStep ==
  \/ \E s \in Sources :
       \/ ImportDelimited(s)
       \/ ImportDatabase(s)
       \/ ImportExcel(s)
       \/ ImportParsed(s)
       \/ ImportRecords(s)
  \/ ClearSource
  \/ Change /\ ServerLost

-----------------------------------------------------------------------------
\* The metadata describes the imported table, and the table holds every row,
\* unless an import failed part way: every other operation of the server
\* replaces both or neither.
TableMatchesMetadata ==
  ~torn => table = current /\ (table # NoSource => loaded = Numbers(table))
=============================================================================
