---------------------------- MODULE SavedSources ----------------------------
(***************************************************************************)
(* The saved data sources: every import saves what it takes to import the  *)
(* same file again, and a user reconnects by picking a saved source.  Each *)
(* process (the server, a standalone CLI) has a data source of its own and *)
(* imports one thing at a time; the table is shared, and has no unique     *)
(* key, so that a save looks its row up and then writes.                   *)
(***************************************************************************)
EXTENDS Naturals, FiniteSets

CONSTANTS None,
  Imports,     \* what can be imported: [type, name, path, sheet, saves]
  Importers,   \* the processes
  MaxImports   \* bounds the imports, which number the rows they make

VARIABLES
  table,     \* the rows: number -> [type, name, path, sheet, rows], or None
  current,   \* process -> the source it has imported, or None
  importer,  \* process -> what it is doing
  imports,   \* imports begun so far
  crossed,   \* history: two processes saved one source at the same time
  returned   \* process -> the row and the import of its last reconnection

savedVars == <<table, current, importer, imports, crossed, returned>>

RowIds == 1..MaxImports
Resting == [at |-> "rest", what |-> None, found |-> 0, row |-> 0, made |-> 0]

\* Same columns of the table that identify a source.
Key(x) == <<x.type, x.path, x.sheet>>
\* What a row holds of what was imported: neither the delimiter nor the header.
Saved(x) == [type |-> x.type, name |-> x.name, path |-> x.path, sheet |-> x.sheet]

TypeOK ==
  /\ \A i \in RowIds : table[i] # None => table[i] \in {Saved(x) : x \in Imports}
  /\ \A p \in Importers :
       /\ importer[p].at \in {"rest", "importing", "imported", "looked", "touch"}
       /\ importer[p].found \in {0} \cup RowIds
       /\ current[p] # None => current[p] \in {Key(x) : x \in Imports}
  /\ imports \in 0..MaxImports
  /\ crossed \subseteq {Key(x) : x \in Imports}

Init ==
  /\ table = [i \in RowIds |-> None]
  /\ current = [p \in Importers |-> None]
  /\ importer = [p \in Importers |-> Resting]
  /\ imports = 0
  /\ crossed = {}
  /\ returned = [p \in Importers |-> None]

-----------------------------------------------------------------------------
Begin(p, x, i) ==
  /\ importer[p].at = "rest"
  /\ imports < MaxImports
  /\ imports' = imports + 1
  /\ importer' = [importer EXCEPT ![p] = [at |-> "importing", what |-> x, found |-> 0, row |-> i,
                                          made |-> imports + 1]]
  /\ UNCHANGED <<table, current, crossed, returned>>

\* import_csv, import_excel, import_file or import_database, with its options.
Import(p) == \E x \in Imports : Begin(p, x, 0)

\* Mutant of AsSaved: the first sheet is read whatever sheet was saved.
AsFirstSheet(r) == [Saved(r) EXCEPT !.sheet = None]

\* What the row of a source imports again.
AsSaved(r) == Saved(r)

\* POST /saved-sources/reconnect and the CLI, by an id or by the first row of a
\* name: only the file, and the sheet, are given to the import, everything else
\* is the default.  A database needs its connection string typed in again.
Reconnect(p) ==
  \E i \in RowIds :
    /\ table[i] # None
    /\ LET x == AsSaved(table[i])
       IN  Begin(p, [type |-> x.type, name |-> x.name, path |-> x.path, sheet |-> x.sheet,
                     saves |-> TRUE], i)

\* The data source server has replaced its table, or could not.
Imported(p) ==
  /\ importer[p].at = "importing"
  /\ LET x == importer[p].what
     IN  \/ /\ current' = [current EXCEPT ![p] = Key(x)]
            /\ importer' = IF x.saves THEN [importer EXCEPT ![p].at = "imported"]
                           ELSE [importer EXCEPT ![p] = Resting]
         \/ importer' = [importer EXCEPT ![p] = Resting] /\ UNCHANGED current
  /\ UNCHANGED <<table, imports, crossed, returned>>

Ids(key) == {i \in RowIds : table[i] # None /\ Key(table[i]) = key}

\* Mutant of Lookup: a source without a sheet is never found.
LookupSheet(x) == IF x.sheet = None THEN {} ELSE Ids(Key(x))

\* save_or_update_*: the query for the row of the source.
Lookup(x) == Ids(Key(x))

Look(p) ==
  /\ importer[p].at = "imported"
  /\ LET found == Lookup(importer[p].what)
     IN  importer' = [importer EXCEPT ![p].at = "looked",
                        ![p].found = IF found = {} THEN 0 ELSE CHOOSE i \in found : TRUE]
  /\ crossed' = crossed \cup
       {Key(importer[p].what) : q \in {q \in Importers \ {p} :
          importer[q].at = "looked" /\ Key(importer[q].what) = Key(importer[p].what)}}
  /\ UNCHANGED <<table, current, imports, returned>>

\* A row that is gone by the flush fails the save, which is only logged.
Save(p) ==
  /\ importer[p].at = "looked"
  /\ LET me == importer[p]
     IN  table' = IF me.found = 0 THEN [table EXCEPT ![me.made] = Saved(me.what)]
                  ELSE IF table[me.found] = None THEN table
                  ELSE [table EXCEPT ![me.found] = Saved(me.what)]
  /\ importer' = [importer EXCEPT ![p].at = "touch"]
  /\ UNCHANGED <<current, imports, crossed, returned>>

\* The row a user picked is touched; if it was deleted meanwhile the request fails,
\* with the source connected all the same.
Touch(p) ==
  /\ importer[p].at = "touch"
  /\ importer' = [importer EXCEPT ![p] = Resting]
  /\ returned' = IF importer[p].row = 0 THEN returned
                 ELSE IF table[importer[p].row] = None THEN returned
                 ELSE [returned EXCEPT ![p] = [row |-> importer[p].row, key |-> Key(importer[p].what)]]
  /\ UNCHANGED <<table, current, imports, crossed>>

DeleteSources ==
  /\ \E S \in (SUBSET {i \in RowIds : table[i] # None}) \ {{}} :
       table' = [i \in RowIds |-> IF i \in S THEN None ELSE table[i]]
  /\ UNCHANGED <<current, importer, imports, crossed, returned>>

Next ==
  \/ DeleteSources
  \/ \E p \in Importers :
       Import(p) \/ Reconnect(p) \/ Imported(p) \/ Look(p) \/ Save(p) \/ Touch(p)

-----------------------------------------------------------------------------
\* A source is saved once, however often it is imported, unless two processes
\* save it at the same time.
SourceSavedOnce ==
  \A i, j \in RowIds :
    table[i] # None /\ table[j] # None /\ i # j /\ Key(table[i]) = Key(table[j])
      => Key(table[i]) \in crossed

\* A reconnection imports the source of the row that was picked, whoever saved,
\* deleted or saved it anew meanwhile.
ReconnectsThePicked ==
  \A p \in Importers : returned[p] # None /\ table[returned[p].row] # None =>
    returned[p].key = Key(table[returned[p].row])
=============================================================================
