--------------------------- MODULE SchemaUpgrade ----------------------------
(***************************************************************************)
(* init_db, which every process runs when it starts: it creates the tables *)
(* that are missing, adds the columns an older database lacks, and then,   *)
(* in one transaction, backfills the new columns, drops duplicated         *)
(* write-back tasks and makes the two unique indexes.  SQLite commits each *)
(* DDL statement at once as long as no transaction is open, and has one    *)
(* writer: whoever meets its lock waits or, after a while, raises.         *)
(***************************************************************************)
EXTENDS Naturals, FiniteSets

CONSTANTS
  Starters,   \* processes that start on the same database
  ColumnsOf,  \* table -> the columns added since its first version
  Filled,     \* columns whose NULLs are backfilled
  OldTasks,   \* write-back tasks an old database may hold
  MaxFailures \* bounds the deaths and the starts that follow a failed one

Tables  == DOMAIN ColumnsOf
Columns == UNION {ColumnsOf[t] : t \in Tables}

VARIABLES
  tables, columns,  \* what exists
  nulls,            \* columns that hold NULL in some row
  clash,            \* two connections share a key
  tasks,            \* write-back tasks
  unique,           \* the unique indexes exist
  writer,           \* the process in a transaction, or "none"
  at,               \* process -> how far it is
  todo,             \* process -> what it found missing
  company,          \* history: process -> another started meanwhile
  failures

schemaVars == <<tables, columns, nulls, clash, tasks, unique, writer, at, todo,
                company, failures>>

TypeOK ==
  /\ tables \subseteq Tables /\ columns \subseteq Columns /\ nulls \subseteq columns
  /\ {clash, unique} \subseteq BOOLEAN
  /\ tasks \subseteq OldTasks
  /\ writer \in Starters \cup {"none"}
  /\ at \in [Starters -> {"off", "create", "look", "add", "fill", "finish", "ready", "failed"}]
  /\ todo \in [Starters -> SUBSET (Tables \cup Columns)]
  /\ company \in [Starters -> BOOLEAN]
  /\ failures \in 0 .. MaxFailures

\* A fresh database, or one of an older version.
Init ==
  /\ \/ tables = {} /\ clash = FALSE /\ tasks = {}
     \/ tables \in SUBSET Tables \ {{}} /\ clash \in BOOLEAN /\ tasks \in SUBSET OldTasks
  /\ columns = {}
  /\ nulls = {}
  /\ unique = FALSE
  /\ writer = "none"
  /\ at = [p \in Starters |-> "off"]
  /\ todo = [p \in Starters |-> {}]
  /\ company = [p \in Starters |-> FALSE]
  /\ failures = 0

Busy(p)   == at[p] \notin {"off", "ready", "failed"}
Goes(p, s) == at' = [at EXCEPT ![p] = s]
Finds(p, s) == todo' = [todo EXCEPT ![p] = s]

\* Mutant of Absent: create_all without its check.
AbsentUnchecked == Tables

\* What create_all's check finds missing.
Absent == Tables \ tables

Start(p) ==
  /\ at[p] \in {"off", "failed"}
  /\ at[p] = "failed" => failures < MaxFailures
  /\ Goes(p, "create")
  /\ Finds(p, Absent)
  /\ failures' = IF at[p] = "failed" THEN failures + 1 ELSE failures
  /\ company' = [q \in Starters |->
       IF q = p THEN \E o \in Starters \ {p} : Busy(o) ELSE company[q] \/ Busy(q)]
  /\ UNCHANGED <<tables, columns, nulls, clash, tasks, unique, writer>>

Locked(p) == writer \notin {p, "none"}

\* A statement that writes met the lock for too long, or found that its table
\* was created meanwhile: the error leaves init_db and the process ends.
Raises(p) ==
  /\ \/ Locked(p) /\ at[p] \in {"create", "add"} /\ todo[p] # {}
     \/ Locked(p) /\ at[p] = "fill"
     \/ at[p] = "create" /\ todo[p] \cap tables # {}
  /\ Goes(p, "failed")
  /\ UNCHANGED <<tables, columns, nulls, clash, tasks, unique, writer, todo,
                 company, failures>>

\* create_all: each table with all its columns.
CreateTable(p) ==
  /\ at[p] = "create"
  /\ ~Locked(p)
  /\ \E t \in todo[p] \ tables :
       /\ tables' = tables \cup {t}
       /\ columns' = columns \cup ColumnsOf[t]
       /\ Finds(p, todo[p] \ {t})
  /\ UNCHANGED <<nulls, clash, tasks, unique, writer, at, company, failures>>

\* Mutant of Look: a database with one new column is taken for upgraded.
LookForOne(p) ==
  /\ at[p] = "create"
  /\ todo[p] = {}
  /\ Goes(p, "add")
  /\ Finds(p, IF columns = {} THEN Columns ELSE {})
  /\ UNCHANGED <<tables, columns, nulls, clash, tasks, unique, writer, company, failures>>

\* PRAGMA table_info.
Look(p) ==
  /\ at[p] = "create"
  /\ todo[p] = {}
  /\ Goes(p, "add")
  /\ Finds(p, Columns \ columns)
  /\ UNCHANGED <<tables, columns, nulls, clash, tasks, unique, writer, company, failures>>

\* ALTER TABLE, for one column found missing; that another process added it
\* since is tolerated.  The old rows hold NULL in it.
AddColumn(p) ==
  /\ at[p] = "add"
  /\ ~Locked(p)
  /\ \E c \in todo[p] :
       /\ columns' = columns \cup {c}
       /\ nulls' = IF c \in columns \/ c \notin Filled THEN nulls ELSE nulls \cup {c}
       /\ Finds(p, todo[p] \ {c})
  /\ UNCHANGED <<tables, clash, tasks, unique, writer, at, company, failures>>

AllAdded(p) ==
  /\ at[p] = "add"
  /\ todo[p] = {}
  /\ Goes(p, "fill")
  /\ UNCHANGED <<tables, columns, nulls, clash, tasks, unique, writer, todo,
                 company, failures>>

\* The first UPDATE opens the transaction.
Begin(p) ==
  /\ at[p] = "fill"
  /\ ~Locked(p)
  /\ writer' = p
  /\ Goes(p, "finish")
  /\ UNCHANGED <<tables, columns, nulls, clash, tasks, unique, todo, company, failures>>

Rank(task) ==
  CASE task.status = "pending" -> 3
    [] task.status = "completed" -> 2
    [] OTHER -> 1

\* Mutant of Supersedes: the newest task of a row is kept.
SupersedesByAge(a, b) == a.row = b.row /\ a.age > b.age

\* Of the tasks of one row of a job a pending one is kept, then a completed one,
\* then the newest.
Supersedes(a, b) ==
  /\ a.row = b.row
  /\ \/ Rank(a) > Rank(b)
     \/ Rank(a) = Rank(b) /\ a.age > b.age

\* Backfill, deduplication and the indexes are committed together; duplicated
\* connection keys raise, which rolls all of it back.
Finish(p) ==
  /\ at[p] = "finish"
  /\ writer' = "none"
  /\ IF clash
       THEN Goes(p, "failed") /\ UNCHANGED <<nulls, tasks, unique>>
       ELSE /\ Goes(p, "ready")
            /\ nulls' = {}
            /\ tasks' = {b \in tasks : ~\E a \in tasks : Supersedes(a, b)}
            /\ unique' = TRUE
  /\ UNCHANGED <<tables, columns, clash, todo, company, failures>>

\* The process dies while it starts; an open transaction is rolled back.
Die(p) ==
  /\ Busy(p)
  /\ failures < MaxFailures
  /\ failures' = failures + 1
  /\ Goes(p, "off")
  /\ writer' = IF writer = p THEN "none" ELSE writer
  /\ UNCHANGED <<tables, columns, nulls, clash, tasks, unique, todo, company>>

Next ==
  \E p \in Starters :
    \/ Start(p)
    \/ Raises(p)
    \/ CreateTable(p)
    \/ Look(p)
    \/ AddColumn(p)
    \/ AllAdded(p)
    \/ Begin(p)
    \/ Finish(p)
    \/ Die(p)

-----------------------------------------------------------------------------
\* A process that is up works on a whole schema: wherever an earlier start died
\* and whatever starts at the same time, every table and column is there, no new
\* column holds NULL, and both unique indexes exist.
UpgradeIsComplete ==
  (\E p \in Starters : at[p] = "ready") =>
    tables = Tables /\ columns = Columns /\ nulls = {} /\ unique

\* init_db can be run again: a start that nobody accompanies fails only when
\* connection keys are duplicated, whatever a dead one left half done.
LoneStartSucceeds ==
  \A p \in Starters : at[p] = "failed" => company[p] \/ clash

\* An upgrade drops no write-back that is still to be done.
PendingWriteBackSurvives ==
  [][\A a \in tasks : a.status = "pending" =>
       \E b \in tasks' : b.row = a.row /\ b.status = "pending"]_schemaVars
=============================================================================
