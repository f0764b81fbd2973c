----------------------------- MODULE WriteBack -----------------------------
(***************************************************************************)
(* What happens to a tracking number after UPS returned it: the row's      *)
(* commit, the batch's in-memory updates, the durable write-back task, and *)
(* the write to whatever source is loaded when the batch ends              *)
(* (batch_engine.py, write_back_worker.py, DataSourceMCPClient).  One job; *)
(* its runs follow each other: the confirmed batch, and, after a crash or  *)
(* an end that left rows pending, batch_execute or a CLI approval.         *)
(***************************************************************************)
EXTENDS DataSource

CONSTANTS
  MaxRuns,     \* bound: executions of the job
  MaxCrashes   \* bound: process deaths

ASSUME RunAssumption == MaxRuns \in Nat /\ MaxCrashes \in Nat

VARIABLES
  job,      \* the source the job's rows were fetched from
  enabled,  \* jobs.write_back_enabled
  row,      \* job_rows.status; "open" is any end that has no tracking number
  task,     \* write_back_tasks.status of each row
  step,     \* how far the run's task of each row is
  updates,  \* successful_write_back_updates, in memory
  run,      \* what the run is doing
  route,    \* the source get_source_info named when the write-back began
  todo,     \* updates not yet written
  retry,    \* row whose call is being retried after a reconnect
  failed,   \* rows in the result's "errors"
  written,  \* history: the tracking numbers each source holds
  told,     \* history: rows whose write was reported a success
  shipper,  \* history: the run that shipped each row
  runs,     \* runs so far
  crashes   \* process deaths so far

runVars == <<step, updates, run, route, todo, retry, failed>>
dbVars  == <<job, enabled, row, task>>
history == <<written, told, shipper>>
vars == <<sourceVars, dbVars, runVars, history, runs, crashes>>

RowNumbers == UNION {Numbers(s) : s \in Sources}
NoRow == 0

TypeOK ==
  /\ SourceTypeOK
  /\ job \in Sources \cup {NoSource}
  /\ enabled \in BOOLEAN
  /\ row \in [RowNumbers -> {"none", "pending", "completed", "open"}]
  /\ task \in [RowNumbers -> {"none", "pending", "completed"}]
  /\ step \in [RowNumbers -> {"todo", "committed", "counted", "done"}]
  /\ updates \in SUBSET RowNumbers
  /\ run \in {"idle", "shipping", "looking", "writing", "ended"}
  /\ route \in Sources \cup {NoSource}
  /\ todo \in SUBSET RowNumbers
  /\ retry \in RowNumbers \cup {NoRow}
  /\ failed \in SUBSET RowNumbers
  /\ written \in SUBSET [src : Sources, line : Nat, row : RowNumbers]
  /\ told \in SUBSET RowNumbers
  /\ shipper \in [RowNumbers -> 0 .. MaxRuns]
  /\ runs \in 0 .. MaxRuns
  /\ crashes \in 0 .. MaxCrashes

NoRun ==
  /\ step' = [n \in RowNumbers |-> "done"]
  /\ updates' = {}
  /\ route' = NoSource
  /\ todo' = {}
  /\ retry' = NoRow
  /\ failed' = {}

Init ==
  /\ SourceInit
  /\ job = NoSource
  /\ enabled = TRUE
  /\ row = [n \in RowNumbers |-> "none"]
  /\ task = [n \in RowNumbers |-> "none"]
  /\ step = [n \in RowNumbers |-> "done"]
  /\ updates = {}
  /\ run = "idle"
  /\ route = NoSource
  /\ todo = {}
  /\ retry = NoRow
  /\ failed = {}
  /\ written = {}
  /\ told = {}
  /\ shipper = [n \in RowNumbers |-> 0]
  /\ runs = 0
  /\ crashes = 0

\* The pipeline fetches the loaded rows and creates their job.
CreateJob ==
  /\ job = NoSource
  /\ table # NoSource
  /\ job' = table
  /\ enabled' \in BOOLEAN
  /\ row' = [n \in RowNumbers |-> IF n \in loaded THEN "pending" ELSE "none"]
  /\ UNCHANGED <<sourceVars, task, runVars, history, runs, crashes>>

-----------------------------------------------------------------------------
(* The run's rows.                                                         *)


\* execute() takes the rows that are pending.
StartRun ==
  /\ run \in {"idle", "ended"}
  /\ runs < MaxRuns
  /\ \E n \in RowNumbers : row[n] = "pending"
  /\ runs' = runs + 1
  /\ run' = "shipping"
  /\ step' = [n \in RowNumbers |-> IF row[n] = "pending" THEN "todo" ELSE "done"]
  /\ updates' = {}
  /\ route' = NoSource
  /\ todo' = {}
  /\ failed' = {}
  /\ UNCHANGED <<sourceVars, dbVars, retry, history, crashes>>

\* Phase 2 commits the tracking number with the row's status.
ShipRow(n) ==
  /\ step[n] = "todo"
  /\ row' = [row EXCEPT ![n] = "completed"]
  /\ step' = [step EXCEPT ![n] = "committed"]
  /\ shipper' = [shipper EXCEPT ![n] = runs]
  /\ UNCHANGED <<sourceVars, job, enabled, task, updates, run, route, todo, retry,
                 failed, written, told, runs, crashes>>

\* The row fails, needs review, or has no tracking number.
CloseRow(n) ==
  /\ step[n] = "todo"
  /\ row' = [row EXCEPT ![n] = "open"]
  /\ step' = [step EXCEPT ![n] = "done"]
  /\ UNCHANGED <<sourceVars, job, enabled, task, updates, run, route, todo, retry,
                 failed, history, runs, crashes>>

\* Under counters_lock: the update is remembered in memory.
CountRow(n) ==
  /\ step[n] = "committed"
  /\ updates' = updates \cup {n}
  /\ step' = [step EXCEPT ![n] = "counted"]
  /\ UNCHANGED <<sourceVars, dbVars, run, route, todo, retry, failed, history, runs,
                 crashes>>

\* Under db_lock: enqueue_write_back inserts the task, or refreshes a pending one.
EnqueueRow(n) ==
  /\ step[n] = "counted"
  /\ task' = [task EXCEPT ![n] = IF @ = "none" THEN "pending" ELSE @]
  /\ step' = [step EXCEPT ![n] = "done"]
  /\ UNCHANGED <<sourceVars, job, enabled, row, updates, run, route, todo, retry,
                 failed, history, runs, crashes>>

\* gather() returns: nothing to write, write-back disabled, or the source is asked for.
GatherEnds ==
  /\ run = "shipping"
  /\ \A n \in RowNumbers : step[n] = "done"
  /\ run' = IF updates = {} \/ ~enabled THEN "ended" ELSE "looking"
  /\ UNCHANGED <<sourceVars, dbVars, step, updates, route, todo, retry, failed,
                 history, runs, crashes>>

-----------------------------------------------------------------------------
(* The write-back.                                                         *)

\* No source is loaded, or get_source_info raises: the tasks stay as they are.
LookUpFails ==
  /\ run = "looking"
  /\ run' = "ended"
  /\ UNCHANGED <<sourceVars, dbVars, step, updates, route, todo, retry, failed,
                 history, runs, crashes>>

\* The source loaded by now, whichever it is, decides platform or file.
LookUp ==
  /\ run = "looking"
  /\ current # NoSource
  /\ route' = current
  /\ todo' = updates
  /\ run' = "writing"
  /\ UNCHANGED <<sourceVars, dbVars, step, updates, retry, failed, history, runs,
                 crashes>>

\* Whether write_back can place row n in source s: a database was detached after
\* its import, and the name of a platform is no source type it supports.
Writable(s, n) ==
  /\ s # NoSource
  /\ \/ KindOf[s] \in Flat /\ InFile(s, n)
     \/ KindOf[s] \in Companion

\* The tracking number of row n in source s: flat files are rewritten at the
\* line the number selects; a companion line and a platform's order name the row.
Record(s, n) ==
  [src |-> s, row |-> n,
   line |-> IF KindOf[s] \in Flat THEN TargetLine(n)
            ELSE IF n \in Numbers(s) THEN ImportedRows(s)[n] ELSE 0]

\* One call ended: its row is a success, or joins the errors.
Called(n, ok) ==
  /\ todo' = todo \ {n}
  /\ retry' = NoRow
  /\ told' = IF ok THEN told \cup {n} ELSE told
  /\ failed' = IF ok THEN failed ELSE failed \cup {n}
  /\ UNCHANGED <<dbVars, step, updates, run, route, shipper, runs, crashes>>

InCall(n) == run = "writing" /\ n \in todo /\ retry \in {n, NoRow}

\* DataSourceMCPClient.write_back_batch: one write_back per row, each to the
\* source that is loaded when the call arrives.
WriteFile(n) ==
  /\ InCall(n)
  /\ KindOf[route] \notin Platforms
  /\ \/ /\ Writable(current, n)
        /\ written' = written \cup {Record(current, n)}
        /\ Called(n, TRUE)
     \/ /\ UNCHANGED written
        /\ Called(n, FALSE)
  /\ UNCHANGED sourceVars

\* The transport breaks under the call, before or after the file was replaced;
\* the gateway spawns a server without a source and calls again.
WriteBreaks(n) ==
  /\ InCall(n)
  /\ retry = NoRow
  /\ KindOf[route] \notin Platforms
  /\ Change
  /\ ServerLost
  /\ retry' = n
  /\ written' \in {written} \cup {written \cup {Record(s, n)} : s \in {t \in {current} : Writable(t, n)}}
  /\ UNCHANGED <<dbVars, step, updates, run, route, todo, failed, told, shipper, runs,
                 crashes>>

\* _write_back_external: update_tracking by the row's order id, at the platform
\* named when the write-back began; an error may come after the update.
WritePlatform(n) ==
  /\ InCall(n)
  /\ KindOf[route] \in Platforms
  /\ \/ written' = written \cup {Record(route, n)} /\ Called(n, TRUE)
     \/ written' \in {written, written \cup {Record(route, n)}} /\ Called(n, FALSE)
  /\ UNCHANGED sourceVars

Closed(S) == [n \in RowNumbers |-> IF n \in S /\ task[n] = "pending" THEN "completed" ELSE task[n]]

\* Mutant of FinishWriteBack: clears the queue after a partial write-back too.
FinishWriteBackBlind ==
  /\ run = "writing"
  /\ todo = {}
  /\ task' = Closed(RowNumbers)
  /\ run' = "ended"
  /\ UNCHANGED <<sourceVars, job, enabled, row, step, updates, route, todo, retry,
                 failed, history, runs, crashes>>

\* Mutant of FinishWriteBack: ends only when every write succeeded.
FinishWriteBackStrict ==
  /\ run = "writing"
  /\ todo = {}
  /\ failed = {}
  /\ task' = Closed(RowNumbers)
  /\ run' = "ended"
  /\ UNCHANGED <<sourceVars, job, enabled, row, step, updates, route, todo, retry,
                 failed, history, runs, crashes>>

\* Without failures mark_tasks_completed closes every pending task of the job;
\* otherwise mark_rows_completed closes those of the rows that succeeded.
FinishWriteBack ==
  /\ run = "writing"
  /\ todo = {}
  /\ task' = Closed(IF failed = {} THEN RowNumbers ELSE updates \ failed)
  /\ run' = "ended"
  /\ UNCHANGED <<sourceVars, job, enabled, row, step, updates, route, todo, retry,
                 failed, history, runs, crashes>>

-----------------------------------------------------------------------------
\* The process dies, its MCP server with it; rows whose call was out come back
\* as needs_review.
Crash ==
  /\ crashes < MaxCrashes
  /\ crashes' = crashes + 1
  /\ ServerLost
  /\ run' = "idle"
  /\ NoRun
  /\ \E S \in SUBSET {n \in RowNumbers : step[n] = "todo"} :
       row' = [n \in RowNumbers |-> IF n \in S THEN "open" ELSE row[n]]
  /\ UNCHANGED <<changes, job, enabled, task, history, runs>>

RowStep(n) == ShipRow(n) \/ CloseRow(n) \/ CountRow(n) \/ EnqueueRow(n)

WriteStep(n) == WriteFile(n) \/ WriteBreaks(n) \/ WritePlatform(n)

RunStep ==
  \/ \E n \in RowNumbers : RowStep(n) \/ WriteStep(n)
  \/ GatherEnds
  \/ LookUp
  \/ LookUpFails
  \/ FinishWriteBack

Next ==
  \/ SourceStep /\ UNCHANGED <<dbVars, runVars, history, runs, crashes>>
  \/ CreateJob
  \/ StartRun
  \/ RunStep
  \/ Crash

Spec == Init /\ [][Next]_vars

\* asyncio runs every ready task, and each call of the gateway ends by an
\* answer, an error or its timeout.
FairSpec == Spec /\ WF_vars(RunStep)

-----------------------------------------------------------------------------
\* The rows belong to the job's source, and a row has reached what its task passed:
\* it is open to a run as long as it is pending, and has a write-back task only
\* after it was shipped.
JobInv ==
  /\ loaded # {} => table # NoSource /\ loaded \subseteq Numbers(table)
  /\ \A n \in RowNumbers :
       /\ row[n] # "none" => job # NoSource /\ n \in Numbers(job)
       /\ row[n] \in {"none", "pending"} => task[n] = "none"
       /\ step[n] = "todo" => row[n] = "pending"
       /\ step[n] \in {"committed", "counted"} => row[n] = "completed"
       /\ step[n] # "done" => run = "shipping"
  /\ \A w \in written : row[w.row] = "completed"

\* A run that has not died remembers every row it shipped, and of these it has
\* told the source about each one it neither has still to write nor failed to.
RunInv ==
  /\ \A n \in updates : row[n] = "completed"
  /\ todo \cup failed \subseteq updates
  /\ run = "writing" => route # NoSource /\ updates \ todo \subseteq told \cup failed
  /\ run # "idle" => runs > 0
  /\ \A n \in RowNumbers :
       /\ shipper[n] <= runs
       /\ run # "idle" /\ shipper[n] = runs => n \in updates \/ step[n] = "committed"

\* The state has its types, and the source the server names is the one whose rows it
\* holds, every one of them, unless an import failed part way; each row is as far
\* as its run has brought it.
StateIsSound == TypeOK /\ TableMatchesMetadata /\ JobInv /\ RunInv

\* A tracking number written to the source its row was imported from is written
\* to that very row: the numbering of the import and of the write agree.
TrackingOnItsRow ==
  \A w \in written : w.src = job => w.line = ImportedRows(job)[w.row]

\* A run closes the task of a row it shipped itself only when the source was
\* told the tracking number; what it may close unwritten is left over from a
\* run before it.
OwnTasksClosedWhenWritten ==
  \A n \in RowNumbers :
    task[n] = "completed" /\ n \notin told => shipper[n] < runs

\* write_back_worker.py: tasks survive crashes and are marked completed after a
\* successful bulk write-back.
ClosedTasksWereWritten ==
  \A n \in RowNumbers : task[n] = "completed" => n \in told

\* Every batch gets past its write-back, whatever the sources answer.
RunEnds == run = "shipping" ~> run \in {"ended", "idle"}
=============================================================================
