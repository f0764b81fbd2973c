--------------------------- MODULE BatchExecution ---------------------------
(***************************************************************************)
(* The execution of one shipping job: its status, its rows, the labels on  *)
(* disk, and the processes that run, interrupt and recover it.             *)
(*                                                                         *)
(* An executor is a process that may run services/batch_executor.py: the   *)
(* API server, whose event loop runs one task per confirmed job, and any   *)
(* number of standalone CLI processes (InProcessRunner) that share the     *)
(* server's database.  Event-loop code is atomic between two awaits, while *)
(* the routes declared with "def" run in threads and interleave with it at *)
(* every commit; so does every other process.                              *)
(*                                                                         *)
(* UPS and its MCP server are external: a request that left the process    *)
(* may or may not create a shipment before the answer arrives.             *)
(***************************************************************************)
EXTENDS Naturals, FiniteSets

CONSTANTS
  Rows,              \* the rows of the job
  Server,            \* the API server, as an executor
  Clis,              \* the standalone CLI processes sharing the database
  MaxConcurrent,     \* BATCH_CONCURRENCY: row tasks of an executor past the semaphore
  ReconnectMayFail,  \* whether the UPS MCP process may fail to respawn
  MaxCrashes,        \* bound: process deaths in a behaviour
  NoStatus           \* "no status write is pending"

Executors == {Server} \cup Clis

ASSUME ExecutionAssumption ==
  /\ IsFiniteSet(Rows)
  /\ Server \notin Clis
  /\ MaxConcurrent \in Nat \ {0}
  /\ ReconnectMayFail \in BOOLEAN
  /\ MaxCrashes \in Nat

VARIABLES
  jobStatus,   \* jobs.status, or "deleted"
  processed,   \* jobs.processed_rows
  rowStatus,   \* job_rows.status of each row, or "deleted"
  tracked,     \* rows whose ups_tracking_number is set
  attempts,    \* recovery_attempt_count of each row
  label,       \* where the label file of each row is
  phase,       \* what each executor is doing with the job
  pc,          \* how far each executor's task of each row is
  succ, fail,  \* rows each executor counted successful, failed
  boot,        \* life cycle of the server process
  recover,     \* in_flight rows the startup recovery has yet to treat
  handler,     \* the event-loop handler that holds the loop at a commit
  patch,       \* status each executor's process validated and will write
  skip,        \* whether a skip request has passed its check
  made,        \* shipments UPS created for each executor's calls, per row
  crashes      \* process deaths so far

dbVars     == <<jobStatus, processed, rowStatus, tracked, attempts>>
taskVars   == <<phase, pc, succ, fail>>
serverVars == <<boot, recover, handler, skip>>
vars == <<dbVars, label, taskVars, serverVars, patch, made, crashes>>

Terminal == {"completed", "failed", "cancelled"}
JobStatuses == {"pending", "running", "paused"} \cup Terminal
RowStatuses == {"pending", "in_flight", "completed", "failed", "skipped",
                "needs_review"}
Steps == {"none", "queued", "calling", "created", "accepted", "staged",
          "promoted", "committed", "done"}
Phases == {"idle", "scheduled", "running", "poisoned", "settled", "ended"}
MaxRecoveryAttempts == 3

TypeOK ==
  /\ jobStatus \in JobStatuses \cup {"deleted"}
  /\ processed \in Nat
  /\ rowStatus \in [Rows -> RowStatuses \cup {"deleted"}]
  /\ tracked \in SUBSET Rows
  /\ attempts \in [Rows -> Nat]
  /\ label \in [Rows -> {"none", "staged", "final"}]
  /\ phase \in [Executors -> Phases]
  /\ pc \in [Executors -> [Rows -> Steps]]
  /\ succ \in [Executors -> SUBSET Rows]
  /\ fail \in [Executors -> SUBSET Rows]
  /\ boot \in {"up", "stopped", "down", "recovering"}
  /\ recover \in SUBSET Rows
  /\ handler \in {"none", "confirming", "autoconfirming"}
  /\ patch \in [Executors -> JobStatuses \cup {NoStatus}]
  /\ skip \in BOOLEAN
  /\ made \in [Executors -> [Rows -> Nat]]
  /\ crashes \in 0 .. MaxCrashes

\* The job as the pipeline leaves it: previewed, pending, nothing started.
Init ==
  /\ jobStatus = "pending"
  /\ processed = 0
  /\ rowStatus = [r \in Rows |-> "pending"]
  /\ tracked = {}
  /\ attempts = [r \in Rows |-> 0]
  /\ label = [r \in Rows |-> "none"]
  /\ phase = [w \in Executors |-> "idle"]
  /\ pc = [w \in Executors |-> [r \in Rows |-> "none"]]
  /\ succ = [w \in Executors |-> {}]
  /\ fail = [w \in Executors |-> {}]
  /\ boot = "up"
  /\ recover = {}
  /\ handler = "none"
  /\ patch = [w \in Executors |-> NoStatus]
  /\ skip = FALSE
  /\ made = [w \in Executors |-> [r \in Rows |-> 0]]
  /\ crashes = 0

-----------------------------------------------------------------------------
(* The job's state machine, as job_service.py states it.                   *)

ValidTransitions(s) ==
  CASE s = "pending" -> {"running", "cancelled", "failed"}
    [] s = "running" -> {"paused", "completed", "failed", "cancelled"}
    [] s = "paused"  -> {"running", "cancelled"}
    [] OTHER         -> {}

\* PATCH /jobs/{id}/status reads and validates in a worker thread ...
PatchCheck(t) ==
  /\ boot = "up"
  /\ patch[Server] = NoStatus
  /\ t \in ValidTransitions(jobStatus)
  /\ patch' = [patch EXCEPT ![Server] = t]
  /\ UNCHANGED <<dbVars, label, taskVars, serverVars, made, crashes>>

\* ... as InProcessRunner.cancel_job does in its own process ...
CancelCheck(c) ==
  /\ patch[c] = NoStatus
  /\ jobStatus \in {"pending", "running"}
  /\ patch' = [patch EXCEPT ![c] = "cancelled"]
  /\ UNCHANGED <<dbVars, label, taskVars, serverVars, made, crashes>>

\* ... and writes what it validated, whatever the status is by now.
PatchWrite(w) ==
  /\ patch[w] # NoStatus
  /\ jobStatus' = IF jobStatus = "deleted" THEN "deleted" ELSE patch[w]
  /\ patch' = [patch EXCEPT ![w] = NoStatus]
  /\ UNCHANGED <<processed, rowStatus, tracked, attempts, label, taskVars,
                 serverVars, made, crashes>>

\* DELETE /jobs/{id}: no guard on the status; rows go by cascade.
DeleteJob ==
  /\ boot = "up"
  /\ jobStatus # "deleted"
  /\ jobStatus' = "deleted"
  /\ rowStatus' = [r \in Rows |-> "deleted"]
  /\ UNCHANGED <<processed, tracked, attempts, label, taskVars, serverVars,
                 patch, made, crashes>>

\* PATCH /jobs/{id}/rows/skip: the job is checked first ...
SkipCheck ==
  /\ boot = "up"
  /\ ~skip
  /\ jobStatus = "pending"
  /\ skip' = TRUE
  /\ UNCHANGED <<dbVars, label, taskVars, boot, recover, handler, patch, made,
                 crashes>>

\* Mutant of SkipWrite: the rows are skipped whatever they are by now.
SkipWriteBlind(R) ==
  /\ skip
  /\ rowStatus' = [r \in Rows |-> IF r \in R THEN "skipped" ELSE rowStatus[r]]
  /\ skip' = FALSE
  /\ UNCHANGED <<jobStatus, processed, tracked, attempts, label, taskVars, boot,
                 recover, handler, patch, made, crashes>>

\* ... then the requested rows that are still pending become skipped.
SkipWrite(R) ==
  /\ skip
  /\ rowStatus' = [r \in Rows |-> IF r \in R /\ rowStatus[r] = "pending"
                                  THEN "skipped" ELSE rowStatus[r]]
  /\ skip' = FALSE
  /\ UNCHANGED <<jobStatus, processed, tracked, attempts, label, taskVars, boot,
                 recover, handler, patch, made, crashes>>

-----------------------------------------------------------------------------
(* Starting an execution.                                                  *)

\* POST /jobs/{id}/confirm: compare-and-swap pending -> running, committed.
ConfirmSwap ==
  /\ boot = "up"
  /\ handler = "none"
  /\ jobStatus = "pending"
  /\ jobStatus' = "running"
  /\ handler' = "confirming"
  /\ UNCHANGED <<processed, rowStatus, tracked, attempts, label, taskVars, boot,
                 recover, patch, skip, made, crashes>>

\* The rows no longer hash to what was previewed: the status written is
\* "pending", whatever it is by now.
ConfirmRollback ==
  /\ handler = "confirming"
  /\ jobStatus' = IF jobStatus = "deleted" THEN "deleted" ELSE "pending"
  /\ handler' = "none"
  /\ UNCHANGED <<processed, rowStatus, tracked, attempts, label, taskVars, boot,
                 recover, patch, skip, made, crashes>>

\* A service code the job may not carry, or the job gone: an error answer,
\* and the swapped status stays.
ConfirmRefused ==
  /\ handler = "confirming"
  /\ handler' = "none"
  /\ UNCHANGED <<dbVars, label, taskVars, boot, recover, patch, skip, made,
                 crashes>>

\* The options are committed and the batch task is created.
ConfirmLaunch ==
  /\ handler = "confirming"
  /\ jobStatus # "deleted"
  /\ handler' = "none"
  /\ phase' = [phase EXCEPT ![Server] = "scheduled"]
  /\ UNCHANGED <<dbVars, label, pc, succ, fail, boot, recover, patch, skip, made,
                 crashes>>

\* The hot-folder watchdog reads a pending job its rules approve ...
AutoConfirmCheck ==
  /\ boot = "up"
  /\ handler = "none"
  /\ jobStatus = "pending"
  /\ handler' = "autoconfirming"
  /\ UNCHANGED <<dbVars, label, taskVars, boot, recover, patch, skip, made,
                 crashes>>

\* ... and, with no await between, writes "running" and starts executing.
\* A job deleted meanwhile makes the commit raise.
AutoConfirmWrite ==
  /\ handler = "autoconfirming"
  /\ handler' = "none"
  /\ IF jobStatus = "deleted"
     THEN UNCHANGED <<jobStatus, phase>>
     ELSE /\ jobStatus' = "running"
          /\ phase' = [phase EXCEPT ![Server] = "scheduled"]
  /\ UNCHANGED <<processed, rowStatus, tracked, attempts, label, pc, succ, fail,
                 boot, recover, patch, skip, made, crashes>>

\* InProcessRunner.approve_job: executes with no look at the job's status.
ApproveJob(c) ==
  /\ phase[c] \in {"idle", "settled", "ended"}
  /\ phase' = [phase EXCEPT ![c] = "scheduled"]
  /\ UNCHANGED <<dbVars, label, pc, succ, fail, serverVars, patch, made, crashes>>

OnLoop(w) == w = Server => handler = "none"

\* Mutant of LoadRows: rows a dead run left in_flight are executed again.
LoadRowsAgain(w) ==
  /\ phase[w] = "scheduled"
  /\ OnLoop(w)
  /\ jobStatus # "deleted"
  /\ phase' = [phase EXCEPT ![w] = "running"]
  /\ pc' = [pc EXCEPT ![w] = [r \in Rows |->
              IF rowStatus[r] \in {"pending", "in_flight"} THEN "queued" ELSE "none"]]
  /\ succ' = [succ EXCEPT ![w] = {}]
  /\ fail' = [fail EXCEPT ![w] = {}]
  /\ UNCHANGED <<dbVars, label, serverVars, patch, made, crashes>>

\* execute_batch reads the job and its pending rows, gets the credentials
\* and the UPS client, and starts one task per row.
LoadRows(w) ==
  /\ phase[w] = "scheduled"
  /\ OnLoop(w)
  /\ jobStatus # "deleted"
  /\ phase' = [phase EXCEPT ![w] = "running"]
  /\ pc' = [pc EXCEPT ![w] = [r \in Rows |->
              IF rowStatus[r] = "pending" THEN "queued" ELSE "none"]]
  /\ succ' = [succ EXCEPT ![w] = {}]
  /\ fail' = [fail EXCEPT ![w] = {}]
  /\ UNCHANGED <<dbVars, label, serverVars, patch, made, crashes>>

\* No job, shipper or credentials: raised before the "try", and
\* _execute_batch swallows it, so nobody writes the job.
SetupFails(w) ==
  /\ phase[w] = "scheduled"
  /\ OnLoop(w)
  /\ phase' = [phase EXCEPT ![w] = "ended"]
  /\ UNCHANGED <<dbVars, label, pc, succ, fail, serverVars, patch, made, crashes>>

\* The UPS MCP server does not come up: the one failure the "except" of
\* execute_batch turns into a failed job.
ConnectFails(w) ==
  /\ phase[w] = "scheduled"
  /\ OnLoop(w)
  /\ jobStatus # "deleted"
  /\ phase' = [phase EXCEPT ![w] = "ended"]
  /\ jobStatus' = IF jobStatus = "running" THEN "failed" ELSE jobStatus
  /\ UNCHANGED <<processed, rowStatus, tracked, attempts, label, pc, succ, fail,
                 serverVars, patch, made, crashes>>

-----------------------------------------------------------------------------
(* One row: BatchEngine.execute._process_row.                              *)

\* Mutant of InSlot: a finished task never releases the semaphore.
InSlotLeaking(w) == {r \in Rows : pc[w][r] \notin {"none", "queued"}}

InSlot(w) == {r \in Rows : pc[w][r] \notin {"none", "queued", "done"}}

\* The session of w can still write row r.
CanWrite(w, r) ==
  /\ phase[w] = "running"
  /\ OnLoop(w)
  /\ rowStatus[r] # "deleted"

Advance(w, r, from, to) ==
  /\ pc[w][r] = from
  /\ pc' = [pc EXCEPT ![w][r] = to]

\* The row's task ends in its error handler: counted failed, and the job's
\* progress counter committed.
EndFailed(w, r, status) ==
  /\ rowStatus' = [rowStatus EXCEPT ![r] = status]
  /\ pc' = [pc EXCEPT ![w][r] = "done"]
  /\ fail' = [fail EXCEPT ![w] = @ \cup {r}]
  /\ processed' = Cardinality(succ[w]) + Cardinality(fail[w] \cup {r})
  /\ UNCHANGED <<jobStatus, tracked, attempts, label, phase, succ, serverVars,
                 patch, made, crashes>>

\* Parse or pre-flight validation error.  The handler tests the status it
\* has in memory, as loaded or as refreshed after a commit of its session.
RejectRow(w, r) ==
  /\ pc[w][r] = "queued"
  /\ Cardinality(InSlot(w)) < MaxConcurrent
  /\ CanWrite(w, r)
  /\ \E seen \in {"pending", rowStatus[r]} :
       EndFailed(w, r, IF seen \in {"pending", "in_flight"}
                       THEN "failed" ELSE rowStatus[r])

\* Phase 1: in_flight and the idempotency key committed, the UPS call sent.
StartRow(w, r) ==
  /\ Cardinality(InSlot(w)) < MaxConcurrent
  /\ CanWrite(w, r)
  /\ Advance(w, r, "queued", "calling")
  /\ rowStatus' = [rowStatus EXCEPT ![r] = "in_flight"]
  /\ UNCHANGED <<jobStatus, processed, tracked, attempts, label, phase, succ,
                 fail, serverVars, patch, made, crashes>>

\* External: UPS creates the shipment of an outstanding request.
UpsCreates(w, r) ==
  /\ Advance(w, r, "calling", "created")
  /\ made' = [made EXCEPT ![w][r] = @ + 1]
  /\ UNCHANGED <<dbVars, label, phase, succ, fail, serverVars, patch, crashes>>

\* Mutant of UpsRejects: an ambiguous error is taken for a rejection.
UpsRejectsAmbiguous(w, r) ==
  /\ pc[w][r] \in {"calling", "created"}
  /\ CanWrite(w, r)
  /\ EndFailed(w, r, "failed")

\* UPSServiceError, or the request never left: nothing was created.
UpsRejects(w, r) ==
  /\ pc[w][r] = "calling"
  /\ CanWrite(w, r)
  /\ EndFailed(w, r, "failed")

\* The transport broke under the call and its recovery could not reconnect:
\* the MCPConnectionError of the reconnect replaces the ambiguous error.
ReconnectFails(w, r) ==
  /\ ReconnectMayFail
  /\ pc[w][r] \in {"calling", "created"}
  /\ CanWrite(w, r)
  /\ EndFailed(w, r, "failed")

\* Mutants of UpsAmbiguous: the call is retried, or the row marked failed.
UpsAmbiguousRetried(w, r) ==
  /\ pc[w][r] \in {"calling", "created"}
  /\ CanWrite(w, r)
  /\ pc' = [pc EXCEPT ![w][r] = "calling"]
  /\ UNCHANGED <<dbVars, label, phase, succ, fail, serverVars, patch, made, crashes>>

UpsAmbiguousFailed(w, r) ==
  /\ pc[w][r] \in {"calling", "created"}
  /\ CanWrite(w, r)
  /\ EndFailed(w, r, "failed")

\* Any other error of the call: UPS may have acted.
UpsAmbiguous(w, r) ==
  /\ pc[w][r] \in {"calling", "created"}
  /\ CanWrite(w, r)
  /\ EndFailed(w, r, "needs_review")

\* Mutant of UpsAnswers: the tracking number is recorded before Phase 2.
UpsAnswersTracked(w, r) ==
  /\ phase[w] = "running"
  /\ OnLoop(w)
  /\ Advance(w, r, "created", "accepted")
  /\ tracked' = tracked \cup {r}
  /\ UNCHANGED <<jobStatus, processed, rowStatus, attempts, label, phase, succ,
                 fail, serverVars, patch, made, crashes>>

UpsAnswers(w, r) ==
  /\ phase[w] = "running"
  /\ OnLoop(w)
  /\ Advance(w, r, "created", "accepted")
  /\ UNCHANGED <<dbVars, label, phase, succ, fail, serverVars, patch, made,
                 crashes>>

StageLabel(w, r) ==
  /\ phase[w] = "running"
  /\ OnLoop(w)
  /\ Advance(w, r, "accepted", "staged")
  /\ label' = [label EXCEPT ![r] = "staged"]
  /\ UNCHANGED <<dbVars, phase, succ, fail, serverVars, patch, made, crashes>>

\* The answer carries no label: nothing to stage.
NoLabel(w, r) ==
  /\ phase[w] = "running"
  /\ OnLoop(w)
  /\ Advance(w, r, "accepted", "promoted")
  /\ UNCHANGED <<dbVars, label, phase, succ, fail, serverVars, patch, made,
                 crashes>>

PromoteLabel(w, r) ==
  /\ phase[w] = "running"
  /\ OnLoop(w)
  /\ Advance(w, r, "staged", "promoted")
  /\ label' = [label EXCEPT ![r] = "final"]
  /\ UNCHANGED <<dbVars, phase, succ, fail, serverVars, patch, made, crashes>>

\* Mutant of PostUpsFails: a label that cannot be promoted fails the row.
PostUpsFailsRow(w, r) ==
  /\ pc[w][r] \in {"accepted", "staged"}
  /\ CanWrite(w, r)
  /\ EndFailed(w, r, "failed")

\* Reading the answer, staging or promoting raised: needs_review, the
\* tracking number kept if there is one, and the row counted neither way.
PostUpsFails(w, r) ==
  /\ pc[w][r] \in {"accepted", "staged"}
  /\ CanWrite(w, r)
  /\ pc' = [pc EXCEPT ![w][r] = "done"]
  /\ rowStatus' = [rowStatus EXCEPT ![r] = "needs_review"]
  /\ tracked' \in {tracked, tracked \cup {r}}
  /\ UNCHANGED <<jobStatus, processed, attempts, label, phase, succ, fail,
                 serverVars, patch, made, crashes>>

\* Mutant of CommitRow: the row is completed before its label is promoted.
CommitRowEarly(w, r) ==
  /\ CanWrite(w, r)
  /\ Advance(w, r, "staged", "committed")
  /\ rowStatus' = [rowStatus EXCEPT ![r] = "completed"]
  /\ tracked' = tracked \cup {r}
  /\ succ' = [succ EXCEPT ![w] = @ \cup {r}]
  /\ UNCHANGED <<jobStatus, processed, attempts, label, phase, fail, serverVars,
                 patch, made, crashes>>

\* Phase 2: tracking, label path, cost and "completed" in one commit.
CommitRow(w, r) ==
  /\ CanWrite(w, r)
  /\ Advance(w, r, "promoted", "committed")
  /\ rowStatus' = [rowStatus EXCEPT ![r] = "completed"]
  /\ tracked' = tracked \cup {r}
  /\ succ' = [succ EXCEPT ![w] = @ \cup {r}]
  /\ UNCHANGED <<jobStatus, processed, attempts, label, phase, fail, serverVars,
                 patch, made, crashes>>

\* The write-back task is enqueued and the progress counter committed.
ReportRow(w, r) ==
  /\ CanWrite(w, r)
  /\ Advance(w, r, "committed", "done")
  /\ processed' = Cardinality(succ[w]) + Cardinality(fail[w])
  /\ UNCHANGED <<jobStatus, rowStatus, tracked, attempts, label, phase, succ,
                 fail, serverVars, patch, made, crashes>>

-----------------------------------------------------------------------------
(* The end of an execution.                                                *)

\* Mutant of FinishBatch: the status is written once no row waits for a slot.
FinishBatchEarly(w) ==
  /\ phase[w] = "running"
  /\ OnLoop(w)
  /\ jobStatus # "deleted"
  /\ \A r \in Rows : pc[w][r] # "queued"
  /\ jobStatus' = IF fail[w] = {} THEN "completed" ELSE "failed"
  /\ processed' = Cardinality(succ[w]) + Cardinality(fail[w])
  /\ phase' = [phase EXCEPT ![w] = "settled"]
  /\ UNCHANGED <<rowStatus, tracked, attempts, label, pc, succ, fail, serverVars,
                 patch, made, crashes>>

\* gather returned: the final status is written over whatever is there.
FinishBatch(w) ==
  /\ phase[w] = "running"
  /\ OnLoop(w)
  /\ jobStatus # "deleted"
  /\ \A r \in Rows : pc[w][r] \in {"none", "done"}
  /\ jobStatus' = IF fail[w] = {} THEN "completed" ELSE "failed"
  /\ processed' = Cardinality(succ[w]) + Cardinality(fail[w])
  /\ phase' = [phase EXCEPT ![w] = "settled"]
  /\ UNCHANGED <<rowStatus, tracked, attempts, label, pc, succ, fail, serverVars,
                 patch, made, crashes>>

\* A commit raises (database locked, or the job deleted under it): the
\* shared session refuses every later write until it is closed.
SessionBreaks(w) ==
  /\ phase[w] = "running"
  /\ OnLoop(w)
  /\ phase' = [phase EXCEPT ![w] = "poisoned"]
  /\ UNCHANGED <<dbVars, label, pc, succ, fail, serverVars, patch, made, crashes>>

\* The error leaves gather, the handler of execute_batch fails on the same
\* session, and the session is closed under the remaining row tasks.
CloseBatch(w) ==
  /\ phase[w] = "poisoned"
  /\ OnLoop(w)
  /\ phase' = [phase EXCEPT ![w] = "ended"]
  /\ pc' = [pc EXCEPT ![w] = [r \in Rows |-> "none"]]
  /\ UNCHANGED <<dbVars, label, succ, fail, serverVars, patch, made, crashes>>

-----------------------------------------------------------------------------
(* Death and recovery.                                                     *)

\* Process w loses what it holds in memory.
Forget(w) ==
  /\ phase' = [phase EXCEPT ![w] = "idle"]
  /\ pc' = [pc EXCEPT ![w] = [r \in Rows |-> "none"]]
  /\ succ' = [succ EXCEPT ![w] = {}]
  /\ fail' = [fail EXCEPT ![w] = {}]
  /\ patch' = [patch EXCEPT ![w] = NoStatus]

ServerDies(to) ==
  /\ crashes < MaxCrashes
  /\ crashes' = crashes + 1
  /\ boot' = to
  /\ recover' = {}
  /\ handler' = "none"
  /\ skip' = FALSE
  /\ Forget(Server)
  /\ UNCHANGED <<dbVars, label, made>>

CrashServer == boot \in {"up", "recovering"} /\ ServerDies("down")

\* shutdown_batch_runtime cancels the tasks its drain did not see end: the
\* CancelledError passes every "except Exception" of the row tasks.
StopServer == boot = "up" /\ handler = "none" /\ ServerDies("stopped")

CrashCli(c) ==
  /\ phase[c] \in {"scheduled", "running", "poisoned"}
  /\ crashes < MaxCrashes
  /\ crashes' = crashes + 1
  /\ Forget(c)
  /\ UNCHANGED <<dbVars, label, serverVars, made>>

\* Mutants of StartServer: rows without a tracking number are passed over, or
\* every unresolved row is recovered.
StartServerTracked ==
  /\ boot \in {"down", "stopped"}
  /\ boot' = "recovering"
  /\ recover' = IF jobStatus = "running"
                THEN {r \in tracked : rowStatus[r] = "in_flight"} ELSE {}
  /\ UNCHANGED <<dbVars, label, taskVars, handler, skip, patch, made, crashes>>

StartServerUnresolved ==
  /\ boot \in {"down", "stopped"}
  /\ boot' = "recovering"
  /\ recover' = {r \in Rows : rowStatus[r] \in {"in_flight", "needs_review"}}
  /\ UNCHANGED <<dbVars, label, taskVars, handler, skip, patch, made, crashes>>

\* run_startup_recovery, before the first request: the in_flight rows of
\* jobs in status "running".
StartServer ==
  /\ boot \in {"down", "stopped"}
  /\ boot' = "recovering"
  /\ recover' = IF jobStatus = "running"
                THEN {r \in Rows : rowStatus[r] = "in_flight"} ELSE {}
  /\ UNCHANGED <<dbVars, label, taskVars, handler, skip, patch, made, crashes>>

\* Mutant of RecoverRow: a row given to the operator is looked at again.
RecoverRowAgain(r) ==
  /\ boot = "recovering"
  /\ r \in recover
  /\ rowStatus[r] # "deleted"
  /\ rowStatus' = [rowStatus EXCEPT ![r] = "needs_review"]
  /\ UNCHANGED <<jobStatus, processed, tracked, attempts, label, taskVars, boot,
                 recover, handler, skip, patch, made, crashes>>

\* recover_in_flight_rows.  Building the UPS client raises (its arguments
\* are missing), so every lookup of a tracked row fails (tier 3); an
\* untracked row goes to the operator at once (tier 2).
RecoverRow(r) ==
  LET n == IF r \in tracked THEN attempts[r] + 1 ELSE attempts[r]
  IN
  /\ boot = "recovering"
  /\ r \in recover
  /\ rowStatus[r] # "deleted"
  /\ recover' = recover \ {r}
  /\ attempts' = [attempts EXCEPT ![r] = n]
  /\ rowStatus' = [rowStatus EXCEPT ![r] =
                     IF r \notin tracked \/ n >= MaxRecoveryAttempts
                     THEN "needs_review" ELSE rowStatus[r]]
  /\ UNCHANGED <<jobStatus, processed, tracked, label, taskVars, boot, handler,
                 skip, patch, made, crashes>>

\* The labels after cleanup_staging, which spares a job with unresolved rows.
Cleaned ==
  IF \E r \in Rows : rowStatus[r] \in {"in_flight", "needs_review"} THEN label
  ELSE [r \in Rows |-> IF label[r] = "staged" THEN "none" ELSE label[r]]

\* Recovery over, the labels are cleaned up (an error there is only logged)
\* and requests are served.
Serve ==
  /\ boot = "recovering"
  /\ boot' = "up"
  /\ recover' = {}
  /\ label' \in {label, Cleaned}
  /\ UNCHANGED <<dbVars, taskVars, handler, skip, patch, made, crashes>>

FinishRecovery == recover = {} /\ Serve

\* A row's commit raises: the rest of the job is left for the next start.
RecoveryFails == recover # {} /\ Serve

-----------------------------------------------------------------------------

RowStep(w, r) ==
  \/ RejectRow(w, r)    \/ StartRow(w, r)
  \/ UpsRejects(w, r)   \/ ReconnectFails(w, r) \/ UpsAmbiguous(w, r)
  \/ UpsAnswers(w, r)   \/ StageLabel(w, r)     \/ NoLabel(w, r)
  \/ PromoteLabel(w, r) \/ PostUpsFails(w, r)
  \/ CommitRow(w, r)    \/ ReportRow(w, r)

BatchStep(w) ==
  \/ LoadRows(w) \/ SetupFails(w) \/ ConnectFails(w)
  \/ FinishBatch(w) \/ SessionBreaks(w) \/ CloseBatch(w)

ConfirmStep ==
  \/ ConfirmSwap \/ ConfirmRollback \/ ConfirmRefused \/ ConfirmLaunch
  \/ AutoConfirmCheck \/ AutoConfirmWrite

UserStep ==
  \/ \E t \in JobStatuses : PatchCheck(t)
  \/ \E w \in Executors : PatchWrite(w)
  \/ \E R \in SUBSET Rows : SkipWrite(R)
  \/ SkipCheck \/ DeleteJob

CliStep(c) == ApproveJob(c) \/ CancelCheck(c) \/ CrashCli(c)

LifeStep ==
  \/ CrashServer \/ StopServer \/ StartServer \/ FinishRecovery \/ RecoveryFails
  \/ \E r \in Rows : RecoverRow(r)

Next ==
  \/ \E w \in Executors : BatchStep(w)
  \/ \E w \in Executors, r \in Rows : RowStep(w, r) \/ UpsCreates(w, r)
  \/ ConfirmStep
  \/ UserStep
  \/ \E c \in Clis : CliStep(c)
  \/ LifeStep

Spec == Init /\ [][Next]_vars
-----------------------------------------------------------------------------
(* Safety.                                                                 *)

\* However many processes execute the job, crash and start again, no process
\* has UPS create two shipments for the same row (batch_engine.py: a row is
\* committed in_flight before its call, and only pending rows are loaded).
AtMostOncePerExecutor == \A w \in Executors, r \in Rows : made[w][r] <= 1

\* Nor does a row that was shipped by one executor ever read as not started
\* to another, or to the skip route: it is never loaded or skipped again.
ShippedRowsAreClaimed ==
  \A w \in Executors, r \in Rows :
    made[w][r] > 0 => rowStatus[r] \notin {"pending", "skipped"}

\* No row is shipped twice, by any two executors: the "exactly-once"
\* semantics the idempotency key of _process_row is meant to give.
AtMostOneShipment ==
  /\ AtMostOncePerExecutor
  /\ \A v, w \in Executors, r \in Rows :
       made[v][r] > 0 /\ made[w][r] > 0 => v = w

\* A shipment that exists at UPS is never hidden behind a row that reads as
\* failed, skipped or not yet started: "MUST use needs_review, never failed".
NoHiddenShipment ==
  \A w \in Executors, r \in Rows :
    made[w][r] > 0 =>
      rowStatus[r] \in {"in_flight", "completed", "needs_review", "deleted"}

\* A completed row has its shipment, its UPS tracking number, and no label
\* left where the startup cleanup would delete it (promote, then commit).
CompletedRowsAreShipped ==
  \A r \in Rows : rowStatus[r] = "completed" =>
    /\ \E w \in Executors : made[w][r] > 0
    /\ r \in tracked
    /\ label[r] # "staged"

\* A staged label belongs to a row recovery or the operator still needs, so
\* cleanup_staging never deletes the only copy of a shipment's label.
StagedLabelsAreOpen ==
  \A r \in Rows : label[r] = "staged" =>
    rowStatus[r] \in {"in_flight", "needs_review", "deleted"}

\* No in_flight row carries a UPS tracking number, so recovery always takes
\* tier 2: tiers 1 and 3 of recover_in_flight_rows have nothing to work on.
InFlightUntracked ==
  \A r \in Rows : rowStatus[r] = "in_flight" => r \notin tracked

\* What the records of the rows and labels claim is so, and stays enough to go on
\* from after a crash (batch_engine.py:682, main.py:342).
RecordsAreTrue ==
  /\ CompletedRowsAreShipped
  /\ StagedLabelsAreOpen
  /\ InFlightUntracked

\* When execute_batch has written the final status, its counts describe the
\* rows: the successful are exactly the completed rows, every failed row was
\* counted failed, and no row is left open.
SettledCountsAgree ==
  \A w \in Executors : phase[w] = "settled" /\ jobStatus # "deleted" =>
    /\ succ[w] = {r \in Rows : rowStatus[r] = "completed"}
    /\ {r \in Rows : rowStatus[r] = "failed"} \subseteq fail[w]
    /\ \A r \in fail[w] : rowStatus[r] \in {"failed", "needs_review", "skipped"}
    /\ \A r \in Rows : rowStatus[r] \notin {"pending", "in_flight"}
    /\ processed = Cardinality(succ[w] \cup fail[w])

\* A row that reached a final status keeps it until the job is deleted: no
\* late answer, recovery pass or second start reopens or rewrites it.
ClosedRowsStayClosed ==
  [][\A r \in Rows : rowStatus[r] \in {"completed", "failed", "needs_review"} =>
       rowStatus'[r] \in {rowStatus[r], "deleted"}]_vars

\* When startup recovery of a job in status s went through, none of its rows
\* is still in_flight.
RecoveryResolves(s) ==
  boot = "recovering" /\ boot' = "up" /\ recover = {} /\ jobStatus = s =>
    \A r \in Rows : rowStatus'[r] # "in_flight"

\* Recovery resolves every row a dead process left in flight (running job).
RunningJobIsRecovered == [][RecoveryResolves("running")]_vars

-----------------------------------------------------------------------------
(* Liveness.                                                               *)

\* The event loop runs its ready tasks, every UPS call returns, the commit
\* of a deleted row raises, and the process goes through its startup.
Fairness ==
  /\ WF_vars(ConfirmRollback \/ ConfirmRefused \/ ConfirmLaunch)
  /\ WF_vars(AutoConfirmWrite)
  /\ WF_vars(FinishRecovery)
  /\ \A r \in Rows : WF_vars(RecoverRow(r))
  /\ \A w \in Executors :
       /\ WF_vars(LoadRows(w) \/ SetupFails(w) \/ ConnectFails(w))
       /\ WF_vars(FinishBatch(w))
       /\ WF_vars(CloseBatch(w))
       /\ WF_vars(jobStatus = "deleted" /\ SessionBreaks(w))
       /\ \A r \in Rows : WF_vars(RowStep(w, r))

FairSpec == Spec /\ Fairness

\* A created batch task ends, whatever its calls answer and whatever users do
\* to the job meanwhile, unless the process dies: no row waits for ever for a
\* slot of the semaphore.
BatchTerminates ==
  \A w \in Executors :
    phase[w] = "scheduled" ~> phase[w] \in {"settled", "ended", "idle"}

\* The server always gets through its recovery to serving requests.
RecoveryTerminates == boot = "recovering" ~> boot \in {"up", "down"}

-----------------------------------------------------------------------------
(* What the code or its comments claim, and the code does not keep.        *)

\* "CancelledError ... -> request MAY have reached UPS -> needs_review": a
\* shutdown that cancels a batch leaves no row in_flight.
ShutdownLeavesNoInFlight ==
  boot = "stopped" => \A r \in Rows : rowStatus[r] # "in_flight"

\* VALID_TRANSITIONS: completed, failed and cancelled are terminal.
TerminalIsFinal ==
  [][(jobStatus \in Terminal) => jobStatus' \in {jobStatus, "deleted"}]_vars

\* "Find interrupted jobs (running or paused)": a paused job is recovered too.
PausedJobIsRecovered == [][RecoveryResolves("paused")]_vars

\* confirm_job "updates the job status to 'running' and triggers batch
\* execution": when it returns, a job it left running has its task.
ConfirmLaunches ==
  [][handler = "confirming" /\ handler' = "none" /\ jobStatus' = "running" =>
       phase'[Server] = "scheduled"]_vars

\* get_job_summary's pending_count "excludes needs_review and in_flight": once
\* an execution settled it is the number of rows not run.
CountOf(s) == Cardinality({r \in Rows : rowStatus[r] = s})

PendingCountIsUnrun ==
  (\E w \in Executors : phase[w] = "settled") /\ jobStatus # "deleted" =>
    Cardinality(Rows) =
      CountOf("pending") + CountOf("skipped")
        + processed + CountOf("needs_review") + CountOf("in_flight")
=============================================================================
