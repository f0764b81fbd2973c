---------------------------- MODULE BatchProofs ----------------------------
(* What BatchExecution keeps for every set of rows, every set of CLI       *)
(* processes and every bound: its types, one call per row and executor,    *)
(* and, for a server that executes alone, that no shipment is hidden.      *)
EXTENDS BatchInvariant, FiniteSetTheorems, TLAPS

-----------------------------------------------------------------------------
(* Types.                                                                  *)

\* The counters of a batch are sizes of subsets of the finite set of rows.
LEMMA CountersAreNat ==
  ASSUME NEW S, S \in SUBSET Rows
  PROVE  Cardinality(S) \in Nat
<1>1. IsFiniteSet(Rows)
  BY ExecutionAssumption DEF ExecutionAssumption
<1>2. IsFiniteSet(S)
  BY <1>1, FS_Subset
<1> QED
  BY <1>2, FS_CardinalityType, Zenon

LEMMA ServerIsExecutor == Server \in Executors /\ Clis \subseteq Executors
BY DEF Executors

LEMMA InitTypeOK == Init => TypeOK
<1> SUFFICES ASSUME Init PROVE TypeOK
  OBVIOUS
<1>1. crashes \in 0 .. MaxCrashes
  BY ExecutionAssumption DEF ExecutionAssumption, Init
<1>2. /\ jobStatus \in JobStatuses \cup {"deleted"}
      /\ rowStatus \in [Rows -> RowStatuses \cup {"deleted"}]
      /\ tracked \in SUBSET Rows
      /\ attempts \in [Rows -> Nat]
      /\ label \in [Rows -> {"none", "staged", "final"}]
  BY DEF Init, JobStatuses, RowStatuses
<1>3. /\ phase \in [Executors -> Phases]
      /\ pc \in [Executors -> [Rows -> Steps]]
      /\ made \in [Executors -> [Rows -> Nat]]
  BY DEF Init, Phases, Steps
<1>4. /\ succ \in [Executors -> SUBSET Rows]
      /\ fail \in [Executors -> SUBSET Rows]
      /\ patch \in [Executors -> JobStatuses \cup {NoStatus}]
  BY DEF Init
<1> QED
  BY <1>1, <1>2, <1>3, <1>4 DEF Init, TypeOK

\* A step of one row's task.
LEMMA RowStepTypeOK ==
  ASSUME TypeOK, NEW w \in Executors, NEW r \in Rows,
         RowStep(w, r) \/ UpsCreates(w, r)
  PROVE  TypeOK'
<1> USE DEF TypeOK, dbVars, taskVars, serverVars
<1>1. succ[w] \in SUBSET Rows /\ fail[w] \in SUBSET Rows
      /\ fail[w] \cup {r} \in SUBSET Rows
  OBVIOUS
<1>2. /\ Cardinality(succ[w]) \in Nat
      /\ Cardinality(fail[w]) \in Nat
      /\ Cardinality(fail[w] \cup {r}) \in Nat
  BY <1>1, CountersAreNat
<1>3. ASSUME NEW st \in RowStatuses \cup {"deleted"}, EndFailed(w, r, st)
      PROVE  TypeOK'
  BY <1>2, <1>3 DEF EndFailed, Steps
<1>4. CASE RejectRow(w, r)
  BY <1>3, <1>4 DEF RejectRow, RowStatuses
<1>5. CASE StartRow(w, r)
  BY <1>5 DEF StartRow, Advance, Steps, RowStatuses
<1>6. CASE UpsRejects(w, r)
  BY <1>3, <1>6 DEF UpsRejects, RowStatuses
<1>7. CASE ReconnectFails(w, r)
  BY <1>3, <1>7 DEF ReconnectFails, RowStatuses
<1>8. CASE UpsAmbiguous(w, r)
  BY <1>3, <1>8 DEF UpsAmbiguous, RowStatuses
<1>9. CASE UpsAnswers(w, r)
  BY <1>9 DEF UpsAnswers, Advance, Steps
<1>10. CASE StageLabel(w, r)
  BY <1>10 DEF StageLabel, Advance, Steps
<1>11. CASE NoLabel(w, r)
  BY <1>11 DEF NoLabel, Advance, Steps
<1>12. CASE PromoteLabel(w, r)
  BY <1>12 DEF PromoteLabel, Advance, Steps
<1>13. CASE PostUpsFails(w, r)
  BY <1>13 DEF PostUpsFails, Steps, RowStatuses
<1>14. CASE CommitRow(w, r)
  BY <1>14 DEF CommitRow, Advance, Steps, RowStatuses
<1>15. CASE ReportRow(w, r)
  BY <1>2, <1>15 DEF ReportRow, Advance, Steps
<1>16. CASE UpsCreates(w, r)
  BY <1>16 DEF UpsCreates, Advance, Steps
<1> QED
  BY <1>4, <1>5, <1>6, <1>7, <1>8, <1>9, <1>10, <1>11, <1>12, <1>13, <1>14,
     <1>15, <1>16 DEF RowStep

\* A step of an execution as a whole.
LEMMA BatchStepTypeOK ==
  ASSUME TypeOK, NEW w \in Executors, BatchStep(w)
  PROVE  TypeOK'
<1> USE DEF TypeOK, dbVars, taskVars, serverVars
<1>1. Cardinality(succ[w]) \in Nat /\ Cardinality(fail[w]) \in Nat
  BY CountersAreNat
<1>2. CASE LoadRows(w)
  BY <1>2 DEF LoadRows, Phases, Steps
<1>3. CASE SetupFails(w)
  BY <1>3 DEF SetupFails, Phases
<1>4. CASE ConnectFails(w)
  BY <1>4 DEF ConnectFails, Phases, JobStatuses, Terminal
<1>5. CASE FinishBatch(w)
  BY <1>1, <1>5 DEF FinishBatch, Phases, JobStatuses, Terminal
<1>6. CASE SessionBreaks(w)
  BY <1>6 DEF SessionBreaks, Phases
<1>7. CASE CloseBatch(w)
  BY <1>7 DEF CloseBatch, Phases, Steps
<1> QED
  BY <1>2, <1>3, <1>4, <1>5, <1>6, <1>7 DEF BatchStep

LEMMA ConfirmStepTypeOK ==
  ASSUME TypeOK, ConfirmStep
  PROVE  TypeOK'
BY ServerIsExecutor
DEF TypeOK, dbVars, taskVars, serverVars, ConfirmStep, ConfirmSwap,
    ConfirmRollback, ConfirmRefused, ConfirmLaunch, AutoConfirmCheck,
    AutoConfirmWrite, JobStatuses, Phases

LEMMA UserStepTypeOK ==
  ASSUME TypeOK, UserStep
  PROVE  TypeOK'
<1> USE DEF TypeOK, dbVars, taskVars, serverVars
<1>1. ASSUME NEW t \in JobStatuses, PatchCheck(t) PROVE TypeOK'
  BY <1>1, ServerIsExecutor DEF PatchCheck
<1>2. ASSUME NEW w \in Executors, PatchWrite(w) PROVE TypeOK'
  BY <1>2 DEF PatchWrite
<1>3. ASSUME NEW R \in SUBSET Rows, SkipWrite(R) PROVE TypeOK'
  BY <1>3 DEF SkipWrite, RowStatuses
<1>4. CASE SkipCheck
  BY <1>4 DEF SkipCheck
<1>5. CASE DeleteJob
  BY <1>5 DEF DeleteJob
<1> QED
  BY <1>1, <1>2, <1>3, <1>4, <1>5 DEF UserStep

LEMMA CliStepTypeOK ==
  ASSUME TypeOK, NEW c \in Clis, CliStep(c)
  PROVE  TypeOK'
<1> USE ServerIsExecutor, ExecutionAssumption DEF ExecutionAssumption, TypeOK, dbVars, taskVars, serverVars
<1>1. CASE ApproveJob(c)
  BY <1>1 DEF ApproveJob, Phases
<1>2. CASE CancelCheck(c)
  BY <1>2 DEF CancelCheck, JobStatuses, Terminal
<1>3. CASE CrashCli(c)
  BY <1>3 DEF CrashCli, Forget, Phases, Steps
<1> QED
  BY <1>1, <1>2, <1>3 DEF CliStep

LEMMA LifeStepTypeOK ==
  ASSUME TypeOK, LifeStep
  PROVE  TypeOK'
<1> USE ServerIsExecutor, ExecutionAssumption DEF ExecutionAssumption, TypeOK, dbVars, taskVars, serverVars
<1>1. ASSUME NEW to \in {"down", "stopped"}, ServerDies(to) PROVE TypeOK'
  <2>1. /\ phase' \in [Executors -> Phases]
        /\ pc' \in [Executors -> [Rows -> Steps]]
        /\ succ' \in [Executors -> SUBSET Rows]
        /\ fail' \in [Executors -> SUBSET Rows]
        /\ patch' \in [Executors -> JobStatuses \cup {NoStatus}]
    BY <1>1 DEF ServerDies, Forget, Phases, Steps
  <2>2. crashes' \in 0 .. MaxCrashes
    BY <1>1 DEF ServerDies
  <2> QED
    BY <1>1, <2>1, <2>2 DEF ServerDies
<1>2. CASE StartServer
  BY <1>2 DEF StartServer
<1>3. CASE FinishRecovery \/ RecoveryFails
  BY <1>3 DEF FinishRecovery, RecoveryFails, Serve, Cleaned
<1>4. ASSUME NEW r \in Rows, RecoverRow(r) PROVE TypeOK'
  BY <1>4 DEF RecoverRow, RowStatuses
<1> QED
  BY <1>1, <1>2, <1>3, <1>4 DEF LifeStep, CrashServer, StopServer

LEMMA NextTypeOK == TypeOK /\ [Next]_vars => TypeOK'
<1> SUFFICES ASSUME TypeOK, [Next]_vars PROVE TypeOK'
  OBVIOUS
<1>1. CASE Next
  BY <1>1, RowStepTypeOK, BatchStepTypeOK, ConfirmStepTypeOK, UserStepTypeOK,
     CliStepTypeOK, LifeStepTypeOK DEF Next
<1>2. CASE UNCHANGED vars
  BY <1>2 DEF TypeOK, vars, dbVars, taskVars, serverVars
<1> QED
  BY <1>1, <1>2

\* Every variable keeps its type: no status outside the ones the schema
\* checks, counters that count, and no more crashes than allowed.
THEOREM TypeCorrect == Spec => []TypeOK
BY InitTypeOK, NextTypeOK, PTL DEF Spec

-----------------------------------------------------------------------------
(* Any number of executors.                                                *)

LEMMA InitClaimInv == Init => ClaimInv
BY DEF Init, ClaimInv, ClaimedFrom, Called

\* Nothing unclaims a row, and only its own task calls UPS for it: a step of
\* w's task of row r.
LEMMA RowStepClaimInv ==
  ASSUME TypeOK, ClaimInv, NEW w \in Executors, NEW r \in Rows,
         RowStep(w, r) \/ UpsCreates(w, r)
  PROVE  ClaimInv'
<1> SUFFICES ASSUME NEW v \in Executors, NEW q \in Rows
             PROVE  ClaimedFrom(v, q)'
  BY DEF ClaimInv
<1>1. ClaimedFrom(v, q) /\ ClaimedFrom(w, r)
  BY DEF ClaimInv
<1> USE <1>1 DEF TypeOK, ClaimedFrom, Called, Unclaimed
<1>2. ASSUME NEW st \in RowStatuses \cup {"deleted"}, EndFailed(w, r, st),
             st \in Unclaimed => rowStatus[r] \in Unclaimed /\ pc[w][r] = "queued"
      PROVE  ClaimedFrom(v, q)'
  BY <1>2 DEF EndFailed
<1>3. CASE RejectRow(w, r)
  BY <1>2, <1>3 DEF RejectRow, RowStatuses
<1>4. CASE StartRow(w, r)
  BY <1>4 DEF StartRow, Advance
<1>5. CASE UpsRejects(w, r)
  BY <1>2, <1>5 DEF UpsRejects, RowStatuses
<1>6. CASE ReconnectFails(w, r)
  BY <1>2, <1>6 DEF ReconnectFails, RowStatuses
<1>7. CASE UpsAmbiguous(w, r)
  BY <1>2, <1>7 DEF UpsAmbiguous, RowStatuses
<1>8. CASE UpsAnswers(w, r)
  BY <1>8 DEF UpsAnswers, Advance, dbVars
<1>9. CASE StageLabel(w, r)
  BY <1>9 DEF StageLabel, Advance, dbVars
<1>10. CASE NoLabel(w, r)
  BY <1>10 DEF NoLabel, Advance, dbVars
<1>11. CASE PromoteLabel(w, r)
  BY <1>11 DEF PromoteLabel, Advance, dbVars
<1>12. CASE PostUpsFails(w, r)
  BY <1>12 DEF PostUpsFails
<1>13. CASE CommitRow(w, r)
  BY <1>13 DEF CommitRow, Advance
<1>14. CASE ReportRow(w, r)
  BY <1>14 DEF ReportRow, Advance
<1>15. CASE UpsCreates(w, r)
  BY <1>15 DEF UpsCreates, Advance, dbVars
<1> QED
  BY <1>3, <1>4, <1>5, <1>6, <1>7, <1>8, <1>9, <1>10, <1>11, <1>12, <1>13,
     <1>14, <1>15 DEF RowStep

\* Executions start on rows nobody claimed, and end by forgetting their tasks.
LEMMA BatchStepClaimInv ==
  ASSUME TypeOK, ClaimInv, NEW w \in Executors, BatchStep(w)
  PROVE  ClaimInv'
<1> USE DEF TypeOK, ClaimInv, ClaimedFrom, Called, Unclaimed, dbVars
<1>1. CASE LoadRows(w)
  BY <1>1 DEF LoadRows
<1>2. CASE CloseBatch(w)
  BY <1>2 DEF CloseBatch
<1>3. CASE SetupFails(w) \/ ConnectFails(w) \/ FinishBatch(w) \/ SessionBreaks(w)
  BY <1>3 DEF SetupFails, ConnectFails, FinishBatch, SessionBreaks
<1> QED
  BY <1>1, <1>2, <1>3 DEF BatchStep

\* Users, the CLI and the life of the server.
LEMMA OtherStepClaimInv ==
  ASSUME TypeOK, ClaimInv,
         \/ ConfirmStep \/ UserStep \/ LifeStep
         \/ \E c \in Clis : CliStep(c)
  PROVE  ClaimInv'
<1> USE ServerIsExecutor
    DEF TypeOK, ClaimInv, ClaimedFrom, Called, Unclaimed, dbVars, taskVars
<1>1. CASE ConfirmStep
  BY <1>1 DEF ConfirmStep, ConfirmSwap, ConfirmRollback, ConfirmRefused,
              ConfirmLaunch, AutoConfirmCheck, AutoConfirmWrite
<1>2. ASSUME NEW R \in SUBSET Rows, SkipWrite(R) PROVE ClaimInv'
  BY <1>2 DEF SkipWrite
<1>3. CASE DeleteJob
  BY <1>3 DEF DeleteJob
<1>4. CASE SkipCheck \/ (\E t \in JobStatuses : PatchCheck(t))
           \/ (\E w \in Executors : PatchWrite(w))
  BY <1>4 DEF SkipCheck, PatchCheck, PatchWrite
<1>5. CASE \E c \in Clis : CliStep(c)
  <2> PICK c \in Clis : CliStep(c)
    BY <1>5
  <2>1. CASE ApproveJob(c) \/ CancelCheck(c)
    BY <2>1 DEF ApproveJob, CancelCheck
  <2>2. CASE CrashCli(c)
    BY <2>2 DEF CrashCli, Forget
  <2> QED
    BY <2>1, <2>2 DEF CliStep
<1>6. ASSUME NEW to, ServerDies(to) PROVE ClaimInv'
  BY <1>6 DEF ServerDies, Forget
<1>7. CASE StartServer \/ FinishRecovery \/ RecoveryFails
  BY <1>7 DEF StartServer, FinishRecovery, RecoveryFails, Serve
<1>8. ASSUME NEW r \in Rows, RecoverRow(r) PROVE ClaimInv'
  BY <1>8 DEF RecoverRow
<1> QED
  BY <1>1, <1>2, <1>3, <1>4, <1>5, <1>6, <1>7, <1>8
  DEF UserStep, LifeStep, CrashServer, StopServer

LEMMA NextClaimInv == TypeOK /\ ClaimInv /\ [Next]_vars => ClaimInv'
<1> SUFFICES ASSUME TypeOK, ClaimInv, [Next]_vars PROVE ClaimInv'
  OBVIOUS
<1>1. CASE Next
  BY <1>1, RowStepClaimInv, BatchStepClaimInv, OtherStepClaimInv DEF Next
<1>2. CASE UNCHANGED vars
  BY <1>2 DEF ClaimInv, ClaimedFrom, vars, dbVars, taskVars
<1> QED
  BY <1>1, <1>2

THEOREM ClaimsHold == Spec => []ClaimInv
BY InitClaimInv, NextClaimInv, TypeCorrect, PTL DEF Spec

\* No process ever has UPS create two shipments for a row, however many
\* processes execute the job, crash and start again: _process_row claims the
\* row before the call and LoadRows takes unclaimed rows only.
THEOREM CreatesOnce == Spec => []AtMostOncePerExecutor
<1>1. ClaimInv => AtMostOncePerExecutor
  BY DEF ClaimInv, ClaimedFrom, AtMostOncePerExecutor
<1> QED
  BY <1>1, ClaimsHold, PTL

\* A shipped row never again reads as one that may be loaded or skipped.
THEOREM ShippedStayClaimed == Spec => []ShippedRowsAreClaimed
<1>1. ClaimInv => ShippedRowsAreClaimed
  BY DEF ClaimInv, ClaimedFrom, ShippedRowsAreClaimed, Unclaimed
<1> QED
  BY <1>1, ClaimsHold, PTL

\* Without standalone CLI processes, no row is shipped twice at all.
THEOREM ShipsOnce ==
  ASSUME Clis = {}
  PROVE  Spec => []AtMostOneShipment
<1>1. AtMostOncePerExecutor => AtMostOneShipment
  BY DEF AtMostOneShipment, Executors
<1> QED
  BY <1>1, CreatesOnce, PTL

-----------------------------------------------------------------------------
(* A server that executes alone and whose UPS process respawns.            *)

SoleServer == Clis = {} /\ ~ReconnectMayFail

\* All that is known of a state of such a server.
Sound == TypeOK /\ ClaimInv /\ RowInv

LEMMA SoleExecutor ==
  ASSUME SoleServer, NEW w \in Executors
  PROVE  w = Server
BY DEF SoleServer, Executors

LEMMA InitRowInv == Init => RowInv
BY ServerIsExecutor
DEF Init, RowInv, TaskInv, RecordInv, LifeInv, Called, Unclaimed

\* A task runs on a server that is up, where nothing waits for recovery.
LEMMA RowStepUp ==
  ASSUME Sound, NEW r \in Rows, pc[Server][r] # "none"
  PROVE  boot = "up" /\ recover = {}
<1>1. boot = "up"
  BY DEF Sound, RowInv, LifeInv
<1> QED
  BY <1>1 DEF Sound, RowInv, LifeInv, TypeOK

\* A step of a row's task keeps what is known of every row and of the server.
LEMMA RowStepRowInv ==
  ASSUME SoleServer, Sound, NEW r \in Rows,
         RowStep(Server, r) \/ UpsCreates(Server, r)
  PROVE  RowInv'
<1> USE ServerIsExecutor DEF dbVars, taskVars, serverVars
<1>1. /\ pc[Server][r] # "none"
      /\ UNCHANGED <<boot, recover, handler, skip, patch>>
  BY DEF RowStep, RejectRow, StartRow, UpsRejects, ReconnectFails, UpsAmbiguous,
         UpsAnswers, StageLabel, NoLabel, PromoteLabel, PostUpsFails, CommitRow,
         ReportRow, UpsCreates, EndFailed, Advance
<1>2. boot = "up" /\ recover = {}
  BY <1>1, RowStepUp
<1>3. LifeInv'
  BY <1>1, <1>2 DEF LifeInv
<1>4. ASSUME NEW q \in Rows PROVE TaskInv(q)' /\ RecordInv(q)'
  <2>1. /\ TaskInv(q) /\ RecordInv(q) /\ TaskInv(r) /\ RecordInv(r)
        /\ ClaimedFrom(Server, q) /\ ClaimedFrom(Server, r)
    BY DEF Sound, RowInv, ClaimInv
  <2> USE <2>1 DEF Sound, TypeOK, TaskInv, RecordInv, ClaimedFrom, Called, Unclaimed
  <2>2. ASSUME NEW st \in {"failed", "needs_review"}, EndFailed(Server, r, st),
               pc[Server][r] \in {"queued", "calling", "created"},
               rowStatus[r] # "deleted",
               st = "failed" => made[Server][r] = 0
        PROVE  TaskInv(q)' /\ RecordInv(q)'
    BY <2>2 DEF EndFailed
  <2>3. CASE RejectRow(Server, r)
    BY <2>3 DEF RejectRow, EndFailed, CanWrite
  <2>4. CASE StartRow(Server, r)
    BY <2>4 DEF StartRow, Advance, CanWrite
  <2>5. CASE UpsRejects(Server, r)
    BY <2>2, <2>5 DEF UpsRejects, CanWrite
  <2>6. CASE ReconnectFails(Server, r)
    BY <2>6 DEF ReconnectFails, SoleServer
  <2>7. CASE UpsAmbiguous(Server, r)
    BY <2>2, <2>7 DEF UpsAmbiguous, CanWrite
  <2>8. CASE UpsAnswers(Server, r)
    BY <2>8 DEF UpsAnswers, Advance
  <2>9. CASE StageLabel(Server, r)
    BY <2>9 DEF StageLabel, Advance
  <2>10. CASE NoLabel(Server, r)
    BY <2>10 DEF NoLabel, Advance
  <2>11. CASE PromoteLabel(Server, r)
    BY <2>11 DEF PromoteLabel, Advance
  <2>12. CASE PostUpsFails(Server, r)
    BY <2>12 DEF PostUpsFails, CanWrite
  <2>13. CASE CommitRow(Server, r)
    BY <2>13 DEF CommitRow, Advance, CanWrite
  <2>14. CASE ReportRow(Server, r)
    BY <2>14 DEF ReportRow, Advance
  <2>15. CASE UpsCreates(Server, r)
    BY <2>15 DEF UpsCreates, Advance
  <2> QED
    BY <2>3, <2>4, <2>5, <2>6, <2>7, <2>8, <2>9, <2>10, <2>11, <2>12, <2>13,
       <2>14, <2>15 DEF RowStep
<1> QED
  BY <1>3, <1>4 DEF RowInv

LEMMA BatchStepRowInv ==
  ASSUME SoleServer, Sound, BatchStep(Server)
  PROVE  RowInv'
<1> USE ServerIsExecutor
    DEF Sound, TypeOK, RowInv, ClaimInv, ClaimedFrom, TaskInv, RecordInv,
        LifeInv, Called, Unclaimed, dbVars, serverVars
<1>1. boot = "up"
  BY DEF BatchStep, LoadRows, SetupFails, ConnectFails, FinishBatch,
         SessionBreaks, CloseBatch
<1>2. CASE LoadRows(Server)
  BY <1>1, <1>2 DEF LoadRows
<1>3. CASE CloseBatch(Server)
  BY <1>1, <1>3 DEF CloseBatch
<1>4. CASE SetupFails(Server) \/ ConnectFails(Server)
           \/ FinishBatch(Server) \/ SessionBreaks(Server)
  BY <1>1, <1>4 DEF SetupFails, ConnectFails, FinishBatch, SessionBreaks
<1> QED
  BY <1>2, <1>3, <1>4 DEF BatchStep

LEMMA UserStepRowInv ==
  ASSUME SoleServer, Sound, ConfirmStep \/ UserStep
  PROVE  RowInv'
<1> USE ServerIsExecutor
    DEF Sound, TypeOK, RowInv, ClaimInv, ClaimedFrom, TaskInv, RecordInv,
        LifeInv, Called, Unclaimed, dbVars, taskVars, serverVars
<1>1. CASE ConfirmStep
  BY <1>1 DEF ConfirmStep, ConfirmSwap, ConfirmRollback, ConfirmRefused,
              ConfirmLaunch, AutoConfirmCheck, AutoConfirmWrite
<1>2. ASSUME NEW R \in SUBSET Rows, SkipWrite(R) PROVE RowInv'
  BY <1>2 DEF SkipWrite
<1>3. CASE DeleteJob
  BY <1>3 DEF DeleteJob
<1>4. CASE SkipCheck \/ \E t \in JobStatuses : PatchCheck(t)
  BY <1>4 DEF SkipCheck, PatchCheck
<1>5. ASSUME NEW w \in Executors, PatchWrite(w) PROVE RowInv'
  BY <1>5, SoleExecutor DEF PatchWrite
<1> QED
  BY <1>1, <1>2, <1>3, <1>4, <1>5 DEF UserStep

LEMMA LifeStepRowInv ==
  ASSUME SoleServer, Sound, LifeStep
  PROVE  RowInv'
<1> USE ServerIsExecutor
    DEF Sound, TypeOK, RowInv, ClaimInv, ClaimedFrom, TaskInv, RecordInv,
        LifeInv, Called, Unclaimed, dbVars, taskVars
<1>1. ASSUME NEW to \in {"down", "stopped"}, ServerDies(to) PROVE RowInv'
  BY <1>1 DEF ServerDies, Forget
<1>2. CASE StartServer
  BY <1>2 DEF StartServer
<1>3. CASE FinishRecovery \/ RecoveryFails
  BY <1>3 DEF FinishRecovery, RecoveryFails, Serve, Cleaned
<1>4. ASSUME NEW r \in Rows, RecoverRow(r) PROVE RowInv'
  BY <1>4 DEF RecoverRow
<1> QED
  BY <1>1, <1>2, <1>3, <1>4 DEF LifeStep, CrashServer, StopServer

LEMMA NextRowInv ==
  ASSUME SoleServer, Sound, [Next]_vars
  PROVE  RowInv'
<1>1. CASE Next
  <2>1. ASSUME NEW w \in Executors, BatchStep(w) PROVE RowInv'
    BY <2>1, SoleExecutor, BatchStepRowInv
  <2>2. ASSUME NEW w \in Executors, NEW r \in Rows,
               RowStep(w, r) \/ UpsCreates(w, r)
        PROVE  RowInv'
    BY <2>2, SoleExecutor, RowStepRowInv
  <2>3. ASSUME NEW c \in Clis PROVE FALSE
    BY <2>3 DEF SoleServer
  <2> QED
    BY <1>1, <2>1, <2>2, <2>3, UserStepRowInv, LifeStepRowInv DEF Next
<1>2. CASE UNCHANGED vars
  BY <1>2 DEF Sound, RowInv, TaskInv, RecordInv, LifeInv, vars, dbVars,
              taskVars, serverVars
<1> QED
  BY <1>1, <1>2

LEMMA SoundHolds ==
  ASSUME SoleServer
  PROVE  Spec => []Sound
<1>1. Sound /\ [Next]_vars => RowInv'
  BY NextRowInv
<1>2. Sound <=> TypeOK /\ ClaimInv /\ RowInv
  BY DEF Sound
<1> QED
  BY <1>1, <1>2, InitRowInv, TypeCorrect, ClaimsHold, PTL DEF Spec

\* A shipment never hides behind a row that reads as failed, skipped or not
\* started.
THEOREM NothingIsHidden ==
  ASSUME SoleServer
  PROVE  Spec => []NoHiddenShipment
<1>1. Sound => NoHiddenShipment
  BY SoleExecutor DEF Sound, RowInv, RecordInv, NoHiddenShipment
<1> QED
  BY <1>1, SoundHolds, PTL

\* A completed row has its shipment, its tracking number and a promoted label.
THEOREM CompletedMeansShipped ==
  ASSUME SoleServer
  PROVE  Spec => []CompletedRowsAreShipped
<1>1. Sound => CompletedRowsAreShipped
  BY ServerIsExecutor DEF Sound, RowInv, RecordInv, CompletedRowsAreShipped
<1> QED
  BY <1>1, SoundHolds, PTL

\* cleanup_staging never deletes the label of a resolved row.
THEOREM StagedMeansOpen ==
  ASSUME SoleServer
  PROVE  Spec => []StagedLabelsAreOpen
<1>1. Sound => StagedLabelsAreOpen
  BY DEF Sound, RowInv, RecordInv, StagedLabelsAreOpen
<1> QED
  BY <1>1, SoundHolds, PTL

\* Recovery never meets a row with a tracking number: its tiers 1 and 3 do
\* nothing.
THEOREM RecoveryIsTierTwo ==
  ASSUME SoleServer
  PROVE  Spec => []InFlightUntracked
<1>1. Sound => InFlightUntracked
  BY DEF Sound, RowInv, RecordInv, InFlightUntracked
<1> QED
  BY <1>1, SoundHolds, PTL

\* With one server the records of the rows and labels are true: completed means
\* shipped with its label safe, staged means open, and recovery takes tier 2.
THEOREM RecordsStayTrue ==
  ASSUME SoleServer
  PROVE  Spec => []RecordsAreTrue
<1>1. CompletedRowsAreShipped /\ StagedLabelsAreOpen /\ InFlightUntracked
        => RecordsAreTrue
  BY DEF RecordsAreTrue
<1> QED
  BY <1>1, CompletedMeansShipped, StagedMeansOpen, RecoveryIsTierTwo, PTL

-----------------------------------------------------------------------------
(* What a step may not do.                                                 *)

Closed == {"completed", "failed", "needs_review"}

LEMMA RowStepKeepsClosed ==
  ASSUME SoleServer, Sound, NEW r \in Rows,
         RowStep(Server, r) \/ UpsCreates(Server, r),
         NEW q \in Rows, rowStatus[q] \in Closed
  PROVE  rowStatus'[q] = rowStatus[q]
<1>1. rowStatus \in [Rows -> RowStatuses \cup {"deleted"}] /\ TaskInv(q)
  BY DEF Sound, TypeOK, RowInv
<1>2. CASE q = r
  BY <1>1, <1>2
  DEF TaskInv, Called, Unclaimed, Closed, RowStep, RejectRow, StartRow, UpsRejects,
      ReconnectFails, UpsAmbiguous, UpsAnswers, StageLabel, NoLabel, PromoteLabel,
      PostUpsFails, CommitRow, ReportRow, UpsCreates, EndFailed, Advance, dbVars
<1>3. CASE q # r
  BY <1>1, <1>3
  DEF RowStep, RejectRow, StartRow, UpsRejects, ReconnectFails, UpsAmbiguous,
      UpsAnswers, StageLabel, NoLabel, PromoteLabel, PostUpsFails, CommitRow,
      ReportRow, UpsCreates, EndFailed, Advance, dbVars
<1> QED
  BY <1>2, <1>3

LEMMA OtherStepKeepsClosed ==
  ASSUME SoleServer, Sound,
         BatchStep(Server) \/ ConfirmStep \/ UserStep \/ LifeStep,
         NEW q \in Rows, rowStatus[q] \in Closed
  PROVE  rowStatus'[q] \in {rowStatus[q], "deleted"}
<1> USE DEF Closed, dbVars
<1>1. CASE BatchStep(Server)
  BY <1>1 DEF BatchStep, LoadRows, SetupFails, ConnectFails, FinishBatch,
              SessionBreaks, CloseBatch
<1>2. CASE ConfirmStep
  BY <1>2 DEF ConfirmStep, ConfirmSwap, ConfirmRollback, ConfirmRefused,
              ConfirmLaunch, AutoConfirmCheck, AutoConfirmWrite
<1>3. CASE UserStep
  BY <1>3 DEF UserStep, PatchCheck, PatchWrite, SkipCheck, SkipWrite, DeleteJob
<1>4. CASE LifeStep
  BY <1>4 DEF LifeStep, CrashServer, StopServer, ServerDies, StartServer,
              FinishRecovery, RecoveryFails, Serve, RecoverRow, Sound, TypeOK, RowInv, LifeInv
<1> QED
  BY <1>1, <1>2, <1>3, <1>4

\* A step of a sole server is one of its own steps or nobody's.
LEMMA SoleServerSteps ==
  ASSUME SoleServer, Next
  PROVE  \/ BatchStep(Server) \/ ConfirmStep \/ UserStep \/ LifeStep
         \/ \E r \in Rows : RowStep(Server, r) \/ UpsCreates(Server, r)
BY SoleExecutor DEF Next, SoleServer

\* No late answer, recovery pass or second start reopens or rewrites a row
\* that is completed, failed or given to the operator.
THEOREM ClosedForGood ==
  ASSUME SoleServer
  PROVE  Spec => ClosedRowsStayClosed
<1> DEFINE Step == \A r \in Rows :
      rowStatus[r] \in {"completed", "failed", "needs_review"} =>
        rowStatus'[r] \in {rowStatus[r], "deleted"}
<1>1. Sound /\ [Next]_vars => Step
  <2> SUFFICES ASSUME Sound, [Next]_vars, NEW q \in Rows, rowStatus[q] \in Closed
               PROVE  rowStatus'[q] \in {rowStatus[q], "deleted"}
    BY DEF Closed
  <2>1. CASE UNCHANGED vars
    BY <2>1 DEF vars, dbVars
  <2>2. CASE Next
    BY <2>2, SoleServerSteps, RowStepKeepsClosed, OtherStepKeepsClosed
  <2> QED
    BY <2>1, <2>2
<1> HIDE DEF Step
<1>2. Spec => [][Step]_vars
  BY <1>1, SoundHolds, PTL DEF Spec
<1> QED
  BY <1>2 DEF ClosedRowsStayClosed, Step

\* When startup recovery is over, no row of a running job is in flight.
THEOREM RunningJobsAreResolved ==
  ASSUME SoleServer
  PROVE  Spec => RunningJobIsRecovered
<1>1. Sound /\ [Next]_vars => RecoveryResolves("running")
  <2> SUFFICES ASSUME Sound, [Next]_vars, boot = "recovering", boot' = "up",
                      recover = {}, jobStatus = "running", NEW r \in Rows
               PROVE  rowStatus'[r] # "in_flight"
    BY DEF RecoveryResolves
  <2>1. Serve
    <3>1. Next
      BY DEF vars, serverVars
    <3>2. \A q \in Rows : ~RowStep(Server, q) /\ ~UpsCreates(Server, q)
      BY RowStepUp
      DEF RowStep, RejectRow, StartRow, UpsRejects, ReconnectFails, UpsAmbiguous,
          UpsAnswers, StageLabel, NoLabel, PromoteLabel, PostUpsFails, CommitRow,
          ReportRow, UpsCreates, Advance
    <3>3. ~BatchStep(Server) /\ ~ConfirmStep /\ ~UserStep
      BY DEF BatchStep, LoadRows, SetupFails, ConnectFails, FinishBatch,
             SessionBreaks, CloseBatch, ConfirmStep, ConfirmSwap, ConfirmRollback,
             ConfirmRefused, ConfirmLaunch, AutoConfirmCheck, AutoConfirmWrite,
             UserStep, PatchCheck, PatchWrite, SkipCheck, SkipWrite, DeleteJob,
             serverVars
    <3>4. LifeStep
      BY <3>1, <3>2, <3>3, SoleServerSteps
    <3> QED
      BY <3>4 DEF LifeStep, CrashServer, StopServer, ServerDies, StartServer,
                  FinishRecovery, RecoveryFails, RecoverRow
  <2> QED
    BY <2>1 DEF Serve, dbVars, Sound, RowInv, LifeInv
<1> QED
  BY <1>1, SoundHolds, PTL DEF Spec, RunningJobIsRecovered

-----------------------------------------------------------------------------
(* What an execution of a sole server counts.                              *)

\* What is known of a state of such a server, its counters included.
Counted == Sound /\ LaunchInv /\ CountInv

LEMMA InitCounted == Init => LaunchInv /\ CountInv
BY ServerIsExecutor DEF Init, LaunchInv, CountInv, Untouched, Unclaimed, JobStatuses

\* What a step of a row's task leaves alone.
LEMMA RowStepFrame ==
  ASSUME Sound, NEW r \in Rows, RowStep(Server, r) \/ UpsCreates(Server, r)
  PROVE  /\ pc[Server][r] \notin {"none", "done"}
         /\ UNCHANGED <<jobStatus, phase, handler, patch>>
         /\ RowStep(Server, r) => phase[Server] = "running"
         /\ \A q \in Rows \ {r} : /\ rowStatus'[q] = rowStatus[q]
                                  /\ pc'[Server][q] = pc[Server][q]
                                  /\ q \in succ'[Server] <=> q \in succ[Server]
                                  /\ q \in fail'[Server] <=> q \in fail[Server]
BY ServerIsExecutor
DEF Sound, TypeOK, RowStep, RejectRow, StartRow, UpsRejects, ReconnectFails, UpsAmbiguous,
    UpsAnswers, StageLabel, NoLabel, PromoteLabel, PostUpsFails, CommitRow, ReportRow,
    UpsCreates, EndFailed, Advance, CanWrite, dbVars, taskVars, serverVars

\* The task that moves is counted as its row reads.
LEMMA RowStepCounts ==
  ASSUME SoleServer, Counted, NEW r \in Rows, phase[Server] = "running",
         RowStep(Server, r) \/ UpsCreates(Server, r)
  PROVE  CountedAs(r)'
<1>1. /\ TaskInv(r) /\ CountedAs(r) /\ TypeOK
  BY DEF Counted, Sound, RowInv, CountInv
<1> USE <1>1, ServerIsExecutor
        DEF TypeOK, CountedAs, TaskInv, Called, Unclaimed, dbVars, taskVars, serverVars
<1>2. ASSUME NEW st \in {"failed", "needs_review"}, EndFailed(Server, r, st),
             pc[Server][r] \notin {"committed", "done"}
      PROVE  CountedAs(r)'
  BY <1>2 DEF EndFailed
<1>3. CASE RejectRow(Server, r)
  BY <1>3 DEF RejectRow, EndFailed, CanWrite
<1>4. CASE StartRow(Server, r) \/ UpsCreates(Server, r) \/ UpsAnswers(Server, r)
           \/ StageLabel(Server, r) \/ NoLabel(Server, r) \/ PromoteLabel(Server, r)
  BY <1>4 DEF StartRow, UpsCreates, UpsAnswers, StageLabel, NoLabel, PromoteLabel, Advance
<1>5. CASE UpsRejects(Server, r) \/ UpsAmbiguous(Server, r)
  BY <1>2, <1>5 DEF UpsRejects, UpsAmbiguous
<1>6. CASE ReconnectFails(Server, r)
  BY <1>6 DEF ReconnectFails, SoleServer
<1>7. CASE PostUpsFails(Server, r)
  BY <1>7 DEF PostUpsFails
<1>8. CASE CommitRow(Server, r)
  BY <1>8 DEF CommitRow, Advance
<1>9. CASE ReportRow(Server, r)
  BY <1>9 DEF ReportRow, Advance
<1> QED
  BY <1>3, <1>4, <1>5, <1>6, <1>7, <1>8, <1>9 DEF RowStep

LEMMA RowStepCounted ==
  ASSUME SoleServer, Counted, NEW r \in Rows,
         RowStep(Server, r) \/ UpsCreates(Server, r)
  PROVE  LaunchInv' /\ CountInv'
<1>1. /\ pc[Server][r] \notin {"none", "done"}
      /\ UNCHANGED <<jobStatus, phase, handler, patch>>
      /\ RowStep(Server, r) => phase[Server] = "running"
      /\ \A q \in Rows \ {r} : /\ rowStatus'[q] = rowStatus[q]
                               /\ pc'[Server][q] = pc[Server][q]
                               /\ q \in succ'[Server] <=> q \in succ[Server]
                               /\ q \in fail'[Server] <=> q \in fail[Server]
  BY RowStepFrame DEF Counted
<1>2. UpsCreates(Server, r) => rowStatus' = rowStatus
  BY DEF UpsCreates, dbVars
<1>3. rowStatus'[r] = "deleted" => rowStatus[r] = "deleted"
  BY ServerIsExecutor
  DEF Counted, Sound, TypeOK, RowStep, RejectRow, StartRow, UpsRejects, ReconnectFails,
      UpsAmbiguous, UpsAnswers, StageLabel, NoLabel, PromoteLabel, PostUpsFails, CommitRow,
      ReportRow, UpsCreates, EndFailed, Advance, CanWrite, dbVars
<1>4. LaunchInv'
  BY <1>1, <1>2, <1>3 DEF Counted, LaunchInv, Untouched
<1>5. phase[Server] # "settled"
  BY <1>1 DEF Counted, CountInv
<1>6. ASSUME phase[Server] = "running" PROVE \A q \in Rows : CountedAs(q)'
  <2>1. CountedAs(r)'
    BY <1>6, RowStepCounts
  <2>2. ASSUME NEW q \in Rows \ {r} PROVE CountedAs(q)'
    BY <1>1, <1>6, <2>2 DEF Counted, CountInv, CountedAs
  <2> QED
    BY <2>1, <2>2
<1>7. CountInv'
  BY <1>1, <1>5, <1>6 DEF CountInv
<1> QED
  BY <1>4, <1>7

\* The final status is written when every task has ended: its counters add up.
LEMMA BatchStepCounted ==
  ASSUME SoleServer, Counted, BatchStep(Server)
  PROVE  LaunchInv' /\ CountInv'
<1> USE ServerIsExecutor
    DEF Counted, Sound, TypeOK, LaunchInv, CountInv, Untouched, Unclaimed, dbVars, serverVars
<1>1. CASE LoadRows(Server)
  <2>1. LaunchInv'
    BY <1>1 DEF LoadRows
  <2>2. \A r \in Rows : CountedAs(r)'
    BY <1>1 DEF LoadRows, CountedAs
  <2> QED
    BY <1>1, <2>1, <2>2 DEF LoadRows
<1>2. CASE SetupFails(Server) \/ ConnectFails(Server) \/ SessionBreaks(Server)
           \/ CloseBatch(Server)
  BY <1>2 DEF SetupFails, ConnectFails, SessionBreaks, CloseBatch
<1>3. CASE FinishBatch(Server)
  BY <1>3 DEF FinishBatch, CountedAs
<1> QED
  BY <1>1, <1>2, <1>3 DEF BatchStep

LEMMA UserStepCounted ==
  ASSUME SoleServer, Counted, ConfirmStep \/ UserStep
  PROVE  LaunchInv' /\ CountInv'
<1> USE ServerIsExecutor
    DEF Counted, Sound, TypeOK, LaunchInv, CountInv, Untouched, Unclaimed, CountedAs,
        dbVars, taskVars, serverVars
<1>1. CASE ConfirmStep
  <2>1. CASE ConfirmSwap \/ AutoConfirmCheck
    BY <2>1 DEF ConfirmSwap, AutoConfirmCheck
  <2>2. CASE ConfirmRollback \/ ConfirmRefused
    BY <2>2 DEF ConfirmRollback, ConfirmRefused
  <2>3. CASE ConfirmLaunch
    BY <2>3 DEF ConfirmLaunch
  <2>4. CASE AutoConfirmWrite
    BY <2>4 DEF AutoConfirmWrite
  <2> QED
    BY <1>1, <2>1, <2>2, <2>3, <2>4 DEF ConfirmStep
<1>2. ASSUME NEW R \in SUBSET Rows, SkipWrite(R) PROVE LaunchInv' /\ CountInv'
  <2>1. LaunchInv'
    BY <1>2 DEF SkipWrite
  <2>2. ASSUME NEW r \in Rows, CountedAs(r), TaskInv(r) PROVE CountedAs(r)'
    BY <1>2, <2>2 DEF SkipWrite, TaskInv, Called
  <2> QED
    BY <1>2, <2>1, <2>2 DEF SkipWrite, RowInv
<1>3. CASE DeleteJob
  BY <1>3 DEF DeleteJob
<1>4. ASSUME NEW t \in JobStatuses, PatchCheck(t) PROVE LaunchInv' /\ CountInv'
  BY <1>4 DEF PatchCheck, ValidTransitions
<1>5. ASSUME NEW w \in Executors, PatchWrite(w) PROVE LaunchInv' /\ CountInv'
  BY <1>5, SoleExecutor DEF PatchWrite
<1>6. CASE SkipCheck
  BY <1>6 DEF SkipCheck
<1> QED
  BY <1>1, <1>2, <1>3, <1>4, <1>5, <1>6 DEF UserStep

LEMMA LifeStepCounted ==
  ASSUME SoleServer, Counted, LifeStep
  PROVE  LaunchInv' /\ CountInv'
<1> USE ServerIsExecutor
    DEF Counted, Sound, TypeOK, LaunchInv, CountInv, Untouched, Unclaimed,
        dbVars, taskVars, serverVars
<1>1. ASSUME NEW to \in {"down", "stopped"}, ServerDies(to) PROVE LaunchInv' /\ CountInv'
  BY <1>1 DEF ServerDies, Forget
<1>2. CASE StartServer \/ FinishRecovery \/ RecoveryFails
  BY <1>2 DEF StartServer, FinishRecovery, RecoveryFails, Serve, RowInv, LifeInv
<1>3. ASSUME NEW r \in Rows, RecoverRow(r) PROVE LaunchInv' /\ CountInv'
  BY <1>3 DEF RecoverRow, RowInv, LifeInv
<1> QED
  BY <1>1, <1>2, <1>3 DEF LifeStep, CrashServer, StopServer

LEMMA NextCounted ==
  ASSUME SoleServer, Counted, [Next]_vars
  PROVE  LaunchInv' /\ CountInv'
<1>1. CASE Next
  BY <1>1, SoleServerSteps, RowStepCounted, BatchStepCounted, UserStepCounted, LifeStepCounted
<1>2. CASE UNCHANGED vars
  BY <1>2 DEF Counted, LaunchInv, Untouched, CountInv, CountedAs, vars, dbVars, taskVars,
              serverVars
<1> QED
  BY <1>1, <1>2

LEMMA CountedHolds ==
  ASSUME SoleServer
  PROVE  Spec => []Counted
<1>1. Counted /\ [Next]_vars => LaunchInv' /\ CountInv'
  BY NextCounted
<1>2. Counted <=> Sound /\ LaunchInv /\ CountInv
  BY DEF Counted
<1> QED
  BY <1>1, <1>2, InitCounted, SoundHolds, PTL DEF Spec

\* The point each row task of the server has reached tells what its row, its
\* shipment and its label are and how it was counted, startup recovery misses no
\* row, and an execution starts on rows nobody has treated.
THEOREM ServerIsSound ==
  ASSUME SoleServer
  PROVE  Spec => []ServerInv
<1>1. Counted => ServerInv
  BY DEF Counted, Sound, ServerInv
<1> QED
  BY <1>1, CountedHolds, PTL

\* When execute_batch has written the final status, its counts describe the rows:
\* the successful are exactly the completed ones, every failed row was counted, no
\* row is left open, and processed_rows is the number of rows counted.
THEOREM CountsAgreeAtTheEnd ==
  ASSUME SoleServer
  PROVE  Spec => []SettledCountsAgree
<1>1. ASSUME Counted, phase[Server] = "settled", jobStatus # "deleted"
      PROVE  /\ succ[Server] = {r \in Rows : rowStatus[r] = "completed"}
             /\ {r \in Rows : rowStatus[r] = "failed"} \subseteq fail[Server]
             /\ \A r \in fail[Server] : rowStatus[r] \in {"failed", "needs_review", "skipped"}
             /\ \A r \in Rows : rowStatus[r] \notin {"pending", "in_flight"}
             /\ processed = Cardinality(succ[Server] \cup fail[Server])
  <2>1. /\ succ[Server] \subseteq Rows
        /\ fail[Server] \subseteq Rows
    BY <1>1, ServerIsExecutor DEF Counted, Sound, TypeOK
  <2>2. ASSUME NEW r \in Rows
        PROVE  /\ CountedAs(r)
               /\ pc[Server][r] \in {"none", "done"}
               /\ rowStatus[r] # "deleted"
    BY <1>1 DEF Counted, CountInv, LaunchInv
  <2>3. succ[Server] \cap fail[Server] = {}
    BY <2>1, <2>2 DEF CountedAs
  <2>4. Cardinality(succ[Server] \cup fail[Server])
          = Cardinality(succ[Server]) + Cardinality(fail[Server])
    <3>1. IsFiniteSet(succ[Server]) /\ IsFiniteSet(fail[Server])
      BY <2>1, ExecutionAssumption, FS_Subset DEF ExecutionAssumption
    <3>2. Cardinality(succ[Server]) \in Nat /\ Cardinality(fail[Server]) \in Nat
      BY <3>1, FS_CardinalityType
    <3>3. Cardinality(succ[Server] \cup fail[Server])
            = Cardinality(succ[Server]) + Cardinality(fail[Server])
                - Cardinality(succ[Server] \cap fail[Server])
      BY <3>1, FS_Union
    <3>4. Cardinality(succ[Server] \cap fail[Server]) = 0
      BY <2>3, FS_EmptySet
    <3> QED
      BY <3>2, <3>3, <3>4
  <2>5. processed = Cardinality(succ[Server]) + Cardinality(fail[Server])
    BY <1>1 DEF Counted, CountInv
  <2>6. /\ succ[Server] = {r \in Rows : rowStatus[r] = "completed"}
        /\ {r \in Rows : rowStatus[r] = "failed"} \subseteq fail[Server]
        /\ \A r \in fail[Server] : rowStatus[r] \in {"failed", "needs_review", "skipped"}
        /\ \A r \in Rows : rowStatus[r] \notin {"pending", "in_flight"}
    BY <2>1, <2>2 DEF CountedAs
  <2> QED
    BY <2>4, <2>5, <2>6
<1>2. Counted => SettledCountsAgree
  BY <1>1, SoleExecutor DEF SettledCountsAgree
<1> QED
  BY <1>2, CountedHolds, PTL
=============================================================================
