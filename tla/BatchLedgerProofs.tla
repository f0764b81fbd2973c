------------------------- MODULE BatchLedgerProofs -------------------------
(* A server that executes alone implements the order ledger: every step of *)
(* BatchExecution is a step of OrderLedger or changes nothing it sees.     *)
EXTENDS BatchProofs

LEMMA InitImplements == Init => Ledger!Init
BY ServerIsExecutor
DEF Init, Ledger!Init, LedgerState, Reads, Outstanding

\* Rewriting one row's status rewrites one order's state.
LEMMA OneOrder ==
  ASSUME TypeOK, NEW r \in Rows, NEW st,
         rowStatus' = [rowStatus EXCEPT ![r] = st]
  PROVE  LedgerState' = [LedgerState EXCEPT ![r] = Reads(st)]
BY DEF LedgerState, TypeOK

\* Moving one task between two points moves one order in or out of "asked".
LEMMA OneTask ==
  ASSUME TypeOK, NEW r \in Rows, NEW p \in Steps,
         pc' = [pc EXCEPT ![Server][r] = p]
  PROVE  Outstanding' = IF p = "calling" THEN Outstanding \cup {r}
                                         ELSE Outstanding \ {r}
BY ServerIsExecutor DEF Outstanding, TypeOK

\* The states an order reads as while its row can be at a point of its task.
LEMMA ReadsOf ==
  ASSUME TypeOK, NEW r \in Rows
  PROVE  LedgerState[r] = Reads(rowStatus[r])
BY DEF LedgerState

\* A row's task answers to a ledger that knows the row.
LEMMA RowStepImplements ==
  ASSUME SoleServer, Sound, NEW r \in Rows,
         RowStep(Server, r) \/ UpsCreates(Server, r)
  PROVE  [Ledger!Next]_(Ledger!vars)
<1> USE ServerIsExecutor, ReadsOf
<1>1. TypeOK /\ TaskInv(r) /\ RecordInv(r) /\ ClaimedFrom(Server, r)
  BY DEF Sound, RowInv, ClaimInv
<1>2. made[Server] \in [Rows -> Nat] /\ pc \in [Executors -> [Rows -> Steps]]
  BY <1>1 DEF TypeOK
<1>3. ASSUME NEW st \in {"failed", "needs_review"}, EndFailed(Server, r, st),
             rowStatus[r] \in IF st = "failed"
                              THEN {"pending", "skipped", "in_flight"}
                              ELSE {"in_flight"},
             st = "failed" => made[Server][r] = 0
      PROVE  Ledger!Refuse(r) \/ Ledger!Review(r)
  <2>1. /\ LedgerState' = [LedgerState EXCEPT ![r] = Reads(st)]
        /\ Outstanding' = Outstanding \ {r}
        /\ made' = made
    BY <1>1, <1>3, OneOrder, OneTask DEF EndFailed, Steps
  <2> QED
    BY <1>1, <1>3, <2>1 DEF Ledger!Refuse, Ledger!Review, Reads
<1>4. CASE RejectRow(Server, r)
  <2> PICK seen \in {"pending", rowStatus[r]} :
        EndFailed(Server, r, IF seen \in {"pending", "in_flight"}
                             THEN "failed" ELSE rowStatus[r])
    BY <1>4 DEF RejectRow
  <2>1. rowStatus[r] \in Unclaimed /\ made[Server][r] = 0 /\ r \notin Outstanding
    BY <1>1, <1>4 DEF RejectRow, CanWrite, TaskInv, ClaimedFrom, Outstanding
  <2>2. CASE seen \in {"pending", "in_flight"}
    BY <1>3, <2>1, <2>2 DEF Unclaimed, Ledger!Next
  <2>3. CASE seen \notin {"pending", "in_flight"}
    <3>1. /\ rowStatus' = [rowStatus EXCEPT ![r] = rowStatus[r]]
          /\ pc' = [pc EXCEPT ![Server][r] = "done"]
          /\ made' = made
      BY <2>3 DEF EndFailed
    <3>2. rowStatus' = rowStatus
      BY <1>1, <3>1 DEF TypeOK
    <3>3. Outstanding' = Outstanding \ {r}
      BY <1>1, <3>1, OneTask DEF Steps
    <3>4. Outstanding' = Outstanding
      BY <2>1, <3>3
    <3> QED
      BY <3>1, <3>2, <3>4 DEF Ledger!vars, LedgerState
  <2> QED
    BY <2>2, <2>3
<1>5. CASE StartRow(Server, r)
  <2>1. /\ LedgerState' = [LedgerState EXCEPT ![r] = "claimed"]
        /\ Outstanding' = Outstanding \cup {r}
        /\ made' = made
    BY <1>1, <1>5, OneOrder, OneTask DEF StartRow, Advance, Steps, Reads
  <2>2. rowStatus[r] \in Unclaimed
    BY <1>1, <1>5 DEF StartRow, Advance, CanWrite, TaskInv
  <2>3. Ledger!Claim(r)
    BY <1>1, <2>1, <2>2 DEF Ledger!Claim, Reads, Unclaimed
  <2> QED
    BY <2>3 DEF Ledger!Next
<1>6. CASE UpsCreates(Server, r)
  <2>1. /\ LedgerState' = LedgerState
        /\ Outstanding' = Outstanding \ {r}
        /\ made' = [made EXCEPT ![Server][r] = @ + 1]
        /\ r \in Outstanding
    BY <1>1, <1>6, OneTask
    DEF UpsCreates, Advance, Steps, LedgerState, Outstanding, dbVars
  <2> QED
    BY <1>1, <2>1 DEF Ledger!Next, Ledger!Create, TypeOK
<1>7. CASE UpsRejects(Server, r)
  BY <1>1, <1>3, <1>7
  DEF UpsRejects, CanWrite, TaskInv, ClaimedFrom, Called, Ledger!Next
<1>8. CASE UpsAmbiguous(Server, r)
  BY <1>1, <1>3, <1>8 DEF UpsAmbiguous, CanWrite, TaskInv, Called, Ledger!Next
<1>9. CASE PostUpsFails(Server, r)
  <2>1. /\ LedgerState' = [LedgerState EXCEPT ![r] = "review"]
        /\ Outstanding' = Outstanding \ {r}
        /\ made' = made
    BY <1>1, <1>9, OneOrder, OneTask DEF PostUpsFails, Steps, Reads
  <2>2. rowStatus[r] = "in_flight"
    BY <1>1, <1>9 DEF PostUpsFails, CanWrite, TaskInv, Called
  <2>3. Ledger!Review(r)
    BY <1>1, <2>1, <2>2 DEF Ledger!Review, Reads
  <2> QED
    BY <2>3 DEF Ledger!Next
<1>10. CASE CommitRow(Server, r)
  <2>1. /\ LedgerState' = [LedgerState EXCEPT ![r] = "shipped"]
        /\ Outstanding' = Outstanding
        /\ made' = made
    BY <1>1, <1>10, OneOrder, OneTask DEF CommitRow, Advance, Steps, Reads, Outstanding
  <2>2. rowStatus[r] = "in_flight" /\ made[Server][r] = 1
    BY <1>1, <1>10 DEF CommitRow, Advance, CanWrite, TaskInv, Called
  <2>3. Ledger!Complete(r)
    BY <1>1, <2>1, <2>2 DEF Ledger!Complete, Reads
  <2> QED
    BY <2>3 DEF Ledger!Next
<1>11. CASE \/ UpsAnswers(Server, r) \/ StageLabel(Server, r) \/ NoLabel(Server, r)
            \/ PromoteLabel(Server, r) \/ ReportRow(Server, r)
  <2>1. rowStatus' = rowStatus /\ made' = made
    BY <1>11
    DEF UpsAnswers, StageLabel, NoLabel, PromoteLabel, ReportRow, dbVars
  <2>2. PICK p \in Steps \ {"calling"} :
          pc' = [pc EXCEPT ![Server][r] = p] /\ pc[Server][r] # "calling"
    BY <1>11
    DEF UpsAnswers, StageLabel, NoLabel, PromoteLabel, ReportRow, Advance, Steps
  <2>3. Outstanding' = Outstanding
    BY <1>1, <2>2, OneTask DEF Outstanding
  <2> QED
    BY <2>1, <2>3 DEF LedgerState, Ledger!vars
<1>12. CASE ReconnectFails(Server, r)
  BY <1>12 DEF ReconnectFails, SoleServer
<1> QED
  BY <1>4, <1>5, <1>6, <1>7, <1>8, <1>9, <1>10, <1>11, <1>12 DEF RowStep

\* Every other step loses outstanding requests, skips, discards, or is unseen.
LEMMA OtherStepImplements ==
  ASSUME SoleServer, Sound,
         BatchStep(Server) \/ ConfirmStep \/ UserStep \/ LifeStep
  PROVE  [Ledger!Next]_(Ledger!vars)
<1> USE ServerIsExecutor
<1>0. TypeOK /\ RowInv
  BY DEF Sound
<1>1. ASSUME rowStatus' = rowStatus, made' = made, pc' = pc
      PROVE  UNCHANGED Ledger!vars
  BY <1>1 DEF Ledger!vars, LedgerState, Outstanding
<1>2. ASSUME rowStatus' = rowStatus, made'[Server] = made[Server],
             \A r \in Rows : pc'[Server][r] # "calling"
      PROVE  Ledger!Lose(Outstanding)
  BY <1>2 DEF Ledger!Lose, LedgerState, Outstanding
<1>3. Outstanding \in SUBSET Rows
  BY DEF Outstanding
<1>4. CASE BatchStep(Server)
  <2>1. CASE LoadRows(Server) \/ CloseBatch(Server)
    <3>1. rowStatus' = rowStatus /\ made' = made
      BY <2>1 DEF LoadRows, CloseBatch, dbVars
    <3>2. \E f : /\ pc' = [pc EXCEPT ![Server] = f]
                 /\ \A r \in Rows : f[r] # "calling"
      <4>1. CASE LoadRows(Server)
        <5> WITNESS [r \in Rows |->
                       IF rowStatus[r] = "pending" THEN "queued" ELSE "none"]
        <5> QED
          BY <4>1 DEF LoadRows
      <4>2. CASE CloseBatch(Server)
        <5> WITNESS [r \in Rows |-> "none"]
        <5> QED
          BY <4>2 DEF CloseBatch
      <4> QED
        BY <2>1, <4>1, <4>2
    <3>3. \A r \in Rows : pc'[Server][r] # "calling"
      BY <1>0, <3>2 DEF TypeOK
    <3> QED
      BY <1>2, <1>3, <3>1, <3>3 DEF Ledger!Next
  <2>2. CASE \/ SetupFails(Server) \/ ConnectFails(Server)
             \/ FinishBatch(Server) \/ SessionBreaks(Server)
    BY <1>1, <2>2 DEF SetupFails, ConnectFails, FinishBatch, SessionBreaks, dbVars
  <2> QED
    BY <1>4, <2>1, <2>2 DEF BatchStep
<1>5. CASE ConfirmStep
  BY <1>1, <1>5
  DEF ConfirmStep, ConfirmSwap, ConfirmRollback, ConfirmRefused, ConfirmLaunch,
      AutoConfirmCheck, AutoConfirmWrite, dbVars, taskVars
<1>6. CASE UserStep
  <2>1. ASSUME NEW R \in SUBSET Rows, SkipWrite(R)
        PROVE  \E S \in SUBSET Rows : Ledger!Skip(S)
    <3> DEFINE S == {r \in R : rowStatus[r] = "pending"}
    <3>1. LedgerState' = [o \in Rows |-> IF o \in S THEN "skipped" ELSE LedgerState[o]]
      BY <1>0, <2>1 DEF SkipWrite, LedgerState, Reads, TypeOK
    <3>2. Outstanding' = Outstanding /\ made' = made
      BY <2>1 DEF SkipWrite, Outstanding, taskVars
    <3>3. \A o \in S : LedgerState[o] = "waiting"
      BY DEF LedgerState, Reads
    <3> QED
      BY <3>1, <3>2, <3>3 DEF Ledger!Skip
  <2>2. CASE DeleteJob
    <3>1. /\ LedgerState' = [o \in Rows |-> "gone"]
          /\ Outstanding' = Outstanding /\ made' = made
      BY <2>2 DEF DeleteJob, LedgerState, Reads, Outstanding, taskVars
    <3> QED
      BY <3>1 DEF Ledger!Next, Ledger!Discard
  <2>3. CASE SkipCheck \/ (\E t \in JobStatuses : PatchCheck(t))
             \/ (\E w \in Executors : PatchWrite(w))
    BY <1>1, <2>3 DEF SkipCheck, PatchCheck, PatchWrite, dbVars, taskVars
  <2> QED
    BY <1>6, <2>1, <2>2, <2>3 DEF UserStep, Ledger!Next
<1>7. CASE LifeStep
  <2>1. ASSUME NEW to, ServerDies(to) PROVE Ledger!Lose(Outstanding)
    <3>1. /\ rowStatus' = rowStatus /\ made' = made
          /\ \A r \in Rows : pc'[Server][r] # "calling"
      BY <1>0, <2>1 DEF ServerDies, Forget, dbVars, TypeOK
    <3> QED
      BY <1>2, <3>1
  <2>2. CASE StartServer \/ FinishRecovery \/ RecoveryFails
    BY <1>1, <2>2
    DEF StartServer, FinishRecovery, RecoveryFails, Serve, dbVars, taskVars
  <2>3. ASSUME NEW r \in Rows, RecoverRow(r)
        PROVE  Ledger!Review(r)
    <3>1. rowStatus[r] = "in_flight" /\ r \notin tracked /\ r \notin Outstanding
      BY <1>0, <2>3 DEF RecoverRow, RowInv, LifeInv, RecordInv, Outstanding
    <3>2. rowStatus' = [rowStatus EXCEPT ![r] = "needs_review"]
      BY <2>3, <3>1 DEF RecoverRow
    <3>3. LedgerState' = [LedgerState EXCEPT ![r] = "review"]
      BY <1>0, <3>2, OneOrder DEF Reads
    <3>4. Outstanding' = Outstanding \ {r} /\ made' = made
      BY <2>3, <3>1 DEF RecoverRow, Outstanding, taskVars
    <3> QED
      BY <1>0, <3>1, <3>3, <3>4, ReadsOf DEF Ledger!Review, Reads
  <2> QED
    BY <1>3, <1>7, <2>1, <2>2, <2>3
    DEF LifeStep, CrashServer, StopServer, Ledger!Next
<1> QED
  BY <1>4, <1>5, <1>6, <1>7

\* The execution of a job by a server alone implements the ledger: an order is
\* claimed before its call, refused only without a shipment, and never reopened.
THEOREM BatchImplementsLedger ==
  ASSUME SoleServer
  PROVE  Spec => ImplementsLedger
<1>1. Sound /\ [Next]_vars => [Ledger!Next]_(Ledger!vars)
  <2>1. ASSUME UNCHANGED vars PROVE UNCHANGED Ledger!vars
    BY <2>1
    DEF vars, dbVars, taskVars, Ledger!vars, LedgerState, Outstanding
  <2> QED
    BY <2>1, SoleServerSteps, RowStepImplements, OtherStepImplements
<1> QED
  BY <1>1, InitImplements, SoundHolds, PTL DEF Spec, ImplementsLedger, Ledger!Spec
=============================================================================
