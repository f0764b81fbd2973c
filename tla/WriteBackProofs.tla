-------------------------- MODULE WriteBackProofs --------------------------
(* What WriteBack keeps for every set of sources, whatever their kinds and *)
(* lines, and every bound: its types, the agreement of the loaded table    *)
(* with its metadata, the row a tracking number is written to, and which   *)
(* tasks a run closes.                                                     *)
EXTENDS WriteBack, FiniteSetTheorems, TLAPS

-----------------------------------------------------------------------------
(* The numbering of an import.                                             *)

\* A set of numbers that is not empty has a least one.
LEMMA LeastNumber ==
  ASSUME NEW T, T \in SUBSET Nat, T # {}
  PROVE  \E x \in T : \A y \in T : x <= y
<1> DEFINE R == StrictSubsetOrdering(Nat)
           U == {1 .. y : y \in T}
<1>1. IsWellFoundedOn(R, FiniteSubsetsOf(Nat))
  BY FS_StrictSubsetOrderingWellFounded
<1>2. U \subseteq FiniteSubsetsOf(Nat) /\ U # {}
  <2>1. ASSUME NEW y \in T
        PROVE  1 .. y \in FiniteSubsetsOf(Nat)
    <3>1. IsFiniteSet(1 .. y)
      BY FS_Interval
    <3> QED
      BY <3>1 DEF FiniteSubsetsOf
  <2> QED
    BY <2>1
<1>3. PICK A \in U : \A B \in U : ~(<<B, A>> \in R)
  <2> HIDE DEF R, U
  <2> QED
    BY <1>1, <1>2, WFMin, Zenon
<1>4. PICK x \in T : A = 1 .. x
  BY <1>3
<1>5. ASSUME NEW y \in T, y < x
      PROVE  FALSE
  <2>1. /\ 1 .. y \in SUBSET Nat
        /\ 1 .. x \in SUBSET Nat
        /\ 1 .. y \subseteq 1 .. x
        /\ x \in 1 .. x /\ x \notin 1 .. y
    BY <1>5
  <2>2. <<1 .. y, 1 .. x>> \in R
    BY <2>1 DEF StrictSubsetOrdering
  <2> QED
    BY <1>3, <1>4, <2>2
<1>6. \A y \in T : x <= y
  BY <1>5
<1> QED
  BY <1>6

\* The filled lines of a source are finitely many line numbers past its header.
LEMMA FilledLines ==
  ASSUME NEW s \in Sources
  PROVE  /\ HeaderLines(s) \in 0 .. 1
         /\ Len(LinesOf[s]) \in Nat
         /\ Filled(s) \in SUBSET (HeaderLines(s) + 1 .. Len(LinesOf[s]))
         /\ IsFiniteSet(Filled(s))
         /\ Cardinality(Filled(s)) \in Nat
<1>1. HeaderLines(s) \in 0 .. 1
  BY SourceAssumption DEF SourceAssumption, HeaderLines
<1>2. Len(LinesOf[s]) \in Nat
  BY SourceAssumption DEF SourceAssumption
<1>3. Filled(s) \in SUBSET (HeaderLines(s) + 1 .. Len(LinesOf[s]))
  BY DEF Filled
<1>4. IsFiniteSet(HeaderLines(s) + 1 .. Len(LinesOf[s]))
  <2>1. HeaderLines(s) + 1 \in Int /\ Len(LinesOf[s]) \in Int
    BY <1>1, <1>2
  <2> QED
    BY <2>1, FS_Interval
<1>5. IsFiniteSet(Filled(s))
  BY <1>3, <1>4, FS_Subset
<1> QED
  BY <1>1, <1>2, <1>3, <1>5, FS_CardinalityType

\* Counting the filled lines from the first reaches every number up to their count.
LEMMA NthFilledExists ==
  ASSUME NEW s \in Sources, NEW n \in 1 .. Cardinality(Filled(s))
  PROVE  /\ NthFilled(s, n) \in Filled(s)
         /\ Cardinality({q \in Filled(s) : q <= NthFilled(s, n)}) = n
<1> DEFINE F == Filled(s)
           L == Len(LinesOf[s])
           UpTo(p) == {q \in F : q <= p}
           Count(p) == Cardinality(UpTo(p))
           T == {p \in 0 .. L : Count(p) >= n}
<1>1. /\ F \in SUBSET (1 .. L)
      /\ L \in Nat
      /\ IsFiniteSet(F)
      /\ Cardinality(F) \in Nat
  BY FilledLines
<1>2. ASSUME NEW p
      PROVE  IsFiniteSet(UpTo(p)) /\ Count(p) \in Nat
  <2>1. UpTo(p) \in SUBSET F
    OBVIOUS
  <2>2. IsFiniteSet(UpTo(p))
    BY <1>1, <2>1, FS_Subset
  <2> QED
    BY <2>2, FS_CardinalityType
<1>3. Count(L) >= n
  <2>1. UpTo(L) = F
    BY <1>1
  <2>2. Cardinality(F) >= n
    BY <1>1
  <2> QED
    BY <2>1, <2>2
<1>4. Count(0) = 0
  <2>1. UpTo(0) = {}
    BY <1>1
  <2> QED
    BY <2>1, FS_EmptySet
<1>5. PICK p \in T : \A y \in T : p <= y
  <2>1. T \in SUBSET Nat
    BY <1>1
  <2>2. L \in T
    <3> HIDE DEF Count
    <3> QED
      BY <1>1, <1>3
  <2> HIDE DEF T
  <2> QED
    BY <2>1, <2>2, LeastNumber
<1>6. /\ p \in 1 .. L
      /\ p - 1 \in 0 .. L
      /\ Count(p) >= n
      /\ Count(p - 1) < n
  <2> HIDE DEF Count
  <2>1. p \in 0 .. L /\ Count(p) >= n /\ p # 0
    BY <1>4, <1>5
  <2>2. p \in 1 .. L /\ p - 1 \in 0 .. L /\ p - 1 \in Nat /\ p - 1 < p
    BY <1>1, <2>1
  <2>3. p - 1 \notin T
    BY <1>5, <2>2
  <2>4. Count(p - 1) \in Nat
    BY <1>2
  <2> QED
    BY <2>1, <2>2, <2>3, <2>4
<1>7. p \in F
  <2>1. SUFFICES ASSUME p \notin F PROVE FALSE
    OBVIOUS
  <2>2. UpTo(p) = UpTo(p - 1)
    BY <1>1, <1>6, <2>1
  <2>3. Count(p) = Count(p - 1)
    BY <2>2
  <2>4. Count(p) \in Nat /\ Count(p - 1) \in Nat
    BY <1>2
  <2> HIDE DEF Count
  <2> QED
    BY <1>6, <2>3, <2>4
<1>8. Count(p) = n
  <2>1. UpTo(p) = UpTo(p - 1) \cup {p}
    BY <1>1, <1>6, <1>7
  <2>2. p \notin UpTo(p - 1)
    BY <1>6
  <2>3. Count(p) = Count(p - 1) + 1
    <3>1. Cardinality(UpTo(p - 1) \cup {p}) = Cardinality(UpTo(p - 1)) + 1
      <4> HIDE DEF UpTo
      <4> QED
        BY <1>2, <2>2, FS_AddElement
    <3> QED
      BY <2>1, <3>1
  <2>4. Count(p) \in Nat /\ Count(p - 1) \in Nat
    BY <1>2
  <2> HIDE DEF Count
  <2> QED
    BY <1>6, <2>3, <2>4
<1> QED
  BY <1>7, <1>8 DEF NthFilled

\* What every import numbers: natural numbers from one, each from a line of the source.
LEMMA Numbering ==
  ASSUME NEW s \in Sources
  PROVE  /\ Numbers(s) \in SUBSET (Nat \ {0})
         /\ \A n \in Numbers(s) : ImportedRows(s)[n] \in Filled(s)
         /\ \A n \in Numbers(s) : ImportedRows(s)[n] \in Nat
         /\ IsFiniteSet(Numbers(s))
<1>1. /\ HeaderLines(s) \in 0 .. 1
      /\ Len(LinesOf[s]) \in Nat
      /\ Filled(s) \in SUBSET (HeaderLines(s) + 1 .. Len(LinesOf[s]))
      /\ Cardinality(Filled(s)) \in Nat
  BY FilledLines
<1>2. Filled(s) \in SUBSET Nat
  BY <1>1
<1>3. CASE KindOf[s] \in {"csv", "delimited"}
  <2>1. Numbers(s) = {p - HeaderLines(s) : p \in Filled(s)}
    BY <1>3 DEF Numbers, ImportedRows, NumberedByPosition
  <2>2. \A n \in Numbers(s) : ImportedRows(s)[n] = n + HeaderLines(s)
    BY <1>3, <2>1 DEF ImportedRows, NumberedByPosition
  <2>3. \A p \in Filled(s) : p - HeaderLines(s) \in 1 .. Len(LinesOf[s])
                             /\ (p - HeaderLines(s)) + HeaderLines(s) = p
    BY <1>1
  <2>4. Numbers(s) \in SUBSET (1 .. Len(LinesOf[s]))
    BY <2>1, <2>3
  <2>5. \A n \in Numbers(s) : ImportedRows(s)[n] \in Filled(s)
    BY <2>1, <2>2, <2>3
  <2>6. IsFiniteSet(Numbers(s))
    <3>1. IsFiniteSet(1 .. Len(LinesOf[s]))
      BY <1>1, FS_Interval
    <3> QED
      BY <2>4, <3>1, FS_Subset
  <2> QED
    BY <1>1, <1>2, <2>4, <2>5, <2>6
<1>4. CASE KindOf[s] \notin {"csv", "delimited"}
  <2>1. Numbers(s) = 1 .. Cardinality(Filled(s))
    BY <1>4 DEF Numbers, ImportedRows, NumberedByCount
  <2>2. \A n \in Numbers(s) : ImportedRows(s)[n] = NthFilled(s, n)
    BY <1>4, <2>1 DEF ImportedRows, NumberedByCount
  <2>3. \A n \in Numbers(s) : ImportedRows(s)[n] \in Filled(s)
    BY <2>1, <2>2, NthFilledExists
  <2>4. IsFiniteSet(Numbers(s))
    BY <1>1, <2>1, FS_Interval
  <2> QED
    BY <1>1, <1>2, <2>1, <2>3, <2>4
<1> QED
  BY <1>3, <1>4

-----------------------------------------------------------------------------
(* The loaded source.                                                      *)

LEMMA RowNumbersAreNat == RowNumbers \in SUBSET (Nat \ {0})
BY Numbering DEF RowNumbers

LEMMA NumbersAreRows ==
  ASSUME NEW s \in Sources
  PROVE  Numbers(s) \in SUBSET RowNumbers
BY DEF RowNumbers

\* What SourceStep and ServerLost keep.
SourceInv ==
  /\ SourceTypeOK
  /\ TableMatchesMetadata
  /\ loaded # {} => table # NoSource /\ loaded \subseteq Numbers(table)

LEMMA LostSourceSound ==
  ASSUME SourceInv, ServerLost, changes' \in 0 .. MaxChanges
  PROVE  SourceInv'
BY DEF SourceInv, ServerLost, SourceTypeOK, TableMatchesMetadata

LEMMA SourceStepSound ==
  ASSUME SourceInv, SourceStep
  PROVE  SourceInv'
<1> USE DEF SourceInv
<1>1. ASSUME Change PROVE changes' \in 0 .. MaxChanges
  BY <1>1, ChangeAssumption DEF ChangeAssumption, Change, SourceTypeOK
<1>2. ASSUME NEW s \in Sources, Load(s)
      PROVE  SourceInv'
  BY <1>1, <1>2, ChangeAssumption
  DEF ChangeAssumption, Load, SourceTypeOK, TableMatchesMetadata
<1>3. ASSUME NEW s \in Sources, LoadFails(s)
      PROVE  SourceInv'
  <2>1. changes' \in 0 .. MaxChanges
    BY <1>1, <1>3 DEF LoadFails
  <2>2. loaded' \in SUBSET Numbers(s) /\ table' = s /\ torn' = TRUE /\ current' = current
    BY <1>3 DEF LoadFails
  <2> QED
    BY <2>1, <2>2, ChangeAssumption
    DEF ChangeAssumption, SourceTypeOK, TableMatchesMetadata
<1>4. ASSUME NEW s \in Sources, RecordsRefused(s)
      PROVE  SourceInv'
  BY <1>1, <1>4 DEF RecordsRefused, SourceTypeOK, TableMatchesMetadata
<1>5. ASSUME ClearSource
      PROVE  SourceInv'
  BY <1>1, <1>5 DEF ClearSource, SourceTypeOK, TableMatchesMetadata
<1>6. ASSUME Change, ServerLost
      PROVE  SourceInv'
  BY <1>1, <1>6, LostSourceSound
<1> QED
  BY <1>2, <1>3, <1>4, <1>5, <1>6
  DEF SourceStep, ImportDelimited, ImportDatabase, ImportExcel, ImportParsed,
      ImportRecords

-----------------------------------------------------------------------------
(* The write-back of a job's rows.                                         *)

\* StateIsSound and OwnTasksClosedWhenWritten are kept together.
QueueInv == StateIsSound /\ OwnTasksClosedWhenWritten

\* The tracking number a call writes is well formed, whichever source it reaches.
LEMMA RecordType ==
  ASSUME NEW s \in Sources, NEW n \in RowNumbers
  PROVE  Record(s, n) \in [src : Sources, line : Nat, row : RowNumbers]
         /\ Record(s, n).row = n
BY RowNumbersAreNat, Numbering DEF Record, TargetLine

LEMMA InitSound == Init => QueueInv
<1> SUFFICES ASSUME Init PROVE QueueInv
  OBVIOUS
<1>1. 0 \in 0 .. MaxRuns /\ 0 \in 0 .. MaxCrashes /\ 0 \in 0 .. MaxChanges
  BY RunAssumption, ChangeAssumption DEF RunAssumption, ChangeAssumption
<1>2. SourceTypeOK /\ TableMatchesMetadata
  BY <1>1 DEF Init, SourceInit, SourceTypeOK, TableMatchesMetadata
<1>3. TypeOK
  BY <1>1, <1>2 DEF Init, TypeOK, NoRow
<1>4. JobInv
  BY DEF Init, SourceInit, JobInv
<1>5. RunInv /\ OwnTasksClosedWhenWritten
  BY DEF Init, RunInv, OwnTasksClosedWhenWritten
<1> QED
  BY <1>2, <1>3, <1>4, <1>5 DEF QueueInv, StateIsSound

LEMMA SoundSource ==
  ASSUME QueueInv
  PROVE  SourceInv
BY DEF QueueInv, StateIsSound, TypeOK, JobInv, SourceInv

\* A step that leaves the job's own variables alone, whatever it does to the source.
LEMMA JobFrame ==
  ASSUME QueueInv, SourceInv', UNCHANGED <<dbVars, runVars, history, runs, crashes>>
  PROVE  QueueInv'
BY DEF QueueInv, StateIsSound, OwnTasksClosedWhenWritten, TypeOK, SourceInv, JobInv,
       RunInv, dbVars, runVars, history

LEMMA SourceFrame ==
  ASSUME SourceInv, UNCHANGED sourceVars
  PROVE  SourceInv'
BY DEF SourceInv, SourceTypeOK, TableMatchesMetadata, sourceVars

LEMMA CreateJobSound ==
  ASSUME QueueInv, CreateJob
  PROVE  QueueInv'
<1>1. SourceInv'
  BY SoundSource, SourceFrame DEF CreateJob
<1>2. loaded \subseteq Numbers(table) /\ table \in Sources
  BY DEF QueueInv, StateIsSound, JobInv, TypeOK, SourceTypeOK, CreateJob
<1>3. /\ \A n \in RowNumbers : row[n] = "none" /\ step[n] = "done" /\ task[n] = "none"
      /\ updates = {}
      /\ written = {}
  BY DEF QueueInv, StateIsSound, JobInv, RunInv, TypeOK, CreateJob
<1>4. TypeOK'
  BY <1>1, <1>2 DEF QueueInv, StateIsSound, TypeOK, SourceInv, CreateJob, dbVars, runVars, history
<1>5. JobInv'
  BY <1>1, <1>2, <1>3 DEF QueueInv, StateIsSound, JobInv, SourceInv, CreateJob, runVars, history
<1> QED
  BY <1>1, <1>3, <1>4, <1>5
  DEF QueueInv, StateIsSound, OwnTasksClosedWhenWritten, SourceInv, RunInv, CreateJob,
      runVars, history

LEMMA StartRunSound ==
  ASSUME QueueInv, StartRun
  PROVE  QueueInv'
<1>1. SourceInv'
  BY SoundSource, SourceFrame DEF StartRun
<1>2. runs + 1 \in 0 .. MaxRuns /\ runs \in Nat /\ runs + 1 > 0
  BY RunAssumption DEF RunAssumption, QueueInv, StateIsSound, TypeOK, StartRun
<1>3. \A n \in RowNumbers : shipper[n] \in Nat /\ shipper[n] < runs + 1
  BY <1>2 DEF QueueInv, StateIsSound, TypeOK, RunInv
<1>4. TypeOK'
  BY <1>1, <1>2 DEF QueueInv, StateIsSound, TypeOK, SourceInv, StartRun, dbVars, history
<1>5. JobInv'
  BY <1>1 DEF QueueInv, StateIsSound, JobInv, SourceInv, StartRun, dbVars, history, TypeOK
<1>6. RunInv' /\ OwnTasksClosedWhenWritten'
  BY <1>2, <1>3 DEF RunInv, OwnTasksClosedWhenWritten, StartRun, dbVars, history
<1> QED
  BY <1>1, <1>4, <1>5, <1>6 DEF QueueInv, StateIsSound, SourceInv

LEMMA RowStepSound ==
  ASSUME QueueInv, NEW n \in RowNumbers, RowStep(n)
  PROVE  QueueInv'
<1> USE DEF QueueInv, StateIsSound, TypeOK, JobInv, RunInv, OwnTasksClosedWhenWritten,
            SourceInv, dbVars, runVars, history
<1>1. SourceInv'
  <2>1. UNCHANGED sourceVars
    BY DEF RowStep, ShipRow, CloseRow, CountRow, EnqueueRow
  <2> QED
    BY <2>1, SoundSource, SourceFrame
<1>2. CASE ShipRow(n)
  BY <1>1, <1>2 DEF ShipRow
<1>3. CASE CloseRow(n)
  BY <1>1, <1>3 DEF CloseRow
<1>4. CASE CountRow(n)
  BY <1>1, <1>4 DEF CountRow
<1>5. CASE EnqueueRow(n)
  BY <1>1, <1>5 DEF EnqueueRow
<1> QED
  BY <1>2, <1>3, <1>4, <1>5 DEF RowStep

\* A call leaves its row a success or an error and nothing to write.
LEMMA CalledSound ==
  ASSUME QueueInv, SourceInv', NEW n \in RowNumbers, InCall(n),
         NEW ok \in BOOLEAN, Called(n, ok), NEW s \in Sources,
         written' \in {written, written \cup {Record(s, n)}}
  PROVE  QueueInv'
<1>1. \A w \in written' : w \in written \/ w = Record(s, n)
  OBVIOUS
<1>2. Record(s, n) \in [src : Sources, line : Nat, row : RowNumbers] /\ Record(s, n).row = n
  BY RecordType
<1>3. written' \in SUBSET [src : Sources, line : Nat, row : RowNumbers]
  BY <1>1, <1>2 DEF QueueInv, StateIsSound, TypeOK
<1>4. TypeOK'
  BY <1>3 DEF QueueInv, StateIsSound, TypeOK, SourceInv, Called, dbVars, InCall, NoRow
<1>5. row[n] = "completed"
  BY DEF QueueInv, StateIsSound, RunInv, InCall
<1>6. \A w \in written' : row[w.row] = "completed"
  BY <1>1, <1>2, <1>5 DEF QueueInv, StateIsSound, JobInv
<1>7. JobInv'
  BY <1>6 DEF QueueInv, StateIsSound, JobInv, SourceInv, Called, dbVars
<1> QED
  BY <1>4, <1>7
  DEF QueueInv, StateIsSound, OwnTasksClosedWhenWritten, SourceInv, RunInv, Called,
      InCall, dbVars

LEMMA WriteStepSound ==
  ASSUME QueueInv, NEW n \in RowNumbers, WriteStep(n)
  PROVE  QueueInv'
<1>1. ASSUME UNCHANGED sourceVars
      PROVE  SourceInv'
  BY <1>1, SoundSource, SourceFrame
<1>2. ASSUME InCall(n)
      PROVE  route \in Sources
  BY <1>2 DEF QueueInv, StateIsSound, TypeOK, RunInv, InCall
<1>3. CASE WriteFile(n)
  <2>1. SourceInv' /\ InCall(n)
    BY <1>1, <1>3 DEF WriteFile
  <2>2. CASE /\ Writable(current, n)
             /\ written' = written \cup {Record(current, n)}
             /\ Called(n, TRUE)
    <3>1. current \in Sources
      BY <2>2 DEF Writable, QueueInv, StateIsSound, TypeOK, SourceTypeOK
    <3> QED
      BY <2>1, <2>2, <3>1, CalledSound
  <2>3. CASE UNCHANGED written /\ Called(n, FALSE)
    BY <1>2, <2>1, <2>3, CalledSound
  <2> QED
    BY <1>3, <2>2, <2>3 DEF WriteFile
<1>4. CASE WritePlatform(n)
  <2>1. SourceInv' /\ InCall(n) /\ route \in Sources
    BY <1>1, <1>2, <1>4 DEF WritePlatform
  <2>2. PICK ok \in BOOLEAN :
          Called(n, ok) /\ written' \in {written, written \cup {Record(route, n)}}
    BY <1>4 DEF WritePlatform
  <2> QED
    BY <2>1, <2>2, CalledSound
<1>5. CASE WriteBreaks(n)
  <2>1. SourceInv'
    <3>1. changes' \in 0 .. MaxChanges
      BY <1>5, ChangeAssumption
      DEF ChangeAssumption, WriteBreaks, Change, QueueInv, StateIsSound, TypeOK, SourceTypeOK
    <3> QED
      BY <1>5, <3>1, SoundSource, LostSourceSound DEF WriteBreaks
  <2>2. \A w \in written' : \/ w \in written
                            \/ current \in Sources /\ w = Record(current, n)
    BY <1>5 DEF WriteBreaks, Writable, QueueInv, StateIsSound, TypeOK, SourceTypeOK
  <2>3. /\ InCall(n)
        /\ retry' = n
        /\ UNCHANGED <<dbVars, step, updates, run, route, todo, failed, told, shipper,
                       runs, crashes>>
    BY <1>5 DEF WriteBreaks
  <2>4. written' \in SUBSET [src : Sources, line : Nat, row : RowNumbers]
    BY <2>2, RecordType DEF QueueInv, StateIsSound, TypeOK
  <2>5. TypeOK'
    BY <2>1, <2>3, <2>4 DEF QueueInv, StateIsSound, TypeOK, SourceInv, dbVars
  <2>6. row[n] = "completed"
    BY <2>3 DEF QueueInv, StateIsSound, RunInv, InCall
  <2>7. \A w \in written' : row[w.row] = "completed"
    BY <2>2, <2>6, RecordType DEF QueueInv, StateIsSound, JobInv
  <2>8. JobInv'
    BY <2>1, <2>3, <2>7 DEF QueueInv, StateIsSound, JobInv, SourceInv, dbVars
  <2> QED
    BY <2>1, <2>3, <2>5, <2>8
    DEF QueueInv, StateIsSound, OwnTasksClosedWhenWritten, SourceInv, RunInv, dbVars
<1> QED
  BY <1>3, <1>4, <1>5 DEF WriteStep

LEMMA RunStepSound ==
  ASSUME QueueInv, GatherEnds \/ LookUp \/ LookUpFails
  PROVE  QueueInv'
<1> USE DEF QueueInv, StateIsSound, TypeOK, JobInv, RunInv, OwnTasksClosedWhenWritten,
            SourceInv, dbVars, history
<1>1. SourceInv'
  <2>1. UNCHANGED sourceVars
    BY DEF GatherEnds, LookUp, LookUpFails
  <2> QED
    BY <2>1, SoundSource, SourceFrame
<1>2. CASE GatherEnds
  BY <1>1, <1>2 DEF GatherEnds
<1>3. CASE LookUp
  <2>1. current \in Sources
    BY <1>3 DEF SourceTypeOK, LookUp
  <2> QED
    BY <1>1, <1>3, <2>1 DEF LookUp
<1>4. CASE LookUpFails
  BY <1>1, <1>4 DEF LookUpFails
<1> QED
  BY <1>2, <1>3, <1>4

\* What a run closes it has written: without an error every row it remembers is
\* told, with one only the rows that are told are closed.
LEMMA FinishWriteBackSound ==
  ASSUME QueueInv, FinishWriteBack
  PROVE  QueueInv'
<1>1. SourceInv'
  BY SoundSource, SourceFrame DEF FinishWriteBack
<1>2. TypeOK'
  BY <1>1 DEF QueueInv, StateIsSound, TypeOK, SourceInv, FinishWriteBack, Closed, history
<1>3. JobInv'
  BY <1>1 DEF QueueInv, StateIsSound, JobInv, SourceInv, FinishWriteBack, Closed, history, TypeOK
<1>4. RunInv'
  BY DEF QueueInv, StateIsSound, RunInv, FinishWriteBack, history
<1>5. OwnTasksClosedWhenWritten'
  <2> SUFFICES ASSUME NEW n \in RowNumbers, task'[n] = "completed", n \notin told
               PROVE  shipper[n] < runs
    BY DEF OwnTasksClosedWhenWritten, FinishWriteBack, history
  <2>1. CASE task[n] = "completed"
    BY <2>1 DEF QueueInv, OwnTasksClosedWhenWritten
  <2>2. CASE task[n] # "completed"
    <3>1. failed = {} \/ n \in updates \ failed
      BY <2>2 DEF FinishWriteBack, Closed
    <3>2. updates \subseteq told \cup failed /\ run = "writing"
      BY DEF QueueInv, StateIsSound, RunInv, FinishWriteBack
    <3>3. n \notin updates
      BY <3>1, <3>2
    <3>4. shipper[n] # runs
      BY <3>2, <3>3 DEF QueueInv, StateIsSound, RunInv, JobInv
    <3> QED
      BY <3>4, RunAssumption DEF RunAssumption, QueueInv, StateIsSound, TypeOK, RunInv
  <2> QED
    BY <2>1, <2>2
<1> QED
  BY <1>1, <1>2, <1>3, <1>4, <1>5 DEF QueueInv, StateIsSound, SourceInv

LEMMA CrashSound ==
  ASSUME QueueInv, Crash
  PROVE  QueueInv'
<1>1. SourceInv'
  BY SoundSource, LostSourceSound
  DEF Crash, QueueInv, StateIsSound, TypeOK, SourceTypeOK
<1>2. PICK S \in SUBSET {n \in RowNumbers : step[n] = "todo"} :
        row' = [n \in RowNumbers |-> IF n \in S THEN "open" ELSE row[n]]
  BY DEF Crash
<1>3. \A n \in RowNumbers : n \in S => row[n] = "pending"
  BY <1>2 DEF QueueInv, StateIsSound, JobInv
<1>4. crashes' \in 0 .. MaxCrashes
  BY RunAssumption DEF RunAssumption, Crash, QueueInv, StateIsSound, TypeOK
<1>5. TypeOK'
  BY <1>1, <1>2, <1>4
  DEF QueueInv, StateIsSound, TypeOK, SourceInv, Crash, NoRun, NoRow, history
<1>6. \A w \in written : row'[w.row] = "completed"
  BY <1>2, <1>3 DEF QueueInv, StateIsSound, JobInv, TypeOK
<1>7. JobInv'
  BY <1>1, <1>2, <1>3, <1>6
  DEF QueueInv, StateIsSound, JobInv, SourceInv, Crash, NoRun, history
<1>8. RunInv' /\ OwnTasksClosedWhenWritten'
  BY DEF QueueInv, StateIsSound, RunInv, OwnTasksClosedWhenWritten, Crash, NoRun, history
<1> QED
  BY <1>1, <1>5, <1>7, <1>8 DEF QueueInv, StateIsSound, SourceInv

LEMMA NextSound == QueueInv /\ [Next]_vars => QueueInv'
<1> SUFFICES ASSUME QueueInv, [Next]_vars PROVE QueueInv'
  OBVIOUS
<1>1. CASE SourceStep /\ UNCHANGED <<dbVars, runVars, history, runs, crashes>>
  BY <1>1, SoundSource, SourceStepSound, JobFrame
<1>2. CASE RunStep
  BY <1>2, RowStepSound, WriteStepSound, RunStepSound, FinishWriteBackSound DEF RunStep
<1>3. CASE UNCHANGED vars
  BY <1>3, SoundSource, SourceFrame, JobFrame DEF vars
<1> QED
  BY <1>1, <1>2, <1>3, CreateJobSound, StartRunSound, CrashSound DEF Next

LEMMA QueueHolds == Spec => []QueueInv
BY InitSound, NextSound, PTL DEF Spec

\* The server's metadata names the source whose rows it holds, every one of them, unless
\* an import failed part way, and the rows of the job, their tasks and what the run
\* remembers of them agree: for any sources, number of runs, crashes and changes.
THEOREM WriteBackIsSound == Spec => []StateIsSound
<1>1. QueueInv => StateIsSound
  BY DEF QueueInv
<1> QED
  BY <1>1, QueueHolds, PTL

\* A run never closes the write-back task of a row it shipped before the source was
\* told its tracking number, whatever source is loaded by then and however often the
\* process died: what is closed unwritten is a task an earlier run left.
THEOREM OwnTasksAreWritten == Spec => []OwnTasksClosedWhenWritten
<1>1. QueueInv => OwnTasksClosedWhenWritten
  BY DEF QueueInv
<1> QED
  BY <1>1, QueueHolds, PTL

-----------------------------------------------------------------------------
(* The row a tracking number reaches.                                      *)

\* The sources whose numbering an import and a write read alike: a flat file has its
\* header on the first line, and a workbook has no empty row below it.
NumberingsAgree ==
  \A s \in Sources :
    KindOf[s] \in Flat =>
      /\ HasHeader[s]
      /\ KindOf[s] = "excel" => Filled(s) = 2 .. Len(LinesOf[s])

\* In such a file row n is on line n + 1.
LEMMA FlatRowIsOnItsLine ==
  ASSUME NumberingsAgree, NEW s \in Sources, KindOf[s] \in Flat, NEW n \in Numbers(s)
  PROVE  ImportedRows(s)[n] = TargetLine(n)
<1>1. HeaderLines(s) = 1
  BY DEF NumberingsAgree, HeaderLines
<1>2. CASE KindOf[s] \in {"csv", "delimited"}
  BY <1>1, <1>2 DEF Numbers, ImportedRows, NumberedByPosition, TargetLine
<1>3. CASE KindOf[s] = "excel"
  <2> DEFINE L == Len(LinesOf[s])
             p == NthFilled(s, n)
  <2>1. Filled(s) = 2 .. L /\ L \in Nat /\ Cardinality(Filled(s)) \in Nat
    BY <1>3, FilledLines DEF NumberingsAgree
  <2>2. n \in 1 .. Cardinality(Filled(s)) /\ ImportedRows(s)[n] = p
    BY <1>3 DEF Numbers, ImportedRows, NumberedByCount
  <2>3. p \in 2 .. L /\ Cardinality({q \in 2 .. L : q <= p}) = n
    BY <2>1, <2>2, NthFilledExists
  <2>4. {q \in 2 .. L : q <= p} = 2 .. p
    BY <2>1, <2>3
  <2>5. Cardinality(2 .. p) = p - 1
    <3> HIDE DEF p
    <3>1. p \in Int /\ ~(2 > p)
      BY <2>1, <2>3
    <3>2. Cardinality(2 .. p) = p - 2 + 1
      BY <3>1, FS_Interval
    <3> QED
      BY <3>1, <3>2
  <2>6. p = n + 1
    <3>1. p \in Int /\ n \in Int
      BY <2>1, <2>2, <2>3
    <3> HIDE DEF p
    <3>2. n = Cardinality(2 .. p)
      BY <2>3, <2>4
    <3> QED
      BY <2>5, <3>1, <3>2
  <2> QED
    BY <2>2, <2>6 DEF TargetLine
<1> QED
  BY <1>2, <1>3 DEF Flat

\* A record of a row of its own source names the line the row was imported from.
LEMMA RecordIsOnItsRow ==
  ASSUME NumberingsAgree, NEW s \in Sources, NEW n \in Numbers(s)
  PROVE  Record(s, n).line = ImportedRows(s)[n]
<1>1. CASE KindOf[s] \in Flat
  BY <1>1, FlatRowIsOnItsLine DEF Record
<1>2. CASE KindOf[s] \notin Flat
  BY <1>2 DEF Record
<1> QED
  BY <1>1, <1>2

RowInv == QueueInv /\ TrackingOnItsRow

\* The only records a step adds are those of a row whose call is out.
LEMMA NextKeepsRows ==
  ASSUME NumberingsAgree, RowInv, [Next]_vars
  PROVE  TrackingOnItsRow'
<1>1. QueueInv /\ QueueInv'
  BY NextSound DEF RowInv
<1>2. \A w \in written' :
        \/ w \in written
        \/ \E s \in Sources, n \in RowNumbers :
             w = Record(s, n) /\ InCall(n) /\ UNCHANGED <<job, row>>
  <2> USE DEF history, dbVars, vars
  <2>1. ASSUME NEW n \in RowNumbers, WriteStep(n)
        PROVE  \A w \in written' :
                 \/ w \in written
                 \/ \E s \in Sources : w = Record(s, n) /\ InCall(n) /\ UNCHANGED <<job, row>>
    <3>1. InCall(n) => route \in Sources
      BY <1>1 DEF QueueInv, StateIsSound, TypeOK, RunInv, InCall
    <3>2. current \in Sources \cup {NoSource}
      BY <1>1 DEF QueueInv, StateIsSound, TypeOK, SourceTypeOK
    <3> QED
      BY <2>1, <3>1, <3>2
      DEF WriteStep, WriteFile, WriteBreaks, WritePlatform, Called, Writable
  <2>2. ASSUME NEW n \in RowNumbers, RowStep(n)
        PROVE  written' = written
    BY <2>2 DEF RowStep, ShipRow, CloseRow, CountRow, EnqueueRow
  <2> QED
    BY <2>1, <2>2
    DEF Next, CreateJob, StartRun, RunStep, GatherEnds, LookUp, LookUpFails,
        FinishWriteBack, Crash
<1> SUFFICES ASSUME NEW w \in written', w.src = job'
             PROVE  w.line = ImportedRows(job')[w.row]
  BY DEF TrackingOnItsRow
<1>3. CASE w \in written
  <2>1. job # NoSource
    BY <1>1, <1>3 DEF QueueInv, StateIsSound, JobInv, TypeOK
  <2>2. job' = job
    BY <2>1
    DEF Next, CreateJob, StartRun, RunStep, RowStep, ShipRow, CloseRow, CountRow, EnqueueRow,
        WriteStep, WriteFile, WriteBreaks, WritePlatform, Called, GatherEnds, LookUp,
        LookUpFails, FinishWriteBack, Crash, dbVars, vars
  <2> QED
    BY <1>3, <2>2 DEF RowInv, TrackingOnItsRow
<1>4. ASSUME NEW s \in Sources, NEW n \in RowNumbers, w = Record(s, n), InCall(n),
             UNCHANGED <<job, row>>
      PROVE  w.line = ImportedRows(job')[w.row]
  <2>1. w.src = s /\ w.row = n
    BY <1>4 DEF Record
  <2>2. row[n] = "completed"
    BY <1>1, <1>4 DEF QueueInv, StateIsSound, RunInv, InCall
  <2>3. n \in Numbers(job) /\ job = s
    BY <1>1, <1>4, <2>1, <2>2 DEF QueueInv, StateIsSound, JobInv
  <2> QED
    BY <1>4, <2>1, <2>3, RecordIsOnItsRow
<1> QED
  BY <1>2, <1>3, <1>4

\* A tracking number written to the source its row was imported from is on that very
\* row, as long as no workbook has an empty row and no flat file lacks its header: the
\* hypothesis run ExcelRows shows to be needed.
THEOREM TrackingReachesItsRow ==
  ASSUME NumberingsAgree
  PROVE  Spec => []TrackingOnItsRow
<1>1. Init => RowInv
  BY InitSound DEF RowInv, TrackingOnItsRow, Init
<1>2. RowInv /\ [Next]_vars => RowInv'
  BY NextSound, NextKeepsRows DEF RowInv
<1>3. RowInv => TrackingOnItsRow
  BY DEF RowInv
<1> QED
  BY <1>1, <1>2, <1>3, PTL DEF Spec
=============================================================================
