---------------------------- MODULE LabelStorage ----------------------------
(***************************************************************************)
(* The labels of one job that UPS has answered: where each is kept on the  *)
(* way from the answer to the row, what a crash, the recovery and the      *)
(* startup cleanup leave of it, and what the label routes serve.  Labels   *)
(* are kept in files or, with LABEL_STORAGE_BACKEND=s3, as objects.        *)
(***************************************************************************)
EXTENDS Naturals, FiniteSets

CONSTANTS
  LabelRows,   \* rows of the job
  MaxStops     \* bounds the crashes

VARIABLES
  backend,   \* "local" or "s3", or "unset"
  staging,   \* rows with a label under staging/<job>
  final,     \* rows with a label at its final place
  rowIs,     \* status of each row: "in_flight", "completed" or "needs_review"
  labelAt,   \* row -> whether its label_path was written
  step,      \* row -> how far its task is, "none" when nobody runs it
  answered,  \* rows UPS has sent a label for
  merged,    \* the last merged download: the rows asked for and those in it
  stops

labelVars == <<backend, staging, final, rowIs, labelAt, step, answered, merged, stops>>

TypeOK ==
  /\ backend \in {"unset", "local", "s3"}
  /\ staging \subseteq LabelRows /\ final \subseteq LabelRows /\ answered \subseteq LabelRows
  /\ rowIs \in [LabelRows -> {"in_flight", "completed", "needs_review"}]
  /\ labelAt \in [LabelRows -> BOOLEAN]
  /\ step \in [LabelRows -> {"none", "asked", "answered", "staged", "copied", "promoted", "bare"}]
  /\ merged \in [of : SUBSET LabelRows, pages : SUBSET LabelRows]
  /\ stops \in 0..MaxStops

Init ==
  /\ backend = "unset"
  /\ staging = {}
  /\ final = {}
  /\ rowIs = [r \in LabelRows |-> "in_flight"]
  /\ labelAt = [r \in LabelRows |-> FALSE]
  /\ step = [r \in LabelRows |-> "asked"]
  /\ answered = {}
  /\ merged = [of |-> {}, pages |-> {}]
  /\ stops = 0

Configure ==
  /\ backend = "unset"
  /\ backend' \in {"local", "s3"}
  /\ UNCHANGED <<staging, final, rowIs, labelAt, step, answered, merged, stops>>

Goes(r, s) == step' = [step EXCEPT ![r] = s]

\* UPS answers, with a label or without.
Answered(r) ==
  /\ backend # "unset"
  /\ step[r] = "asked"
  /\ \/ Goes(r, "answered") /\ answered' = answered \cup {r}
     \/ Goes(r, "bare") /\ UNCHANGED answered
  /\ UNCHANGED <<backend, staging, final, rowIs, labelAt, merged, stops>>

SaveStaged(r) ==
  /\ step[r] = "answered"
  /\ staging' = staging \cup {r}
  /\ Goes(r, "staged")
  /\ UNCHANGED <<backend, final, rowIs, labelAt, answered, merged, stops>>

\* promote renames the file; it copies the object, and deletes it with a second
\* request.
Promote(r) ==
  /\ step[r] = "staged"
  /\ final' = final \cup {r}
  /\ IF backend = "local"
       THEN staging' = staging \ {r} /\ Goes(r, "promoted")
       ELSE Goes(r, "copied") /\ UNCHANGED staging
  /\ UNCHANGED <<backend, rowIs, labelAt, answered, merged, stops>>

DeleteStaged(r) ==
  /\ step[r] = "copied"
  /\ staging' = staging \ {r}
  /\ Goes(r, "promoted")
  /\ UNCHANGED <<backend, final, rowIs, labelAt, answered, merged, stops>>

\* Mutant of Commit: the row is committed before its label is promoted.
CommitFirst(r) ==
  /\ step[r] \in {"staged", "bare"}
  /\ rowIs' = [rowIs EXCEPT ![r] = "completed"]
  /\ labelAt' = [labelAt EXCEPT ![r] = step[r] = "staged"]
  /\ Goes(r, "none")
  /\ UNCHANGED <<backend, staging, final, answered, merged, stops>>

\* Mutant of Commit: a row UPS sent no label for gets a label_path.
CommitAnyLabel(r) ==
  /\ step[r] \in {"promoted", "bare"}
  /\ rowIs' = [rowIs EXCEPT ![r] = "completed"]
  /\ labelAt' = [labelAt EXCEPT ![r] = TRUE]
  /\ Goes(r, "none")
  /\ UNCHANGED <<backend, staging, final, answered, merged, stops>>

\* Phase 2: the row is completed with what became of its label.
Commit(r) ==
  /\ step[r] \in {"promoted", "bare"}
  /\ rowIs' = [rowIs EXCEPT ![r] = "completed"]
  /\ labelAt' = [labelAt EXCEPT ![r] = step[r] = "promoted"]
  /\ Goes(r, "none")
  /\ UNCHANGED <<backend, staging, final, answered, merged, stops>>

\* Saving, promoting or committing fails after UPS has answered.
PostUpsFails(r) ==
  /\ step[r] \in {"answered", "staged", "copied", "promoted", "bare"}
  /\ rowIs' = [rowIs EXCEPT ![r] = "needs_review"]
  /\ Goes(r, "none")
  /\ UNCHANGED <<backend, staging, final, labelAt, answered, merged, stops>>

-----------------------------------------------------------------------------
\* The server dies: its tasks are gone.
Crash ==
  /\ stops < MaxStops
  /\ stops' = stops + 1
  /\ step' = [r \in LabelRows |-> "none"]
  /\ UNCHANGED <<backend, staging, final, rowIs, labelAt, answered, merged>>

\* recover_in_flight_rows: no row it finds has a tracking number.
Recover(r) ==
  /\ step[r] = "none"
  /\ rowIs[r] = "in_flight"
  /\ rowIs' = [rowIs EXCEPT ![r] = "needs_review"]
  /\ UNCHANGED <<backend, staging, final, labelAt, step, answered, merged, stops>>

\* Mutant of Unresolved: rows under review do not hold their job's files back.
StillRunning == \E r \in LabelRows : rowIs[r] = "in_flight"

\* A job with such a row keeps its staged files.
Unresolved == \E r \in LabelRows : rowIs[r] \in {"in_flight", "needs_review"}

\* cleanup_staging, when the server starts: files only.
CleanupStaging ==
  /\ backend = "local"
  /\ stops > 0
  /\ \A r \in LabelRows : step[r] = "none"
  /\ ~Unresolved
  /\ staging' = {}
  /\ UNCHANGED <<backend, final, rowIs, labelAt, step, answered, merged, stops>>

\* _validate_label_path and exists: only a file below the labels directory is
\* served; the reference of an object is not.
Served(r) == labelAt[r] /\ backend = "local" /\ r \in final

\* GET .../labels/merged leaves out what it cannot serve.
DownloadMerged ==
  LET of == {r \in LabelRows : labelAt[r]}
      pages == {r \in of : Served(r)}
  IN  /\ pages # {}
      /\ merged' = [of |-> of, pages |-> pages]
      /\ UNCHANGED <<backend, staging, final, rowIs, labelAt, step, answered, stops>>

Next ==
  \/ Configure \/ Crash \/ CleanupStaging \/ DownloadMerged
  \/ \E r \in LabelRows :
       \/ Answered(r) \/ SaveStaged(r) \/ Promote(r) \/ DeleteStaged(r) \/ Commit(r)
       \/ PostUpsFails(r) \/ Recover(r)

-----------------------------------------------------------------------------
\* A row that reads as completed has its label where label_path says, whenever the
\* server died; the order of promote and commit is there for it (batch_engine.py:682).
CompletedHasItsLabel ==
  \A r \in LabelRows : rowIs[r] = "completed" /\ r \in answered => labelAt[r] /\ r \in final

\* The label of a row the operator has to resolve is not cleaned away, if it was
\* ever saved.
ReviewKeepsItsLabel ==
  [][\A r \in LabelRows : rowIs'[r] # "completed" /\ r \in staging \cup final
                            => r \in staging' \cup final']_labelVars

\* The merged download has every label of the job.
MergedIsWhole == merged.pages = merged.of

\* The labels of a completed job can be downloaded.
CompletedIsServed ==
  \A r \in LabelRows : rowIs[r] = "completed" /\ r \in answered => Served(r)
=============================================================================
