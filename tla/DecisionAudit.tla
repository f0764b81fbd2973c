---------------------------- MODULE DecisionAudit ----------------------------
(***************************************************************************)
(* The ledger of the agent's decisions: runs and their hash-chained events *)
(* in the database, mirrored to a JSONL file.  The server and the          *)
(* in-process CLI write to the same runs, each event in two steps: the     *)
(* SELECT of the latest event runs outside any transaction, the INSERT     *)
(* begins one.  The hash of an event stands for its writer and number,     *)
(* which the unique constraint makes distinct.                             *)
(***************************************************************************)
EXTENDS Naturals, Sequences, FiniteSets

CONSTANTS
  None,
  Runs,
  Writers,      \* the processes that write to the ledger
  MaxEvents,    \* bound: events of a run
  MirrorQueue   \* capacity of a process's queue to the mirror

VARIABLES
  run,       \* by run: none, running, completed (or failed), deleted
  old,       \* by run: how many of its events are past retention; None: it is not
  events,    \* by run: its committed events [seq, by, prev]
  step,      \* by writer: where its call is
  about,     \* by writer: the run its call is about
  seen,      \* by writer: the latest event it read, or None
  backlog,   \* by writer: lines its mirror thread has not written
  mirror,    \* the lines [run, event] of the file
  kept       \* by writer: what its prune found to keep, or the runs to delete

auditVars == <<run, old, events, step, about, seen, backlog, mirror, kept>>

Init ==
  /\ run = [r \in Runs |-> "none"]
  /\ old = [r \in Runs |-> None]
  /\ events = [r \in Runs |-> <<>>]
  /\ step = [w \in Writers |-> "idle"]
  /\ about = [w \in Writers |-> None]
  /\ seen = [w \in Writers |-> None]
  /\ backlog = [w \in Writers |-> <<>>]
  /\ mirror = {}
  /\ kept = [w \in Writers |-> {}]

Goto(w, s) == step' = [step EXCEPT ![w] = s]

StartRun(w, r) ==
  /\ step[w] = "idle" /\ run[r] = "none"
  /\ run' = [run EXCEPT ![r] = "running"]
  /\ UNCHANGED <<old, events, step, about, seen, backlog, mirror, kept>>

\* The message is over; a run may be completed while others still log to it.
CompleteRun(w, r) ==
  /\ step[w] = "idle" /\ run[r] = "running"
  /\ run' = [run EXCEPT ![r] = "completed"]
  /\ UNCHANGED <<old, events, step, about, seen, backlog, mirror, kept>>

\* log_event, first step.  A job's batch finds the run of its job whatever the
\* run's status is, so that any run that was ever started may be logged to.
ReadLatest(w, r) ==
  /\ step[w] = "idle" /\ run[r] \notin {"none", "deleted"} /\ Len(events[r]) < MaxEvents
  /\ about' = [about EXCEPT ![w] = r]
  /\ seen' = [seen EXCEPT ![w] = IF events[r] = <<>> THEN None ELSE events[r][Len(events[r])]]
  /\ Goto(w, "insert")
  /\ UNCHANGED <<run, old, events, backlog, mirror, kept>>

NextEvent(w) ==
  IF seen[w] = None THEN [seq |-> 1, by |-> w, prev |-> None]
  ELSE [seq |-> seen[w].seq + 1, by |-> w, prev |-> <<seen[w].seq, seen[w].by>>]

\* Mutant of Refused: no unique constraint on the run and the number.
RefusedDeleted(w) == run[about[w]] = "deleted"

\* The insert breaks a constraint: the run is gone, or the number is taken.
Refused(w) ==
  \/ run[about[w]] = "deleted"
  \/ \E i \in DOMAIN events[about[w]] : events[about[w]][i].seq = NextEvent(w).seq

InsertEvent(w) ==
  /\ step[w] = "insert" /\ ~Refused(w)
  /\ events' = [events EXCEPT ![about[w]] = Append(@, NextEvent(w))]
  /\ Goto(w, "mirror")
  /\ UNCHANGED <<run, old, about, seen, backlog, mirror, kept>>

\* Mutant of InsertFails: the mirror is written all the same.
InsertFailsMirrored(w) ==
  /\ step[w] = "insert"
  /\ Goto(w, "mirror")
  /\ UNCHANGED <<run, old, events, about, seen, backlog, mirror, kept>>

\* A constraint, or a lock held too long.  The error is caught inside the with
\* block, whose commit then raises again: the caller gets an exception.
InsertFails(w) ==
  /\ step[w] = "insert"
  /\ Goto(w, "raised")
  /\ UNCHANGED <<run, old, events, about, seen, backlog, mirror, kept>>

\* The caller's own call ends with the error.
CallerFails(w) ==
  /\ step[w] = "raised"
  /\ Goto(w, "idle")
  /\ seen' = [seen EXCEPT ![w] = None]
  /\ about' = [about EXCEPT ![w] = None]
  /\ UNCHANGED <<run, old, events, backlog, mirror, kept>>

\* After the commit; a full queue drops the line.
Mirror(w) ==
  /\ step[w] = "mirror"
  /\ backlog' = IF Len(backlog[w]) < MirrorQueue
                  THEN [backlog EXCEPT ![w] = Append(@, [run |-> about[w], event |-> NextEvent(w)])]
                  ELSE backlog
  /\ Goto(w, "idle")
  /\ seen' = [seen EXCEPT ![w] = None]
  /\ about' = [about EXCEPT ![w] = None]
  /\ UNCHANGED <<run, old, events, mirror, kept>>

\* The mirror thread appends to the file, or to the one a prune has replaced.
WriteMirror(w) ==
  /\ backlog[w] # <<>>
  /\ mirror' \in {mirror \cup {backlog[w][i] : i \in DOMAIN backlog[w]}, mirror}
  /\ backlog' = [backlog EXCEPT ![w] = <<>>]
  /\ UNCHANGED <<run, old, events, step, about, seen, kept>>

\* Retention passes: the run, and what has been logged to it so far, is old.
Age(r) ==
  /\ run[r] \notin {"none", "deleted"} /\ old[r] = None
  /\ old' = [old EXCEPT ![r] = Len(events[r])]
  /\ UNCHANGED <<run, events, step, about, seen, backlog, mirror, kept>>

CleanupSelects(w) ==
  /\ step[w] = "idle"
  /\ kept' = [kept EXCEPT ![w] = {r \in Runs : run[r] = "completed" /\ old[r] # None}]
  /\ Goto(w, "delete")
  /\ UNCHANGED <<run, old, events, about, seen, backlog, mirror>>

\* One transaction: the events and the runs that were found.
CleanupDeletes(w) ==
  /\ step[w] = "delete"
  /\ run' = [r \in Runs |-> IF r \in kept[w] THEN "deleted" ELSE run[r]]
  /\ events' = [r \in Runs |-> IF r \in kept[w] THEN <<>> ELSE events[r]]
  /\ Goto(w, "prune")
  /\ UNCHANGED <<old, about, seen, backlog, mirror, kept>>

OldLine(l) == old[l.run] # None /\ l.event.seq <= old[l.run]

PruneReads(w) ==
  /\ step[w] = "prune"
  /\ kept' = [kept EXCEPT ![w] = {l \in mirror : ~OldLine(l)}]
  /\ Goto(w, "replace")
  /\ UNCHANGED <<run, old, events, about, seen, backlog, mirror>>

\* What was appended since the file was read is lost.
PruneReplaces(w) ==
  /\ step[w] = "replace"
  /\ mirror' = kept[w]
  /\ kept' = [kept EXCEPT ![w] = {}]
  /\ Goto(w, "idle")
  /\ UNCHANGED <<run, old, events, about, seen, backlog>>

CleanupStep(w) == CleanupSelects(w) \/ CleanupDeletes(w) \/ PruneReads(w) \/ PruneReplaces(w)

\* The process ends: its queue is in memory, its thread a daemon.
Crash(w) ==
  /\ step' = [step EXCEPT ![w] = "idle"]
  /\ about' = [about EXCEPT ![w] = None]
  /\ seen' = [seen EXCEPT ![w] = None]
  /\ kept' = [kept EXCEPT ![w] = {}]
  /\ backlog' = [backlog EXCEPT ![w] = <<>>]
  /\ UNCHANGED <<run, old, events, mirror>>

Next ==
  \/ \E w \in Writers :
       \/ \E r \in Runs : StartRun(w, r) \/ CompleteRun(w, r) \/ ReadLatest(w, r)
       \/ InsertEvent(w) \/ InsertFails(w) \/ CallerFails(w) \/ Mirror(w) \/ WriteMirror(w)
       \/ CleanupStep(w) \/ Crash(w)
  \/ \E r \in Runs : Age(r)

-----------------------------------------------------------------------------
TypeOK ==
  /\ \A r \in Runs : run[r] \in {"none", "running", "completed", "deleted"}
  /\ \A w \in Writers :
       /\ step[w] \in {"idle", "insert", "raised", "mirror", "delete", "prune", "replace"}
       /\ Len(backlog[w]) <= MirrorQueue

\* The events of a run are numbered without a gap and chained, whoever wrote
\* them: an auditor who follows prev_event_hash meets every one of them.
ChainUnbroken ==
  \A r \in Runs : \A i \in DOMAIN events[r] :
    LET e == events[r][i]
    IN  /\ e.seq = i
        /\ e.prev = IF i = 1 THEN None ELSE <<i - 1, events[r][i - 1].by>>

\* The mirror never shows an event the ledger does not have, as long as its run
\* is kept, though it may lack any of them.
MirrorOfCommitted ==
  \A l \in mirror \cup UNION {{backlog[w][i] : i \in DOMAIN backlog[w]} : w \in Writers} :
    run[l.run] # "deleted" => \E i \in DOMAIN events[l.run] : events[l.run][i] = l.event
=============================================================================
