--------------------------- MODULE BatchInvariant ---------------------------
(* The inductive invariants behind the safety properties of                *)
(* BatchExecution: what is true of a row at every point of its task.       *)
EXTENDS BatchLedger

\* Rows an executor may still claim.
Unclaimed == {"pending", "skipped"}

\* Points of a row's task at which its call is out or has been answered.
Called == {"calling", "created", "accepted", "staged", "promoted", "committed"}

\* For any number of executors: a row is claimed from its call on, nobody can
\* unclaim it, and an executor that has yet to hear from UPS has created
\* nothing.  AtMostOncePerExecutor and ShippedRowsAreClaimed follow.
ClaimedFrom(w, r) ==
  /\ made[w][r] \in {0, 1}
  /\ pc[w][r] \in {"queued", "calling"} => made[w][r] = 0
  /\ made[w][r] = 1 \/ pc[w][r] \in Called => rowStatus[r] \notin Unclaimed

ClaimInv == \A w \in Executors, r \in Rows : ClaimedFrom(w, r)

\* For one server with a UPS process that respawns: what the point a task has
\* reached says of its row and its shipment ...
TaskInv(r) ==
  LET p == pc[Server][r]
      st == rowStatus[r]
  IN
  /\ p = "queued" => st \in Unclaimed \cup {"deleted"}
  /\ p \in Called \ {"committed"} => st \in {"in_flight", "deleted"}
  /\ p = "committed" => st \in {"completed", "deleted"}
  /\ p \in Called \ {"calling"} => made[Server][r] = 1
  /\ p \in {"queued", "calling", "created", "accepted", "promoted"} =>
       label[r] # "staged"

\* ... what the row's own record says of them ...
RecordInv(r) ==
  /\ made[Server][r] > 0 =>
       rowStatus[r] \in {"in_flight", "completed", "needs_review", "deleted"}
  /\ r \in tracked => rowStatus[r] \in {"completed", "needs_review", "deleted"}
  /\ label[r] = "staged" => rowStatus[r] \in {"in_flight", "needs_review", "deleted"}
  /\ rowStatus[r] = "completed" => made[Server][r] = 1 /\ r \in tracked

\* ... and what recovery relies on: a server that is not up runs nothing, and
\* the rows it has yet to recover are the in_flight rows of a running job.
LifeInv ==
  /\ boot # "up" =>
       /\ handler = "none" /\ phase[Server] = "idle" /\ patch[Server] = NoStatus
       /\ ~skip
       /\ \A r \in Rows : pc[Server][r] = "none"
  /\ \A r \in recover : boot = "recovering" /\ rowStatus[r] = "in_flight"
  /\ boot = "recovering" /\ jobStatus = "running" =>
       \A r \in Rows : rowStatus[r] = "in_flight" => r \in recover

RowInv ==
  /\ \A r \in Rows : TaskInv(r) /\ RecordInv(r)
  /\ LifeInv

\* For SettledCountsAgree: an execution of a sole server starts on rows nobody
\* has treated, since a job never reads as pending again once one was launched ...
Untouched == \A r \in Rows : rowStatus[r] \in Unclaimed \cup {"deleted"}

LaunchInv ==
  /\ handler # "none" \/ jobStatus = "pending" => phase[Server] = "idle" /\ Untouched
  /\ handler = "confirming" => jobStatus # "pending"
  /\ phase[Server] = "scheduled" => Untouched
  /\ patch[Server] # NoStatus => patch[Server] # "pending"
  /\ jobStatus # "deleted" => \A r \in Rows : rowStatus[r] # "deleted"

\* ... and the counters tell how each task ended.
CountedAs(r) ==
  LET p == pc[Server][r]
      st == rowStatus[r]
      good == r \in succ[Server]
      bad == r \in fail[Server]
  IN
  /\ ~(good /\ bad)
  /\ p \notin {"committed", "done"} => ~good /\ ~bad
  /\ p = "none" => st \in {"skipped", "deleted"}
  /\ p = "committed" => good
  /\ p = "done" => \/ st = "deleted"
                   \/ good /\ st = "completed"
                   \/ bad /\ st \in {"failed", "needs_review", "skipped"}
                   \/ ~good /\ st = "needs_review"

CountInv ==
  /\ phase[Server] \in {"running", "settled"} => \A r \in Rows : CountedAs(r)
  /\ phase[Server] = "settled" =>
       /\ \A r \in Rows : pc[Server][r] \in {"none", "done"}
       /\ processed = Cardinality(succ[Server]) + Cardinality(fail[Server])

ServerInv == RowInv /\ LaunchInv /\ CountInv
=============================================================================
