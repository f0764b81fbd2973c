---------------------------- MODULE BatchLedger ----------------------------
(* BatchExecution seen as an OrderLedger: the server is the only executor  *)
(* and every shipment is one of its calls.                                 *)
EXTENDS BatchExecution

\* What a row's status says of its order.
Reads(st) ==
  CASE st = "pending"      -> "waiting"
    [] st = "skipped"      -> "skipped"
    [] st = "in_flight"    -> "claimed"
    [] st = "completed"    -> "shipped"
    [] st = "failed"       -> "refused"
    [] st = "needs_review" -> "review"
    [] OTHER               -> "gone"

LedgerState == [r \in Rows |-> Reads(rowStatus[r])]

Outstanding == {r \in Rows : pc[Server][r] = "calling"}

Ledger == INSTANCE OrderLedger WITH
            Orders <- Rows, state <- LedgerState, asked <- Outstanding,
            ships <- made[Server]

\* Every step of the execution is a step of the ledger or changes nothing
\* the ledger sees.
ImplementsLedger == Ledger!Spec
=============================================================================
