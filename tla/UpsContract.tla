---------------------------- MODULE UpsContract ----------------------------
(***************************************************************************)
(* What a mutating call of UPSMCPClient promises its caller, and what      *)
(* BatchExecution assumes of create_shipment: UPS acts at most once, an    *)
(* answer means that it did, a refusal that it did not and never will, and *)
(* any other error that nobody knows.                                      *)
(***************************************************************************)
EXTENDS Naturals

CONSTANT Calls

VARIABLES
  answer,  \* what the caller of each call has been told
  effects  \* how often UPS acted on each call

vars == <<answer, effects>>

Answers == {"none", "asked", "ok", "refused", "unknown"}

Init ==
  /\ answer = [c \in Calls |-> "none"]
  /\ effects = [c \in Calls |-> 0]

Tell(c, from, to) ==
  /\ answer[c] \in from
  /\ answer' = [answer EXCEPT ![c] = to]
  /\ UNCHANGED effects

Ask(c) == Tell(c, {"none"}, "asked")

\* UPS may act long after the caller has been told that nobody knows.
Act(c) ==
  /\ answer[c] \in {"asked", "unknown"}
  /\ effects[c] = 0
  /\ effects' = [effects EXCEPT ![c] = 1]
  /\ UNCHANGED answer

Succeed(c) == effects[c] = 1 /\ Tell(c, {"asked"}, "ok")

Refuse(c) == effects[c] = 0 /\ Tell(c, {"asked"}, "refused")

GiveUp(c) == Tell(c, {"none", "asked"}, "unknown")

Next ==
  \E c \in Calls :
    Ask(c) \/ Act(c) \/ Succeed(c) \/ Refuse(c) \/ GiveUp(c)

Spec == Init /\ [][Next]_vars
=============================================================================
