---------------------------- MODULE OrderLedger ----------------------------
(***************************************************************************)
(* What executing a job promises for each of its orders, whatever crashes, *)
(* late answers and user requests come in between: an order is put to UPS  *)
(* at most once, what it reads as afterwards never hides a shipment, and   *)
(* what is settled stays settled.                                          *)
(***************************************************************************)
EXTENDS Naturals

CONSTANT Orders

VARIABLES
  state,   \* what each order reads as
  asked,   \* orders with a request outstanding at UPS
  ships    \* shipments that exist at UPS, per order

vars == <<state, asked, ships>>

States == {"waiting", "skipped", "claimed", "shipped", "refused", "review", "gone"}

Init ==
  /\ state = [o \in Orders |-> "waiting"]
  /\ asked = {}
  /\ ships = [o \in Orders |-> 0]

\* An order is claimed before its request leaves.  One skipped in the moment
\* between the start of the execution and its turn is claimed all the same.
Claim(o) ==
  /\ state[o] \in {"waiting", "skipped"}
  /\ state' = [state EXCEPT ![o] = "claimed"]
  /\ asked' = asked \cup {o}
  /\ UNCHANGED ships

Create(o) ==
  /\ o \in asked
  /\ asked' = asked \ {o}
  /\ ships' = [ships EXCEPT ![o] = @ + 1]
  /\ UNCHANGED state

Complete(o) ==
  /\ state[o] = "claimed"
  /\ ships[o] > 0
  /\ state' = [state EXCEPT ![o] = "shipped"]
  /\ UNCHANGED <<asked, ships>>

\* Mutant of Refuse: an order is refused whether or not it shipped.
RefuseShipped(o) ==
  /\ state[o] \in {"waiting", "skipped", "claimed"}
  /\ state' = [state EXCEPT ![o] = "refused"]
  /\ asked' = asked \ {o}
  /\ UNCHANGED ships

\* Only an order without a shipment is refused.
Refuse(o) ==
  /\ state[o] \in {"waiting", "skipped", "claimed"}
  /\ ships[o] = 0
  /\ state' = [state EXCEPT ![o] = "refused"]
  /\ asked' = asked \ {o}
  /\ UNCHANGED ships

\* Nobody knows whether the order shipped: the operator decides.
Review(o) ==
  /\ state[o] = "claimed"
  /\ state' = [state EXCEPT ![o] = "review"]
  /\ asked' = asked \ {o}
  /\ UNCHANGED ships

Skip(S) ==
  /\ \A o \in S : state[o] = "waiting"
  /\ state' = [o \in Orders |-> IF o \in S THEN "skipped" ELSE state[o]]
  /\ UNCHANGED <<asked, ships>>

\* The process that waited for the answers is gone.
Lose(S) ==
  /\ asked' = asked \ S
  /\ UNCHANGED <<state, ships>>

Discard ==
  /\ state' = [o \in Orders |-> "gone"]
  /\ UNCHANGED <<asked, ships>>

Next ==
  \/ \E o \in Orders :
       Claim(o) \/ Create(o) \/ Complete(o) \/ Refuse(o) \/ Review(o)
  \/ \E S \in SUBSET Orders : Skip(S) \/ Lose(S)
  \/ Discard

Spec == Init /\ [][Next]_vars

\* The type of the ledger, and its promise: no order ships twice, a refused
\* one not at all, and a shipped one does.
LedgerPromise ==
  /\ state \in [Orders -> States]
  /\ ships \in [Orders -> {0, 1}]
  /\ \A o \in Orders :
       /\ o \in asked => ships[o] = 0
       /\ state[o] \in {"waiting", "skipped", "refused"} => ships[o] = 0
       /\ state[o] = "shipped" => ships[o] = 1
=============================================================================
