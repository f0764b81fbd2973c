----------------------------- MODULE PickupDesk -----------------------------
(***************************************************************************)
(* Pickups of one UPS account, booked and cancelled by the agents of       *)
(* several conversations.  An agent works as its prompt tells it to: it    *)
(* claims a confirmation only when its user gave one that no answer has    *)
(* used up.  It may call the tools of the orchestrator, which draw a card  *)
(* for the user, or those of the UPS server itself, unless a hook denies   *)
(* it.  A call that is broken off may have acted; the agent is told that   *)
(* it failed and may call again.  UPS is external.                         *)
(***************************************************************************)
EXTENDS Naturals, Sequences, FiniteSets

CONSTANTS
  Chats,       \* conversations
  MaxPickups,  \* bounds the pickups booked, the calls and the confirmations
  MaxCalls,
  MaxConfirms

Tools   == {"schedule_pickup", "cancel_pickup"}
Servers == {"orchestrator", "ups"}

VARIABLES
  ups,       \* the pickups booked, in order; their index is their PRN
  previewed, \* chats whose page has a preview card, which stays clickable
  confirmed, \* chat -> tool -> confirmations given
  used,      \* chat -> tool -> calls the agent was told succeeded
  acted,     \* history: chat -> tool -> calls UPS carried out
  broken,    \* history: chat -> tool -> calls broken off
  doing,     \* chat -> the call under way
  cards,     \* chat -> the result cards on its page
  calls

pickupVars == <<ups, previewed, confirmed, used, acted, broken, doing, cards, calls>>

Idle == [stage |-> "idle", tool |-> "schedule_pickup", server |-> "ups", prn |-> 0]

TypeOK ==
  /\ ups \in Seq([by : Chats, live : BOOLEAN, silent : BOOLEAN])
  /\ previewed \subseteq Chats
  /\ {confirmed, used, acted, broken} \subseteq [Chats -> [Tools -> Nat]]
  /\ doing \in [Chats -> [stage : {"idle", "asked", "ok", "refused", "error", "lost"},
                          tool : Tools, server : Servers, prn : Nat]]
  /\ cards \in [Chats -> SUBSET [action : {"scheduled", "cancelled", "status"},
                                 success : BOOLEAN, prns : SUBSET Nat]]
  /\ calls \in Nat

Init ==
  LET zero == [c \in Chats |-> [t \in Tools |-> 0]]
  IN  /\ ups = <<>>
      /\ previewed = {}
      /\ confirmed = zero /\ used = zero /\ acted = zero /\ broken = zero
      /\ doing = [c \in Chats |-> Idle]
      /\ cards = [c \in Chats |-> {}]
      /\ calls = 0

Live == {p \in DOMAIN ups : ups[p].live}
Card(action, success, prns) == [action |-> action, success |-> success, prns |-> prns]
Count(f, c, t) == [f EXCEPT ![c][t] = @ + 1]

\* rate_pickup draws the card whose button confirms; a call to the UPS server's
\* own rate_pickup, which no hook denies, draws none.
Preview(c) ==
  /\ doing[c] = Idle
  /\ c \notin previewed
  /\ previewed' = previewed \cup {c}
  /\ UNCHANGED <<ups, confirmed, used, acted, broken, doing, cards, calls>>

\* get_pickup_status.
Status(c) ==
  /\ doing[c] = Idle
  /\ calls < MaxCalls
  /\ cards' = [cards EXCEPT ![c] = @ \cup {Card("status", TRUE, Live)}]
  /\ calls' = calls + 1
  /\ UNCHANGED <<ups, previewed, confirmed, used, acted, broken, doing>>

\* The user clicks a preview card, an old one included, or agrees to a
\* cancellation in words.
Confirm(c, t) ==
  /\ confirmed[c][t] < MaxConfirms
  /\ t = "schedule_pickup" => c \in previewed
  /\ confirmed' = Count(confirmed, c, t)
  /\ UNCHANGED <<ups, previewed, used, acted, broken, doing, cards, calls>>

\* Mutant of HookDenies: the matcher of one tool is missing.
HookDeniesCancel(t) == t = "cancel_pickup"

\* The PreToolUse hooks of the UPS server's tools that have a wrapper with a gate.
HookDenies(t) == t \in {"schedule_pickup", "cancel_pickup"}

\* Mutant of Gate: only says that it checks.
GateOpen(claim) == TRUE

\* Both wrappers go no further without confirmed=True.
Gate(claim) == claim

Claims(c, t) == confirmed[c][t] > used[c][t]

\* A call goes out: to schedule, or to cancel a pickup by its number or, with 0,
\* the account's most recent one.
Call(c, t, server, prn) ==
  /\ doing[c] = Idle
  /\ calls < MaxCalls
  /\ prn \in 0 .. Len(ups)
  /\ t = "schedule_pickup" => prn = 0
  /\ IF server = "ups" THEN ~HookDenies(t) ELSE Gate(Claims(c, t))
  /\ doing' = [doing EXCEPT ![c] =
                 [stage |-> "asked", tool |-> t, server |-> server, prn |-> prn]]
  /\ calls' = calls + 1
  /\ UNCHANGED <<ups, previewed, confirmed, used, acted, broken, cards>>

Answers(c, stage, prn) ==
  doing' = [doing EXCEPT ![c].stage = stage, ![c].prn = prn]

\* UPS carries the call out, and its answer arrives or is lost.
UpsActs(c) ==
  LET d == doing[c]
      p == IF d.tool = "schedule_pickup" THEN Len(ups) + 1
           ELSE IF d.prn # 0 THEN d.prn
           ELSE CHOOSE m \in Live : \A q \in Live : q <= m
  IN  /\ d.stage = "asked"
      /\ IF d.tool = "schedule_pickup" THEN Len(ups) < MaxPickups
         ELSE Live # {} /\ (d.prn = 0 \/ d.prn \in Live)
      /\ \E lost \in BOOLEAN :
           /\ ups' = IF d.tool = "schedule_pickup"
                       THEN Append(ups, [by |-> c, live |-> TRUE, silent |-> lost])
                       ELSE [ups EXCEPT ![p].live = FALSE]
           /\ Answers(c, IF lost THEN "lost" ELSE "ok", p)
      /\ acted' = Count(acted, c, d.tool)
      /\ UNCHANGED <<previewed, confirmed, used, broken, cards, calls>>

\* UPS carries nothing out: it says so as an error of the call or, when it
\* cancels, inside an answer that looks like one; or the call breaks before it.
UpsDeclines(c) ==
  /\ doing[c].stage = "asked"
  /\ \/ Answers(c, "refused", doing[c].prn)
     \/ Answers(c, "lost", doing[c].prn)
     \/ doing[c].tool = "cancel_pickup" /\ Answers(c, "error", doing[c].prn)
  /\ UNCHANGED <<ups, previewed, confirmed, used, acted, broken, cards, calls>>

\* Mutant of Succeeded: a hardcoded success.
SucceededAlways(stage) == TRUE

\* _normalize_cancel_pickup_response finds the embedded error.
Succeeded(stage) == stage = "ok"

ResultCard(d) ==
  IF d.tool = "schedule_pickup" THEN Card("scheduled", TRUE, {d.prn})
  ELSE Card("cancelled", Succeeded(d.stage), IF d.prn = 0 THEN {} ELSE {d.prn})

\* The tool answers.  A wrapper whose call raised tells the agent so and draws
\* no card; otherwise it draws one and tells the agent that it succeeded, even
\* when the card says that the cancellation failed.
Answer(c) ==
  LET d == doing[c]
  IN  /\ d.stage \in {"ok", "refused", "error", "lost"}
      /\ IF d.stage \in {"ok", "error"}
           THEN /\ used' = IF Claims(c, d.tool) THEN Count(used, c, d.tool) ELSE used
                /\ cards' = IF d.server = "ups" THEN cards
                            ELSE [cards EXCEPT ![c] = @ \cup {ResultCard(d)}]
           ELSE UNCHANGED <<used, cards>>
      /\ broken' = IF d.stage = "lost" THEN Count(broken, c, d.tool) ELSE broken
      /\ doing' = [doing EXCEPT ![c] = Idle]
      /\ UNCHANGED <<ups, previewed, confirmed, acted, calls>>

Next ==
  \E c \in Chats :
    \/ Preview(c)
    \/ Status(c)
    \/ \E t \in Tools : Confirm(c, t)
    \/ \E t \in Tools, server \in Servers, prn \in 0 .. MaxPickups :
         Call(c, t, server, prn)
    \/ UpsActs(c)
    \/ UpsDeclines(c)
    \/ Answer(c)

-----------------------------------------------------------------------------
\* Every call under way went through a wrapper on an unused confirmation, which
\* nothing else can use up; what UPS did is on the chat's account or was broken
\* off; and a pickup that an answer says is cancelled is not collected.
CallsAreConfirmed ==
  /\ \A c \in Chats : doing[c].stage # "idle" =>
       /\ doing[c].server = "orchestrator"
       /\ Claims(c, doing[c].tool)
       /\ doing[c].stage = "error" => doing[c].tool = "cancel_pickup"
       /\ doing[c].stage = "ok" =>
            /\ doing[c].prn \in DOMAIN ups
            /\ doing[c].tool = "cancel_pickup" => ~ups[doing[c].prn].live
  /\ \A c \in Chats, t \in Tools :
       /\ used[c][t] <= confirmed[c][t]
       /\ acted[c][t] <= used[c][t] + broken[c][t]
            + (IF doing[c].stage \in {"ok", "lost"} /\ doing[c].tool = t THEN 1 ELSE 0)

\* The account is committed to no more than its users confirmed: whatever is
\* refused, repeated or done by another conversation, a conversation books and
\* cancels once per confirmation, but for calls that were broken off.
ActsAsConfirmed ==
  \A c \in Chats, t \in Tools :
    acted[c][t] <= confirmed[c][t] + broken[c][t]
                     + (IF doing[c].stage = "lost" /\ doing[c].tool = t THEN 1 ELSE 0)

\* What a card claims is so at UPS: the pickups it calls scheduled or pending
\* were booked, and the ones it calls cancelled are not collected.
CardsAreTrue ==
  \A c \in Chats : \A card \in cards[c] : card.success =>
    /\ card.prns \subseteq DOMAIN ups
    /\ card.action = "cancelled" => card.prns # {} /\ card.prns \cap Live = {}

\* A pickup that will be collected is on a card, unless the answer that named it
\* is on its way or was lost.
NoHiddenPickup ==
  \A p \in Live :
    \/ ups[p].silent
    \/ \E c \in Chats : doing[c].stage = "ok" /\ doing[c].prn = p
    \/ \E c \in Chats : Card("scheduled", TRUE, {p}) \in cards[c]
=============================================================================
