---------------------------- MODULE RecordsProofs ----------------------------
(***************************************************************************)
(* The promises of the records, for any chats, orders and bounds: the      *)
(* ledger of a batch, the pickups of an account and the record of a        *)
(* conversation.  A component's promise is shown of its own steps; while   *)
(* another component runs nothing of it changes.                           *)
(***************************************************************************)
EXTENDS MCRecords, FiniteSetTheorems, SequenceTheorems, WellFoundedInduction, TLAPS

-----------------------------------------------------------------------------
\* The order ledger.

\* The promise made inductive: only a claimed order is outstanding at UPS,
\* unless it was discarded meanwhile.
LedgerInv ==
  /\ LedgerPromise
  /\ \A o \in Orders : o \in asked => state[o] \in {"claimed", "gone"}

LEMMA InitLedgerInv == Init => LedgerInv
BY DEF Init, LedgerInv, LedgerPromise, States

LEMMA NextLedgerInv == LedgerInv /\ [Next]_vars => LedgerInv'
<1> SUFFICES ASSUME LedgerInv, [Next]_vars PROVE LedgerInv'
  OBVIOUS
<1> USE DEF LedgerInv, LedgerPromise, States
<1>1. ASSUME NEW o \in Orders, Claim(o) PROVE LedgerInv'
  BY <1>1 DEF Claim
<1>2. ASSUME NEW o \in Orders, Create(o) PROVE LedgerInv'
  BY <1>2 DEF Create
<1>3. ASSUME NEW o \in Orders, Complete(o) PROVE LedgerInv'
  BY <1>3 DEF Complete
<1>4. ASSUME NEW o \in Orders, Refuse(o) PROVE LedgerInv'
  BY <1>4 DEF Refuse
<1>5. ASSUME NEW o \in Orders, Review(o) PROVE LedgerInv'
  BY <1>5 DEF Review
<1>6. ASSUME NEW S \in SUBSET Orders, Skip(S) PROVE LedgerInv'
  BY <1>6 DEF Skip
<1>7. ASSUME NEW S \in SUBSET Orders, Lose(S) PROVE LedgerInv'
  BY <1>7 DEF Lose
<1>8. CASE Discard
  BY <1>8 DEF Discard
<1>9. CASE UNCHANGED vars
  BY <1>9 DEF vars
<1> QED
  BY <1>1, <1>2, <1>3, <1>4, <1>5, <1>6, <1>7, <1>8, <1>9 DEF Next

\* No order ships twice, a refused one never, a shipped one did.
THEOREM PromiseKept == Spec => []LedgerPromise
<1>1. LedgerInv => LedgerPromise
  BY DEF LedgerInv
<1> QED
  BY <1>1, InitLedgerInv, NextLedgerInv, PTL DEF Spec
-----------------------------------------------------------------------------
\* Numbers.

\* A set of numbers that is not empty has a least one.
LEMMA LeastNumber ==
  ASSUME NEW T, T \in SUBSET Nat, T # {}
  PROVE  \E x \in T : \A y \in T : x <= y
<1> DEFINE R == StrictSubsetOrdering(Nat)
           U == {1 .. y : y \in T}
<1>1. IsWellFoundedOn(R, FiniteSubsetsOf(Nat))
  BY FS_StrictSubsetOrderingWellFounded
<1>2. U \subseteq FiniteSubsetsOf(Nat) /\ U # {}
  <2>1. ASSUME NEW y \in T
        PROVE  1 .. y \in FiniteSubsetsOf(Nat)
    <3>1. IsFiniteSet(1 .. y)
      BY FS_Interval
    <3> QED
      BY <3>1 DEF FiniteSubsetsOf
  <2> QED
    BY <2>1
<1>3. PICK A \in U : \A B \in U : ~(<<B, A>> \in R)
  <2> HIDE DEF R, U
  <2> QED
    BY <1>1, <1>2, WFMin, Zenon
<1>4. PICK x \in T : A = 1 .. x
  BY <1>3
<1>5. ASSUME NEW y \in T, y < x
      PROVE  FALSE
  <2>1. /\ 1 .. y \in SUBSET Nat
        /\ 1 .. x \in SUBSET Nat
        /\ 1 .. y \subseteq 1 .. x
        /\ x \in 1 .. x /\ x \notin 1 .. y
    BY <1>5
  <2>2. <<1 .. y, 1 .. x>> \in R
    BY <2>1 DEF StrictSubsetOrdering
  <2> QED
    BY <1>3, <1>4, <2>2
<1>6. \A y \in T : x <= y
  BY <1>5
<1> QED
  BY <1>6

\* One that is bounded has a greatest.
LEMMA GreatestNumber ==
  ASSUME NEW n \in Nat, NEW T, T \in SUBSET (1 .. n), T # {}
  PROVE  \E x \in T : \A y \in T : y <= x
<1> DEFINE U == {n - y : y \in T}
<1>1. U \in SUBSET Nat /\ U # {}
  <2>1. \A y \in T : n - y \in Nat
    OBVIOUS
  <2> QED
    BY <2>1
<1>2. PICK u \in U : \A w \in U : u <= w
  <2> HIDE DEF U
  <2> QED
    BY <1>1, LeastNumber
<1>3. PICK x \in T : u = n - x
  BY <1>2
<1>4. ASSUME NEW y \in T PROVE y <= x
  <2>1. n - y \in U
    OBVIOUS
  <2>2. n - x <= n - y
    BY <1>2, <1>3, <2>1
  <2> QED
    BY <2>2
<1> QED
  BY <1>4

-----------------------------------------------------------------------------
\* The pickups of an account.

DeskInv ==
  /\ Desk!TypeOK
  /\ Desk!CallsAreConfirmed
  /\ Desk!CardsAreTrue
  /\ Desk!NoHiddenPickup

Bookings == [by : Chats, live : BOOLEAN, silent : BOOLEAN]
DeskCalls ==
  [stage : {"idle", "asked", "ok", "refused", "error", "lost"},
   tool : Desk!Tools, server : Desk!Servers, prn : Nat]
DeskCards ==
  [action : {"scheduled", "cancelled", "status"}, success : BOOLEAN, prns : SUBSET Nat]

\* The types, field by field.
LEMMA DeskTypes ==
  Desk!TypeOK <=>
    /\ ups \in Seq(Bookings)
    /\ previewed \subseteq Chats
    /\ confirmed \in [Chats -> [Desk!Tools -> Nat]]
    /\ used \in [Chats -> [Desk!Tools -> Nat]]
    /\ acted \in [Chats -> [Desk!Tools -> Nat]]
    /\ broken \in [Chats -> [Desk!Tools -> Nat]]
    /\ doing \in [Chats -> DeskCalls]
    /\ cards \in [Chats -> SUBSET DeskCards]
    /\ calls \in Nat
BY DEF Desk!TypeOK, Bookings, DeskCalls, DeskCards

\* One more of a count.
LEMMA CountType ==
  ASSUME NEW f \in [Chats -> [Desk!Tools -> Nat]], NEW c \in Chats, NEW t \in Desk!Tools
  PROVE  /\ Desk!Count(f, c, t) \in [Chats -> [Desk!Tools -> Nat]]
         /\ \A d \in Chats, u \in Desk!Tools :
              Desk!Count(f, c, t)[d][u] = IF d = c /\ u = t THEN f[c][t] + 1 ELSE f[d][u]
BY DEF Desk!Count

\* What is no call of the desk leaves every call as it was confirmed.
LEMMA InitDesk == Desk!Init => DeskInv
<1> SUFFICES ASSUME Desk!Init PROVE DeskInv
  OBVIOUS
<1>1. ups = <<>> /\ Desk!Live = {}
  BY DEF Desk!Init, Desk!Live
<1>2. Desk!Idle \in DeskCalls /\ Desk!Idle.stage = "idle"
  BY DEF Desk!Idle, DeskCalls, Desk!Tools, Desk!Servers
<1>3. Desk!TypeOK
  BY <1>1, <1>2, DeskTypes DEF Desk!Init
<1>4. Desk!CallsAreConfirmed
  BY <1>2 DEF Desk!Init, Desk!CallsAreConfirmed
<1>5. Desk!CardsAreTrue /\ Desk!NoHiddenPickup
  BY <1>1 DEF Desk!Init, Desk!CardsAreTrue, Desk!NoHiddenPickup
<1> QED
  BY <1>3, <1>4, <1>5 DEF DeskInv

LEMMA QuietDesk ==
  ASSUME DeskInv, NEW c \in Chats,
         Desk!Preview(c) \/ Desk!Status(c) \/ \E t \in Desk!Tools : Desk!Confirm(c, t)
  PROVE  DeskInv'
<1> USE DEF DeskInv
<1>1. CASE Desk!Preview(c)
  <2>1. Desk!TypeOK'
    BY <1>1, DeskTypes DEF Desk!Preview, Desk!TypeOK
  <2> QED
    BY <1>1, <2>1 DEF Desk!Preview, Desk!CallsAreConfirmed, Desk!CardsAreTrue,
       Desk!NoHiddenPickup, Desk!Live, Desk!Claims
<1>2. CASE Desk!Status(c)
  <2> DEFINE card == Desk!Card("status", TRUE, Desk!Live)
  <2>1. /\ cards' = [cards EXCEPT ![c] = cards[c] \cup {card}]
        /\ UNCHANGED <<ups, previewed, confirmed, used, acted, broken, doing>>
        /\ calls' = calls + 1
    BY <1>2 DEF Desk!Status
  <2>2. Desk!Live \subseteq DOMAIN ups /\ DOMAIN ups \subseteq Nat
    BY DeskTypes, LenProperties DEF Desk!Live
  <2>3. card \in DeskCards /\ card.action = "status" /\ card.prns = Desk!Live
    BY <2>2 DEF Desk!Card, DeskCards
  <2> HIDE DEF card
  <2>4. Desk!TypeOK'
    <3>1. cards' \in [Chats -> SUBSET DeskCards] /\ calls' \in Nat
      BY <2>1, <2>3, DeskTypes
    <3> QED
      BY <2>1, <3>1 DEF Desk!TypeOK, DeskCards
  <2>5. \A d \in Chats : cards[d] \subseteq cards'[d] /\ cards'[d] \subseteq cards[d] \cup {card}
    BY <2>1, DeskTypes
  <2>6. Desk!CardsAreTrue'
    BY <2>1, <2>2, <2>3, <2>5 DEF Desk!CardsAreTrue, Desk!Live
  <2>7. Desk!NoHiddenPickup'
    BY <2>1, <2>5 DEF Desk!NoHiddenPickup, Desk!Live, Desk!Card
  <2>8. Desk!CallsAreConfirmed'
    BY <2>1 DEF Desk!CallsAreConfirmed, Desk!Claims
  <2> QED
    BY <2>4, <2>6, <2>7, <2>8
<1>3. ASSUME NEW t \in Desk!Tools, Desk!Confirm(c, t) PROVE DeskInv'
  <2>1. /\ confirmed' = Desk!Count(confirmed, c, t)
        /\ UNCHANGED <<ups, previewed, used, acted, broken, doing, cards, calls>>
    BY <1>3 DEF Desk!Confirm
  <2>2. /\ confirmed' \in [Chats -> [Desk!Tools -> Nat]]
        /\ \A d \in Chats, u \in Desk!Tools : confirmed[d][u] <= confirmed'[d][u]
    <3>1. confirmed \in [Chats -> [Desk!Tools -> Nat]]
      BY DeskTypes
    <3>2. \A d \in Chats, u \in Desk!Tools :
            /\ confirmed[d][u] \in Nat
            /\ confirmed'[d][u] = IF d = c /\ u = t THEN confirmed[c][t] + 1 ELSE confirmed[d][u]
      BY <2>1, <3>1, CountType
    <3>3. confirmed' \in [Chats -> [Desk!Tools -> Nat]]
      BY <2>1, <3>1, CountType
    <3> QED
      BY <3>2, <3>3
  <2>3. Desk!TypeOK'
    BY <2>1, <2>2, DeskTypes DEF Desk!TypeOK
  <2>4. Desk!CallsAreConfirmed'
    <3>1. \A d \in Chats : doing[d].tool \in Desk!Tools
      BY DeskTypes DEF DeskCalls
    <3>2. \A d \in Chats, u \in Desk!Tools : used[d][u] \in Nat /\ confirmed[d][u] \in Nat
                                             /\ confirmed'[d][u] \in Nat
      BY <2>2, DeskTypes
    <3> QED
      BY SMTT(30), <2>1, <2>2, <3>1, <3>2 DEF Desk!CallsAreConfirmed, Desk!Claims
  <2>5. Desk!CardsAreTrue' /\ Desk!NoHiddenPickup'
    BY <2>1 DEF Desk!CardsAreTrue, Desk!NoHiddenPickup, Desk!Live
  <2> QED
    BY <2>3, <2>4, <2>5
<1> QED
  BY <1>1, <1>2, <1>3

LEMMA CallKeepsDesk ==
  ASSUME DeskInv, NEW c \in Chats, NEW t \in Desk!Tools, NEW server \in Desk!Servers,
         NEW prn \in Nat, Desk!Call(c, t, server, prn)
  PROVE  DeskInv'
<1> USE DEF DeskInv
<1> DEFINE request == [stage |-> "asked", tool |-> t, server |-> server, prn |-> prn]
<1>1. /\ doing[c] = Desk!Idle
      /\ server = "orchestrator" /\ Desk!Claims(c, t)
      /\ doing' = [doing EXCEPT ![c] = request]
      /\ calls' = calls + 1
      /\ UNCHANGED <<ups, previewed, confirmed, used, acted, broken, cards>>
  BY DEF Desk!Call, Desk!HookDenies, Desk!Gate, Desk!Servers, Desk!Tools
<1>2. request \in DeskCalls
  BY DEF DeskCalls
<1>3. Desk!TypeOK'
  <2>1. doing' \in [Chats -> DeskCalls] /\ calls' \in Nat
    BY <1>1, <1>2, DeskTypes
  <2> QED
    BY <1>1, <2>1 DEF Desk!TypeOK, DeskCalls
<1>4. /\ doing'[c] = request
      /\ \A d \in Chats : d # c => doing'[d] = doing[d]
  BY <1>1, DeskTypes
<1>5. Desk!CallsAreConfirmed'
  <2>1. ASSUME NEW d \in Chats, doing'[d].stage # "idle"
        PROVE  /\ doing'[d].server = "orchestrator"
               /\ confirmed'[d][doing'[d].tool] > used'[d][doing'[d].tool]
               /\ doing'[d].stage = "error" => doing'[d].tool = "cancel_pickup"
               /\ doing'[d].stage = "ok" =>
                    /\ doing'[d].prn \in DOMAIN ups'
                    /\ doing'[d].tool = "cancel_pickup" => ~ups'[doing'[d].prn].live
    <3>1. CASE d = c
      BY <1>1, <1>4, <3>1 DEF Desk!Claims
    <3>2. CASE d # c
      BY <1>1, <1>4, <2>1, <3>2 DEF Desk!Claims, Desk!CallsAreConfirmed
    <3> QED
      BY <3>1, <3>2
  <2>2. ASSUME NEW d \in Chats, NEW u \in Desk!Tools
        PROVE  /\ used'[d][u] <= confirmed'[d][u]
               /\ acted'[d][u] <= used'[d][u] + broken'[d][u]
                    + (IF doing'[d].stage \in {"ok", "lost"} /\ doing'[d].tool = u THEN 1 ELSE 0)
    <3>1. CASE d = c
      <4>1. doing[d].stage = "idle" /\ doing'[d].stage = "asked"
        BY <1>1, <1>4, <3>1 DEF Desk!Idle
      <4> QED
        BY <1>1, <4>1 DEF Desk!CallsAreConfirmed
    <3>2. CASE d # c
      BY <1>1, <1>4, <3>2 DEF Desk!CallsAreConfirmed
    <3> QED
      BY <3>1, <3>2
  <2> QED
    BY <2>1, <2>2 DEF Desk!CallsAreConfirmed, Desk!Claims
<1>6. Desk!CardsAreTrue'
  BY <1>1 DEF Desk!CardsAreTrue, Desk!Live
<1>7. Desk!NoHiddenPickup'
  <2>1. \A d \in Chats : doing[d].stage = "ok" => doing'[d] = doing[d]
    BY <1>1, <1>4 DEF Desk!Idle
  <2> QED
    BY ZenonT(60), <1>1, <2>1 DEF Desk!NoHiddenPickup, Desk!Live
<1> QED
  BY <1>3, <1>5, <1>6, <1>7

LEMMA DeclineKeepsDesk ==
  ASSUME DeskInv, NEW c \in Chats, Desk!UpsDeclines(c)
  PROVE  DeskInv'
<1> USE DEF DeskInv
<1>1. PICK stage \in {"refused", "lost", "error"} :
        /\ doing' = [doing EXCEPT ![c].stage = stage, ![c].prn = doing[c].prn]
        /\ stage = "error" => doing[c].tool = "cancel_pickup"
  BY DEF Desk!UpsDeclines, Desk!Answers
<1>2. /\ doing[c].stage = "asked"
      /\ UNCHANGED <<ups, previewed, confirmed, used, acted, broken, cards, calls>>
  BY DEF Desk!UpsDeclines
<1>3. /\ doing' \in [Chats -> DeskCalls]
      /\ doing'[c].stage = stage
      /\ doing'[c].tool = doing[c].tool
      /\ doing'[c].server = doing[c].server
      /\ doing'[c].prn = doing[c].prn
      /\ \A d \in Chats : d # c => doing'[d] = doing[d]
  BY <1>1, DeskTypes DEF DeskCalls
<1>4. Desk!TypeOK'
  BY <1>2, <1>3 DEF Desk!TypeOK, DeskCalls
<1>5. Desk!CallsAreConfirmed'
  <2>1. ASSUME NEW d \in Chats, doing'[d].stage # "idle"
        PROVE  /\ doing'[d].server = "orchestrator"
               /\ confirmed'[d][doing'[d].tool] > used'[d][doing'[d].tool]
               /\ doing'[d].stage = "error" => doing'[d].tool = "cancel_pickup"
               /\ doing'[d].stage = "ok" =>
                    /\ doing'[d].prn \in DOMAIN ups'
                    /\ doing'[d].tool = "cancel_pickup" => ~ups'[doing'[d].prn].live
    <3>1. CASE d = c
      BY <1>1, <1>2, <1>3, <3>1 DEF Desk!Claims, Desk!CallsAreConfirmed
    <3>2. CASE d # c
      BY <1>2, <1>3, <2>1, <3>2 DEF Desk!Claims, Desk!CallsAreConfirmed
    <3> QED
      BY <3>1, <3>2
  <2>2. ASSUME NEW d \in Chats, NEW u \in Desk!Tools
        PROVE  /\ used'[d][u] <= confirmed'[d][u]
               /\ acted'[d][u] <= used'[d][u] + broken'[d][u]
                    + (IF doing'[d].stage \in {"ok", "lost"} /\ doing'[d].tool = u THEN 1 ELSE 0)
    <3>1. /\ used[d][u] \in Nat /\ broken[d][u] \in Nat /\ acted[d][u] \in Nat
          /\ used[d][u] <= confirmed[d][u]
      BY DeskTypes DEF Desk!CallsAreConfirmed
    <3>2. CASE d = c
      <4>1. acted[d][u] <= used[d][u] + broken[d][u]
        BY <1>2, <3>1, <3>2 DEF Desk!CallsAreConfirmed
      <4> QED
        BY <1>2, <3>1, <4>1
    <3>3. CASE d # c
      BY <1>2, <1>3, <3>3 DEF Desk!CallsAreConfirmed
    <3> QED
      BY <3>2, <3>3
  <2> QED
    BY <2>1, <2>2 DEF Desk!CallsAreConfirmed, Desk!Claims
<1>6. Desk!CardsAreTrue'
  BY <1>2 DEF Desk!CardsAreTrue, Desk!Live
<1>7. Desk!NoHiddenPickup'
  <2>1. \A d \in Chats : doing[d].stage = "ok" => doing'[d] = doing[d]
    BY <1>2, <1>3
  <2> QED
    BY <1>2, <2>1 DEF Desk!NoHiddenPickup, Desk!Live
<1> QED
  BY <1>4, <1>5, <1>6, <1>7

\* UPS carries a call out: a booking is new and on no card yet, a cancelled pickup
\* is no longer collected.
LEMMA ActKeepsDesk ==
  ASSUME DeskInv, NEW c \in Chats, Desk!UpsActs(c)
  PROVE  DeskInv'
<1> USE DEF DeskInv
<1> DEFINE d == doing[c]
           p == IF d.tool = "schedule_pickup" THEN Len(ups) + 1
                ELSE IF d.prn # 0 THEN d.prn
                ELSE CHOOSE m \in Desk!Live : \A q \in Desk!Live : q <= m
<1>1. /\ d.stage = "asked"
      /\ d.tool # "schedule_pickup" => Desk!Live # {} /\ (d.prn = 0 \/ d.prn \in Desk!Live)
      /\ acted' = Desk!Count(acted, c, d.tool)
      /\ UNCHANGED <<previewed, confirmed, used, broken, cards, calls>>
  BY DEF Desk!UpsActs
<1>2. PICK lost \in BOOLEAN :
        /\ ups' = IF d.tool = "schedule_pickup"
                    THEN Append(ups, [by |-> c, live |-> TRUE, silent |-> lost])
                    ELSE [ups EXCEPT ![p].live = FALSE]
        /\ doing' = [doing EXCEPT ![c].stage = IF lost THEN "lost" ELSE "ok", ![c].prn = p]
  BY DEF Desk!UpsActs, Desk!Answers
<1>3. /\ d.tool \in Desk!Tools /\ d.prn \in Nat /\ Len(ups) \in Nat
      /\ DOMAIN ups = 1 .. Len(ups)
      /\ Desk!Live \subseteq DOMAIN ups
  BY DeskTypes, LenProperties DEF DeskCalls, Desk!Live
<1>4. d.tool # "schedule_pickup" => p \in Desk!Live
  <2> SUFFICES ASSUME d.tool # "schedule_pickup", d.prn = 0 PROVE p \in Desk!Live
    BY <1>1
  <2>1. \E m \in Desk!Live : \A q \in Desk!Live : q <= m
    <3>1. \A q \in Desk!Live : q <= Len(ups)
      BY <1>3
    <3>2. Desk!Live \in SUBSET Nat /\ Desk!Live # {}
      BY <1>1, <1>3
    <3> QED
      BY <1>3, <3>1, <3>2, GreatestNumber
  <2> QED
    BY <2>1
<1>5. p \in Nat /\ p # 0 /\ (d.tool = "schedule_pickup" => p = Len(ups) + 1)
  <2>1. CASE d.tool = "schedule_pickup"
    <3>1. p = Len(ups) + 1
      BY <2>1
    <3> HIDE DEF p
    <3> QED
      BY <1>3, <3>1
  <2>2. CASE d.tool # "schedule_pickup"
    <3>1. p \in 1 .. Len(ups)
      BY <1>3, <1>4, <2>2
    <3> HIDE DEF p
    <3> QED
      BY <1>3, <2>2, <3>1
  <2> QED
    BY <2>1, <2>2
<1> HIDE DEF p
<1>6. /\ doing' \in [Chats -> DeskCalls]
      /\ doing'[c].stage = IF lost THEN "lost" ELSE "ok"
      /\ doing'[c].tool = d.tool /\ doing'[c].server = d.server /\ doing'[c].prn = p
      /\ \A e \in Chats : e # c => doing'[e] = doing[e]
  BY <1>2, <1>5, DeskTypes DEF DeskCalls
<1>7. /\ ups' \in Seq(Bookings) /\ DOMAIN ups \subseteq DOMAIN ups'
      /\ \A i \in DOMAIN ups : /\ ups'[i].live => ups[i].live
                               /\ ups'[i].silent = ups[i].silent
      /\ \A i \in DOMAIN ups' \ DOMAIN ups : i = p /\ ups'[i].silent = lost
      /\ p \in DOMAIN ups' /\ (d.tool # "schedule_pickup" => ~ups'[p].live)
  <2>1. CASE d.tool = "schedule_pickup"
    <3> DEFINE booking == [by |-> c, live |-> TRUE, silent |-> lost]
    <3>1. booking \in Bookings /\ booking.silent = lost
      BY DEF Bookings
    <3> HIDE DEF booking
    <3>2. ups \in Seq(Bookings) /\ ups' = Append(ups, booking)
      BY <1>2, <2>1, DeskTypes DEF booking
    <3>3. /\ ups' \in Seq(Bookings) /\ Len(ups') = Len(ups) + 1
          /\ \A i \in 1 .. Len(ups) : ups'[i] = ups[i]
          /\ ups'[Len(ups) + 1] = booking
      BY <3>1, <3>2, AppendProperties
    <3>4. DOMAIN ups' = 1 .. (Len(ups) + 1)
      BY <3>3, LenProperties
    <3> QED
      BY <1>3, <1>5, <2>1, <3>1, <3>3, <3>4
  <2>2. CASE d.tool # "schedule_pickup"
    <3> DEFINE gone == [ups[p] EXCEPT !.live = FALSE]
    <3>1. p \in DOMAIN ups /\ ups[p] \in Bookings
      BY <1>3, <1>4, <2>2, DeskTypes, ElementOfSeq
    <3>2. gone \in Bookings /\ gone.live = FALSE /\ gone.silent = ups[p].silent
      BY <3>1 DEF Bookings
    <3> HIDE DEF gone
    <3>3. ups' = [ups EXCEPT ![p] = gone]
      BY <1>2, <2>2 DEF gone
    <3>4. /\ ups' \in Seq(Bookings) /\ DOMAIN ups' = DOMAIN ups
          /\ ups'[p] = gone
          /\ \A i \in DOMAIN ups : i # p => ups'[i] = ups[i]
      BY <3>1, <3>2, <3>3, DeskTypes, ExceptSeq
    <3> QED
      BY <2>2, <3>1, <3>2, <3>4
  <2> QED
    BY <2>1, <2>2
<1>8. Desk!Live' \cap DOMAIN ups \subseteq Desk!Live
  BY <1>7 DEF Desk!Live
<1>9. /\ acted' \in [Chats -> [Desk!Tools -> Nat]]
      /\ \A e \in Chats, u \in Desk!Tools :
           acted'[e][u] = IF e = c /\ u = d.tool THEN acted[c][d.tool] + 1 ELSE acted[e][u]
  <2>1. acted \in [Chats -> [Desk!Tools -> Nat]] /\ d.tool \in Desk!Tools
    BY <1>3, DeskTypes
  <2> HIDE DEF d
  <2> QED
    BY <1>1, <2>1, CountType
<1>10. Desk!TypeOK'
  <2>1. /\ previewed' \subseteq Chats
        /\ confirmed' \in [Chats -> [Desk!Tools -> Nat]]
        /\ used' \in [Chats -> [Desk!Tools -> Nat]]
        /\ broken' \in [Chats -> [Desk!Tools -> Nat]]
        /\ cards' \in [Chats -> SUBSET DeskCards]
        /\ calls' \in Nat
    BY <1>1, DeskTypes
  <2>2. /\ ups' \in Seq(Bookings)
        /\ doing' \in [Chats -> DeskCalls]
        /\ acted' \in [Chats -> [Desk!Tools -> Nat]]
    BY <1>6, <1>7, <1>9
  <2> QED
    BY <2>1, <2>2 DEF Desk!TypeOK, DeskCards, DeskCalls, Bookings
<1>11. Desk!CallsAreConfirmed'
  <2>1. ASSUME NEW e \in Chats, doing'[e].stage # "idle"
        PROVE  /\ doing'[e].server = "orchestrator"
               /\ confirmed'[e][doing'[e].tool] > used'[e][doing'[e].tool]
               /\ doing'[e].stage = "error" => doing'[e].tool = "cancel_pickup"
               /\ doing'[e].stage = "ok" =>
                    /\ doing'[e].prn \in DOMAIN ups'
                    /\ doing'[e].tool = "cancel_pickup" => ~ups'[doing'[e].prn].live
    <3>1. CASE e = c
      <4>1. doing[c].server = "orchestrator" /\ confirmed[c][d.tool] > used[c][d.tool]
        BY <1>1 DEF Desk!CallsAreConfirmed, Desk!Claims
      <4> QED
        BY <1>1, <1>6, <1>7, <3>1, <4>1
    <3>2. CASE e # c
      <4>1. /\ doing[e].server = "orchestrator"
            /\ confirmed[e][doing[e].tool] > used[e][doing[e].tool]
            /\ doing[e].stage = "error" => doing[e].tool = "cancel_pickup"
            /\ doing[e].stage = "ok" =>
                 /\ doing[e].prn \in DOMAIN ups
                 /\ doing[e].tool = "cancel_pickup" => ~ups[doing[e].prn].live
        BY <1>6, <2>1, <3>2 DEF Desk!CallsAreConfirmed, Desk!Claims
      <4> QED
        BY <1>1, <1>6, <1>7, <3>2, <4>1
    <3> QED
      BY <3>1, <3>2
  <2>2. ASSUME NEW e \in Chats, NEW u \in Desk!Tools
        PROVE  /\ used'[e][u] <= confirmed'[e][u]
               /\ acted'[e][u] <= used'[e][u] + broken'[e][u]
                    + (IF doing'[e].stage \in {"ok", "lost"} /\ doing'[e].tool = u THEN 1 ELSE 0)
    <3>1. /\ used[e][u] \in Nat /\ broken[e][u] \in Nat /\ acted[e][u] \in Nat
          /\ used[e][u] <= confirmed[e][u]
          /\ acted[e][u] <= used[e][u] + broken[e][u]
               + (IF doing[e].stage \in {"ok", "lost"} /\ doing[e].tool = u THEN 1 ELSE 0)
      BY DeskTypes DEF Desk!CallsAreConfirmed
    <3>2. CASE e = c
      <4>1. acted[e][u] <= used[e][u] + broken[e][u]
        BY <1>1, <3>1, <3>2
      <4>2. doing'[e].stage \in {"ok", "lost"} /\ doing'[e].tool = d.tool
        BY <1>6, <3>2
      <4>3. used' = used /\ broken' = broken /\ confirmed' = confirmed
        BY <1>1
      <4>4. acted'[e][u] = IF u = d.tool THEN acted[e][u] + 1 ELSE acted[e][u]
        BY <1>9, <3>2
      <4> HIDE DEF d
      <4> QED
        BY <3>1, <4>1, <4>2, <4>3, <4>4
    <3>3. CASE e # c
      <4>1. doing'[e] = doing[e] /\ acted'[e][u] = acted[e][u]
        BY <1>6, <1>9, <3>3
      <4> QED
        BY <1>1, <3>1, <4>1
    <3> QED
      BY <3>2, <3>3
  <2> QED
    BY <2>1, <2>2 DEF Desk!CallsAreConfirmed, Desk!Claims
<1>12. Desk!CardsAreTrue'
  <2> SUFFICES ASSUME NEW e \in Chats, NEW card \in cards'[e], card.success
               PROVE  /\ card.prns \subseteq DOMAIN ups'
                      /\ card.action = "cancelled" =>
                           card.prns # {} /\ card.prns \cap Desk!Live' = {}
    BY DEF Desk!CardsAreTrue
  <2>1. /\ card.prns \subseteq DOMAIN ups
        /\ card.action = "cancelled" => card.prns # {} /\ card.prns \cap Desk!Live = {}
    BY <1>1 DEF Desk!CardsAreTrue
  <2> QED
    BY <1>7, <1>8, <2>1
<1>13. Desk!NoHiddenPickup'
  <2> SUFFICES ASSUME NEW q \in Desk!Live'
               PROVE  \/ ups'[q].silent
                      \/ \E e \in Chats : doing'[e].stage = "ok" /\ doing'[e].prn = q
                      \/ \E e \in Chats : Desk!Card("scheduled", TRUE, {q}) \in cards'[e]
    BY DEF Desk!NoHiddenPickup
  <2>1. q \in DOMAIN ups'
    BY DEF Desk!Live
  <2>2. CASE q \in DOMAIN ups
    <3>1. q \in Desk!Live /\ ups'[q].silent = ups[q].silent
      BY <1>7, <1>8, <2>2
    <3>2. \A e \in Chats : doing[e].stage = "ok" => doing'[e] = doing[e]
      BY <1>1, <1>6
    <3> QED
      BY <1>1, <3>1, <3>2 DEF Desk!NoHiddenPickup
  <2>3. CASE q \notin DOMAIN ups
    <3>1. q = p /\ ups'[q].silent = lost
      BY <1>7, <2>1, <2>3
    <3> QED
      BY <1>6, <3>1
  <2> QED
    BY <2>2, <2>3
<1> QED
  BY <1>10, <1>11, <1>12, <1>13

\* The tool answers: a success uses a confirmation up and puts what UPS did on a
\* card; what was broken off is counted as such.
LEMMA AnswerKeepsDesk ==
  ASSUME DeskInv, NEW c \in Chats, Desk!Answer(c)
  PROVE  DeskInv'
<1> USE DEF DeskInv
<1> DEFINE d == doing[c]
           told == d.stage \in {"ok", "error"}
<1>1. /\ d.stage \in {"ok", "refused", "error", "lost"}
      /\ UNCHANGED <<ups, previewed, confirmed, acted, calls>>
      /\ broken' = IF d.stage = "lost" THEN Desk!Count(broken, c, d.tool) ELSE broken
      /\ doing' = [doing EXCEPT ![c] = Desk!Idle]
  BY DEF Desk!Answer
<1>2. /\ d.server = "orchestrator"
      /\ confirmed[c][d.tool] > used[c][d.tool]
      /\ d.stage = "error" => d.tool = "cancel_pickup"
      /\ d.stage = "ok" =>
           /\ d.prn \in DOMAIN ups
           /\ d.tool = "cancel_pickup" => ~ups[d.prn].live
  BY <1>1 DEF Desk!CallsAreConfirmed, Desk!Claims
<1>3. /\ used' = IF told THEN Desk!Count(used, c, d.tool) ELSE used
      /\ cards' = IF told THEN [cards EXCEPT ![c] = cards[c] \cup {Desk!ResultCard(d)}] ELSE cards
  BY <1>2 DEF Desk!Answer, Desk!Claims
<1>4. d \in DeskCalls /\ d.tool \in Desk!Tools /\ d.prn \in Nat /\ DOMAIN ups \subseteq Nat \ {0}
  BY DeskTypes, LenProperties DEF DeskCalls
<1>5. /\ doing' \in [Chats -> DeskCalls]
      /\ doing'[c].stage = "idle"
      /\ \A e \in Chats : e # c => doing'[e] = doing[e]
  BY <1>1, DeskTypes DEF Desk!Idle, DeskCalls, Desk!Tools, Desk!Servers
<1>6. /\ used' \in [Chats -> [Desk!Tools -> Nat]]
      /\ \A e \in Chats, u \in Desk!Tools :
           used'[e][u] = IF told /\ e = c /\ u = d.tool THEN used[c][d.tool] + 1 ELSE used[e][u]
  <2>1. used \in [Chats -> [Desk!Tools -> Nat]]
    BY DeskTypes
  <2> HIDE DEF d
  <2> QED
    BY <1>3, <1>4, <2>1, CountType
<1>7. /\ broken' \in [Chats -> [Desk!Tools -> Nat]]
      /\ \A e \in Chats, u \in Desk!Tools :
           broken'[e][u] = IF d.stage = "lost" /\ e = c /\ u = d.tool
                             THEN broken[c][d.tool] + 1 ELSE broken[e][u]
  <2>1. broken \in [Chats -> [Desk!Tools -> Nat]]
    BY DeskTypes
  <2> HIDE DEF d
  <2> QED
    BY <1>1, <1>4, <2>1, CountType
<1>8. told => /\ Desk!ResultCard(d) \in DeskCards
              /\ d.tool = "schedule_pickup" =>
                   Desk!ResultCard(d) = Desk!Card("scheduled", TRUE, {d.prn}) /\ d.stage = "ok"
              /\ d.tool = "cancel_pickup" =>
                   /\ Desk!ResultCard(d).action = "cancelled"
                   /\ Desk!ResultCard(d).success => d.stage = "ok"
                   /\ d.prn # 0 => Desk!ResultCard(d).prns = {d.prn}
  <2>1. d.tool = "schedule_pickup" => d.stage # "error"
    BY <1>2
  <2> HIDE DEF d
  <2> QED
    BY <1>4, <2>1 DEF Desk!ResultCard, Desk!Card, Desk!Succeeded, DeskCards, Desk!Tools
<1>9. /\ cards' \in [Chats -> SUBSET DeskCards]
      /\ \A e \in Chats : cards[e] \subseteq cards'[e]
      /\ \A e \in Chats : cards'[e] \subseteq cards[e] \cup (IF told THEN {Desk!ResultCard(d)} ELSE {})
      /\ told => Desk!ResultCard(d) \in cards'[c]
  <2> DEFINE drawn == Desk!ResultCard(d)
  <2>1. told => drawn \in DeskCards
    BY <1>8
  <2> HIDE DEF drawn
  <2>2. cards' = IF told THEN [cards EXCEPT ![c] = cards[c] \cup {drawn}] ELSE cards
    BY <1>3 DEF drawn
  <2>3. cards \in [Chats -> SUBSET DeskCards]
    BY DeskTypes
  <2> HIDE DEF d
  <2>4. /\ cards' \in [Chats -> SUBSET DeskCards]
        /\ \A e \in Chats : cards[e] \subseteq cards'[e]
        /\ \A e \in Chats : cards'[e] \subseteq cards[e] \cup (IF told THEN {drawn} ELSE {})
        /\ told => drawn \in cards'[c]
    BY <2>1, <2>2, <2>3
  <2> QED
    BY <2>4 DEF drawn
<1>10. Desk!TypeOK'
  <2>1. acted \in [Chats -> [Desk!Tools -> Nat]] /\ confirmed \in [Chats -> [Desk!Tools -> Nat]]
    BY DeskTypes
  <2>2. ups \in Seq(Bookings) /\ previewed \subseteq Chats /\ calls \in Nat
    BY DeskTypes
  <2> HIDE DEF d
  <2> QED
    BY <1>1, <1>5, <1>6, <1>7, <1>9, <2>1, <2>2 DEF Desk!TypeOK, DeskCards, DeskCalls, Bookings
<1>11. Desk!CallsAreConfirmed'
  <2>1. ASSUME NEW e \in Chats, doing'[e].stage # "idle"
        PROVE  /\ doing'[e].server = "orchestrator"
               /\ confirmed'[e][doing'[e].tool] > used'[e][doing'[e].tool]
               /\ doing'[e].stage = "error" => doing'[e].tool = "cancel_pickup"
               /\ doing'[e].stage = "ok" =>
                    /\ doing'[e].prn \in DOMAIN ups'
                    /\ doing'[e].tool = "cancel_pickup" => ~ups'[doing'[e].prn].live
    <3>1. e # c /\ doing'[e] = doing[e]
      BY <1>5, <2>1
    <3>2. doing[e].tool \in Desk!Tools
      BY DeskTypes DEF DeskCalls
    <3>3. used'[e][doing[e].tool] = used[e][doing[e].tool]
      BY <1>6, <3>1, <3>2
    <3> QED
      BY <1>1, <2>1, <3>1, <3>3 DEF Desk!CallsAreConfirmed, Desk!Claims
  <2>2. ASSUME NEW e \in Chats, NEW u \in Desk!Tools
        PROVE  /\ used'[e][u] <= confirmed'[e][u]
               /\ acted'[e][u] <= used'[e][u] + broken'[e][u]
                    + (IF doing'[e].stage \in {"ok", "lost"} /\ doing'[e].tool = u THEN 1 ELSE 0)
    <3>1. /\ used[e][u] \in Nat /\ broken[e][u] \in Nat /\ acted[e][u] \in Nat
          /\ confirmed[e][u] \in Nat
          /\ used[e][u] <= confirmed[e][u]
          /\ acted[e][u] <= used[e][u] + broken[e][u]
               + (IF doing[e].stage \in {"ok", "lost"} /\ doing[e].tool = u THEN 1 ELSE 0)
      BY DeskTypes DEF Desk!CallsAreConfirmed
    <3>2. /\ used'[e][u] = IF told /\ e = c /\ u = d.tool THEN used[e][u] + 1 ELSE used[e][u]
          /\ broken'[e][u] = IF d.stage = "lost" /\ e = c /\ u = d.tool
                               THEN broken[e][u] + 1 ELSE broken[e][u]
          /\ acted'[e][u] = acted[e][u] /\ confirmed'[e][u] = confirmed[e][u]
      <4> HIDE DEF d
      <4> QED
        BY <1>1, <1>6, <1>7
    <3>3. CASE e = c
      <4>1. u = d.tool => confirmed[e][u] > used[e][u]
        BY <1>2, <3>3
      <4>2. acted[e][u] <= used[e][u] + broken[e][u]
              + (IF d.stage \in {"ok", "lost"} /\ d.tool = u THEN 1 ELSE 0)
        BY <3>1, <3>3
      <4>3. doing'[e].stage = "idle"
        BY <1>5, <3>3
      <4> HIDE DEF d
      <4> QED
        BY <3>1, <3>2, <3>3, <4>1, <4>2, <4>3
    <3>4. CASE e # c
      <4>1. doing'[e] = doing[e]
        BY <1>5, <3>4
      <4> HIDE DEF d
      <4> QED
        BY <3>1, <3>2, <3>4, <4>1
    <3> QED
      BY <3>3, <3>4
  <2> QED
    BY <2>1, <2>2 DEF Desk!CallsAreConfirmed, Desk!Claims
<1>12. Desk!CardsAreTrue'
  <2>1. Desk!Live' = Desk!Live
    BY <1>1 DEF Desk!Live
  <2> SUFFICES ASSUME NEW e \in Chats, NEW card \in cards'[e], card.success
               PROVE  /\ card.prns \subseteq DOMAIN ups
                      /\ card.action = "cancelled" =>
                           card.prns # {} /\ card.prns \cap Desk!Live = {}
    BY <1>1, <2>1 DEF Desk!CardsAreTrue
  <2>2. CASE card \in cards[e]
    BY <2>2 DEF Desk!CardsAreTrue
  <2>3. CASE card \notin cards[e]
    <3>1. told /\ card = Desk!ResultCard(d)
      BY <1>9, <2>3
    <3>2. d.stage = "ok"
      <4> HIDE DEF d
      <4> QED
        BY <1>4, <1>8, <3>1 DEF Desk!Tools
    <3>3. d.prn \in DOMAIN ups /\ d.prn # 0
      BY <1>2, <1>4, <3>2
    <3>4. CASE d.tool = "schedule_pickup"
      BY <1>8, <3>1, <3>3, <3>4 DEF Desk!Card
    <3>5. CASE d.tool = "cancel_pickup"
      <4>1. d.prn \notin Desk!Live
        BY <1>2, <3>2, <3>5 DEF Desk!Live
      <4> QED
        BY <1>8, <3>1, <3>3, <3>5, <4>1
    <3> QED
      BY <1>4, <3>4, <3>5 DEF Desk!Tools
  <2> QED
    BY <2>2, <2>3
<1>13. Desk!NoHiddenPickup'
  <2>1. Desk!Live' = Desk!Live
    BY <1>1 DEF Desk!Live
  <2> SUFFICES ASSUME NEW q \in Desk!Live
               PROVE  \/ ups[q].silent
                      \/ \E e \in Chats : doing'[e].stage = "ok" /\ doing'[e].prn = q
                      \/ \E e \in Chats : Desk!Card("scheduled", TRUE, {q}) \in cards'[e]
    BY <1>1, <2>1 DEF Desk!NoHiddenPickup
  <2>2. CASE ups[q].silent
    BY <2>2
  <2>3. CASE \E e \in Chats : Desk!Card("scheduled", TRUE, {q}) \in cards[e]
    BY <1>9, <2>3
  <2>4. ASSUME NEW e \in Chats, doing[e].stage = "ok", doing[e].prn = q
        PROVE  \/ \E f \in Chats : doing'[f].stage = "ok" /\ doing'[f].prn = q
               \/ \E f \in Chats : Desk!Card("scheduled", TRUE, {q}) \in cards'[f]
    <3>1. CASE e # c
      BY <1>5, <2>4, <3>1
    <3>2. CASE e = c
      <4>1. d.tool # "cancel_pickup"
        BY <1>2, <2>4, <3>2 DEF Desk!Live
      <4>2. d.tool = "schedule_pickup" /\ told
        BY <1>4, <2>4, <3>2, <4>1 DEF Desk!Tools
      <4>3. Desk!ResultCard(d) = Desk!Card("scheduled", TRUE, {q})
        BY <1>8, <2>4, <3>2, <4>2
      <4> QED
        BY <1>9, <4>2, <4>3
    <3> QED
      BY <3>1, <3>2
  <2> QED
    BY <2>2, <2>3, <2>4 DEF Desk!NoHiddenPickup
<1> QED
  BY <1>10, <1>11, <1>12, <1>13

\* The calls of every conversation on one account, whatever their order, and the
\* account's promise: each call holds an unused confirmation from its gate to its
\* answer, so it bounds what UPS is asked to do.
LEMMA DeskPromise ==
  ASSUME DeskInv PROVE Desk!ActsAsConfirmed
<1> SUFFICES ASSUME NEW c \in Chats, NEW t \in Desk!Tools
             PROVE  acted[c][t] <= confirmed[c][t] + broken[c][t]
                      + (IF doing[c].stage = "lost" /\ doing[c].tool = t THEN 1 ELSE 0)
  BY DEF Desk!ActsAsConfirmed
<1>1. /\ used[c][t] \in Nat /\ broken[c][t] \in Nat /\ acted[c][t] \in Nat
      /\ confirmed[c][t] \in Nat
  BY DeskTypes DEF DeskInv
<1>2. /\ used[c][t] <= confirmed[c][t]
      /\ acted[c][t] <= used[c][t] + broken[c][t]
           + (IF doing[c].stage \in {"ok", "lost"} /\ doing[c].tool = t THEN 1 ELSE 0)
      /\ doing[c].stage = "ok" => confirmed[c][doing[c].tool] > used[c][doing[c].tool]
  BY DEF DeskInv, Desk!CallsAreConfirmed, Desk!Claims
<1>3. CASE doing[c].stage = "ok" /\ doing[c].tool = t
  BY <1>1, <1>2, <1>3
<1>4. CASE ~(doing[c].stage = "ok" /\ doing[c].tool = t)
  BY <1>1, <1>2, <1>4
<1> QED
  BY <1>3, <1>4

LEMMA DeskStep == DeskInv /\ (Desk!Next \/ UNCHANGED pickupVars) => DeskInv'
<1> SUFFICES ASSUME DeskInv, Desk!Next \/ UNCHANGED pickupVars PROVE DeskInv'
  OBVIOUS
<1>1. CASE UNCHANGED pickupVars
  BY <1>1 DEF pickupVars, DeskInv, Desk!TypeOK, Desk!CallsAreConfirmed, Desk!Claims,
     Desk!CardsAreTrue, Desk!NoHiddenPickup, Desk!Live
<1>2. CASE Desk!Next
  <2>1. PICK c \in Chats :
          \/ Desk!Preview(c) \/ Desk!Status(c) \/ \E t \in Desk!Tools : Desk!Confirm(c, t)
          \/ \E t \in Desk!Tools, server \in Desk!Servers, prn \in 0 .. MaxPickups :
               Desk!Call(c, t, server, prn)
          \/ Desk!UpsActs(c) \/ Desk!UpsDeclines(c) \/ Desk!Answer(c)
    BY <1>2 DEF Desk!Next
  <2>2. CASE Desk!Preview(c) \/ Desk!Status(c) \/ \E t \in Desk!Tools : Desk!Confirm(c, t)
    BY <2>2, QuietDesk
  <2>3. ASSUME NEW t \in Desk!Tools, NEW server \in Desk!Servers, NEW prn \in 0 .. MaxPickups,
               Desk!Call(c, t, server, prn)
        PROVE  DeskInv'
    <3>1. prn \in Nat
      BY <2>3 DEF Desk!Call
    <3> QED
      BY <2>3, <3>1, CallKeepsDesk
  <2>4. CASE Desk!UpsActs(c)
    BY <2>4, ActKeepsDesk
  <2>5. CASE Desk!UpsDeclines(c)
    BY <2>5, DeclineKeepsDesk
  <2>6. CASE Desk!Answer(c)
    BY <2>6, AnswerKeepsDesk
  <2> QED
    BY <2>1, <2>2, <2>3, <2>4, <2>5, <2>6
<1> QED
  BY <1>1, <1>2

\* Every conversation's pickups: no more than its user confirmed, on true cards, none
\* hidden, for any number of conversations, calls and confirmations.
THEOREM PickupsKeepTheirPromise == RecordsSpec => []PickupPromise
<1>1. RecordsInit => DeskInv
  BY InitDesk DEF RecordsInit
<1>2. DeskInv /\ [RecordsNext]_allVars => DeskInv'
  <2> SUFFICES ASSUME DeskInv, [RecordsNext]_allVars PROVE DeskInv'
    OBVIOUS
  <2>1. Desk!Next \/ UNCHANGED pickupVars
    BY DEF RecordsNext, Rest, allVars
  <2> QED
    BY <2>1, DeskStep
<1>3. DeskInv => PickupPromise
  BY DeskPromise DEF PickupPromise, DeskInv
<1> QED
  BY <1>1, <1>2, <1>3, PTL DEF RecordsSpec
-----------------------------------------------------------------------------
\* The record of a conversation.  Each part of ChatInv is an operator of what it is about,
\* so that a lemma can speak of it before and after a step.

ChatTurns ==
  [of : 0 .. MaxMessages, hide : BOOLEAN, shown : 0 .. MaxShown, text : 0 .. MaxShown,
   saved : SUBSET Chat!Artifacts]

\* What the page shows is of messages whose turn has come.
Past(m, count, waits, now) ==
  m <= count /\ (now.of # 0 => m <= now.of) /\ \A i \in 1 .. Len(waits) : m < waits[i]

\* The messages in line come after the one being answered, in the order they were sent.
Lined(count, waits, now) ==
  /\ now.of <= count
  /\ \A i \in 1 .. Len(waits) :
       /\ waits[i] <= count /\ now.of < waits[i]
       /\ \A j \in 1 .. Len(waits) : i < j => waits[i] < waits[j]

\* What is shown in a turn is numbered, and its artifacts are known as saved.
Paged(p, now, count, waits) ==
  /\ now.text <= now.shown
  /\ \A k \in 1 .. Len(p) :
       /\ Chat!Answer(p[k]) /\ Past(p[k].of, count, waits, now)
       /\ now.of # 0 /\ p[k].of = now.of => p[k].nth <= now.shown /\ p[k].nth # now.text
  /\ now.of # 0 =>
       \A a \in Chat!Artifacts :
         a \in now.saved <=> \E k \in 1 .. Len(p) : p[k].of = now.of /\ p[k].kind = a

\* Answers are of messages whose turn has come, in their order.
Recorded(r, now, count, waits) ==
  \A i \in 1 .. Len(r) :
    Chat!Answer(r[i]) =>
      /\ Past(r[i].of, count, waits, now)
      /\ \A j \in 1 .. Len(r) : i < j /\ Chat!Answer(r[j]) => r[i].of <= r[j].of

\* A title made by the server is of the first message, and without a fault none is
\* missing.
Titled(c, r, count, wrong) ==
  /\ c.renamed => c.title = Chat!Chosen
  /\ c.title \in 1 .. MaxMessages => c.title <= count
  /\ wrong = 0 =>
       \A i \in 1 .. Len(r) :
         r[i].kind = "question" => c.title # 0 /\ (c.title \in 1 .. MaxMessages => c.title <= r[i].of)

\* A staged document is of a message no document was sent of.
Documents(docs, next, count) ==
  /\ next <= count
  /\ \A i \in 1 .. Len(docs) :
       /\ docs[i] <= count /\ docs[i] # next
       /\ \A j \in 1 .. Len(docs) : docs[i] = docs[j] => i = j

Again(p, k) ==
  /\ p[k].kind \in Chat!Artifacts
  /\ \E j \in 1 .. (k - 1) : p[j].of = p[k].of /\ p[j].kind = p[k].kind

Answers(r) == {r[i] : i \in {n \in 1 .. Len(r) : Chat!Answer(r[n])}}
Owed(p) == {p[k] : k \in {n \in 1 .. Len(p) : ~Again(p, n)}}

SameOrder(r, p) ==
  \A i, j \in 1 .. Len(r), k, l \in 1 .. Len(p) :
    r[i] = p[k] /\ r[j] = p[l] => (i < j <=> k < l)

\* The record answers as the page was shown.
Replays(r, p) == Answers(r) = Owed(p) /\ SameOrder(r, p)

ChatInv ==
  /\ Chat!TypeOK
  /\ Lined(messages, line, turn)
  /\ Paged(page, turn, messages, line)
  /\ Recorded(record, turn, messages, line)
  /\ Titled(chat, record, messages, faults)
  /\ Documents(sent, staged, messages)
  /\ faults = 0 => Replays(record, page)

LEMMA ChatTypes ==
  ASSUME ChatInv, RecordsAssumption
  PROVE  /\ MaxMessages \in Nat /\ MaxShown \in Nat /\ MaxFaults \in Nat /\ Resume \in Nat
         /\ messages \in 0 .. MaxMessages /\ faults \in 0 .. MaxFaults
         /\ turn \in ChatTurns /\ staged \in 0 .. MaxMessages
         /\ chat \in [active : BOOLEAN, title : 0 .. Chat!Chosen, renamed : BOOLEAN]
         /\ record \in Seq(Chat!Entries) /\ Len(record) \in Nat /\ DOMAIN record = 1 .. Len(record)
         /\ \A i \in 1 .. Len(record) : record[i] \in Chat!Entries
         /\ page \in Seq(Chat!Entries) /\ Len(page) \in Nat /\ DOMAIN page = 1 .. Len(page)
         /\ \A i \in 1 .. Len(page) : page[i] \in Chat!Entries
         /\ line \in Seq(1 .. MaxMessages) /\ Len(line) \in Nat
         /\ \A i \in 1 .. Len(line) : line[i] \in 1 .. MaxMessages
         /\ sent \in Seq(1 .. MaxMessages) /\ Len(sent) \in Nat /\ DOMAIN sent = 1 .. Len(sent)
         /\ \A i \in 1 .. Len(sent) : sent[i] \in 1 .. MaxMessages
<1>1. /\ MaxMessages \in Nat /\ MaxShown \in Nat /\ MaxFaults \in Nat /\ Resume \in Nat
  BY DEF RecordsAssumption
<1>2. /\ messages \in 0 .. MaxMessages /\ faults \in 0 .. MaxFaults
      /\ turn \in ChatTurns /\ staged \in 0 .. MaxMessages
      /\ chat \in [active : BOOLEAN, title : 0 .. Chat!Chosen, renamed : BOOLEAN]
      /\ record \in Seq(Chat!Entries) /\ page \in Seq(Chat!Entries)
      /\ line \in Seq(1 .. MaxMessages) /\ sent \in Seq(1 .. MaxMessages)
  BY Zenon DEF ChatInv, Chat!TypeOK, ChatTurns
<1> QED
  BY <1>1, <1>2, LenProperties, ElementOfSeq

\* What one more entry of the page, and of the record, adds.
LEMMA OneMoreShown ==
  ASSUME NEW p \in Seq(Chat!Entries), NEW e \in Chat!Entries
  PROVE  LET twice == /\ e.kind \in Chat!Artifacts
                      /\ \E j \in 1 .. Len(p) : p[j].of = e.of /\ p[j].kind = e.kind
         IN  Owed(Append(p, e)) = IF twice THEN Owed(p) ELSE Owed(p) \cup {e}
<1> DEFINE q == Append(p, e)
           n == Len(p) + 1
           twice == /\ e.kind \in Chat!Artifacts
                    /\ \E j \in 1 .. Len(p) : p[j].of = e.of /\ p[j].kind = e.kind
<1>1. /\ Len(p) \in Nat /\ Len(q) = n /\ q[n] = e
      /\ \A i \in 1 .. Len(p) : q[i] = p[i]
  BY AppendProperties, LenProperties
<1> HIDE DEF q
<1>2. ASSUME NEW k \in 1 .. Len(p) PROVE Again(q, k) <=> Again(p, k)
  <2>1. \A j \in 1 .. (k - 1) : j \in 1 .. Len(p)
    BY <1>1
  <2> QED
    BY <1>1, <2>1 DEF Again
<1>3. Again(q, n) <=> twice
  <2>1. n - 1 = Len(p)
    BY <1>1
  <2> QED
    BY <1>1, <2>1 DEF Again
<1>4. 1 .. n = (1 .. Len(p)) \cup {n}
  BY <1>1
<1> HIDE DEF n, twice
<1>5. {m \in 1 .. Len(q) : ~Again(q, m)}
        = {m \in 1 .. Len(p) : ~Again(p, m)} \cup (IF twice THEN {} ELSE {n})
  BY <1>1, <1>2, <1>3, <1>4
<1>6. {q[k] : k \in {m \in 1 .. Len(p) : ~Again(p, m)}} = Owed(p)
  BY <1>1 DEF Owed
<1>7. CASE twice
  BY <1>5, <1>6, <1>7 DEF Owed, q, twice
<1>8. CASE ~twice
  <2>1. Owed(q) = {q[k] : k \in {m \in 1 .. Len(p) : ~Again(p, m)}} \cup {q[n]}
    BY <1>5, <1>8 DEF Owed
  <2> QED
    BY <1>1, <1>6, <1>8, <2>1 DEF q, twice
<1> QED
  BY <1>7, <1>8

LEMMA OneMoreSaved ==
  ASSUME NEW r \in Seq(Chat!Entries), NEW e \in Chat!Entries
  PROVE  Answers(Append(r, e)) = IF Chat!Answer(e) THEN Answers(r) \cup {e} ELSE Answers(r)
<1> DEFINE q == Append(r, e)
           n == Len(r) + 1
<1>1. /\ Len(r) \in Nat /\ Len(q) = n /\ q[n] = e
      /\ \A i \in 1 .. Len(r) : q[i] = r[i]
  BY AppendProperties, LenProperties
<1>2. 1 .. n = (1 .. Len(r)) \cup {n}
  BY <1>1
<1> HIDE DEF q, n
<1>3. Answers(q) = {q[i] : i \in {m \in 1 .. Len(r) : Chat!Answer(r[m])}}
                     \cup (IF Chat!Answer(e) THEN {q[n]} ELSE {})
  <2>1. {m \in 1 .. Len(q) : Chat!Answer(q[m])}
          = {m \in 1 .. Len(r) : Chat!Answer(r[m])} \cup (IF Chat!Answer(e) THEN {n} ELSE {})
    BY <1>1, <1>2
  <2> QED
    BY <2>1 DEF Answers
<1>4. {q[i] : i \in {m \in 1 .. Len(r) : Chat!Answer(r[m])}} = Answers(r)
  BY <1>1 DEF Answers
<1> QED
  BY <1>1, <1>3, <1>4 DEF q

\* A new entry the other does not have, and one that is new to both, keep the order.
LEMMA OrderGrows ==
  ASSUME NEW r \in Seq(Chat!Entries), NEW p \in Seq(Chat!Entries), NEW e \in Chat!Entries,
         SameOrder(r, p), \A k \in 1 .. Len(p) : p[k] # e
  PROVE  /\ SameOrder(Append(r, e), p)
         /\ (\A i \in 1 .. Len(r) : r[i] # e) =>
              SameOrder(r, Append(p, e)) /\ SameOrder(Append(r, e), Append(p, e))
<1>1. /\ Len(r) \in Nat /\ Len(Append(r, e)) = Len(r) + 1 /\ Append(r, e)[Len(r) + 1] = e
      /\ \A i \in 1 .. Len(r) : Append(r, e)[i] = r[i]
      /\ \A i \in 1 .. Len(r) + 1 : i \in 1 .. Len(r) \/ i = Len(r) + 1
      /\ \A i \in 1 .. Len(r) : i < Len(r) + 1 /\ ~(Len(r) + 1 < i)
      /\ ~(Len(r) + 1 < Len(r) + 1)
  BY AppendProperties, LenProperties
<1>2. /\ Len(p) \in Nat /\ Len(Append(p, e)) = Len(p) + 1 /\ Append(p, e)[Len(p) + 1] = e
      /\ \A i \in 1 .. Len(p) : Append(p, e)[i] = p[i]
      /\ \A i \in 1 .. Len(p) + 1 : i \in 1 .. Len(p) \/ i = Len(p) + 1
      /\ \A i \in 1 .. Len(p) : i < Len(p) + 1 /\ ~(Len(p) + 1 < i)
      /\ ~(Len(p) + 1 < Len(p) + 1)
  BY AppendProperties, LenProperties
<1> DEFINE s == Append(r, e)
           q == Append(p, e)
<1> HIDE DEF s, q
<1>3. SameOrder(s, p)
  <2>1. \A i \in 1 .. Len(s), k \in 1 .. Len(p) : s[i] = p[k] => i \in 1 .. Len(r) /\ s[i] = r[i]
    BY <1>1 DEF s
  <2> QED
    BY <2>1 DEF SameOrder
<1>4. ASSUME \A i \in 1 .. Len(r) : r[i] # e
      PROVE  SameOrder(r, q) /\ SameOrder(s, q)
  <2>1. \A i \in 1 .. Len(r), k \in 1 .. Len(q) : r[i] = q[k] => k \in 1 .. Len(p) /\ q[k] = p[k]
    BY <1>2, <1>4 DEF q
  <2>2. SameOrder(r, q)
    BY <2>1 DEF SameOrder
  <2>3. ASSUME NEW i \in 1 .. Len(s), NEW k \in 1 .. Len(q), s[i] = q[k]
        PROVE  \/ i \in 1 .. Len(r) /\ k \in 1 .. Len(p) /\ r[i] = p[k]
               \/ i = Len(r) + 1 /\ k = Len(p) + 1
    BY <1>1, <1>2, <1>4, <2>3 DEF s, q
  <2>4. ASSUME NEW i \in 1 .. Len(s), NEW j \in 1 .. Len(s),
               NEW k \in 1 .. Len(q), NEW l \in 1 .. Len(q), s[i] = q[k], s[j] = q[l]
        PROVE  i < j <=> k < l
    <3>1. \/ i \in 1 .. Len(r) /\ k \in 1 .. Len(p) /\ r[i] = p[k]
          \/ i = Len(r) + 1 /\ k = Len(p) + 1
      BY <2>3, <2>4
    <3>2. \/ j \in 1 .. Len(r) /\ l \in 1 .. Len(p) /\ r[j] = p[l]
          \/ j = Len(r) + 1 /\ l = Len(p) + 1
      BY <2>3, <2>4
    <3> QED
      BY <1>1, <1>2, <3>1, <3>2 DEF SameOrder
  <2>5. SameOrder(s, q)
    BY <2>4 DEF SameOrder
  <2> QED
    BY <2>2, <2>5
<1> QED
  BY <1>3, <1>4 DEF s, q

\* The record follows the page: an answer shown for the first time is saved, another one
\* is not, and a question changes nothing.
LEMMA ReplaysGrow ==
  ASSUME NEW r \in Seq(Chat!Entries), NEW p \in Seq(Chat!Entries), NEW e \in Chat!Entries,
         Replays(r, p), \A k \in 1 .. Len(p) : p[k] # e
  PROVE  /\ ~Chat!Answer(e) => Replays(Append(r, e), p)
         /\ Chat!Answer(e) =>
              Replays(IF /\ e.kind \in Chat!Artifacts
                         /\ \E j \in 1 .. Len(p) : p[j].of = e.of /\ p[j].kind = e.kind
                      THEN r ELSE Append(r, e), Append(p, e))
<1> DEFINE twice == /\ e.kind \in Chat!Artifacts
                    /\ \E j \in 1 .. Len(p) : p[j].of = e.of /\ p[j].kind = e.kind
<1>1. Answers(r) = Owed(p) /\ SameOrder(r, p)
  BY DEF Replays
<1>2. Owed(Append(p, e)) = IF twice THEN Owed(p) ELSE Owed(p) \cup {e}
  BY OneMoreShown
<1>3. Answers(Append(r, e)) = IF Chat!Answer(e) THEN Answers(r) \cup {e} ELSE Answers(r)
  BY OneMoreSaved
<1>4. SameOrder(Append(r, e), p)
  BY <1>1, OrderGrows
<1>5. Chat!Answer(e) =>
        SameOrder(r, Append(p, e)) /\ SameOrder(Append(r, e), Append(p, e))
  <2>1. ASSUME Chat!Answer(e), NEW i \in 1 .. Len(r), r[i] = e PROVE FALSE
    <3>1. e \in Owed(p)
      BY <1>1, <2>1 DEF Answers
    <3> QED
      BY <3>1 DEF Owed
  <2> QED
    BY <1>1, <2>1, OrderGrows
<1> HIDE DEF twice
<1>6. ~Chat!Answer(e) => Replays(Append(r, e), p)
  BY <1>1, <1>3, <1>4 DEF Replays
<1>7. Chat!Answer(e) => Replays(IF twice THEN r ELSE Append(r, e), Append(p, e))
  BY <1>1, <1>2, <1>3, <1>5 DEF Replays
<1> QED
  BY <1>6, <1>7 DEF twice

LEMMA InitChat == Chat!Init /\ RecordsAssumption => ChatInv
<1> SUFFICES ASSUME Chat!Init, RecordsAssumption PROVE ChatInv
  OBVIOUS
<1>1. /\ chat = [active |-> TRUE, title |-> 0, renamed |-> FALSE] /\ record = <<>>
      /\ messages = 0 /\ line = <<>> /\ page = <<>> /\ staged = 0 /\ sent = <<>> /\ faults = 0
      /\ turn = [of |-> 0, hide |-> FALSE, shown |-> 0, text |-> 0, saved |-> {}]
      /\ agent.told = <<>>
  BY DEF Chat!Init, Chat!NoTurn, Chat!NoAgent
<1>2. /\ MaxMessages \in Nat /\ MaxShown \in Nat /\ MaxFaults \in Nat
  BY DEF RecordsAssumption
<1>3. Chat!TypeOK
  BY <1>1, <1>2, EmptySeq DEF Chat!TypeOK, Chat!Chosen
<1>4. /\ Len(record) = 0 /\ Len(line) = 0 /\ Len(page) = 0 /\ Len(sent) = 0
      /\ 1 .. 0 = {}
  BY <1>1
<1>5. Lined(messages, line, turn) /\ Paged(page, turn, messages, line)
  BY <1>1, <1>4 DEF Lined, Paged
<1>6. /\ Recorded(record, turn, messages, line) /\ Titled(chat, record, messages, faults)
      /\ Documents(sent, staged, messages)
  BY <1>1, <1>4 DEF Recorded, Titled, Documents
<1>7. Replays(record, page)
  BY <1>4 DEF Replays, Answers, Owed, SameOrder
<1> QED
  BY <1>3, <1>5, <1>6, <1>7 DEF ChatInv

\* The turn of the message being answered has come.
LEMMA TurnIsPast ==
  ASSUME ChatInv, RecordsAssumption PROVE Past(turn.of, messages, line, turn)
<1>1. turn.of \in Nat
  BY ChatTypes DEF ChatTurns
<1>2. turn.of <= messages /\ \A i \in 1 .. Len(line) : turn.of < line[i]
  BY DEF ChatInv, Lined
<1> QED
  BY <1>1, <1>2 DEF Past

\* An answer of the message being answered goes to the end of the record, or is lost.
LEMMA AnswerSaved ==
  ASSUME ChatInv, RecordsAssumption, NEW e \in Chat!Entries,
         e.of = turn.of, turn.of # 0, Chat!Answer(e), Chat!Save(e)
  PROVE  /\ record' \in Seq(Chat!Entries) /\ faults' \in 0 .. MaxFaults
         /\ faults' = 0 => faults = 0 /\ record' = Append(record, e)
         /\ Recorded(record', turn, messages, line)
         /\ Titled(chat, record', messages, faults')
<1>1. \/ record' = Append(record, e) /\ faults' = faults
      \/ record' = record /\ faults < MaxFaults /\ faults' = faults + 1
  BY DEF Chat!Save, Chat!Fault
<1>2. /\ MaxFaults \in Nat /\ faults \in 0 .. MaxFaults
      /\ record \in Seq(Chat!Entries) /\ Len(record) \in Nat
      /\ Recorded(record, turn, messages, line) /\ Titled(chat, record, messages, faults)
  BY ChatTypes DEF ChatInv
<1>3. CASE record' = record /\ faults < MaxFaults /\ faults' = faults + 1
  BY <1>2, <1>3 DEF Titled
<1>4. CASE record' = Append(record, e) /\ faults' = faults
  <2>1. /\ record' \in Seq(Chat!Entries) /\ Len(record') = Len(record) + 1
        /\ record'[Len(record) + 1] = e /\ \A i \in 1 .. Len(record) : record'[i] = record[i]
    BY <1>2, <1>4, AppendProperties
  <2>2. \A i \in 1 .. Len(record') : i \in 1 .. Len(record) \/ i = Len(record) + 1
    BY <1>2, <2>1
  <2>3. Past(e.of, messages, line, turn)
    BY TurnIsPast
  <2>4. e.kind # "question"
    BY DEF Chat!Answer
  <2>5. ASSUME NEW i \in 1 .. Len(record'), Chat!Answer(record'[i])
        PROVE  /\ Past(record'[i].of, messages, line, turn)
               /\ \A j \in 1 .. Len(record') :
                    i < j /\ Chat!Answer(record'[j]) => record'[i].of <= record'[j].of
    <3>1. CASE i \in 1 .. Len(record)
      BY <1>2, <2>1, <2>2, <2>5, <3>1 DEF Recorded, Past
    <3>2. CASE i = Len(record) + 1
      <4>1. \A j \in 1 .. Len(record') : ~(i < j)
        BY <1>2, <2>1, <3>2
      <4> QED
        BY <2>1, <2>3, <3>2, <4>1
    <3> QED
      BY <2>2, <3>1, <3>2
  <2>6. Recorded(record', turn, messages, line)
    BY <2>5 DEF Recorded
  <2>7. Titled(chat, record', messages, faults')
    BY <1>2, <1>4, <2>1, <2>2, <2>4 DEF Titled
  <2> QED
    BY <1>2, <1>4, <2>1, <2>6, <2>7
<1> QED
  BY <1>1, <1>3, <1>4

\* What showing an entry keeps, whatever becomes of the turn.
ShownWell ==
  /\ record' \in Seq(Chat!Entries) /\ page' \in Seq(Chat!Entries) /\ faults' \in 0 .. MaxFaults
  /\ Recorded(record', turn, messages, line)
  /\ Titled(chat, record', messages, faults')
  /\ faults' = 0 => Replays(record', page')

LEMMA EntryShown ==
  ASSUME ChatInv, RecordsAssumption, NEW e \in Chat!Entries,
         e.of = turn.of, turn.of # 0, Chat!Answer(e), \A k \in 1 .. Len(page) : page[k] # e,
         page' = Append(page, e),
         IF e.kind \in Chat!Artifacts /\ e.kind \in turn.saved
           THEN UNCHANGED <<record, faults>> ELSE Chat!Save(e)
  PROVE  ShownWell
<1>1. /\ record \in Seq(Chat!Entries) /\ page \in Seq(Chat!Entries) /\ faults \in 0 .. MaxFaults
      /\ Recorded(record, turn, messages, line) /\ Titled(chat, record, messages, faults)
      /\ faults = 0 => Replays(record, page)
  BY ChatTypes DEF ChatInv
<1>2. page' \in Seq(Chat!Entries)
  BY <1>1, AppendProperties
<1> DEFINE twice == /\ e.kind \in Chat!Artifacts
                    /\ \E j \in 1 .. Len(page) : page[j].of = e.of /\ page[j].kind = e.kind
<1>3. twice <=> e.kind \in Chat!Artifacts /\ e.kind \in turn.saved
  BY DEF ChatInv, Paged
<1>4. faults = 0 => Replays(IF twice THEN record ELSE Append(record, e), Append(page, e))
  BY <1>1, ReplaysGrow
<1> HIDE DEF twice
<1>5. CASE twice
  BY <1>1, <1>2, <1>3, <1>4, <1>5 DEF ShownWell
<1>6. CASE ~twice
  <2>1. Chat!Save(e)
    BY <1>3, <1>6
  <2> QED
    BY <1>2, <1>4, <1>6, <2>1, AnswerSaved DEF ShownWell
<1> QED
  BY <1>5, <1>6

\* An artifact is shown under the next number of its turn.
LEMMA ArtifactShown ==
  ASSUME ChatInv, RecordsAssumption, NEW a \in Chat!Artifacts, Chat!MayShow, Chat!ShowArtifact(a)
  PROVE  /\ ShownWell /\ turn' \in ChatTurns /\ turn'.of = turn.of
         /\ Paged(page', turn', messages, line)
<1> DEFINE n == turn.shown + 1
           e == [of |-> turn.of, kind |-> a, nth |-> n]
<1>1. /\ turn.of # 0 /\ turn.shown < MaxShown
      /\ turn' = [turn EXCEPT !.shown = n, !.saved = turn.saved \cup {a}]
      /\ page' = Append(page, e)
      /\ IF a \in turn.saved THEN UNCHANGED <<record, faults>> ELSE Chat!Save(e)
  BY DEF Chat!MayShow, Chat!ShowArtifact, Chat!FirstOfItsKind, Chat!Shows, Chat!Entry
<1>2. /\ MaxShown \in Nat /\ turn \in ChatTurns /\ MaxMessages \in Nat
      /\ page \in Seq(Chat!Entries) /\ Len(page) \in Nat
      /\ \A i \in 1 .. Len(page) : page[i] \in Chat!Entries
  BY ChatTypes
<1>3. n \in 0 .. MaxShown /\ turn.shown \in Nat /\ turn.shown < n
  BY <1>1, <1>2 DEF ChatTurns
<1> HIDE DEF n
<1>4. /\ e \in Chat!Entries /\ e.of = turn.of /\ e.kind = a /\ e.nth = n
  BY <1>2, <1>3 DEF ChatTurns, Chat!Entries
<1>5. Chat!Answer(e) /\ a \in {"preview", "document"}
  BY <1>4 DEF Chat!Answer, Chat!Artifacts
<1>6. /\ turn' \in ChatTurns /\ turn'.of = turn.of /\ turn'.shown = n /\ turn'.text = turn.text
      /\ turn'.saved = turn.saved \cup {a}
  BY <1>1, <1>2, <1>3 DEF ChatTurns
<1> HIDE DEF e
<1>7. /\ turn.text <= turn.shown /\ turn.text \in Nat
      /\ \A k \in 1 .. Len(page) :
           /\ Chat!Answer(page[k]) /\ Past(page[k].of, messages, line, turn)
           /\ page[k].of = turn.of => page[k].nth <= turn.shown /\ page[k].nth # turn.text
      /\ \A b \in Chat!Artifacts :
           b \in turn.saved <=> \E k \in 1 .. Len(page) : page[k].of = turn.of /\ page[k].kind = b
  <2>1. turn.text \in Nat
    BY <1>2 DEF ChatTurns
  <2>2. Paged(page, turn, messages, line)
    BY DEF ChatInv
  <2> QED
    BY <1>1, <2>1, <2>2 DEF Paged
<1>8. \A k \in 1 .. Len(page) : page[k] # e /\ page[k].nth \in Nat
  BY SMTT(30), <1>2, <1>3, <1>4, <1>7 DEF Chat!Entries
<1>9. ShownWell
  BY <1>1, <1>4, <1>5, <1>8, EntryShown
<1>10. /\ Len(page') = Len(page) + 1 /\ page'[Len(page) + 1] = e
       /\ \A i \in 1 .. Len(page) : page'[i] = page[i]
       /\ \A i \in 1 .. Len(page') : i \in 1 .. Len(page) \/ i = Len(page) + 1
       /\ Len(page) + 1 \in 1 .. Len(page') /\ 1 .. Len(page) \subseteq 1 .. Len(page')
  BY <1>1, <1>2, <1>4, AppendProperties
<1>11. Past(e.of, messages, line, turn)
  BY <1>4, TurnIsPast
<1>12. \A k \in 1 .. Len(page') :
         /\ Chat!Answer(page'[k]) /\ Past(page'[k].of, messages, line, turn')
         /\ page'[k].of = turn'.of => page'[k].nth <= turn'.shown /\ page'[k].nth # turn'.text
  <2>1. \A m : Past(m, messages, line, turn') <=> Past(m, messages, line, turn)
    BY <1>6 DEF Past
  <2>2. ASSUME NEW k \in 1 .. Len(page)
        PROVE  page[k].of = turn'.of => page[k].nth <= turn'.shown /\ page[k].nth # turn'.text
    BY <1>3, <1>6, <1>7, <1>8
  <2>3. e.nth <= turn'.shown /\ e.nth # turn'.text
    BY <1>3, <1>4, <1>6, <1>7
  <2> QED
    BY <1>5, <1>7, <1>10, <1>11, <2>1, <2>2, <2>3
<1>13. ASSUME NEW b \in Chat!Artifacts
       PROVE  b \in turn'.saved <=>
                \E k \in 1 .. Len(page') : page'[k].of = turn'.of /\ page'[k].kind = b
  BY <1>4, <1>6, <1>7, <1>10
<1>14. turn'.text <= turn'.shown
  BY <1>3, <1>6, <1>7
<1>15. Paged(page', turn', messages, line)
  BY <1>12, <1>13, <1>14 DEF Paged
<1> QED
  BY <1>6, <1>9, <1>15

\* A turn that goes on is as far in the line as it was.
LEMMA SameTurn ==
  ASSUME NEW now, NEW then, then.of = now.of
  PROVE  /\ \A m, count, waits : Past(m, count, waits, then) <=> Past(m, count, waits, now)
         /\ \A count, waits : Lined(count, waits, now) => Lined(count, waits, then)
         /\ \A r, count, waits : Recorded(r, now, count, waits) => Recorded(r, then, count, waits)
<1>1. \A m, count, waits : Past(m, count, waits, then) <=> Past(m, count, waits, now)
  BY DEF Past
<1> QED
  BY <1>1 DEF Lined, Recorded

LEMMA PreviewKeepsChat ==
  ASSUME ChatInv, RecordsAssumption, Chat!Preview
  PROVE  ChatInv'
<1>1. /\ Chat!MayShow /\ Chat!ShowArtifact("preview") /\ "preview" \in Chat!Artifacts
      /\ UNCHANGED <<chat, messages, line, agent, staged, sent>>
  BY DEF Chat!Preview, Chat!Artifacts
<1>2. /\ ShownWell /\ turn' \in ChatTurns /\ turn'.of = turn.of
      /\ Paged(page', turn', messages, line)
  BY <1>1, ArtifactShown
<1>3. Lined(messages, line, turn') /\ Recorded(record', turn', messages, line)
  BY <1>2, SameTurn DEF ChatInv, ShownWell
<1>4. Chat!TypeOK'
  BY <1>1, <1>2 DEF ChatInv, Chat!TypeOK, ShownWell, ChatTurns
<1> QED
  BY <1>1, <1>2, <1>3, <1>4 DEF ChatInv, ShownWell

\* What a document upload does to the page and the record, answered or not.
LEMMA UploadKeepsChat ==
  ASSUME ChatInv, RecordsAssumption, Chat!UploadToUps
  PROVE  ChatInv'
<1>1. /\ Chat!MayShow /\ staged # 0 /\ staged' = 0 /\ "document" \in Chat!Artifacts
      /\ UNCHANGED <<chat, messages, line, agent>>
      /\ \/ sent' = Append(sent, staged) /\ Chat!ShowArtifact("document")
         \/ /\ sent' \in {sent, Append(sent, staged)}
            /\ turn' = [turn EXCEPT !.shown = turn.shown + 1]
            /\ UNCHANGED <<record, page, faults>>
  BY DEF Chat!UploadToUps, Chat!Consume, Chat!Artifacts
<1>2. /\ MaxMessages \in Nat /\ MaxShown \in Nat /\ messages \in 0 .. MaxMessages
      /\ turn \in ChatTurns /\ staged \in 1 .. MaxMessages
      /\ sent \in Seq(1 .. MaxMessages) /\ Len(sent) \in Nat
      /\ \A i \in 1 .. Len(sent) : sent[i] \in 1 .. MaxMessages
  BY <1>1, ChatTypes
<1>3. Documents(sent, staged, messages)
  BY DEF ChatInv
<1>4. sent' \in Seq(1 .. MaxMessages) /\ Documents(sent', 0, messages)
  <2>1. CASE sent' = sent
    BY <1>2, <1>3, <2>1 DEF Documents
  <2>2. CASE sent' = Append(sent, staged)
    <3>1. /\ sent' \in Seq(1 .. MaxMessages) /\ Len(sent') = Len(sent) + 1
          /\ sent'[Len(sent) + 1] = staged /\ \A i \in 1 .. Len(sent) : sent'[i] = sent[i]
          /\ \A i \in 1 .. Len(sent') : i \in 1 .. Len(sent) \/ i = Len(sent) + 1
      BY <1>2, <2>2, AppendProperties
    <3>2. /\ staged <= messages /\ staged # 0
          /\ \A i \in 1 .. Len(sent) :
               /\ sent[i] <= messages /\ sent[i] # staged /\ sent[i] # 0
               /\ \A j \in 1 .. Len(sent) : sent[i] = sent[j] => i = j
      BY <1>2, <1>3 DEF Documents
    <3>3. \A i \in 1 .. Len(sent') : sent'[i] <= messages /\ sent'[i] # 0
      BY <3>1, <3>2, Zenon
    <3>4. ASSUME NEW i \in 1 .. Len(sent'), NEW j \in 1 .. Len(sent'), sent'[i] = sent'[j]
          PROVE  i = j
      BY <3>1, <3>2, <3>4, Zenon
    <3>5. 0 <= messages
      BY <1>2
    <3>6. Documents(sent', 0, messages)
      BY <3>3, <3>4, <3>5, Zenon DEF Documents
    <3> QED
      BY <3>1, <3>6
  <2> QED
    BY <1>1, <2>1, <2>2
<1>5. CASE Chat!ShowArtifact("document")
  <2>1. /\ ShownWell /\ turn' \in ChatTurns /\ turn'.of = turn.of
        /\ Paged(page', turn', messages, line)
    BY <1>1, <1>5, ArtifactShown
  <2>2. Lined(messages, line, turn') /\ Recorded(record', turn', messages, line)
    BY <2>1, SameTurn DEF ChatInv, ShownWell
  <2>3. Chat!TypeOK'
    BY <1>1, <1>2, <1>4, <2>1 DEF ChatInv, Chat!TypeOK, ShownWell, ChatTurns
  <2> QED
    BY <1>1, <1>4, <2>1, <2>2, <2>3 DEF ChatInv, ShownWell
<1>6. CASE turn' = [turn EXCEPT !.shown = turn.shown + 1] /\ UNCHANGED <<record, page, faults>>
  <2>1. turn.shown \in 0 .. MaxShown /\ turn.shown < MaxShown
    BY <1>1, <1>2 DEF Chat!MayShow, ChatTurns
  <2>2. /\ turn' \in ChatTurns /\ turn'.of = turn.of /\ turn'.shown = turn.shown + 1
        /\ turn'.text = turn.text /\ turn'.saved = turn.saved
    BY SMTT(30), <1>2, <1>6, <2>1 DEF ChatTurns
  <2>3. Lined(messages, line, turn') /\ Recorded(record, turn', messages, line)
    BY <2>2, SameTurn DEF ChatInv
  <2>4. Paged(page, turn', messages, line)
    <3>1. \A m : Past(m, messages, line, turn') <=> Past(m, messages, line, turn)
      BY <2>2, SameTurn
    <3>2. turn.text \in Nat /\ \A k \in 1 .. Len(page) : page[k].nth \in Nat
      BY <1>2, ChatTypes DEF ChatTurns, Chat!Entries
    <3>3. turn'.text <= turn'.shown
      BY <2>1, <2>2, <3>2 DEF ChatInv, Paged
    <3>4. \A k \in 1 .. Len(page) :
            turn.of # 0 /\ page[k].of = turn.of => page[k].nth <= turn.shown + 1 /\ page[k].nth # turn.text
      BY <2>1, <3>2 DEF ChatInv, Paged
    <3> QED
      BY <2>2, <3>1, <3>3, <3>4 DEF ChatInv, Paged
  <2>5. Chat!TypeOK'
    <3>1. /\ record' = record /\ page' = page /\ faults' = faults /\ messages' = messages
          /\ line' = line /\ chat' = chat /\ agent' = agent /\ staged' \in 0 .. MaxMessages
      BY <1>1, <1>2, <1>6
    <3> QED
      BY <1>4, <2>2, <3>1, Zenon DEF ChatInv, Chat!TypeOK, ChatTurns
  <2> QED
    BY <1>1, <1>4, <1>6, <2>2, <2>3, <2>4, <2>5 DEF ChatInv
<1> QED
  BY <1>1, <1>5, <1>6

LEMMA SayKeepsChat ==
  ASSUME ChatInv, RecordsAssumption, Chat!Say
  PROVE  ChatInv'
<1> DEFINE n == turn.shown + 1
           e == [of |-> turn.of, kind |-> "text", nth |-> n]
<1>1. /\ turn.of # 0 /\ turn.shown < MaxShown
      /\ UNCHANGED <<chat, messages, line, agent, staged, sent>>
      /\ \/ /\ turn' = [turn EXCEPT !.shown = n, !.text = n]
            /\ UNCHANGED <<record, page, faults>>
         \/ /\ turn' = [turn EXCEPT !.shown = n]
            /\ Chat!Save(e) /\ page' = Append(page, e)
  BY DEF Chat!Say, Chat!MayShow, Chat!Shows, Chat!Entry
<1>2. /\ MaxShown \in Nat /\ turn \in ChatTurns /\ MaxMessages \in Nat
      /\ page \in Seq(Chat!Entries) /\ Len(page) \in Nat
      /\ \A i \in 1 .. Len(page) : page[i] \in Chat!Entries
  BY ChatTypes
<1>3. n \in 0 .. MaxShown /\ turn.shown \in Nat /\ turn.shown < n
  BY <1>1, <1>2 DEF ChatTurns
<1> HIDE DEF n
<1>4. /\ e \in Chat!Entries /\ e.of = turn.of /\ e.kind = "text" /\ e.nth = n
  BY <1>2, <1>3 DEF ChatTurns, Chat!Entries
<1>5. Chat!Answer(e) /\ "text" \notin Chat!Artifacts
  BY <1>4 DEF Chat!Answer, Chat!Artifacts
<1> HIDE DEF e
<1>6. turn.text \in Nat /\ turn.text <= turn.shown
  BY <1>2 DEF ChatTurns, ChatInv, Paged
<1>7. /\ \A k \in 1 .. Len(page) :
           /\ Chat!Answer(page[k]) /\ Past(page[k].of, messages, line, turn)
           /\ page[k].of = turn.of => page[k].nth <= turn.shown /\ page[k].nth # turn.text
      /\ \A b \in Chat!Artifacts :
           b \in turn.saved <=> \E k \in 1 .. Len(page) : page[k].of = turn.of /\ page[k].kind = b
  BY <1>1 DEF ChatInv, Paged
<1>8. \A k \in 1 .. Len(page) : page[k] # e /\ page[k].nth \in Nat
  BY SMTT(30), <1>2, <1>3, <1>4, <1>7 DEF Chat!Entries
<1>9. /\ turn' \in ChatTurns /\ turn'.of = turn.of /\ turn'.shown = n /\ turn'.saved = turn.saved
      /\ turn'.text \in {n, turn.text} /\ (page' # page => turn'.text = turn.text)
  BY <1>1, <1>2, <1>3 DEF ChatTurns
<1>10. /\ Lined(messages, line, turn')
       /\ \A m : Past(m, messages, line, turn') <=> Past(m, messages, line, turn)
       /\ \A r : Recorded(r, turn, messages, line) => Recorded(r, turn', messages, line)
  BY <1>9, SameTurn DEF ChatInv
<1>11. CASE UNCHANGED <<record, page, faults>>
  <2>1. \A k \in 1 .. Len(page) :
          page[k].of = turn'.of => page[k].nth <= turn'.shown /\ page[k].nth # turn'.text
    BY SMTT(30), <1>3, <1>7, <1>8, <1>9
  <2>2. turn'.text <= turn'.shown
    BY <1>3, <1>6, <1>9
  <2>3. Paged(page', turn', messages, line)
    BY <1>7, <1>9, <1>10, <1>11, <2>1, <2>2 DEF Paged
  <2>4. Chat!TypeOK'
    BY <1>1, <1>9, <1>11 DEF ChatInv, Chat!TypeOK, ChatTurns
  <2> QED
    BY <1>1, <1>10, <1>11, <2>3, <2>4 DEF ChatInv
<1>12. CASE Chat!Save(e) /\ page' = Append(page, e) /\ turn' = [turn EXCEPT !.shown = n]
  <2>1. ShownWell
    BY <1>1, <1>4, <1>5, <1>8, <1>12, EntryShown
  <2>2. /\ Len(page') = Len(page) + 1 /\ page'[Len(page) + 1] = e
        /\ \A i \in 1 .. Len(page) : page'[i] = page[i]
        /\ \A i \in 1 .. Len(page') : i \in 1 .. Len(page) \/ i = Len(page) + 1
        /\ Len(page) + 1 \in 1 .. Len(page') /\ 1 .. Len(page) \subseteq 1 .. Len(page')
    BY <1>2, <1>4, <1>12, AppendProperties
  <2>3. turn'.text = turn.text
    BY <1>2, <1>12 DEF ChatTurns
  <2>4. \A k \in 1 .. Len(page) :
          page[k].of = turn'.of => page[k].nth <= turn'.shown /\ page[k].nth # turn'.text
    BY <1>3, <1>7, <1>8, <1>9, <2>3
  <2>5. e.nth <= turn'.shown /\ e.nth # turn'.text /\ turn'.text <= turn'.shown
    BY <1>3, <1>4, <1>6, <1>9, <2>3
  <2>6. Past(e.of, messages, line, turn')
    BY <1>4, <1>10, TurnIsPast
  <2>7. \A k \in 1 .. Len(page') :
          /\ Chat!Answer(page'[k]) /\ Past(page'[k].of, messages, line, turn')
          /\ page'[k].of = turn'.of => page'[k].nth <= turn'.shown /\ page'[k].nth # turn'.text
    BY <1>5, <1>7, <1>10, <2>2, <2>4, <2>5, <2>6
  <2>8. \A b \in Chat!Artifacts :
          b \in turn'.saved <=> \E k \in 1 .. Len(page') : page'[k].of = turn'.of /\ page'[k].kind = b
    BY SMTT(30), <1>4, <1>5, <1>7, <1>9, <2>2
  <2>9. Paged(page', turn', messages, line)
    BY <2>5, <2>7, <2>8 DEF Paged
  <2>10. Chat!TypeOK'
    BY <1>1, <1>9, <2>1 DEF ChatInv, Chat!TypeOK, ShownWell, ChatTurns
  <2> QED
    BY <1>1, <1>10, <2>1, <2>9, <2>10 DEF ChatInv, ShownWell
<1> QED
  BY <1>1, <1>11, <1>12

\* A turn whose text was held back shows it at its end, unless it showed an artifact.
LEMMA TurnEndsKeepsChat ==
  ASSUME ChatInv, RecordsAssumption, Chat!TurnEnds
  PROVE  ChatInv'
<1> DEFINE e == [of |-> turn.of, kind |-> "text", nth |-> turn.text]
<1>1. /\ turn.of # 0 /\ UNCHANGED <<chat, messages, line, agent, staged, sent>>
      /\ turn' = [of |-> 0, hide |-> FALSE, shown |-> 0, text |-> 0, saved |-> {}]
      /\ \/ UNCHANGED <<record, page, faults>>
         \/ turn.text # 0 /\ Chat!Save(e) /\ page' = Append(page, e)
  BY DEF Chat!TurnEnds, Chat!NoTurn, Chat!Shows, Chat!Entry
<1>2. /\ MaxShown \in Nat /\ turn \in ChatTurns /\ MaxMessages \in Nat /\ messages \in Nat
      /\ page \in Seq(Chat!Entries) /\ Len(page) \in Nat
      /\ \A i \in 1 .. Len(page) : page[i] \in Chat!Entries
      /\ \A i \in 1 .. Len(line) : line[i] \in 1 .. MaxMessages
  BY ChatTypes
<1>3. /\ turn'.of = 0 /\ turn'.text = 0 /\ turn'.shown = 0 /\ turn' \in ChatTurns
  BY <1>1, <1>2 DEF ChatTurns
<1>4. /\ Lined(messages, line, turn')
      /\ \A m : Past(m, messages, line, turn) => Past(m, messages, line, turn')
  BY <1>2, <1>3 DEF ChatInv, Lined, Past
<1>5. /\ e \in Chat!Entries /\ e.of = turn.of /\ e.kind = "text" /\ e.nth = turn.text
  BY <1>2 DEF ChatTurns, Chat!Entries
<1>6. Chat!Answer(e) /\ "text" \notin Chat!Artifacts
  BY <1>5 DEF Chat!Answer, Chat!Artifacts
<1> HIDE DEF e
<1>7. \A k \in 1 .. Len(page) :
        /\ Chat!Answer(page[k]) /\ Past(page[k].of, messages, line, turn)
        /\ page[k].of = turn.of => page[k].nth # turn.text
  BY <1>1 DEF ChatInv, Paged
<1>8. \/ ShownWell
      \/ UNCHANGED <<record, page, faults>>
  BY <1>1, <1>5, <1>6, <1>7, EntryShown
<1>9. /\ \A k \in 1 .. Len(page') :
           Chat!Answer(page'[k]) /\ Past(page'[k].of, messages, line, turn')
  <2>1. CASE UNCHANGED <<record, page, faults>>
    BY <1>4, <1>7, <2>1
  <2>2. CASE page' = Append(page, e)
    <3>1. /\ page'[Len(page) + 1] = e
          /\ \A i \in 1 .. Len(page) : page'[i] = page[i]
          /\ \A i \in 1 .. Len(page') : i \in 1 .. Len(page) \/ i = Len(page) + 1
      BY <1>2, <1>5, <2>2, AppendProperties
    <3>2. Past(e.of, messages, line, turn')
      BY <1>4, <1>5, TurnIsPast
    <3> QED
      BY <1>4, <1>6, <1>7, <3>1, <3>2
  <2> QED
    BY <1>1, <2>1, <2>2
<1>10. Paged(page', turn', messages, line)
  BY <1>3, <1>9 DEF Paged
<1>11. Recorded(record', turn', messages, line)
  <2>1. Recorded(record', turn, messages, line)
    BY <1>8 DEF ChatInv, ShownWell
  <2> QED
    BY <1>4, <2>1 DEF Recorded
<1>12. /\ record' \in Seq(Chat!Entries) /\ page' \in Seq(Chat!Entries)
       /\ faults' \in 0 .. MaxFaults /\ Titled(chat, record', messages, faults')
       /\ faults' = 0 => Replays(record', page')
  BY <1>8, ChatTypes DEF ChatInv, ShownWell
<1>13. Chat!TypeOK'
  BY <1>1, <1>3, <1>12, Zenon DEF ChatInv, Chat!TypeOK, ChatTurns
<1> QED
  BY <1>1, <1>4, <1>10, <1>11, <1>12, <1>13 DEF ChatInv

LEMMA TurnStartsKeepsChat ==
  ASSUME ChatInv, RecordsAssumption, Chat!TurnStarts
  PROVE  ChatInv'
<1> DEFINE m == line[1]
<1>1. /\ turn.of = 0 /\ line # <<>>
      /\ line' = SubSeq(line, 1, 1 - 1) \o SubSeq(line, 1 + 1, Len(line))
      /\ \E hide \in BOOLEAN :
           turn' = [of |-> m, hide |-> hide, shown |-> 0, text |-> 0, saved |-> {}]
      /\ \/ agent' = agent
         \/ agent' = [on |-> TRUE, told |-> Chat!Prior, at |-> Len(record)]
      /\ UNCHANGED <<chat, record, messages, page, staged, sent, faults>>
  BY DEF Chat!TurnStarts, Chat!NextInLine, Chat!RemoveAt, Chat!NoTurn
<1>2. /\ MaxMessages \in Nat /\ MaxShown \in Nat /\ Resume \in Nat
      /\ messages \in 0 .. MaxMessages /\ turn \in ChatTurns
      /\ record \in Seq(Chat!Entries) /\ Len(record) \in Nat
      /\ \A i \in 1 .. Len(record) : record[i] \in Chat!Entries
      /\ page \in Seq(Chat!Entries) /\ Len(page) \in Nat
      /\ \A i \in 1 .. Len(page) : page[i] \in Chat!Entries
      /\ line \in Seq(1 .. MaxMessages) /\ Len(line) \in Nat
      /\ \A i \in 1 .. Len(line) : line[i] \in 1 .. MaxMessages
  BY ChatTypes
<1>3. Len(line) > 0
  BY <1>1, <1>2, EmptySeq
<1>4. /\ line' \in Seq(1 .. MaxMessages) /\ Len(line') = Len(line) - 1
      /\ \A i \in 1 .. Len(line') : i + 1 \in 1 .. Len(line) /\ line'[i] = line[i + 1]
  <2> DEFINE none == SubSeq(line, 1, 0)
             rest == SubSeq(line, 2, Len(line))
  <2>1. /\ none \in Seq(1 .. MaxMessages) /\ Len(none) = 0
    <3>1. \A i \in 1 .. 0 : line[i] \in 1 .. MaxMessages
      BY <1>3
    <3> QED
      BY <3>1, SubSeqProperties
  <2>2. /\ rest \in Seq(1 .. MaxMessages) /\ Len(rest) = Len(line) - 1
        /\ \A i \in 1 .. Len(line) - 1 : rest[i] = line[i + 1]
    <3>1. \A i \in 2 .. Len(line) : line[i] \in 1 .. MaxMessages
      BY <1>2
    <3>2. /\ rest \in Seq(1 .. MaxMessages)
          /\ Len(rest) = IF 2 <= Len(line) THEN Len(line) - 2 + 1 ELSE 0
          /\ \A i \in 1 .. Len(line) - 2 + 1 : rest[i] = line[2 + i - 1]
      BY SMTT(30), <1>2, <3>1, SubSeqProperties
    <3> HIDE DEF rest
    <3>3. /\ Len(line) - 2 + 1 = Len(line) - 1
          /\ (IF 2 <= Len(line) THEN Len(line) - 2 + 1 ELSE 0) = Len(line) - 1
      <4>1. \A n \in Nat : n > 0 => n - 2 + 1 = n - 1 /\ (IF 2 <= n THEN n - 2 + 1 ELSE 0) = n - 1
        OBVIOUS
      <4>2. Len(line) \in Nat /\ Len(line) > 0
        BY <1>2, <1>3
      <4> QED
        BY <4>1, <4>2, Zenon
    <3>4. \A i \in 1 .. Len(line) - 1 : 2 + i - 1 = i + 1
      OBVIOUS
    <3>5. \A i \in 1 .. Len(line) - 1 : rest[i] = line[i + 1]
      <4>1. \A i \in 1 .. Len(line) - 1 : rest[i] = line[2 + i - 1]
        BY <3>2, <3>3, Zenon
      <4> QED
        BY <3>4, <4>1, Zenon
    <3>6. Len(rest) = Len(line) - 1
      BY <3>2, <3>3, Zenon
    <3> QED
      BY <3>2, <3>5, <3>6
  <2>3. line' = none \o rest
    BY <1>1
  <2> HIDE DEF none, rest
  <2>4. /\ line' \in Seq(1 .. MaxMessages) /\ Len(line') = Len(none) + Len(rest)
        /\ \A i \in 1 .. Len(none) + Len(rest) :
             line'[i] = IF i <= Len(none) THEN none[i] ELSE rest[i - Len(none)]
    BY <2>1, <2>2, <2>3, ConcatProperties
  <2>5. Len(line') = Len(line) - 1
    BY <1>2, <2>1, <2>2, <2>4
  <2>6. ASSUME NEW i \in 1 .. Len(line')
        PROVE  i + 1 \in 1 .. Len(line) /\ line'[i] = line[i + 1]
    <3>1. /\ i \in 1 .. Len(none) + Len(rest) /\ i \in 1 .. Len(line) - 1
          /\ ~(i <= Len(none)) /\ i - Len(none) = i /\ i + 1 \in 1 .. Len(line)
      BY <1>2, <2>1, <2>2, <2>4, <2>5
    <3> QED
      BY <2>2, <2>4, <3>1
  <2> QED
    BY <2>4, <2>5, <2>6
<1>5. m \in 1 .. MaxMessages /\ m <= messages
  BY <1>2, <1>3 DEF ChatInv, Lined
<1>6. turn' \in ChatTurns /\ turn'.of = m /\ turn'.shown = 0 /\ turn'.text = 0 /\ turn'.saved = {}
  BY <1>1, <1>2, <1>5 DEF ChatTurns
<1> HIDE DEF m
<1>7. \A i \in 1 .. Len(line') : m < line'[i]
  <2>1. 1 \in 1 .. Len(line) /\ \A i \in 1 .. Len(line') : 1 < i + 1
    BY <1>3, <1>4
  <2> QED
    BY <1>4, <2>1 DEF ChatInv, Lined, m
<1>8. Lined(messages, line', turn')
  <2>1. ASSUME NEW i \in 1 .. Len(line')
        PROVE  /\ line'[i] <= messages
               /\ \A j \in 1 .. Len(line') : i < j => line'[i] < line'[j]
    <3>1. \A j \in 1 .. Len(line') : i < j => i + 1 < j + 1
      BY <1>4
    <3> QED
      BY <1>4, <3>1 DEF ChatInv, Lined
  <2> QED
    BY <1>5, <1>6, <1>7, <2>1 DEF Lined
<1>9. ASSUME NEW k \in Nat, Past(k, messages, line, turn)
      PROVE  Past(k, messages, line', turn') /\ k # turn'.of
  <2>1. k < m
    BY <1>3, <1>9 DEF Past, m
  <2>2. \A i \in 1 .. Len(line') : k < line'[i]
    BY <1>4, <1>9 DEF Past
  <2> QED
    BY <1>5, <1>6, <1>9, <2>1, <2>2 DEF Past
<1>10. Paged(page, turn', messages, line')
  <2>1. \A k \in 1 .. Len(page) : page[k].of \in Nat
    BY <1>2 DEF Chat!Entries
  <2>2. \A k \in 1 .. Len(page) :
          Chat!Answer(page[k]) /\ Past(page[k].of, messages, line', turn') /\ page[k].of # turn'.of
    BY <1>9, <2>1 DEF ChatInv, Paged
  <2>3. turn'.text <= turn'.shown
    BY <1>6
  <2>4. Chat!Artifacts # {} => \A a \in Chat!Artifacts : a \notin turn'.saved
    BY <1>6
  <2> QED
    BY <2>2, <2>3, <2>4, Zenon DEF Paged
<1>11. Recorded(record, turn', messages, line')
  <2>1. \A i \in 1 .. Len(record) : record[i].of \in Nat
    BY <1>2 DEF Chat!Entries
  <2> QED
    BY <1>9, <2>1 DEF ChatInv, Recorded
<1>12. Chat!Prior \in Seq(Chat!Entries)
  <2> DEFINE last == IF Resume < Len(record) THEN Resume ELSE Len(record)
  <2>1. last \in Nat /\ last <= Len(record)
    BY <1>2
  <2>2. Chat!Prior = SubSeq(record, 1, last)
    BY DEF Chat!Prior
  <2> HIDE DEF last
  <2>3. last \in Int /\ \A i \in 1 .. last : record[i] \in Chat!Entries
    BY <1>2, <2>1
  <2> QED
    BY <2>2, <2>3, SubSeqProperties
<1>13. agent'.told \in Seq(Chat!Entries)
  <2>1. agent.told \in Seq(Chat!Entries)
    BY DEF ChatInv, Chat!TypeOK
  <2>2. agent'.told = agent.told \/ agent'.told = Chat!Prior
    BY <1>1
  <2> QED
    BY <1>12, <2>1, <2>2
<1>14. Chat!TypeOK'
  BY <1>1, <1>4, <1>6, <1>13, Zenon DEF ChatInv, Chat!TypeOK, ChatTurns
<1> QED
  BY <1>1, <1>8, <1>10, <1>11, <1>14 DEF ChatInv

\* A question, or a completion, is no answer: the record still replays the page.
LEMMA OtherSaved ==
  ASSUME ChatInv, RecordsAssumption, NEW e \in Chat!Entries, ~Chat!Answer(e),
         record' = Append(record, e)
  PROVE  /\ record' \in Seq(Chat!Entries) /\ Len(record') = Len(record) + 1
         /\ record'[Len(record) + 1] = e /\ \A i \in 1 .. Len(record) : record'[i] = record[i]
         /\ \A i \in 1 .. Len(record') : i \in 1 .. Len(record) \/ i = Len(record) + 1
         /\ Recorded(record', turn, messages, line)
         /\ faults = 0 => Replays(record', page)
<1>1. /\ record \in Seq(Chat!Entries) /\ Len(record) \in Nat /\ page \in Seq(Chat!Entries)
  BY ChatTypes
<1>2. /\ record' \in Seq(Chat!Entries) /\ Len(record') = Len(record) + 1
      /\ record'[Len(record) + 1] = e /\ \A i \in 1 .. Len(record) : record'[i] = record[i]
      /\ \A i \in 1 .. Len(record') : i \in 1 .. Len(record) \/ i = Len(record) + 1
  BY <1>1, AppendProperties
<1>3. Recorded(record', turn, messages, line)
  BY <1>2 DEF ChatInv, Recorded
<1>4. \A k \in 1 .. Len(page) : page[k] # e
  BY DEF ChatInv, Paged
<1>5. faults = 0 => Replays(record', page)
  BY <1>1, <1>4, ReplaysGrow DEF ChatInv
<1> QED
  BY <1>2, <1>3, <1>5

\* A message accepted waits behind all others.
LEMMA AcceptKeepsLine ==
  ASSUME ChatInv, RecordsAssumption, Chat!Accept
  PROVE  /\ messages' = messages + 1 /\ messages' \in 1 .. MaxMessages /\ messages \in Nat
         /\ line' \in Seq(1 .. MaxMessages)
         /\ Lined(messages', line', turn) /\ Paged(page, turn, messages', line')
         /\ \A r : Recorded(r, turn, messages, line) /\ r \in Seq(Chat!Entries)
                     => Recorded(r, turn, messages', line')
         /\ Documents(sent, staged, messages')
<1>1. messages < MaxMessages /\ messages' = messages + 1 /\ line' = Append(line, messages + 1)
  BY DEF Chat!Accept
<1>2. /\ MaxMessages \in Nat /\ messages \in 0 .. MaxMessages /\ turn.of \in Nat
      /\ line \in Seq(1 .. MaxMessages) /\ Len(line) \in Nat
      /\ \A i \in 1 .. Len(line) : line[i] \in 1 .. MaxMessages
      /\ \A i \in 1 .. Len(page) : page[i] \in Chat!Entries
      /\ staged \in Nat /\ \A i \in 1 .. Len(sent) : sent[i] \in 1 .. MaxMessages
  BY ChatTypes DEF ChatTurns
<1> DEFINE n == messages + 1
<1>3. n \in 1 .. MaxMessages /\ messages \in Nat
  BY <1>1, <1>2
<1>4. /\ line' \in Seq(1 .. MaxMessages) /\ Len(line') = Len(line) + 1
      /\ line'[Len(line) + 1] = n /\ \A i \in 1 .. Len(line) : line'[i] = line[i]
      /\ \A i \in 1 .. Len(line') : i \in 1 .. Len(line) \/ i = Len(line) + 1
  BY <1>1, <1>2, <1>3, AppendProperties
<1>5. \A k \in Nat : k <= messages => k <= n /\ k < n
  BY <1>3
<1>6. ASSUME NEW k \in Nat, Past(k, messages, line, turn)
      PROVE  Past(k, n, line', turn)
  BY <1>4, <1>5, <1>6 DEF Past
<1> HIDE DEF n
<1>7. messages' = n
  BY <1>1 DEF n
<1>8. Lined(n, line', turn)
  <2>1. turn.of <= messages
    BY DEF ChatInv, Lined
  <2>2. turn.of <= n /\ turn.of < n
    BY <1>2, <1>5, <2>1
  <2>3. \A i \in 1 .. Len(line) : line[i] <= n /\ line[i] < n
    BY <1>2, <1>5 DEF ChatInv, Lined
  <2>4. n <= n /\ \A j \in 1 .. Len(line') : ~(Len(line) + 1 < j)
    BY <1>2, <1>3, <1>4
  <2>5. ASSUME NEW i \in 1 .. Len(line')
        PROVE  /\ line'[i] <= n /\ turn.of < line'[i]
               /\ \A j \in 1 .. Len(line') : i < j => line'[i] < line'[j]
    <3>1. CASE i \in 1 .. Len(line)
      <4>1. /\ line[i] <= n /\ line[i] < n /\ turn.of < line[i]
            /\ \A j \in 1 .. Len(line) : i < j => line[i] < line[j]
        BY <2>3, <3>1 DEF ChatInv, Lined
      <4> QED
        BY <1>4, <3>1, <4>1
    <3>2. CASE i = Len(line) + 1
      BY <1>4, <2>2, <2>4, <3>2
    <3> QED
      BY <1>4, <3>1, <3>2
  <2> QED
    BY <2>2, <2>5 DEF Lined
<1>9. Paged(page, turn, n, line')
  <2>1. \A k \in 1 .. Len(page) : page[k].of \in Nat
    BY SMTT(30), <1>2 DEF Chat!Entries
  <2>2. \A k \in 1 .. Len(page) : Past(page[k].of, n, line', turn)
    BY <1>6, <2>1 DEF ChatInv, Paged
  <2> QED
    BY <2>2 DEF ChatInv, Paged
<1>10. ASSUME NEW r \in Seq(Chat!Entries), Recorded(r, turn, messages, line)
       PROVE  Recorded(r, turn, n, line')
  <2>1. \A i \in 1 .. Len(r) : r[i] \in Chat!Entries
    BY ElementOfSeq
  <2>2. \A i \in 1 .. Len(r) : r[i].of \in Nat
    BY SMTT(30), <1>2, <2>1 DEF Chat!Entries
  <2> QED
    BY <1>6, <1>10, <2>2 DEF Recorded
<1>11. Documents(sent, staged, n)
  BY <1>2, <1>5 DEF ChatInv, Documents
<1>12. /\ messages' = messages + 1 /\ messages' \in 1 .. MaxMessages /\ messages \in Nat
       /\ line' \in Seq(1 .. MaxMessages)
  BY <1>1, <1>3, <1>4, <1>7
<1>13. /\ Lined(messages', line', turn) /\ Paged(page, turn, messages', line')
       /\ Documents(sent, staged, messages')
  BY <1>7, <1>8, <1>9, <1>11
<1>14. \A r : Recorded(r, turn, messages, line) /\ r \in Seq(Chat!Entries)
                => Recorded(r, turn, messages', line')
  BY <1>7, <1>10
<1> QED
  BY <1>12, <1>13, <1>14

LEMMA SendKeepsChat ==
  ASSUME ChatInv, RecordsAssumption, Chat!SendMessage
  PROVE  ChatInv'
<1> DEFINE n == messages + 1
           e == [of |-> n, kind |-> "question", nth |-> 0]
<1>1. /\ Chat!Accept /\ UNCHANGED <<turn, page, agent, staged, sent>>
      /\ \/ /\ record' = Append(record, e)
            /\ \/ /\ chat' = IF chat.title = 0 THEN [chat EXCEPT !.title = n] ELSE chat
                  /\ faults' = faults
               \/ faults < MaxFaults /\ faults' = faults + 1 /\ chat' = chat
         \/ faults < MaxFaults /\ faults' = faults + 1 /\ chat' = chat /\ record' = record
  BY DEF Chat!SendMessage, Chat!TitleFrom, Chat!Fault, Chat!Entry
<1>2. /\ messages' = n /\ n \in 1 .. MaxMessages /\ messages \in Nat
      /\ line' \in Seq(1 .. MaxMessages)
      /\ Lined(n, line', turn) /\ Paged(page, turn, n, line')
      /\ \A r : Recorded(r, turn, messages, line) /\ r \in Seq(Chat!Entries)
                  => Recorded(r, turn, n, line')
      /\ Documents(sent, staged, n)
  BY <1>1, AcceptKeepsLine
<1>3. /\ MaxMessages \in Nat /\ MaxFaults \in Nat /\ MaxShown \in Nat /\ faults \in 0 .. MaxFaults
      /\ chat \in [active : BOOLEAN, title : 0 .. Chat!Chosen, renamed : BOOLEAN]
      /\ record \in Seq(Chat!Entries) /\ Len(record) \in Nat
      /\ Recorded(record, turn, messages, line) /\ Titled(chat, record, messages, faults)
      /\ faults = 0 => Replays(record, page)
  BY ChatTypes DEF ChatInv
<1>4. messages < n
  BY <1>2
<1> HIDE DEF n
<1>5. e \in Chat!Entries /\ e.of = n /\ e.kind = "question" /\ ~Chat!Answer(e)
  BY <1>2, <1>3 DEF Chat!Entries, Chat!Answer
<1> HIDE DEF e
<1>6. /\ faults' \in 0 .. MaxFaults /\ (faults' = 0 => faults = 0 /\ record' = Append(record, e))
      /\ (faults' = 0 => chat' = IF chat.title = 0 THEN [chat EXCEPT !.title = n] ELSE chat)
  BY <1>1, <1>3
<1>7. /\ record' \in Seq(Chat!Entries) /\ Recorded(record', turn, n, line')
      /\ faults' = 0 => Replays(record', page)
      /\ faults' = 0 =>
           \A i \in 1 .. Len(record') :
             record'[i] = e \/ \E j \in 1 .. Len(record) : record'[i] = record[j]
  <2>1. CASE record' = record
    BY <1>1, <1>2, <1>3, <1>6, <2>1
  <2>2. CASE record' = Append(record, e)
    BY <1>2, <1>5, <1>6, <2>2, OtherSaved
  <2> QED
    BY <1>1, <2>1, <2>2
<1>8. Chat!Chosen = MaxMessages + 1
  BY DEF Chat!Chosen
<1>9. chat' \in [active : BOOLEAN, title : 0 .. Chat!Chosen, renamed : BOOLEAN]
  <2>1. n \in 0 .. Chat!Chosen
    BY <1>2, <1>3, <1>8
  <2> QED
    BY <1>1, <1>3, <2>1
<1>10. /\ chat'.renamed = chat.renamed
       /\ chat'.title = chat.title \/ (chat.title = 0 /\ chat'.title = n)
       /\ faults' = 0 => chat'.title = IF chat.title = 0 THEN n ELSE chat.title
  BY <1>1, <1>3, <1>6
<1>11. Titled(chat', record', n, faults')
  <2>1. chat.title \in Nat /\ (chat.renamed => chat.title # 0)
    BY <1>3, <1>8 DEF Titled
  <2>2. chat'.renamed => chat'.title = Chat!Chosen
    BY <1>3, <1>10, <2>1 DEF Titled
  <2>3. chat'.title \in 1 .. MaxMessages => chat'.title <= n
    BY <1>2, <1>3, <1>4, <1>10, <2>1 DEF Titled
  <2>4. ASSUME faults' = 0, NEW i \in 1 .. Len(record'), record'[i].kind = "question"
        PROVE  chat'.title # 0 /\ (chat'.title \in 1 .. MaxMessages => chat'.title <= record'[i].of)
    <3>1. chat'.title # 0
      BY <1>2, <1>10, <2>4
    <3>2. CASE record'[i] = e
      BY <1>5, <2>3, <3>1, <3>2
    <3>3. CASE \E j \in 1 .. Len(record) : record'[i] = record[j]
      <4>1. chat.title # 0 /\ (chat.title \in 1 .. MaxMessages => chat.title <= record'[i].of)
        BY <1>3, <1>6, <2>4, <3>3 DEF Titled
      <4> QED
        BY <1>10, <2>4, <3>1, <4>1
    <3> QED
      BY <1>7, <2>4, <3>2, <3>3
  <2> QED
    BY <2>2, <2>3, <2>4 DEF Titled
<1>12. Chat!TypeOK'
  <2>1. messages' \in 0 .. MaxMessages /\ page' = page /\ turn' = turn /\ agent' = agent
    BY <1>1, <1>2
  <2> QED
    BY <1>1, <1>2, <1>6, <1>7, <1>9, <2>1, Zenon DEF ChatInv, Chat!TypeOK
<1> QED
  BY <1>1, <1>2, <1>7, <1>11, <1>12 DEF ChatInv

LEMMA DocumentKeepsChat ==
  ASSUME ChatInv, RecordsAssumption, Chat!UploadDocument
  PROVE  ChatInv'
<1>1. /\ Chat!Accept /\ staged' = messages + 1
      /\ UNCHANGED <<chat, record, turn, page, agent, sent, faults>>
  BY DEF Chat!UploadDocument
<1>2. /\ messages' = messages + 1 /\ messages' \in 1 .. MaxMessages /\ messages \in Nat
      /\ line' \in Seq(1 .. MaxMessages)
      /\ Lined(messages', line', turn) /\ Paged(page, turn, messages', line')
      /\ \A r : Recorded(r, turn, messages, line) /\ r \in Seq(Chat!Entries)
                  => Recorded(r, turn, messages', line')
  BY <1>1, AcceptKeepsLine
<1>3. /\ record \in Seq(Chat!Entries) /\ MaxMessages \in Nat
      /\ \A i \in 1 .. Len(sent) : sent[i] \in 1 .. MaxMessages
      /\ chat.title \in Nat
  BY ChatTypes DEF Chat!Chosen
<1>4. Recorded(record, turn, messages', line')
  BY <1>2, <1>3 DEF ChatInv
<1>5. Titled(chat, record, messages', faults)
  BY <1>2, <1>3 DEF ChatInv, Titled
<1>6. Documents(sent, staged', messages')
  <2>1. \A i \in 1 .. Len(sent) : sent[i] <= messages
    BY DEF ChatInv, Documents
  <2>2. \A i \in 1 .. Len(sent) : sent[i] <= messages' /\ sent[i] # staged'
    BY <1>1, <1>2, <1>3, <2>1
  <2>3. staged' <= messages'
    BY <1>1, <1>2
  <2> QED
    BY <2>2, <2>3 DEF ChatInv, Documents
<1>7. Chat!TypeOK'
  <2>1. messages' \in 0 .. MaxMessages /\ staged' \in 0 .. MaxMessages
    BY <1>1, <1>2, <1>3
  <2> QED
    BY <1>1, <1>2, <2>1 DEF ChatInv, Chat!TypeOK
<1> QED
  BY <1>1, <1>2, <1>4, <1>5, <1>6, <1>7 DEF ChatInv

LEMMA ArtifactKeepsChat ==
  ASSUME ChatInv, RecordsAssumption, Chat!SaveArtifact
  PROVE  ChatInv'
<1> DEFINE e == [of |-> 0, kind |-> "completion", nth |-> 0]
<1>1. /\ record' = Append(record, e)
      /\ UNCHANGED <<chat, messages, line, turn, page, agent, staged, sent, faults>>
  BY DEF Chat!SaveArtifact, Chat!Entry
<1>2. /\ e \in Chat!Entries /\ ~Chat!Answer(e) /\ e.kind # "question"
  BY DEF RecordsAssumption, Chat!Entries, Chat!Answer
<1> HIDE DEF e
<1>3. /\ record' \in Seq(Chat!Entries) /\ Recorded(record', turn, messages, line)
      /\ faults = 0 => Replays(record', page)
      /\ \A i \in 1 .. Len(record') :
           record'[i] = e \/ \E j \in 1 .. Len(record) : record'[i] = record[j]
  BY <1>1, <1>2, OtherSaved
<1>4. Titled(chat, record', messages, faults)
  BY <1>2, <1>3 DEF ChatInv, Titled
<1>5. Chat!TypeOK'
  BY <1>1, <1>3 DEF ChatInv, Chat!TypeOK
<1> QED
  BY <1>1, <1>3, <1>4, <1>5 DEF ChatInv

\* The user names the conversation, or deletes it; its tasks are cancelled, or the
\* server is started anew.
LEMMA RestKeepsChat ==
  ASSUME ChatInv, RecordsAssumption,
         Chat!Rename \/ Chat!SoftDelete \/ Chat!CancelTasks \/ Chat!Restart
  PROVE  ChatInv'
<1>1. /\ MaxMessages \in Nat /\ MaxFaults \in Nat /\ faults \in 0 .. MaxFaults /\ MaxShown \in Nat
      /\ chat \in [active : BOOLEAN, title : 0 .. Chat!Chosen, renamed : BOOLEAN]
      /\ messages \in 0 .. MaxMessages /\ staged \in 0 .. MaxMessages
      /\ \A i \in 1 .. Len(sent) : sent[i] \in 1 .. MaxMessages
      /\ Chat!Chosen = MaxMessages + 1
  BY ChatTypes DEF Chat!Chosen
<1>2. CASE Chat!Rename \/ Chat!SoftDelete
  <2>1. /\ UNCHANGED <<record, messages, line, turn, page, agent, staged, sent, faults>>
        /\ \/ chat' = [chat EXCEPT !.title = Chat!Chosen, !.renamed = TRUE]
           \/ chat' = [chat EXCEPT !.active = FALSE]
    BY <1>2 DEF Chat!Rename, Chat!SoftDelete
  <2> DEFINE own == Chat!Chosen
  <2>0. own \in 0 .. own /\ own # 0 /\ own \notin 1 .. MaxMessages
    BY <1>1
  <2> HIDE DEF own
  <2>2. /\ chat' \in [active : BOOLEAN, title : 0 .. Chat!Chosen, renamed : BOOLEAN]
        /\ \/ chat'.title = Chat!Chosen /\ chat'.title # 0 /\ chat'.title \notin 1 .. MaxMessages
           \/ chat'.title = chat.title /\ chat'.renamed = chat.renamed
    <3>1. /\ chat \in [active : BOOLEAN, title : 0 .. own, renamed : BOOLEAN]
          /\ \/ chat' = [chat EXCEPT !.title = own, !.renamed = TRUE]
             \/ chat' = [chat EXCEPT !.active = FALSE]
      BY <1>1, <2>1 DEF own
    <3>2. /\ chat' \in [active : BOOLEAN, title : 0 .. own, renamed : BOOLEAN]
          /\ \/ chat'.title = own
             \/ chat'.title = chat.title /\ chat'.renamed = chat.renamed
      BY <2>0, <3>1
    <3> QED
      BY <2>0, <3>2 DEF own
  <2>3. Titled(chat', record, messages, faults)
    BY <2>2 DEF ChatInv, Titled
  <2>4. Chat!TypeOK'
    BY <2>1, <2>2 DEF ChatInv, Chat!TypeOK
  <2> QED
    BY <2>1, <2>3, <2>4 DEF ChatInv
<1>3. CASE Chat!CancelTasks \/ Chat!Restart
  <2>1. /\ UNCHANGED <<chat, record, messages, page, sent>> /\ line' = <<>>
        /\ turn' = [of |-> 0, hide |-> FALSE, shown |-> 0, text |-> 0, saved |-> {}]
        /\ agent'.told = <<>>
        /\ \/ staged' = staged /\ faults' = faults
           \/ staged' = 0 /\ faults < MaxFaults /\ faults' = faults + 1
    BY <1>3 DEF Chat!CancelTasks, Chat!Restart, Chat!NoTurn, Chat!NoAgent, Chat!Fault
  <2>2. /\ turn' \in ChatTurns /\ turn'.of = 0 /\ turn'.text = 0 /\ turn'.shown = 0
        /\ Len(line') = 0 /\ 1 .. 0 = {}
        /\ staged' \in 0 .. MaxMessages /\ faults' \in 0 .. MaxFaults
        /\ faults' = 0 => faults = 0
    BY <1>1, <2>1 DEF ChatTurns
  <2>3. \A m : Past(m, messages, line, turn) => Past(m, messages, line', turn')
    BY <2>2 DEF Past
  <2>4. Lined(messages, line', turn')
    BY <1>1, <2>2 DEF Lined
  <2>5. Paged(page, turn', messages, line')
    BY <2>2, <2>3 DEF ChatInv, Paged
  <2>6. Recorded(record, turn', messages, line')
    BY <2>3 DEF ChatInv, Recorded
  <2>7. Titled(chat, record, messages, faults')
    BY <2>2 DEF ChatInv, Titled
  <2>8. Documents(sent, staged', messages)
    BY SMTT(30), <1>1, <2>1 DEF ChatInv, Documents
  <2>9. Chat!TypeOK'
    <3>1. line' \in Seq(1 .. MaxMessages) /\ agent'.told \in Seq(Chat!Entries)
      BY <2>1, EmptySeq
    <3> QED
      BY <2>1, <2>2, <3>1, Zenon DEF ChatInv, Chat!TypeOK, ChatTurns
  <2> QED
    BY <2>1, <2>2, <2>4, <2>5, <2>6, <2>7, <2>8, <2>9 DEF ChatInv
<1> QED
  BY <1>2, <1>3

LEMMA ChatStep ==
  ChatInv /\ RecordsAssumption /\ (Chat!Next \/ UNCHANGED chatVars) => ChatInv'
<1> SUFFICES ASSUME ChatInv, RecordsAssumption, Chat!Next \/ UNCHANGED chatVars PROVE ChatInv'
  OBVIOUS
<1>1. CASE UNCHANGED chatVars
  BY <1>1 DEF chatVars, ChatInv, Chat!TypeOK
<1>2. CASE Chat!Next
  BY <1>2, SendKeepsChat, DocumentKeepsChat, ArtifactKeepsChat, TurnStartsKeepsChat,
     PreviewKeepsChat, SayKeepsChat, UploadKeepsChat, TurnEndsKeepsChat, RestKeepsChat
     DEF Chat!Next
<1> QED
  BY <1>1, <1>2

LEMMA ChatKeeps ==
  ASSUME ChatInv, RecordsAssumption
  PROVE  /\ Chat!ReplayIsThePage /\ Chat!AnswersInOrder
         /\ Chat!TitleStays /\ Chat!DocumentSentOnce
<1>1. DOMAIN record = 1 .. Len(record) /\ DOMAIN page = 1 .. Len(page) /\ DOMAIN sent = 1 .. Len(sent)
  BY ChatTypes
<1>2. Chat!ReplayIsThePage
  <2>1. \A k \in 1 .. Len(page) : Chat!Repeated(k) <=> Again(page, k)
    BY DEF Chat!Repeated, Again
  <2>2. {page[k] : k \in {n \in DOMAIN page : ~Chat!Repeated(n)}} = Owed(page)
    BY <1>1, <2>1 DEF Owed
  <2>3. {record[i] : i \in {n \in DOMAIN record : Chat!Answer(record[n])}} = Answers(record)
    BY <1>1 DEF Answers
  <2> QED
    BY <1>1, <2>2, <2>3 DEF ChatInv, Replays, SameOrder, Chat!ReplayIsThePage
<1>3. Chat!AnswersInOrder
  BY <1>1 DEF ChatInv, Recorded, Chat!AnswersInOrder
<1>4. Chat!TitleStays
  BY <1>1 DEF ChatInv, Titled, Chat!TitleStays
<1>5. Chat!DocumentSentOnce
  BY <1>1 DEF ChatInv, Documents, Chat!DocumentSentOnce, Chat!IsInjective
<1> QED
  BY <1>2, <1>3, <1>4, <1>5

\* Every conversation: its record replays what the page was shown, in the order of the
\* messages, its title stays the user's and no document is sent twice, for any number of
\* messages, artifacts, failed saves and restarts.
THEOREM ConversationsKeepTheirPromise == RecordsSpec => []ChatPromise
<1>1. RecordsInit => ChatInv
  BY InitChat, RecordsAssumption DEF RecordsInit
<1>2. ChatInv /\ [RecordsNext]_allVars => ChatInv'
  <2> SUFFICES ASSUME ChatInv, [RecordsNext]_allVars PROVE ChatInv'
    OBVIOUS
  <2>1. Chat!Next \/ UNCHANGED chatVars
    BY DEF RecordsNext, Rest, allVars
  <2> QED
    BY <2>1, ChatStep, RecordsAssumption
<1>3. ChatInv => ChatPromise
  BY ChatKeeps, RecordsAssumption DEF ChatPromise, ChatInv
<1> QED
  BY <1>1, <1>2, <1>3, PTL DEF RecordsSpec
=============================================================================
