------------------------- MODULE UpsTransportProofs -------------------------
(* What a mutating call of UPSMCPClient can rely on, for any number of     *)
(* concurrent calls, sessions, process deaths and failed recoveries.       *)
EXTENDS UpsTransport, TLAPS

\* UPS acts on at most one request of a mutating call: a call whose last
\* request is still open, or that has none, has had no effect, so another
\* request may be sent only after the first was answered with a tool error.
SentOnce(c) ==
  /\ effects[c] = IF reach[c] = "acted" THEN 1 ELSE 0
  /\ pc[c] \in {"idle", "backoff", "rejected"} => reach[c] = "no"
  /\ pc[c] = "ok" => reach[c] = "acted"
  /\ c \notin Unlucky /\ pc[c] = "refused" => reach[c] = "no"

CallInv == \A c \in Mutating : SentOnce(c)

LEMMA CallsAreOfOneKind ==
  ASSUME NEW c \in Mutating
  PROVE  c \in Calls /\ c \notin ReadOnly
BY TransportAssumption DEF TransportAssumption, Calls

\* A call in recovery has one recovery left: without this the type of
\* "round" is not inductive.
RoundsLeft(c) ==
  pc[c] \in {"waiting", "closing", "opening", "initializing"} => round[c] < 2

TypeInv == TypeOK /\ \A c \in Calls : RoundsLeft(c)

LEMMA InitTypeInv == Init => TypeInv
BY TransportAssumption
DEF TransportAssumption, Init, TypeInv, TypeOK, RoundsLeft, Points

LEMMA CallStepTypeInv ==
  ASSUME TypeInv, NEW c \in Calls, CallStep(c) \/ UpsActs(c)
  PROVE  TypeInv'
<1>0. MaxToolRetries \in Nat
  BY TransportAssumption DEF TransportAssumption
<1> USE <1>0 DEF TypeInv, TypeOK, RoundsLeft, Points, Outcomes, locals, connVars
<1>1. CASE Begin(c) \/ Resend(c)
  BY <1>1 DEF Begin, Resend, Send, Goto
<1>2. CASE NotConnected(c) \/ Answer(c)
  BY <1>2 DEF NotConnected, Answer, Return
<1>3. CASE Reject(c) \/ RetryGateway(c)
  BY <1>3 DEF Reject, RetryGateway, ToolError, Return, Goto
<1>4. CASE RetryTool(c)
  BY <1>4 DEF RetryTool, ToolError, Goto
<1>5. ASSUME NEW transport \in BOOLEAN, Fail(c, transport) PROVE TypeInv'
  BY <1>5 DEF Fail, Return
<1>6. CASE Break(c) \/ Garbled(c)
  BY <1>5, <1>6 DEF Break, Garbled
<1>7. CASE ResendFails(c)
  <2>1. CASE Return(c, "refused") /\ UNCHANGED <<connVars, reach, effects>>
    BY <2>1 DEF Return
  <2> QED
    BY <1>5, <1>7, <2>1 DEF ResendFails
<1>8. CASE Coalesce(c)
  BY <1>8 DEF Coalesce, Recovered, Send, Goto, Return
<1>9. CASE StartRecovery(c)
  BY <1>9 DEF StartRecovery, Goto
<1>10. CASE CloseSession(c)
  <2>1. alive' \in BOOLEAN
    BY <1>10, Zenon DEF CloseSession
  <2> QED
    BY <1>10, <2>1 DEF CloseSession, Goto
<1>11. CASE OpenSession(c)
  BY <1>11 DEF OpenSession, Goto
<1>12. CASE FinishRecovery(c)
  BY <1>12 DEF FinishRecovery, Recovered, Send, Goto, Return
<1>13. CASE RecoveryFails(c)
  <2>1. alive' \in BOOLEAN
    BY <1>13, Zenon DEF RecoveryFails
  <2> QED
    BY <1>13, <2>1 DEF RecoveryFails, Return
<1>14. CASE UpsActs(c)
  BY <1>14 DEF UpsActs
<1> QED
  BY <1>1, <1>2, <1>3, <1>4, <1>6, <1>7, <1>8, <1>9, <1>10, <1>11, <1>12,
     <1>13, <1>14
  DEF CallStep

LEMMA NextTypeInv == TypeInv /\ [Next]_vars => TypeInv'
<1> SUFFICES ASSUME TypeInv, [Next]_vars PROVE TypeInv'
  OBVIOUS
<1> USE DEF TypeInv, TypeOK, RoundsLeft
<1>1. CASE UNCHANGED vars
  BY <1>1 DEF vars, connVars, callVars, locals
<1>2. CASE ProcessDies
  <2>1. alive' \in BOOLEAN
    BY <1>2, Zenon DEF ProcessDies
  <2> QED
    BY <1>2, <2>1, TransportAssumption
    DEF TransportAssumption, ProcessDies, callVars, locals
<1>3. CASE Connect
  BY <1>3 DEF Connect, callVars, locals
<1>4. CASE Disconnect
  <2>1. alive' \in BOOLEAN
    BY <1>4, Zenon DEF Disconnect
  <2> QED
    BY <1>4, <2>1 DEF Disconnect, callVars, locals
<1> QED
  BY <1>1, <1>2, <1>3, <1>4, CallStepTypeInv DEF Next

LEMMA TypeInvHolds == Spec => []TypeInv
BY InitTypeInv, NextTypeInv, PTL DEF Spec

\* Every variable keeps its type, for any calls and bounds.
THEOREM TransportTypeCorrect == Spec => []TypeOK
<1>1. TypeInv => TypeOK
  BY DEF TypeInv
<1> QED
  BY <1>1, TypeInvHolds, PTL

-----------------------------------------------------------------------------

LEMMA InitCallInv == Init => CallInv
BY CallsAreOfOneKind DEF Init, CallInv, SentOnce

LEMMA CallStepCallInv ==
  ASSUME TypeOK, CallInv, NEW c \in Calls, CallStep(c) \/ UpsActs(c)
  PROVE  CallInv'
<1> SUFFICES ASSUME NEW m \in Mutating PROVE SentOnce(m)'
  BY DEF CallInv
<1>0. SentOnce(m) /\ m \in Calls /\ m \notin ReadOnly
  BY CallsAreOfOneKind DEF CallInv
<1> USE <1>0 DEF TypeOK, SentOnce, locals, connVars
<1>1. CASE Begin(c) \/ Resend(c)
  BY <1>1 DEF Begin, Resend, Send, Goto
<1>2. CASE NotConnected(c) \/ Answer(c)
  BY <1>2 DEF NotConnected, Answer, Return
<1>3. CASE Reject(c) \/ RetryGateway(c) \/ RetryTool(c)
  BY <1>3 DEF Reject, RetryGateway, RetryTool, ToolError, Return, Goto
<1>4. ASSUME NEW transport \in BOOLEAN, Fail(c, transport) PROVE SentOnce(m)'
  BY <1>4 DEF Fail, Return
<1>5. CASE Break(c) \/ Garbled(c)
  BY <1>4, <1>5 DEF Break, Garbled
<1>6. CASE ResendFails(c)
  <2>1. CASE Return(c, "refused") /\ UNCHANGED <<connVars, reach, effects>>
    BY <1>6, <2>1 DEF Return, ResendFails
  <2> QED
    BY <1>4, <1>6, <2>1 DEF ResendFails
<1>7. CASE Coalesce(c) \/ FinishRecovery(c)
  BY <1>7 DEF Coalesce, FinishRecovery, Recovered, Send, Goto, Return
<1>8. CASE StartRecovery(c) \/ CloseSession(c) \/ OpenSession(c)
  BY <1>8 DEF StartRecovery, CloseSession, OpenSession, Goto
<1>9. CASE RecoveryFails(c)
  BY <1>9 DEF RecoveryFails, Return
<1>10. CASE UpsActs(c)
  BY <1>10 DEF UpsActs
<1> QED
  BY <1>1, <1>2, <1>3, <1>5, <1>6, <1>7, <1>8, <1>9, <1>10 DEF CallStep

LEMMA NextCallInv == TypeOK /\ CallInv /\ [Next]_vars => CallInv'
<1> SUFFICES ASSUME TypeOK, CallInv, [Next]_vars PROVE CallInv'
  OBVIOUS
<1>1. CASE UNCHANGED callVars
  BY <1>1 DEF CallInv, SentOnce, callVars
<1>2. ProcessDies \/ Connect \/ Disconnect \/ UNCHANGED vars => UNCHANGED callVars
  BY DEF ProcessDies, Connect, Disconnect, vars
<1> QED
  BY <1>1, <1>2, CallStepCallInv DEF Next

LEMMA CallInvHolds == Spec => []CallInv
BY InitCallInv, NextCallInv, TransportTypeCorrect, PTL DEF Spec

\* No retry, replay or recovery makes UPS act twice for a mutating call.
THEOREM ActsOnce == Spec => []MutatingActsOnce
<1>1. CallInv => MutatingActsOnce
  BY DEF CallInv, SentOnce, MutatingActsOnce
<1> QED
  BY <1>1, CallInvHolds, PTL

-----------------------------------------------------------------------------
(* The contract.                                                           *)

\* Where a call gets to tells its own caller at most.
LEMMA OneCaller ==
  ASSUME TypeOK, NEW c \in Calls, NEW p \in Points,
         pc' = [pc EXCEPT ![c] = p], effects' = effects
  PROVE  /\ Effected' = Effected
         /\ c \notin Dependable => Answered' = Answered
         /\ c \in Dependable => Answered' = [Answered EXCEPT ![c] = Told(p)]
BY DEF TypeOK, Answered, Effected, Dependable, Calls

\* A step that leaves what its caller is told as it is.
LEMMA SilentStep ==
  ASSUME TypeOK, NEW c \in Calls, NEW p \in Points,
         pc' = [pc EXCEPT ![c] = p], effects' = effects,
         c \in Dependable => Told(p) = Told(pc[c])
  PROVE  UNCHANGED Contract!vars
<1>1. CASE c \in Dependable
  <2>1. \A d \in Dependable : Told(pc'[d]) = Told(pc[d])
    BY <1>1 DEF TypeOK, Dependable, Calls
  <2>2. Answered' = Answered
    BY <2>1 DEF Answered
  <2> QED
    BY <2>2, OneCaller DEF Contract!vars
<1> QED
  BY <1>1, OneCaller DEF Contract!vars

\* A step that tells its caller something.
LEMMA TellingStep ==
  ASSUME TypeOK, NEW c \in Dependable, NEW p \in Points,
         pc' = [pc EXCEPT ![c] = p], effects' = effects,
         NEW S, Told(pc[c]) \in S
  PROVE  Contract!Tell(c, S, Told(p))
BY OneCaller DEF Contract!Tell, Answered, Dependable, Calls

\* A call that ends with nobody knowing, whatever kind it is.
LEMMA UnknownStep ==
  ASSUME TypeOK, NEW c \in Calls,
         pc' = [pc EXCEPT ![c] = "unknown"], effects' = effects,
         pc[c] \notin Outcomes
  PROVE  [Contract!Next]_Contract!vars
<1>1. "unknown" \in Points /\ Told("unknown") = "unknown"
  BY DEF Points, Outcomes, Told
<1>2. CASE c \in Dependable
  <2>1. Told(pc[c]) \in {"none", "asked"}
    BY DEF Told, Outcomes
  <2>2. Contract!GiveUp(c)
    BY <1>1, <1>2, <2>1, TellingStep DEF Contract!GiveUp
  <2> QED
    BY <1>2, <2>2 DEF Contract!Next
<1>3. CASE c \notin Dependable
  BY <1>1, <1>3, SilentStep
<1> QED
  BY <1>2, <1>3

\* A mutating call's effects, as its point and its request tell them.
LEMMA EffectsOf ==
  ASSUME TypeOK, CallInv, NEW c \in Dependable
  PROVE  /\ c \in Calls /\ c \in Mutating /\ c \notin ReadOnly /\ c \notin Unlucky
         /\ SentOnce(c)
         /\ Effected[c] = effects[c] /\ Answered[c] = Told(pc[c])
BY CallsAreOfOneKind DEF Dependable, CallInv, Effected, Answered

LEMMA CallStepKeepsContract ==
  ASSUME TypeOK, CallInv, NEW c \in Calls, CallStep(c) \/ UpsActs(c)
  PROVE  [Contract!Next]_Contract!vars
<1> DEFINE Moves(p) == pc' = [pc EXCEPT ![c] = p] /\ effects' = effects
<1>1. ASSUME NEW p \in {"sent", "backoff", "waiting", "closing", "opening",
                        "initializing"},
             Moves(p), pc[c] \in Points \ (Outcomes \cup {"idle"})
      PROVE  [Contract!Next]_Contract!vars
  BY <1>1, SilentStep DEF Told, Points, Outcomes
<1>2. CASE Begin(c)
  <2>1. Moves("sent") /\ pc[c] = "idle" /\ "sent" \in Points
    BY <1>2 DEF Begin, Send, Goto, Points
  <2>2. CASE c \in Dependable
    <3>1. Contract!Tell(c, {"none"}, "asked")
      BY <2>1, <2>2, TellingStep DEF Told
    <3> QED
      BY <2>2, <3>1 DEF Contract!Next, Contract!Ask
  <2> QED
    BY <2>1, <2>2, SilentStep
<1>3. CASE NotConnected(c)
  BY <1>3, UnknownStep DEF NotConnected, Return, Outcomes
<1>4. CASE Answer(c)
  <2>1. Moves("ok") /\ pc[c] = "sent" /\ "ok" \in Points
    BY <1>4 DEF Answer, Answerable, Return, Points, Outcomes
  <2>2. CASE c \in Dependable
    <3>1. Effected[c] = 1
      BY <1>4, <2>2, EffectsOf DEF Answer, SentOnce
    <3>2. Contract!Tell(c, {"asked"}, "ok")
      BY <2>1, <2>2, TellingStep DEF Told
    <3> QED
      BY <2>2, <3>1, <3>2 DEF Contract!Next, Contract!Succeed
  <2> QED
    BY <2>1, <2>2, SilentStep
<1>5. ASSUME NEW p \in {"rejected", "refused"}, Moves(p),
             pc[c] \in {"sent", "backoff"},
             c \in Dependable => Effected[c] = 0
      PROVE  [Contract!Next]_Contract!vars
  <2>1. p \in Points /\ Told(p) = "refused"
    BY <1>5 DEF Points, Outcomes, Told
  <2>2. CASE c \in Dependable
    <3>1. Contract!Tell(c, {"asked"}, "refused")
      BY <1>5, <2>1, <2>2, TellingStep DEF Told
    <3> QED
      BY <1>5, <2>2, <3>1 DEF Contract!Next, Contract!Refuse
  <2> QED
    BY <1>5, <2>1, <2>2, SilentStep
<1>6. CASE Reject(c)
  <2>1. Moves("rejected") /\ pc[c] = "sent" /\ reach[c] # "acted"
    BY <1>6 DEF Reject, ToolError, Answerable, Return
  <2> QED
    BY <1>5, <2>1, EffectsOf DEF SentOnce
<1>7. CASE RetryTool(c) \/ RetryGateway(c)
  BY <1>1, <1>7
  DEF RetryTool, RetryGateway, ToolError, Answerable, Goto, Points, Outcomes
<1>8. CASE Resend(c)
  BY <1>1, <1>8 DEF Resend, Send, Goto, Points, Outcomes
<1>9. ASSUME NEW transport \in BOOLEAN, Fail(c, transport),
             pc[c] \in {"sent", "backoff"}
      PROVE  [Contract!Next]_Contract!vars
  <2>1. CASE Moves("waiting")
    BY <1>1, <1>9, <2>1 DEF Points, Outcomes
  <2>2. CASE Moves("unknown")
    BY <1>9, <2>2, UnknownStep DEF Outcomes
  <2> QED
    BY <1>9, <2>1, <2>2 DEF Fail, Return
<1>10. CASE Break(c) \/ Garbled(c)
  BY <1>9, <1>10 DEF Break, Garbled, Answerable
<1>11. CASE ResendFails(c)
  <2>1. CASE Return(c, "refused") /\ UNCHANGED <<connVars, reach, effects>>
    BY <1>5, <1>11, <2>1, EffectsOf DEF ResendFails, Return, SentOnce
  <2> QED
    BY <1>9, <1>11, <2>1 DEF ResendFails
<1>12. ASSUME NEW from \in {"waiting", "initializing"}, Recovered(c, from),
              effects' = effects
       PROVE  [Contract!Next]_Contract!vars
  <2>1. CASE c \in ReadOnly
    BY <1>1, <1>12, <2>1 DEF Recovered, Send, Goto, Points, Outcomes
  <2>2. CASE c \notin ReadOnly
    BY <1>12, <2>2, UnknownStep DEF Recovered, Return, Outcomes
  <2> QED
    BY <2>1, <2>2
<1>13. CASE Coalesce(c) \/ FinishRecovery(c)
  BY <1>12, <1>13 DEF Coalesce, FinishRecovery
<1>14. CASE StartRecovery(c) \/ CloseSession(c) \/ OpenSession(c)
  BY <1>1, <1>14
  DEF StartRecovery, CloseSession, OpenSession, Goto, Points, Outcomes
<1>15. CASE RecoveryFails(c)
  <2>1. Moves("refused") /\ c \notin Dependable /\ "refused" \in Points
    BY <1>15 DEF RecoveryFails, Return, Dependable, Points, Outcomes
  <2> QED
    BY <2>1, SilentStep
<1>16. CASE UpsActs(c)
  <2>1. Answered' = Answered
    BY <1>16 DEF UpsActs, Answered
  <2>2. CASE c \in Dependable
    <3>1. pc[c] \in Points \ {"idle", "backoff", "ok", "rejected", "refused"}
      BY <1>16, <2>2, EffectsOf DEF UpsActs, SentOnce, TypeOK
    <3>2. Answered[c] \in {"asked", "unknown"} /\ Effected[c] = 0
      BY <1>16, <2>2, <3>1, EffectsOf DEF UpsActs, SentOnce, Told, Points, Outcomes
    <3>3. Effected' = [Effected EXCEPT ![c] = 1]
      <4>1. effects[c] = 0
        BY <2>2, <3>2, EffectsOf
      <4>2. \A d \in Dependable : effects'[d] = IF d = c THEN 1 ELSE effects[d]
        BY <1>16, <4>1 DEF UpsActs, TypeOK, Dependable, Calls
      <4> QED
        BY <4>2 DEF Effected
    <3> QED
      BY <2>1, <2>2, <3>2, <3>3 DEF Contract!Next, Contract!Act
  <2>3. CASE c \notin Dependable
    <3>1. Effected' = Effected
      BY <1>16, <2>3 DEF UpsActs, Effected, TypeOK, Dependable, Calls
    <3> QED
      BY <2>1, <3>1 DEF Contract!vars
  <2> QED
    BY <2>2, <2>3
<1> QED
  BY <1>2, <1>3, <1>4, <1>6, <1>7, <1>8, <1>10, <1>11, <1>13, <1>14, <1>15, <1>16
  DEF CallStep

\* The caller of a mutating call whose recovery reconnects can take what it is
\* told at its word, with any number of other calls on the client.
THEOREM TransportKeepsContract == Spec => KeepsContract
<1>1. Init => Contract!Init
  BY DEF Init, Contract!Init, Answered, Effected, Told, Dependable, Calls
<1>2. TypeOK /\ CallInv /\ [Next]_vars => [Contract!Next]_Contract!vars
  <2> SUFFICES ASSUME TypeOK, CallInv, [Next]_vars
               PROVE  [Contract!Next]_Contract!vars
    OBVIOUS
  <2>1. CASE UNCHANGED callVars
    BY <2>1 DEF callVars, Contract!vars, Answered, Effected
  <2>2. ProcessDies \/ Connect \/ Disconnect \/ UNCHANGED vars
          => UNCHANGED callVars
    BY DEF ProcessDies, Connect, Disconnect, vars
  <2> QED
    BY <2>1, <2>2, CallStepKeepsContract DEF Next
<1> QED
  BY <1>1, <1>2, CallInvHolds, TransportTypeCorrect, PTL
  DEF Spec, KeepsContract, Contract!Spec
=============================================================================
