---------------------------- MODULE UpsTransport ----------------------------
(***************************************************************************)
(* UPSMCPClient: concurrent tool calls over one MCP session to a child     *)
(* process, the recovery of a broken session under a lock, and what is     *)
(* sent again.  Everything runs on one event loop, so a step is the code   *)
(* between two awaits.                                                     *)
(*                                                                         *)
(* UPS, its gateway and the MCP server process are external.               *)
(***************************************************************************)
EXTENDS Naturals, FiniteSets

CONSTANTS
  Mutating,        \* calls of tools with a side effect, such as create_shipment
  ReadOnly,        \* calls of tools without one, such as rate_shipment
  Unlucky,         \* calls whose recovery may find that no new process comes up
  MaxSessions,     \* bound: sessions after which Connect and Disconnect stop
  MaxDeaths,       \* bound: deaths of the MCP server process
  MaxToolRetries,  \* tries a read is given again inside one call_tool (2)
  Nobody           \* "no call holds the lock"

Calls == Mutating \cup ReadOnly

ASSUME TransportAssumption ==
  /\ Mutating \cap ReadOnly = {}
  /\ Nobody \notin Calls
  /\ Unlucky \subseteq Calls
  /\ MaxSessions \in Nat /\ MaxDeaths \in Nat /\ MaxToolRetries \in Nat

VARIABLES
  session,     \* number of the session _mcp holds, 0 for None
  opened,      \* sessions opened so far
  alive,       \* whether there is a session whose process is alive
  generation,  \* _connection_generation
  lock,        \* the call that holds _reconnect_lock
  deaths,      \* process deaths so far
  pc,          \* how far each call is
  round,       \* transport recoveries behind each call; 2 = no more
  tries,       \* retries of each call inside MCPClient.call_tool
  on,          \* the session the last request of each call went to
  seen,        \* the generation each call compares against
  reach,       \* whether UPS may still act on, or acted on, a request
  effects      \* times UPS acted on each call

connVars == <<session, opened, alive, generation, lock, deaths>>
locals   == <<round, tries, on, seen>>
callVars == <<pc, locals, reach, effects>>
vars == <<connVars, callVars>>

Outcomes == {"ok", "rejected", "refused", "unknown"}
Points == {"idle", "sent", "backoff", "waiting", "closing", "opening",
           "initializing"} \cup Outcomes

TypeOK ==
  /\ session \in 0 .. opened
  /\ opened \in Nat \ {0}
  /\ alive \in BOOLEAN
  /\ generation \in Nat
  /\ lock \in Calls \cup {Nobody}
  /\ deaths \in 0 .. MaxDeaths
  /\ pc \in [Calls -> Points]
  /\ round \in [Calls -> 0 .. 2]
  /\ tries \in [Calls -> 0 .. MaxToolRetries]
  /\ on \in [Calls -> Nat]
  /\ seen \in [Calls -> Nat]
  /\ reach \in [Calls -> {"no", "open", "acted"}]
  /\ effects \in [Calls -> Nat]

\* A connected client with no call yet.
Init ==
  /\ session = 1 /\ opened = 1 /\ alive = TRUE
  /\ generation = 0
  /\ lock = Nobody
  /\ deaths = 0
  /\ pc = [c \in Calls |-> "idle"]
  /\ round = [c \in Calls |-> 0]
  /\ tries = [c \in Calls |-> 0]
  /\ on = [c \in Calls |-> 0]
  /\ seen = [c \in Calls |-> 0]
  /\ reach = [c \in Calls |-> "no"]
  /\ effects = [c \in Calls |-> 0]

-----------------------------------------------------------------------------
(* A call.                                                                 *)

Goto(c, from, to) ==
  /\ pc[c] = from
  /\ pc' = [pc EXCEPT ![c] = to]

\* The call returns or raises to its caller, and its variables are gone.
Return(c, outcome) ==
  /\ pc' = [pc EXCEPT ![c] = outcome]
  /\ round' = [round EXCEPT ![c] = 0]
  /\ tries' = [tries EXCEPT ![c] = 0]
  /\ on' = [on EXCEPT ![c] = 0]
  /\ seen' = [seen EXCEPT ![c] = 0]

\* The request is written to the current session; it gets to UPS if the
\* process of that session is there to send it on.
Send(c, from) ==
  /\ Goto(c, from, "sent")
  /\ on' = [on EXCEPT ![c] = session]
  /\ reach' = [reach EXCEPT ![c] =
                 IF c \in Mutating /\ alive THEN "open" ELSE "no"]

\* _call on a disconnected client raises before anything is sent.
NotConnected(c) ==
  /\ session = 0
  /\ pc[c] = "idle"
  /\ Return(c, "unknown")
  /\ UNCHANGED <<connVars, reach, effects>>

Begin(c) ==
  /\ session # 0
  /\ Send(c, "idle")
  /\ seen' = [seen EXCEPT ![c] = generation]
  /\ UNCHANGED <<connVars, round, tries, effects>>

\* External: UPS acts on a request that got to it, answered or not.
UpsActs(c) ==
  /\ reach[c] = "open"
  /\ reach' = [reach EXCEPT ![c] = "acted"]
  /\ effects' = [effects EXCEPT ![c] = @ + 1]
  /\ UNCHANGED <<connVars, pc, locals>>

\* The session of the request of c can still answer it.
Answerable(c) == pc[c] = "sent" /\ on[c] = session /\ alive

Answer(c) ==
  /\ Answerable(c)
  /\ c \in Mutating => reach[c] = "acted"
  /\ Return(c, "ok")
  /\ UNCHANGED <<connVars, reach, effects>>

\* A tool error: UPS did not act and will not.
ToolError(c) ==
  /\ Answerable(c)
  /\ reach[c] # "acted"
  /\ reach' = [reach EXCEPT ![c] = "no"]

\* MCPToolError, which the callers turn into UPSServiceError.
Reject(c) ==
  /\ ToolError(c)
  /\ Return(c, "rejected")
  /\ UNCHANGED <<connVars, effects>>

\* A transient error inside call_tool: only reads are tried again there.
RetryTool(c) ==
  /\ c \in ReadOnly
  /\ tries[c] < MaxToolRetries
  /\ ToolError(c)
  /\ Goto(c, "sent", "backoff")
  /\ tries' = [tries EXCEPT ![c] = @ + 1]
  /\ UNCHANGED <<connVars, round, on, seen, effects>>

\* "503 ... no healthy upstream": the request died in UPS's gateway, and a
\* mutating call is tried once more, with no recovery behind it.
RetryGateway(c) ==
  /\ c \in Mutating
  /\ round[c] = 0
  /\ ToolError(c)
  /\ Goto(c, "sent", "backoff")
  /\ round' = [round EXCEPT ![c] = 2]
  /\ UNCHANGED <<connVars, tries, on, seen, effects>>

Resend(c) ==
  /\ session # 0
  /\ Send(c, "backoff")
  /\ UNCHANGED <<connVars, round, tries, seen, effects>>

\* Mutant of Fail: a call that is not recovered reads as never sent.
FailRefused(c, transport) ==
  LET recovers == \/ round[c] = 0 /\ (transport \/ c \in ReadOnly)
                  \/ round[c] = 1 /\ transport
  IN
  /\ IF recovers
     THEN /\ pc' = [pc EXCEPT ![c] = "waiting"]
          /\ seen' = [seen EXCEPT ![c] = IF round[c] = 1 THEN generation ELSE @]
          /\ UNCHANGED <<round, tries, on>>
     ELSE Return(c, "refused")
  /\ UNCHANGED <<connVars, reach, effects>>

\* An error that is not a MCPToolError, of the transport or not.
Fail(c, transport) ==
  LET recovers == \/ round[c] = 0 /\ (transport \/ c \in ReadOnly)
                  \/ round[c] = 1 /\ transport
  IN
  /\ IF recovers
     THEN /\ pc' = [pc EXCEPT ![c] = "waiting"]
          /\ seen' = [seen EXCEPT ![c] = IF round[c] = 1 THEN generation ELSE @]
          /\ UNCHANGED <<round, tries, on>>
     ELSE Return(c, "unknown")
  /\ UNCHANGED <<connVars, reach, effects>>

\* The session was closed or its process died under the request.
Break(c) ==
  /\ pc[c] = "sent"
  /\ ~Answerable(c)
  /\ \E transport \in BOOLEAN : Fail(c, transport)

\* The answer cannot be read, or came before the session was initialized.
Garbled(c) == Answerable(c) /\ Fail(c, FALSE)

\* The session went away while call_tool slept: a new call_tool refuses, the
\* running one trips over None.
ResendFails(c) ==
  /\ pc[c] = "backoff"
  /\ session = 0
  /\ IF c \in Mutating
     THEN /\ Return(c, "refused")
          /\ UNCHANGED <<connVars, reach, effects>>
     ELSE Fail(c, FALSE)

-----------------------------------------------------------------------------
(* Recovering the transport.                                               *)

\* Mutant of Recovered: every call is replayed once.
RecoveredReplaysAll(c, from) ==
  /\ Send(c, from)
  /\ round' = [round EXCEPT ![c] = IF @ < 2 THEN @ + 1 ELSE 2]
  /\ tries' = [tries EXCEPT ![c] = 0]
  /\ UNCHANGED seen

\* After a recovery a read is replayed at once; a mutation raises the error
\* it failed with.
Recovered(c, from) ==
  IF c \in ReadOnly
  THEN /\ Send(c, from)
       /\ round' = [round EXCEPT ![c] = @ + 1]
       /\ tries' = [tries EXCEPT ![c] = 0]
       /\ UNCHANGED seen
  ELSE /\ pc[c] = from
       /\ Return(c, "unknown")
       /\ UNCHANGED reach

\* Another call has already repaired the transport.
Coalesce(c) ==
  /\ pc[c] = "waiting"
  /\ lock = Nobody
  /\ seen[c] # generation /\ session # 0
  /\ Recovered(c, "waiting")
  /\ UNCHANGED <<connVars, effects>>

StartRecovery(c) ==
  /\ lock = Nobody
  /\ seen[c] = generation \/ session = 0
  /\ Goto(c, "waiting", "closing")
  /\ lock' = c
  /\ UNCHANGED <<session, opened, alive, generation, deaths, locals, reach,
                 effects>>

CloseSession(c) ==
  /\ Goto(c, "closing", "opening")
  /\ session' = 0 /\ alive' = FALSE
  /\ UNCHANGED <<opened, generation, lock, deaths, locals, reach, effects>>

\* From here on other calls find a session, initialized or not.
OpenSession(c) ==
  /\ Goto(c, "opening", "initializing")
  /\ session' = opened + 1
  /\ opened' = opened + 1
  /\ alive' = TRUE
  /\ UNCHANGED <<generation, lock, deaths, locals, reach, effects>>

\* Mutant of FinishRecovery: the lock is not released.
FinishRecoveryLocked(c) ==
  /\ alive
  /\ generation' = generation + 1
  /\ Recovered(c, "initializing")
  /\ UNCHANGED <<session, opened, alive, lock, deaths, effects>>

FinishRecovery(c) ==
  /\ alive
  /\ generation' = generation + 1
  /\ lock' = Nobody
  /\ Recovered(c, "initializing")
  /\ UNCHANGED <<session, opened, alive, deaths, effects>>

\* The process does not come up: MCPConnectionError takes the place of the
\* error the call failed with.
RecoveryFails(c) ==
  /\ c \in Unlucky
  /\ pc[c] \in {"opening", "initializing"}
  /\ Return(c, "refused")
  /\ session' = 0 /\ alive' = FALSE
  /\ lock' = Nobody
  /\ UNCHANGED <<opened, generation, deaths, reach, effects>>

-----------------------------------------------------------------------------
(* The rest of the client's life.                                          *)

\* A process that dies before its session is initialized did not come up.
ProcessDies ==
  /\ alive
  /\ deaths < MaxDeaths
  /\ \A c \in Calls : pc[c] = "initializing" => c \in Unlucky
  /\ alive' = FALSE
  /\ deaths' = deaths + 1
  /\ UNCHANGED <<session, opened, generation, lock, callVars>>

\* get_ups_gateway finds its client disconnected.
Connect ==
  /\ lock = Nobody
  /\ session = 0
  /\ opened < MaxSessions
  /\ session' = opened + 1
  /\ opened' = opened + 1
  /\ alive' = TRUE
  /\ UNCHANGED <<generation, lock, deaths, callVars>>

\* shutdown_gateways, or the end of "async with UPSMCPClient".
Disconnect ==
  /\ lock = Nobody
  /\ session # 0
  /\ opened < MaxSessions
  /\ session' = 0 /\ alive' = FALSE
  /\ generation' = generation + 1
  /\ UNCHANGED <<opened, lock, deaths, callVars>>

CallStep(c) ==
  \/ Begin(c)   \/ NotConnected(c)
  \/ Answer(c)  \/ Reject(c)        \/ RetryTool(c)     \/ RetryGateway(c)
  \/ Resend(c)  \/ ResendFails(c)   \/ Break(c)         \/ Garbled(c)
  \/ Coalesce(c)      \/ StartRecovery(c)  \/ CloseSession(c)
  \/ OpenSession(c)   \/ FinishRecovery(c) \/ RecoveryFails(c)

Next ==
  \/ \E c \in Calls : CallStep(c) \/ UpsActs(c)
  \/ ProcessDies \/ Connect \/ Disconnect

Spec == Init /\ [][Next]_vars

\* Every request is answered, or its session breaks under it; the lock is
\* handed on, and a child process that is spawned comes up or fails to.
Fairness == \A c \in Calls : WF_vars(pc[c] # "idle" /\ CallStep(c))

FairSpec == Spec /\ Fairness

-----------------------------------------------------------------------------
\* The calls that can have a side effect and whose recovery reconnects, as
\* their callers see them.
Dependable == Mutating \ Unlucky

Told(p) ==
  CASE p = "idle" -> "none"
    [] p \in {"ok", "unknown"} -> p
    [] p \in {"rejected", "refused"} -> "refused"
    [] OTHER -> "asked"

Answered == [c \in Dependable |-> Told(pc[c])]
Effected == [c \in Dependable |-> effects[c]]

Contract == INSTANCE UpsContract WITH
              Calls <- Dependable, answer <- Answered, effects <- Effected

\* UPS acts at most once for a mutating call, whatever is retried, replayed
\* or recovered (ups_mcp_client.py: "Replay only non-mutating operations").
MutatingActsOnce == \A c \in Mutating : effects[c] <= 1

\* The caller of a mutating call can rely on what it is told: this is what
\* the row task of BatchExecution assumes of create_shipment.
KeepsContract == Contract!Spec

\* No call waits for ever: neither for the reconnect lock, nor for an answer
\* of a session that another call closed.
CallsReturn == \A c \in Calls : pc[c] = "sent" ~> pc[c] \in Outcomes
=============================================================================
