-------------------------- MODULE ExternalSources --------------------------
(***************************************************************************)
(* The external sources server: the connections and clients it keeps in    *)
(* memory (mcp/external_sources/tools.py), and what its clients do to an   *)
(* order of the shop when a tracking number is written back.  Tool calls   *)
(* run concurrently on one event loop.  Every shop has one order; the      *)
(* tracking number of a call is the call.                                  *)
(***************************************************************************)
EXTENDS Naturals, Sequences, FiniteSets

CONSTANTS None,
  Shops,      \* shop -> platform
  MaxCalls    \* bounds the calls of tools, numbered in the order they begin

VARIABLES
  connection,  \* platform -> [shop, status], or None
  client,      \* platform -> [shop, by]: the client the call "by" authenticated, or None
  closed,      \* the clients that were closed, by the call that made them
  tool,        \* what each call is doing
  fulfilled,   \* shop -> the fulfillments of its order: [number, whole]
  updated,     \* the calls that wrote to a shop, in the order they began
  overlapped   \* shops with two updates at once

extVars == <<connection, client, closed, tool, fulfilled, updated, overlapped>>

ToolCalls == 1..MaxCalls
Platforms == {Shops[s] : s \in DOMAIN Shops}
Idle == [op |-> "idle", shop |-> None, at |-> "new", client |-> None, claimed |-> None,
         whole |-> FALSE, success |-> FALSE]

TypeOK ==
  /\ \A p \in Platforms :
       /\ connection[p] # None =>
            connection[p] \in [shop : DOMAIN Shops, status : {"connected", "error"}]
       /\ client[p] # None => client[p] \in [shop : DOMAIN Shops, by : ToolCalls]
  /\ closed \subseteq ToolCalls
  /\ \A c \in ToolCalls :
       /\ tool[c].op \in {"idle", "connect", "update", "list"}
       /\ tool[c].at \in {"new", "waiting", "read", "ended"}
  /\ overlapped \subseteq DOMAIN Shops

Init ==
  /\ connection = [p \in Platforms |-> None]
  /\ client = [p \in Platforms |-> None]
  /\ closed = {}
  /\ tool = [c \in ToolCalls |-> Idle]
  /\ fulfilled = [s \in DOMAIN Shops |-> <<>>]
  /\ updated = <<>>
  /\ overlapped = {}

-----------------------------------------------------------------------------
Begins(c) ==
  /\ tool[c].op = "idle"
  /\ \A d \in 1..(c - 1) : tool[d].op # "idle"

\* The mutant: the client is there before it is authenticated.
ClientOnConnect(c, s) == client' = [client EXCEPT ![Shops[s]] = [shop |-> s, by |-> c]]

\* Until the shop accepts the credentials, the client of an earlier call serves.
ClientDuringConnect(c, s) == UNCHANGED client

\* connect_platform starts to authenticate.
Connect(c, s) ==
  /\ Begins(c)
  /\ tool' = [tool EXCEPT ![c] = [Idle EXCEPT !.op = "connect", !.shop = s, !.at = "waiting"]]
  /\ ClientDuringConnect(c, s)
  /\ UNCHANGED <<connection, closed, fulfilled, updated, overlapped>>

\* The shop accepts, and client and connection change together; or authentication
\* fails, and only the connection does.
Authenticated(c) ==
  /\ tool[c].op = "connect" /\ tool[c].at = "waiting"
  /\ LET s == tool[c].shop
         p == Shops[s]
     IN  \/ /\ client' = [client EXCEPT ![p] = [shop |-> s, by |-> c]]
            /\ connection' = [connection EXCEPT ![p] = [shop |-> s, status |-> "connected"]]
            /\ tool' = [tool EXCEPT ![c].at = "ended", ![c].success = TRUE]
         \/ /\ connection' = [connection EXCEPT ![p] = [shop |-> s, status |-> "error"]]
            /\ tool' = [tool EXCEPT ![c].at = "ended"]
            /\ UNCHANGED client
  /\ UNCHANGED <<closed, fulfilled, updated, overlapped>>

\* disconnect_platform forgets connection and client, and closes a client that
\* keeps a session with the shop.
Disconnect(p) ==
  /\ connection[p] # None
  /\ connection' = [connection EXCEPT ![p] = None]
  /\ client' = [client EXCEPT ![p] = None]
  /\ closed' = IF client[p] # None /\ p = "sap" THEN closed \cup {client[p].by} ELSE closed
  /\ UNCHANGED <<tool, fulfilled, updated, overlapped>>

-----------------------------------------------------------------------------
Updating(s) == {c \in ToolCalls : tool[c].op = "update" /\ tool[c].at \in {"waiting", "read"}
                                  /\ tool[c].client.shop = s}

\* list_orders and update_tracking take the client of the platform, whatever the status
\* of its connection is.
UseClient(c, op, p, at) ==
  /\ Begins(c)
  /\ connection[p] # None /\ client[p] # None
  /\ tool' = [tool EXCEPT ![c] = [Idle EXCEPT !.op = op, !.at = at, !.client = client[p],
                                              !.claimed = connection[p]]]

List(c, p) ==
  /\ UseClient(c, "list", p, "waiting")
  /\ UNCHANGED <<connection, client, closed, fulfilled, updated, overlapped>>

\* WooCommerce's client writes at once, the others send a request first.
Update(c, p) ==
  /\ UseClient(c, "update", p, IF p = "woocommerce" THEN "read" ELSE "waiting")
  /\ LET s == client[p].shop
     IN  overlapped' = IF Updating(s) = {} THEN overlapped ELSE overlapped \cup {s}
  /\ updated' = Append(updated, c)
  /\ UNCHANGED <<connection, client, closed, fulfilled>>

\* The call is answered: an exception and a refusal are both a failure.
Answer(c, success) == tool' = [tool EXCEPT ![c].at = "ended", ![c].success = success]

\* The orders of the shop, or none if the shop refuses: both are a success.
Listed(c) ==
  /\ tool[c].op = "list" /\ tool[c].at = "waiting"
  /\ Answer(c, tool[c].client.by \notin closed)
  /\ UNCHANGED <<connection, client, closed, fulfilled, updated, overlapped>>

\* The mutant: the order is not read first.
NeverFulfilled(s) == FALSE

\* fulfillment_status of the order, as Shopify keeps it.
IsFulfilled(s) == \E i \in DOMAIN fulfilled[s] : fulfilled[s][i].whole

\* The first request of an update: Shopify's reads the order, SAP's fetches a token.
Read(c) ==
  /\ tool[c].op = "update" /\ tool[c].at = "waiting"
  /\ \/ /\ tool[c].client.by \notin closed
        /\ tool' = [tool EXCEPT ![c].at = "read", ![c].whole = IsFulfilled(tool[c].client.shop)]
     \/ Answer(c, FALSE)
  /\ UNCHANGED <<connection, client, closed, fulfilled, updated, overlapped>>

\* The mutant: the number of the answer is the one read before.
KeepFirst(s, c) == fulfilled[s]

\* Another number for the order's first fulfillment, as Shopify has it.
Renumber(s, c) == [fulfilled[s] EXCEPT ![1].number = c]

\* What the last request makes of the order.  SAP has one delivery for it, and
\* WooCommerce one number.
Written(c) ==
  LET s == tool[c].client.shop
      new == [number |-> c, whole |-> TRUE]
  IN  IF Shops[s] = "shopify"
      THEN IF tool[c].whole THEN Renumber(s, c) ELSE Append(fulfilled[s], new)
      ELSE <<new>>

\* It arrives and is answered, arrives with its answer lost, or does not arrive.
Write(c) ==
  /\ tool[c].op = "update" /\ tool[c].at = "read"
  /\ \/ /\ tool[c].client.by \notin closed
        /\ fulfilled' = [fulfilled EXCEPT ![tool[c].client.shop] = Written(c)]
        /\ \E success \in BOOLEAN : Answer(c, success)
     \/ /\ Answer(c, FALSE)
        /\ UNCHANGED fulfilled
  /\ UNCHANGED <<connection, client, closed, updated, overlapped>>

\* The merchant ships a part of an order by hand.
ShipPart(s) ==
  /\ Shops[s] = "shopify"
  /\ fulfilled[s] = <<>>
  /\ fulfilled' = [fulfilled EXCEPT ![s] = <<[number |-> None, whole |-> FALSE]>>]
  /\ UNCHANGED <<connection, client, closed, tool, updated, overlapped>>

Next ==
  \/ \E c \in ToolCalls :
       \/ \E s \in DOMAIN Shops : Connect(c, s)
       \/ \E p \in Platforms : List(c, p) \/ Update(c, p)
       \/ Authenticated(c) \/ Listed(c) \/ Read(c) \/ Write(c)
  \/ \E p \in Platforms : Disconnect(p)
  \/ \E s \in DOMAIN Shops : ShipPart(s)

-----------------------------------------------------------------------------
\* What a call is answered from is the shop its platform was connected to, whatever
\* attempts to connect another shop are under way (tools.py:166).
AnswersAreTheConnectedShops ==
  \A c \in ToolCalls :
    tool[c].claimed # None =>
      (tool[c].claimed.status = "connected" => tool[c].client.shop = tool[c].claimed.shop)

\* Trying again, also after an answer that was lost and in an order of which a part was
\* shipped by hand, does not fulfill an order twice, as long as no two attempts overlap
\* (clients/shopify.py:285).
RetriesDoNotDuplicate ==
  \A s \in DOMAIN Shops \ overlapped :
    Cardinality({i \in DOMAIN fulfilled[s] : fulfilled[s][i].whole}) <= 1

\* After an update that was reported as done, the order has its number, until another
\* update of that shop begins.
ReportedNumberIsOnTheOrder ==
  \A i \in DOMAIN updated :
    LET c == updated[i]
        s == tool[c].client.shop
    IN  /\ tool[c].at = "ended" /\ tool[c].success /\ s \notin overlapped
        /\ \A j \in (i + 1)..Len(updated) : tool[updated[j]].client.shop # s
        => \E k \in DOMAIN fulfilled[s] : fulfilled[s][k].number = c
=============================================================================
