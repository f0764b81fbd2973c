------------------------------ MODULE Shipment ------------------------------
(***************************************************************************)
(* What one order becomes on its way to UPS.  A command (or the form of a  *)
(* single shipment) makes a row of it, the preview rates the row, the user *)
(* confirms, and the batch engine ships it.  Each of the three calls works *)
(* out the service, what the lane requires and the payload anew, from the  *)
(* stored row: the properties say that they agree.                         *)
(*                                                                         *)
(* Codes are the ones of UPS; a weight is in tenths of a pound, 0 when the *)
(* order states none.  An order's "customs" are the international fields   *)
(* it fills in; "options" the service options that are on.                 *)
(***************************************************************************)
EXTENDS Naturals, Sequences, FiniteSets, TLC

CONSTANTS
  None,       \* no service, no packaging, no request
  Orders,     \* the orders a source may hold
  Origins,    \* the country of the shipper
  Overrides,  \* [service, packaging]: what a command forces on every row
  Selectable  \* services the user may pick when confirming a single shipment

Domestic      == {"01", "02", "03", "12", "13", "14", "59"}
International == {"07", "08", "11", "54", "65"}
ExpressClass  == {"01", "02", "13", "14", "59", "07", "54", "65"}
Saturdays     == {"01", "02", "13", "14", "59"}
ExpressOnly   == {"01", "04", "03", "21", "2a", "2b", "2c"}
BoxesAbroad   == {"24", "25"}
OwnPackaging  == "02"
LetterLimit   == 11
WeightLimit   == 1500
DefaultWeight == 10

EU             == {"DE", "FR"}
StateCountries == {"GB"}
InvoiceLanes   == {<<"US", "CA">>, <<"US", "PR">>}
Equivalent     == [s \in Domestic |->
                     CASE s \in {"03", "12", "13"} -> "65"
                       [] s = "01"                 -> "07"
                       [] s \in {"02", "59"}       -> "08"
                       [] s = "14"                 -> "54"]

\* The options that cost money, and so go into the request for a rate.
Rated == {"hold", "lift pickup", "lift delivery", "carbon", "inside", "large",
          "handling", "signature", "residential", "value", "saturday"}

VARIABLES
  origin,   \* countryCode of the shipper
  open,     \* the lanes are enabled in the environment
  order,    \* the order in the source
  job,      \* how the row was made: "none", "command", "corrected" or "single"
  row,      \* the stored order_data
  chosen,   \* the service the confirmation forces, or None
  quote,    \* the rate request of the preview, or None
  shipped,  \* the shipment request sent to UPS, or None
  pc

shipVars == <<origin, open, order, job, row, chosen, quote, shipped, pc>>

-----------------------------------------------------------------------------

\* A domestic service becomes its equivalent when the countries differ.
Upgrade(s, o, d) ==
  IF o = d \/ s \notin Domestic THEN s
  ELSE IF s = "03" /\ d \in {"CA", "MX"} THEN "11" ELSE Equivalent[s]

\* Mutant of LaneEnabled: nothing is closed.
LaneAlwaysEnabled == TRUE

\* INTERNATIONAL_ENABLED_LANES names the lane, or all.
LaneEnabled == open

\* What a lane requires; no caller passes the packaging, so none is a letter.
Requirements(o, d, s) ==
  LET at(ships, abroad, needs) == [ships |-> ships, abroad |-> abroad, needs |-> needs]
      invoice == IF <<o, d>> \in InvoiceLanes THEN {"invoice"} ELSE {}
      state   == IF d \in StateCountries THEN {"state"} ELSE {}
  IN  CASE o = d /\ d # "PR"            -> at(TRUE, FALSE, {})
        [] o = "US" /\ d = "PR"         -> at(TRUE, FALSE, {"invoice"})
        [] OTHER ->
             IF ~LaneEnabled \/ s \notin International THEN at(FALSE, TRUE, {})
             ELSE IF {o, d} \subseteq EU /\ s = "11"
               THEN at(TRUE, TRUE, {"contact"} \cup invoice \cup state)
               ELSE at(TRUE, TRUE, {"contact", "description", "commodities"} \cup invoice \cup state)

\* validate_international_readiness: what is asked for and not there, and
\* commodities in another currency than the invoice.
Missing(r, needs) ==
  (needs \ r.customs)
    \cup (IF "invoice" \in needs THEN r.customs \cap {"other currency"} ELSE {})

\* validate_domestic_payload looks at the packaging and weight of the order, not
\* at those of its packages.
Issues(r, s) ==
     {i \in {"express packaging"} : r.packaging \in ExpressOnly /\ s \notin ExpressClass}
  \cup {i \in {"box abroad"} : r.packaging \in BoxesAbroad /\ s \in Domestic}
  \cup {i \in {"letter"} : r.packaging = "01" /\ r.weight > LetterLimit}
  \cup {i \in {"saturday"} : r.saturday /\ s \notin Saturdays}
  \cup {i \in {"weight"} : r.weight > WeightLimit}

\* Mutant of Corrected: the Saturday flag is reported and kept.
CorrectedPackaging(r, s) ==
  [r EXCEPT !.packaging = IF "express packaging" \in Issues(r, s) THEN OwnPackaging ELSE @]

\* apply_compatibility_corrections: two of the issues are mended in place.
Corrected(r, s) ==
  [r EXCEPT !.packaging = IF "express packaging" \in Issues(r, s) THEN OwnPackaging ELSE @,
            !.saturday  = @ /\ "saturday" \notin Issues(r, s)]

HardErrors(r, s) == Issues(r, s) \ {"express packaging", "saturday"}

-----------------------------------------------------------------------------
Boxes(r) ==
  IF r.packages # <<>> THEN r.packages
  ELSE <<[packaging |-> r.packaging, weight |-> IF r.weight = 0 THEN DefaultWeight ELSE r.weight]>>

\* An order without a country goes to the shipper's in the payload.
Destination(r) == IF r.country = "" THEN origin ELSE r.country

\* The sections of build_shipment_request that its lane asks for, as far as the
\* order fills them in; the invoice total falls back to "0".
Sections(r, needs) ==
  (needs \cap r.customs \cap {"contact", "description", "commodities"}) \cup (needs \cap {"invoice"})

\* build_shipment_request; the caller checked the lane, it checks again.
Simplified(r, s) ==
  LET d    == Destination(r)
      code == Upgrade(s, origin, d)
      lane == Requirements(origin, d, code)
  IN  [ok       |-> lane.ships,
       service  |-> code,
       country  |-> IF r.country = "" THEN "US" ELSE r.country,
       boxes    |-> Boxes(r),
       options  |-> r.options \cup {o \in {"saturday"} : r.saturday},
       from     |-> IF r.from = "full" THEN "row" ELSE "shipper",
       sections |-> Sections(r, lane.needs)]

\* Mutant of RatePayload: the warehouse of the row is not rated.
RatePayloadFromShipper(p) ==
  [p EXCEPT !.options = @ \cap Rated, !.from = "shipper", !.sections = @ \ {"commodities"}]

\* A rate is asked for without the options that cost nothing, and without the
\* customs forms.
RatePayload(p) == [p EXCEPT !.options = @ \cap Rated, !.sections = @ \ {"commodities"}]

\* Everything goes into the shipment, under the key of the row.
ShipPayload(p) == p @@ [key |-> "row"]

\* The service both the preview and the engine work with.
Service(r, override) ==
  Upgrade(IF override # None THEN override
          ELSE IF r.service # None THEN r.service ELSE "03", origin, r.country)

\* Commodities of a platform order are fetched when they are needed; the fetch
\* may time out.
Hydrated(r, s, fetched) ==
  IF "commodities" \in Requirements(origin, r.country, s).needs /\ r.platform /\ fetched
  THEN [r EXCEPT !.customs = @ \cup {"commodities"}] ELSE r

\* Mutant of Ready: only what crosses a border is validated.
ReadyAbroad(r, s) ==
  LET lane == Requirements(origin, r.country, s)
  IN  lane.ships /\ (lane.abroad => Missing(r, lane.needs \ {"contact"}) = {})

\* The lane ships, and the order has what the lane requires.
Ready(r, s) ==
  LET lane == Requirements(origin, r.country, s)
  IN  lane.ships /\ Missing(r, lane.needs) = {}

-----------------------------------------------------------------------------
Init ==
  /\ origin = None
  /\ open = FALSE
  /\ order = None
  /\ job = "none"
  /\ row = None
  /\ chosen = None
  /\ quote = None
  /\ shipped = None
  /\ pc = "idle"

\* A source is connected, or the user describes a single shipment.
Receive(o, from, lanes) ==
  /\ pc = "idle"
  /\ order' = o
  /\ origin' = from
  /\ open' = lanes
  /\ pc' = "new"
  /\ UNCHANGED <<job, row, chosen, quote, shipped>>

\* The overrides of a command go into the row; when there are any, the row is
\* corrected for the service as named, before it is known where the row goes.
Forced(o) ==
  [order EXCEPT !.packaging = IF o.packaging # None THEN o.packaging ELSE @,
                !.service   = IF o.service # None THEN o.service ELSE @]

BuildRow(o) ==
  LET r == Forced(o)
      s == IF r.service # None THEN r.service ELSE "03"
  IN  /\ pc = "new"
      /\ IF o = [service |-> None, packaging |-> None]
           THEN row' = r /\ job' = "command"
           ELSE row' = Corrected(r, s) /\ job' = "corrected"
      /\ pc' = "built"
      /\ UNCHANGED <<origin, open, order, chosen, quote, shipped>>

\* A single shipment is validated before there is a job; a country that is not
\* given is the default one, which an international service does not accept.
BuildSingle ==
  LET c == IF order.country = "" THEN "US" ELSE order.country
      s == Upgrade(order.service, origin, c)
      r == [order EXCEPT !.country = c, !.service = s]
  IN  /\ pc = "new"
      /\ order.service # None /\ order.weight # 0 /\ order.packages = <<>>
      /\ order.country = "" => order.service \notin International
      /\ c \in {"US", "CA", "PR"} \cup StateCountries => "state" \in order.customs
      /\ Ready(r, s)
      /\ row' = r
      /\ job' = "single"
      /\ pc' = "built"
      /\ UNCHANGED <<origin, open, order, chosen, quote, shipped>>

\* The preview rates the row as it is stored; an error is a warning of the row.
Preview(fetched) ==
  LET s == Service(row, None)
      r == Hydrated(row, s, fetched)
      p == Simplified(r, s)
  IN  /\ pc = "built"
      /\ quote' = IF Ready(r, s) /\ p.ok THEN RatePayload(p) ELSE None
      /\ pc' = "previewed"
      /\ UNCHANGED <<origin, open, order, job, row, chosen, shipped>>

\* Only a single shipment is confirmed with another service.
Confirm(s) ==
  /\ pc = "previewed"
  /\ s # None => job = "single"
  /\ chosen' = s
  /\ pc' = "confirmed"
  /\ UNCHANGED <<origin, open, order, job, row, quote, shipped>>

\* The engine checks the lane, corrects the row and builds the shipment.
Execute(fetched) ==
  LET s == Service(row, chosen)
      h == Hydrated(row, s, fetched)
      r == Corrected(h, s)
      p == Simplified(r, s)
  IN  /\ pc = "confirmed"
      /\ IF Ready(h, s) /\ HardErrors(h, s) = {} /\ p.ok
           THEN shipped' = ShipPayload(p) /\ pc' = "shipped"
           ELSE UNCHANGED shipped /\ pc' = "failed"
      /\ UNCHANGED <<origin, open, order, job, row, chosen, quote>>

\* The server is restarted with other lanes while the job waits.
SwitchLanes ==
  /\ pc \in {"built", "previewed", "confirmed"}
  /\ open' = ~open
  /\ UNCHANGED <<origin, order, job, row, chosen, quote, shipped, pc>>

Next ==
  \/ \E o \in Orders, from \in Origins, lanes \in BOOLEAN : Receive(o, from, lanes)
  \/ \E o \in Overrides : BuildRow(o)
  \/ BuildSingle
  \/ \E fetched \in BOOLEAN : Preview(fetched) \/ Execute(fetched)
  \/ \E s \in Selectable \cup {None} : Confirm(s)
  \/ SwitchLanes

-----------------------------------------------------------------------------
Sent == shipped # None

TypeOK ==
  /\ pc \in {"idle", "new", "built", "previewed", "confirmed", "shipped", "failed"}
  /\ (pc \in {"idle", "new"}) = (row = None)
  /\ Sent = (pc = "shipped")
  /\ quote # None => quote.service \in Domestic \cup International

\* Nothing crosses a border on a lane that is closed when it ships, whatever was
\* open when it was previewed.
ClosedLanesStayClosed ==
  [][shipped' # shipped /\ origin # Destination(row) /\ <<origin, Destination(row)>> # <<"US", "PR">>
       => open]_shipVars

\* A shipment abroad carries every section its lane requires: what the engine
\* validated against is what the payload is built for.  (An order without a
\* country is one lane for the engine and another for the builder.)
CustomsComplete ==
  Sent /\ row.country # "" =>
    Requirements(origin, row.country, shipped.service).needs \ {"state"} \subseteq shipped.sections

\* What ships is a combination UPS sells, whatever was overridden when: the
\* packaging, the weight and the Saturday flag fit the service.  (The packages of
\* an order that lists them are never looked at.)
CompatibleShipment ==
  Sent /\ row.packages = <<>> =>
    Issues([row EXCEPT !.packaging = shipped.boxes[1].packaging,
                       !.weight    = shipped.boxes[1].weight,
                       !.saturday  = "saturday" \in shipped.options], shipped.service) = {}

\* The user pays for what was quoted: the shipment is the one that was rated, with
\* the options and forms a rate leaves out.  It needs the row to have been
\* corrected when it was made, and a lane at home: a row no command forced
\* anything on is corrected after it was rated, and one that goes abroad was
\* corrected for a service it does not ship under.
QuoteIsForWhatShips ==
  Sent /\ quote # None /\ job = "corrected" /\ origin = row.country =>
    \A f \in DOMAIN quote :
      quote[f] = CASE f = "options"  -> shipped.options \cap Rated
                   [] f = "sections" -> shipped.sections \ {"commodities"}
                   [] OTHER          -> shipped[f]

\* A shipment the lane rules call domestic ships under the service asked for.
TerritoryShipsDomestic ==
  Sent /\ ~Requirements(origin, row.country, row.service).abroad /\ chosen = None =>
    shipped.service = row.service
=============================================================================
