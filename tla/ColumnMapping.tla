--------------------------- MODULE ColumnMapping ---------------------------
(***************************************************************************)
(* Which column of a source fills which field of a shipment.  A header is  *)
(* known by its canonical name, the tokens it consists of (exact), the     *)
(* substrings a rule may find in it (within), its length and its place in  *)
(* the alphabet.  The rules kept here are the ones that compete for the    *)
(* recipient and the warehouse, in the order of the code.                  *)
(***************************************************************************)
EXTENDS Naturals, Sequences, FiniteSets

Rule(all, none, field) == [all |-> all, none |-> none, field |-> field]

Rules == <<
  Rule({"address", "2"}, {}, "shipTo.addressLine2"),
  Rule({"address", "1"}, {}, "shipTo.addressLine1"),
  Rule({"address"}, {"2", "3"}, "shipTo.addressLine1"),
  Rule({"recipient", "name"}, {}, "shipTo.name"),
  Rule({"ship_to_name"}, {}, "shipTo.name"),
  Rule({"ship", "name"}, {}, "shipTo.name"),
  Rule({"company"}, {}, "shipTo.attentionName"),
  Rule({"name"}, {"company", "organization", "file", "sheet", "customer"}, "shipTo.name"),
  Rule({"city"}, {}, "shipTo.city"),
  Rule({"st"}, {"status", "street", "store", "standard"}, "shipTo.stateProvinceCode"),
  Rule({"state"}, {"status"}, "shipTo.stateProvinceCode"),
  Rule({"zip"}, {}, "shipTo.postalCode"),
  Rule({"country"}, {}, "shipTo.countryCode"),
  Rule({"weight"}, {"grams"}, "packages[0].weight"),
  Rule({"ship", "from", "name"}, {}, "shipFrom.name"),
  Rule({"ship", "from", "city"}, {}, "shipFrom.city") >>

Fields == {Rules[i].field : i \in DOMAIN Rules}

Required == {"shipTo.name", "shipTo.addressLine1", "shipTo.city", "shipTo.stateProvinceCode",
             "shipTo.postalCode", "shipTo.countryCode", "packages[0].weight"}

Canonical == [f \in Required |->
  CASE f = "shipTo.name"              -> "ship_to_name"
    [] f = "shipTo.addressLine1"      -> "ship_to_address1"
    [] f = "shipTo.city"              -> "ship_to_city"
    [] f = "shipTo.stateProvinceCode" -> "ship_to_state"
    [] f = "shipTo.postalCode"        -> "ship_to_postal_code"
    [] f = "shipTo.countryCode"       -> "ship_to_country"
    [] f = "packages[0].weight"       -> "weight"]

\* Whether a token is found in a header, and how well.
Found(t, h)   == t \in h.exact \cup h.within
Exactly(t, h) == t \in h.exact

Applies(r, h) ==
  /\ \A t \in r.all : Found(t, h)
  /\ \A t \in r.none : ~Found(t, h)

\* A column that a rule proposes for its field.
Candidates(field, columns) ==
  {c \in (1..Len(Rules)) \X columns : Rules[c[1]].field = field /\ Applies(Rules[c[1]], c[2])}

\* More exact tokens, then more substrings, then the earlier rule, then the
\* shorter header, then the alphabet: each part weighs more than all after it.
Rank(c) ==
  LET exact == Cardinality({t \in Rules[c[1]].all : Exactly(t, c[2])})
      loose == Cardinality(Rules[c[1]].all) - exact
  IN  exact * 10000000 + loose * 1000000 + (50 - c[1]) * 10000 + (50 - c[2].length) * 100 + (50 - c[2].letter)

\* auto_map_columns: the best candidate of every field that has one.
AutoMap(columns) ==
  LET best(f) == LET rank == [c \in Candidates(f, columns) |-> Rank(c)]
                 IN  CHOOSE c \in DOMAIN rank : \A d \in DOMAIN rank : rank[c] >= rank[d]
  IN  [f \in {g \in Fields : Candidates(g, columns) # {}} |-> best(f)[2].name]

\* _verify_mapping: every required field is mapped, or there under its own name.
Verified(mapping, columns) ==
  LET names == {h.name : h \in columns}
  IN  /\ \A f \in DOMAIN mapping : mapping[f] \in names
      /\ \A f \in Required : f \in DOMAIN mapping \/ Canonical[f] \in names

\* Where the normalization takes a required field of a row without blanks from:
\* the column of that name, the mapped one, or one of the fallbacks for the name.
FilledFrom(field, columns, mapping) ==
  LET names == {h.name : h \in columns}
      fallbacks == SelectSeq(<<"recipient_name", "customer_name", "name">>, LAMBDA n : n \in names)
  IN  CASE Canonical[field] \in names -> Canonical[field]
        [] Canonical[field] \notin names /\ field \in DOMAIN mapping -> mapping[field]
        [] OTHER -> IF field = "shipTo.name" /\ fallbacks # <<>> THEN fallbacks[1] ELSE "nothing"
=============================================================================
