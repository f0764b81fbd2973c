--------------------------- MODULE FilterResolver ---------------------------
(***************************************************************************)
(* What resolve_filter_intent and compile_filter_spec compute, as          *)
(* operators.  A filter is one group of conditions joined by AND or OR     *)
(* (the nesting of groups is left out): a condition names a column, the    *)
(* values it lists and whether it excludes them.  An intent may also hold  *)
(* semantic references: region names and business predicates, which expand *)
(* to a condition but need the user's confirmation (tier B), and names     *)
(* nobody knows (tier C).  The token of a resolution is modelled by what   *)
(* it binds: schema, conditions, status and expiry.                        *)
(***************************************************************************)
EXTENDS Naturals, FiniteSets

CONSTANTS
  Columns,     \* the columns of the sources, their values and the orders' rows
  Values,
  Orders,
  Attr,        \* [Orders -> [Columns -> Values]]
  TierB,       \* region aliases and business predicates
  Expansion,   \* [TierB -> conditions]
  Signatures,  \* schema signatures
  SchemaOf,    \* [Signatures -> SUBSET Columns]
  TTL          \* _TOKEN_TTL_SECONDS, in ticks

Conditions == [col : Columns, vals : SUBSET Values, neg : BOOLEAN]
Roots      == [logic : {"AND", "OR"}, conds : SUBSET Conditions]

ASSUME ResolverAssumption ==
  /\ Attr \in [Orders -> [Columns -> Values]]
  /\ Expansion \in [TierB -> Conditions]
  /\ SchemaOf \in [Signatures -> SUBSET Columns]
  /\ TTL \in Nat

\* A reference to a name that has no tier.
Unknown == "unknown"

\* The rows the compiled WHERE clause selects.
Matches(o, c) == (Attr[o][c.col] \in c.vals) # c.neg

Selects(root, o) ==
  \/ root.logic = "AND" /\ \A c \in root.conds : Matches(o, c)
  \/ root.logic = "OR" /\ \E c \in root.conds : Matches(o, c)

\* A token is good for the schema it was made for, until it expires.
ValidToken(token, sig, now) == now <= token.expires /\ token.sig = sig

\* A stored confirmation whose pending list names the term; one whose pending
\* list is empty serves every term.
IsConfirmed(ref, confirmed, sig, now) ==
  \E c \in confirmed :
    ValidToken(c.token, sig, now) /\ (c.pending = {} \/ ref \in c.pending)

\* The references that are waiting for the user.
Pending(intent, confirmed, sig, now) ==
  {r \in intent.refs \cap TierB : ~IsConfirmed(r, confirmed, sig, now)}

Resolvable(intent, sig) ==
  \A c \in intent.conds \cup {Expansion[r] : r \in intent.refs \cap TierB} :
    c.col \in SchemaOf[sig]

Status(intent, confirmed, sig, now) ==
  IF Unknown \in intent.refs THEN "UNRESOLVED"
  ELSE IF Pending(intent, confirmed, sig, now) # {} THEN "NEEDS_CONFIRMATION"
  ELSE "RESOLVED"

Expanded(intent) ==
  [logic |-> intent.logic,
   conds |-> intent.conds \cup {Expansion[r] : r \in intent.refs \cap TierB}]

\* The spec for an intent, with the token that proves where it came from.  refs
\* is history: the code forgets which conditions came from references.
Resolve(intent, confirmed, sig, now) ==
  LET status == Status(intent, confirmed, sig, now)
      root   == Expanded(intent)
  IN  [status  |-> status,
       root    |-> root,
       sig     |-> sig,
       pending |-> Pending(intent, confirmed, sig, now),
       refs    |-> intent.refs,
       token   |-> [sig |-> sig, root |-> root, status |-> status,
                    expires |-> now + TTL]]

\* compile_filter_spec accepts a resolved spec, on the schema it was made for,
\* whose columns the source has.
Compiles(spec, sig) ==
  /\ spec.status = "RESOLVED"
  /\ spec.sig = sig
  /\ \A c \in spec.root.conds : c.col \in SchemaOf[sig]
=============================================================================
