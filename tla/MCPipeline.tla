----------------------------- MODULE MCPipeline -----------------------------
(* Instances of Pipeline: the orders, the commands and the intents.        *)
EXTENDS Pipeline

Order(state, status) == [state |-> state, status |-> status]
AttrTable ==
  [o1 |-> Order("NY", "open"), o2 |-> Order("NY", "done"), o3 |-> Order("CA", "open")]

On1(col, val) == [col |-> col, vals |-> {val}, neg |-> FALSE]
ExpansionTable == [northeast |-> On1("state", "NY"), west |-> On1("state", "CA")]
SchemaTable    == [full |-> {"state", "status"}, short |-> {"state"}]

Scores ==
  [all |-> 1, code |-> 5, open |-> 3, northeast |-> 7, openNortheast |-> 9,
   yes |-> 0, chat |-> 0]
ScoreTable   == [m \in Messages |-> Scores[m]]
\* "Ship all NY orders": _command_implies_filter looks for the names of states,
\* and sees none in a command that gives only the code.
ImpliesTable == [c \in Commands |-> c \notin {"all", "code"}]
NeedsTable ==
  [c \in Commands |-> IF c \in {"northeast", "openNortheast"} THEN {"northeast"} ELSE {}]
WantsTable ==
  [c \in Commands |-> [col \in Enforced |->
     CASE col = "status" /\ c \in {"open", "openNortheast"} -> {"open"}
       [] col = "state" /\ c = "code" -> {"NY"}
       [] OTHER -> {}]]

Intent(logic, conds, refs) == [logic |-> logic, conds |-> conds, refs |-> refs]

\* What a careful agent asks for: one region, another, a status, a word nobody knows.
PlainIntents ==
  {Intent("AND", {}, {"northeast"}), Intent("AND", {}, {"west"}),
   Intent("AND", {On1("status", "open")}, {}), Intent("AND", {}, {"unknown"})}

\* Two states of interest, joined by OR.
EitherIntents ==
  {Intent("OR", {On1("state", "NY"), On1("state", "CA")}, {})}

\* Two regions, and the first of them spelled out as its states.
SpelledIntents ==
  {Intent("AND", {}, {"northeast"}), Intent("AND", {On1("state", "NY")}, {}),
   Intent("AND", {}, {"west"})}

Rows       == [first |-> {"o1", "o2", "o3"}, second |-> {"o2", "o3"}, third |-> {"o1", "o3"}]
RowsTable  == [s \in Sources |-> Rows[s]]
SigTable   == [s \in Sources |-> IF s = "third" THEN "short" ELSE "full"]
=============================================================================
