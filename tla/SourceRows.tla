---------------------------- MODULE SourceRows ----------------------------
(***************************************************************************)
(* How the rows of a data source are numbered when it is imported          *)
(* (mcp/data_source/adapters), and which line of the file the number       *)
(* selects when a tracking number is written back (write_back_utils.py).   *)
(* A file is a sequence of lines that hold data or only empty cells; what  *)
(* the cells say is left out.                                              *)
(***************************************************************************)
EXTENDS Naturals, Sequences, FiniteSets

CONSTANTS
  Sources,    \* the data sources a user may load
  KindOf,     \* the source_type of each source
  LinesOf,    \* its lines, each "data" or "blank"; only "data" for parsed formats
  HasHeader   \* whether it is imported with a header line

Flat      == {"csv", "delimited", "excel"}
Companion == {"json", "xml", "edi", "fixed_width"}
Platforms == {"shopify", "woocommerce", "sap", "oracle"}
Kinds     == Flat \cup Companion \cup Platforms \cup {"database"}

ASSUME SourceAssumption ==
  /\ KindOf \in [Sources -> Kinds]
  /\ LinesOf \in [Sources -> Seq({"data", "blank"})]
  /\ HasHeader \in [Sources -> BOOLEAN]

HeaderLines(s) == IF HasHeader[s] THEN 1 ELSE 0

Filled(s) == {p \in HeaderLines(s) + 1 .. Len(LinesOf[s]) : LinesOf[s][p] = "data"}

\* The line that is the n-th filled one.
NthFilled(s, n) ==
  CHOOSE p \in Filled(s) : Cardinality({q \in Filled(s) : q <= p}) = n

\* Delimited files: ROW_NUMBER() over every line, then the empty ones dropped.
NumberedByPosition(s) ==
  [n \in {p - HeaderLines(s) : p \in Filled(s)} |-> n + HeaderLines(s)]

\* Excel and the parsed formats: the lines that survived are counted.
NumberedByCount(s) ==
  [n \in 1 .. Cardinality(Filled(s)) |-> NthFilled(s, n)]

\* Mutant of ImportedRows: numbers a delimited file after dropping empty lines.
ImportedRowsCounted(s) == NumberedByCount(s)

\* _source_row_num of each imported row, and the line it came from.
ImportedRows(s) ==
  IF KindOf[s] \in {"csv", "delimited"} THEN NumberedByPosition(s) ELSE NumberedByCount(s)

Numbers(s) == DOMAIN ImportedRows(s)

\* The line of a flat file that row number n selects: the first one is the header.
TargetLine(n) == n + 1

\* apply_*_updates_atomic refuses a number past the last line.
InFile(s, n) == n >= 1 /\ TargetLine(n) <= Len(LinesOf[s])
=============================================================================
