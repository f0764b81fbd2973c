---------------------------- MODULE MCWriteBack ----------------------------
(* Instances of WriteBack: what the sources of a run look like.            *)
EXTENDS WriteBack

\* A delimited file with an empty line, a workbook, the same with an empty row,
\* a JSON file, a database and a shop.
Kind(s) == CASE s = "orders" -> "delimited"
             [] s = "feed"   -> "json"
             [] s = "shop"   -> "shopify"
             [] s = "stock"  -> "database"
             [] OTHER        -> "excel"

Lines(s) == CASE s = "orders" -> <<"data", "data", "blank", "data">>
              [] s = "sheet"  -> <<"data", "data", "blank", "data">>
              [] s = "book"   -> <<"data", "data">>
              [] OTHER        -> <<"data">>

KindTable   == [s \in Sources |-> Kind(s)]
LineTable   == [s \in Sources |-> Lines(s)]
HeaderTable == [s \in Sources |-> s \in {"orders", "sheet", "book"}]
=============================================================================
