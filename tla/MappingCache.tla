---------------------------- MODULE MappingCache ----------------------------
(***************************************************************************)
(* The cache of column mappings.  The server and the in-process CLI each   *)
(* keep one mapping in memory and share a directory of files, one file per *)
(* fingerprint, which they write through the same temporary name.  Inside  *)
(* a process a lookup is one call; between processes its file accesses     *)
(* interleave.                                                             *)
(***************************************************************************)
EXTENDS ColumnMapping

CONSTANTS
  None,
  Processes,
  Tables,     \* [print, columns]: the rows of a source a caller maps
  MaxFiles    \* COLUMN_MAPPING_MAX_DISK_CACHE_FILES

VARIABLES
  memory,    \* by process: the one mapping it holds, or None
  files,     \* the directory, oldest file first: [print, columns, mapping]
  draft,     \* by fingerprint: the temporary file, None or its content
  lookup,    \* by process: the step of its call
  table,     \* by process: what the call is about
  answer     \* by process: the mapping the last call returned, or None

cacheVars == <<memory, files, draft, lookup, table, answer>>

Entry(t, mapping) == [print |-> t.print, columns |-> t.columns, mapping |-> mapping]

\* What a file holds while another process is writing over it.
Torn == [print |-> None, columns |-> {}, mapping |-> <<>>]

Init ==
  /\ memory = [p \in Processes |-> None]
  /\ files = <<>>
  /\ draft = [f \in {t.print : t \in Tables} |-> None]
  /\ lookup = [p \in Processes |-> "idle"]
  /\ table = [p \in Processes |-> None]
  /\ answer = [p \in Processes |-> None]

\* Mutant of Matches: the columns are not compared.
MatchesPrint(entry, t) == entry.print = t.print

\* A cached entry is used for the fingerprint and the columns it was made for.
Matches(entry, t) == entry.print = t.print /\ entry.columns = t.columns

\* The directory without the file of a fingerprint, of which it has at most one.
Without(print) ==
  LET at == {i \in DOMAIN files : files[i].print = print}
      n  == CHOOSE i \in at : TRUE
  IN  IF at = {} THEN files ELSE SubSeq(files, 1, n - 1) \o SubSeq(files, n + 1, Len(files))

\* The oldest files beyond the limit go.
Evicted(seq) == IF Len(seq) > MaxFiles THEN SubSeq(seq, Len(seq) - MaxFiles + 1, Len(seq)) ELSE seq

Answer(p, mapping) ==
  /\ answer' = [answer EXCEPT ![p] = mapping]
  /\ lookup' = [lookup EXCEPT ![p] = "answered"]

Remember(p, mapping) == memory' = [memory EXCEPT ![p] = Entry(table[p], mapping)]

Request(p, t) ==
  /\ lookup[p] = "idle"
  /\ table' = [table EXCEPT ![p] = t]
  /\ IF memory[p] # None /\ Matches(memory[p], t)
       THEN Answer(p, memory[p].mapping)
       ELSE lookup' = [lookup EXCEPT ![p] = "disk"] /\ UNCHANGED answer
  /\ UNCHANGED <<memory, files, draft>>

\* A file that cannot be read, or is for something else, is as good as none.
LoadFile(p) ==
  /\ lookup[p] = "disk"
  /\ LET found == {i \in DOMAIN files : files[i].print = table[p].print /\ Matches(files[i], table[p])}
     IN  IF found # {}
           THEN \E i \in found : Answer(p, files[i].mapping) /\ Remember(p, files[i].mapping)
           ELSE lookup' = [lookup EXCEPT ![p] = "compute"] /\ UNCHANGED <<memory, answer>>
  /\ UNCHANGED <<files, draft, table>>

\* A mapping that is not verified is used and not kept.
Compute(p) ==
  LET mapping == AutoMap(table[p].columns)
  IN  /\ lookup[p] = "compute"
      /\ IF Verified(mapping, table[p].columns)
           THEN /\ draft' = [draft EXCEPT ![table[p].print] = Entry(table[p], mapping)]
                /\ lookup' = [lookup EXCEPT ![p] = "replace"]
                /\ UNCHANGED answer
           ELSE Answer(p, mapping) /\ UNCHANGED draft
      /\ UNCHANGED <<memory, files, table>>

\* os.replace moves the temporary file of whoever wrote it last, or fails when
\* the other process has moved it already.
Replace(p) ==
  LET print == table[p].print
  IN  /\ lookup[p] = "replace"
      /\ IF draft[print] = None
           THEN lookup' = [lookup EXCEPT ![p] = "keep"] /\ UNCHANGED <<files, draft>>
           ELSE /\ files' = Append(Without(print), draft[print])
                /\ draft' = [draft EXCEPT ![print] = None]
                /\ lookup' = [lookup EXCEPT ![p] = "evict"]
      /\ UNCHANGED <<memory, table, answer>>

\* The other process may be in the middle of the write: the file holds its half.
ReplaceTorn(p, q) ==
  LET print == table[p].print
  IN  /\ lookup[p] = "replace" /\ lookup[q] = "replace"
      /\ p # q /\ table[q].print = print /\ draft[print] # None
      /\ files' = Append(Without(print), [Torn EXCEPT !.print = print])
      /\ draft' = [draft EXCEPT ![print] = None]
      /\ lookup' = [lookup EXCEPT ![p] = "evict"]
      /\ UNCHANGED <<memory, table, answer>>

Evict(p) ==
  /\ lookup[p] = "evict"
  /\ files' = Evicted(files)
  /\ lookup' = [lookup EXCEPT ![p] = "keep"]
  /\ UNCHANGED <<memory, draft, table, answer>>

Keep(p) ==
  LET mapping == AutoMap(table[p].columns)
  IN  /\ lookup[p] = "keep"
      /\ Remember(p, mapping)
      /\ Answer(p, mapping)
      /\ UNCHANGED <<files, draft, table>>

\* The caller normalizes its rows with the mapping.
Return(p) ==
  /\ lookup[p] = "answered"
  /\ lookup' = [lookup EXCEPT ![p] = "idle"]
  /\ table' = [table EXCEPT ![p] = None]
  /\ answer' = [answer EXCEPT ![p] = None]
  /\ UNCHANGED <<memory, files, draft>>

\* An import of a source with another fingerprint clears the importer's memory
\* and everybody's files.
Import(p, print) ==
  /\ lookup[p] = "idle"
  /\ memory[p] # None => memory[p].print # print
  /\ memory' = [memory EXCEPT ![p] = None]
  /\ files' = <<>>
  /\ UNCHANGED <<draft, lookup, table, answer>>

\* A process ends anywhere in a call and is started again.
RestartProcess(p) ==
  /\ lookup' = [lookup EXCEPT ![p] = "idle"]
  /\ memory' = [memory EXCEPT ![p] = None]
  /\ table' = [table EXCEPT ![p] = None]
  /\ answer' = [answer EXCEPT ![p] = None]
  /\ UNCHANGED <<files, draft>>

Next ==
  \E p \in Processes :
    \/ \E t \in Tables : Request(p, t) \/ Import(p, t.print)
    \/ LoadFile(p) \/ Compute(p) \/ Replace(p) \/ Evict(p) \/ Keep(p) \/ Return(p)
    \/ \E q \in Processes : ReplaceTorn(p, q)
    \/ RestartProcess(p)

-----------------------------------------------------------------------------
TypeOK ==
  /\ \A p \in Processes :
       /\ lookup[p] \in {"idle", "disk", "compute", "replace", "evict", "keep", "answered"}
       /\ lookup[p] # "idle" => table[p] \in Tables
       /\ memory[p] # None => memory[p].print \in DOMAIN draft
  /\ \A i, j \in DOMAIN files : files[i].print = files[j].print => i = j

\* Whatever was cached by whom, imported, evicted or torn in between, a caller
\* gets the mapping of the columns it asked about.
AnswersAreForTheColumns ==
  \A p \in Processes :
    lookup[p] = "answered" => answer[p] = AutoMap(table[p].columns)

\* What describes the warehouse fills no field of the recipient: ship_from_name is
\* mapped to the name of the warehouse, and the recipient's is in "name".
WarehouseIsNotTheRecipient ==
  \A p \in Processes : lookup[p] = "answered" =>
    \A h \in table[p].columns, f \in Required :
      FilledFrom(f, table[p].columns, answer[p]) = h.name => ~({"ship", "from"} \subseteq h.exact)
=============================================================================
