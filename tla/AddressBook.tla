---------------------------- MODULE AddressBook -----------------------------
(***************************************************************************)
(* The contacts and the custom commands: two tables whose rows have a      *)
(* unique name, written by routes that run on threads and by the agent's   *)
(* tools.  A call looks rows up, decides, and writes and commits later, so *)
(* that another call may write in between.  Calls are numbered in the      *)
(* order they begin; a row is known by the call that made it, and each of  *)
(* its fields holds the call that wrote it last.                           *)
(***************************************************************************)
EXTENDS Naturals, FiniteSets

CONSTANTS None,
  Handles,       \* names, already lowered and stripped
  Fields,        \* the other columns
  MaxBookCalls   \* bounds the calls

VARIABLES
  book,    \* the rows, or None where a call has made none or it was deleted
  made,    \* the calls whose row was committed
  edited,  \* history: who last wrote each field, by the edits that were accepted
  op       \* what each call is doing

bookVars == <<book, made, edited, op>>

BookCalls == 1..MaxBookCalls
Tables == {"contacts", "commands"}

\* A new row: every column from the call that makes it.
Row(t, h, c) == [table |-> t, handle |-> h, fields |-> [f \in Fields |-> c]]
Waiting == [kind |-> "none", table |-> "contacts", handle |-> None, set |-> {}, id |-> 0,
            was |-> None, at |-> "new"]

TypeOK ==
  /\ \A c \in BookCalls : book[c] # None =>
       book[c] \in [table : Tables, handle : Handles, fields : [Fields -> BookCalls]]
  /\ made \subseteq BookCalls
  /\ edited \in [BookCalls -> [Fields -> {0} \cup BookCalls]]
  /\ \A c \in BookCalls :
       /\ op[c].kind \in {"none", "create", "update", "delete", "resolve", "save"}
       /\ op[c].at \in {"new", "begun", "decided", "done"}

Init ==
  /\ book = [c \in BookCalls |-> None]
  /\ made = {}
  /\ edited = [c \in BookCalls |-> [f \in Fields |-> 0]]
  /\ op = [c \in BookCalls |-> Waiting]

Named(t, h) == {i \in BookCalls : book[i] # None /\ book[i].table = t /\ book[i].handle = h}
Exists(i) == i # 0 /\ book[i] # None
Goes(c, at) == op' = [op EXCEPT ![c].at = at]
Ends(c) == Goes(c, "done")
Keeps == UNCHANGED <<book, made, edited>>

-----------------------------------------------------------------------------
Begins(c) == op[c].kind = "none" /\ \A d \in 1..(c - 1) : op[d].kind # "none"

\* POST of a contact or a command, with a handle given or made of the name.
Create(c) ==
  /\ Begins(c)
  /\ \E t \in Tables, h \in Handles :
       op' = [op EXCEPT ![c] = [Waiting EXCEPT !.kind = "create", !.table = t, !.handle = h,
                                               !.at = "begun"]]
  /\ Keeps

\* PATCH of a row the client knows: some fields, or the handle.  An empty value
\* is left out, so that no field can be cleared.
Update(c) ==
  /\ Begins(c)
  /\ \E i \in made, s \in (SUBSET Fields) \ {{}}, h \in Handles \cup {None} :
       op' = [op EXCEPT ![c] = [Waiting EXCEPT !.kind = "update", !.handle = h, !.set = s, !.id = i,
                                               !.at = "begun"]]
  /\ Keeps

Delete(c) ==
  /\ Begins(c)
  /\ \E i \in made :
       op' = [op EXCEPT ![c] = [Waiting EXCEPT !.kind = "delete", !.id = i, !.at = "begun"]]
  /\ Keeps

\* The agent's tools know a contact by its handle: they resolve, save or delete it.
UseTool(c) ==
  /\ Begins(c)
  /\ \E k \in {"resolve", "save", "delete"}, h \in Handles :
       LET found == Named("contacts", h)
           id == IF found = {} THEN 0 ELSE CHOOSE i \in found : TRUE
       IN  op' = [op EXCEPT ![c] = [Waiting EXCEPT
                    !.kind = IF k = "save" /\ id = 0 THEN "create" ELSE k,
                    !.handle = h, !.id = id, !.set = Fields,
                    !.at = IF id = 0 /\ k # "save" THEN "done" ELSE "begun"]]
  /\ Keeps

\* The row is loaded by its id.  A handle that is not its own must be free.
Decide(c) ==
  /\ op[c].at = "begun"
  /\ LET o == op[c]
         renames == o.kind = "update" /\ o.handle # None /\ book[o.id].handle # o.handle
     IN  \/ /\ o.kind = "create"
            /\ IF Named(o.table, o.handle) # {} THEN Ends(c) ELSE Goes(c, "decided")
         \/ /\ o.kind # "create"
            /\ IF ~Exists(o.id) THEN Ends(c)
               ELSE IF renames /\ Named(book[o.id].table, o.handle) # {} THEN Ends(c)
               ELSE op' = [op EXCEPT ![c].at = "decided", ![c].was = book[o.id]]
  /\ Keeps

\* Mutant of Free: the check of the call is trusted.
TrustCheck(t, h, i) == TRUE

\* The unique constraint on the name.
Free(t, h, i) == Named(t, h) \subseteq {i}

\* The insert: an IntegrityError is answered like a duplicate.
Insert(c) ==
  /\ op[c].at = "decided"
  /\ op[c].kind = "create"
  /\ LET o == op[c]
     IN  IF Free(o.table, o.handle, c)
           THEN /\ book' = [book EXCEPT ![c] = Row(o.table, o.handle, c)]
                /\ made' = made \cup {c}
                /\ edited' = [edited EXCEPT ![c] = [f \in Fields |-> c]]
           ELSE Keeps
  /\ Ends(c)

\* Sets the fields of a row that the call sets, and its handle if it changes it.
SetIn(row, c) ==
  LET o == op[c]
      moves == o.kind = "update" /\ o.handle # None /\ o.handle # o.was.handle
  IN  [row EXCEPT !.handle = IF moves THEN o.handle ELSE @,
                  !.fields = [f \in Fields |-> IF f \in o.set THEN c ELSE @[f]]]

Store(i, row, c) ==
  /\ IF Free(row.table, row.handle, i)
       THEN /\ book' = [book EXCEPT ![i] = row]
            /\ edited' = [edited EXCEPT ![i] = [f \in Fields |-> IF f \in op[c].set THEN c ELSE @[f]]]
            /\ UNCHANGED made
       ELSE Keeps
  /\ Ends(c)

\* Mutant of Write: the row is stored as it was loaded, and anew if it is gone.
WriteWhole(c) ==
  /\ op[c].at = "decided"
  /\ op[c].kind \in {"update", "save"}
  /\ Store(op[c].id, SetIn(op[c].was, c), c)

\* The statement names the columns that changed since the row was loaded; one that
\* matches no row is an error.
Write(c) ==
  /\ op[c].at = "decided"
  /\ op[c].kind \in {"update", "save"}
  /\ IF Exists(op[c].id) THEN Store(op[c].id, SetIn(book[op[c].id], c), c)
     ELSE Ends(c) /\ Keeps

\* A DELETE that matches no row is none.
Remove(c) ==
  /\ op[c].at = "decided"
  /\ op[c].kind = "delete"
  /\ book' = [book EXCEPT ![op[c].id] = None]
  /\ Ends(c)
  /\ UNCHANGED <<made, edited>>

\* resolve_contact notes the use and commits, which expires the contact: its
\* fields are read anew, and a contact gone by then is an error.
Answer(c) ==
  /\ op[c].at = "decided"
  /\ op[c].kind = "resolve"
  /\ op' = [op EXCEPT ![c].at = "done",
                      ![c].was = IF Exists(op[c].id) THEN book[op[c].id] ELSE None]
  /\ Keeps

Next == \E c \in BookCalls :
  \/ Create(c) \/ Update(c) \/ Delete(c) \/ UseTool(c)
  \/ Decide(c) \/ Insert(c) \/ Write(c) \/ Remove(c) \/ Answer(c)

-----------------------------------------------------------------------------
\* Two calls that both find a name free do not both take it.
NamesAreUnique ==
  \A i, j \in BookCalls :
    book[i] # None /\ book[j] # None /\ i # j =>
      <<book[i].table, book[i].handle>> # <<book[j].table, book[j].handle>>

\* An accepted edit of one field survives an edit of another that was decided
\* before it.
EditsAreKept ==
  \A i \in BookCalls : book[i] # None => book[i].fields = edited[i]

\* A row that was deleted stays deleted, whatever was about to be written to it.
DeletedStaysDeleted ==
  [][\A i \in made : book[i] = None => book'[i] = None]_bookVars
=============================================================================
