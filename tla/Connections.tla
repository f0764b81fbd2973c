----------------------------- MODULE Connections -----------------------------
(***************************************************************************)
(* One provider connection: its encrypted row, the key file, and the calls *)
(* that save, disconnect, delete, validate and check it.  The routes run   *)
(* in a thread pool and the CLI in a process of its own, so calls overlap: *)
(* each loads the row, works, and commits; validation waits seconds for    *)
(* the provider in between.  A commit writes the columns that differ from  *)
(* what its call had loaded, and no others.                                *)
(***************************************************************************)
EXTENDS Naturals

CONSTANTS
  None,
  Calls,      \* calls that may be under way at once; each would draw its own key
  Entries,    \* what a user may enter: <<auth_mode, credentials>>
  Accepted,   \* the ones the provider accepts
  MaxRows     \* bound: times the row is inserted

VARIABLES
  saved,      \* the row: [id, mode, status, box], or None
  keyFile,    \* None, "empty" (created and not written), or the key
  call,       \* by call: where it is and what it holds
  raced,      \* history: what has overlapped the row's present content
  rows        \* history: rows inserted so far

connVars == <<saved, keyFile, call, raced, rows>>

Idle == [at |-> "idle", op |-> "none", mode |-> None, secret |-> None, key |-> None, loaded |-> None]

Init ==
  /\ saved = None
  /\ keyFile = None
  /\ call = [c \in Calls |-> Idle]
  /\ raced = {}
  /\ rows = 0

Seal(mode, key, secret) == [mode |-> mode, key |-> key, secret |-> secret]

\* The box opens with the key and the authenticated data it was sealed with.
Opens(row, key) == row.box.key = key /\ row.box.mode = row.mode

Ends(c) == call' = [call EXCEPT ![c] = Idle]

\* With its key a call loads the row it goes on with.  Without a row all but a
\* save have nothing to do; the startup check passes over a disconnected one.
Load(c, held, k) ==
  call' = [call EXCEPT ![c] =
    IF \/ saved = None /\ held.op # "save"
       \/ saved # None /\ held.op = "check" /\ saved.status = "disconnected"
      THEN Idle
      ELSE [held EXCEPT !.key = k, !.loaded = saved, !.at = "commit"]]

\* A key of the wrong length, such as none at all, is an error.
ReadKey(c, held) == IF keyFile = "empty" THEN Ends(c) ELSE Load(c, held, keyFile)

\* get_or_create_key: the file is there, or it is to be created.
Begin(c, op, mode, secret) ==
  LET held == [Idle EXCEPT !.op = op, !.mode = mode, !.secret = secret]
  IN  /\ call[c].at = "idle"
      /\ IF keyFile = None THEN call' = [call EXCEPT ![c] = [held EXCEPT !.at = "create"]]
                           ELSE ReadKey(c, held)
      /\ UNCHANGED <<saved, keyFile, raced, rows>>

\* O_EXCL: whoever comes second reads what the first has written, or has not yet.
CreateKey(c) ==
  /\ call[c].at = "create"
  /\ IF keyFile = None
       THEN keyFile' = "empty" /\ call' = [call EXCEPT ![c].at = "write"]
       ELSE UNCHANGED keyFile /\ ReadKey(c, call[c])
  /\ UNCHANGED <<saved, raced, rows>>

WriteKey(c) ==
  /\ call[c].at = "write"
  /\ keyFile' = c
  /\ Load(c, call[c], c)
  /\ UNCHANGED <<saved, raced, rows>>

\* Mutant of StatusAfterSave: the status is left as it was.
StatusKept(loaded) == loaded.status

StatusAfterSave(loaded) == "configured"

\* The provider's answer, or any failure to get one.
Verdicts(c) ==
  LET row == call[c].loaded
  IN  CASE ~Opens(row, call[c].key)   -> {"needs_reconnect"}
        [] row.box.secret \in Accepted -> {"connected", "error"}
        [] OTHER                       -> {"error"}

Checked(c) ==
  LET row == call[c].loaded
  IN  CASE ~Opens(row, call[c].key)         -> "needs_reconnect"
        [] row.status = "needs_reconnect"   -> "configured"
        [] OTHER                            -> row.status

\* The update of a row touches what differs from the loaded one, a newly sealed box
\* always; of a row that has gone meanwhile it fails.
Writes(c, new) ==
  LET old      == call[c].loaded
      dirty(f) == new[f] # old[f] \/ (f = "box" /\ call[c].op = "save")
  IN  IF saved = None \/ saved.id # old.id THEN UNCHANGED saved
      ELSE saved' = [f \in DOMAIN saved |-> IF dirty(f) THEN new[f] ELSE saved[f]]

\* Mutant of AuthenticatedMode: the box is sealed before the mode is assigned.
LoadedMode(c) == IF call[c].loaded = None THEN call[c].mode ELSE call[c].loaded.mode

AuthenticatedMode(c) == call[c].mode

Insert(c) ==
  /\ call[c].at = "commit" /\ call[c].op = "save" /\ call[c].loaded = None
  /\ IF saved = None /\ rows < MaxRows
       THEN /\ saved' = [id |-> rows, mode |-> call[c].mode, status |-> "configured",
                         box |-> Seal(AuthenticatedMode(c), call[c].key, call[c].secret)]
            /\ rows' = rows + 1
            /\ raced' = {}
       ELSE UNCHANGED <<saved, rows, raced>>
  /\ Ends(c)
  /\ UNCHANGED keyFile

Save(c) ==
  LET old == call[c].loaded
  IN  /\ call[c].at = "commit" /\ call[c].op = "save" /\ old # None
      /\ Writes(c, [old EXCEPT !.mode = call[c].mode, !.status = StatusAfterSave(old),
                               !.box = Seal(AuthenticatedMode(c), call[c].key, call[c].secret)])
      /\ raced' = IF saved = None \/ saved.id # old.id THEN raced
                  ELSE (IF saved.mode # old.mode THEN {"saves"} ELSE {})
                       \cup (IF saved.status # old.status THEN {"validation"} ELSE {})
      /\ Ends(c)
      /\ UNCHANGED <<keyFile, rows>>

Disconnect(c) ==
  /\ call[c].at = "commit" /\ call[c].op = "disconnect"
  /\ Writes(c, [call[c].loaded EXCEPT !.status = "disconnected"])
  /\ Ends(c)
  /\ UNCHANGED <<keyFile, raced, rows>>

Delete(c) ==
  /\ call[c].at = "commit" /\ call[c].op = "delete"
  /\ saved' = IF saved # None /\ saved.id = call[c].loaded.id THEN None ELSE saved
  /\ Ends(c)
  /\ UNCHANGED <<keyFile, raced, rows>>

\* The verdict is on the row as it was loaded, up to 15 seconds ago.
Validate(c) ==
  /\ call[c].at = "commit" /\ call[c].op = "validate"
  /\ \E v \in Verdicts(c) : Writes(c, [call[c].loaded EXCEPT !.status = v])
  /\ raced' = IF saved = None \/ saved.box = call[c].loaded.box THEN raced
              ELSE raced \cup {"validation"}
  /\ Ends(c)
  /\ UNCHANGED <<keyFile, rows>>

CheckAll(c) ==
  /\ call[c].at = "commit" /\ call[c].op = "check"
  /\ Writes(c, [call[c].loaded EXCEPT !.status = Checked(c)])
  /\ Ends(c)
  /\ UNCHANGED <<keyFile, raced, rows>>

\* The process of a call ends, perhaps between the creation and the writing of
\* the key.
Crash(c) ==
  /\ call[c].at # "idle"
  /\ Ends(c)
  /\ UNCHANGED <<saved, keyFile, raced, rows>>

\* The user removes the key file, as the message about an empty one advises,
\* while no call is under way.
RemoveKey ==
  /\ keyFile # None /\ \A c \in Calls : call[c] = Idle
  /\ keyFile' = None
  /\ raced' = raced \cup {"key"}
  /\ UNCHANGED <<saved, call, rows>>

Next ==
  \/ \E c \in Calls :
       \/ \E e \in Entries : Begin(c, "save", e[1], e[2])
       \/ \E op \in {"disconnect", "delete", "validate", "check"} : Begin(c, op, None, None)
       \/ CreateKey(c) \/ WriteKey(c)
       \/ Insert(c) \/ Save(c) \/ Disconnect(c) \/ Delete(c) \/ Validate(c) \/ CheckAll(c)
       \/ Crash(c)
  \/ RemoveKey

-----------------------------------------------------------------------------
TypeOK ==
  /\ saved # None => /\ <<saved.box.mode, saved.box.secret>> \in Entries
                     /\ saved.box.key \in Calls
                     /\ saved.status \in {"configured", "connected", "disconnected", "error", "needs_reconnect"}
  /\ keyFile \in Calls \cup {None, "empty"}
  /\ raced \subseteq {"saves", "validation", "key"}

\* The credentials of the row can be decrypted, whoever created the key first,
\* unless the key was removed, or two saves with different modes overlapped: the
\* first one's mode then stands beside the second one's box.
SavedIsReadable ==
  saved # None /\ "key" \notin raced /\ "saves" \notin raced => Opens(saved, keyFile)

\* A connected row holds credentials the provider has accepted, unless a save
\* overlapped their validation.
ConnectedIsAccepted ==
  saved # None /\ saved.status = "connected" /\ "validation" \notin raced => saved.box.secret \in Accepted
=============================================================================
