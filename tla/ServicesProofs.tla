--------------------------- MODULE ServicesProofs ---------------------------
(***************************************************************************)
(* The promises of the services around the batch, for any number of calls, *)
(* writers, processes and folders.  A component's promise is shown of its  *)
(* own steps; while another component runs nothing of it changes.          *)
(***************************************************************************)
EXTENDS MCServices, FiniteSetTheorems, SequenceTheorems, TLAPS

-----------------------------------------------------------------------------
\* The provider connection.

Modes   == {e[1] : e \in Entries}
Secrets == {e[2] : e \in Entries}
RowStatuses == {"configured", "connected", "disconnected", "error", "needs_reconnect"}

\* A row of the connection, whose box was sealed over an entry.
ConnRows ==
  {r \in [id : Nat, mode : Modes, status : RowStatuses,
          box : [mode : Modes, key : Calls, secret : Secrets]] :
     <<r.box.mode, r.box.secret>> \in Entries}

Helds ==
  [at : {"idle", "create", "write", "commit"},
   op : {"none", "save", "disconnect", "delete", "validate", "check"},
   mode : Modes \cup {None}, secret : Secrets \cup {None}, key : Calls \cup {None},
   loaded : ConnRows \cup {None}]

\* What a call holds: an entry if it saves; and from the moment it loaded the row,
\* the key of the file and the row it goes on with.
Holds(held, file) ==
  /\ held \in Helds
  /\ held.at # "idle" /\ held.op = "save" => <<held.mode, held.secret>> \in Entries
  /\ held.at = "write" => file = "empty"
  /\ held.at = "commit" =>
       /\ file \in Calls /\ held.key = file
       /\ held.op # "save" => held.loaded # None

\* The row beside the key file: the key is the row's unless it was removed.
RowHolds(stored, file, races) ==
  stored # None =>
    /\ stored \in ConnRows
    /\ "key" \notin races => file = stored.box.key
    /\ "saves" \notin races => stored.box.mode = stored.mode
    /\ stored.status = "connected" /\ "validation" \notin races => stored.box.secret \in Accepted

\* Nothing changes the key file under a call that has read it, and one call at a
\* time may write it.
ConnInv ==
  /\ DOMAIN call = Calls /\ call = [c \in Calls |-> call[c]]
  /\ \A c \in Calls : Holds(call[c], keyFile)
  /\ \A c, d \in Calls : call[c].at = "write" /\ call[d].at = "write" => c = d
  /\ RowHolds(saved, keyFile, raced)
  /\ rows \in Nat
  /\ keyFile \in Calls \cup {None, "empty"}
  /\ raced \subseteq {"saves", "validation", "key"}

LEMMA IdleHolds == \A file : Holds(Conn!Idle, file) /\ Conn!Idle.at = "idle"
BY DEF Holds, Conn!Idle, Helds

LEMMA InitConn == Conn!Init => ConnInv
BY IdleHolds DEF Conn!Init, ConnInv, RowHolds

\* A step of one call that leaves the row alone.
LEMMA OneCall ==
  ASSUME ConnInv, NEW c \in Calls, NEW held, call' = [call EXCEPT ![c] = held],
         Holds(held, keyFile),
         held.at = "write" => call[c].at = "write",
         UNCHANGED <<saved, keyFile, raced, rows>>
  PROVE  ConnInv'
BY DEF ConnInv

LEMMA LoadKeepsConn ==
  ASSUME ConnInv, NEW c \in Calls, NEW held \in Helds, NEW k \in Calls, Conn!Load(c, held, k),
         held.op = "save" => <<held.mode, held.secret>> \in Entries
  PROVE  \E new : /\ call' = [call EXCEPT ![c] = new]
                  /\ new.at \in {"idle", "commit"}
                  /\ Holds(new, k)
<1> DEFINE new == IF \/ saved = None /\ held.op # "save"
                     \/ saved # None /\ held.op = "check" /\ saved.status = "disconnected"
                    THEN Conn!Idle
                    ELSE [held EXCEPT !.key = k, !.loaded = saved, !.at = "commit"]
<1>1. call' = [call EXCEPT ![c] = new]
  BY DEF Conn!Load
<1>2. new.at \in {"idle", "commit"} /\ Holds(new, k)
  <2>1. CASE new = Conn!Idle
    BY <2>1, IdleHolds
  <2>2. CASE new # Conn!Idle
    <3>1. new = [held EXCEPT !.key = k, !.loaded = saved, !.at = "commit"]
          /\ (held.op # "save" => saved # None)
      BY <2>2
    <3>2. saved \in ConnRows \cup {None}
      BY DEF ConnInv, RowHolds
    <3> HIDE DEF new
    <3>3. new \in Helds /\ new.at = "commit" /\ new.op = held.op /\ new.key = k
          /\ new.mode = held.mode /\ new.secret = held.secret /\ new.loaded = saved
      BY <3>1, <3>2 DEF Helds
    <3> QED
      BY <3>1, <3>3 DEF Holds
  <2> QED
    BY <2>1, <2>2
<1> HIDE DEF new
<1> QED
  BY <1>1, <1>2

LEMMA BeginKeepsConn ==
  ASSUME ConnInv, ServicesAssumption, NEW c \in Calls,
         \/ \E e \in Entries : Conn!Begin(c, "save", e[1], e[2])
         \/ \E op \in {"disconnect", "delete", "validate", "check"} : Conn!Begin(c, op, None, None)
  PROVE  ConnInv'
<1>1. PICK op \in {"save", "disconnect", "delete", "validate", "check"},
           mode \in Modes \cup {None}, secret \in Secrets \cup {None} :
        /\ Conn!Begin(c, op, mode, secret)
        /\ op = "save" => <<mode, secret>> \in Entries
  <2>1. CASE \E e \in Entries : Conn!Begin(c, "save", e[1], e[2])
    <3>1. PICK e \in Entries : Conn!Begin(c, "save", e[1], e[2])
      BY <2>1
    <3>2. e[1] \in Modes /\ e[2] \in Secrets /\ <<e[1], e[2]>> \in Entries
      BY DEF Modes, Secrets, ServicesAssumption
    <3> QED
      BY <3>1, <3>2
  <2>2. CASE \E op \in {"disconnect", "delete", "validate", "check"} : Conn!Begin(c, op, None, None)
    <3>1. PICK op \in {"disconnect", "delete", "validate", "check"} : Conn!Begin(c, op, None, None)
      BY <2>2
    <3> QED
      BY <3>1
  <2> QED
    BY <2>1, <2>2
<1> DEFINE held == [Conn!Idle EXCEPT !.op = op, !.mode = mode, !.secret = secret]
<1>2. /\ held \in Helds /\ held.op = op /\ held.mode = mode /\ held.secret = secret
      /\ [held EXCEPT !.at = "create"] \in Helds /\ [held EXCEPT !.at = "create"].at = "create"
      /\ [held EXCEPT !.at = "create"].op = op
      /\ [held EXCEPT !.at = "create"].mode = mode /\ [held EXCEPT !.at = "create"].secret = secret
  BY DEF Conn!Idle, Helds
<1>3. /\ IF keyFile = None THEN call' = [call EXCEPT ![c] = [held EXCEPT !.at = "create"]]
                           ELSE Conn!ReadKey(c, held)
      /\ UNCHANGED <<saved, keyFile, raced, rows>>
  BY <1>1 DEF Conn!Begin
<1> HIDE DEF held
<1>4. CASE keyFile = None
  <2>1. Holds([held EXCEPT !.at = "create"], keyFile)
    BY <1>1, <1>2 DEF Holds
  <2> QED
    BY <1>2, <1>3, <1>4, <2>1, OneCall
<1>5. CASE keyFile = "empty"
  BY <1>3, <1>5, IdleHolds, OneCall DEF ServicesAssumption, Conn!ReadKey, Conn!Ends, ConnInv
<1>6. CASE keyFile # None /\ keyFile # "empty"
  <2>1. keyFile \in Calls /\ Conn!Load(c, held, keyFile)
    BY <1>3, <1>6 DEF ConnInv, Conn!ReadKey
  <2>2. PICK new : /\ call' = [call EXCEPT ![c] = new]
                   /\ new.at \in {"idle", "commit"}
                   /\ Holds(new, keyFile)
    BY <1>1, <1>2, <2>1, LoadKeepsConn
  <2> QED
    BY <1>3, <2>2, OneCall
<1> QED
  BY <1>4, <1>5, <1>6

\* O_EXCL lets one call write the file, and what it writes is what the others read.
LEMMA KeyKeepsConn ==
  ASSUME ConnInv, ServicesAssumption, NEW c \in Calls, Conn!CreateKey(c) \/ Conn!WriteKey(c)
  PROVE  ConnInv'
<1>1. Holds(call[c], keyFile) /\ call[c] \in Helds
  BY DEF ConnInv, Holds
<1>2. CASE Conn!CreateKey(c)
  <2>1. CASE keyFile = None
    <3>1. /\ call[c].at = "create" /\ keyFile' = "empty"
          /\ call' = [call EXCEPT ![c].at = "write"]
          /\ UNCHANGED <<saved, raced, rows>>
      BY <1>2, <2>1 DEF Conn!CreateKey
    <3>2. /\ call' = [d \in Calls |-> call'[d]] /\ DOMAIN call' = Calls
          /\ call'[c] = [call[c] EXCEPT !.at = "write"]
          /\ \A d \in Calls : d # c => call'[d] = call[d]
      BY <3>1 DEF ConnInv
    <3>3. \A d \in Calls : call[d].at \notin {"write", "commit"}
      BY <2>1 DEF ConnInv, Holds, ServicesAssumption
    <3>4. Holds(call'[c], keyFile') /\ call'[c].at = "write"
      BY <1>1, <3>1, <3>2 DEF Holds, Helds
    <3>5. \A d \in Calls : d # c => Holds(call'[d], keyFile')
      BY <3>2, <3>3 DEF ConnInv, Holds
    <3>6. RowHolds(saved', keyFile', raced')
      BY <2>1, <3>1 DEF ConnInv, RowHolds, ConnRows, ServicesAssumption
    <3> QED
      BY <3>1, <3>2, <3>3, <3>4, <3>5, <3>6 DEF ConnInv
  <2>2. CASE keyFile # None
    <3>1. Conn!ReadKey(c, call[c]) /\ UNCHANGED <<saved, keyFile, raced, rows>>
      BY <1>2, <2>2 DEF Conn!CreateKey
    <3>2. CASE keyFile = "empty"
      BY <3>1, <3>2, IdleHolds, OneCall DEF Conn!ReadKey, Conn!Ends
    <3>3. CASE keyFile # "empty"
      <4>1. keyFile \in Calls /\ Conn!Load(c, call[c], keyFile)
        BY <2>2, <3>1, <3>3 DEF ConnInv, Conn!ReadKey
      <4>2. call[c].op = "save" => <<call[c].mode, call[c].secret>> \in Entries
        BY <1>1, <1>2 DEF Holds, Conn!CreateKey
      <4>3. PICK new : /\ call' = [call EXCEPT ![c] = new]
                       /\ new.at \in {"idle", "commit"}
                       /\ Holds(new, keyFile)
        BY <1>1, <4>1, <4>2, LoadKeepsConn
      <4> QED
        BY <3>1, <4>3, OneCall
    <3> QED
      BY <3>2, <3>3
  <2> QED
    BY <2>1, <2>2
<1>3. CASE Conn!WriteKey(c)
  <2>1. /\ call[c].at = "write" /\ keyFile' = c
        /\ Conn!Load(c, call[c], c)
        /\ UNCHANGED <<saved, raced, rows>>
    BY <1>3 DEF Conn!WriteKey
  <2>2. PICK new : /\ call' = [call EXCEPT ![c] = new]
                   /\ new.at \in {"idle", "commit"}
                   /\ Holds(new, c)
    <3>1. call[c].op = "save" => <<call[c].mode, call[c].secret>> \in Entries
      BY <1>1, <2>1 DEF Holds
    <3> QED
      BY <1>1, <2>1, <3>1, LoadKeepsConn
  <2>3. keyFile = "empty" /\ \A d \in Calls : d # c => call[d].at \notin {"write", "commit"}
    BY <1>1, <2>1 DEF ConnInv, Holds, ServicesAssumption
  <2>4. /\ call' = [d \in Calls |-> call'[d]] /\ DOMAIN call' = Calls
        /\ call'[c] = new
        /\ \A d \in Calls : d # c => call'[d] = call[d]
    BY <2>2 DEF ConnInv
  <2>5. \A d \in Calls : d # c => Holds(call'[d], keyFile')
    BY <2>3, <2>4 DEF ConnInv, Holds
  <2>6. RowHolds(saved', keyFile', raced')
    BY <2>1, <2>3 DEF ConnInv, RowHolds, ConnRows, ServicesAssumption
  <2> QED
    BY <2>1, <2>2, <2>3, <2>4, <2>5, <2>6 DEF ConnInv
<1> QED
  BY <1>2, <1>3

\* The user removes the file while nothing is under way.
LEMMA RemoveKeepsConn ==
  ASSUME ConnInv, Conn!RemoveKey
  PROVE  ConnInv'
<1>1. /\ keyFile' = None /\ raced' = raced \cup {"key"}
      /\ UNCHANGED <<saved, call, rows>>
      /\ \A c \in Calls : call[c] = Conn!Idle
  BY DEF Conn!RemoveKey
<1>2. \A c \in Calls : Holds(call'[c], keyFile')
  BY <1>1, IdleHolds
<1>3. RowHolds(saved', keyFile', raced')
  BY <1>1 DEF ConnInv, RowHolds
<1> QED
  BY <1>1, <1>2, <1>3 DEF ConnInv

-----------------------------------------------------------------------------
\* What is committed.

LEMMA CommitKeepsConn ==
  ASSUME ConnInv, NEW c \in Calls, Conn!Ends(c), UNCHANGED keyFile,
         RowHolds(saved', keyFile, raced'), rows' \in Nat,
         raced' \subseteq {"saves", "validation", "key"}
  PROVE  ConnInv'
BY IdleHolds DEF ConnInv, Conn!Ends

\* The row after an update: every field is what it was or what the call writes, the
\* one that was if the call has not changed what it loaded.
LEMMA WritesOneRow ==
  ASSUME ConnInv, NEW c \in Calls, call[c].at = "commit", call[c].loaded # None,
         NEW new \in ConnRows, new.id = call[c].loaded.id, Conn!Writes(c, new),
         saved # None, saved.id = call[c].loaded.id,
         call[c].op # "save" => new.box = call[c].loaded.box /\ new.mode = call[c].loaded.mode
  PROVE  /\ saved'.id = saved.id
         /\ saved'.mode = IF new.mode # call[c].loaded.mode THEN new.mode ELSE saved.mode
         /\ saved'.status = IF new.status # call[c].loaded.status THEN new.status ELSE saved.status
         /\ saved'.box = IF call[c].op = "save" THEN new.box ELSE saved.box
         /\ saved' \in ConnRows
<1> DEFINE prior == call[c].loaded
           dirty(f) == new[f] # prior[f] \/ (f = "box" /\ call[c].op = "save")
<1>1. saved' = [f \in DOMAIN saved |-> IF dirty(f) THEN new[f] ELSE saved[f]]
  BY DEF Conn!Writes
<1>2. saved \in ConnRows /\ prior \in ConnRows
  BY DEF ConnInv, RowHolds, Holds, Helds
<1>3. DOMAIN saved = {"id", "mode", "status", "box"}
  BY <1>2 DEF ConnRows
<1>4. /\ saved'.id = IF new.id # prior.id THEN new.id ELSE saved.id
      /\ saved'.mode = IF new.mode # prior.mode THEN new.mode ELSE saved.mode
      /\ saved'.status = IF new.status # prior.status THEN new.status ELSE saved.status
      /\ saved'.box = IF new.box # prior.box \/ call[c].op = "save" THEN new.box ELSE saved.box
  BY <1>1, <1>3
<1>5. saved' = [id |-> saved'.id, mode |-> saved'.mode, status |-> saved'.status, box |-> saved'.box]
  BY <1>1, <1>3
<1>6. /\ saved'.id \in Nat /\ saved'.mode \in Modes /\ saved'.status \in RowStatuses
      /\ saved'.box \in [mode : Modes, key : Calls, secret : Secrets]
      /\ <<saved'.box.mode, saved'.box.secret>> \in Entries
  BY <1>2, <1>4 DEF ConnRows
<1>7. saved' \in ConnRows
  <2> DEFINE i == saved'.id
             m == saved'.mode
             s == saved'.status
             b == saved'.box
  <2>1. saved' = [id |-> i, mode |-> m, status |-> s, box |-> b]
    BY <1>5
  <2>2. i \in Nat /\ m \in Modes /\ s \in RowStatuses
        /\ b \in [mode : Modes, key : Calls, secret : Secrets]
        /\ <<b.mode, b.secret>> \in Entries
    BY <1>6
  <2> HIDE DEF i, m, s, b
  <2> QED
    BY <2>1, <2>2 DEF ConnRows
<1> QED
  BY <1>4, <1>7

\* A saved box is sealed with the key of the file, over the mode beside it unless
\* another save changed that meanwhile.
LEMMA SavesKeepConn ==
  ASSUME ConnInv, NEW c \in Calls, Conn!Insert(c) \/ Conn!Save(c)
  PROVE  ConnInv'
<1> DEFINE box == Conn!Seal(Conn!AuthenticatedMode(c), call[c].key, call[c].secret)
<1>1. /\ call[c].at = "commit" /\ call[c].op = "save"
      /\ Conn!Ends(c) /\ UNCHANGED keyFile
  BY DEF Conn!Insert, Conn!Save
<1>2. /\ <<call[c].mode, call[c].secret>> \in Entries
      /\ keyFile \in Calls /\ call[c].key = keyFile
      /\ call[c].loaded \in ConnRows \cup {None}
  BY <1>1 DEF ConnInv, Holds, Helds
<1>3. call[c].mode \in Modes /\ call[c].secret \in Secrets
  <2> DEFINE e == <<call[c].mode, call[c].secret>>
  <2>1. e \in Entries /\ e[1] = call[c].mode /\ e[2] = call[c].secret
    BY <1>2
  <2> HIDE DEF e
  <2>2. e[1] \in Modes /\ e[2] \in Secrets
    BY <2>1 DEF Modes, Secrets
  <2> QED
    BY <2>1, <2>2
<1>4. /\ box \in [mode : Modes, key : Calls, secret : Secrets]
      /\ box.mode = call[c].mode /\ box.key = keyFile /\ box.secret = call[c].secret
  BY <1>2, <1>3 DEF Conn!Seal, Conn!AuthenticatedMode
<1> HIDE DEF box
<1>5. CASE Conn!Insert(c)
  <2>1. CASE saved = None /\ rows < MaxRows
    <3> DEFINE stored == [id |-> rows, mode |-> call[c].mode, status |-> "configured", box |-> box]
    <3>1. saved' = stored /\ rows' = rows + 1 /\ raced' = {}
      BY <1>5, <2>1 DEF Conn!Insert, box
    <3>2. stored \in ConnRows
      BY <1>2, <1>3, <1>4 DEF ConnRows, RowStatuses, ConnInv
    <3>3. stored.mode = box.mode /\ stored.box = box /\ stored.status = "configured"
      BY <1>4
    <3> HIDE DEF stored
    <3>4. RowHolds(saved', keyFile, raced') /\ rows' \in Nat
      BY <1>4, <3>1, <3>2, <3>3 DEF RowHolds, ConnInv
    <3> QED
      BY <1>1, <3>1, <3>4, CommitKeepsConn
  <2>2. CASE ~(saved = None /\ rows < MaxRows)
    <3>1. UNCHANGED <<saved, rows, raced>>
      BY <1>5, <2>2 DEF Conn!Insert
    <3> QED
      BY <1>1, <3>1, CommitKeepsConn DEF ConnInv
  <2> QED
    BY <2>1, <2>2
<1>6. CASE Conn!Save(c)
  <2> DEFINE prior == call[c].loaded
             new == [prior EXCEPT !.mode = call[c].mode, !.status = "configured", !.box = box]
  <2>1. /\ prior # None /\ prior \in ConnRows
        /\ Conn!Writes(c, new)
        /\ rows' = rows
        /\ raced' = IF saved = None \/ saved.id # prior.id THEN raced
                    ELSE (IF saved.mode # prior.mode THEN {"saves"} ELSE {})
                         \cup (IF saved.status # prior.status THEN {"validation"} ELSE {})
    BY <1>2, <1>6 DEF Conn!Save, Conn!StatusAfterSave, box
  <2>2. /\ new \in ConnRows /\ new.id = prior.id /\ new.mode = call[c].mode
        /\ new.status = "configured" /\ new.box = box
    BY <1>2, <1>3, <1>4, <2>1 DEF ConnRows, RowStatuses
  <2> HIDE DEF new
  <2>3. CASE saved = None \/ saved.id # prior.id
    <3>1. UNCHANGED <<saved, raced, rows>>
      BY <2>1, <2>3 DEF Conn!Writes
    <3> QED
      BY <1>1, <3>1, CommitKeepsConn DEF ConnInv
  <2>4. CASE saved # None /\ saved.id = prior.id
    <3>1. /\ saved'.mode = IF new.mode # prior.mode THEN new.mode ELSE saved.mode
          /\ saved'.status = IF new.status # prior.status THEN new.status ELSE saved.status
          /\ saved'.box = box
          /\ saved' \in ConnRows
      BY <1>1, <2>1, <2>2, <2>4, WritesOneRow
    <3>2. /\ "saves" \in raced' <=> saved.mode # prior.mode
          /\ "validation" \in raced' <=> saved.status # prior.status
          /\ raced' \subseteq {"saves", "validation", "key"}
      BY <2>1, <2>4
    <3>3. "saves" \notin raced' => saved'.box.mode = saved'.mode
      BY <1>4, <2>2, <3>1, <3>2
    <3>4. "validation" \notin raced' => saved'.status # "connected"
      BY <2>2, <3>1, <3>2
    <3>5. RowHolds(saved', keyFile, raced')
      BY <1>4, <3>1, <3>3, <3>4 DEF RowHolds
    <3> QED
      BY <1>1, <2>1, <3>2, <3>5, CommitKeepsConn DEF ConnInv
  <2> QED
    BY <2>3, <2>4
<1> QED
  BY <1>5, <1>6

\* A verdict marks the row connected only if the box it judged is accepted, and a
\* box saved meanwhile is noted.
LEMMA StatusKeepsConn ==
  ASSUME ConnInv, NEW c \in Calls, Conn!Disconnect(c) \/ Conn!Validate(c) \/ Conn!CheckAll(c)
  PROVE  ConnInv'
<1> DEFINE prior == call[c].loaded
<1>1. /\ call[c].at = "commit" /\ call[c].op # "save"
      /\ Conn!Ends(c) /\ UNCHANGED <<keyFile, rows>>
      /\ raced \subseteq raced' /\ raced' \subseteq raced \cup {"validation"}
  BY DEF Conn!Disconnect, Conn!Validate, Conn!CheckAll
<1>2. prior # None /\ prior \in ConnRows /\ call[c].key = keyFile
  BY <1>1 DEF ConnInv, Holds, Helds
<1>3. PICK status \in RowStatuses :
        /\ Conn!Writes(c, [prior EXCEPT !.status = status])
        /\ status = "connected" /\ status # prior.status =>
             /\ prior.box.secret \in Accepted
             /\ saved # None /\ saved.box # prior.box => "validation" \in raced'
  <2>1. CASE Conn!Disconnect(c)
    BY <2>1 DEF Conn!Disconnect, RowStatuses
  <2>2. CASE Conn!CheckAll(c)
    <3>1. Conn!Checked(c) \in RowStatuses
          /\ (Conn!Checked(c) = "connected" => Conn!Checked(c) = prior.status)
      BY <1>2 DEF Conn!Checked, RowStatuses, ConnRows
    <3> QED
      BY <2>2, <3>1 DEF Conn!CheckAll
  <2>3. CASE Conn!Validate(c)
    <3>1. PICK v \in Conn!Verdicts(c) : Conn!Writes(c, [prior EXCEPT !.status = v])
      BY <2>3 DEF Conn!Validate
    <3>2. v \in RowStatuses /\ (v = "connected" => prior.box.secret \in Accepted)
      BY <3>1 DEF Conn!Verdicts, RowStatuses
    <3>3. saved # None /\ saved.box # prior.box => "validation" \in raced'
      BY <2>3 DEF Conn!Validate
    <3> QED
      BY <3>1, <3>2, <3>3
  <2> QED
    BY <2>1, <2>2, <2>3
<1> DEFINE new == [prior EXCEPT !.status = status]
<1>4. /\ new \in ConnRows /\ new.id = prior.id /\ new.mode = prior.mode /\ new.box = prior.box
      /\ new.status = status
  BY <1>2 DEF ConnRows
<1>5. Conn!Writes(c, new)
  BY <1>3
<1> HIDE DEF new
<1>6. raced' \subseteq {"saves", "validation", "key"}
  BY <1>1 DEF ConnInv
<1>7. CASE saved = None \/ saved.id # prior.id
  <2>1. UNCHANGED saved
    BY <1>5, <1>7 DEF Conn!Writes
  <2>2. RowHolds(saved', keyFile, raced')
    BY <1>1, <2>1 DEF ConnInv, RowHolds
  <2> QED
    BY <1>1, <1>6, <2>2, CommitKeepsConn DEF ConnInv
<1>8. CASE saved # None /\ saved.id = prior.id
  <2>1. /\ saved'.mode = saved.mode /\ saved'.box = saved.box
        /\ saved'.status = IF status # prior.status THEN status ELSE saved.status
        /\ saved' \in ConnRows
    BY <1>1, <1>2, <1>4, <1>5, <1>8, WritesOneRow
  <2>2. saved'.status = "connected" /\ "validation" \notin raced' => saved'.box.secret \in Accepted
    BY <1>1, <1>3, <1>8, <2>1 DEF ConnInv, RowHolds
  <2>3. RowHolds(saved', keyFile, raced')
    BY <1>1, <1>8, <2>1, <2>2 DEF ConnInv, RowHolds
  <2> QED
    BY <1>1, <1>6, <2>3, CommitKeepsConn DEF ConnInv
<1> QED
  BY <1>7, <1>8

LEMMA ConnStep == ConnInv /\ ServicesAssumption /\ (Conn!Next \/ UNCHANGED connVars) => ConnInv'
<1> SUFFICES ASSUME ConnInv, ServicesAssumption, Conn!Next \/ UNCHANGED connVars PROVE ConnInv'
  OBVIOUS
<1>1. CASE UNCHANGED connVars
  BY <1>1 DEF connVars, ConnInv
<1>2. ASSUME NEW c \in Calls, Conn!Delete(c) PROVE ConnInv'
  <2>1. RowHolds(saved', keyFile, raced')
    BY <1>2 DEF Conn!Delete, ConnInv, RowHolds
  <2> QED
    BY <1>2, <2>1, CommitKeepsConn DEF Conn!Delete, ConnInv
<1>3. ASSUME NEW c \in Calls, Conn!Crash(c) PROVE ConnInv'
  BY <1>3, IdleHolds, OneCall DEF Conn!Crash, Conn!Ends
<1> QED
  BY <1>1, <1>2, <1>3, BeginKeepsConn, KeyKeepsConn, SavesKeepConn, StatusKeepsConn,
     RemoveKeepsConn DEF Conn!Next

\* The saved connection can be decrypted and a connected one was accepted, for any
\* number of overlapping calls, save for the overlaps the promise names.
THEOREM ConnectionsKeepTheirPromise == Spec => []ConnectionPromise
<1>1. Init => ConnInv
  BY InitConn DEF Init
<1>2. ConnInv /\ [Next]_allVars => ConnInv'
  <2> SUFFICES ASSUME ConnInv, [Next]_allVars PROVE ConnInv'
    OBVIOUS
  <2>1. Conn!Next \/ UNCHANGED connVars
    BY DEF Next, Rest, allVars
  <2> QED
    BY <2>1, ConnStep, ServicesAssumption
<1>3. ConnInv => ConnectionPromise
  <2> SUFFICES ASSUME ConnInv PROVE ConnectionPromise
    OBVIOUS
  <2>1. Conn!TypeOK
    BY DEF Conn!TypeOK, ConnInv, RowHolds, ConnRows, RowStatuses
  <2>2. Conn!SavedIsReadable /\ Conn!ConnectedIsAccepted
    BY DEF Conn!SavedIsReadable, Conn!ConnectedIsAccepted, Conn!Opens, ConnInv, RowHolds
  <2> QED
    BY <2>1, <2>2 DEF ConnectionPromise
<1> QED
  BY <1>1, <1>2, <1>3, PTL DEF Spec

-----------------------------------------------------------------------------
\* The audit of decisions.

AuditSteps  == {"idle", "insert", "raised", "mirror", "delete", "prune", "replace"}
RunStates   == {"none", "running", "completed", "deleted"}
AuditEvents == [seq : Nat, by : Writers, prev : {None} \cup (Nat \X Writers)]
Lines       == [run : Runs, event : AuditEvents]

\* The event that follows the one a writer has seen.
Follows(w, e) ==
  IF e = None THEN [seq |-> 1, by |-> w, prev |-> None]
  ELSE [seq |-> e.seq + 1, by |-> w, prev |-> <<e.seq, e.by>>]

Chained(s) ==
  /\ s \in Seq(AuditEvents)
  /\ \A i \in DOMAIN s :
       /\ s[i].seq = i
       /\ s[i].prev = IF i = 1 THEN None ELSE <<i - 1, s[i - 1].by>>

\* A line shows an event of the ledger, as long as its run is kept.
Recorded(l, runs, ledger) ==
  /\ l \in Lines
  /\ runs[l.run] # "deleted" => \E i \in DOMAIN ledger[l.run] : ledger[l.run][i] = l.event

\* What a writer carries from one of its steps to the next: the event it saw is still
\* where it was, unless the run is gone, and what it will mirror is recorded.
Carries(w, at, r, e, lines, log, runs, ledger) ==
  /\ at \in AuditSteps
  /\ at \in {"insert", "mirror"} => r \in Runs /\ e \in AuditEvents \cup {None}
  /\ at = "insert" /\ runs[r] # "deleted" /\ e # None =>
       e.seq \in DOMAIN ledger[r] /\ ledger[r][e.seq] = e
  /\ at = "mirror" => Recorded([run |-> r, event |-> Follows(w, e)], runs, ledger)
  /\ at = "replace" => \A l \in lines : Recorded(l, runs, ledger)
  /\ log \in Seq(Lines) /\ Len(log) <= MirrorQueue
  /\ \A i \in DOMAIN log : Recorded(log[i], runs, ledger)

OfWriters(f) == f = [w \in Writers |-> f[w]] /\ DOMAIN f = Writers

AuditInv ==
  /\ run \in [Runs -> RunStates]
  /\ events \in [Runs -> Seq(AuditEvents)]
  /\ \A r \in Runs : Chained(events[r])
  /\ \A l \in mirror : Recorded(l, run, events)
  /\ OfWriters(step) /\ OfWriters(about) /\ OfWriters(seen)
  /\ OfWriters(backlog) /\ OfWriters(kept)
  /\ \A w \in Writers :
       Carries(w, step[w], about[w], seen[w], kept[w], backlog[w], run, events)

\* The ledger of a run only grows, until the run is deleted for good.
Grows ==
  \A r \in Runs :
    \/ run'[r] = "deleted"
    \/ /\ run[r] # "deleted"
       /\ DOMAIN events[r] \subseteq DOMAIN events'[r]
       /\ \A i \in DOMAIN events[r] : events'[r][i] = events[r][i]

LEMMA RecordedStays ==
  ASSUME Grows, NEW l, Recorded(l, run, events)
  PROVE  Recorded(l, run', events')
BY DEF Grows, Recorded, Lines

LEMMA CarriesStays ==
  ASSUME Grows, NEW w, NEW at, NEW r, NEW e, NEW lines, NEW log,
         Carries(w, at, r, e, lines, log, run, events)
  PROVE  Carries(w, at, r, e, lines, log, run', events')
<1>1. \A l : Recorded(l, run, events) => Recorded(l, run', events')
  BY RecordedStays
<1>2. at = "insert" /\ run'[r] # "deleted" /\ e # None =>
        e.seq \in DOMAIN events'[r] /\ events'[r][e.seq] = e
  BY DEF Carries, Grows
<1> QED
  BY <1>1, <1>2 DEF Carries

LEMMA InitAudit == Audit!Init /\ ServicesAssumption => AuditInv
<1> SUFFICES ASSUME Audit!Init, ServicesAssumption PROVE AuditInv
  OBVIOUS
<1>1. \A r \in Runs : Chained(events[r])
  BY DEF Audit!Init, Chained
<1>2. \A w \in Writers :
        Carries(w, step[w], about[w], seen[w], kept[w], backlog[w], run, events)
  BY DEF Audit!Init, Carries, AuditSteps, ServicesAssumption
<1>3. /\ run \in [Runs -> RunStates] /\ events \in [Runs -> Seq(AuditEvents)]
      /\ \A l \in mirror : Recorded(l, run, events)
  BY DEF Audit!Init, RunStates
<1>4. /\ OfWriters(step) /\ OfWriters(about) /\ OfWriters(seen)
      /\ OfWriters(backlog) /\ OfWriters(kept)
  BY DEF Audit!Init, OfWriters
<1> QED
  BY <1>1, <1>2, <1>3, <1>4 DEF AuditInv

\* A step of one writer: what the others carry stays as true as the ledger grows.
LEMMA OneWriter ==
  ASSUME AuditInv, NEW w \in Writers, Grows,
         run' \in [Runs -> RunStates], events' \in [Runs -> Seq(AuditEvents)],
         \A r \in Runs : Chained(events'[r]),
         \A l \in mirror' : Recorded(l, run', events'),
         NEW at, NEW r, NEW e, NEW lines, NEW log,
         step' = [step EXCEPT ![w] = at], about' = [about EXCEPT ![w] = r],
         seen' = [seen EXCEPT ![w] = e], kept' = [kept EXCEPT ![w] = lines],
         backlog' = [backlog EXCEPT ![w] = log],
         Carries(w, at, r, e, lines, log, run', events')
  PROVE  AuditInv'
<1>1. \A v \in Writers :
        Carries(v, step[v], about[v], seen[v], kept[v], backlog[v], run', events')
  BY CarriesStays DEF AuditInv
<1>2. \A v \in Writers : v # w =>
        /\ step'[v] = step[v] /\ about'[v] = about[v] /\ seen'[v] = seen[v]
        /\ kept'[v] = kept[v] /\ backlog'[v] = backlog[v]
  BY DEF AuditInv, OfWriters
<1>3. /\ step'[w] = at /\ about'[w] = r /\ seen'[w] = e /\ kept'[w] = lines
      /\ backlog'[w] = log
  BY DEF AuditInv, OfWriters
<1>4. /\ OfWriters(step') /\ OfWriters(about') /\ OfWriters(seen')
      /\ OfWriters(backlog') /\ OfWriters(kept')
  BY DEF AuditInv, OfWriters
<1>5. \A v \in Writers :
        Carries(v, step'[v], about'[v], seen'[v], kept'[v], backlog'[v], run', events')
  BY <1>1, <1>2, <1>3
<1> QED
  BY <1>4, <1>5 DEF AuditInv, OfWriters

LEMMA SameFor ==
  ASSUME NEW f, OfWriters(f), NEW w \in Writers
  PROVE  f = [f EXCEPT ![w] = f[w]]
BY DEF OfWriters

LEMMA SameLedgerGrows == UNCHANGED <<run, events>> => Grows
BY DEF Grows

\* A step of one writer that leaves the ledger and the mirror alone.
LEMMA OneWriterReads ==
  ASSUME AuditInv, NEW w \in Writers, UNCHANGED <<run, events, mirror>>,
         NEW at, NEW r, NEW e, NEW lines, NEW log,
         step' = [step EXCEPT ![w] = at], about' = [about EXCEPT ![w] = r],
         seen' = [seen EXCEPT ![w] = e], kept' = [kept EXCEPT ![w] = lines],
         backlog' = [backlog EXCEPT ![w] = log],
         Carries(w, at, r, e, lines, log, run, events)
  PROVE  AuditInv'
<1>1. Grows
  BY SameLedgerGrows
<1>2. /\ run' \in [Runs -> RunStates] /\ events' \in [Runs -> Seq(AuditEvents)]
      /\ \A q \in Runs : Chained(events'[q])
      /\ \A l \in mirror' : Recorded(l, run', events')
      /\ Carries(w, at, r, e, lines, log, run', events')
  BY DEF AuditInv
<1> QED
  BY <1>1, <1>2, OneWriter

LEMMA LedgerStep ==
  ASSUME AuditInv, Grows, run' \in [Runs -> RunStates], UNCHANGED events,
         UNCHANGED <<step, about, seen, kept, backlog, mirror>>
  PROVE  AuditInv'
BY RecordedStays, CarriesStays DEF AuditInv

\* Runs start, end and age.
LEMMA RunsKeepAudit ==
  ASSUME AuditInv,
         \/ \E w \in Writers, r \in Runs : Audit!StartRun(w, r) \/ Audit!CompleteRun(w, r)
         \/ \E r \in Runs : Audit!Age(r)
         \/ UNCHANGED auditVars
  PROVE  AuditInv'
<1>1. /\ UNCHANGED events /\ UNCHANGED <<step, about, seen, kept, backlog, mirror>>
      /\ run' \in [Runs -> RunStates]
      /\ \A r \in Runs : run'[r] = "deleted" \/ run[r] # "deleted"
  BY DEF AuditInv, Audit!StartRun, Audit!CompleteRun, Audit!Age, auditVars, RunStates
<1>2. Grows
  BY <1>1 DEF Grows
<1> QED
  BY <1>1, <1>2, LedgerStep

LEMMA ReadKeepsAudit ==
  ASSUME AuditInv, NEW w \in Writers, NEW r \in Runs, Audit!ReadLatest(w, r)
  PROVE  AuditInv'
<1> DEFINE e == IF events[r] = <<>> THEN None ELSE events[r][Len(events[r])]
<1>1. /\ step' = [step EXCEPT ![w] = "insert"] /\ about' = [about EXCEPT ![w] = r]
      /\ seen' = [seen EXCEPT ![w] = e]
      /\ kept' = [kept EXCEPT ![w] = kept[w]] /\ backlog' = [backlog EXCEPT ![w] = backlog[w]]
      /\ UNCHANGED <<run, events, mirror>>
  BY SameFor DEF Audit!ReadLatest, Audit!Goto, AuditInv
<1>2. e # None => /\ e \in AuditEvents /\ e.seq \in DOMAIN events[r] /\ events[r][e.seq] = e
  <2> SUFFICES ASSUME events[r] # <<>>
               PROVE  LET n == Len(events[r])
                      IN  /\ events[r][n] \in AuditEvents
                          /\ n \in DOMAIN events[r]
                          /\ events[r][n].seq = n
    BY Zenon
  <2>1. events[r] \in Seq(AuditEvents) /\ Chained(events[r])
    BY DEF AuditInv
  <2>2. Len(events[r]) \in DOMAIN events[r]
    BY <2>1, EmptySeq, LenProperties
  <2>3. events[r][Len(events[r])] \in AuditEvents
    BY <2>1, <2>2, ElementOfSeq
  <2>4. events[r][Len(events[r])].seq = Len(events[r])
    BY <2>1, <2>2 DEF Chained
  <2> QED
    BY <2>2, <2>3, <2>4
<1> HIDE DEF e
<1>3. Carries(w, "insert", r, e, kept[w], backlog[w], run, events)
  <2>1. Carries(w, step[w], about[w], seen[w], kept[w], backlog[w], run, events)
    BY DEF AuditInv
  <2> QED
    BY <1>2, <2>1 DEF Carries, AuditSteps
<1> QED
  BY <1>1, <1>3, OneWriterReads

\* The constraint refuses a number that is taken, so that the event inserted follows
\* the last one of its run, which is the one the writer saw.
LEMMA InsertKeepsAudit ==
  ASSUME AuditInv, NEW w \in Writers, Audit!InsertEvent(w)
  PROVE  AuditInv'
<1> DEFINE r == about[w]
           s == events[r]
           e == Audit!NextEvent(w)
<1>1. /\ step[w] = "insert" /\ ~Audit!Refused(w)
      /\ events' = [events EXCEPT ![r] = Append(s, e)]
      /\ step' = [step EXCEPT ![w] = "mirror"]
      /\ about' = [about EXCEPT ![w] = r] /\ seen' = [seen EXCEPT ![w] = seen[w]]
      /\ kept' = [kept EXCEPT ![w] = kept[w]] /\ backlog' = [backlog EXCEPT ![w] = backlog[w]]
      /\ UNCHANGED <<run, mirror>>
  BY SameFor DEF Audit!InsertEvent, Audit!Goto, AuditInv
<1>2. Carries(w, "insert", r, seen[w], kept[w], backlog[w], run, events)
  BY <1>1 DEF AuditInv
<1>3. /\ r \in Runs /\ run[r] # "deleted" /\ s \in Seq(AuditEvents) /\ Chained(s)
      /\ \A i \in DOMAIN s : s[i].seq # e.seq
      /\ e = Follows(w, seen[w])
      /\ seen[w] \in AuditEvents \cup {None}
      /\ seen[w] # None => seen[w].seq \in DOMAIN s /\ s[seen[w].seq] = seen[w]
  BY <1>1, <1>2 DEF AuditInv, Carries, Audit!Refused, Audit!NextEvent, Follows
<1>4. e \in AuditEvents
  BY <1>3 DEF Follows, AuditEvents
<1> HIDE DEF e
<1>5. e.seq = Len(s) + 1 /\ e.prev = IF Len(s) = 0 THEN None ELSE <<Len(s), s[Len(s)].by>>
  <2>1. Len(s) \in Nat /\ DOMAIN s = 1 .. Len(s) /\ \A i \in DOMAIN s : s[i].seq = i
    BY <1>3, LenProperties DEF Chained
  <2>2. CASE seen[w] = None
    <3>1. e.seq = 1 /\ e.prev = None
      BY <1>3, <2>2 DEF Follows
    <3> QED
      BY <1>3, <2>1, <3>1
  <2>3. CASE seen[w] # None
    <3>1. /\ e.seq = seen[w].seq + 1 /\ e.prev = <<seen[w].seq, seen[w].by>>
          /\ seen[w].seq \in DOMAIN s /\ s[seen[w].seq] = seen[w]
      BY <1>3, <2>3 DEF Follows
    <3>2. seen[w].seq = Len(s)
      <4>1. e.seq \notin DOMAIN s
        BY <1>3, <2>1
      <4> QED
        BY <2>1, <3>1, <4>1
    <3> QED
      BY <2>1, <3>1, <3>2
  <2> QED
    BY <2>2, <2>3
<1>6. /\ Append(s, e) \in Seq(AuditEvents) /\ Len(Append(s, e)) = Len(s) + 1
      /\ Append(s, e)[Len(s) + 1] = e
      /\ \A i \in 1 .. Len(s) : Append(s, e)[i] = s[i]
      /\ DOMAIN Append(s, e) = 1 .. (Len(s) + 1) /\ DOMAIN s = 1 .. Len(s) /\ Len(s) \in Nat
  BY <1>3, <1>4, AppendProperties, LenProperties
<1> DEFINE t == Append(s, e)
<1> HIDE DEF t
<1>7. Chained(t)
  <2>1. ASSUME NEW i \in DOMAIN t
        PROVE  t[i].seq = i /\ t[i].prev = IF i = 1 THEN None ELSE <<i - 1, t[i - 1].by>>
    <3>1. CASE i = Len(s) + 1
      BY <1>5, <1>6, <3>1 DEF t
    <3>2. CASE i # Len(s) + 1
      <4>1. i \in DOMAIN s /\ t[i] = s[i] /\ (i # 1 => i - 1 \in 1 .. Len(s) /\ t[i - 1] = s[i - 1])
        BY <1>6, <2>1, <3>2 DEF t
      <4> QED
        BY <1>3, <4>1 DEF Chained
    <3> QED
      BY <3>1, <3>2
  <2> QED
    BY <1>6, <2>1 DEF Chained, t
<1>8. /\ events' \in [Runs -> Seq(AuditEvents)]
      /\ events'[r] = t
      /\ \A q \in Runs : q # r => events'[q] = events[q]
  BY <1>1, <1>3, <1>6 DEF AuditInv, t
<1>9. Grows
  BY <1>1, <1>3, <1>6, <1>8 DEF Grows, t
<1>10. \A q \in Runs : Chained(events'[q])
  BY <1>7, <1>8 DEF AuditInv
<1>11. \A l \in mirror' : Recorded(l, run', events')
  BY <1>1, <1>9, RecordedStays DEF AuditInv
<1>12. Recorded([run |-> r, event |-> Follows(w, seen[w])], run', events')
  <2>1. [run |-> r, event |-> e] \in Lines
    BY <1>3, <1>4 DEF Lines
  <2>2. Len(s) + 1 \in DOMAIN events'[r] /\ events'[r][Len(s) + 1] = e
    BY <1>6, <1>8 DEF t
  <2> QED
    BY <1>3, <2>1, <2>2 DEF Recorded
<1>13. Carries(w, "mirror", r, seen[w], kept[w], backlog[w], run', events')
  <2>1. Carries(w, "insert", r, seen[w], kept[w], backlog[w], run', events')
    BY <1>2, <1>9, CarriesStays
  <2> QED
    BY <1>12, <2>1 DEF Carries, AuditSteps
<1> QED
  BY <1>1, <1>8, <1>9, <1>10, <1>11, <1>13, OneWriter DEF AuditInv

LEMMA FailKeepsAudit ==
  ASSUME AuditInv, ServicesAssumption, NEW w \in Writers,
         Audit!InsertFails(w) \/ Audit!CallerFails(w) \/ Audit!Crash(w)
  PROVE  AuditInv'
<1>1. Carries(w, step[w], about[w], seen[w], kept[w], backlog[w], run, events)
  BY DEF AuditInv
<1>2. CASE Audit!InsertFails(w)
  <2>1. /\ step' = [step EXCEPT ![w] = "raised"]
        /\ about' = [about EXCEPT ![w] = about[w]] /\ seen' = [seen EXCEPT ![w] = seen[w]]
        /\ kept' = [kept EXCEPT ![w] = kept[w]] /\ backlog' = [backlog EXCEPT ![w] = backlog[w]]
        /\ UNCHANGED <<run, events, mirror>>
    BY <1>2, SameFor DEF Audit!InsertFails, Audit!Goto, AuditInv
  <2>2. Carries(w, "raised", about[w], seen[w], kept[w], backlog[w], run, events)
    BY <1>1 DEF Carries, AuditSteps
  <2> QED
    BY <2>1, <2>2, OneWriterReads
<1>3. CASE Audit!CallerFails(w)
  <2>1. /\ step' = [step EXCEPT ![w] = "idle"]
        /\ about' = [about EXCEPT ![w] = None] /\ seen' = [seen EXCEPT ![w] = None]
        /\ kept' = [kept EXCEPT ![w] = kept[w]] /\ backlog' = [backlog EXCEPT ![w] = backlog[w]]
        /\ UNCHANGED <<run, events, mirror>>
    BY <1>3, SameFor DEF Audit!CallerFails, Audit!Goto, AuditInv
  <2>2. Carries(w, "idle", None, None, kept[w], backlog[w], run, events)
    BY <1>1 DEF Carries, AuditSteps
  <2> QED
    BY <2>1, <2>2, OneWriterReads
<1>4. CASE Audit!Crash(w)
  <2>1. /\ step' = [step EXCEPT ![w] = "idle"]
        /\ about' = [about EXCEPT ![w] = None] /\ seen' = [seen EXCEPT ![w] = None]
        /\ kept' = [kept EXCEPT ![w] = {}] /\ backlog' = [backlog EXCEPT ![w] = <<>>]
        /\ UNCHANGED <<run, events, mirror>>
    BY <1>4 DEF Audit!Crash
  <2>2. Carries(w, "idle", None, None, {}, <<>>, run, events)
    BY DEF Carries, AuditSteps, ServicesAssumption
  <2> QED
    BY <2>1, <2>2, OneWriterReads
<1> QED
  BY <1>2, <1>3, <1>4

\* A full queue drops the line; one that is queued is recorded.
LEMMA MirrorKeepsAudit ==
  ASSUME AuditInv, ServicesAssumption, NEW w \in Writers, Audit!Mirror(w)
  PROVE  AuditInv'
<1> DEFINE l == [run |-> about[w], event |-> Audit!NextEvent(w)]
           log == IF Len(backlog[w]) < MirrorQueue THEN Append(backlog[w], l) ELSE backlog[w]
<1>1. Carries(w, "mirror", about[w], seen[w], kept[w], backlog[w], run, events)
  BY DEF AuditInv, Audit!Mirror
<1>2. /\ step' = [step EXCEPT ![w] = "idle"]
      /\ about' = [about EXCEPT ![w] = None] /\ seen' = [seen EXCEPT ![w] = None]
      /\ kept' = [kept EXCEPT ![w] = kept[w]] /\ backlog' = [backlog EXCEPT ![w] = log]
      /\ UNCHANGED <<run, events, mirror>>
  BY SameFor DEF Audit!Mirror, Audit!Goto, AuditInv
<1>3. Recorded(l, run, events) /\ l \in Lines
  BY <1>1 DEF Carries, Recorded, Audit!NextEvent, Follows
<1>4. /\ backlog[w] \in Seq(Lines) /\ Len(backlog[w]) <= MirrorQueue
      /\ \A i \in DOMAIN backlog[w] : Recorded(backlog[w][i], run, events)
  BY <1>1 DEF Carries
<1>5. /\ log \in Seq(Lines) /\ Len(log) <= MirrorQueue
      /\ \A i \in DOMAIN log : Recorded(log[i], run, events)
  <2>1. CASE Len(backlog[w]) < MirrorQueue
    <3> DEFINE b == backlog[w]
    <3> HIDE DEF l
    <3>1. /\ Append(b, l) \in Seq(Lines) /\ Len(Append(b, l)) = Len(b) + 1 /\ Len(b) \in Nat
          /\ Append(b, l)[Len(b) + 1] = l
          /\ \A i \in 1 .. Len(b) : Append(b, l)[i] = b[i]
          /\ DOMAIN Append(b, l) = 1 .. (Len(b) + 1) /\ DOMAIN b = 1 .. Len(b)
      BY <1>3, <1>4, AppendProperties, LenProperties
    <3>2. \A i \in DOMAIN Append(b, l) : Recorded(Append(b, l)[i], run, events)
      BY <1>3, <1>4, <3>1
    <3>3. Len(b) + 1 <= MirrorQueue
      BY <2>1, <3>1 DEF ServicesAssumption
    <3> QED
      BY <2>1, <3>1, <3>2, <3>3
  <2>2. CASE ~(Len(backlog[w]) < MirrorQueue)
    BY <1>4, <2>2
  <2> QED
    BY <2>1, <2>2
<1> HIDE DEF log
<1>6. Carries(w, "idle", None, None, kept[w], log, run, events)
  BY <1>5 DEF Carries, AuditSteps
<1> QED
  BY <1>2, <1>6, OneWriterReads

LEMMA WriteMirrorKeepsAudit ==
  ASSUME AuditInv, ServicesAssumption, NEW w \in Writers, Audit!WriteMirror(w)
  PROVE  AuditInv'
<1>1. Carries(w, step[w], about[w], seen[w], kept[w], backlog[w], run, events)
  BY DEF AuditInv
<1>2. /\ step' = [step EXCEPT ![w] = step[w]]
      /\ about' = [about EXCEPT ![w] = about[w]] /\ seen' = [seen EXCEPT ![w] = seen[w]]
      /\ kept' = [kept EXCEPT ![w] = kept[w]] /\ backlog' = [backlog EXCEPT ![w] = <<>>]
      /\ UNCHANGED <<run, events>>
      /\ mirror' \subseteq mirror \cup {backlog[w][i] : i \in DOMAIN backlog[w]}
  BY SameFor DEF Audit!WriteMirror, AuditInv
<1>3. \A l \in mirror' : Recorded(l, run, events)
  BY <1>1, <1>2 DEF AuditInv, Carries
<1>4. Carries(w, step[w], about[w], seen[w], kept[w], <<>>, run, events)
  BY <1>1 DEF Carries, ServicesAssumption
<1> QED
  BY <1>2, <1>3, <1>4, SameLedgerGrows, OneWriter DEF AuditInv

\* A cleanup empties the ledger of the runs it deletes and of no other; a prune puts
\* back lines it has read from the mirror.
LEMMA CleanupKeepsAudit ==
  ASSUME AuditInv, NEW w \in Writers, Audit!CleanupStep(w)
  PROVE  AuditInv'
<1>1. Carries(w, step[w], about[w], seen[w], kept[w], backlog[w], run, events)
  BY DEF AuditInv
<1>2. /\ about' = [about EXCEPT ![w] = about[w]] /\ seen' = [seen EXCEPT ![w] = seen[w]]
      /\ backlog' = [backlog EXCEPT ![w] = backlog[w]]
  BY SameFor DEF AuditInv, Audit!CleanupStep, Audit!CleanupSelects, Audit!CleanupDeletes,
     Audit!PruneReads, Audit!PruneReplaces
<1>3. CASE Audit!CleanupSelects(w)
  <2> DEFINE found == {r \in Runs : run[r] = "completed" /\ old[r] # None}
  <2>1. /\ step' = [step EXCEPT ![w] = "delete"] /\ kept' = [kept EXCEPT ![w] = found]
        /\ UNCHANGED <<run, events, mirror>>
    BY <1>3 DEF Audit!CleanupSelects, Audit!Goto
  <2> HIDE DEF found
  <2>2. Carries(w, "delete", about[w], seen[w], found, backlog[w], run, events)
    BY <1>1 DEF Carries, AuditSteps
  <2> QED
    BY <1>2, <2>1, <2>2, OneWriterReads
<1>4. CASE Audit!CleanupDeletes(w)
  <2>1. /\ step' = [step EXCEPT ![w] = "prune"] /\ kept' = [kept EXCEPT ![w] = kept[w]]
        /\ run' = [r \in Runs |-> IF r \in kept[w] THEN "deleted" ELSE run[r]]
        /\ events' = [r \in Runs |-> IF r \in kept[w] THEN <<>> ELSE events[r]]
        /\ UNCHANGED mirror
    BY <1>4, SameFor DEF Audit!CleanupDeletes, Audit!Goto, AuditInv
  <2>2. /\ run' \in [Runs -> RunStates] /\ events' \in [Runs -> Seq(AuditEvents)]
        /\ \A r \in Runs : Chained(events'[r])
    <3>1. Chained(<<>>) /\ <<>> \in Seq(AuditEvents)
      BY DEF Chained
    <3> QED
      BY <2>1, <3>1 DEF AuditInv, RunStates
  <2>3. Grows
    <3> SUFFICES ASSUME NEW r \in Runs, run'[r] # "deleted"
                 PROVE  run[r] # "deleted" /\ events'[r] = events[r]
      BY DEF Grows
    <3> QED
      BY <2>1
  <2>4. \A l \in mirror' : Recorded(l, run', events')
    BY <2>1, <2>3, RecordedStays DEF AuditInv
  <2>5. Carries(w, "prune", about[w], seen[w], kept[w], backlog[w], run', events')
    <3>1. Carries(w, step[w], about[w], seen[w], kept[w], backlog[w], run', events')
      BY <1>1, <2>3, CarriesStays
    <3> QED
      BY <3>1 DEF Carries, AuditSteps
  <2> QED
    BY <1>2, <2>1, <2>2, <2>3, <2>4, <2>5, OneWriter
<1>5. CASE Audit!PruneReads(w)
  <2> DEFINE found == {l \in mirror : ~Audit!OldLine(l)}
  <2>1. /\ step' = [step EXCEPT ![w] = "replace"] /\ kept' = [kept EXCEPT ![w] = found]
        /\ UNCHANGED <<run, events, mirror>>
    BY <1>5 DEF Audit!PruneReads, Audit!Goto
  <2>2. \A l \in found : Recorded(l, run, events)
    BY DEF AuditInv
  <2> HIDE DEF found
  <2>3. Carries(w, "replace", about[w], seen[w], found, backlog[w], run, events)
    BY <1>1, <2>2 DEF Carries, AuditSteps
  <2> QED
    BY <1>2, <2>1, <2>3, OneWriterReads
<1>6. CASE Audit!PruneReplaces(w)
  <2>1. /\ step[w] = "replace"
        /\ step' = [step EXCEPT ![w] = "idle"] /\ kept' = [kept EXCEPT ![w] = {}]
        /\ mirror' = kept[w]
        /\ UNCHANGED <<run, events>>
    BY <1>6 DEF Audit!PruneReplaces, Audit!Goto
  <2>2. \A l \in mirror' : Recorded(l, run', events')
    BY <1>1, <2>1 DEF Carries
  <2>3. Carries(w, "idle", about[w], seen[w], {}, backlog[w], run', events')
    BY <1>1, <2>1 DEF Carries, AuditSteps
  <2> QED
    BY <1>2, <2>1, <2>2, <2>3, SameLedgerGrows, OneWriter DEF AuditInv
<1> QED
  BY <1>3, <1>4, <1>5, <1>6 DEF Audit!CleanupStep

LEMMA AuditStep == AuditInv /\ ServicesAssumption /\ (Audit!Next \/ UNCHANGED auditVars) => AuditInv'
<1> SUFFICES ASSUME AuditInv, ServicesAssumption, Audit!Next \/ UNCHANGED auditVars
             PROVE  AuditInv'
  OBVIOUS
<1>1. CASE UNCHANGED auditVars
  BY <1>1, RunsKeepAudit
<1>2. CASE Audit!Next
  <2>1. \/ \E r \in Runs : Audit!Age(r)
        \/ \E w \in Writers :
             \/ \E r \in Runs : Audit!StartRun(w, r) \/ Audit!CompleteRun(w, r) \/ Audit!ReadLatest(w, r)
             \/ Audit!InsertEvent(w) \/ Audit!InsertFails(w) \/ Audit!CallerFails(w)
             \/ Audit!Mirror(w) \/ Audit!WriteMirror(w)
             \/ Audit!CleanupStep(w) \/ Audit!Crash(w)
    BY <1>2 DEF Audit!Next
  <2> QED
    BY <2>1, RunsKeepAudit, ReadKeepsAudit, InsertKeepsAudit, FailKeepsAudit,
       MirrorKeepsAudit, WriteMirrorKeepsAudit, CleanupKeepsAudit
<1> QED
  BY <1>1, <1>2

\* The events of every run are one chain without a gap, for any number of writers that
\* race, crash, clean up and prune, and the mirror shows no event the ledger lacks.
THEOREM AuditKeepsItsPromise == Spec => []AuditPromise
<1>1. Init => AuditInv
  BY InitAudit, ServicesAssumption DEF Init
<1>2. AuditInv /\ [Next]_allVars => AuditInv'
  <2> SUFFICES ASSUME AuditInv, [Next]_allVars PROVE AuditInv'
    OBVIOUS
  <2>1. Audit!Next \/ UNCHANGED auditVars
    BY DEF Next, Rest, allVars
  <2> QED
    BY <2>1, AuditStep, ServicesAssumption
<1>3. AuditInv => AuditPromise
  <2> SUFFICES ASSUME AuditInv PROVE AuditPromise
    OBVIOUS
  <2>1. Audit!TypeOK
    BY DEF Audit!TypeOK, AuditInv, Carries, AuditSteps, RunStates
  <2>2. Audit!ChainUnbroken
    BY DEF Audit!ChainUnbroken, AuditInv, Chained
  <2>3. Audit!MirrorOfCommitted
    <3> DEFINE Queued(w) == {backlog[w][i] : i \in DOMAIN backlog[w]}
    <3>1. \A w \in Writers : \A l \in Queued(w) : Recorded(l, run, events)
      BY DEF AuditInv, Carries
    <3> HIDE DEF Queued
    <3>2. \A l \in mirror \cup UNION {Queued(w) : w \in Writers} : Recorded(l, run, events)
      BY <3>1 DEF AuditInv
    <3> USE DEF Queued
    <3> QED
      BY <3>2 DEF Audit!MirrorOfCommitted, Recorded
  <2> QED
    BY <2>1, <2>2, <2>3 DEF AuditPromise
<1> QED
  BY <1>1, <1>2, <1>3, PTL DEF Spec

-----------------------------------------------------------------------------
\* The cache of column mappings.

Prints == {t.print : t \in Tables}
Made   == {Cache!Entry(t, Cache!AutoMap(t.columns)) : t \in Tables}
Halves == {[Cache!Torn EXCEPT !.print = f] : f \in Prints}

LookupSteps == {"idle", "disk", "compute", "replace", "evict", "keep", "answered"}

OfProcesses(f) == f = [p \in Processes |-> f[p]] /\ DOMAIN f = Processes

OnePerPrint(s) == \A i, j \in DOMAIN s : s[i].print = s[j].print => i = j

\* What a process holds: a mapping of the columns it was made for, and of the columns
\* asked about once it answers.
Knows(at, entry, t, mapping) ==
  /\ at \in LookupSteps
  /\ at # "idle" => t \in Tables
  /\ entry \in Made \cup {None}
  /\ at = "answered" => mapping = Cache!AutoMap(t.columns)

\* A file holds a mapping that was made, or the half of one.
CacheInv ==
  /\ OfProcesses(lookup) /\ OfProcesses(memory) /\ OfProcesses(table) /\ OfProcesses(answer)
  /\ \A p \in Processes : Knows(lookup[p], memory[p], table[p], answer[p])
  /\ files \in Seq(Made \cup Halves) /\ OnePerPrint(files)
  /\ DOMAIN draft = Prints
  /\ \A f \in Prints : draft[f] # None => draft[f] \in Made /\ draft[f].print = f

\* Half a file shows no columns, and no columns give no mapping.
LEMMA NoColumnsNoMapping == Cache!AutoMap({}) = <<>>
<1>1. \A g : Cache!Candidates(g, {}) = {}
  BY DEF Cache!Candidates
<1>2. {g \in Cache!Fields : Cache!Candidates(g, {}) # {}} = {}
  BY <1>1
<1> QED
  BY <1>2 DEF Cache!AutoMap

LEMMA MadeMapping ==
  ASSUME NEW t \in Tables, NEW entry \in Made \cup Halves, Cache!Matches(entry, t)
  PROVE  entry.mapping = Cache!AutoMap(t.columns)
<1>1. CASE entry \in Made
  BY <1>1 DEF Made, Cache!Matches, Cache!Entry
<1>2. CASE entry \in Halves
  BY <1>2, NoColumnsNoMapping DEF Halves, Cache!Torn, Cache!Matches
<1> QED
  BY <1>1, <1>2

LEMMA EntryIsMade ==
  ASSUME NEW t \in Tables
  PROVE  /\ Cache!Entry(t, Cache!AutoMap(t.columns)) \in Made
         /\ Cache!Entry(t, Cache!AutoMap(t.columns)).print = t.print
         /\ t.print \in Prints
BY DEF Made, Cache!Entry, Prints

LEMMA InitCache == Cache!Init => CacheInv
<1> SUFFICES ASSUME Cache!Init PROVE CacheInv
  OBVIOUS
<1>1. \A p \in Processes : Knows(lookup[p], memory[p], table[p], answer[p])
  BY DEF Cache!Init, Knows, LookupSteps
<1>2. /\ OfProcesses(lookup) /\ OfProcesses(memory) /\ OfProcesses(table) /\ OfProcesses(answer)
  BY DEF Cache!Init, OfProcesses
<1>3. files \in Seq(Made \cup Halves) /\ OnePerPrint(files)
  BY DEF Cache!Init, OnePerPrint
<1>4. DOMAIN draft = Prints /\ \A f \in Prints : draft[f] = None
  BY DEF Cache!Init, Prints
<1> QED
  BY <1>1, <1>2, <1>3, <1>4 DEF CacheInv

\* A step of one process.
LEMMA OneProcess ==
  ASSUME CacheInv, NEW p \in Processes, NEW at, NEW entry, NEW t, NEW mapping,
         lookup' = [lookup EXCEPT ![p] = at], memory' = [memory EXCEPT ![p] = entry],
         table' = [table EXCEPT ![p] = t], answer' = [answer EXCEPT ![p] = mapping],
         Knows(at, entry, t, mapping),
         files' \in Seq(Made \cup Halves), OnePerPrint(files'),
         DOMAIN draft' = Prints,
         \A f \in Prints : draft'[f] # None => draft'[f] \in Made /\ draft'[f].print = f
  PROVE  CacheInv'
<1>1. \A q \in Processes : q # p =>
        /\ lookup'[q] = lookup[q] /\ memory'[q] = memory[q]
        /\ table'[q] = table[q] /\ answer'[q] = answer[q]
  BY DEF CacheInv, OfProcesses
<1>2. lookup'[p] = at /\ memory'[p] = entry /\ table'[p] = t /\ answer'[p] = mapping
  BY DEF CacheInv, OfProcesses
<1>3. OfProcesses(lookup') /\ OfProcesses(memory') /\ OfProcesses(table') /\ OfProcesses(answer')
  BY DEF CacheInv, OfProcesses
<1>4. \A q \in Processes : Knows(lookup'[q], memory'[q], table'[q], answer'[q])
  BY <1>1, <1>2 DEF CacheInv
<1> QED
  BY <1>3, <1>4 DEF CacheInv, OfProcesses

LEMMA SameForProcess ==
  ASSUME NEW f, OfProcesses(f), NEW p \in Processes
  PROVE  f = [f EXCEPT ![p] = f[p]]
BY DEF OfProcesses

\* A file takes the place of the one with its fingerprint.
LEMMA WithoutFile ==
  ASSUME CacheInv, NEW print
  PROVE  /\ Cache!Without(print) \in Seq(Made \cup Halves)
         /\ OnePerPrint(Cache!Without(print))
         /\ \A i \in DOMAIN Cache!Without(print) : Cache!Without(print)[i].print # print
<1> DEFINE at == {i \in DOMAIN files : files[i].print = print}
           n  == CHOOSE i \in at : TRUE
           S  == Made \cup Halves
<1>1. files \in Seq(S) /\ OnePerPrint(files) /\ DOMAIN files = 1 .. Len(files) /\ Len(files) \in Nat
  BY LenProperties DEF CacheInv
<1>2. CASE at = {}
  <2>1. Cache!Without(print) = files
    BY <1>2 DEF Cache!Without
  <2> QED
    BY <1>1, <1>2, <2>1
<1>3. CASE at # {}
  <2>1. n \in 1 .. Len(files) /\ files[n].print = print
    BY <1>1, <1>3
  <2> DEFINE a == SubSeq(files, 1, n - 1)
             b == SubSeq(files, n + 1, Len(files))
  <2>2. Cache!Without(print) = a \o b
    BY <1>3 DEF Cache!Without
  <2> HIDE DEF n, S
  <2>3. /\ a \in Seq(S) /\ Len(a) = n - 1
        /\ \A i \in 1 .. (n - 1) : a[i] = files[i]
    <3>1. \A i \in 1 .. (n - 1) : files[i] \in S
      BY <1>1, <2>1, ElementOfSeq
    <3>2. /\ a \in Seq(S) /\ Len(a) = (IF 1 <= n - 1 THEN (n - 1) - 1 + 1 ELSE 0)
          /\ \A i \in 1 .. ((n - 1) - 1 + 1) : a[i] = files[1 + i - 1]
      BY <1>1, <2>1, <3>1, SubSeqProperties
    <3> QED
      BY <2>1, <3>2
  <2>4. /\ b \in Seq(S) /\ Len(b) = Len(files) - n
        /\ \A i \in 1 .. (Len(files) - n) : b[i] = files[n + i]
    <3>1. \A i \in (n + 1) .. Len(files) : files[i] \in S
      BY <1>1, <2>1, ElementOfSeq
    <3>2. /\ b \in Seq(S)
          /\ Len(b) = (IF n + 1 <= Len(files) THEN Len(files) - (n + 1) + 1 ELSE 0)
          /\ \A i \in 1 .. (Len(files) - (n + 1) + 1) : b[i] = files[(n + 1) + i - 1]
      BY <1>1, <2>1, <3>1, SubSeqProperties
    <3>3. ASSUME NEW i \in 1 .. (Len(files) - n) PROVE b[i] = files[n + i]
      <4>1. i \in 1 .. (Len(files) - (n + 1) + 1) /\ (n + 1) + i - 1 = n + i
        BY <1>1, <2>1
      <4>2. b[i] = files[(n + 1) + i - 1]
        BY <3>2, <4>1
      <4> QED
        BY <4>1, <4>2
    <3>4. Len(b) = Len(files) - n
      BY <1>1, <2>1, <3>2
    <3> QED
      BY <3>2, <3>3, <3>4
  <2> DEFINE s == a \o b
  <2> HIDE DEF a, b
  <2>5. /\ s \in Seq(S) /\ Len(s) = Len(files) - 1
        /\ \A i \in 1 .. Len(s) : s[i] = IF i <= n - 1 THEN a[i] ELSE b[i - (n - 1)]
    <3>1. /\ s \in Seq(S) /\ Len(s) = Len(a) + Len(b)
          /\ \A i \in 1 .. Len(a) + Len(b) : s[i] = IF i <= Len(a) THEN a[i] ELSE b[i - Len(a)]
      BY <2>3, <2>4, ConcatProperties
    <3>2. Len(a) + Len(b) = Len(files) - 1
      BY <1>1, <2>1, <2>3, <2>4
    <3> QED
      BY <2>3, <3>1, <3>2
  <2> HIDE DEF s
  <2>6. ASSUME NEW i \in 1 .. Len(s) PROVE s[i] = files[IF i < n THEN i ELSE i + 1]
    <3>1. CASE i < n
      <4>1. i \in 1 .. (n - 1) /\ i <= n - 1
        BY <1>1, <2>1, <2>5, <3>1
      <4> QED
        BY <2>3, <2>5, <3>1, <4>1
    <3>2. CASE ~(i < n)
      <4>1. i - (n - 1) \in 1 .. (Len(files) - n) /\ n + (i - (n - 1)) = i + 1 /\ ~(i <= n - 1)
        BY <1>1, <2>1, <2>5, <3>2
      <4>2. b[i - (n - 1)] = files[n + (i - (n - 1))]
        BY <2>4, <4>1
      <4> QED
        BY <2>5, <3>2, <4>1, <4>2
    <3> QED
      BY <3>1, <3>2
  <2>7. DOMAIN s = 1 .. Len(s)
    BY <2>5, LenProperties
  <2>8. ASSUME NEW i \in DOMAIN s
        PROVE  /\ s[i].print # print
               /\ \A j \in DOMAIN s : s[i].print = s[j].print => i = j
    <3> DEFINE up(k) == IF k < n THEN k ELSE k + 1
    <3>1. \A k \in DOMAIN s : up(k) \in DOMAIN files /\ up(k) # n /\ s[k] = files[up(k)]
      BY <1>1, <2>1, <2>5, <2>6, <2>7
    <3>2. \A j, k \in DOMAIN s : up(j) = up(k) => j = k
      BY <2>1, <2>7
    <3> HIDE DEF up
    <3>3. \A j, k \in DOMAIN files : files[j].print = files[k].print => j = k
      BY <1>1 DEF OnePerPrint
    <3>4. n \in DOMAIN files
      BY <1>1, <2>1
    <3> QED
      BY <2>1, <3>1, <3>2, <3>3, <3>4
  <2>9. OnePerPrint(s)
    BY <2>8 DEF OnePerPrint
  <2>10. Cache!Without(print) = s
    BY <2>2 DEF s
  <2> QED
    BY <2>5, <2>8, <2>9, <2>10 DEF S
<1> QED
  BY <1>2, <1>3

LEMMA ReplaceFile ==
  ASSUME CacheInv, NEW e \in Made \cup Halves, NEW print, e.print = print,
         files' = Append(Cache!Without(print), e)
  PROVE  files' \in Seq(Made \cup Halves) /\ OnePerPrint(files')
<1> DEFINE s == Cache!Without(print)
           S == Made \cup Halves
<1>1. /\ s \in Seq(S) /\ OnePerPrint(s)
      /\ \A i \in DOMAIN s : s[i].print # print
  BY WithoutFile
<1> HIDE DEF s, S
<1>2. /\ files' = Append(s, e) /\ e \in S
  BY DEF s, S
<1>3. /\ files' \in Seq(S) /\ Len(files') = Len(s) + 1 /\ Len(s) \in Nat
      /\ files'[Len(s) + 1] = e
      /\ \A i \in 1 .. Len(s) : files'[i] = s[i]
      /\ DOMAIN files' = 1 .. (Len(s) + 1) /\ DOMAIN s = 1 .. Len(s)
  BY <1>1, <1>2, AppendProperties, LenProperties
<1>4. OnePerPrint(files')
  BY <1>1, <1>3 DEF OnePerPrint
<1> QED
  BY <1>3, <1>4 DEF S

LEMMA EvictFiles ==
  ASSUME CacheInv, MaxFiles \in Nat, files' = Cache!Evicted(files)
  PROVE  files' \in Seq(Made \cup Halves) /\ OnePerPrint(files')
<1> DEFINE S == Made \cup Halves
           m == Len(files) - MaxFiles
<1>1. files \in Seq(S) /\ OnePerPrint(files) /\ DOMAIN files = 1 .. Len(files) /\ Len(files) \in Nat
  BY LenProperties DEF CacheInv
<1> HIDE DEF S
<1>2. CASE Len(files) > MaxFiles
  <2>1. files' = SubSeq(files, m + 1, Len(files)) /\ m \in Nat /\ m < Len(files) + 1
    BY <1>1, <1>2 DEF Cache!Evicted
  <2> HIDE DEF m
  <2>2. \A i \in (m + 1) .. Len(files) : files[i] \in S
    BY <1>1, <2>1, ElementOfSeq
  <2>3. /\ files' \in Seq(S)
        /\ Len(files') = (IF m + 1 <= Len(files) THEN Len(files) - (m + 1) + 1 ELSE 0)
        /\ \A i \in 1 .. (Len(files) - (m + 1) + 1) : files'[i] = files[(m + 1) + i - 1]
    BY <1>1, <2>1, <2>2, SubSeqProperties
  <2>4. /\ Len(files') = Len(files) - m
        /\ \A i \in 1 .. (Len(files) - m) : files'[i] = files[m + i]
        /\ DOMAIN files' = 1 .. (Len(files) - m)
    <3> DEFINE t == files'
    <3>1. Len(t) = Len(files) - m /\ DOMAIN t = 1 .. Len(t)
      <4>1. t \in Seq(S) /\ Len(t) = (IF m + 1 <= Len(files) THEN Len(files) - (m + 1) + 1 ELSE 0)
        BY <2>3
      <4> HIDE DEF t
      <4>2. DOMAIN t = 1 .. Len(t)
        BY <4>1, LenProperties
      <4> DEFINE k == Len(files)
      <4>3. k \in Nat /\ m \in Nat /\ m < k + 1
        BY <1>1, <2>1, Zenon
      <4>4. Len(t) = IF m + 1 <= k THEN k - (m + 1) + 1 ELSE 0
        BY <4>1, Zenon
      <4> HIDE DEF k
      <4>5. Len(t) = k - m
        BY <4>3, <4>4
      <4> QED
        BY <4>2, <4>5 DEF k
    <3>2. ASSUME NEW i \in 1 .. (Len(files) - m) PROVE files'[i] = files[m + i]
      <4>1. i \in 1 .. (Len(files) - (m + 1) + 1) /\ (m + 1) + i - 1 = m + i
        BY <1>1, <2>1
      <4>2. files'[i] = files[(m + 1) + i - 1]
        BY <2>3, <4>1
      <4> QED
        BY <4>1, <4>2
    <3> QED
      BY <3>1, <3>2
  <2>5. \A i \in DOMAIN files' : m + i \in DOMAIN files /\ files'[i] = files[m + i]
    BY <1>1, <2>1, <2>4
  <2>6. OnePerPrint(files')
    <3>1. \A i, j \in DOMAIN files' : m + i = m + j => i = j
      BY <2>1, <2>4
    <3> QED
      BY <1>1, <2>5, <3>1 DEF OnePerPrint
  <2> QED
    BY <2>3, <2>6 DEF S
<1>3. CASE ~(Len(files) > MaxFiles)
  BY <1>1, <1>3 DEF Cache!Evicted, S
<1> QED
  BY <1>2, <1>3

LEMMA RequestKeepsCache ==
  ASSUME CacheInv, NEW p \in Processes, NEW t \in Tables, Cache!Request(p, t)
  PROVE  CacheInv'
<1>1. /\ memory' = [memory EXCEPT ![p] = memory[p]] /\ table' = [table EXCEPT ![p] = t]
      /\ UNCHANGED <<files, draft>>
  BY SameForProcess DEF Cache!Request, CacheInv
<1>2. memory[p] \in Made \cup {None}
  BY DEF CacheInv, Knows
<1>3. CASE memory[p] # None /\ Cache!Matches(memory[p], t)
  <2>1. /\ lookup' = [lookup EXCEPT ![p] = "answered"]
        /\ answer' = [answer EXCEPT ![p] = memory[p].mapping]
    BY <1>3 DEF Cache!Request, Cache!Answer
  <2>2. Knows("answered", memory[p], t, memory[p].mapping)
    BY <1>2, <1>3, MadeMapping DEF Knows, LookupSteps
  <2> QED
    BY <1>1, <2>1, <2>2, OneProcess DEF CacheInv
<1>4. CASE ~(memory[p] # None /\ Cache!Matches(memory[p], t))
  <2>1. /\ lookup' = [lookup EXCEPT ![p] = "disk"] /\ answer' = [answer EXCEPT ![p] = answer[p]]
    BY <1>4, SameForProcess DEF Cache!Request, CacheInv
  <2>2. Knows("disk", memory[p], t, answer[p])
    BY <1>2 DEF Knows, LookupSteps
  <2> QED
    BY <1>1, <2>1, <2>2, OneProcess DEF CacheInv
<1> QED
  BY <1>3, <1>4

\* What is found under the fingerprint and the columns is the mapping of the columns.
LEMMA LoadKeepsCache ==
  ASSUME CacheInv, NEW p \in Processes, Cache!LoadFile(p)
  PROVE  CacheInv'
<1> DEFINE t == table[p]
           found == {i \in DOMAIN files : files[i].print = t.print /\ Cache!Matches(files[i], t)}
<1>1. /\ t \in Tables /\ memory[p] \in Made \cup {None}
      /\ table' = [table EXCEPT ![p] = t] /\ UNCHANGED <<files, draft>>
  BY SameForProcess DEF Cache!LoadFile, CacheInv, Knows
<1>2. CASE found # {}
  <2>1. PICK i \in found : Cache!Answer(p, files[i].mapping) /\ Cache!Remember(p, files[i].mapping)
    BY <1>2 DEF Cache!LoadFile
  <2>2. files[i].mapping = Cache!AutoMap(t.columns)
    <3>1. files[i] \in Made \cup Halves /\ Cache!Matches(files[i], t)
      BY <2>1, ElementOfSeq DEF CacheInv
    <3> QED
      BY <1>1, <3>1, MadeMapping
  <2> DEFINE mapping == Cache!AutoMap(t.columns)
  <2>3. /\ lookup' = [lookup EXCEPT ![p] = "answered"] /\ answer' = [answer EXCEPT ![p] = mapping]
        /\ memory' = [memory EXCEPT ![p] = Cache!Entry(t, mapping)]
    BY <2>1, <2>2 DEF Cache!Answer, Cache!Remember
  <2>4. Knows("answered", Cache!Entry(t, mapping), t, mapping)
    BY <1>1, EntryIsMade DEF Knows, LookupSteps
  <2> HIDE DEF mapping, t
  <2> QED
    BY <1>1, <2>3, <2>4, OneProcess DEF CacheInv
<1>3. CASE found = {}
  <2>1. /\ lookup' = [lookup EXCEPT ![p] = "compute"] /\ memory' = [memory EXCEPT ![p] = memory[p]]
        /\ answer' = [answer EXCEPT ![p] = answer[p]]
    BY <1>3, SameForProcess DEF Cache!LoadFile, CacheInv
  <2>2. Knows("compute", memory[p], t, answer[p])
    BY <1>1 DEF Knows, LookupSteps
  <2> QED
    BY <1>1, <2>1, <2>2, OneProcess DEF CacheInv
<1> QED
  BY <1>2, <1>3

LEMMA ComputeKeepsCache ==
  ASSUME CacheInv, NEW p \in Processes, Cache!Compute(p) \/ Cache!Keep(p)
  PROVE  CacheInv'
<1> DEFINE t == table[p]
           mapping == Cache!AutoMap(t.columns)
           made == Cache!Entry(t, mapping)
<1>1. /\ t \in Tables /\ memory[p] \in Made \cup {None}
      /\ table' = [table EXCEPT ![p] = t] /\ UNCHANGED files
  BY SameForProcess DEF Cache!Compute, Cache!Keep, CacheInv, Knows
<1>2. made \in Made /\ made.print = t.print /\ t.print \in Prints
  BY <1>1, EntryIsMade
<1>3. CASE Cache!Keep(p)
  <2>1. /\ lookup' = [lookup EXCEPT ![p] = "answered"] /\ answer' = [answer EXCEPT ![p] = mapping]
        /\ memory' = [memory EXCEPT ![p] = made] /\ UNCHANGED draft
    BY <1>3 DEF Cache!Keep, Cache!Answer, Cache!Remember
  <2>2. Knows("answered", made, t, mapping)
    BY <1>1, <1>2 DEF Knows, LookupSteps
  <2> HIDE DEF mapping, made, t
  <2> QED
    BY <1>1, <2>1, <2>2, OneProcess DEF CacheInv
<1>4. CASE Cache!Compute(p) /\ Cache!Verified(mapping, t.columns)
  <2>1. /\ draft' = [draft EXCEPT ![t.print] = made]
        /\ lookup' = [lookup EXCEPT ![p] = "replace"]
        /\ memory' = [memory EXCEPT ![p] = memory[p]] /\ answer' = [answer EXCEPT ![p] = answer[p]]
    BY <1>4, SameForProcess DEF Cache!Compute, CacheInv
  <2>2. Knows("replace", memory[p], t, answer[p])
    BY <1>1 DEF Knows, LookupSteps
  <2> HIDE DEF mapping, made
  <2>3. /\ DOMAIN draft' = Prints
        /\ \A f \in Prints : draft'[f] # None => draft'[f] \in Made /\ draft'[f].print = f
    BY <1>2, <2>1 DEF CacheInv
  <2> QED
    BY <1>1, <2>1, <2>2, <2>3, OneProcess DEF CacheInv
<1>5. CASE Cache!Compute(p) /\ ~Cache!Verified(mapping, t.columns)
  <2>1. /\ lookup' = [lookup EXCEPT ![p] = "answered"] /\ answer' = [answer EXCEPT ![p] = mapping]
        /\ memory' = [memory EXCEPT ![p] = memory[p]] /\ UNCHANGED draft
    BY <1>5, SameForProcess DEF Cache!Compute, Cache!Answer, CacheInv
  <2>2. Knows("answered", memory[p], t, mapping)
    BY <1>1 DEF Knows, LookupSteps
  <2> HIDE DEF mapping, t
  <2> QED
    BY <1>1, <2>1, <2>2, OneProcess DEF CacheInv
<1> QED
  BY <1>3, <1>4, <1>5

\* Another process may have moved the temporary file already, or be half way through it.
LEMMA ReplaceKeepsCache ==
  ASSUME CacheInv, NEW p \in Processes,
         Cache!Replace(p) \/ \E q \in Processes : Cache!ReplaceTorn(p, q)
  PROVE  CacheInv'
<1> DEFINE t == table[p]
           print == t.print
<1>1. /\ t \in Tables /\ memory[p] \in Made \cup {None} /\ print \in Prints
      /\ table' = [table EXCEPT ![p] = t] /\ memory' = [memory EXCEPT ![p] = memory[p]]
      /\ answer' = [answer EXCEPT ![p] = answer[p]]
  BY SameForProcess DEF Cache!Replace, Cache!ReplaceTorn, CacheInv, Knows, Prints
<1>2. Knows("keep", memory[p], t, answer[p]) /\ Knows("evict", memory[p], t, answer[p])
  BY <1>1 DEF Knows, LookupSteps
<1>3. draft' = [draft EXCEPT ![print] = None] =>
        /\ DOMAIN draft' = Prints
        /\ \A f \in Prints : draft'[f] # None => draft'[f] \in Made /\ draft'[f].print = f
  BY <1>1 DEF CacheInv
<1>4. CASE Cache!Replace(p) /\ draft[print] = None
  <2>1. lookup' = [lookup EXCEPT ![p] = "keep"] /\ UNCHANGED <<files, draft>>
    BY <1>4 DEF Cache!Replace
  <2> QED
    BY <1>1, <1>2, <2>1, OneProcess DEF CacheInv
<1>5. CASE Cache!Replace(p) /\ draft[print] # None
  <2>1. /\ files' = Append(Cache!Without(print), draft[print])
        /\ draft' = [draft EXCEPT ![print] = None]
        /\ lookup' = [lookup EXCEPT ![p] = "evict"]
    BY <1>5 DEF Cache!Replace
  <2>2. draft[print] \in Made /\ draft[print].print = print
    BY <1>1, <1>5 DEF CacheInv
  <2>3. files' \in Seq(Made \cup Halves) /\ OnePerPrint(files')
    BY <2>1, <2>2, ReplaceFile
  <2> QED
    BY <1>1, <1>2, <1>3, <2>1, <2>3, OneProcess
<1>6. CASE \E q \in Processes : Cache!ReplaceTorn(p, q)
  <2> DEFINE half == [Cache!Torn EXCEPT !.print = print]
  <2>1. /\ files' = Append(Cache!Without(print), half)
        /\ draft' = [draft EXCEPT ![print] = None]
        /\ lookup' = [lookup EXCEPT ![p] = "evict"]
    BY <1>6 DEF Cache!ReplaceTorn
  <2>2. half \in Halves /\ half.print = print
    BY <1>1 DEF Halves, Cache!Torn
  <2> HIDE DEF half
  <2>3. files' \in Seq(Made \cup Halves) /\ OnePerPrint(files')
    BY <2>1, <2>2, ReplaceFile
  <2> QED
    BY <1>1, <1>2, <1>3, <2>1, <2>3, OneProcess
<1> QED
  BY <1>4, <1>5, <1>6

LEMMA RestKeepsCache ==
  ASSUME CacheInv, MaxFiles \in Nat, NEW p \in Processes,
         \/ Cache!Evict(p) \/ Cache!Return(p) \/ Cache!RestartProcess(p)
         \/ \E t \in Tables : Cache!Import(p, t.print)
  PROVE  CacheInv'
<1>1. Knows(lookup[p], memory[p], table[p], answer[p])
  BY DEF CacheInv
<1>2. CASE Cache!Evict(p)
  <2>1. /\ lookup' = [lookup EXCEPT ![p] = "keep"] /\ files' = Cache!Evicted(files)
        /\ memory' = [memory EXCEPT ![p] = memory[p]] /\ table' = [table EXCEPT ![p] = table[p]]
        /\ answer' = [answer EXCEPT ![p] = answer[p]] /\ UNCHANGED draft
    BY <1>2, SameForProcess DEF Cache!Evict, CacheInv
  <2>2. Knows("keep", memory[p], table[p], answer[p])
    BY <1>1, <1>2 DEF Knows, LookupSteps, Cache!Evict
  <2>3. files' \in Seq(Made \cup Halves) /\ OnePerPrint(files')
    BY <2>1, EvictFiles
  <2> QED
    BY <2>1, <2>2, <2>3, OneProcess DEF CacheInv
<1>3. CASE Cache!Return(p)
  <2>1. /\ lookup' = [lookup EXCEPT ![p] = "idle"]
        /\ memory' = [memory EXCEPT ![p] = memory[p]] /\ table' = [table EXCEPT ![p] = None]
        /\ answer' = [answer EXCEPT ![p] = None] /\ UNCHANGED <<files, draft>>
    BY <1>3, SameForProcess DEF Cache!Return, CacheInv
  <2>2. Knows("idle", memory[p], None, None)
    BY <1>1 DEF Knows, LookupSteps
  <2> QED
    BY <2>1, <2>2, OneProcess DEF CacheInv
<1>4. CASE Cache!RestartProcess(p)
  <2>1. /\ lookup' = [lookup EXCEPT ![p] = "idle"]
        /\ memory' = [memory EXCEPT ![p] = None] /\ table' = [table EXCEPT ![p] = None]
        /\ answer' = [answer EXCEPT ![p] = None] /\ UNCHANGED <<files, draft>>
    BY <1>4 DEF Cache!RestartProcess
  <2>2. Knows("idle", None, None, None)
    BY DEF Knows, LookupSteps
  <2> QED
    BY <2>1, <2>2, OneProcess DEF CacheInv
<1>5. CASE \E t \in Tables : Cache!Import(p, t.print)
  <2>1. /\ lookup' = [lookup EXCEPT ![p] = lookup[p]]
        /\ memory' = [memory EXCEPT ![p] = None] /\ table' = [table EXCEPT ![p] = table[p]]
        /\ answer' = [answer EXCEPT ![p] = answer[p]] /\ files' = <<>> /\ UNCHANGED draft
    BY <1>5, SameForProcess DEF Cache!Import, CacheInv
  <2>2. Knows(lookup[p], None, table[p], answer[p])
    BY <1>1 DEF Knows
  <2>3. files' \in Seq(Made \cup Halves) /\ OnePerPrint(files')
    BY <2>1 DEF OnePerPrint
  <2> QED
    BY <2>1, <2>2, <2>3, OneProcess DEF CacheInv
<1> QED
  BY <1>2, <1>3, <1>4, <1>5

LEMMA CacheStep == CacheInv /\ ServicesAssumption /\ (Cache!Next \/ UNCHANGED cacheVars) => CacheInv'
<1> SUFFICES ASSUME CacheInv, ServicesAssumption, Cache!Next \/ UNCHANGED cacheVars
             PROVE  CacheInv'
  OBVIOUS
<1>1. CASE UNCHANGED cacheVars
  BY <1>1 DEF cacheVars, CacheInv
<1>2. CASE Cache!Next
  BY <1>2, RequestKeepsCache, LoadKeepsCache, ComputeKeepsCache, ReplaceKeepsCache,
     RestKeepsCache DEF Cache!Next, ServicesAssumption
<1> QED
  BY <1>1, <1>2

\* A caller gets the mapping of the columns it asked about, for any number of processes
\* that share the directory, whatever they replace, tear, evict, clear or lose.
THEOREM MappingKeepsItsPromise == Spec => []MappingPromise
<1>1. Init => CacheInv
  BY InitCache DEF Init
<1>2. CacheInv /\ [Next]_allVars => CacheInv'
  <2> SUFFICES ASSUME CacheInv, [Next]_allVars PROVE CacheInv'
    OBVIOUS
  <2>1. Cache!Next \/ UNCHANGED cacheVars
    BY DEF Next, Rest, allVars
  <2> QED
    BY <2>1, CacheStep, ServicesAssumption
<1>3. CacheInv => MappingPromise
  <2> SUFFICES ASSUME CacheInv PROVE MappingPromise
    OBVIOUS
  <2>1. \A p \in Processes : memory[p] # None => memory[p].print \in DOMAIN draft
    BY DEF CacheInv, Knows, Made, Cache!Entry, Prints
  <2>2. Cache!TypeOK
    BY <2>1 DEF Cache!TypeOK, CacheInv, Knows, LookupSteps, OnePerPrint
  <2>3. Cache!AnswersAreForTheColumns
    BY DEF Cache!AnswersAreForTheColumns, CacheInv, Knows
  <2> QED
    BY <2>2, <2>3 DEF MappingPromise
<1> QED
  BY <1>1, <1>2, <1>3, PTL DEF Spec

-----------------------------------------------------------------------------
\* The watched folders.

Filings == [folder : Folders, place : Hot!Places, stamp : 0 .. MaxDrops, file : 0 .. MaxDrops]
WatchedJobs ==
  [file : 1 .. MaxDrops, of : 0 .. MaxDrops, folder : Folders, disturbed : BOOLEAN,
   preview : Previews, status : {"pending", "running", "ended", "by user"}]
Callbacks ==
  [file : 1 .. MaxDrops, at : {"claimed", "imported", "previewed", "running"}, disturbed : BOOLEAN]

OfFolders(f) == f = [g \in Folders |-> f[g]] /\ DOMAIN f = Folders

\* Every file dropped so far is in one place, an inbox or a subdirectory, or overwritten.
Placed(filings, inboxes, lost, n) ==
  /\ filings \subseteq Filings /\ lost \subseteq 0 .. n
  /\ \A y \in filings : y.file <= n
  /\ \A y, z \in filings : y.file = z.file /\ y.file # 0 => y = z
  /\ \A g \in Folders : inboxes[g] # None =>
       /\ inboxes[g] \in [file : 1 .. n, whole : BOOLEAN]
       /\ \A y \in filings : y.file # inboxes[g].file
  /\ \A g, h \in Folders :
       inboxes[g] # None /\ inboxes[h] # None /\ inboxes[g].file = inboxes[h].file => g = h
  /\ \A x \in 1 .. n :
       \/ x \in lost
       \/ \E y \in filings : y.file = x
       \/ \E g \in Folders : inboxes[g] # None /\ inboxes[g].file = x

\* The one callback at work: its file has left the inbox, the gateway holds it after the
\* import unless a user connected something else, and its job, once there is one, is its own.
Working(workers, inboxes, jobs, held, n) ==
  /\ \A g, h \in Folders : workers[g] # None /\ workers[h] # None => g = h
  /\ \A g \in Folders : workers[g] # None =>
       /\ workers[g] \in Callbacks /\ workers[g].file <= n
       /\ \A h \in Folders : inboxes[h] # None => inboxes[h].file # workers[g].file
       /\ workers[g].at \in {"claimed", "imported"} => \A b \in jobs : b.file # workers[g].file
       /\ workers[g].at = "imported" /\ ~workers[g].disturbed => held = workers[g].file
       /\ workers[g].at \in {"previewed", "running"} =>
            \E b \in jobs : /\ b.file = workers[g].file /\ b.folder = g
                            /\ workers[g].at = "running" => b.status = "running"

\* The jobs made so far: each for a file of its own, that is in no inbox any more.
Batched(jobs, inboxes, n) ==
  /\ jobs \subseteq WatchedJobs
  /\ \A b, c \in jobs : b.file = c.file => b = c
  /\ \A b \in jobs :
       /\ b.file <= n
       /\ \A h \in Folders : inboxes[h] # None => inboxes[h].file # b.file
       /\ ~b.disturbed => b.of = b.file
       /\ b.status \in {"running", "ended"} =>
            /\ FolderRules[b.folder].auto
            /\ b.preview.top <= GlobalRules.top
            /\ b.preview.cost <= Hot!Limit(FolderRules[b.folder].cost, GlobalRules.cost)

HotInv ==
  /\ watchdog \in {"off", "scanned", "watching"}
  /\ dropped \in 0 .. MaxDrops
  /\ timer \subseteq Folders /\ fired \in [Folders -> 0 .. 2]
  /\ source \in (0 .. MaxDrops) \cup {None}
  /\ OfFolders(inbox) /\ OfFolders(worker)
  /\ Placed(filed, inbox, clashed, dropped)
  /\ Working(worker, inbox, batches, source, dropped)
  /\ Batched(batches, inbox, dropped)

LEMMA InitHot == Hot!Init /\ ServicesAssumption => HotInv
<1> SUFFICES ASSUME Hot!Init, ServicesAssumption PROVE HotInv
  OBVIOUS
<1>1. /\ dropped = 0 /\ clashed = {} /\ batches = {} /\ source = None /\ watchdog = "off"
      /\ timer = {} /\ fired = [f \in Folders |-> 0]
      /\ inbox = [f \in Folders |-> None] /\ worker = [f \in Folders |-> None]
      /\ filed = {[folder |-> f, place |-> "processed", stamp |-> 0, file |-> 0] : f \in Folders}
  BY DEF Hot!Init
<1>2. 0 \in 0 .. MaxDrops /\ 1 .. dropped = {}
  BY <1>1 DEF ServicesAssumption
<1>3. Placed(filed, inbox, clashed, dropped)
  BY <1>1, <1>2 DEF Placed, Filings, Hot!Places
<1>4. Working(worker, inbox, batches, source, dropped) /\ Batched(batches, inbox, dropped)
  BY <1>1 DEF Working, Batched
<1> QED
  BY <1>1, <1>2, <1>3, <1>4 DEF HotInv, OfFolders

\* A file that is moved is in one place afterwards, and what it overwrites is noted.
LEMMA MoveKeepsPlaces ==
  ASSUME HotInv, ServicesAssumption, NEW f \in Folders, NEW x \in 1 .. dropped,
         NEW place \in Hot!Places,
         Hot!Move(f, x, place), NEW inboxes,
         \A g \in Folders :
           inboxes[g] = IF inbox[g] # None /\ inbox[g].file = x THEN None ELSE inbox[g]
  PROVE  Placed(filed', inboxes, clashed', dropped)
<1>1. PICK n \in Hot!SafeNames(f, place) :
        LET there == {y \in filed : y.folder = f /\ y.place = place /\ y.stamp = n}
        IN  /\ filed' = ({y \in filed : y.file # x} \ there)
                          \cup {[folder |-> f, place |-> place, stamp |-> n, file |-> x]}
            /\ clashed' = IF n = 0 THEN clashed ELSE clashed \cup {y.file : y \in there}
  BY DEF Hot!Move
<1> DEFINE there == {y \in filed : y.folder = f /\ y.place = place /\ y.stamp = n}
           new == [folder |-> f, place |-> place, stamp |-> n, file |-> x]
<1>2. filed' = ({y \in filed : y.file # x} \ there) \cup {new}
      /\ clashed' = IF n = 0 THEN clashed ELSE clashed \cup {y.file : y \in there}
  BY <1>1
<1>3. n = 0 => there = {}
  BY DEF Hot!SafeNames, Hot!Taken
<1>4. n \in 0 .. MaxDrops
  BY DEF Hot!SafeNames, ServicesAssumption
<1>5. new \in Filings /\ new.file = x
  BY <1>4 DEF Filings, HotInv
<1>6. /\ filed \subseteq Filings /\ clashed \subseteq 0 .. dropped /\ dropped \in Nat
      /\ \A y \in filed : y.file \in 0 .. dropped
  BY DEF HotInv, Placed, Filings
<1> HIDE DEF new
<1>7. /\ \A y \in filed' : y = new \/ (y \in filed /\ y.file # x)
      /\ new \in filed'
      /\ \A y \in filed : y.file # x => y \in filed' \/ y.file \in clashed'
      /\ clashed \subseteq clashed' /\ clashed' \subseteq 0 .. dropped
  <2>1. clashed \subseteq clashed' /\ clashed' \subseteq 0 .. dropped
    BY <1>2, <1>6
  <2>2. \A y \in filed : y.file # x => y \in filed' \/ y.file \in clashed'
    BY <1>2, <1>3
  <2> QED
    BY <1>2, <2>1, <2>2
<1> HIDE DEF there
<1>8. /\ filed' \subseteq Filings /\ \A y \in filed' : y.file <= dropped
      /\ \A y, z \in filed' : y.file = z.file /\ y.file # 0 => y = z
  BY <1>5, <1>6, <1>7 DEF HotInv, Placed
<1>9. ASSUME NEW g \in Folders, inboxes[g] # None
      PROVE  /\ inboxes[g] = inbox[g] /\ inbox[g] # None
             /\ inboxes[g] \in [file : 1 .. dropped, whole : BOOLEAN]
             /\ \A y \in filed' : y.file # inboxes[g].file
  <2>1. inboxes[g] = inbox[g] /\ inbox[g] # None /\ inbox[g].file # x
    BY <1>9
  <2> QED
    BY <1>5, <1>7, <2>1 DEF HotInv, Placed
<1>10. \A g, h \in Folders :
         inboxes[g] # None /\ inboxes[h] # None /\ inboxes[g].file = inboxes[h].file => g = h
  BY <1>9 DEF HotInv, Placed
<1>11. ASSUME NEW z \in 1 .. dropped
       PROVE  \/ z \in clashed'
              \/ \E y \in filed' : y.file = z
              \/ \E g \in Folders : inboxes[g] # None /\ inboxes[g].file = z
  <2>1. CASE z = x
    BY <1>5, <1>7, <2>1
  <2>2. CASE z # x
    BY <1>7, <2>2 DEF HotInv, Placed
  <2> QED
    BY <2>1, <2>2
<1> QED
  BY <1>7, <1>8, <1>9, <1>10, <1>11 DEF Placed

\* A new file has a number no other file has, and is nowhere but in its inbox.
LEMMA WriteKeepsHot ==
  ASSUME HotInv, ServicesAssumption, NEW f \in Folders, Hot!Write(f)
  PROVE  HotInv'
<1>1. /\ UNCHANGED <<watchdog, fired, worker, filed, source, batches, clashed>>
      /\ timer' \subseteq Folders
  BY DEF Hot!Write, HotInv
<1>2. /\ dropped' \in 0 .. MaxDrops /\ dropped \in Nat /\ dropped' \in Nat /\ dropped <= dropped'
      /\ OfFolders(inbox') /\ \A g \in Folders : g # f => inbox'[g] = inbox[g]
      /\ inbox'[f] # None => inbox'[f] \in [file : 1 .. dropped', whole : BOOLEAN]
      /\ \/ inbox[f] = None /\ inbox'[f].file = dropped + 1 /\ dropped' = dropped + 1
            /\ inbox'[f] \in [file : 1 .. dropped', whole : BOOLEAN]
         \/ inbox[f] # None /\ inbox'[f].file = inbox[f].file /\ dropped' = dropped
            /\ inbox'[f] \in [file : 1 .. dropped', whole : BOOLEAN]
  <2>1. CASE inbox[f] = None /\ dropped < MaxDrops /\ dropped' = dropped + 1
             /\ \E whole \in BOOLEAN : inbox' = [inbox EXCEPT ![f] = [file |-> dropped + 1, whole |-> whole]]
    BY <2>1 DEF HotInv, OfFolders, ServicesAssumption
  <2>2. CASE inbox[f] # None /\ inbox' = [inbox EXCEPT ![f].whole = TRUE] /\ dropped' = dropped
    <3>1. inbox[f] \in [file : 1 .. dropped, whole : BOOLEAN]
      BY <2>2 DEF HotInv, Placed
    <3>2. inbox'[f] = [inbox[f] EXCEPT !.whole = TRUE]
      BY <2>2 DEF HotInv, OfFolders
    <3>3. inbox'[f] \in [file : 1 .. dropped, whole : BOOLEAN] /\ inbox'[f].file = inbox[f].file
      BY <3>1, <3>2
    <3>4. OfFolders(inbox') /\ \A g \in Folders : g # f => inbox'[g] = inbox[g]
      BY <2>2 DEF HotInv, OfFolders
    <3> QED
      BY <2>2, <3>3, <3>4 DEF HotInv
  <2> QED
    BY <2>1, <2>2 DEF Hot!Write
<1>3. inbox'[f] # None
  <2>1. inbox'[f] \in [file : 1 .. MaxDrops, whole : BOOLEAN]
    BY <1>2
  <2> QED
    BY <2>1 DEF ServicesAssumption
<1>4. Placed(filed', inbox', clashed', dropped')
  <2>1. \A y \in filed : y.file \in 0 .. dropped
    BY <1>2 DEF HotInv, Placed, Filings
  <2>2. \A g \in Folders : inbox[g] # None => inbox[g].file \in 1 .. dropped
    BY DEF HotInv, Placed
  <2>3. filed \subseteq Filings /\ clashed \subseteq 0 .. dropped' /\ \A y \in filed : y.file <= dropped'
    BY <1>2, <2>1 DEF HotInv, Placed
  <2>4. \A y, z \in filed : y.file = z.file /\ y.file # 0 => y = z
    BY DEF HotInv, Placed
  <2>5. ASSUME NEW g \in Folders, inbox'[g] # None
        PROVE  /\ inbox'[g] \in [file : 1 .. dropped', whole : BOOLEAN]
               /\ \A y \in filed : y.file # inbox'[g].file
    <3>1. CASE g = f
      BY <1>2, <2>1, <2>5, <3>1 DEF HotInv, Placed
    <3>2. CASE g # f
      <4>1. inbox[g] \in [file : 1 .. dropped, whole : BOOLEAN] /\ inbox'[g] = inbox[g]
            /\ \A y \in filed : y.file # inbox[g].file
        BY <1>2, <2>5, <3>2 DEF HotInv, Placed
      <4> QED
        BY <1>2, <4>1
    <3> QED
      BY <3>1, <3>2
  <2>6. ASSUME NEW g \in Folders, NEW h \in Folders,
               inbox'[g] # None, inbox'[h] # None, inbox'[g].file = inbox'[h].file
        PROVE  g = h
    <3>1. \A i, j \in Folders :
            inbox[i] # None /\ inbox[j] # None /\ inbox[i].file = inbox[j].file => i = j
      BY DEF HotInv, Placed
    <3> QED
      BY <1>2, <2>2, <2>6, <3>1
  <2>7. ASSUME NEW x \in 1 .. dropped'
        PROVE  \/ x \in clashed
               \/ \E y \in filed : y.file = x
               \/ \E g \in Folders : inbox'[g] # None /\ inbox'[g].file = x
    <3>1. CASE x \in 1 .. dropped
      <4>1. ASSUME NEW g \in Folders, inbox[g] # None, inbox[g].file = x
            PROVE  inbox'[g] # None /\ inbox'[g].file = x
        BY <1>2, <1>3, <4>1
      <4> QED
        BY <3>1, <4>1 DEF HotInv, Placed
    <3>2. CASE x \notin 1 .. dropped
      <4>1. x = dropped' /\ inbox'[f].file = x
        BY <1>2, <2>7, <3>2
      <4> QED
        BY <1>3, <4>1
    <3> QED
      BY <3>1, <3>2
  <2> QED
    BY <1>1, <2>3, <2>4, <2>5, <2>6, <2>7 DEF Placed
<1>5. \A h \in Folders, x \in 1 .. dropped :
        (inbox[h] # None => inbox[h].file # x) => (inbox'[h] # None => inbox'[h].file # x)
  BY <1>2
<1>6. Working(worker', inbox', batches', source', dropped')
  <2>1. \A g \in Folders : worker[g] # None => worker[g].file \in 1 .. dropped /\ worker[g].file <= dropped'
    BY <1>2 DEF HotInv, Working, Callbacks
  <2> QED
    BY <1>1, <1>5, <2>1 DEF HotInv, Working
<1>7. Batched(batches', inbox', dropped')
  <2>1. ASSUME NEW b \in batches PROVE b.file \in 1 .. dropped /\ b.file <= dropped'
    <3>1. b \in WatchedJobs /\ b.file <= dropped
      BY DEF HotInv, Batched
    <3>2. b.file \in 1 .. MaxDrops
      BY <3>1 DEF WatchedJobs
    <3> QED
      BY <1>2, <3>1, <3>2
  <2> QED
    BY <1>1, <1>5, <2>1 DEF HotInv, Batched
<1> QED
  BY <1>1, <1>2, <1>4, <1>6, <1>7 DEF HotInv

\* The timers, the scan, the observer, and a server that stops.
LEMMA ServerKeepsHot ==
  ASSUME HotInv,
         \/ \E f \in Folders : Hot!Fire(f)
         \/ Hot!Scan \/ Hot!StartObserver \/ Hot!Crash \/ UNCHANGED hotVars
  PROVE  HotInv'
<1>1. /\ UNCHANGED <<dropped, inbox, filed, batches, clashed>>
      /\ watchdog' \in {"off", "scanned", "watching"}
      /\ timer' \subseteq Folders
  BY DEF HotInv, Hot!Fire, Hot!Scan, Hot!StartObserver, Hot!Crash, hotVars
<1>2. fired' \in [Folders -> 0 .. 2]
  BY DEF HotInv, Hot!Fire, Hot!Scan, Hot!StartObserver, Hot!Crash, hotVars
<1>3. \/ UNCHANGED <<worker, source>>
      \/ worker' = [f \in Folders |-> None] /\ source' = None
  BY DEF Hot!Fire, Hot!Scan, Hot!StartObserver, Hot!Crash, hotVars
<1>4. /\ Working(worker', inbox, batches, source', dropped)
      /\ OfFolders(worker') /\ source' \in (0 .. MaxDrops) \cup {None}
  BY <1>3 DEF HotInv, Working, OfFolders
<1> QED
  BY <1>1, <1>2, <1>4 DEF HotInv

LEMMA ConnectKeepsHot ==
  ASSUME HotInv, ServicesAssumption, Hot!UserConnects
  PROVE  HotInv'
<1>1. /\ source' = 0
      /\ worker' = [f \in Folders |->
                      IF worker[f] = None THEN None ELSE [worker[f] EXCEPT !.disturbed = TRUE]]
      /\ UNCHANGED <<watchdog, dropped, inbox, timer, fired, filed, batches, clashed>>
  BY DEF Hot!UserConnects
<1>2. ASSUME NEW g \in Folders, worker'[g] # None
      PROVE  /\ worker[g] # None /\ worker'[g] \in Callbacks
             /\ worker'[g].file = worker[g].file /\ worker'[g].at = worker[g].at
             /\ worker'[g].disturbed = TRUE
  <2>1. worker[g] # None /\ worker'[g] = [worker[g] EXCEPT !.disturbed = TRUE]
    BY <1>1, <1>2
  <2>2. worker[g] \in Callbacks
    BY <2>1 DEF HotInv, Working
  <2> QED
    BY <2>1, <2>2 DEF Callbacks
<1>3. Working(worker', inbox, batches, source', dropped)
  <2>1. \A g, h \in Folders : worker'[g] # None /\ worker'[h] # None => g = h
    BY <1>2 DEF HotInv, Working
  <2>2. ASSUME NEW g \in Folders, worker'[g] # None
        PROVE  /\ worker[g].file <= dropped
               /\ \A h \in Folders : inbox[h] # None => inbox[h].file # worker[g].file
               /\ worker[g].at \in {"claimed", "imported"} => \A b \in batches : b.file # worker[g].file
               /\ worker[g].at \in {"previewed", "running"} =>
                    \E b \in batches : /\ b.file = worker[g].file /\ b.folder = g
                                       /\ worker[g].at = "running" => b.status = "running"
    <3>1. worker[g] # None
      BY <1>2, <2>2
    <3> QED
      BY <3>1 DEF HotInv, Working
  <2>3. \A g \in Folders : worker'[g] # None =>
          (worker'[g].at = "imported" /\ ~worker'[g].disturbed => source' = worker'[g].file)
    BY <1>2
  <2>4. ASSUME NEW g \in Folders, worker'[g] # None
        PROVE  /\ worker'[g] \in Callbacks /\ worker'[g].file <= dropped
               /\ \A h \in Folders : inbox[h] # None => inbox[h].file # worker'[g].file
               /\ worker'[g].at \in {"claimed", "imported"} => \A b \in batches : b.file # worker'[g].file
               /\ worker'[g].at \in {"previewed", "running"} =>
                    \E b \in batches : /\ b.file = worker'[g].file /\ b.folder = g
                                       /\ worker'[g].at = "running" => b.status = "running"
    <3>1. /\ worker'[g] \in Callbacks
          /\ worker'[g].file = worker[g].file /\ worker'[g].at = worker[g].at
      BY <1>2, <2>4
    <3> QED
      BY <2>2, <2>4, <3>1
  <2> QED
    BY <2>1, <2>3, <2>4 DEF Working
<1>4. OfFolders(worker') /\ source' \in (0 .. MaxDrops) \cup {None}
  BY <1>1 DEF OfFolders, ServicesAssumption
<1>5. /\ watchdog' \in {"off", "scanned", "watching"} /\ dropped' \in 0 .. MaxDrops
      /\ timer' \subseteq Folders /\ fired' \in [Folders -> 0 .. 2]
      /\ OfFolders(inbox') /\ Placed(filed', inbox', clashed', dropped')
      /\ Batched(batches', inbox', dropped')
  BY <1>1, Zenon DEF HotInv
<1>6. Working(worker', inbox', batches', source', dropped')
  BY <1>1, <1>3, Zenon
<1> QED
  BY <1>4, <1>5, <1>6, Zenon DEF HotInv

\* A job whose status changes is still the one job of its file.
LEMMA StatusKeepsJobs ==
  ASSUME HotInv, NEW b \in batches, NEW status \in {"pending", "running", "ended", "by user"},
         Hot!SetStatus(b, status),
         status \in {"running", "ended"} =>
           /\ FolderRules[b.folder].auto
           /\ b.preview.top <= GlobalRules.top
           /\ b.preview.cost <= Hot!Limit(FolderRules[b.folder].cost, GlobalRules.cost)
  PROVE  /\ Batched(batches', inbox, dropped)
         /\ \A c \in batches : c = b \/ c \in batches'
         /\ \E c \in batches' : c.file = b.file /\ c.folder = b.folder /\ c.status = status
         /\ \A c \in batches' : \E d \in batches : d.file = c.file
<1> DEFINE new == [b EXCEPT !.status = status]
<1>1. batches' = (batches \ {b}) \cup {new}
  BY DEF Hot!SetStatus
<1>2. /\ new \in WatchedJobs /\ new.file = b.file /\ new.folder = b.folder /\ new.of = b.of
      /\ new.disturbed = b.disturbed /\ new.preview = b.preview /\ new.status = status
  <2>1. b \in WatchedJobs
    BY DEF HotInv, Batched
  <2> QED
    BY ONLY <2>1, status \in {"pending", "running", "ended", "by user"} DEF WatchedJobs
<1> HIDE DEF new
<1>3. Batched(batches', inbox, dropped)
  <2>1. \A c \in batches' : c = new \/ (c \in batches /\ c # b)
    BY <1>1
  <2>2. batches' \subseteq WatchedJobs
    BY <1>2, <2>1 DEF HotInv, Batched
  <2>3. ASSUME NEW c \in batches', NEW d \in batches', c.file = d.file PROVE c = d
    <3>1. \A i, j \in batches : i.file = j.file => i = j
      BY DEF HotInv, Batched
    <3> QED
      BY <1>2, <2>1, <2>3, <3>1
  <2>4. ASSUME NEW c \in batches'
        PROVE  /\ c.file <= dropped
               /\ \A h \in Folders : inbox[h] # None => inbox[h].file # c.file
               /\ ~c.disturbed => c.of = c.file
               /\ c.status \in {"running", "ended"} =>
                    /\ FolderRules[c.folder].auto
                    /\ c.preview.top <= GlobalRules.top
                    /\ c.preview.cost <= Hot!Limit(FolderRules[c.folder].cost, GlobalRules.cost)
    <3>1. CASE c \in batches
      BY <3>1 DEF HotInv, Batched
    <3>2. CASE c = new
      <4>1. /\ b.file <= dropped
            /\ \A h \in Folders : inbox[h] # None => inbox[h].file # b.file
            /\ ~b.disturbed => b.of = b.file
        BY DEF HotInv, Batched
      <4> QED
        BY <1>2, <3>2, <4>1
    <3> QED
      BY <2>1, <3>1, <3>2
  <2> QED
    BY <2>2, <2>3, <2>4 DEF Batched
<1>4. new \in batches' /\ new.file = b.file /\ new.folder = b.folder /\ new.status = status
  BY <1>1, <1>2
<1>5. \A c \in batches : c = b \/ c \in batches'
  BY <1>1
<1>6. \A c \in batches' : \E d \in batches : d.file = c.file
  BY <1>1, <1>2
<1>7. \E c \in batches' : c.file = b.file /\ c.folder = b.folder /\ c.status = status
  BY <1>4
<1> QED
  BY <1>3, <1>5, <1>6, <1>7

LEMMA ConfirmKeepsHot ==
  ASSUME HotInv, Hot!UserConfirms
  PROVE  HotInv'
<1>1. PICK b \in batches : b.status = "pending" /\ Hot!SetStatus(b, "by user")
  BY DEF Hot!UserConfirms
<1>2. UNCHANGED <<watchdog, dropped, inbox, timer, fired, worker, filed, source, clashed>>
  BY DEF Hot!UserConfirms
<1>3. /\ Batched(batches', inbox, dropped)
      /\ \A c \in batches : c = b \/ c \in batches'
      /\ \E c \in batches' : c.file = b.file /\ c.folder = b.folder
      /\ \A c \in batches' : \E d \in batches : d.file = c.file
  <2> DEFINE status == "by user"
  <2>1. status \in {"pending", "running", "ended", "by user"} /\ status \notin {"running", "ended"}
        /\ Hot!SetStatus(b, status)
    BY <1>1
  <2> HIDE DEF status
  <2>2. status \in {"running", "ended"} =>
          /\ FolderRules[b.folder].auto
          /\ b.preview.top <= GlobalRules.top
          /\ b.preview.cost <= Hot!Limit(FolderRules[b.folder].cost, GlobalRules.cost)
    BY <2>1
  <2>3. /\ Batched(batches', inbox, dropped)
        /\ \A c \in batches : c = b \/ c \in batches'
        /\ \E c \in batches' : c.file = b.file /\ c.folder = b.folder /\ c.status = status
        /\ \A c \in batches' : \E d \in batches : d.file = c.file
    BY <2>1, <2>2, StatusKeepsJobs
  <2> QED
    BY <2>3
<1>4. Working(worker, inbox, batches', source, dropped)
  <2>1. ASSUME NEW g \in Folders, worker[g] # None
        PROVE  /\ worker[g].at \in {"claimed", "imported"} => \A c \in batches' : c.file # worker[g].file
               /\ worker[g].at \in {"previewed", "running"} =>
                    \E c \in batches' : /\ c.file = worker[g].file /\ c.folder = g
                                        /\ worker[g].at = "running" => c.status = "running"
    <3>1. worker[g].at \in {"claimed", "imported"} => \A c \in batches : c.file # worker[g].file
      BY <2>1 DEF HotInv, Working
    <3>2. ASSUME worker[g].at \in {"previewed", "running"}
          PROVE  \E c \in batches' : /\ c.file = worker[g].file /\ c.folder = g
                                     /\ worker[g].at = "running" => c.status = "running"
      <4>1. PICK d \in batches : /\ d.file = worker[g].file /\ d.folder = g
                                 /\ worker[g].at = "running" => d.status = "running"
        BY <2>1, <3>2 DEF HotInv, Working
      <4>2. CASE d = b
        BY <1>1, <1>3, <4>1, <4>2
      <4>3. CASE d # b
        BY <1>3, <4>1, <4>3
      <4> QED
        BY <4>2, <4>3
    <3> QED
      BY <1>3, <3>1, <3>2
  <2> QED
    BY <2>1 DEF HotInv, Working
<1> QED
  BY <1>2, <1>3, <1>4 DEF HotInv

\* The callback that gets the lock claims the file, or finds it gone.
LEMMA ClaimKeepsHot ==
  ASSUME HotInv, ServicesAssumption, NEW f \in Folders, Hot!Claim(f)
  PROVE  HotInv'
<1>1. /\ fired[f] > 0 /\ fired' = [fired EXCEPT ![f] = fired[f] - 1]
      /\ \A g \in Folders : worker[g] = None
      /\ UNCHANGED <<watchdog, dropped, timer, source, batches>>
  BY DEF Hot!Claim, Hot!LockFree
<1>2. fired' \in [Folders -> 0 .. 2]
  BY <1>1 DEF HotInv
<1>3. CASE inbox[f] = None
  <2>1. UNCHANGED <<inbox, worker, filed, clashed>>
    BY <1>3 DEF Hot!Claim
  <2> QED
    BY <1>1, <1>2, <2>1 DEF HotInv
<1>4. CASE inbox[f] # None
  <2> DEFINE x == inbox[f].file
             claim == [file |-> x, at |-> "claimed", disturbed |-> FALSE]
  <2>1. /\ worker' = [worker EXCEPT ![f] = claim]
        /\ Hot!Move(f, x, ".processing")
        /\ inbox' = [inbox EXCEPT ![f] = None]
    BY <1>4 DEF Hot!Claim, Hot!MoveOut
  <2>2. x \in 1 .. dropped /\ dropped \in 0 .. MaxDrops
    BY <1>4 DEF HotInv, Placed
  <2>3. \A g \in Folders : inbox[g] # None /\ inbox[g].file = x => g = f
    BY <1>4 DEF HotInv, Placed
  <2>4. /\ OfFolders(inbox') /\ OfFolders(worker')
        /\ \A g \in Folders : inbox'[g] = IF g = f THEN None ELSE inbox[g]
        /\ worker'[f] = claim /\ \A g \in Folders : g # f => worker'[g] = None
    BY <1>1, <2>1 DEF HotInv, OfFolders
  <2>5. \A g \in Folders :
          inbox'[g] = IF inbox[g] # None /\ inbox[g].file = x THEN None ELSE inbox[g]
    BY <1>4, <2>3, <2>4
  <2>6. Placed(filed', inbox', clashed', dropped)
    BY <2>1, <2>2, <2>5, MoveKeepsPlaces DEF Hot!Places
  <2>7. \A h \in Folders : inbox'[h] # None =>
          inbox'[h] = inbox[h] /\ inbox[h] # None /\ inbox'[h].file # x
    BY <2>3, <2>4
  <2>8. \A b \in batches : b.file # x
    BY <1>4 DEF HotInv, Batched
  <2>9. claim \in Callbacks /\ claim.file = x /\ claim.at = "claimed" /\ x <= dropped
    BY <2>2 DEF Callbacks
  <2> HIDE DEF claim, x
  <2>10. Working(worker', inbox', batches, source, dropped)
    BY <2>4, <2>7, <2>8, <2>9 DEF Working
  <2>11. Batched(batches, inbox', dropped)
    BY <2>7 DEF HotInv, Batched
  <2> QED
    BY <1>1, <1>2, <2>4, <2>6, <2>10, <2>11 DEF HotInv
<1> QED
  BY <1>3, <1>4

\* A callback that ends leaves no other at work, and its file in its last place.
LEMMA FileKeepsHot ==
  ASSUME HotInv, ServicesAssumption, NEW f \in Folders, worker[f] # None,
         NEW place \in {"processed", "failed"}, Hot!File(f, place),
         UNCHANGED <<watchdog, dropped, inbox, timer, fired, source>>,
         Batched(batches', inbox, dropped)
  PROVE  HotInv'
<1> DEFINE x == worker[f].file
<1>1. Hot!Move(f, x, place) /\ worker' = [worker EXCEPT ![f] = None]
  BY DEF Hot!File
<1>2. /\ x \in 1 .. MaxDrops /\ x <= dropped /\ dropped \in 0 .. MaxDrops
      /\ \A h \in Folders : inbox[h] # None => inbox[h].file # x
  BY DEF HotInv, Working, Callbacks
<1>3. x \in 1 .. dropped /\ place \in Hot!Places
  BY <1>2 DEF ServicesAssumption, Hot!Places
<1>4. OfFolders(worker') /\ \A g \in Folders : worker'[g] = None
  <2>1. \A g \in Folders : worker[g] # None => g = f
    BY DEF HotInv, Working
  <2> QED
    BY <1>1, <2>1 DEF HotInv, OfFolders
<1> HIDE DEF x
<1>5. \A g \in Folders :
        inbox[g] = IF inbox[g] # None /\ inbox[g].file = x THEN None ELSE inbox[g]
  BY <1>2
<1>6. Placed(filed', inbox, clashed', dropped)
  BY <1>1, <1>3, <1>5, MoveKeepsPlaces
<1>7. Working(worker', inbox, batches', source, dropped)
  BY <1>4 DEF Working
<1> QED
  BY <1>4, <1>6, <1>7 DEF HotInv

\* What the gateway holds after an import is the file of the callback.
LEMMA ImportKeepsHot ==
  ASSUME HotInv, ServicesAssumption, NEW f \in Folders, Hot!Import(f)
  PROVE  HotInv'
<1> DEFINE w == worker[f]
           next == [w EXCEPT !.at = "imported", !.disturbed = FALSE]
<1>1. /\ w # None /\ w.at = "claimed" /\ source' = w.file
      /\ worker' = [worker EXCEPT ![f] = next]
      /\ UNCHANGED <<watchdog, dropped, inbox, timer, fired, filed, batches, clashed>>
  BY DEF Hot!Import
<1>2. /\ w \in Callbacks /\ w.file <= dropped
      /\ \A h \in Folders : inbox[h] # None => inbox[h].file # w.file
      /\ \A b \in batches : b.file # w.file
  BY <1>1 DEF HotInv, Working
<1>3. next \in Callbacks /\ next.file = w.file /\ next.at = "imported"
  BY <1>2 DEF Callbacks
<1>4. /\ OfFolders(worker') /\ worker'[f] = next
      /\ \A g \in Folders : g # f => worker'[g] = None
  <2>1. \A g \in Folders : worker[g] # None => g = f
    BY <1>1 DEF HotInv, Working
  <2> QED
    BY <1>1, <2>1 DEF HotInv, OfFolders
<1>5. source' \in (0 .. MaxDrops) \cup {None}
  BY <1>1, <1>2 DEF Callbacks, ServicesAssumption
<1>6. next.file = source'
  BY <1>1, <1>3
<1> HIDE DEF next, w
<1>7. Working(worker', inbox, batches, source', dropped)
  BY <1>2, <1>3, <1>4, <1>6 DEF Working
<1> QED
  BY <1>1, <1>4, <1>5, <1>7 DEF HotInv

\* The first job made for a file is of its rows, unless a user connected something else.
LEMMA PreviewKeepsHot ==
  ASSUME HotInv, ServicesAssumption, NEW f \in Folders, Hot!Preview(f)
  PROVE  HotInv'
<1> DEFINE w == worker[f]
           next == [w EXCEPT !.at = "previewed"]
<1>1. w # None /\ w.at = "imported"
      /\ UNCHANGED <<watchdog, dropped, inbox, timer, fired, source>>
  BY DEF Hot!Preview
<1>2. /\ w \in Callbacks /\ w.file <= dropped
      /\ \A h \in Folders : inbox[h] # None => inbox[h].file # w.file
      /\ \A b \in batches : b.file # w.file
      /\ ~w.disturbed => source = w.file
  BY <1>1 DEF HotInv, Working
<1>3. CASE Hot!File(f, "processed") /\ UNCHANGED batches
  <2>1. Batched(batches', inbox, dropped)
    BY <1>3 DEF HotInv
  <2> DEFINE place == "processed"
  <2>2. place \in {"processed", "failed"} /\ Hot!File(f, place)
    BY <1>3
  <2> HIDE DEF place
  <2> QED
    BY <1>1, <2>1, <2>2, FileKeepsHot
<1>4. CASE /\ source # None
           /\ \E p \in Previews :
                batches' = batches \cup {[file |-> w.file, of |-> source, folder |-> f,
                                          disturbed |-> w.disturbed,
                                          preview |-> p, status |-> "pending"]}
           /\ worker' = [worker EXCEPT ![f].at = "previewed"]
           /\ UNCHANGED <<filed, clashed>>
  <2>1. PICK p \in Previews :
          batches' = batches \cup {[file |-> w.file, of |-> source, folder |-> f,
                                    disturbed |-> w.disturbed,
                                    preview |-> p, status |-> "pending"]}
    BY <1>4
  <2> DEFINE new == [file |-> w.file, of |-> source, folder |-> f, disturbed |-> w.disturbed,
                     preview |-> p, status |-> "pending"]
  <2>2. source \in 0 .. MaxDrops
    BY <1>4 DEF HotInv
  <2>3. /\ new \in WatchedJobs /\ new.file = w.file /\ new.folder = f /\ new.status = "pending"
        /\ ~new.disturbed => new.of = new.file
    BY <1>2, <2>2 DEF WatchedJobs, Callbacks
  <2>4. /\ OfFolders(worker') /\ worker'[f] = next
        /\ \A g \in Folders : g # f => worker'[g] = None
    <3>1. \A g \in Folders : worker[g] # None => g = f
      BY <1>1 DEF HotInv, Working
    <3> QED
      BY <1>4, <3>1 DEF HotInv, OfFolders
  <2>5. next \in Callbacks /\ next.file = w.file /\ next.at = "previewed"
    BY <1>2 DEF Callbacks
  <2>6. batches' = batches \cup {new}
    BY <2>1
  <2> HIDE DEF new, next, w
  <2>7. Working(worker', inbox, batches', source, dropped)
    BY <1>2, <2>3, <2>4, <2>5, <2>6 DEF Working
  <2>8. Batched(batches', inbox, dropped)
    <3>1. batches' \subseteq WatchedJobs
      BY <2>3, <2>6 DEF HotInv, Batched
    <3>2. \A b, c \in batches' : b.file = c.file => b = c
      <4>1. \A b, c \in batches : b.file = c.file => b = c
        BY DEF HotInv, Batched
      <4> QED
        BY <1>2, <2>3, <2>6, <4>1
    <3>3. ASSUME NEW b \in batches'
          PROVE  /\ b.file <= dropped
                 /\ \A h \in Folders : inbox[h] # None => inbox[h].file # b.file
                 /\ ~b.disturbed => b.of = b.file
                 /\ b.status \in {"running", "ended"} =>
                      /\ FolderRules[b.folder].auto
                      /\ b.preview.top <= GlobalRules.top
                      /\ b.preview.cost <= Hot!Limit(FolderRules[b.folder].cost, GlobalRules.cost)
      <4>1. CASE b \in batches
        BY <4>1 DEF HotInv, Batched
      <4>2. CASE b = new
        BY <1>2, <2>3, <4>2
      <4> QED
        BY <2>6, <4>1, <4>2
    <3> QED
      BY <3>1, <3>2, <3>3 DEF Batched
  <2> QED
    BY <1>1, <1>4, <2>4, <2>7, <2>8 DEF HotInv
<1> QED
  BY <1>3, <1>4 DEF Hot!Preview

\* The job of a callback at its preview or later is the one job of its file.
LEMMA JobOfCallback ==
  ASSUME HotInv, NEW f \in Folders, worker[f] # None, worker[f].at \in {"previewed", "running"}
  PROVE  /\ Hot!JobOf(f) \in batches
         /\ Hot!JobOf(f).file = worker[f].file /\ Hot!JobOf(f).folder = f
         /\ worker[f].at = "running" => Hot!JobOf(f).status = "running"
<1>1. PICK b \in batches : /\ b.file = worker[f].file /\ b.folder = f
                           /\ worker[f].at = "running" => b.status = "running"
  BY DEF HotInv, Working
<1>2. Hot!JobOf(f) \in batches /\ Hot!JobOf(f).file = worker[f].file
  BY <1>1 DEF Hot!JobOf
<1>3. Hot!JobOf(f) = b
  BY <1>1, <1>2 DEF HotInv, Batched
<1> QED
  BY <1>1, <1>2, <1>3

\* Without a violation the preview is within the limits on cost.
LEMMA WithinLimits ==
  ASSUME ServicesAssumption, NEW f \in Folders, NEW p \in Previews, Hot!Violations(f, p) = {}
  PROVE  p.top <= GlobalRules.top /\ p.cost <= Hot!Limit(FolderRules[f].cost, GlobalRules.cost)
<1>1. /\ "max_cost_cents" \notin Hot!Violations(f, p)
      /\ "max_cost_per_row_cents" \notin Hot!Violations(f, p)
  OBVIOUS
<1>2. ~(p.cost > Hot!Limit(FolderRules[f].cost, GlobalRules.cost)) /\ ~(p.top > GlobalRules.top)
  BY <1>1 DEF Hot!Violations
<1>3. /\ p.cost \in Nat /\ p.top \in Nat /\ GlobalRules.top \in Nat
      /\ Hot!Limit(FolderRules[f].cost, GlobalRules.cost) \in Nat
  BY DEF ServicesAssumption, Hot!Limit
<1> QED
  BY <1>2, <1>3

LEMMA DecideKeepsHot ==
  ASSUME HotInv, ServicesAssumption, NEW f \in Folders, Hot!Decide(f)
  PROVE  HotInv'
<1> DEFINE b == Hot!JobOf(f)
           w == worker[f]
           next == [w EXCEPT !.at = "running"]
<1>1. worker[f] # None /\ w.at = "previewed"
      /\ UNCHANGED <<watchdog, dropped, inbox, timer, fired, source>>
  BY DEF Hot!Decide
<1>2. b \in batches /\ b.file = w.file /\ b.folder = f
  BY <1>1, JobOfCallback
<1>3. /\ w \in Callbacks /\ w.file <= dropped
      /\ \A h \in Folders : inbox[h] # None => inbox[h].file # w.file
  BY <1>1 DEF HotInv, Working
<1>4. CASE /\ FolderRules[f].auto /\ b.status = "pending" /\ Hot!Violations(f, b.preview) = {}
           /\ Hot!SetStatus(b, "running")
           /\ worker' = [worker EXCEPT ![f].at = "running"]
           /\ UNCHANGED <<filed, clashed>>
  <2>1. b.preview \in Previews
    BY <1>2 DEF HotInv, Batched, WatchedJobs
  <2>2. /\ FolderRules[b.folder].auto
        /\ b.preview.top <= GlobalRules.top
        /\ b.preview.cost <= Hot!Limit(FolderRules[b.folder].cost, GlobalRules.cost)
    BY <1>2, <1>4, <2>1, WithinLimits
  <2>3. /\ OfFolders(worker') /\ worker'[f] = next
        /\ \A g \in Folders : g # f => worker'[g] = None
    <3>1. \A g \in Folders : worker[g] # None => g = f
      BY <1>1 DEF HotInv, Working
    <3> QED
      BY <1>4, <3>1 DEF HotInv, OfFolders
  <2>4. next \in Callbacks /\ next.file = w.file /\ next.at = "running"
    BY <1>3 DEF Callbacks
  <2> DEFINE status == "running"
  <2>5. status \in {"pending", "running", "ended", "by user"} /\ Hot!SetStatus(b, status)
    BY <1>4
  <2>6. status = "running"
    OBVIOUS
  <2> HIDE DEF status, b, next, w
  <2>7. /\ Batched(batches', inbox, dropped)
        /\ \E c \in batches' : c.file = b.file /\ c.folder = b.folder /\ c.status = status
    BY <1>2, <2>2, <2>5, StatusKeepsJobs
  <2>8. Working(worker', inbox, batches', source, dropped)
    BY <1>2, <1>3, <2>3, <2>4, <2>6, <2>7 DEF Working
  <2> QED
    BY <1>1, <1>4, <2>3, <2>7, <2>8 DEF HotInv
<1>5. CASE Hot!File(f, "processed") /\ UNCHANGED batches
  <2>1. Batched(batches', inbox, dropped)
    BY <1>5 DEF HotInv
  <2> DEFINE place == "processed"
  <2>2. place \in {"processed", "failed"} /\ Hot!File(f, place)
    BY <1>5
  <2> HIDE DEF place
  <2> QED
    BY <1>1, <2>1, <2>2, FileKeepsHot
<1> QED
  BY <1>4, <1>5 DEF Hot!Decide

LEMMA ExecuteKeepsHot ==
  ASSUME HotInv, ServicesAssumption, NEW f \in Folders, Hot!Execute(f)
  PROVE  HotInv'
<1> DEFINE b == Hot!JobOf(f)
           place == "processed"
           status == "ended"
<1>1. /\ worker[f] # None /\ worker[f].at = "running"
      /\ Hot!SetStatus(b, status) /\ Hot!File(f, place)
      /\ UNCHANGED <<watchdog, dropped, inbox, timer, fired, source>>
      /\ place \in {"processed", "failed"} /\ status \in {"pending", "running", "ended", "by user"}
  BY DEF Hot!Execute
<1>2. b \in batches /\ b.status = "running"
  BY <1>1, JobOfCallback
<1>3. /\ FolderRules[b.folder].auto
      /\ b.preview.top <= GlobalRules.top
      /\ b.preview.cost <= Hot!Limit(FolderRules[b.folder].cost, GlobalRules.cost)
  BY <1>2 DEF HotInv, Batched
<1> HIDE DEF b, place, status
<1>4. Batched(batches', inbox, dropped)
  BY <1>1, <1>2, <1>3, StatusKeepsJobs
<1> QED
  BY <1>1, <1>4, FileKeepsHot

LEMMA FailKeepsHot ==
  ASSUME HotInv, ServicesAssumption, NEW f \in Folders, Hot!Fail(f)
  PROVE  HotInv'
<1> DEFINE place == "failed"
<1>1. /\ worker[f] # None /\ Hot!File(f, place) /\ place \in {"processed", "failed"}
      /\ UNCHANGED <<watchdog, dropped, inbox, timer, fired, source>> /\ batches' = batches
  BY DEF Hot!Fail
<1>2. Batched(batches', inbox, dropped)
  BY <1>1 DEF HotInv
<1> HIDE DEF place
<1> QED
  BY <1>1, <1>2, FileKeepsHot

LEMMA HotStep == HotInv /\ ServicesAssumption /\ (Hot!Next \/ UNCHANGED hotVars) => HotInv'
<1> SUFFICES ASSUME HotInv, ServicesAssumption, Hot!Next \/ UNCHANGED hotVars
             PROVE  HotInv'
  OBVIOUS
<1>1. CASE UNCHANGED hotVars \/ Hot!Scan \/ Hot!StartObserver \/ Hot!Crash
  BY <1>1, ServerKeepsHot
<1>2. CASE Hot!UserConnects \/ Hot!UserConfirms
  BY <1>2, ConnectKeepsHot, ConfirmKeepsHot
<1>3. ASSUME NEW f \in Folders, Hot!Write(f) \/ Hot!Fire(f) \/ Hot!Claim(f) \/ Hot!Import(f)
                                \/ Hot!Preview(f) \/ Hot!Decide(f) \/ Hot!Execute(f) \/ Hot!Fail(f)
      PROVE  HotInv'
  BY <1>3, WriteKeepsHot, ServerKeepsHot, ClaimKeepsHot, ImportKeepsHot, PreviewKeepsHot,
     DecideKeepsHot, ExecuteKeepsHot, FailKeepsHot
<1> QED
  BY <1>1, <1>2, <1>3 DEF Hot!Next

\* The watched folders count their files as this module does.
LEMMA SameCardinality == \A S : Hot!Cardinality(S) = Cardinality(S)
BY DEF Hot!Cardinality, Cardinality

\* A file that nothing overwrote is counted once over the inboxes and the subdirectories.
LEMMA KeptInOnePlace == HotInv /\ ServicesAssumption => Hot!FilesAreKept
<1> SUFFICES ASSUME HotInv, ServicesAssumption, NEW x \in 1 .. dropped
             PROVE  \/ x \in clashed
                    \/ Cardinality({y \in filed : y.file = x})
                         + Cardinality({f \in Folders : inbox[f] # None /\ inbox[f].file = x}) = 1
  BY SameCardinality, Zenon DEF Hot!FilesAreKept
<1> SUFFICES ASSUME x \notin clashed
             PROVE  Cardinality({y \in filed : y.file = x})
                      + Cardinality({f \in Folders : inbox[f] # None /\ inbox[f].file = x}) = 1
  BY Zenon
<1> DEFINE there == {y \in filed : y.file = x}
           here == {f \in Folders : inbox[f] # None /\ inbox[f].file = x}
<1>1. x # 0
  BY DEF HotInv, ServicesAssumption
<1>2. CASE \E y \in filed : y.file = x
  <2>1. PICK y \in filed : y.file = x
    BY <1>2
  <2>2. there = {y}
    BY <1>1, <2>1 DEF HotInv, Placed
  <2>3. here = {}
    BY <2>1 DEF HotInv, Placed
  <2> HIDE DEF there, here
  <2>4. Cardinality(there) = 1 /\ Cardinality(here) = 0
    BY <2>2, <2>3, FS_Singleton, FS_EmptySet
  <2> QED
    BY <2>4 DEF there, here
<1>3. CASE \E f \in Folders : inbox[f] # None /\ inbox[f].file = x
  <2>1. PICK f \in Folders : inbox[f] # None /\ inbox[f].file = x
    BY <1>3
  <2>2. here = {f}
    BY <2>1 DEF HotInv, Placed
  <2>3. there = {}
    BY <2>1 DEF HotInv, Placed
  <2> HIDE DEF there, here
  <2>4. Cardinality(here) = 1 /\ Cardinality(there) = 0
    BY <2>2, <2>3, FS_Singleton, FS_EmptySet
  <2> QED
    BY <2>4 DEF there, here
<1> QED
  BY <1>2, <1>3 DEF HotInv, Placed

\* A watched file is in one place, is batched at most once, as a job of its own rows, and
\* ships unattended only within the limits, for any number of folders and of files dropped,
\* through every crash and whatever the users of the gateway connect meanwhile.
THEOREM WatchedFoldersKeepTheirPromise == Spec => []WatchdogPromise
<1>1. Init => HotInv
  BY InitHot, ServicesAssumption DEF Init
<1>2. HotInv /\ [Next]_allVars => HotInv'
  <2> SUFFICES ASSUME HotInv, [Next]_allVars PROVE HotInv'
    OBVIOUS
  <2>1. Hot!Next \/ UNCHANGED hotVars
    BY DEF Next, Rest, allVars
  <2> QED
    BY <2>1, HotStep, ServicesAssumption
<1>3. HotInv => WatchdogPromise
  <2> SUFFICES ASSUME HotInv PROVE WatchdogPromise
    OBVIOUS
  <2>1. Hot!FilesAreKept
    BY KeptInOnePlace, ServicesAssumption
  <2>2. Hot!BatchedOnce /\ Hot!WatchedJobIsOfItsFile
    BY DEF HotInv, Batched, Hot!BatchedOnce, Hot!WatchedJobIsOfItsFile
  <2>3. Hot!UnattendedIsWithinLimits
    <3>1. \A own, global : (IF own \in {None, 0} THEN global ELSE own) = Hot!Limit(own, global)
      BY DEF Hot!Limit
    <3> QED
      BY <3>1 DEF HotInv, Batched, Hot!UnattendedIsWithinLimits
  <2>4. Hot!TypeOK
    <3>1. /\ watchdog \in {"off", "scanned", "watching"} /\ dropped \in 0 .. MaxDrops
          /\ timer \subseteq Folders /\ fired \in [Folders -> 0 .. 2]
      BY DEF HotInv
    <3>2. \A f \in Folders :
            /\ inbox[f] # None => inbox[f] \in [file : Hot!FileIds, whole : BOOLEAN]
            /\ worker[f] # None => worker[f].at \in {"claimed", "imported", "previewed", "running"}
      <4>1. ASSUME NEW f \in Folders, inbox[f] # None
            PROVE  inbox[f] \in [file : Hot!FileIds, whole : BOOLEAN]
        <5>1. inbox[f] \in [file : 1 .. dropped, whole : BOOLEAN] /\ dropped \in 0 .. MaxDrops
          BY <4>1 DEF HotInv, Placed
        <5> QED
          BY <5>1, ServicesAssumption DEF Hot!FileIds, ServicesAssumption
      <4>2. ASSUME NEW f \in Folders, worker[f] # None
            PROVE  worker[f].at \in {"claimed", "imported", "previewed", "running"}
        BY <4>2 DEF HotInv, Working, Callbacks
      <4> QED
        BY <4>1, <4>2
    <3>3. 0 .. MaxDrops = Hot!FileIds \cup {0}
      BY ServicesAssumption DEF Hot!FileIds, ServicesAssumption
    <3>4. \A y \in filed : y.folder \in Folders /\ y.place \in Hot!Places /\ y.file \in Hot!FileIds \cup {0}
      BY <3>3 DEF HotInv, Placed, Filings
    <3>5. source \in Hot!FileIds \cup {0, None}
      BY <3>3 DEF HotInv
    <3>6. clashed \subseteq Hot!FileIds \cup {0}
      <4>1. clashed \subseteq 0 .. dropped /\ dropped \in 0 .. MaxDrops
        BY DEF HotInv, Placed
      <4>2. 0 .. dropped \subseteq 0 .. MaxDrops
        BY <4>1, ServicesAssumption DEF ServicesAssumption
      <4> QED
        BY <4>1, <4>2, <3>3
    <3> QED
      BY <3>1, <3>2, <3>4, <3>5, <3>6 DEF Hot!TypeOK
  <2> QED
    BY <2>1, <2>2, <2>3, <2>4 DEF WatchdogPromise
<1> QED
  BY <1>1, <1>2, <1>3, PTL DEF Spec

-----------------------------------------------------------------------------
\* The external sources.

ShopNames == DOMAIN Shops
ShopClients == [shop : ShopNames, by : Ext!ToolCalls]
ShopConnections == [shop : ShopNames, status : {"connected", "error"}]
Fulfillments == [number : Ext!ToolCalls \cup {None}, whole : BOOLEAN]
ToolStates ==
  [op : {"idle", "connect", "update", "list"}, shop : ShopNames \cup {None},
   at : {"new", "waiting", "read", "ended"}, client : ShopClients \cup {None},
   claimed : ShopConnections \cup {None}, whole : BOOLEAN, success : BOOLEAN]

\* A platform is connected to the shop its client was authenticated with.
Joined(conns, clients) ==
  /\ conns = [p \in Ext!Platforms |-> conns[p]] /\ clients = [p \in Ext!Platforms |-> clients[p]]
  /\ \A p \in Ext!Platforms :
       /\ conns[p] # None => conns[p] \in ShopConnections
       /\ clients[p] # None => clients[p] \in ShopClients /\ Shops[clients[p].shop] = p
       /\ conns[p] # None /\ clients[p] # None /\ conns[p].status = "connected" =>
            clients[p].shop = conns[p].shop

\* What a call holds from its beginning on.
Asks(t) ==
  /\ t \in ToolStates
  /\ t.op = "connect" => t.shop \in ShopNames
  /\ t.op \in {"update", "list"} => t.client \in ShopClients
  /\ t.op = "update" => t.at \in {"waiting", "read", "ended"}
  /\ t.success => t.at = "ended"
  /\ t.claimed # None /\ t.claimed.status = "connected" => t.client.shop = t.claimed.shop

\* Where no updates of a shop overlap, each has ended before the next begins.
InTurn(tools, ups, over) ==
  /\ ups \in Seq(Ext!ToolCalls)
  /\ \A i \in 1 .. Len(ups) : tools[ups[i]].op = "update"
  /\ \A c \in Ext!ToolCalls : tools[c].op = "update" => \E i \in 1 .. Len(ups) : ups[i] = c
  /\ \A i, j \in 1 .. Len(ups) :
       i < j /\ tools[ups[i]].client.shop = tools[ups[j]].client.shop
         /\ tools[ups[i]].client.shop \notin over => tools[ups[i]].at = "ended"

HasWhole(ful) == \E k \in 1 .. Len(ful) : ful[k].whole
OneWhole(ful) == \A k, n \in 1 .. Len(ful) : ful[k].whole /\ ful[n].whole => k = n
HasNumber(ful, c) == \E k \in 1 .. Len(ful) : ful[k].number = c

\* There an order has one fulfillment at most, the update that has read it knows whether
\* it has, and the last update that was reported as done left its number.
Told(tools, ups, over, orders) ==
  /\ orders = [s \in ShopNames |-> orders[s]]
  /\ \A s \in ShopNames :
       /\ orders[s] \in Seq(Fulfillments)
       /\ s \notin over => OneWhole(orders[s])
  /\ \A c \in Ext!ToolCalls :
       LET s == tools[c].client.shop
       IN  tools[c].op = "update" /\ tools[c].at = "read" /\ s \notin over /\ Shops[s] = "shopify"
             => (tools[c].whole <=> HasWhole(orders[s]))
  /\ \A i \in 1 .. Len(ups) :
       LET t == tools[ups[i]]
       IN  /\ t.at = "ended" /\ t.success /\ t.client.shop \notin over
           /\ \A j \in (i + 1) .. Len(ups) : tools[ups[j]].client.shop # t.client.shop
           => HasNumber(orders[t.client.shop], ups[i])

ExtInv ==
  /\ Joined(connection, client)
  /\ closed \subseteq Ext!ToolCalls /\ overlapped \subseteq ShopNames
  /\ tool = [c \in Ext!ToolCalls |-> tool[c]] /\ \A c \in Ext!ToolCalls : Asks(tool[c])
  /\ InTurn(tool, updated, overlapped)
  /\ Told(tool, updated, overlapped, fulfilled)

LEMMA InitExt == Ext!Init => ExtInv
<1> SUFFICES ASSUME Ext!Init PROVE ExtInv
  OBVIOUS
<1>1. /\ connection = [p \in Ext!Platforms |-> None] /\ client = [p \in Ext!Platforms |-> None]
      /\ closed = {} /\ tool = [c \in Ext!ToolCalls |-> Ext!Idle]
      /\ fulfilled = [s \in ShopNames |-> <<>>] /\ updated = <<>> /\ overlapped = {}
  BY DEF Ext!Init, ShopNames
<1>2. Asks(Ext!Idle) /\ Ext!Idle.op = "idle" /\ Ext!Idle.at = "new"
  BY DEF Asks, ToolStates, Ext!Idle
<1>3. Joined(connection, client)
  BY <1>1 DEF Joined
<1>4. InTurn(tool, updated, overlapped)
  BY <1>1, <1>2 DEF InTurn
<1>5. Told(tool, updated, overlapped, fulfilled)
  BY <1>1, <1>2 DEF Told, OneWhole
<1> QED
  BY <1>1, <1>2, <1>3, <1>4, <1>5 DEF ExtInv

\* A step of one call that neither begins an update nor is reported as done.
LEMMA OneTool ==
  ASSUME ExtInv, NEW c \in Ext!ToolCalls, NEW t, Asks(t), tool' = [tool EXCEPT ![c] = t],
         UNCHANGED <<closed, fulfilled, updated, overlapped>>, Joined(connection', client'),
         \/ tool[c].op # "update" /\ t.op # "update"
         \/ /\ tool[c].op = "update" /\ t.op = "update" /\ t.client = tool[c].client
            /\ tool[c].at # "ended" /\ ~t.success
            /\ t.at = "read" => (t.whole <=> HasWhole(fulfilled[t.client.shop]))
  PROVE  ExtInv'
<1>1. /\ tool' = [d \in Ext!ToolCalls |-> tool'[d]]
      /\ tool'[c] = t /\ \A d \in Ext!ToolCalls : d # c => tool'[d] = tool[d]
  BY DEF ExtInv
<1>2. updated \in Seq(Ext!ToolCalls) /\ \A i \in 1 .. Len(updated) : updated[i] \in Ext!ToolCalls
  BY DEF ExtInv, InTurn
<1>3. \A i \in 1 .. Len(updated) :
        /\ tool'[updated[i]].op = "update"
        /\ tool'[updated[i]].client = tool[updated[i]].client
        /\ tool[updated[i]].at = "ended" => tool'[updated[i]] = tool[updated[i]]
        /\ tool'[updated[i]] = tool[updated[i]] \/ ~tool'[updated[i]].success
  BY <1>1, <1>2 DEF ExtInv, InTurn
<1>4. \A d \in Ext!ToolCalls : tool'[d].op = "update" => tool[d].op = "update"
  BY <1>1
<1>5. InTurn(tool', updated, overlapped)
  BY <1>2, <1>3, <1>4 DEF ExtInv, InTurn
<1>6. Told(tool', updated, overlapped, fulfilled)
  <2>1. ASSUME NEW d \in Ext!ToolCalls, tool'[d].op = "update", tool'[d].at = "read",
               tool'[d].client.shop \notin overlapped, Shops[tool'[d].client.shop] = "shopify"
        PROVE  tool'[d].whole <=> HasWhole(fulfilled[tool'[d].client.shop])
    <3>1. CASE d = c
      BY <1>1, <2>1, <3>1
    <3>2. CASE d # c
      BY <1>1, <2>1, <3>2 DEF ExtInv, Told
    <3> QED
      BY <3>1, <3>2
  <2>2. ASSUME NEW i \in 1 .. Len(updated),
               tool'[updated[i]].at = "ended", tool'[updated[i]].success,
               tool'[updated[i]].client.shop \notin overlapped,
               \A j \in (i + 1) .. Len(updated) :
                 tool'[updated[j]].client.shop # tool'[updated[i]].client.shop
        PROVE  HasNumber(fulfilled[tool'[updated[i]].client.shop], updated[i])
    <3>1. tool'[updated[i]] = tool[updated[i]]
      BY <1>3, <2>2
    <3>2. \A j \in (i + 1) .. Len(updated) : tool[updated[j]].client.shop # tool[updated[i]].client.shop
      BY <1>2, <1>3, <2>2, <3>1
    <3> QED
      BY <2>2, <3>1, <3>2 DEF ExtInv, Told
  <2> QED
    BY <2>1, <2>2 DEF ExtInv, Told
<1> QED
  BY <1>1, <1>5, <1>6 DEF ExtInv

\* Connecting changes client and connection together, or leaves the client and no
\* connection that claims its shop.
LEMMA ConnectKeepsExt ==
  ASSUME ExtInv, NEW c \in Ext!ToolCalls,
         Ext!Authenticated(c) \/ \E s \in ShopNames : Ext!Connect(c, s)
  PROVE  ExtInv'
<1>1. CASE \E s \in ShopNames : Ext!Connect(c, s)
  <2>1. PICK s \in ShopNames : Ext!Connect(c, s)
    BY <1>1
  <2> DEFINE t == [Ext!Idle EXCEPT !.op = "connect", !.shop = s, !.at = "waiting"]
  <2>2. /\ tool[c].op = "idle" /\ tool' = [tool EXCEPT ![c] = t]
        /\ UNCHANGED <<connection, client, closed, fulfilled, updated, overlapped>>
    BY <2>1 DEF Ext!Connect, Ext!Begins, Ext!ClientDuringConnect
  <2>3. Asks(t) /\ t.op = "connect"
    BY DEF Asks, ToolStates, Ext!Idle
  <2>4. Joined(connection', client')
    BY <2>2 DEF ExtInv
  <2> HIDE DEF t
  <2> QED
    BY <2>2, <2>3, <2>4, OneTool
<1>2. CASE Ext!Authenticated(c)
  <2> DEFINE s == tool[c].shop
             p == Shops[s]
  <2>1. /\ tool[c].op = "connect" /\ Asks(tool[c]) /\ s \in ShopNames
        /\ UNCHANGED <<closed, fulfilled, updated, overlapped>>
    BY <1>2 DEF Ext!Authenticated, ExtInv, Asks
  <2>2. p \in Ext!Platforms
    BY <2>1 DEF Ext!Platforms, ShopNames
  <2>3. CASE /\ client' = [client EXCEPT ![p] = [shop |-> s, by |-> c]]
             /\ connection' = [connection EXCEPT ![p] = [shop |-> s, status |-> "connected"]]
             /\ tool' = [tool EXCEPT ![c].at = "ended", ![c].success = TRUE]
    <3> DEFINE t == [tool[c] EXCEPT !.at = "ended", !.success = TRUE]
    <3>1. tool' = [tool EXCEPT ![c] = t]
      BY <2>3 DEF ExtInv
    <3>2. Asks(t) /\ t.op = "connect"
      BY <2>1 DEF Asks, ToolStates
    <3>3. Joined(connection', client')
      <4>1. /\ connection' = [q \in Ext!Platforms |-> connection'[q]]
            /\ client' = [q \in Ext!Platforms |-> client'[q]]
            /\ connection'[p] = [shop |-> s, status |-> "connected"]
            /\ client'[p] = [shop |-> s, by |-> c]
            /\ \A q \in Ext!Platforms : q # p =>
                 connection'[q] = connection[q] /\ client'[q] = client[q]
        BY <2>2, <2>3 DEF ExtInv, Joined
      <4>2. connection'[p] \in ShopConnections /\ client'[p] \in ShopClients
            /\ client'[p].shop = s /\ connection'[p].shop = s /\ Shops[client'[p].shop] = p
        BY <2>1, <4>1 DEF ShopConnections, ShopClients
      <4> HIDE DEF s, p
      <4> QED
        BY <4>1, <4>2 DEF ExtInv, Joined
    <3> HIDE DEF t
    <3> QED
      BY <2>1, <3>1, <3>2, <3>3, OneTool
  <2>4. CASE /\ connection' = [connection EXCEPT ![p] = [shop |-> s, status |-> "error"]]
             /\ tool' = [tool EXCEPT ![c].at = "ended"]
             /\ UNCHANGED client
    <3> DEFINE t == [tool[c] EXCEPT !.at = "ended"]
    <3>1. tool' = [tool EXCEPT ![c] = t]
      BY <2>4 DEF ExtInv
    <3>2. Asks(t) /\ t.op = "connect"
      BY <2>1 DEF Asks, ToolStates
    <3>3. Joined(connection', client')
      <4>1. /\ connection' = [q \in Ext!Platforms |-> connection'[q]] /\ client' = client
            /\ connection'[p] = [shop |-> s, status |-> "error"]
            /\ \A q \in Ext!Platforms : q # p => connection'[q] = connection[q]
        BY <2>2, <2>4 DEF ExtInv, Joined
      <4>2. connection'[p] \in ShopConnections /\ connection'[p].status # "connected"
        BY <2>1, <4>1 DEF ShopConnections
      <4> HIDE DEF s, p
      <4> QED
        BY <4>1, <4>2 DEF ExtInv, Joined
    <3> HIDE DEF t
    <3> QED
      BY <2>1, <3>1, <3>2, <3>3, OneTool
  <2> QED
    BY <1>2, <2>3, <2>4 DEF Ext!Authenticated
<1> QED
  BY <1>1, <1>2

LEMMA DisconnectKeepsExt ==
  ASSUME ExtInv, NEW p \in Ext!Platforms, Ext!Disconnect(p)
  PROVE  ExtInv'
<1>1. /\ connection' = [connection EXCEPT ![p] = None] /\ client' = [client EXCEPT ![p] = None]
      /\ closed' = IF client[p] # None /\ p = "sap" THEN closed \cup {client[p].by} ELSE closed
      /\ UNCHANGED <<tool, fulfilled, updated, overlapped>>
  BY DEF Ext!Disconnect
<1>2. Joined(connection', client')
  BY <1>1 DEF ExtInv, Joined
<1>3. closed' \subseteq Ext!ToolCalls
  <2>1. client[p] # None => client[p].by \in Ext!ToolCalls
    BY DEF ExtInv, Joined, ShopClients
  <2> QED
    BY <1>1, <2>1 DEF ExtInv
<1> QED
  BY <1>1, <1>2, <1>3 DEF ExtInv

\* A call takes the client of the platform together with what its connection claims.
UserOf(op, p, at) ==
  [Ext!Idle EXCEPT !.op = op, !.at = at, !.client = client[p], !.claimed = connection[p]]

LEMMA UsedClient ==
  ASSUME ExtInv, NEW c \in Ext!ToolCalls, NEW op \in {"list", "update"},
         NEW p \in Ext!Platforms, NEW at \in {"waiting", "read"}, Ext!UseClient(c, op, p, at)
  PROVE  /\ tool' = [tool EXCEPT ![c] = UserOf(op, p, at)] /\ tool[c].op = "idle"
         /\ Asks(UserOf(op, p, at)) /\ UserOf(op, p, at).op = op /\ UserOf(op, p, at).at = at
         /\ UserOf(op, p, at).client = client[p]
         /\ client[p] \in ShopClients /\ Shops[client[p].shop] = p
<1> DEFINE t == UserOf(op, p, at)
<1>1. /\ tool[c].op = "idle" /\ connection[p] # None /\ client[p] # None
      /\ tool' = [tool EXCEPT ![c] = t]
  BY DEF Ext!UseClient, Ext!Begins, UserOf
<1>2. /\ connection[p] \in ShopConnections /\ client[p] \in ShopClients
      /\ Shops[client[p].shop] = p
      /\ connection[p].status = "connected" => client[p].shop = connection[p].shop
  BY <1>1 DEF ExtInv, Joined
<1>3. /\ t \in ToolStates /\ t.op = op /\ t.at = at /\ t.client = client[p]
      /\ t.claimed = connection[p] /\ t.whole = FALSE /\ t.success = FALSE
  BY <1>2 DEF ToolStates, Ext!Idle, UserOf
<1> HIDE DEF t
<1>4. Asks(t)
  BY <1>2, <1>3 DEF Asks
<1> QED
  BY <1>1, <1>2, <1>3, <1>4 DEF t

\* Listing orders, the first request of an update, and a request that fails.
LEMMA ReadKeepsExt ==
  ASSUME ExtInv, NEW c \in Ext!ToolCalls,
         \/ \E p \in Ext!Platforms : Ext!List(c, p)
         \/ Ext!Listed(c) \/ Ext!Read(c)
  PROVE  ExtInv'
<1>1. CASE \E p \in Ext!Platforms : Ext!List(c, p)
  <2>1. PICK p \in Ext!Platforms : Ext!List(c, p)
    BY <1>1
  <2> DEFINE op == "list"
             at == "waiting"
  <2>2. /\ Ext!UseClient(c, op, p, at) /\ op \in {"list", "update"} /\ at \in {"waiting", "read"}
        /\ UNCHANGED <<connection, client, closed, fulfilled, updated, overlapped>>
        /\ op # "update"
    BY <2>1 DEF Ext!List
  <2> HIDE DEF op, at
  <2> DEFINE t == UserOf(op, p, at)
  <2>3. tool' = [tool EXCEPT ![c] = t] /\ tool[c].op = "idle" /\ Asks(t) /\ t.op = op
    BY <2>2, UsedClient
  <2>4. Joined(connection', client')
    BY <2>2 DEF ExtInv
  <2> HIDE DEF t
  <2> QED
    BY <2>2, <2>3, <2>4, OneTool
<1>2. CASE Ext!Listed(c)
  <2> DEFINE success == tool[c].client.by \notin closed
             t == [tool[c] EXCEPT !.at = "ended", !.success = success]
  <2>1. /\ tool[c].op = "list" /\ tool' = [tool EXCEPT ![c] = t]
        /\ UNCHANGED <<connection, client, closed, fulfilled, updated, overlapped>>
    BY <1>2 DEF Ext!Listed, Ext!Answer, ExtInv
  <2>2. Asks(tool[c]) /\ success \in BOOLEAN
    BY DEF ExtInv
  <2> HIDE DEF success
  <2>3. Asks(t) /\ t.op = "list"
    BY <2>1, <2>2 DEF Asks, ToolStates
  <2>4. Joined(connection', client')
    BY <2>1 DEF ExtInv
  <2> HIDE DEF t
  <2> QED
    BY <2>1, <2>3, <2>4, OneTool
<1>3. CASE Ext!Read(c)
  <2> DEFINE whole == Ext!IsFulfilled(tool[c].client.shop)
             t == [tool[c] EXCEPT !.at = "read", !.whole = whole]
             u == [tool[c] EXCEPT !.at = "ended", !.success = FALSE]
  <2>1. /\ tool[c].op = "update" /\ tool[c].at = "waiting" /\ Asks(tool[c])
        /\ UNCHANGED <<connection, client, closed, fulfilled, updated, overlapped>>
    BY <1>3 DEF Ext!Read, ExtInv
  <2>2. Joined(connection', client') /\ ~tool[c].success /\ tool[c].client.shop \in ShopNames
    BY <2>1 DEF ExtInv, Asks, ShopClients
  <2>3. whole <=> HasWhole(fulfilled[tool[c].client.shop])
    <3>1. fulfilled[tool[c].client.shop] \in Seq(Fulfillments)
      BY <2>2 DEF ExtInv, Told
    <3> QED
      BY <3>1 DEF Ext!IsFulfilled, HasWhole
  <2>4. whole \in BOOLEAN
    BY DEF Ext!IsFulfilled
  <2>5. tool' = [tool EXCEPT ![c] = t] \/ tool' = [tool EXCEPT ![c] = u]
    BY <1>3 DEF Ext!Read, Ext!Answer, ExtInv
  <2> HIDE DEF whole
  <2>6. /\ Asks(t) /\ t.op = "update" /\ t.client = tool[c].client /\ ~t.success /\ t.whole = whole
        /\ Asks(u) /\ u.op = "update" /\ u.client = tool[c].client /\ ~u.success /\ u.at = "ended"
    BY <2>1, <2>2, <2>4 DEF Asks, ToolStates
  <2> HIDE DEF t, u
  <2>7. CASE tool' = [tool EXCEPT ![c] = t]
    BY <2>1, <2>2, <2>3, <2>6, <2>7, OneTool
  <2>8. CASE tool' = [tool EXCEPT ![c] = u]
    BY <2>1, <2>2, <2>6, <2>8, OneTool
  <2> QED
    BY <2>5, <2>7, <2>8
<1> QED
  BY <1>1, <1>2, <1>3

\* Another update of a shop is noted when it begins before the last one has ended.
LEMMA UpdateKeepsExt ==
  ASSUME ExtInv, NEW c \in Ext!ToolCalls, NEW p \in Ext!Platforms, Ext!Update(c, p)
  PROVE  ExtInv'
<1> DEFINE op == "update"
           at == IF p = "woocommerce" THEN "read" ELSE "waiting"
           s == client[p].shop
<1>1. /\ Ext!UseClient(c, op, p, at) /\ op \in {"list", "update"} /\ at \in {"waiting", "read"}
      /\ overlapped' = IF Ext!Updating(s) = {} THEN overlapped ELSE overlapped \cup {s}
      /\ updated' = Append(updated, c)
      /\ UNCHANGED <<connection, client, closed, fulfilled>>
      /\ op = "update" /\ (at = "read" => p = "woocommerce")
  BY DEF Ext!Update
<1> HIDE DEF op, at
<1> DEFINE t == UserOf(op, p, at)
<1>3. /\ tool' = [tool EXCEPT ![c] = t] /\ tool[c].op = "idle" /\ Asks(t)
      /\ t.op = op /\ t.at = at /\ t.client = client[p]
      /\ client[p] \in ShopClients /\ Shops[client[p].shop] = p
  BY <1>1, UsedClient
<1> HIDE DEF t
<1>4. /\ tool' = [d \in Ext!ToolCalls |-> tool'[d]] /\ tool'[c] = t
      /\ \A d \in Ext!ToolCalls : d # c => tool'[d] = tool[d]
  BY <1>3 DEF ExtInv
<1>5. /\ t.op = "update" /\ t.at # "ended" /\ t.client.shop = s /\ s \in ShopNames
      /\ Shops[s] = "shopify" => t.at # "read"
  BY <1>1, <1>3 DEF ShopClients
<1>6. /\ updated \in Seq(Ext!ToolCalls) /\ updated' \in Seq(Ext!ToolCalls)
      /\ Len(updated) \in Nat /\ Len(updated') = Len(updated) + 1 /\ updated'[Len(updated) + 1] = c
      /\ \A i \in 1 .. Len(updated) : updated'[i] = updated[i] /\ updated[i] \in Ext!ToolCalls
  BY <1>1 DEF ExtInv, InTurn
<1>7. \A i \in 1 .. Len(updated) : updated[i] # c /\ tool'[updated[i]] = tool[updated[i]]
  BY <1>3, <1>4, <1>6 DEF ExtInv, InTurn
<1>8. overlapped \subseteq overlapped' /\ overlapped' \subseteq ShopNames
  BY <1>1, <1>5 DEF ExtInv
<1>9. ASSUME NEW i \in 1 .. Len(updated), tool[updated[i]].client.shop = s, s \notin overlapped'
      PROVE  tool[updated[i]].at = "ended"
  <2>1. Ext!Updating(s) = {}
    BY <1>1, <1>9
  <2>2. tool[updated[i]].op = "update" /\ Asks(tool[updated[i]]) /\ updated[i] \in Ext!ToolCalls
    BY <1>6 DEF ExtInv, InTurn
  <2>3. tool[updated[i]].at \in {"waiting", "read", "ended"}
    BY <2>2 DEF Asks
  <2> HIDE DEF s
  <2> QED
    BY <1>9, <2>1, <2>2, <2>3 DEF Ext!Updating
<1> HIDE DEF s
<1>10. InTurn(tool', updated', overlapped')
  <2>1. \A i \in 1 .. Len(updated') : tool'[updated'[i]].op = "update"
    <3>1. \A i \in 1 .. Len(updated) : tool[updated[i]].op = "update"
      BY DEF ExtInv, InTurn
    <3> QED
      BY <1>4, <1>5, <1>6, <1>7, <3>1
  <2>2. ASSUME NEW d \in Ext!ToolCalls, tool'[d].op = "update"
        PROVE  \E i \in 1 .. Len(updated') : updated'[i] = d
    <3>1. CASE d = c
      BY <1>6, <3>1
    <3>2. CASE d # c
      <4>1. PICK i \in 1 .. Len(updated) : updated[i] = d
        BY <1>4, <2>2, <3>2 DEF ExtInv, InTurn
      <4> QED
        BY <1>6, <4>1
    <3> QED
      BY <3>1, <3>2
  <2>3. ASSUME NEW i \in 1 .. Len(updated'), NEW j \in 1 .. Len(updated'), i < j,
               tool'[updated'[i]].client.shop = tool'[updated'[j]].client.shop,
               tool'[updated'[i]].client.shop \notin overlapped'
        PROVE  tool'[updated'[i]].at = "ended"
    <3>1. i \in 1 .. Len(updated) /\ updated'[i] = updated[i] /\ tool'[updated[i]] = tool[updated[i]]
      BY <1>6, <1>7, <2>3
    <3>2. CASE j = Len(updated')
      BY <1>4, <1>5, <1>6, <1>9, <2>3, <3>1, <3>2
    <3>3. CASE j # Len(updated')
      <4>1. j \in 1 .. Len(updated) /\ updated'[j] = updated[j] /\ tool'[updated[j]] = tool[updated[j]]
        BY <1>6, <1>7, <3>3
      <4> QED
        BY <1>8, <2>3, <3>1, <4>1 DEF ExtInv, InTurn
    <3> QED
      BY <3>2, <3>3
  <2> QED
    BY <1>6, <2>1, <2>2, <2>3 DEF InTurn
<1>11. Told(tool', updated', overlapped', fulfilled)
  <2>1. ASSUME NEW d \in Ext!ToolCalls, tool'[d].op = "update", tool'[d].at = "read",
               tool'[d].client.shop \notin overlapped', Shops[tool'[d].client.shop] = "shopify"
        PROVE  tool'[d].whole <=> HasWhole(fulfilled[tool'[d].client.shop])
    <3>1. d # c
      BY <1>4, <1>5, <2>1
    <3> QED
      BY <1>4, <1>8, <2>1, <3>1 DEF ExtInv, Told
  <2>2. ASSUME NEW i \in 1 .. Len(updated'),
               tool'[updated'[i]].at = "ended", tool'[updated'[i]].success,
               tool'[updated'[i]].client.shop \notin overlapped',
               \A j \in (i + 1) .. Len(updated') :
                 tool'[updated'[j]].client.shop # tool'[updated'[i]].client.shop
        PROVE  HasNumber(fulfilled[tool'[updated'[i]].client.shop], updated'[i])
    <3>1. i \in 1 .. Len(updated)
      BY <1>4, <1>5, <1>6, <2>2
    <3>2. updated'[i] = updated[i] /\ tool'[updated[i]] = tool[updated[i]]
      BY <1>6, <1>7, <3>1
    <3>3. \A j \in (i + 1) .. Len(updated) : tool[updated[j]].client.shop # tool[updated[i]].client.shop
      <4> SUFFICES ASSUME NEW j \in (i + 1) .. Len(updated)
                   PROVE  tool[updated[j]].client.shop # tool[updated[i]].client.shop
        OBVIOUS
      <4>1. j \in (i + 1) .. Len(updated') /\ j \in 1 .. Len(updated)
        BY <1>6, <3>1
      <4> QED
        BY <1>6, <1>7, <2>2, <3>2, <4>1
    <3> QED
      BY <1>8, <2>2, <3>1, <3>2, <3>3 DEF ExtInv, Told
  <2> QED
    BY <1>8, <2>1, <2>2 DEF ExtInv, Told
<1>12. \A d \in Ext!ToolCalls : Asks(tool'[d])
  BY <1>3, <1>4 DEF ExtInv
<1> QED
  BY <1>1, <1>4, <1>8, <1>10, <1>11, <1>12 DEF ExtInv

\* What the last request makes of an order: one fulfillment, with the number of the call.
LEMMA WrittenOrder ==
  ASSUME ExtInv, NEW c \in Ext!ToolCalls, NEW s \in ShopNames, s = tool[c].client.shop,
         tool[c].op = "update", tool[c].at = "read"
  PROVE  /\ Ext!Written(c) \in Seq(Fulfillments)
         /\ s \notin overlapped => OneWhole(Ext!Written(c)) /\ HasNumber(Ext!Written(c), c)
<1> DEFINE new == [number |-> c, whole |-> TRUE]
           prior == fulfilled[s]
<1>1. new \in Fulfillments /\ new.number = c /\ new.whole = TRUE
  BY DEF Fulfillments
<1>2. prior \in Seq(Fulfillments) /\ Len(prior) \in Nat
      /\ \A k \in 1 .. Len(prior) : prior[k] \in Fulfillments
  BY DEF ExtInv, Told
<1>3. s \notin overlapped => OneWhole(prior)
  BY DEF ExtInv, Told
<1>4. Ext!Written(c) = IF Shops[s] = "shopify"
                       THEN IF tool[c].whole THEN [prior EXCEPT ![1].number = c] ELSE Append(prior, new)
                       ELSE <<new>>
  BY DEF Ext!Written, Ext!Renumber
<1>5. s \notin overlapped /\ Shops[s] = "shopify" => (tool[c].whole <=> HasWhole(prior))
  BY DEF ExtInv, Told
<1> HIDE DEF prior, new
<1>6. CASE Shops[s] # "shopify"
  <2>1. Ext!Written(c) = <<new>>
    BY <1>4, <1>6
  <2> QED
    BY <1>1, <2>1 DEF OneWhole, HasNumber
<1>7. CASE Shops[s] = "shopify" /\ ~tool[c].whole
  <2>1. Ext!Written(c) = Append(prior, new)
    BY <1>4, <1>7
  <2>2. /\ Append(prior, new) \in Seq(Fulfillments) /\ Len(Append(prior, new)) = Len(prior) + 1
        /\ Append(prior, new)[Len(prior) + 1] = new
        /\ \A k \in 1 .. Len(prior) : Append(prior, new)[k] = prior[k]
    BY <1>1, <1>2
  <2>3. s \notin overlapped => \A k \in 1 .. Len(prior) : ~prior[k].whole
    BY <1>5, <1>7 DEF HasWhole
  <2>4. HasNumber(Append(prior, new), c)
    BY <1>1, <1>2, <2>2 DEF HasNumber
  <2>5. s \notin overlapped => OneWhole(Append(prior, new))
    <3> SUFFICES ASSUME s \notin overlapped, NEW k \in 1 .. Len(Append(prior, new)),
                        Append(prior, new)[k].whole
                 PROVE  k = Len(prior) + 1
      BY DEF OneWhole
    <3> QED
      BY <1>2, <2>2, <2>3
  <2> QED
    BY <2>1, <2>2, <2>4, <2>5
<1>8. CASE Shops[s] = "shopify" /\ tool[c].whole
  <2> DEFINE now == [prior EXCEPT ![1].number = c]
  <2>1. Ext!Written(c) = now
    BY <1>4, <1>8
  <2>2. Len(now) = Len(prior) /\ \A k \in 1 .. Len(prior) :
          now[k] = IF k = 1 THEN [prior[1] EXCEPT !.number = c] ELSE prior[k]
    BY <1>2
  <2>3. \A k \in 1 .. Len(prior) : now[k] \in Fulfillments /\ now[k].whole = prior[k].whole
    BY <1>2, <2>2 DEF Fulfillments
  <2>4. now \in Seq(Fulfillments)
    <3>1. CASE prior = <<>>
      <4>1. now = prior
        BY <1>2, <3>1
      <4> QED
        BY <1>2, <4>1
    <3>2. CASE prior # <<>>
      <4>1. 1 \in 1 .. Len(prior) /\ [prior[1] EXCEPT !.number = c] \in Fulfillments
        BY <1>2, <2>2, <2>3, <3>2
      <4>2. now = [prior EXCEPT ![1] = [prior[1] EXCEPT !.number = c]]
        BY <1>2, <4>1
      <4> HIDE DEF now
      <4> QED
        BY <1>2, <4>1, <4>2
    <3> QED
      BY <3>1, <3>2
  <2>5. s \notin overlapped => OneWhole(now)
    BY <1>3, <2>2, <2>3 DEF OneWhole
  <2>6. s \notin overlapped => HasNumber(now, c)
    <3> SUFFICES ASSUME s \notin overlapped PROVE HasNumber(now, c)
      OBVIOUS
    <3>1. 1 \in 1 .. Len(prior)
      BY <1>2, <1>5, <1>8 DEF HasWhole
    <3>2. now[1].number = c
      BY <1>2, <2>2, <3>1 DEF Fulfillments
    <3> QED
      BY <2>2, <3>1, <3>2 DEF HasNumber
  <2> QED
    BY <2>1, <2>4, <2>5, <2>6
<1> QED
  BY <1>6, <1>7, <1>8

LEMMA WriteKeepsExt ==
  ASSUME ExtInv, NEW c \in Ext!ToolCalls, Ext!Write(c)
  PROVE  ExtInv'
<1> DEFINE s == tool[c].client.shop
           done(success) == [tool[c] EXCEPT !.at = "ended", !.success = success]
<1>1. /\ tool[c].op = "update" /\ tool[c].at = "read" /\ Asks(tool[c])
      /\ UNCHANGED <<connection, client, closed, updated, overlapped>>
  BY DEF Ext!Write, ExtInv
<1>2. s \in ShopNames /\ Joined(connection', client') /\ ~tool[c].success
  BY <1>1 DEF ExtInv, Asks, ShopClients
<1>3. \A success \in BOOLEAN :
        LET t == done(success)
        IN  /\ Asks(t) /\ t.op = "update" /\ t.client = tool[c].client
            /\ t.at = "ended" /\ t.success = success
  BY <1>1 DEF Asks, ToolStates
<1>4. CASE tool' = [tool EXCEPT ![c] = done(FALSE)] /\ UNCHANGED fulfilled
  <2> DEFINE t == done(FALSE)
  <2>1. /\ Asks(t) /\ t.op = "update" /\ t.client = tool[c].client /\ t.at = "ended" /\ ~t.success
        /\ tool' = [tool EXCEPT ![c] = t]
    BY <1>3, <1>4
  <2> HIDE DEF t
  <2> QED
    BY <1>1, <1>2, <1>4, <2>1, OneTool
<1>5. ASSUME NEW success \in BOOLEAN, tool' = [tool EXCEPT ![c] = done(success)],
             fulfilled' = [fulfilled EXCEPT ![s] = Ext!Written(c)]
      PROVE  ExtInv'
  <2> DEFINE t == done(success)
             now == Ext!Written(c)
  <2>1. /\ Asks(t) /\ t.op = "update" /\ t.client = tool[c].client /\ t.at = "ended"
        /\ t.client.shop = s
    BY <1>3
  <2>2. now \in Seq(Fulfillments) /\ (s \notin overlapped => OneWhole(now) /\ HasNumber(now, c))
    BY <1>1, <1>2, WrittenOrder
  <2>3. /\ tool' = [d \in Ext!ToolCalls |-> tool'[d]] /\ tool'[c] = t
        /\ \A d \in Ext!ToolCalls : d # c => tool'[d] = tool[d]
    BY <1>5 DEF ExtInv
  <2>4. /\ fulfilled' = [r \in ShopNames |-> fulfilled'[r]] /\ fulfilled'[s] = now
        /\ \A r \in ShopNames : r # s => fulfilled'[r] = fulfilled[r]
    BY <1>2, <1>5 DEF ExtInv, Told
  <2> HIDE DEF now
  <2>5. updated \in Seq(Ext!ToolCalls) /\ \A i \in 1 .. Len(updated) : updated[i] \in Ext!ToolCalls
    BY DEF ExtInv, InTurn
  <2>6. PICK n \in 1 .. Len(updated) : updated[n] = c
    BY <1>1 DEF ExtInv, InTurn
  <2> HIDE DEF done
  <2>7. \A d \in Ext!ToolCalls :
          /\ tool'[d].op = tool[d].op /\ tool'[d].client = tool[d].client
          /\ tool[d].at = "ended" => tool'[d] = tool[d]
    BY <1>1, <2>1, <2>3
  <2>8. InTurn(tool', updated, overlapped)
    BY <2>5, <2>7 DEF ExtInv, InTurn
  <2>9. ASSUME NEW d \in Ext!ToolCalls, tool'[d].op = "update", tool'[d].at = "read",
               tool'[d].client.shop \notin overlapped, Shops[tool'[d].client.shop] = "shopify"
        PROVE  tool'[d].whole <=> HasWhole(fulfilled'[tool'[d].client.shop])
    <3>1. d # c /\ tool'[d] = tool[d]
      BY <2>1, <2>3, <2>9
    <3>2. tool[d].client.shop # s
      <4> SUFFICES ASSUME tool[d].client.shop = s PROVE FALSE
        OBVIOUS
      <4>1. PICK i \in 1 .. Len(updated) : updated[i] = d
        BY <2>9, <3>1 DEF ExtInv, InTurn
      <4>2. i < n \/ n < i
        BY <2>5, <2>6, <3>1, <4>1
      <4> QED
        BY <1>1, <2>6, <2>9, <3>1, <4>1, <4>2 DEF ExtInv, InTurn
    <3>3. tool[d].client.shop \in ShopNames
      BY <2>9, <3>1 DEF ExtInv, Asks, ShopClients
    <3> QED
      BY <2>4, <2>9, <3>1, <3>2, <3>3 DEF ExtInv, Told
  <2>10. ASSUME NEW i \in 1 .. Len(updated),
                tool'[updated[i]].at = "ended", tool'[updated[i]].success,
                tool'[updated[i]].client.shop \notin overlapped,
                \A j \in (i + 1) .. Len(updated) :
                  tool'[updated[j]].client.shop # tool'[updated[i]].client.shop
         PROVE  HasNumber(fulfilled'[tool'[updated[i]].client.shop], updated[i])
    <3>1. CASE updated[i] = c
      BY <2>1, <2>2, <2>3, <2>4, <2>10, <3>1
    <3>2. CASE updated[i] # c
      <4>1. tool'[updated[i]] = tool[updated[i]]
        BY <2>3, <2>5, <3>2
      <4>2. \A j \in (i + 1) .. Len(updated) : tool[updated[j]].client.shop # tool[updated[i]].client.shop
        <5> SUFFICES ASSUME NEW j \in (i + 1) .. Len(updated)
                     PROVE  tool[updated[j]].client.shop # tool[updated[i]].client.shop
          OBVIOUS
        <5>1. j \in 1 .. Len(updated)
          BY <2>5
        <5> QED
          BY <2>5, <2>7, <2>10, <4>1, <5>1
      <4>3. HasNumber(fulfilled[tool[updated[i]].client.shop], updated[i])
        BY <2>10, <4>1, <4>2 DEF ExtInv, Told
      <4>4. tool[updated[i]].client.shop # s
        <5> SUFFICES ASSUME tool[updated[i]].client.shop = s PROVE FALSE
          OBVIOUS
        <5>1. ~(n \in (i + 1) .. Len(updated))
          BY <2>6, <4>2
        <5>2. n < i
          BY <2>5, <2>6, <3>2, <5>1
        <5> QED
          BY <1>1, <2>6, <2>10, <4>1, <5>2 DEF ExtInv, InTurn
      <4>5. tool[updated[i]].client.shop \in ShopNames
        BY <2>5 DEF ExtInv, InTurn, Asks, ShopClients
      <4> QED
        BY <2>4, <4>1, <4>3, <4>4, <4>5
    <3> QED
      BY <3>1, <3>2
  <2>11. \A r \in ShopNames :
           fulfilled'[r] \in Seq(Fulfillments) /\ (r \notin overlapped => OneWhole(fulfilled'[r]))
    BY <2>2, <2>4 DEF ExtInv, Told
  <2>12. Told(tool', updated, overlapped, fulfilled')
    BY <2>4, <2>9, <2>10, <2>11 DEF Told
  <2>13. \A d \in Ext!ToolCalls : Asks(tool'[d])
    BY <2>1, <2>3 DEF ExtInv
  <2> HIDE DEF t
  <2> QED
    BY <1>1, <1>2, <2>3, <2>8, <2>12, <2>13 DEF ExtInv
<1> QED
  <2>1. \/ tool' = [tool EXCEPT ![c] = done(FALSE)] /\ UNCHANGED fulfilled
        \/ \E success \in BOOLEAN : tool' = [tool EXCEPT ![c] = done(success)]
                                    /\ fulfilled' = [fulfilled EXCEPT ![s] = Ext!Written(c)]
    BY DEF Ext!Write, Ext!Answer, ExtInv
  <2> QED
    BY <1>4, <1>5, <2>1

\* A part the merchant ships by hand is no whole fulfillment, and comes before any other.
LEMMA ShipPartKeepsExt ==
  ASSUME ExtInv, NEW s \in ShopNames, Ext!ShipPart(s)
  PROVE  ExtInv'
<1> DEFINE now == <<[number |-> None, whole |-> FALSE]>>
<1>1. /\ fulfilled[s] = <<>> /\ fulfilled' = [fulfilled EXCEPT ![s] = now]
      /\ UNCHANGED <<connection, client, closed, tool, updated, overlapped>>
  BY DEF Ext!ShipPart
<1>2. /\ fulfilled' = [r \in ShopNames |-> fulfilled'[r]] /\ fulfilled'[s] = now
      /\ \A r \in ShopNames : r # s => fulfilled'[r] = fulfilled[r]
  BY <1>1 DEF ExtInv, Told
<1>3. now \in Seq(Fulfillments) /\ OneWhole(now) /\ ~HasWhole(now)
  BY DEF Fulfillments, OneWhole, HasWhole
<1>4. ~HasWhole(fulfilled[s]) /\ \A c \in Ext!ToolCalls : ~HasNumber(fulfilled[s], c)
  BY <1>1 DEF HasWhole, HasNumber
<1> HIDE DEF now
<1>5. \A c \in Ext!ToolCalls : tool[c].op = "update" => tool[c].client.shop \in ShopNames
  BY DEF ExtInv, Asks, ShopClients
<1>6. \A i \in 1 .. Len(updated) : updated[i] \in Ext!ToolCalls /\ tool[updated[i]].op = "update"
  BY DEF ExtInv, InTurn
<1>7. Told(tool, updated, overlapped, fulfilled')
  <2>1. \A r \in ShopNames : HasWhole(fulfilled'[r]) <=> HasWhole(fulfilled[r])
    BY <1>2, <1>3, <1>4
  <2>2. \A r \in ShopNames, c \in Ext!ToolCalls :
          HasNumber(fulfilled[r], c) => HasNumber(fulfilled'[r], c)
    BY <1>2, <1>4
  <2>3. \A r \in ShopNames :
          fulfilled'[r] \in Seq(Fulfillments) /\ (r \notin overlapped => OneWhole(fulfilled'[r]))
    BY <1>2, <1>3 DEF ExtInv, Told
  <2>4. \A c \in Ext!ToolCalls :
          tool[c].op = "update" /\ tool[c].at = "read" /\ tool[c].client.shop \notin overlapped
            /\ Shops[tool[c].client.shop] = "shopify"
            => (tool[c].whole <=> HasWhole(fulfilled'[tool[c].client.shop]))
    BY <1>5, <2>1 DEF ExtInv, Told
  <2>5. ASSUME NEW i \in 1 .. Len(updated),
               tool[updated[i]].at = "ended", tool[updated[i]].success,
               tool[updated[i]].client.shop \notin overlapped,
               \A j \in (i + 1) .. Len(updated) :
                 tool[updated[j]].client.shop # tool[updated[i]].client.shop
        PROVE  HasNumber(fulfilled'[tool[updated[i]].client.shop], updated[i])
    <3>1. HasNumber(fulfilled[tool[updated[i]].client.shop], updated[i])
      BY <2>5 DEF ExtInv, Told
    <3> QED
      BY <1>5, <1>6, <2>2, <3>1
  <2> QED
    BY <1>2, <2>3, <2>4, <2>5 DEF Told
<1> QED
  BY <1>1, <1>7 DEF ExtInv

LEMMA ExtStep == ExtInv /\ (Ext!Next \/ UNCHANGED extVars) => ExtInv'
<1> SUFFICES ASSUME ExtInv, Ext!Next \/ UNCHANGED extVars PROVE ExtInv'
  OBVIOUS
<1>1. CASE UNCHANGED extVars
  BY <1>1 DEF extVars, ExtInv
<1>2. ASSUME NEW c \in Ext!ToolCalls,
             \/ \E s \in DOMAIN Shops : Ext!Connect(c, s)
             \/ \E p \in Ext!Platforms : Ext!List(c, p) \/ Ext!Update(c, p)
             \/ Ext!Authenticated(c) \/ Ext!Listed(c) \/ Ext!Read(c) \/ Ext!Write(c)
      PROVE  ExtInv'
  BY <1>2, ConnectKeepsExt, ReadKeepsExt, UpdateKeepsExt, WriteKeepsExt DEF ShopNames
<1>3. CASE \/ \E p \in Ext!Platforms : Ext!Disconnect(p)
           \/ \E s \in DOMAIN Shops : Ext!ShipPart(s)
  BY <1>3, DisconnectKeepsExt, ShipPartKeepsExt DEF ShopNames
<1> QED
  BY <1>1, <1>2, <1>3 DEF Ext!Next

\* An answer comes from the shop its platform is connected to, a retry fulfills no order
\* twice, and a number reported as written is on the order, for any number of shops and of
\* calls, unless updates of one shop overlap.
THEOREM ShopsKeepTheirPromise == Spec => []ShopPromise
<1>1. Init => ExtInv
  BY InitExt DEF Init
<1>2. ExtInv /\ [Next]_allVars => ExtInv'
  <2> SUFFICES ASSUME ExtInv, [Next]_allVars PROVE ExtInv'
    OBVIOUS
  <2>1. Ext!Next \/ UNCHANGED extVars
    BY DEF Next, Rest, allVars
  <2> QED
    BY <2>1, ExtStep
<1>3. ExtInv => ShopPromise
  <2> SUFFICES ASSUME ExtInv PROVE ShopPromise
    OBVIOUS
  <2>1. Ext!TypeOK
    BY DEF ExtInv, Joined, Asks, ToolStates, ShopConnections, ShopClients, ShopNames, Ext!TypeOK
  <2>2. Ext!AnswersAreTheConnectedShops
    BY DEF ExtInv, Asks, Ext!AnswersAreTheConnectedShops
  <2>3. ASSUME NEW s \in ShopNames, s \notin overlapped
        PROVE  Ext!Cardinality({i \in DOMAIN fulfilled[s] : fulfilled[s][i].whole}) <= 1
    <3> DEFINE wholes == {i \in DOMAIN fulfilled[s] : fulfilled[s][i].whole}
    <3>1. fulfilled[s] \in Seq(Fulfillments) /\ DOMAIN fulfilled[s] = 1 .. Len(fulfilled[s])
          /\ OneWhole(fulfilled[s])
      BY <2>3 DEF ExtInv, Told
    <3>2. wholes = {} \/ \E i : wholes = {i}
      BY <3>1 DEF OneWhole
    <3>3. \A T : Ext!Cardinality(T) = Cardinality(T)
      BY DEF Ext!Cardinality, Cardinality
    <3> HIDE DEF wholes
    <3>4. Cardinality(wholes) \in {0, 1}
      BY <3>2, FS_EmptySet, FS_Singleton
    <3>5. Ext!Cardinality(wholes) <= 1
      BY <3>3, <3>4
    <3> QED
      BY <3>5 DEF wholes
  <2>4. Ext!RetriesDoNotDuplicate
    BY <2>3 DEF Ext!RetriesDoNotDuplicate, ShopNames
  <2>5. Ext!ReportedNumberIsOnTheOrder
    <3> SUFFICES ASSUME NEW i \in DOMAIN updated,
                        tool[updated[i]].at = "ended", tool[updated[i]].success,
                        tool[updated[i]].client.shop \notin overlapped,
                        \A j \in (i + 1) .. Len(updated) :
                          tool[updated[j]].client.shop # tool[updated[i]].client.shop
                 PROVE  \E k \in DOMAIN fulfilled[tool[updated[i]].client.shop] :
                          fulfilled[tool[updated[i]].client.shop][k].number = updated[i]
      BY DEF Ext!ReportedNumberIsOnTheOrder
    <3>1. i \in 1 .. Len(updated) /\ updated[i] \in Ext!ToolCalls /\ tool[updated[i]].op = "update"
      BY DEF ExtInv, InTurn
    <3>2. HasNumber(fulfilled[tool[updated[i]].client.shop], updated[i])
      BY <3>1 DEF ExtInv, Told
    <3>3. tool[updated[i]].client.shop \in ShopNames
      BY <3>1 DEF ExtInv, Asks, ShopClients
    <3>4. fulfilled[tool[updated[i]].client.shop] \in Seq(Fulfillments)
      BY <3>3 DEF ExtInv, Told
    <3> QED
      BY <3>2, <3>4 DEF HasNumber
  <2> QED
    BY <2>1, <2>2, <2>4, <2>5 DEF ShopPromise
<1> QED
  BY <1>1, <1>2, <1>3, PTL DEF Spec

-----------------------------------------------------------------------------
\* The progress of a job.

JobEvents ==
  [event : {"batch_started", "row_completed", "row_failed", "batch_completed", "batch_failed"},
   row : BatchRows \cup {None}]
StreamStates ==
  [state : {"new", "subscribed", "reading", "left", "ended"}, queue : (1 .. MaxQueues) \cup {None},
   shown : Seq(JobEvents), since : Nat, alone : BOOLEAN]

Once(s) == \A i, j \in 1 .. Len(s) : s[i] = s[j] => i = j
Lacks(s, e) == \A i \in 1 .. Len(s) : s[i] # e
Apart(s, t) == \A i \in 1 .. Len(s), j \in 1 .. Len(t) : s[i] # t[j]
Among(s, sent) == \A i \in 1 .. Len(s) : s[i] \in sent

\* Every event is in one place, a queue or a page, and was sent.
Spread(queues, pages, sent) ==
  /\ \A q \in 1 .. Len(queues) :
       /\ Once(queues[q]) /\ Among(queues[q], sent)
       /\ \A r \in 1 .. Len(queues) : q # r => Apart(queues[q], queues[r])
       /\ \A c \in Progress!Streams : Apart(queues[q], pages[c].shown)
  /\ \A c \in Progress!Streams :
       /\ Once(pages[c].shown) /\ Among(pages[c].shown, sent)
       /\ \A d \in Progress!Streams : c # d => Apart(pages[c].shown, pages[d].shown)

Listening(page) == page.state \in {"subscribed", "reading"}
Connected(page) == page.state \in {"subscribed", "reading", "left"}

\* Every connection takes from a queue that exists.
Served(queues, pages, current) ==
  /\ queues \in Seq(Seq(JobEvents)) /\ Len(queues) <= MaxQueues
  /\ current \in (1 .. Len(queues)) \cup {None}
  /\ pages = [c \in Progress!Streams |-> pages[c]]
  /\ \A c \in Progress!Streams :
       /\ pages[c] \in StreamStates
       /\ pages[c].queue \in (1 .. Len(queues)) \cup {None}
       /\ Connected(pages[c]) => pages[c].queue \in 1 .. Len(queues)

\* A page alone on the job takes from the queue the observer has, which holds what it has
\* yet to be told.
Followed(queues, pages, current, log) ==
  \A c \in Progress!Streams :
    Listening(pages[c]) /\ pages[c].alone =>
      /\ current = pages[c].queue
      /\ \A d \in Progress!Streams : d # c => ~Connected(pages[d])
      /\ pages[c].since <= Len(log)
      /\ pages[c].shown \o queues[pages[c].queue] = SubSeq(log, pages[c].since + 1, Len(log))

\* What was sent of rows is counted, and what was sent of the end is true.
Truthful(log, rowsIn, state) ==
  /\ log \in Seq(JobEvents) /\ rowsIn \subseteq BatchRows
  /\ state \in {"idle", "running", "completed", "failed"}
  /\ state = "idle" => log = <<>>
  /\ \A i \in 1 .. Len(log) :
       /\ log[i].event \in {"row_completed", "row_failed"} => log[i].row \in rowsIn
       /\ log[i].event \in Progress!Ends => state \in {"completed", "failed"}

SentIn(log) == {log[i] : i \in 1 .. Len(log)}

ProgressInv ==
  /\ Truthful(emitted, counted, batch)
  /\ Served(waiting, stream, queue)
  /\ Spread(waiting, stream, SentIn(emitted))
  /\ Followed(waiting, stream, queue, emitted)

LEMMA InitProgress == Progress!Init /\ ServicesAssumption => ProgressInv
<1> SUFFICES ASSUME Progress!Init, ServicesAssumption PROVE ProgressInv
  OBVIOUS
<1> DEFINE page == [state |-> "new", queue |-> None, shown |-> <<>>, since |-> 0, alone |-> FALSE]
<1>1. /\ queue = None /\ waiting = <<>> /\ stream = [c \in Progress!Streams |-> page]
      /\ emitted = <<>> /\ counted = {} /\ batch = "idle"
  BY DEF Progress!Init
<1>2. /\ page \in StreamStates /\ page.state = "new" /\ page.queue = None /\ page.shown = <<>>
  BY DEF StreamStates
<1> HIDE DEF page
<1>3. Truthful(emitted, counted, batch)
  BY <1>1 DEF Truthful
<1>4. Served(waiting, stream, queue)
  BY <1>1, <1>2 DEF Served, Connected, ServicesAssumption
<1>5. Spread(waiting, stream, SentIn(emitted))
  BY <1>1, <1>2 DEF Spread, Once, Among, Apart
<1>6. Followed(waiting, stream, queue, emitted)
  BY <1>1, <1>2 DEF Followed, Listening
<1> QED
  BY <1>3, <1>4, <1>5, <1>6 DEF ProgressInv

\* What follows from an event at the end of a sequence, and from taking the first one.
LEMMA AppendEvent ==
  ASSUME NEW s \in Seq(JobEvents), NEW e \in JobEvents
  PROVE  /\ Append(s, e) \in Seq(JobEvents)
         /\ Lacks(s, e) /\ Once(s) => Once(Append(s, e))
         /\ \A t \in Seq(JobEvents) : Lacks(t, e) /\ Apart(s, t) => Apart(Append(s, e), t)
         /\ \A t \in Seq(JobEvents) : Lacks(t, e) /\ Apart(t, s) => Apart(t, Append(s, e))
         /\ \A sent : Among(s, sent) /\ e \in sent => Among(Append(s, e), sent)
<1>1. /\ Append(s, e) \in Seq(JobEvents) /\ Len(Append(s, e)) = Len(s) + 1 /\ Len(s) \in Nat
      /\ Append(s, e)[Len(s) + 1] = e /\ \A i \in 1 .. Len(s) : Append(s, e)[i] = s[i]
  OBVIOUS
<1>2. Lacks(s, e) /\ Once(s) => Once(Append(s, e))
  BY <1>1 DEF Lacks, Once
<1>3. \A t \in Seq(JobEvents) : Lacks(t, e) /\ Apart(s, t) => Apart(Append(s, e), t)
  BY <1>1 DEF Lacks, Apart
<1>4. \A t \in Seq(JobEvents) : Lacks(t, e) /\ Apart(t, s) => Apart(t, Append(s, e))
  BY <1>1 DEF Lacks, Apart
<1>5. \A sent : Among(s, sent) /\ e \in sent => Among(Append(s, e), sent)
  BY <1>1 DEF Among
<1> QED
  BY <1>1, <1>2, <1>3, <1>4, <1>5

LEMMA TakeEvent ==
  ASSUME NEW s \in Seq(JobEvents), s # <<>>
  PROVE  /\ Head(s) \in JobEvents /\ Tail(s) \in Seq(JobEvents)
         /\ Once(s) => Once(Tail(s)) /\ Lacks(Tail(s), Head(s))
         /\ \A t \in Seq(JobEvents) : Apart(s, t) => Apart(Tail(s), t) /\ Lacks(t, Head(s))
         /\ \A t \in Seq(JobEvents) : Apart(t, s) => Apart(t, Tail(s)) /\ Lacks(t, Head(s))
         /\ \A sent : Among(s, sent) => Among(Tail(s), sent) /\ Head(s) \in sent
<1>1. /\ Head(s) \in JobEvents /\ Tail(s) \in Seq(JobEvents) /\ Len(s) \in Nat \ {0}
      /\ Len(Tail(s)) = Len(s) - 1 /\ Head(s) = s[1]
      /\ \A i \in 1 .. Len(s) - 1 : Tail(s)[i] = s[i + 1]
  BY HeadTailProperties
<1>2. Once(s) => Once(Tail(s)) /\ Lacks(Tail(s), Head(s))
  BY <1>1 DEF Lacks, Once
<1>3. \A t \in Seq(JobEvents) : Apart(s, t) => Apart(Tail(s), t) /\ Lacks(t, Head(s))
  BY <1>1 DEF Lacks, Apart
<1>4. \A t \in Seq(JobEvents) : Apart(t, s) => Apart(t, Tail(s)) /\ Lacks(t, Head(s))
  BY <1>1 DEF Lacks, Apart
<1>5. \A sent : Among(s, sent) => Among(Tail(s), sent) /\ Head(s) \in sent
  BY <1>1 DEF Among
<1> QED
  BY <1>1, <1>2, <1>3, <1>4, <1>5

LEMMA SentGrows ==
  ASSUME NEW log \in Seq(JobEvents), NEW e \in JobEvents
  PROVE  /\ Append(log, e) \in Seq(JobEvents) /\ Len(Append(log, e)) = Len(log) + 1
         /\ \A i \in 1 .. Len(log) : Append(log, e)[i] = log[i]
         /\ Append(log, e)[Len(log) + 1] = e
         /\ SentIn(Append(log, e)) = SentIn(log) \cup {e}
         /\ Lacks(log, e) => e \notin SentIn(log)
<1>1. /\ Append(log, e) \in Seq(JobEvents) /\ Len(log) \in Nat /\ Len(Append(log, e)) = Len(log) + 1
      /\ \A i \in 1 .. Len(log) : Append(log, e)[i] = log[i]
      /\ Append(log, e)[Len(log) + 1] = e
  OBVIOUS
<1>2. SentIn(Append(log, e)) = SentIn(log) \cup {e}
  <2>1. \A x \in SentIn(Append(log, e)) : x \in SentIn(log) \cup {e}
    BY <1>1 DEF SentIn
  <2>2. \A x \in SentIn(log) : x \in SentIn(Append(log, e))
    BY <1>1 DEF SentIn
  <2>3. e \in SentIn(Append(log, e))
    <3>1. Len(log) + 1 \in 1 .. Len(Append(log, e))
      BY <1>1
    <3> QED
      BY <1>1, <3>1 DEF SentIn
  <2> QED
    BY <2>1, <2>2, <2>3
<1>3. Lacks(log, e) => e \notin SentIn(log)
  BY DEF Lacks, SentIn
<1> QED
  BY <1>1, <1>2, <1>3

LEMMA ThenOne ==
  ASSUME NEW s \in Seq(JobEvents), NEW t \in Seq(JobEvents), NEW e \in JobEvents
  PROVE  s \o Append(t, e) = Append(s \o t, e)
<1> DEFINE a == s \o Append(t, e)
           b == Append(s \o t, e)
<1>1. /\ Append(t, e) \in Seq(JobEvents) /\ Len(Append(t, e)) = Len(t) + 1
      /\ Append(t, e)[Len(t) + 1] = e /\ \A i \in 1 .. Len(t) : Append(t, e)[i] = t[i]
      /\ Len(s) \in Nat /\ Len(t) \in Nat
  OBVIOUS
<1>2. /\ s \o t \in Seq(JobEvents) /\ Len(s \o t) = Len(s) + Len(t)
      /\ \A i \in 1 .. Len(s) + Len(t) : (s \o t)[i] = IF i <= Len(s) THEN s[i] ELSE t[i - Len(s)]
  BY ConcatProperties
<1>3. /\ a \in Seq(JobEvents) /\ Len(a) = Len(s) + Len(t) + 1
      /\ \A i \in 1 .. Len(s) + Len(t) + 1 :
           a[i] = IF i <= Len(s) THEN s[i] ELSE Append(t, e)[i - Len(s)]
  BY <1>1, ConcatProperties
<1>4. /\ b \in Seq(JobEvents) /\ Len(b) = Len(s) + Len(t) + 1 /\ b[Len(s) + Len(t) + 1] = e
      /\ \A i \in 1 .. Len(s) + Len(t) : b[i] = (s \o t)[i]
  BY <1>2
<1> HIDE DEF a, b
<1>5. ASSUME NEW i \in 1 .. Len(a) PROVE a[i] = b[i]
  <2>1. i \in 1 .. Len(s) + Len(t) + 1
    BY <1>3
  <2>2. CASE i = Len(s) + Len(t) + 1
    BY <1>1, <1>3, <1>4, <2>2
  <2>3. CASE i \in 1 .. Len(s) + Len(t)
    <3>1. a[i] = IF i <= Len(s) THEN s[i] ELSE Append(t, e)[i - Len(s)]
      BY <1>1, <1>3, <2>3
    <3>2. ~(i <= Len(s)) => i - Len(s) \in 1 .. Len(t)
      BY <1>1, <2>3
    <3> QED
      BY <1>1, <1>2, <1>4, <2>3, <3>1, <3>2
  <2> QED
    BY <1>1, <2>1, <2>2, <2>3
<1>6. a = b
  BY <1>3, <1>4, <1>5, SeqEqual
<1> QED
  BY <1>6 DEF a, b

\* An event that was not sent before goes to the queue the observer has, or to none.
LEMMA EmitKeepsProgress ==
  ASSUME ProgressInv, ServicesAssumption, NEW e \in JobEvents, Lacks(emitted, e),
         Progress!Emit(e), UNCHANGED <<queue, stream>>, Truthful(emitted', counted', batch')
  PROVE  ProgressInv'
<1> DEFINE sent == SentIn(emitted)
<1>1. /\ emitted \in Seq(JobEvents) /\ emitted' = Append(emitted, e)
      /\ waiting' = IF queue = None THEN waiting
                    ELSE [waiting EXCEPT ![queue] = Append(waiting[queue], e)]
  BY DEF Progress!Emit, ProgressInv, Truthful
<1>2. SentIn(emitted') = sent \cup {e} /\ e \notin sent
  BY <1>1, SentGrows
<1> HIDE DEF sent
<1>3. /\ waiting \in Seq(Seq(JobEvents)) /\ Len(waiting) \in Nat
      /\ \A q \in 1 .. Len(waiting) :
           waiting[q] \in Seq(JobEvents) /\ Once(waiting[q]) /\ Among(waiting[q], sent)
      /\ \A c \in Progress!Streams :
           stream[c].shown \in Seq(JobEvents) /\ Once(stream[c].shown) /\ Among(stream[c].shown, sent)
  BY DEF ProgressInv, Served, Spread, StreamStates, sent
<1>4. /\ \A q \in 1 .. Len(waiting) : Lacks(waiting[q], e) /\ Among(waiting[q], sent \cup {e})
      /\ \A c \in Progress!Streams : Lacks(stream[c].shown, e) /\ Among(stream[c].shown, sent \cup {e})
  BY <1>2, <1>3 DEF Among, Lacks
<1>5. CASE queue = None
  <2>1. waiting' = waiting
    BY <1>1, <1>5
  <2>2. Served(waiting', stream', queue')
    BY <2>1 DEF ProgressInv
  <2>3. Spread(waiting', stream', SentIn(emitted'))
    BY <1>2, <1>4, <2>1 DEF ProgressInv, Spread
  <2>4. Followed(waiting', stream', queue', emitted')
    <3>1. \A c \in Progress!Streams : Listening(stream[c]) => stream[c].queue \in 1 .. MaxQueues
      BY <1>3 DEF ProgressInv, Served, Listening, Connected, ServicesAssumption
    <3> QED
      BY <1>5, <3>1 DEF ProgressInv, Followed, ServicesAssumption
  <2> QED
    BY <2>2, <2>3, <2>4 DEF ProgressInv
<1>6. CASE queue # None
  <2> DEFINE now == Append(waiting[queue], e)
  <2>1. queue \in 1 .. Len(waiting) /\ waiting' = [waiting EXCEPT ![queue] = now]
    BY <1>1, <1>6 DEF ProgressInv, Served
  <2>2. /\ now \in Seq(JobEvents) /\ Once(now) /\ Among(now, sent \cup {e})
        /\ \A t \in Seq(JobEvents) : Lacks(t, e) /\ Apart(waiting[queue], t) => Apart(now, t)
        /\ \A t \in Seq(JobEvents) : Lacks(t, e) /\ Apart(t, waiting[queue]) => Apart(t, now)
    <3>1. waiting[queue] \in Seq(JobEvents) /\ Once(waiting[queue]) /\ Lacks(waiting[queue], e)
          /\ Among(waiting[queue], sent \cup {e}) /\ e \in sent \cup {e}
      BY <1>3, <1>4, <2>1
    <3> HIDE DEF sent
    <3> QED
      BY <3>1, AppendEvent
  <2> HIDE DEF now
  <2>3. /\ waiting' \in Seq(Seq(JobEvents)) /\ Len(waiting') = Len(waiting) /\ waiting'[queue] = now
        /\ \A q \in 1 .. Len(waiting) : q # queue => waiting'[q] = waiting[q]
    BY <1>3, <2>1, <2>2
  <2>4. Served(waiting', stream', queue')
    BY <2>3 DEF ProgressInv, Served
  <2>5. Spread(waiting', stream', SentIn(emitted'))
    <3>1. ASSUME NEW q \in 1 .. Len(waiting)
          PROVE  /\ Once(waiting'[q]) /\ Among(waiting'[q], sent \cup {e})
                 /\ \A r \in 1 .. Len(waiting) : q # r => Apart(waiting'[q], waiting'[r])
                 /\ \A c \in Progress!Streams : Apart(waiting'[q], stream[c].shown)
      <4>1. CASE q = queue
        BY <1>3, <1>4, <2>1, <2>2, <2>3, <4>1 DEF ProgressInv, Spread
      <4>2. CASE q # queue
        BY <1>3, <1>4, <2>1, <2>2, <2>3, <4>2 DEF ProgressInv, Spread
      <4> QED
        BY <4>1, <4>2
    <3> QED
      BY <1>2, <1>4, <2>3, <3>1 DEF ProgressInv, Spread
  <2>6. ASSUME NEW c \in Progress!Streams, Listening(stream[c]), stream[c].alone
        PROVE  /\ queue = stream[c].queue
               /\ \A d \in Progress!Streams : d # c => ~Connected(stream[d])
               /\ stream[c].since <= Len(emitted')
               /\ stream[c].shown \o waiting'[stream[c].queue]
                    = SubSeq(emitted', stream[c].since + 1, Len(emitted'))
    <3> DEFINE n == stream[c].since
               s == stream[c].shown
    <3>1. /\ queue = stream[c].queue /\ n <= Len(emitted) /\ n \in Nat
          /\ \A d \in Progress!Streams : d # c => ~Connected(stream[d])
          /\ s \o waiting[queue] = SubSeq(emitted, n + 1, Len(emitted))
      BY <2>6 DEF ProgressInv, Followed, Served, StreamStates
    <3>2. s \in Seq(JobEvents) /\ waiting[queue] \in Seq(JobEvents)
      BY <1>3, <2>1
    <3> HIDE DEF n, s
    <3>4. s \o now = Append(s \o waiting[queue], e)
      BY <3>2, ThenOne DEF now
    <3>5. SubSeq(emitted', n + 1, Len(emitted')) = Append(SubSeq(emitted, n + 1, Len(emitted)), e)
      <4>1. /\ emitted' \in Seq(JobEvents) /\ Len(emitted') = Len(emitted) + 1 /\ Len(emitted) \in Nat
            /\ emitted'[Len(emitted) + 1] = e
            /\ \A i \in 1 .. Len(emitted) : emitted'[i] = emitted[i]
        BY <1>1, SentGrows
      <4>2. SubSeq(emitted', n + 1, Len(emitted'))
              = SubSeq(emitted', n + 1, Len(emitted') - 1) \o << emitted'[Len(emitted')] >>
        <5>1. n + 1 \in 1 .. Len(emitted') /\ Len(emitted') \in (n + 1) .. Len(emitted')
          BY <3>1, <4>1
        <5> QED
          BY <4>1, <5>1, SubSeqRecursiveSecond
      <4>3. SubSeq(emitted', n + 1, Len(emitted)) = SubSeq(emitted, n + 1, Len(emitted))
        <5> DEFINE a == SubSeq(emitted', n + 1, Len(emitted))
                   b == SubSeq(emitted, n + 1, Len(emitted))
        <5>1. n + 1 \in Int /\ Len(emitted) \in Int
              /\ \A i \in (n + 1) .. Len(emitted) :
                   emitted'[i] \in JobEvents /\ emitted[i] \in JobEvents /\ emitted'[i] = emitted[i]
          BY SMTT(30), <1>1, <3>1, <4>1
        <5>2. /\ a \in Seq(JobEvents) /\ Len(a) = IF n + 1 <= Len(emitted) THEN Len(emitted) - (n + 1) + 1 ELSE 0
              /\ \A i \in 1 .. Len(emitted) - (n + 1) + 1 : a[i] = emitted'[n + 1 + i - 1]
          BY SMTT(30), <5>1, SubSeqProperties
        <5>3. /\ b \in Seq(JobEvents) /\ Len(b) = IF n + 1 <= Len(emitted) THEN Len(emitted) - (n + 1) + 1 ELSE 0
              /\ \A i \in 1 .. Len(emitted) - (n + 1) + 1 : b[i] = emitted[n + 1 + i - 1]
          BY SMTT(30), <5>1, SubSeqProperties
        <5> HIDE DEF a, b
        <5>4. ASSUME NEW i \in 1 .. Len(a) PROVE a[i] = b[i]
          <6>1. i \in 1 .. Len(emitted) - (n + 1) + 1 /\ n + 1 + i - 1 \in (n + 1) .. Len(emitted)
            <7>1. n \in Nat /\ Len(emitted) \in Nat /\ n <= Len(emitted)
              BY <3>1, <4>1
            <7>2. i \in 1 .. (IF n + 1 <= Len(emitted) THEN Len(emitted) - (n + 1) + 1 ELSE 0)
              BY <5>2, <5>4
            <7> HIDE DEF a, b
            <7> QED
              BY SMTT(30), <7>1, <7>2
          <6> QED
            BY <5>1, <5>2, <5>3, <6>1
        <5>5. a = b
          BY <5>2, <5>3, <5>4, SeqEqual
        <5> QED
          BY <5>5 DEF a, b
      <4>4. Len(emitted') - 1 = Len(emitted)
        BY <4>1
      <4>5. SubSeq(emitted, n + 1, Len(emitted)) \in Seq(JobEvents)
        <5>1. n + 1 \in Int /\ Len(emitted) \in Int
              /\ \A i \in (n + 1) .. Len(emitted) : emitted[i] \in JobEvents
          BY SMTT(30), <1>1, <3>1, <4>1
        <5> QED
          BY <5>1, SubSeqProperties
      <4>6. SubSeq(emitted, n + 1, Len(emitted)) \o <<e>>
              = Append(SubSeq(emitted, n + 1, Len(emitted)), e)
        <5> DEFINE b == SubSeq(emitted, n + 1, Len(emitted))
        <5>1. b \in Seq(JobEvents)
          BY <4>5
        <5> HIDE DEF b
        <5>2. b \o <<e>> = Append(b, e)
          BY <5>1, AppendIsConcat
        <5> QED
          BY <5>2 DEF b
      <4> QED
        BY <4>1, <4>2, <4>3, <4>4, <4>6
    <3>6. n <= Len(emitted')
      BY <1>1, <3>1
    <3>7. s \o waiting'[queue] = SubSeq(emitted', n + 1, Len(emitted'))
      BY <2>3, <3>1, <3>4, <3>5
    <3> QED
      BY <3>1, <3>6, <3>7 DEF n, s
  <2>7. Followed(waiting', stream', queue', emitted')
    BY <2>6 DEF Followed
  <2> QED
    BY <2>4, <2>5, <2>7 DEF ProgressInv
<1> QED
  BY <1>5, <1>6

LEMMA TakeFromNext ==
  ASSUME NEW s \in Seq(JobEvents), NEW t \in Seq(JobEvents), t # <<>>
  PROVE  Append(s, Head(t)) \o Tail(t) = s \o t
<1> DEFINE a == Append(s, Head(t)) \o Tail(t)
           b == s \o t
<1>1. /\ Head(t) \in JobEvents /\ Head(t) = t[1] /\ Tail(t) \in Seq(JobEvents)
      /\ Len(Tail(t)) = Len(t) - 1 /\ Len(t) \in Nat \ {0} /\ Len(s) \in Nat
      /\ \A i \in 1 .. Len(t) - 1 : Tail(t)[i] = t[i + 1]
  BY HeadTailProperties
<1>2. /\ Append(s, Head(t)) \in Seq(JobEvents) /\ Len(Append(s, Head(t))) = Len(s) + 1
      /\ Append(s, Head(t))[Len(s) + 1] = Head(t)
      /\ \A i \in 1 .. Len(s) : Append(s, Head(t))[i] = s[i]
  BY <1>1, AppendProperties
<1>3. /\ a \in Seq(JobEvents) /\ Len(a) = Len(s) + Len(t)
      /\ \A i \in 1 .. Len(s) + Len(t) :
           a[i] = IF i <= Len(s) + 1 THEN Append(s, Head(t))[i] ELSE Tail(t)[i - (Len(s) + 1)]
  BY <1>1, <1>2, ConcatProperties
<1>4. /\ b \in Seq(JobEvents) /\ Len(b) = Len(s) + Len(t)
      /\ \A i \in 1 .. Len(s) + Len(t) : b[i] = IF i <= Len(s) THEN s[i] ELSE t[i - Len(s)]
  BY ConcatProperties
<1> HIDE DEF a, b
<1>5. ASSUME NEW i \in 1 .. Len(a) PROVE a[i] = b[i]
  <2>1. i \in 1 .. Len(s) + Len(t)
    BY <1>3
  <2>2. CASE i <= Len(s)
    BY <1>1, <1>2, <1>3, <1>4, <2>1, <2>2
  <2>3. CASE i = Len(s) + 1
    BY SMTT(30), <1>1, <1>2, <1>3, <1>4, <2>1, <2>3
  <2>4. CASE i > Len(s) + 1
    <3>1. i - (Len(s) + 1) \in 1 .. Len(t) - 1 /\ (i - (Len(s) + 1)) + 1 = i - Len(s)
      BY <1>1, <2>1, <2>4
    <3>2. a[i] = Tail(t)[i - (Len(s) + 1)] /\ b[i] = t[i - Len(s)]
      BY <1>1, <1>3, <1>4, <2>1, <2>4
    <3> QED
      BY <1>1, <3>1, <3>2
  <2> QED
    BY <1>1, <2>1, <2>2, <2>3, <2>4
<1>6. a = b
  BY <1>3, <1>4, <1>5, SeqEqual
<1> QED
  BY <1>6 DEF a, b

\* The steps of the batch: each sends an event of its own, and counts a row with it.
LEMMA BatchKeepsProgress ==
  ASSUME ProgressInv, ServicesAssumption,
         \/ Progress!Start \/ Progress!Finish \/ Progress!Raise
         \/ \E r \in BatchRows : Progress!RowEnds(r)
  PROVE  ProgressInv'
<1>1. UNCHANGED <<queue, stream>>
  BY DEF Progress!Start, Progress!Finish, Progress!Raise, Progress!RowEnds
<1>2. /\ emitted \in Seq(JobEvents) /\ Len(emitted) \in Nat /\ DOMAIN emitted = 1 .. Len(emitted)
      /\ counted \subseteq BatchRows
      /\ batch = "idle" => emitted = <<>>
      /\ \A i \in 1 .. Len(emitted) :
           /\ emitted[i].event \in {"row_completed", "row_failed"} => emitted[i].row \in counted
           /\ emitted[i].event \in Progress!Ends => batch \in {"completed", "failed"}
  BY DEF ProgressInv, Truthful
<1> SUFFICES ASSUME NEW e \in JobEvents, Progress!Emit(e), Lacks(emitted, e),
                      counted \subseteq counted', counted' \subseteq BatchRows,
                      batch' \in {"running", "completed", "failed"},
                      batch \in {"completed", "failed"} => batch' \in {"completed", "failed"},
                      e.event \in {"row_completed", "row_failed"} => e.row \in counted',
                      e.event \in Progress!Ends => batch' \in {"completed", "failed"}
               PROVE  ProgressInv'
  <2>1. CASE Progress!Start
    <3> DEFINE e == [event |-> "batch_started", row |-> None]
    <3>1. /\ batch = "idle" /\ batch' = "running" /\ Progress!Emit(e) /\ counted' = counted
          /\ e \in JobEvents /\ e.event = "batch_started"
      BY <2>1 DEF Progress!Start, Progress!Event, JobEvents
    <3>2. Lacks(emitted, e)
      BY <1>2, <3>1 DEF Lacks
    <3> HIDE DEF e
    <3> QED
      BY <1>2, <3>1, <3>2 DEF Progress!Ends
  <2>2. CASE Progress!Finish \/ Progress!Raise
    <3>1. PICK kind \in Progress!Ends :
            /\ Progress!Emit([event |-> kind, row |-> None])
            /\ batch = "running" /\ batch' \in {"completed", "failed"} /\ counted' = counted
      BY <2>2 DEF Progress!Finish, Progress!Raise, Progress!Event, Progress!Ends
    <3> DEFINE e == [event |-> kind, row |-> None]
    <3>2. e \in JobEvents /\ e.event \in Progress!Ends /\ e.event \notin {"row_completed", "row_failed"}
      BY <3>1 DEF JobEvents, Progress!Ends
    <3>3. Progress!Emit(e)
      BY <3>1
    <3> HIDE DEF e
    <3>4. Lacks(emitted, e)
      BY <1>2, <3>1, <3>2 DEF Lacks
    <3> QED
      BY <1>2, <3>1, <3>2, <3>3, <3>4
  <2>3. CASE \E r \in BatchRows : Progress!RowEnds(r)
    <3>1. PICK r \in BatchRows : Progress!RowEnds(r)
      BY <2>3
    <3>2. PICK kind \in {"row_completed", "row_failed"} : Progress!Emit([event |-> kind, row |-> r])
      BY <3>1 DEF Progress!RowEnds, Progress!Event
    <3> DEFINE e == [event |-> kind, row |-> r]
    <3>3. /\ e \in JobEvents /\ e.row = r /\ e.event \notin Progress!Ends
      BY <3>2 DEF JobEvents, Progress!Ends
    <3>4. /\ r \notin {emitted[i].row : i \in DOMAIN emitted}
          /\ batch = "running" /\ batch' = batch /\ counted' = counted \cup {r}
      BY <3>1 DEF Progress!RowEnds, Progress!Count
    <3>5. Progress!Emit(e)
      BY <3>2
    <3> HIDE DEF e
    <3>6. Lacks(emitted, e)
      BY <1>2, <3>3, <3>4 DEF Lacks
    <3> QED
      BY <1>2, <3>3, <3>4, <3>5, <3>6
  <2> QED
    BY <2>1, <2>2, <2>3
<1>3. Truthful(emitted', counted', batch')
  <2>1. emitted' = Append(emitted, e)
    BY DEF Progress!Emit
  <2>2. /\ emitted' \in Seq(JobEvents) /\ Len(emitted') = Len(emitted) + 1
        /\ \A i \in 1 .. Len(emitted) : emitted'[i] = emitted[i]
        /\ emitted'[Len(emitted) + 1] = e
    BY <1>2, <2>1, SentGrows
  <2>3. ASSUME NEW i \in 1 .. Len(emitted')
        PROVE  /\ emitted'[i].event \in {"row_completed", "row_failed"} => emitted'[i].row \in counted'
               /\ emitted'[i].event \in Progress!Ends => batch' \in {"completed", "failed"}
    <3>1. CASE i = Len(emitted) + 1
      BY <2>2, <3>1
    <3>2. CASE i \in 1 .. Len(emitted)
      BY <1>2, <2>2, <3>2
    <3> QED
      BY <1>2, <2>2, <3>1, <3>2
  <2> QED
    BY <2>2, <2>3 DEF Truthful
<1> QED
  BY <1>1, <1>3, EmitKeepsProgress

\* A connection that begins, is noticed to have left, or ends.
LEMMA PageKeepsProgress ==
  ASSUME ProgressInv, NEW c \in Progress!Streams, NEW page \in StreamStates,
         page.queue = stream[c].queue, page.shown = stream[c].shown,
         page.since = stream[c].since, page.alone = stream[c].alone,
         Connected(page) => Connected(stream[c]), Listening(page) => Listening(stream[c]),
         stream' = [stream EXCEPT ![c] = page],
         UNCHANGED <<waiting, emitted, counted, batch>>,
         queue' = queue \/ (queue' = None /\ Connected(stream[c]) /\ ~Listening(page))
  PROVE  ProgressInv'
<1>1. /\ stream' = [d \in Progress!Streams |-> stream'[d]] /\ stream'[c] = page
      /\ \A d \in Progress!Streams : d # c => stream'[d] = stream[d]
  BY DEF ProgressInv, Served
<1>2. Served(waiting, stream', queue')
  BY <1>1 DEF ProgressInv, Served
<1>3. \A d \in Progress!Streams : stream'[d].shown = stream[d].shown
  BY <1>1
<1>4. Spread(waiting, stream', SentIn(emitted))
  BY <1>3 DEF ProgressInv, Spread
<1>5. ASSUME NEW d \in Progress!Streams, Listening(stream'[d]), stream'[d].alone
      PROVE  /\ queue' = stream'[d].queue
             /\ \A x \in Progress!Streams : x # d => ~Connected(stream'[x])
             /\ stream'[d].since <= Len(emitted)
             /\ stream'[d].shown \o waiting[stream'[d].queue]
                  = SubSeq(emitted, stream'[d].since + 1, Len(emitted))
  <2>1. /\ Listening(stream[d]) /\ stream[d].alone /\ stream'[d].queue = stream[d].queue
        /\ stream'[d].since = stream[d].since /\ stream'[d].shown = stream[d].shown
    BY <1>1, <1>5
  <2>2. /\ queue = stream[d].queue
        /\ \A x \in Progress!Streams : x # d => ~Connected(stream[x])
        /\ stream[d].since <= Len(emitted)
        /\ stream[d].shown \o waiting[stream[d].queue]
             = SubSeq(emitted, stream[d].since + 1, Len(emitted))
    BY <2>1 DEF ProgressInv, Followed
  <2>3. \A x \in Progress!Streams : x # d => ~Connected(stream'[x])
    BY <1>1, <2>2
  <2>4. queue' = queue
    BY <1>1, <1>5, <2>2
  <2> QED
    BY <2>1, <2>2, <2>3, <2>4
<1>6. Followed(waiting, stream', queue', emitted)
  BY <1>5 DEF Followed
<1> QED
  BY <1>2, <1>4, <1>6 DEF ProgressInv

LEMMA LeaveKeepsProgress ==
  ASSUME ProgressInv, NEW c \in Progress!Streams,
         \/ Progress!Begin(c) \/ Progress!NeverBegins(c) \/ Progress!Leave(c)
         \/ Progress!Unsubscribe(c)
  PROVE  ProgressInv'
<1> DEFINE page(state) == [stream[c] EXCEPT !.state = state]
<1>1. stream[c] \in StreamStates
  BY DEF ProgressInv, Served
<1>2. \A state \in {"reading", "left", "ended"} :
        /\ page(state) \in StreamStates /\ page(state).state = state
        /\ page(state).queue = stream[c].queue /\ page(state).shown = stream[c].shown
        /\ page(state).since = stream[c].since /\ page(state).alone = stream[c].alone
  BY <1>1 DEF StreamStates
<1>3. UNCHANGED <<waiting, emitted, counted, batch>>
  BY DEF Progress!Begin, Progress!NeverBegins, Progress!Leave, Progress!Unsubscribe
<1>4. PICK state \in {"reading", "left", "ended"} :
        /\ stream' = [stream EXCEPT ![c] = page(state)]
        /\ state = "reading" => stream[c].state = "subscribed"
        /\ state = "left" => stream[c].state = "reading"
        /\ queue' = queue \/ (queue' = None /\ stream[c].state = "left" /\ state = "ended")
  BY DEF Progress!Begin, Progress!NeverBegins, Progress!Leave, Progress!Unsubscribe,
         ProgressInv, Served
<1> DEFINE next == page(state)
<1>5. /\ next \in StreamStates /\ next.state = state
      /\ next.queue = stream[c].queue /\ next.shown = stream[c].shown
      /\ next.since = stream[c].since /\ next.alone = stream[c].alone
      /\ stream' = [stream EXCEPT ![c] = next]
  BY <1>2, <1>4
<1> HIDE DEF next, page
<1>6. /\ Connected(next) => Connected(stream[c])
      /\ Listening(next) => Listening(stream[c])
      /\ queue' = queue \/ (queue' = None /\ Connected(stream[c]) /\ ~Listening(next))
  BY <1>4, <1>5 DEF Connected, Listening
<1> QED
  BY <1>3, <1>5, <1>6, PageKeepsProgress

\* What is taken from a queue is shown by one page, or by none if its client has left.
LEMMA TakeKeepsProgress ==
  ASSUME ProgressInv, NEW c \in Progress!Streams, Progress!Take(c)
  PROVE  ProgressInv'
<1> DEFINE q == stream[c].queue
           w == waiting[q]
           sent == SentIn(emitted)
<1>1. /\ stream[c].state \in {"reading", "left"} /\ w # <<>>
      /\ waiting' = [waiting EXCEPT ![q] = Tail(w)]
      /\ stream' = IF stream[c].state = "left" THEN stream
                   ELSE [stream EXCEPT ![c].shown = Append(stream[c].shown, Head(w))]
      /\ UNCHANGED <<queue, emitted, counted, batch>>
  BY DEF Progress!Take, Progress!RemoveFirst, ProgressInv, Served
<1>2. /\ q \in 1 .. Len(waiting) /\ waiting \in Seq(Seq(JobEvents)) /\ w \in Seq(JobEvents)
      /\ stream[c] \in StreamStates /\ stream[c].shown \in Seq(JobEvents)
  BY <1>1 DEF ProgressInv, Served, Connected, StreamStates
<1>3. /\ \A r \in 1 .. Len(waiting) :
           /\ waiting[r] \in Seq(JobEvents) /\ Once(waiting[r]) /\ Among(waiting[r], sent)
           /\ \A p \in 1 .. Len(waiting) : r # p => Apart(waiting[r], waiting[p])
           /\ \A d \in Progress!Streams : Apart(waiting[r], stream[d].shown)
      /\ \A d \in Progress!Streams :
           /\ stream[d].shown \in Seq(JobEvents) /\ Once(stream[d].shown)
           /\ Among(stream[d].shown, sent)
           /\ \A x \in Progress!Streams : d # x => Apart(stream[d].shown, stream[x].shown)
  BY DEF ProgressInv, Served, Spread, StreamStates
<1> HIDE DEF sent
<1> DEFINE first == Head(w)
           rest == Tail(w)
<1>4. /\ first \in JobEvents /\ rest \in Seq(JobEvents) /\ Once(rest) /\ Lacks(rest, first)
      /\ Among(rest, sent) /\ first \in sent
      /\ \A t \in Seq(JobEvents) : Apart(w, t) => Apart(rest, t) /\ Lacks(t, first)
      /\ \A t \in Seq(JobEvents) : Apart(t, w) => Apart(t, rest) /\ Lacks(t, first)
  <2>1. Once(w) /\ Among(w, sent)
    BY <1>2, <1>3
  <2> HIDE DEF w
  <2> QED
    BY <1>1, <1>2, <2>1, TakeEvent
<1> HIDE DEF first, rest
<1>5. /\ waiting' \in Seq(Seq(JobEvents)) /\ Len(waiting') = Len(waiting) /\ waiting'[q] = rest
      /\ \A r \in 1 .. Len(waiting) : r # q => waiting'[r] = waiting[r]
  BY <1>1, <1>2, <1>4 DEF rest
<1>6. /\ \A r \in 1 .. Len(waiting) : r # q => Lacks(waiting[r], first)
      /\ \A d \in Progress!Streams : Lacks(stream[d].shown, first)
  BY <1>2, <1>3, <1>4
<1> DEFINE told == Append(stream[c].shown, first)
           page == [stream[c] EXCEPT !.shown = told]
<1>7. /\ told \in Seq(JobEvents) /\ Once(told) /\ Among(told, sent)
      /\ \A t \in Seq(JobEvents) : Lacks(t, first) /\ Apart(stream[c].shown, t) => Apart(told, t)
      /\ \A t \in Seq(JobEvents) : Lacks(t, first) /\ Apart(t, stream[c].shown) => Apart(t, told)
  <2>1. /\ Lacks(stream[c].shown, first) /\ Once(stream[c].shown) /\ Among(stream[c].shown, sent)
    BY <1>3, <1>6
  <2> DEFINE s == stream[c].shown
  <2>2. s \in Seq(JobEvents) /\ Lacks(s, first) /\ Once(s) /\ Among(s, sent)
    BY <1>2, <2>1
  <2> HIDE DEF s
  <2>3. /\ Append(s, first) \in Seq(JobEvents) /\ Once(Append(s, first))
        /\ Among(Append(s, first), sent)
        /\ \A t \in Seq(JobEvents) : Lacks(t, first) /\ Apart(s, t) => Apart(Append(s, first), t)
        /\ \A t \in Seq(JobEvents) : Lacks(t, first) /\ Apart(t, s) => Apart(t, Append(s, first))
    BY <1>4, <2>2, AppendEvent
  <2> QED
    BY <2>3 DEF s
<1>8. /\ page \in StreamStates /\ page.state = stream[c].state /\ page.queue = q
      /\ page.shown = told /\ page.since = stream[c].since /\ page.alone = stream[c].alone
  BY <1>2, <1>7 DEF StreamStates
<1>9. \/ stream[c].state = "left" /\ stream' = stream
      \/ stream[c].state = "reading" /\ stream' = [stream EXCEPT ![c] = page]
  BY <1>1 DEF ProgressInv, Served, first
<1> HIDE DEF told, page, w
<1>10. /\ stream' = [d \in Progress!Streams |-> stream'[d]]
       /\ \A d \in Progress!Streams : d # c => stream'[d] = stream[d]
       /\ stream'[c] = stream[c] \/ (stream[c].state = "reading" /\ stream'[c] = page)
       /\ stream[c].state = "reading" => stream'[c] = page
  BY <1>9 DEF ProgressInv, Served
<1>11. \A d \in Progress!Streams :
         /\ stream'[d] \in StreamStates /\ stream'[d].state = stream[d].state
         /\ stream'[d].queue = stream[d].queue /\ stream'[d].since = stream[d].since
         /\ stream'[d].alone = stream[d].alone
  BY <1>8, <1>10 DEF ProgressInv, Served
<1>12. Served(waiting', stream', queue)
  BY <1>5, <1>10, <1>11 DEF ProgressInv, Served, Connected
<1> HIDE DEF q
<1>13. Spread(waiting', stream', sent)
  <2>1. ASSUME NEW r \in 1 .. Len(waiting)
        PROVE  /\ Once(waiting'[r]) /\ Among(waiting'[r], sent)
               /\ \A p \in 1 .. Len(waiting) : r # p => Apart(waiting'[r], waiting'[p])
    <3>1. CASE r = q
      BY <1>2, <1>3, <1>4, <1>5, <3>1 DEF w
    <3>2. CASE r # q
      BY <1>2, <1>3, <1>4, <1>5, <3>2 DEF w
    <3> QED
      BY <3>1, <3>2
  <2>2. ASSUME NEW r \in 1 .. Len(waiting), NEW d \in Progress!Streams
        PROVE  Apart(waiting'[r], stream'[d].shown)
    <3>1. Apart(waiting'[r], stream[d].shown)
      BY <1>2, <1>3, <1>4, <1>5 DEF w
    <3>2. waiting'[r] \in Seq(JobEvents) /\ Lacks(waiting'[r], first)
      BY <1>3, <1>4, <1>5, <1>6
    <3>3. stream'[d].shown = stream[d].shown \/ (d = c /\ stream'[d].shown = told)
      BY <1>8, <1>10
    <3> QED
      BY <1>7, <3>1, <3>2, <3>3
  <2>3. ASSUME NEW d \in Progress!Streams
        PROVE  /\ Once(stream'[d].shown) /\ Among(stream'[d].shown, sent)
               /\ \A x \in Progress!Streams : d # x => Apart(stream'[d].shown, stream'[x].shown)
    <3>1. \A y \in Progress!Streams :
            stream'[y].shown = stream[y].shown \/ (y = c /\ stream'[y].shown = told)
      BY <1>8, <1>10
    <3>2. Once(stream'[d].shown) /\ Among(stream'[d].shown, sent)
      BY <1>3, <1>7, <3>1
    <3>3. ASSUME NEW x \in Progress!Streams, d # x
          PROVE  Apart(stream'[d].shown, stream'[x].shown)
      <4>1. /\ Apart(stream[d].shown, stream[x].shown)
            /\ stream[d].shown \in Seq(JobEvents) /\ Lacks(stream[d].shown, first)
            /\ stream[x].shown \in Seq(JobEvents) /\ Lacks(stream[x].shown, first)
        BY <1>3, <1>6, <3>3
      <4>2. CASE d = c
        BY <1>7, <3>1, <3>3, <4>1, <4>2
      <4>3. CASE d # c
        BY <1>7, <3>1, <3>3, <4>1, <4>3
      <4> QED
        BY <4>2, <4>3
    <3> QED
      BY <3>2, <3>3
  <2> QED
    BY <1>5, <2>1, <2>2, <2>3 DEF Spread
<1>14. ASSUME NEW d \in Progress!Streams, Listening(stream'[d]), stream'[d].alone
       PROVE  /\ queue = stream'[d].queue
              /\ \A x \in Progress!Streams : x # d => ~Connected(stream'[x])
              /\ stream'[d].since <= Len(emitted)
              /\ stream'[d].shown \o waiting'[stream'[d].queue]
                   = SubSeq(emitted, stream'[d].since + 1, Len(emitted))
  <2>1. Listening(stream[d]) /\ stream[d].alone
    BY <1>11, <1>14 DEF Listening
  <2>2. /\ queue = stream[d].queue
        /\ \A x \in Progress!Streams : x # d => ~Connected(stream[x])
        /\ stream[d].since <= Len(emitted)
        /\ stream[d].shown \o waiting[stream[d].queue]
             = SubSeq(emitted, stream[d].since + 1, Len(emitted))
    BY <2>1 DEF ProgressInv, Followed
  <2>3. d = c /\ stream[c].state = "reading"
    BY <1>1, <2>1, <2>2 DEF Connected, Listening
  <2>4. told \o rest = stream[c].shown \o w
    <3>1. stream[c].shown \in Seq(JobEvents) /\ w \in Seq(JobEvents) /\ w # <<>>
      BY <1>1, <1>2 DEF w, q
    <3> QED
      BY <3>1, TakeFromNext DEF told, rest, first
  <2>5. \A x \in Progress!Streams : x # d => ~Connected(stream'[x])
    BY <1>11, <2>2 DEF Connected
  <2>6. stream'[d].shown = told /\ waiting'[stream'[d].queue] = rest
    BY <1>5, <1>8, <1>10, <1>11, <2>3 DEF q
  <2> QED
    BY <1>11, <2>2, <2>3, <2>4, <2>5, <2>6 DEF w, q
<1>15. Followed(waiting', stream', queue, emitted)
  BY <1>14 DEF Followed
<1> QED
  BY <1>1, <1>12, <1>13, <1>15 DEF ProgressInv, sent

\* A new connection takes from the queue of the job, and nobody is alone with another.
LEMMA SubscribeKeepsProgress ==
  ASSUME ProgressInv, ServicesAssumption, NEW c \in Progress!Streams, Progress!Subscribe(c)
  PROVE  ProgressInv'
<1> DEFINE q == IF queue = None THEN Len(waiting) + 1 ELSE queue
           others == {d \in Progress!Streams \ {c} : Progress!Open(d)}
           alone == queue = None /\ others = {}
           page == [state |-> "subscribed", queue |-> q, shown |-> <<>>,
                    since |-> Len(emitted), alone |-> alone]
<1>1. /\ queue' = q /\ (queue = None => Len(waiting) < MaxQueues)
      /\ waiting' = IF queue = None THEN Append(waiting, <<>>) ELSE waiting
      /\ stream' = [d \in Progress!Streams |->
                      IF d = c THEN page ELSE [stream[d] EXCEPT !.alone = FALSE]]
      /\ UNCHANGED <<emitted, counted, batch>>
  BY DEF Progress!Subscribe
<1>2. /\ waiting \in Seq(Seq(JobEvents)) /\ Len(waiting) \in Nat /\ Len(waiting) <= MaxQueues
      /\ queue \in (1 .. Len(waiting)) \cup {None}
      /\ emitted \in Seq(JobEvents) /\ Len(emitted) \in Nat /\ MaxQueues \in Nat
  BY DEF ProgressInv, Served, Truthful, ServicesAssumption
<1>3. /\ waiting' \in Seq(Seq(JobEvents)) /\ Len(waiting') \in Nat /\ Len(waiting') <= MaxQueues
      /\ Len(waiting) <= Len(waiting') /\ q \in 1 .. Len(waiting')
      /\ \A r \in 1 .. Len(waiting) : waiting'[r] = waiting[r]
      /\ \A r \in 1 .. Len(waiting') : r \in 1 .. Len(waiting) \/ waiting'[r] = <<>>
      /\ queue = None => waiting'[q] = <<>>
  <2>1. CASE queue = None
    <3> DEFINE none == <<>>
    <3>1. none \in Seq(JobEvents) /\ none = <<>>
      OBVIOUS
    <3>2. waiting' = Append(waiting, none) /\ q = Len(waiting) + 1
      BY <1>1, <2>1
    <3> HIDE DEF none, q
    <3>3. /\ Append(waiting, none) \in Seq(Seq(JobEvents))
          /\ Len(Append(waiting, none)) = Len(waiting) + 1
          /\ \A r \in 1 .. Len(waiting) : Append(waiting, none)[r] = waiting[r]
          /\ Append(waiting, none)[Len(waiting) + 1] = none
      BY <1>2, <3>1, AppendProperties
    <3> QED
      BY <1>1, <1>2, <2>1, <3>1, <3>2, <3>3
  <2>2. CASE queue # None
    BY <1>1, <1>2, <2>2
  <2> QED
    BY <2>1, <2>2
<1>4. /\ page \in StreamStates /\ page.state = "subscribed" /\ page.queue = q /\ page.shown = <<>>
      /\ page.since = Len(emitted) /\ (page.alone => queue = None /\ others = {})
  <2>1. q \in 1 .. MaxQueues /\ alone \in BOOLEAN /\ (alone => queue = None /\ others = {})
    BY <1>2, <1>3
  <2> HIDE DEF q, others, alone
  <2>2. /\ page \in StreamStates /\ page.state = "subscribed" /\ page.queue = q
        /\ page.shown = <<>> /\ page.since = Len(emitted)
    BY <1>2, <2>1 DEF StreamStates
  <2>3. page.alone = alone
    OBVIOUS
  <2> QED
    BY <2>1, <2>2, <2>3
<1>5. ASSUME NEW d \in Progress!Streams, d # c
      PROVE  /\ stream'[d] \in StreamStates /\ stream'[d].state = stream[d].state
             /\ stream'[d].queue = stream[d].queue /\ stream'[d].shown = stream[d].shown
             /\ ~stream'[d].alone
  <2>1. stream'[d] = [stream[d] EXCEPT !.alone = FALSE] /\ stream[d] \in StreamStates
    BY <1>1, <1>5 DEF ProgressInv, Served
  <2> QED
    BY <2>1 DEF StreamStates
<1>6. /\ stream' = [d \in Progress!Streams |-> stream'[d]] /\ stream'[c] = page
  BY <1>1
<1>7. others = {} => \A d \in Progress!Streams : d # c => ~Connected(stream[d])
  BY DEF Progress!Open, Connected
<1> HIDE DEF q, page, others, alone
<1>8. Served(waiting', stream', queue')
  <2>1. ASSUME NEW d \in Progress!Streams
        PROVE  /\ stream'[d] \in StreamStates
               /\ stream'[d].queue \in (1 .. Len(waiting')) \cup {None}
               /\ Connected(stream'[d]) => stream'[d].queue \in 1 .. Len(waiting')
    <3>1. CASE d = c
      BY <1>3, <1>4, <1>6, <3>1
    <3>2. CASE d # c
      <4>1. /\ stream[d].queue \in (1 .. Len(waiting)) \cup {None}
            /\ Connected(stream[d]) => stream[d].queue \in 1 .. Len(waiting)
        BY DEF ProgressInv, Served
      <4>2. 1 .. Len(waiting) \subseteq 1 .. Len(waiting')
        BY <1>2, <1>3
      <4> QED
        BY <1>5, <3>2, <4>1, <4>2 DEF Connected
    <3> QED
      BY <3>1, <3>2
  <2> QED
    BY <1>1, <1>3, <1>6, <2>1 DEF Served
<1>9. \A t : Once(<<>>) /\ Apart(<<>>, t) /\ Apart(t, <<>>) /\ Among(<<>>, t)
  BY DEF Once, Apart, Among
<1>10. Spread(waiting', stream', SentIn(emitted))
  <2>1. \A d \in Progress!Streams : stream'[d].shown = stream[d].shown \/ stream'[d].shown = <<>>
    BY <1>4, <1>5, <1>6
  <2>2. \A r \in 1 .. Len(waiting') :
          (r \in 1 .. Len(waiting) /\ waiting'[r] = waiting[r]) \/ waiting'[r] = <<>>
    BY <1>3
  <2>3. ASSUME NEW r \in 1 .. Len(waiting')
        PROVE  /\ Once(waiting'[r]) /\ Among(waiting'[r], SentIn(emitted))
               /\ \A p \in 1 .. Len(waiting') : r # p => Apart(waiting'[r], waiting'[p])
               /\ \A d \in Progress!Streams : Apart(waiting'[r], stream'[d].shown)
    BY <1>9, <2>1, <2>2 DEF ProgressInv, Spread
  <2>4. ASSUME NEW d \in Progress!Streams
        PROVE  /\ Once(stream'[d].shown) /\ Among(stream'[d].shown, SentIn(emitted))
               /\ \A x \in Progress!Streams : d # x => Apart(stream'[d].shown, stream'[x].shown)
    BY <1>9, <2>1 DEF ProgressInv, Spread
  <2> QED
    BY <2>3, <2>4 DEF Spread
<1>11. ASSUME NEW d \in Progress!Streams, Listening(stream'[d]), stream'[d].alone
       PROVE  /\ queue' = stream'[d].queue
              /\ \A x \in Progress!Streams : x # d => ~Connected(stream'[x])
              /\ stream'[d].since <= Len(emitted)
              /\ stream'[d].shown \o waiting'[stream'[d].queue]
                   = SubSeq(emitted, stream'[d].since + 1, Len(emitted))
  <2>1. d = c /\ queue = None /\ others = {}
    BY <1>4, <1>5, <1>6, <1>11
  <2>2. \A x \in Progress!Streams : x # c => ~Connected(stream'[x])
    BY <1>5, <1>7, <2>1 DEF Connected
  <2>3. stream'[d].shown \o waiting'[stream'[d].queue] = <<>>
    BY <1>3, <1>4, <1>6, <2>1
  <2>4. SubSeq(emitted, Len(emitted) + 1, Len(emitted)) = <<>>
    BY <1>2, SubSeqEmpty
  <2>5. stream'[d].queue = q /\ stream'[d].since = Len(emitted)
    BY <1>4, <1>6, <2>1
  <2>6. stream'[d].since <= Len(emitted)
    BY <1>2, <2>5
  <2>7. SubSeq(emitted, stream'[d].since + 1, Len(emitted)) = <<>>
    BY <2>4, <2>5
  <2>8. /\ queue' = stream'[d].queue
        /\ \A x \in Progress!Streams : x # d => ~Connected(stream'[x])
    BY <1>1, <2>1, <2>2, <2>5
  <2> QED
    BY <2>3, <2>6, <2>7, <2>8
<1>12. Followed(waiting', stream', queue', emitted)
  BY <1>11 DEF Followed
<1> QED
  BY <1>1, <1>8, <1>10, <1>12 DEF ProgressInv

LEMMA ProgressStep ==
  ProgressInv /\ ServicesAssumption /\ (Progress!Next \/ UNCHANGED progressVars) => ProgressInv'
<1> SUFFICES ASSUME ProgressInv, ServicesAssumption, Progress!Next \/ UNCHANGED progressVars
             PROVE  ProgressInv'
  OBVIOUS
<1>1. CASE UNCHANGED progressVars
  BY <1>1 DEF progressVars, ProgressInv
<1>2. ASSUME NEW c \in Progress!Streams,
             \/ Progress!Subscribe(c) \/ Progress!Begin(c) \/ Progress!NeverBegins(c)
             \/ Progress!Take(c) \/ Progress!Leave(c) \/ Progress!Unsubscribe(c)
      PROVE  ProgressInv'
  BY <1>2, SubscribeKeepsProgress, LeaveKeepsProgress, TakeKeepsProgress
<1>3. CASE \/ Progress!Start \/ Progress!Finish \/ Progress!Raise
           \/ \E r \in BatchRows : Progress!RowEnds(r)
  BY <1>3, BatchKeepsProgress
<1> QED
  BY <1>1, <1>2, <1>3 DEF Progress!Next

\* The elements of a sequence without repetitions are as many as it is long.
LEMMA AsManyAsLong ==
  ASSUME NEW s \in Seq(JobEvents), Once(s)
  PROVE  Cardinality({s[i] : i \in DOMAIN s}) = Len(s)
<1> DEFINE elements == {s[i] : i \in DOMAIN s}
<1>1. Len(s) \in Nat /\ DOMAIN s = 1 .. Len(s) /\ s \in [1 .. Len(s) -> elements]
  OBVIOUS
<1>2. s \in Bijection(1 .. Len(s), elements)
  BY <1>1 DEF Once, Bijection, Injection, Surjection, IsInjective
<1> HIDE DEF elements
<1>3. ExistsBijection(1 .. Len(s), elements)
  BY <1>2 DEF ExistsBijection
<1>4. Cardinality(elements) = Len(s)
  BY <1>1, <1>3, FS_CountingElements
<1> QED
  BY <1>4 DEF elements

\* A page alone on a job misses nothing, no event is shown twice, and no page is ahead of
\* the counters, for any rows, connections and queues, whatever pages leave or come back.
THEOREM ProgressKeepsItsPromise == Spec => []ProgressPromise
<1>1. Init => ProgressInv
  BY InitProgress, ServicesAssumption DEF Init
<1>2. ProgressInv /\ [Next]_allVars => ProgressInv'
  <2> SUFFICES ASSUME ProgressInv, [Next]_allVars PROVE ProgressInv'
    OBVIOUS
  <2>1. Progress!Next \/ UNCHANGED progressVars
    BY DEF Next, Rest, allVars
  <2> QED
    BY <2>1, ProgressStep, ServicesAssumption
<1>3. ProgressInv => ProgressPromise
  <2> SUFFICES ASSUME ProgressInv PROVE ProgressPromise
    OBVIOUS
  <2>1. Progress!TypeOK
    BY DEF ProgressInv, Served, Truthful, StreamStates, Progress!TypeOK
  <2>2. Progress!AlonePageMissesNothing
    BY DEF ProgressInv, Followed, Listening, Progress!AlonePageMissesNothing, Progress!Reading,
           Progress!After
  <2>3. \A c \in Progress!Streams :
          /\ stream[c].shown \in Seq(JobEvents) /\ DOMAIN stream[c].shown = 1 .. Len(stream[c].shown)
          /\ Once(stream[c].shown) /\ Among(stream[c].shown, SentIn(emitted))
          /\ \A d \in Progress!Streams : c # d => Apart(stream[c].shown, stream[d].shown)
    BY DEF ProgressInv, Served, Spread, StreamStates
  <2>4. Progress!ShownOnce
    <3>1. ASSUME NEW c \in Progress!Streams
          PROVE  Progress!Cardinality(Progress!Told(c)) = Len(stream[c].shown)
      <4>1. \A T : Progress!Cardinality(T) = Cardinality(T)
        BY DEF Progress!Cardinality, Cardinality
      <4> DEFINE s == stream[c].shown
      <4>2. s \in Seq(JobEvents) /\ Once(s)
        BY <2>3
      <4> HIDE DEF s
      <4>3. Cardinality({s[i] : i \in DOMAIN s}) = Len(s)
        BY <4>2, AsManyAsLong
      <4> QED
        BY <4>1, <4>3, Zenon DEF s, Progress!Told
    <3>2. ASSUME NEW c \in Progress!Streams, NEW d \in Progress!Streams, c # d
          PROVE  Progress!Told(c) \cap Progress!Told(d) = {}
      BY <2>3, <3>2 DEF Progress!Told, Apart
    <3> QED
      BY <3>1, <3>2 DEF Progress!ShownOnce
  <2>5. Progress!PageIsNotAhead
    <3> SUFFICES ASSUME NEW c \in Progress!Streams, NEW e \in Progress!Told(c)
                 PROVE  /\ e.event \in {"row_completed", "row_failed"} => e.row \in counted
                        /\ e.event \in Progress!Ends => batch \in {"completed", "failed"}
      BY DEF Progress!PageIsNotAhead
    <3>1. e \in SentIn(emitted)
      BY <2>3 DEF Progress!Told, Among
    <3>2. PICK i \in 1 .. Len(emitted) : emitted[i] = e
      BY <3>1 DEF SentIn
    <3> QED
      BY <3>2 DEF ProgressInv, Truthful
  <2> QED
    BY <2>1, <2>2, <2>4, <2>5 DEF ProgressPromise
<1> QED
  BY <1>1, <1>2, <1>3, PTL DEF Spec
=============================================================================
