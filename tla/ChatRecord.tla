----------------------------- MODULE ChatRecord -----------------------------
(***************************************************************************)
(* The record of one conversation: what the database keeps of what the     *)
(* page was shown, its title, the documents waiting for the paperless      *)
(* tool, and what an agent that is built anew is told of it.  Messages are *)
(* numbered as they are accepted; saves run on the server's one event loop *)
(* without an await, and one that fails is only logged.                    *)
(***************************************************************************)
EXTENDS Naturals, Sequences, SequencesExt

CONSTANTS
  MaxMessages,  \* bounds: messages, uploads among them,
  MaxShown,     \*   what the agent says and shows in a turn,
  MaxFaults,    \*   and how many saves fail or servers restart
  Resume        \* MAX_RESUME_MESSAGES

VARIABLES
  chat,    \* its row: whether it is active, its title, and whether a user chose it
  record,  \* conversation_messages, by their sequence
  asked,   \* messages accepted so far
  line,    \* those whose task waits for the session's lock
  turn,    \* the message being answered
  page,    \* what the page was shown
  agent,   \* what the running agent was told of the conversation when it was built
  staged,  \* attachment_store: the document of a message, or 0
  sent,    \* the documents UPS has received
  faults

chatVars == <<chat, record, asked, line, turn, page, agent, staged, sent, faults>>

Artifacts == {"preview", "document"}   \* of _PERSISTABLE_ARTIFACTS
Chosen == MaxMessages + 1              \* the title a user chose; 0 is none
NoTurn == [of |-> 0, hide |-> FALSE, shown |-> 0, text |-> 0, saved |-> {}]
NoAgent == [on |-> FALSE, told |-> <<>>, at |-> 0]

Entry(m, kind, nth) == [of |-> m, kind |-> kind, nth |-> nth]
Entries == [of : 0..MaxMessages, kind : Artifacts \cup {"question", "text", "completion"},
            nth : 0..MaxShown]

TypeOK ==
  /\ chat \in [active : BOOLEAN, title : 0..Chosen, renamed : BOOLEAN]
  /\ record \in Seq(Entries) /\ page \in Seq(Entries)
  /\ asked \in 0..MaxMessages
  /\ line \in Seq(1..MaxMessages)
  /\ turn \in [of : 0..MaxMessages, hide : BOOLEAN, shown : 0..MaxShown,
               text : 0..MaxShown, saved : SUBSET Artifacts]
  /\ agent.told \in Seq(Entries)
  /\ staged \in 0..MaxMessages
  /\ sent \in Seq(1..MaxMessages)
  /\ faults \in 0..MaxFaults

Init ==
  /\ chat = [active |-> TRUE, title |-> 0, renamed |-> FALSE]
  /\ record = <<>>
  /\ asked = 0
  /\ line = <<>>
  /\ turn = NoTurn
  /\ page = <<>>
  /\ agent = NoAgent
  /\ staged = 0
  /\ sent = <<>>
  /\ faults = 0

Fault == faults < MaxFaults /\ faults' = faults + 1

\* save_message, whose failure its callers log and forget.
Save(e) ==
  \/ record' = Append(record, e) /\ UNCHANGED faults
  \/ Fault /\ UNCHANGED record

Accept ==
  /\ chat.active
  /\ asked < MaxMessages
  /\ asked' = asked + 1
  /\ line' = Append(line, asked + 1)

\* Mutant of TitleFrom: the title of a conversation that has one is replaced.
TitleFromAny(m) == chat' = [chat EXCEPT !.title = m]

\* set_title_from_first_message
TitleFrom(m) == chat' = IF chat.title = 0 THEN [chat EXCEPT !.title = m] ELSE chat

\* The message is saved, then the title: either may fail, and the first failure
\* leaves both.
SendMessage ==
  /\ Accept
  /\ \/ /\ record' = Append(record, Entry(asked + 1, "question", 0))
        /\ \/ TitleFrom(asked + 1) /\ UNCHANGED faults
           \/ Fault /\ UNCHANGED chat
     \/ Fault /\ UNCHANGED <<record, chat>>
  /\ UNCHANGED <<turn, page, agent, staged, sent>>

\* An upload's message is put into the memory of the session only.
UploadDocument ==
  /\ Accept
  /\ staged' = asked + 1
  /\ UNCHANGED <<chat, record, turn, page, agent, sent, faults>>

Rename ==
  /\ ~chat.renamed
  /\ chat' = [chat EXCEPT !.title = Chosen, !.renamed = TRUE]
  /\ UNCHANGED <<record, asked, line, turn, page, agent, staged, sent, faults>>

\* POST .../artifacts: the page records the completion of a job it showed the
\* preview of.
SaveArtifact ==
  /\ \E i \in DOMAIN page : page[i].kind = "preview"
  /\ \A i \in DOMAIN record : record[i].kind # "completion"
  /\ record' = Append(record, Entry(0, "completion", 0))
  /\ UNCHANGED <<chat, asked, line, turn, page, agent, staged, sent, faults>>

-----------------------------------------------------------------------------
\* Mutant of NextInLine: the last to come is served first.
LastInLine == Len(line)

\* The lock of the session is fair: the place in line it is given to.
NextInLine == 1

\* _load_prior_conversation
Prior == SubSeq(record, 1, IF Resume < Len(record) THEN Resume ELSE Len(record))

\* The task has the lock: it keeps the agent, or builds one because there is none,
\* the source or the mode changed.
TurnStarts ==
  /\ turn.of = 0
  /\ line # <<>>
  /\ line' = RemoveAt(line, NextInLine)
  /\ \E hide \in BOOLEAN : turn' = [NoTurn EXCEPT !.of = line[NextInLine], !.hide = hide]
  /\ \/ agent.on /\ UNCHANGED agent
     \/ agent' = [on |-> TRUE, told |-> Prior, at |-> Len(record)]
  /\ UNCHANGED <<chat, record, asked, page, staged, sent, faults>>

Shows(e) == page' = Append(page, e)
MayShow == turn.of # 0 /\ turn.shown < MaxShown

\* Mutant of FirstOfItsKind: whatever a tool and the stream both emit is saved.
EveryOne(a) == TRUE

\* _persisted_events: one artifact of a kind is saved in a turn.
FirstOfItsKind(a) == a \notin turn.saved

ShowArtifact(a) ==
  LET e == Entry(turn.of, a, turn.shown + 1)
  IN  /\ turn' = [turn EXCEPT !.shown = @ + 1, !.saved = @ \cup {a}]
      /\ IF FirstOfItsKind(a) THEN Save(e) ELSE UNCHANGED <<record, faults>>
      /\ Shows(e)

Preview ==
  /\ MayShow
  /\ ShowArtifact("preview")
  /\ UNCHANGED <<chat, asked, line, agent, staged, sent>>

\* What the agent says is shown and saved, or held back until the turn ends.
Say ==
  /\ MayShow
  /\ LET n == turn.shown + 1
         e == Entry(turn.of, "text", n)
     IN  IF turn.hide
           THEN /\ turn' = [turn EXCEPT !.shown = n, !.text = n]
                /\ UNCHANGED <<record, page, faults>>
           ELSE /\ turn' = [turn EXCEPT !.shown = n]
                /\ Save(e)
                /\ Shows(e)
  /\ UNCHANGED <<chat, asked, line, agent, staged, sent>>

\* Mutant of Consume: the document stays for the next call.
Peek == UNCHANGED staged

\* consume: whatever becomes of the upload, the document is gone.
Consume == staged' = 0

\* upload_paperless_document: UPS takes the document and says so, refuses it, or
\* takes it and its answer is lost.
UploadToUps ==
  /\ MayShow
  /\ staged # 0
  /\ Consume
  /\ \/ sent' = Append(sent, staged) /\ ShowArtifact("document")
     \/ /\ sent' \in {sent, Append(sent, staged)}
        /\ turn' = [turn EXCEPT !.shown = @ + 1]
        /\ UNCHANGED <<record, page, faults>>
  /\ UNCHANGED <<chat, asked, line, agent>>

\* The last text held back is shown unless the turn showed an artifact.
TurnEnds ==
  /\ turn.of # 0
  /\ turn' = NoTurn
  /\ IF turn.text # 0 /\ turn.saved = {}
       THEN LET e == Entry(turn.of, "text", turn.text) IN Save(e) /\ Shows(e)
       ELSE UNCHANGED <<record, page, faults>>
  /\ UNCHANGED <<chat, asked, line, agent, staged, sent>>

\* DELETE marks the row first; the tasks are cancelled after it, one await later.
SoftDelete ==
  /\ chat.active
  /\ chat' = [chat EXCEPT !.active = FALSE]
  /\ UNCHANGED <<record, asked, line, turn, page, agent, staged, sent, faults>>

CancelTasks ==
  /\ ~chat.active
  /\ line # <<>> \/ turn # NoTurn \/ agent.on
  /\ line' = <<>>
  /\ turn' = NoTurn
  /\ agent' = NoAgent
  /\ UNCHANGED <<chat, record, asked, page, staged, sent, faults>>

\* The server is restarted: all but the database is gone.
Restart ==
  /\ Fault
  /\ line' = <<>>
  /\ turn' = NoTurn
  /\ agent' = NoAgent
  /\ staged' = 0
  /\ UNCHANGED <<chat, record, asked, page, sent>>

Next ==
  \/ SendMessage \/ UploadDocument \/ Rename \/ SaveArtifact
  \/ TurnStarts \/ Preview \/ Say \/ UploadToUps \/ TurnEnds
  \/ SoftDelete \/ CancelTasks \/ Restart

-----------------------------------------------------------------------------
Answer(e) == e.kind \notin {"question", "completion"}

\* Shown before in the turn, an artifact of a kind is not saved again
\* (_persisted_events).
Repeated(k) ==
  /\ page[k].kind \in Artifacts
  /\ \E j \in 1..(k - 1) : page[j].of = page[k].of /\ page[j].kind = page[k].kind

\* With no save failed, the record replays what the page was shown, each once and in
\* its order: all but the second artifact of a kind in a turn.
ReplayIsThePage ==
  faults = 0 =>
    /\ {record[i] : i \in {n \in DOMAIN record : Answer(record[n])}}
         = {page[k] : k \in {n \in DOMAIN page : ~Repeated(n)}}
    /\ \A i, j \in DOMAIN record, k, l \in DOMAIN page :
         record[i] = page[k] /\ record[j] = page[l] => (i < j <=> k < l)

\* The record answers the messages in the order they were sent, whatever tasks
\* wait, fail and are cancelled.
AnswersInOrder ==
  \A i, j \in DOMAIN record :
    i < j /\ Answer(record[i]) /\ Answer(record[j]) => record[i].of =< record[j].of

\* A title a user chose stays, and one the server made is of the first message.
TitleStays ==
  /\ chat.renamed => chat.title = Chosen
  /\ chat.title \in 1..MaxMessages /\ faults = 0 =>
       \A i \in DOMAIN record : record[i].kind = "question" => chat.title =< record[i].of

\* However often the agent calls the tool, a document goes to UPS once.
DocumentSentOnce == IsInjective(sent)

\* An agent built anew is told the end of the conversation it resumes.
ResumesWithRecent ==
  agent.on => agent.told = SubSeq(record, IF agent.at > Resume THEN agent.at - Resume + 1 ELSE 1,
                                  agent.at)
=============================================================================
