--------------------------- MODULE AgentSessions ---------------------------
(***************************************************************************)
(* One conversation of the web API.  The manager keeps its session object, *)
(* which owns an agent and a lock; each message is a task of its own that  *)
(* waits for the lock, makes the agent fit the data source, streams the    *)
(* reply into the conversation's event queue and leaves.  DELETE, an       *)
(* upload whose body is still arriving, the reaper of idle sessions, the   *)
(* prewarm task and a restart interleave with them at every await.         *)
(*                                                                         *)
(* Session objects are numbered as they are made, and so are agents: an    *)
(* object that left the manager may still be in use by a task.             *)
(***************************************************************************)
EXTENDS Naturals, Sequences, FiniteSets

CONSTANTS
  Sources,      \* what the data source may be: the agent is built for one
  None,         \* none is connected
  MaxMessages,  \* bounds: messages (uploads among them), events of a reply,
  MaxEvents,    \*   how many of a change of source, a reap and a restart happen
  MaxTurns

ASSUME SessionAssumption ==
  /\ None \notin Sources
  /\ {MaxMessages, MaxEvents, MaxTurns} \subseteq Nat

Prewarm == 0                     \* the prewarm task
Tasks   == 0 .. MaxMessages      \* and one task per message
Ended   == {"answered", "cancelled", "lost"}

VARIABLES
  source,   \* the data source of the process
  db,       \* the row of chat_sessions: "absent", "active" or "deleted"
  objs,     \* the session objects made so far
  manager,  \* _sessions: the object registered, or 0
  running,  \* the agents started and not stopped
  made,     \* agents made so far
  task,     \* the tasks
  sent,     \* messages accepted so far
  log,      \* what went into the conversation's event queue
  deleter,  \* DELETE: where it is
  upload,   \* an upload: "idle" or "reading"
  reaper,   \* the reaper: where it is, and the object it stops
  spent,    \* the turns that happened: each happens once at most
  odd       \* history: an upload outlived a DELETE, the reaper met a busy session

vars == <<source, db, objs, manager, running, made, task, sent, log, deleter,
          upload, reaper, spent, odd>>

NewObject == [agent |-> 0, fits |-> None, terminating |-> FALSE]

\* A task: the object it belongs to, the one whose lock it holds or waits for (0
\* when it does neither), who was in line for that lock before it, the source its
\* agent is made for, and the events it has streamed.
NoTask == [pc |-> "none", owner |-> 0, obj |-> 0, ahead |-> {}, fits |-> None, events |-> 0]
Over(how) == [NoTask EXCEPT !.pc = how]

Init ==
  /\ source = None
  /\ db = "absent"
  /\ objs = <<>>
  /\ manager = 0
  /\ running = {}
  /\ made = 0
  /\ task = [t \in Tasks |-> NoTask]
  /\ sent = 0
  /\ log = <<>>
  /\ deleter = "idle"
  /\ upload = "idle"
  /\ reaper = [pc |-> "idle", obj |-> 0]
  /\ spent = {}
  /\ odd = {}

MayTurn(kind) == kind \notin spent /\ Cardinality(spent) < MaxTurns

Busy(g) == \E t \in Tasks : task[t].pc \notin Ended \cup {"none"}
                            /\ g \in {task[t].owner, task[t].obj}

\* get_or_create_session: the objects and the manager when a caller needs one.
Registered == IF manager # 0 THEN manager ELSE Len(objs) + 1
Objects    == IF manager # 0 THEN objs ELSE Append(objs, NewObject)

\* _resolve_session finds the object, or makes it for an active row.
Reachable ==
  \/ manager # 0 /\ ~objs[manager].terminating
  \/ manager = 0 /\ db = "active"

-----------------------------------------------------------------------------
\* POST /conversations: a prewarm task when a source is connected.
Create ==
  /\ db = "absent"
  /\ db' = "active"
  /\ objs' = Append(objs, NewObject)
  /\ manager' = 1
  /\ \/ task' = [task EXCEPT ![Prewarm] = [@ EXCEPT !.pc = "ready", !.owner = 1]]
     \/ UNCHANGED task
  /\ UNCHANGED <<source, running, made, sent, log, deleter, upload, reaper, spent, odd>>

\* _schedule_agent_message: the task belongs to the object registered now.
Schedule ==
  /\ sent' = sent + 1
  /\ objs' = Objects
  /\ manager' = Registered
  /\ task' = [task EXCEPT ![sent + 1] = [NoTask EXCEPT !.pc = "ready", !.owner = Registered]]

\* POST .../messages: no await between finding the session and scheduling.
SendMessage ==
  /\ sent < IF upload = "reading" THEN MaxMessages - 1 ELSE MaxMessages
  /\ Reachable
  /\ Schedule
  /\ UNCHANGED <<source, db, running, made, log, deleter, upload, reaper, spent, odd>>

\* POST .../upload-document finds the session, then waits for the body.
UploadStarts ==
  /\ upload = "idle"
  /\ sent < MaxMessages
  /\ Reachable
  /\ upload' = "reading"
  /\ objs' = Objects
  /\ manager' = Registered
  /\ UNCHANGED <<source, db, running, made, task, sent, log, deleter, reaper, spent, odd>>

\* The body is read: the session is looked up again, or made again.
UploadEnds ==
  /\ upload = "reading"
  /\ upload' = "idle"
  /\ Schedule
  /\ odd' = IF db = "deleted" THEN odd \cup {"upload"} ELSE odd
  /\ UNCHANGED <<source, db, running, made, log, deleter, reaper, spent>>

ChangeSource(s) ==
  /\ s # source
  /\ MayTurn("change")
  /\ source' = s
  /\ spent' = spent \cup {"change"}
  /\ UNCHANGED <<db, objs, manager, running, made, task, sent, log, deleter, upload,
                 reaper, odd>>

-----------------------------------------------------------------------------
Put(t, kinds) == log' = log \o [i \in DOMAIN kinds |-> [task |-> t, kind |-> kinds[i]]]

\* Mutant of Line: the task that holds the lock is not counted.
LineWaiting(g) == {t \in Tasks : task[t].obj = g /\ task[t].pc = "waiting"}

\* The tasks that hold an object's lock or wait for it.
Line(g) == {t \in Tasks : task[t].obj = g}

\* The task starts: it looks the session up by its id, once more, and queues
\* for its lock, unless the session is terminating.
TaskStarts(t) ==
  /\ task[t].pc = "ready"
  /\ manager' = Registered
  /\ IF Objects[Registered].terminating /\ t # Prewarm
       THEN /\ objs' = Objects
            /\ task' = [task EXCEPT ![t] = Over("answered")]
            /\ Put(t, <<"done">>)
       ELSE /\ objs' = Objects
            /\ task' = [task EXCEPT ![t].pc = "waiting", ![t].obj = Registered,
                                    ![t].ahead = Line(Registered)]
            /\ UNCHANGED log
  /\ odd' = IF reaper.pc # "idle" THEN odd \cup {"reaper"} ELSE odd
  /\ UNCHANGED <<source, db, running, made, sent, deleter, upload, reaper, spent>>

\* Mutant of HoldsLock: the session has no lock.
NoLock(t) == TRUE

\* asyncio.Lock serves its waiters in order: all who came before have left.
HoldsLock(t) == task[t].ahead \cap Line(task[t].obj) = {}

\* The source is read; an agent that fits is kept, one that does not is stopped.
FitAgent(t) ==
  LET g == task[t].obj
      a == objs[g].agent
  IN  /\ task[t].pc = "waiting"
      /\ HoldsLock(t)
      /\ \/ /\ a # 0 /\ objs[g].fits = source
            /\ task' = [task EXCEPT ![t].pc = "streaming"]
            /\ UNCHANGED <<objs, running>>
         \/ /\ ~(a # 0 /\ objs[g].fits = source)
            /\ running' = running \ {a}
            /\ task' = [task EXCEPT ![t].pc = "starting", ![t].fits = source]
            /\ UNCHANGED objs
      /\ UNCHANGED <<source, db, manager, made, sent, log, deleter, upload, reaper,
                     spent, odd>>

\* agent.start() succeeds, and the session gets the agent.
AgentStarts(t) ==
  LET g == task[t].obj
  IN  /\ task[t].pc = "starting"
      /\ made' = made + 1
      /\ running' = running \cup {made + 1}
      /\ objs' = [objs EXCEPT ![g].agent = made + 1, ![g].fits = task[t].fits]
      /\ task' = [task EXCEPT ![t].pc = "streaming"]
      /\ UNCHANGED <<source, db, manager, sent, log, deleter, upload, reaper, spent, odd>>

\* A reply carries an event; the text of one goes into the session's history,
\* which registers the session again when it is gone.
Emit(t) ==
  /\ task[t].pc = "streaming"
  /\ t # Prewarm
  /\ task[t].events < MaxEvents
  /\ objs[task[t].obj].agent \in running
  /\ Put(t, <<"event">>)
  /\ task' = [task EXCEPT ![t].events = @ + 1]
  /\ objs' = Objects
  /\ manager' = Registered
  /\ UNCHANGED <<source, db, running, made, sent, deleter, upload, reaper, spent, odd>>

\* Mutant of Finish: an error leaves the lock taken.
FinishHolding(t, kinds) ==
  /\ task' = [task EXCEPT ![t] = IF kinds = <<"error", "done">>
                                 THEN [Over("answered") EXCEPT !.obj = task[t].obj]
                                 ELSE Over("answered")]
  /\ IF t = Prewarm THEN UNCHANGED log ELSE Put(t, kinds)

\* The lock is given back and "done" follows at once.
Finish(t, kinds) ==
  /\ task' = [task EXCEPT ![t] = Over("answered")]
  /\ IF t = Prewarm THEN UNCHANGED log ELSE Put(t, kinds)

\* The reply ends, or an exception ends it: the source could not be read, the
\* start failed, the agent is gone or was never started, the stream broke.
Reply(t) ==
  /\ \/ task[t].pc = "streaming" /\ (t = Prewarm \/ objs[task[t].obj].agent \in running)
        /\ Finish(t, <<"done">>)
     \/ task[t].pc = "waiting" /\ HoldsLock(t) /\ Finish(t, <<"error", "done">>)
     \/ task[t].pc \in {"starting", "streaming"} /\ Finish(t, <<"error", "done">>)
  /\ UNCHANGED <<source, db, objs, manager, running, made, sent, deleter, upload,
                 reaper, spent, odd>>

TaskStep(t) ==
  TaskStarts(t) \/ FitAgent(t) \/ AgentStarts(t) \/ Emit(t) \/ Reply(t)

-----------------------------------------------------------------------------
\* Cancelling takes a task out at its await: it gives back the lock it holds or
\* leaves the line, and nothing follows, not even "done".
Cancelled(ts) == task' = [t \in Tasks |-> IF t \in ts THEN Over("cancelled") ELSE task[t]]

Live(g) == {t \in Tasks : task[t].owner = g /\ task[t].pc \notin Ended \cup {"none"}}

\* DELETE: the session is marked and its row soft-deleted.
DeleteStarts ==
  /\ deleter = "idle"
  /\ db = "active"
  /\ db' = "deleted"
  /\ objs' = IF manager # 0 THEN [objs EXCEPT ![manager].terminating = TRUE] ELSE objs
  /\ deleter' = "prewarm"
  /\ UNCHANGED <<source, manager, running, made, task, sent, log, upload, reaper, spent, odd>>

\* Mutant of Doomed: tasks that have not started yet are missed.
DoomedStarted(prewarm) ==
  {t \in Live(manager) : (t = Prewarm) = prewarm /\ task[t].pc # "ready"}

\* The tasks a cancellation takes: those of the object registered now.
Doomed(prewarm) == {t \in Live(manager) : (t = Prewarm) = prewarm}

\* cancel_session_prewarm_task, then cancel_session_message_tasks.
DeleteCancels ==
  /\ \/ deleter = "prewarm" /\ deleter' = "messages" /\ Cancelled(Doomed(TRUE))
     \/ deleter = "messages" /\ deleter' = "stop" /\ Cancelled(Doomed(FALSE))
  /\ UNCHANGED <<source, db, objs, manager, running, made, sent, log, upload, reaper, spent,
                 odd>>

\* Mutant of WithoutAgent: the object forgets an agent that is still running.
ForgetsAgent(g) ==
  /\ objs' = [objs EXCEPT ![g].agent = 0, ![g].fits = None]
  /\ UNCHANGED running

\* stop_session_agent: the agent stops, then the object forgets its agent.
WithoutAgent(g) ==
  /\ objs' = [objs EXCEPT ![g].agent = 0, ![g].fits = None]
  /\ running' = running \ {objs[g].agent}

DeleteStops ==
  /\ deleter = "stop"
  /\ deleter' = "remove"
  /\ IF manager = 0 THEN UNCHANGED <<objs, running>> ELSE WithoutAgent(manager)
  /\ UNCHANGED <<source, db, manager, made, task, sent, log, upload, reaper, spent, odd>>

\* remove_session; the event queue goes with it.
DeleteRemoves ==
  /\ deleter = "remove"
  /\ deleter' = "idle"
  /\ manager' = 0
  /\ log' = <<>>
  /\ UNCHANGED <<source, db, objs, running, made, task, sent, upload, reaper, spent, odd>>

DeleteStep == DeleteCancels \/ DeleteStops \/ DeleteRemoves

-----------------------------------------------------------------------------
\* reap_idle_sessions lists the sessions that are idle, then stops one after the
\* other: a message may have come since.
ReapPicks ==
  /\ reaper.pc = "idle"
  /\ MayTurn("reap")
  /\ manager # 0 /\ ~objs[manager].terminating /\ ~Busy(manager)
  /\ reaper' = [pc |-> "stop", obj |-> manager]
  /\ spent' = spent \cup {"reap"}
  /\ UNCHANGED <<source, db, objs, manager, running, made, task, sent, log, deleter,
                 upload, odd>>

Met == IF Busy(reaper.obj) \/ deleter # "idle" THEN odd \cup {"reaper"} ELSE odd

ReapStops ==
  /\ reaper.pc = "stop"
  /\ reaper' = [reaper EXCEPT !.pc = "remove"]
  /\ IF manager = reaper.obj THEN WithoutAgent(manager) ELSE UNCHANGED <<objs, running>>
  /\ odd' = Met
  /\ UNCHANGED <<source, db, manager, made, task, sent, log, deleter, upload, spent>>

ReapRemoves ==
  /\ reaper.pc = "remove"
  /\ reaper' = [pc |-> "idle", obj |-> 0]
  /\ manager' = 0
  /\ odd' = Met
  /\ UNCHANGED <<source, db, objs, running, made, task, sent, log, deleter, upload, spent>>

\* The process restarts: only the rows of the database survive.
Restart ==
  /\ MayTurn("restart")
  /\ spent' = spent \cup {"restart"}
  /\ objs' = <<>>
  /\ manager' = 0
  /\ running' = {}
  /\ made' = 0
  /\ task' = [t \in Tasks |-> IF task[t].pc = "none" THEN NoTask
                              ELSE Over("lost")]
  /\ log' = <<>>
  /\ deleter' = "idle"
  /\ upload' = "idle"
  /\ reaper' = [pc |-> "idle", obj |-> 0]
  /\ odd' = {}
  /\ source' = None
  /\ UNCHANGED <<db, sent>>

Next ==
  \/ Create
  \/ SendMessage
  \/ UploadStarts
  \/ UploadEnds
  \/ \E s \in Sources : ChangeSource(s)
  \/ \E t \in Tasks : TaskStep(t)
  \/ DeleteStarts
  \/ DeleteStep
  \/ ReapPicks
  \/ ReapStops
  \/ ReapRemoves
  \/ Restart

Spec     == Init /\ [][Next]_vars
FairSpec == Spec /\ \A t \in Tasks : WF_vars(TaskStep(t))

-----------------------------------------------------------------------------
ObjectTypes == [agent : 0 .. made, fits : Sources \cup {None}, terminating : BOOLEAN]

TaskTypes ==
  [pc : {"none", "ready", "waiting", "starting", "streaming"} \cup Ended,
   owner : 0 .. Len(objs), obj : 0 .. Len(objs), ahead : SUBSET Tasks,
   fits : Sources \cup {None}, events : 0 .. MaxEvents]

TypeOK ==
  /\ source \in Sources \cup {None}
  /\ db \in {"absent", "active", "deleted"}
  /\ objs \in Seq(ObjectTypes)
  /\ manager \in 0 .. Len(objs)
  /\ made \in Nat
  /\ running \in SUBSET (1 .. made)
  /\ task \in [Tasks -> TaskTypes]
  /\ sent \in 0 .. MaxMessages
  /\ log \in Seq([task : Tasks, kind : {"event", "error", "done"}])
  /\ deleter \in {"idle", "prewarm", "messages", "stop", "remove"}
  /\ upload \in {"idle", "reading"}
  /\ reaper \in [pc : {"idle", "stop", "remove"}, obj : 0 .. Len(objs)]
  /\ spent \in SUBSET {"change", "reap", "restart"}
  /\ odd \in SUBSET {"upload", "reaper"}

IsLive(t) == task[t].pc \notin Ended \cup {"none"}

\* Before the conversation is made there is nothing of it.
NothingYet ==
  /\ objs = <<>> /\ manager = 0 /\ sent = 0
  /\ \A t \in Tasks : task[t].pc = "none"
  /\ deleter = "idle" /\ upload = "idle" /\ reaper.pc = "idle"

\* The lock of a session: a task is in a line from its start to its end, of two in one
\* line one came first, and a task past waiting holds the lock.
LockInv ==
  /\ \A t \in Tasks :
       /\ task[t].obj # 0 <=> task[t].pc \in {"waiting", "starting", "streaming"}
       /\ task[t].pc \in {"starting", "streaming"} => HoldsLock(t)
       /\ IsLive(t) => task[t].owner # 0
       /\ t > sent => task[t].pc = "none"
  /\ \A t, u \in Tasks :
       t # u /\ task[t].obj = task[u].obj /\ task[t].obj # 0 =>
         t \in task[u].ahead \/ u \in task[t].ahead
  /\ \A u \in Tasks : \A t \in task[u].ahead : task[t].pc \notin {"none", "ready"}
  /\ upload = "reading" => sent < MaxMessages
  /\ db = "absent" => NothingYet
  /\ reaper.pc # "idle" => reaper.obj # 0

\* A conversation nothing odd happened to has one session object in use: every task
\* belongs to it and only its agent runs, none while a new one is being started.
OneSession ==
  /\ \A t \in Tasks :
       /\ IsLive(t) => task[t].owner = manager
       /\ task[t].obj # 0 => task[t].obj = manager /\ reaper.pc = "idle"
       /\ task[t].pc = "starting" => running = {}
  /\ running \subseteq IF manager = 0 THEN {} ELSE {objs[manager].agent}
  /\ reaper.pc = "remove" => running = {}
  /\ reaper.pc # "idle" => manager = reaper.obj \/ (manager = 0 /\ db = "deleted")

\* How far a DELETE is: what it has cancelled does not come back.
DeleteInv ==
  /\ deleter # "idle" => db = "deleted"
  /\ manager # 0 => (objs[manager].terminating <=> deleter # "idle")
  /\ db = "deleted" /\ deleter = "idle" => manager = 0
  /\ deleter \notin {"idle", "prewarm"} => ~IsLive(Prewarm)
  /\ deleter \in {"stop", "remove"} => \A t \in Tasks : ~IsLive(t)
  /\ deleter = "remove" => running = {}

\* The event queue: a task writes to it while it streams and at its end, and whoever
\* wrote before another task has ended.
LogInv ==
  /\ \A i \in DOMAIN log :
       /\ task[log[i].task].pc \in {"streaming"} \cup Ended
       /\ log[i].kind = "done" => task[log[i].task].pc \in Ended
  /\ \A i, j \in DOMAIN log :
       i < j =>
         /\ log[i].task # log[j].task => task[log[i].task].pc \in Ended
         /\ log[i].kind = "done" => log[i].task # log[j].task

\* The state has its types; no two tasks of a session are past its lock; and until an
\* upload outlives a DELETE or the reaper meets a busy session, one session object
\* has it all.
SessionInv ==
  /\ TypeOK
  /\ LockInv
  /\ odd = {} => OneSession /\ DeleteInv /\ (deleter = "idle" => LogInv)

\* The replies of a conversation reach its queue one after the other, each
\* whole and ended by one "done": the lock of the session is the only thing
\* that keeps two messages apart.  (While a DELETE runs, a message that finds the
\* session terminating puts its "done" into another one's reply.)
RepliesDoNotInterleave ==
  odd = {} /\ deleter = "idle" =>
    \A i, k \in DOMAIN log : i < k /\ log[i].task = log[k].task =>
      \A j \in i .. k - 1 : log[j].task = log[i].task /\ log[j].kind # "done"

\* A deleted conversation stays deleted: no session, no agent and no task of it
\* is left, unless an upload was still arriving or the reaper was at work.
DeletedStaysGone ==
  db = "deleted" /\ deleter = "idle" /\ upload = "idle" /\ odd = {} =>
    /\ manager = 0
    /\ running = {}
    /\ \A t \in Tasks : task[t].pc \in Ended \cup {"none"}

\* No agent is left running that the registered session does not own, so none
\* outlives the means to stop it.
NoAgentLeaks ==
  odd = {} => running \subseteq (IF manager = 0 THEN {} ELSE {objs[manager].agent})

\* Whatever races a DELETE, nothing of a conversation outlives it, and no agent
\* outlives what could stop it.
NothingLeaks == DeletedStaysGone /\ NoAgentLeaks

\* Every message accepted is answered with "done", cancelled by a DELETE or lost
\* with the process, whatever fails on the way.
MessagesEnd ==
  \A t \in Tasks : task[t].pc = "ready" ~> task[t].pc \in Ended
=============================================================================
