------------------------ MODULE AgentSessionsProofs ------------------------
(* What AgentSessions keeps for every number of messages, events, sources  *)
(* and turns: its types, the lock of a session, and, until an upload       *)
(* outlives a DELETE or the reaper meets a busy session, that one session  *)
(* object has every task and the only agent, that replies stay apart, and  *)
(* that a deleted conversation stays gone.                                 *)
EXTENDS AgentSessions, SequenceTheorems, TLAPS

-----------------------------------------------------------------------------
(* Session objects and the event queue.                                    *)

BasicInv == TypeOK /\ LockInv

LEMMA NewObjectType == TypeOK => NewObject \in ObjectTypes
BY SessionAssumption DEF TypeOK, NewObject, ObjectTypes, SessionAssumption

LEMMA TaskNumbers == MaxMessages \in Nat /\ MaxEvents \in Nat /\ MaxTurns \in Nat /\ Prewarm \in Tasks
BY SessionAssumption DEF SessionAssumption, Tasks, Prewarm

LEMMA NoTaskType == TypeOK => NoTask \in TaskTypes /\ \A how \in Ended : Over(how) \in TaskTypes
<1> SUFFICES ASSUME TypeOK PROVE NoTask \in TaskTypes /\ \A how \in Ended : Over(how) \in TaskTypes
  OBVIOUS
<1>1. 0 \in 0 .. Len(objs) /\ 0 \in 0 .. MaxEvents
  BY TaskNumbers, LenProperties DEF TypeOK
<1>2. NoTask \in TaskTypes
  BY <1>1 DEF NoTask, TaskTypes
<1> QED
  BY <1>1, <1>2 DEF NoTask, TaskTypes, Over

\* Registering the session keeps every object there is and adds one at most.
LEMMA ObjectsGrow ==
  ASSUME TypeOK
  PROVE  /\ Len(objs) \in Nat
         /\ Objects \in Seq(ObjectTypes)
         /\ Len(Objects) \in Len(objs) .. Len(objs) + 1
         /\ \A g \in 1 .. Len(objs) : Objects[g] = objs[g]
         /\ Registered \in 1 .. Len(Objects)
         /\ Registered # 0
         /\ manager # 0 => Objects = objs /\ Registered = manager
         /\ manager = 0 => /\ Registered = Len(objs) + 1
                           /\ Objects[Registered] = NewObject
<1>1. objs \in Seq(ObjectTypes) /\ manager \in 0 .. Len(objs) /\ Len(objs) \in Nat
  BY LenProperties DEF TypeOK
<1>2. NewObject \in ObjectTypes
  BY NewObjectType
<1>3. CASE manager = 0
  <2>1. Objects = Append(objs, NewObject) /\ Registered = Len(objs) + 1
    BY <1>3 DEF Objects, Registered
  <2>2. /\ Append(objs, NewObject) \in Seq(ObjectTypes)
        /\ Len(Append(objs, NewObject)) = Len(objs) + 1
        /\ \A g \in 1 .. Len(objs) : Append(objs, NewObject)[g] = objs[g]
        /\ Append(objs, NewObject)[Len(objs) + 1] = NewObject
    BY <1>1, <1>2, AppendProperties
  <2> QED
    BY <1>1, <1>3, <2>1, <2>2
<1>4. CASE manager # 0
  BY <1>1, <1>4 DEF Objects, Registered
<1> QED
  BY <1>3, <1>4

\* With more objects the tasks keep their types.
LEMMA TasksGrow ==
  ASSUME TypeOK, Len(objs') \in Nat, Len(objs') >= Len(objs)
  PROVE  TaskTypes \subseteq TaskTypes'
BY SMTT(30), LenProperties DEF TypeOK, TaskTypes, Tasks

\* What a task puts into the event queue is at the end of it, in order.
LEMMA PutAppends ==
  ASSUME TypeOK, NEW t \in Tasks, NEW kinds \in Seq({"event", "error", "done"}), Put(t, kinds)
  PROVE  /\ log' \in Seq([task : Tasks, kind : {"event", "error", "done"}])
         /\ Len(log) \in Nat /\ Len(kinds) \in Nat
         /\ Len(log') = Len(log) + Len(kinds)
         /\ DOMAIN log = 1 .. Len(log) /\ DOMAIN log' = 1 .. Len(log')
         /\ \A i \in 1 .. Len(log) : log'[i] = log[i]
         /\ \A i \in Len(log) + 1 .. Len(log') :
              log'[i].task = t /\ log'[i].kind = kinds[i - Len(log)]
<1> DEFINE K == {"event", "error", "done"}
           E == [task : Tasks, kind : K]
           new == [i \in DOMAIN kinds |-> [task |-> t, kind |-> kinds[i]]]
<1>1. Len(kinds) \in Nat /\ DOMAIN kinds = 1 .. Len(kinds) /\ kinds \in [1 .. Len(kinds) -> K]
  BY LenProperties
<1>2. new \in [1 .. Len(kinds) -> E]
  BY <1>1
<1>3. new \in Seq(E)
  <2> HIDE DEF new, E
  <2> QED
    BY <1>1, <1>2, SeqDef
<1>4. Len(new) = Len(kinds)
  <2>1. DOMAIN new = 1 .. Len(kinds)
    BY <1>1
  <2>2. DOMAIN new = 1 .. Len(new) /\ Len(new) \in Nat
    <3> HIDE DEF new, E
    <3> QED
      BY <1>3, LenProperties
  <2> HIDE DEF new
  <2> QED
    BY <1>1, <2>1, <2>2
<1>5. log \in Seq(E) /\ log' = log \o new
  BY DEF TypeOK, Put
<1>6. /\ log \o new \in Seq(E)
      /\ Len(log \o new) = Len(log) + Len(new)
      /\ \A i \in 1 .. Len(log) + Len(new) :
           (log \o new)[i] = IF i <= Len(log) THEN log[i] ELSE new[i - Len(log)]
  <2> HIDE DEF new, E
  <2> QED
    BY <1>3, <1>5, ConcatProperties
<1>7. Len(log) \in Nat /\ DOMAIN log = 1 .. Len(log) /\ DOMAIN log' = 1 .. Len(log')
  <2> HIDE DEF new, E
  <2> QED
    BY <1>5, <1>6, LenProperties
<1>8. \A i \in 1 .. Len(kinds) : new[i].task = t /\ new[i].kind = kinds[i]
  BY <1>1
<1> HIDE DEF new, E
<1>9. \A i \in Len(log) + 1 .. Len(log') : log'[i] = new[i - Len(log)] /\ i - Len(log) \in 1 .. Len(kinds)
  BY <1>1, <1>4, <1>5, <1>6, <1>7
<1>10. \A i \in 1 .. Len(log) : log'[i] = log[i]
  BY <1>1, <1>4, <1>5, <1>6, <1>7
<1> QED
  BY <1>1, <1>4, <1>5, <1>6, <1>7, <1>8, <1>9, <1>10 DEF E

-----------------------------------------------------------------------------
(* Types and the lock.                                                     *)

LEMMA InitBasic == Init => BasicInv
BY SessionAssumption, EmptySeq, TaskNumbers
DEF Init, BasicInv, TypeOK, LockInv, NoTask, ObjectTypes, TaskTypes, NothingYet, IsLive,
    SessionAssumption, Ended

LEMMA CreateBasic ==
  ASSUME BasicInv, Create
  PROVE  BasicInv'
<1>1. /\ Append(objs, NewObject) \in Seq(ObjectTypes)
      /\ Len(Append(objs, NewObject)) = Len(objs) + 1
      /\ Len(objs) \in Nat
  BY NewObjectType, AppendProperties, LenProperties DEF BasicInv, TypeOK
<1>2. objs' = Append(objs, NewObject) /\ made' = made
  BY DEF Create
<1>3. TaskTypes \subseteq TaskTypes' /\ ObjectTypes' = ObjectTypes
  BY <1>1, <1>2, TasksGrow DEF BasicInv, ObjectTypes
<1>4. Prewarm \in Tasks /\ task \in [Tasks -> TaskTypes] /\ 1 \in 0 .. Len(objs')
  BY <1>1, <1>2, TaskNumbers DEF BasicInv, TypeOK
<1>5. task' \in [Tasks -> TaskTypes']
  <2>1. [task[Prewarm] EXCEPT !.pc = "ready", !.owner = 1] \in TaskTypes'
    <3>1. task[Prewarm] \in TaskTypes'
      BY <1>3, <1>4
    <3> QED
      BY <1>4, <3>1 DEF TaskTypes
  <2> QED
    BY <1>3, <1>4, <2>1 DEF Create
<1>6. TypeOK'
  BY <1>1, <1>2, <1>3, <1>4, <1>5 DEF BasicInv, TypeOK, Create
<1>7. LockInv'
  <2>1. \A t \in Tasks : task'[t].obj = task[t].obj /\ task[t].pc = "none"
                         /\ task'[t].pc \in {"none", "ready"}
                         /\ (task'[t].pc = "ready" => t = Prewarm /\ task'[t].owner = 1)
                         /\ task'[t].ahead = task[t].ahead
    <3>1. \A t \in Tasks : task[t].pc = "none"
      BY DEF Create, BasicInv, LockInv, NothingYet
    <3>2. \A t \in Tasks : task[t] \in TaskTypes
      BY <1>4
    <3>3. CASE task' = task
      BY <3>1, <3>3
    <3>4. CASE task' = [task EXCEPT ![Prewarm] = [@ EXCEPT !.pc = "ready", !.owner = 1]]
      BY <1>4, <3>1, <3>2, <3>4 DEF TaskTypes
    <3> QED
      BY <3>3, <3>4 DEF Create
  <2>2. \A u \in Tasks : task[u].ahead = {}
    <3>1. \A u \in Tasks : task[u].ahead \in SUBSET Tasks
      BY <1>4 DEF TaskTypes
    <3> QED
      BY <2>1, <3>1 DEF BasicInv, LockInv
  <2> QED
    BY <2>1, <2>2
    DEF BasicInv, TypeOK, LockInv, NothingYet, IsLive, HoldsLock, Line, Create, Prewarm, Ended
<1> QED
  BY <1>6, <1>7 DEF BasicInv

LEMMA ScheduleBasic ==
  ASSUME BasicInv, Schedule, sent < MaxMessages, db # "absent",
         UNCHANGED <<source, db, running, made, log, deleter, reaper, spent>>,
         odd' \in SUBSET {"upload", "reaper"}, upload' \in {"idle", "reading"},
         upload' = "reading" => upload = "reading" /\ sent < MaxMessages - 1
  PROVE  BasicInv'
<1> DEFINE t == sent + 1
<1>1. /\ Len(objs) \in Nat /\ Len(objs') \in Len(objs) .. Len(objs) + 1
      /\ objs' \in Seq(ObjectTypes)
      /\ Registered \in 1 .. Len(objs')
      /\ manager' = Registered
  BY ObjectsGrow DEF Schedule, BasicInv
<1>2. TaskTypes \subseteq TaskTypes' /\ ObjectTypes' = ObjectTypes
  BY <1>1, TasksGrow DEF BasicInv, ObjectTypes
<1>3. t \in Tasks /\ t \in 0 .. MaxMessages /\ sent \in Nat
  BY TaskNumbers DEF BasicInv, TypeOK, Tasks
<1>4. [NoTask EXCEPT !.pc = "ready", !.owner = Registered] \in TaskTypes'
  <2>1. NoTask \in TaskTypes' /\ Registered \in 0 .. Len(objs')
    BY <1>1, <1>2, NoTaskType DEF BasicInv
  <2> QED
    BY <2>1 DEF TaskTypes
<1>5. TypeOK'
  BY <1>1, <1>2, <1>3, <1>4 DEF BasicInv, TypeOK, Schedule
<1>6. \A u \in Tasks : u > sent' => u > sent /\ u # t
  BY <1>3 DEF Schedule, Tasks
<1>7. task[t].pc = "none" /\ task[t].obj = 0
  <2>1. task[t].pc = "none"
    BY <1>3 DEF BasicInv, LockInv
  <2> QED
    BY <1>3, <2>1 DEF BasicInv, LockInv
<1>8. /\ task'[t] = [NoTask EXCEPT !.pc = "ready", !.owner = Registered]
      /\ \A u \in Tasks : u # t => task'[u] = task[u]
  BY <1>3 DEF Schedule, BasicInv, TypeOK
<1>9. /\ task'[t].obj = 0 /\ task'[t].pc = "ready" /\ task'[t].owner # 0
  BY <1>1, <1>8 DEF NoTask
<1>10. \A u \in Tasks : task'[u].obj = task[u].obj
  BY <1>7, <1>8, <1>9
<1>11. sent' < MaxMessages \/ upload' # "reading"
  BY <1>3, TaskNumbers DEF Schedule
<1>12. \A u \in Tasks : u # t => HoldsLock(u)' = HoldsLock(u)
  BY <1>8, <1>10 DEF HoldsLock, Line
<1>13. \A u \in Tasks :
        /\ task'[u].obj # 0 <=> task'[u].pc \in {"waiting", "starting", "streaming"}
        /\ task'[u].pc \in {"starting", "streaming"} => HoldsLock(u)'
        /\ IsLive(u)' => task'[u].owner # 0
        /\ u > sent' => task'[u].pc = "none"
  <2>1. ASSUME NEW u \in Tasks, u # t
        PROVE  task'[u] = task[u] /\ IsLive(u)' = IsLive(u)
    BY <1>8, <2>1 DEF IsLive
  <2> QED
    BY <1>6, <1>9, <1>12, <2>1 DEF BasicInv, LockInv
<1>14. \A u, v \in Tasks :
        u # v /\ task'[u].obj = task'[v].obj /\ task'[u].obj # 0 =>
          u \in task'[v].ahead \/ v \in task'[u].ahead
  BY <1>8, <1>9 DEF BasicInv, LockInv
<1>15. \A u \in Tasks : \A v \in task'[u].ahead : task'[v].pc \notin {"none", "ready"}
  <2>1. task'[t].ahead = {}
    BY <1>8 DEF NoTask
  <2>2. \A u \in Tasks : task[u].ahead \in SUBSET Tasks /\ t \notin task[u].ahead
    BY <1>7 DEF BasicInv, LockInv, TypeOK, TaskTypes
  <2> QED
    BY <1>8, <2>1, <2>2 DEF BasicInv, LockInv
<1>16. LockInv'
  BY <1>3, <1>11, <1>13, <1>14, <1>15 DEF LockInv, Schedule, BasicInv
<1> QED
  BY <1>5, <1>16 DEF BasicInv

LEMMA ReachableIsMade ==
  ASSUME BasicInv, Reachable
  PROVE  db # "absent"
BY DEF BasicInv, LockInv, NothingYet, Reachable

LEMMA UploadStartsBasic ==
  ASSUME BasicInv, UploadStarts
  PROVE  BasicInv'
<1>1. /\ Len(objs) \in Nat /\ Len(objs') \in Len(objs) .. Len(objs) + 1
      /\ objs' \in Seq(ObjectTypes)
      /\ manager' \in 1 .. Len(objs')
  BY ObjectsGrow DEF UploadStarts, BasicInv
<1>2. TaskTypes \subseteq TaskTypes' /\ ObjectTypes' = ObjectTypes
  BY <1>1, TasksGrow DEF BasicInv, ObjectTypes, UploadStarts
<1>3. TypeOK'
  BY <1>1, <1>2 DEF BasicInv, TypeOK, UploadStarts
<1> QED
  BY <1>3, ReachableIsMade DEF BasicInv, LockInv, IsLive, HoldsLock, Line, UploadStarts

LEMMA MessageBasic ==
  ASSUME BasicInv, SendMessage \/ UploadStarts \/ UploadEnds
  PROVE  BasicInv'
<1>1. CASE SendMessage
  <2>1. sent < MaxMessages /\ (upload = "reading" => sent < MaxMessages - 1)
    BY <1>1, TaskNumbers DEF SendMessage, BasicInv, TypeOK
  <2> QED
    BY <1>1, <2>1, ReachableIsMade, ScheduleBasic DEF SendMessage, BasicInv, TypeOK
<1>2. CASE UploadEnds
  <2>1. sent < MaxMessages /\ db # "absent"
    BY <1>2 DEF UploadEnds, BasicInv, LockInv, NothingYet
  <2> QED
    BY <1>2, <2>1, ScheduleBasic DEF UploadEnds, BasicInv, TypeOK
<1> QED
  BY <1>1, <1>2, UploadStartsBasic

\* The steps that leave the tasks and the line for a lock alone.
LEMMA NoTaskMoves ==
  ASSUME BasicInv, TypeOK', UNCHANGED <<task, sent, upload>>,
         reaper' = reaper \/ reaper'.obj # 0 \/ reaper'.pc = "idle",
         db' = "absent" => db = "absent" /\ UNCHANGED <<objs, manager, deleter, reaper>>
  PROVE  BasicInv'
BY DEF BasicInv, LockInv, IsLive, HoldsLock, Line, NothingYet

LEMMA TaskStartsBasic ==
  ASSUME BasicInv, NEW t \in Tasks, TaskStarts(t)
  PROVE  BasicInv'
<1>1. /\ Len(objs) \in Nat /\ Len(Objects) \in Len(objs) .. Len(objs) + 1
      /\ Objects \in Seq(ObjectTypes)
      /\ Registered \in 1 .. Len(Objects)
  BY ObjectsGrow DEF BasicInv
<1>2. objs' = Objects /\ manager' = Registered /\ made' = made
  BY DEF TaskStarts
<1>3. TaskTypes \subseteq TaskTypes' /\ ObjectTypes' = ObjectTypes
  BY <1>1, <1>2, TasksGrow DEF BasicInv, ObjectTypes
<1>4. task \in [Tasks -> TaskTypes'] /\ task[t].pc = "ready"
  BY <1>3 DEF BasicInv, TypeOK, TaskStarts
<1>5. PICK x \in TaskTypes' :
        /\ task' = [task EXCEPT ![t] = x]
        /\ \/ x = Over("answered")
           \/ x.pc = "waiting" /\ x.obj = Registered /\ x.ahead = Line(Registered)
              /\ x.owner = task[t].owner
  <2>1. Over("answered") \in TaskTypes'
    BY <1>3, NoTaskType DEF BasicInv, Ended
  <2>2. Line(Registered) \in SUBSET Tasks /\ Registered \in 0 .. Len(objs')
    BY <1>1, <1>2 DEF Line
  <2>3. task[t] \in TaskTypes'
    BY <1>4
  <2>4. [task[t] EXCEPT !.pc = "waiting", !.obj = Registered, !.ahead = Line(Registered)]
          \in TaskTypes'
    BY <2>2, <2>3 DEF TaskTypes
  <2>5. LET y == [task[t] EXCEPT !.pc = "waiting", !.obj = Registered, !.ahead = Line(Registered)]
        IN  /\ y.pc = "waiting" /\ y.obj = Registered /\ y.ahead = Line(Registered)
            /\ y.owner = task[t].owner
    BY <2>3 DEF TaskTypes
  <2>6. \/ task' = [task EXCEPT ![t] = Over("answered")]
        \/ task' = [task EXCEPT ![t] = [task[t] EXCEPT !.pc = "waiting", !.obj = Registered,
                                                       !.ahead = Line(Registered)]]
    BY <1>4 DEF TaskStarts
  <2> QED
    BY <2>1, <2>4, <2>5, <2>6
<1>6. task' \in [Tasks -> TaskTypes']
  BY <1>4, <1>5
<1>7. log' \in Seq([task : Tasks, kind : {"event", "error", "done"}])
  <2>1. <<"done">> \in Seq({"event", "error", "done"})
    OBVIOUS
  <2>2. Put(t, <<"done">>) \/ UNCHANGED log
    BY DEF TaskStarts
  <2> QED
    BY <2>1, <2>2, PutAppends DEF BasicInv, TypeOK
<1>8. TypeOK'
  BY <1>1, <1>2, <1>3, <1>6, <1>7 DEF BasicInv, TypeOK, TaskStarts
<1>9. task'[t] = x /\ \A u \in Tasks : u # t => task'[u] = task[u]
  BY <1>4, <1>5
<1>10. task[t].obj = 0 /\ task[t].owner # 0 /\ t <= sent
  BY SMTT(30), <1>4 DEF BasicInv, LockInv, IsLive, Ended, TypeOK, Tasks
<1>11. /\ t \notin task[t].ahead
       /\ \A u \in Tasks : t \notin task[u].ahead /\ task[u].ahead \in SUBSET Tasks
  BY <1>4 DEF BasicInv, LockInv, TypeOK, TaskTypes
<1>12. ASSUME NEW u \in Tasks, u # t
       PROVE  HoldsLock(u) => HoldsLock(u)'
  BY <1>9, <1>11, <1>12 DEF HoldsLock, Line
<1>13. \A u \in Tasks :
         /\ task'[u].obj # 0 <=> task'[u].pc \in {"waiting", "starting", "streaming"}
         /\ task'[u].pc \in {"starting", "streaming"} => HoldsLock(u)'
         /\ IsLive(u)' => task'[u].owner # 0
         /\ u > sent' => task'[u].pc = "none"
  <2>1. ASSUME NEW u \in Tasks, u # t
        PROVE  task'[u] = task[u] /\ IsLive(u)' = IsLive(u)
    BY <1>9, <2>1 DEF IsLive
  <2>2. /\ task'[t].obj # 0 <=> task'[t].pc \in {"waiting", "starting", "streaming"}
        /\ task'[t].pc \notin {"starting", "streaming"}
        /\ IsLive(t)' => task'[t].owner # 0
    BY <1>1, <1>5, <1>9, <1>10 DEF IsLive, Over, NoTask, Ended
  <2>3. sent' = sent /\ ~(t > sent)
    BY <1>10 DEF TaskStarts, BasicInv, TypeOK, Tasks
  <2> QED
    BY <1>12, <2>1, <2>2, <2>3 DEF BasicInv, LockInv
<1>14. \A u, v \in Tasks :
         u # v /\ task'[u].obj = task'[v].obj /\ task'[u].obj # 0 =>
           u \in task'[v].ahead \/ v \in task'[u].ahead
  BY <1>5, <1>9 DEF BasicInv, LockInv, Line, Over, NoTask
<1>15. \A u \in Tasks : \A v \in task'[u].ahead : task'[v].pc \notin {"none", "ready"}
  <2>1. task'[t].pc \notin {"none", "ready"}
    BY <1>5, <1>9 DEF Over, NoTask
  <2>2. \A v \in Line(Registered) : task[v].pc \notin {"none", "ready"}
    BY <1>1 DEF Line, BasicInv, LockInv
  <2> QED
    BY <1>5, <1>9, <2>1, <2>2 DEF BasicInv, LockInv, Over, NoTask
<1>16. LockInv'
  <2>1. db # "absent" /\ UNCHANGED <<db, sent, upload, reaper>>
    BY <1>4 DEF TaskStarts, BasicInv, LockInv, NothingYet
  <2> QED
    BY <1>13, <1>14, <1>15, <2>1 DEF LockInv, BasicInv
<1> QED
  BY <1>8, <1>16 DEF BasicInv

\* A step of a task that holds its lock: it goes on, keeping its place, or ends.
LEMMA HolderMoves ==
  ASSUME BasicInv, TypeOK', NEW t \in Tasks, HoldsLock(t), task[t].obj # 0,
         \A u \in Tasks : u # t => task'[u] = task[u],
         \/ /\ task'[t].pc \in {"starting", "streaming"}
            /\ UNCHANGED <<task[t].obj, task[t].owner, task[t].ahead>>
         \/ task'[t] = Over("answered"),
         UNCHANGED <<db, sent, upload, reaper>>
  PROVE  LockInv'
<1>1. task[t].pc \notin {"none", "ready"} /\ IsLive(t) /\ db # "absent"
  BY DEF BasicInv, LockInv, NothingYet, IsLive, Ended
<1>2. ASSUME NEW u \in Tasks, HoldsLock(u), task'[u].obj # 0
      PROVE  HoldsLock(u)'
  <2>1. task'[u].obj = task[u].obj /\ task'[u].ahead = task[u].ahead
    BY <1>2 DEF Over, NoTask
  <2>2. Line(task[u].obj)' \subseteq Line(task[u].obj)
    BY <1>2, <2>1 DEF Line, Over, NoTask
  <2> QED
    BY <1>2, <2>1, <2>2 DEF HoldsLock
<1>3. \A u \in Tasks : task'[u].ahead \subseteq task[u].ahead
  BY DEF Over, NoTask
<1>4. /\ task'[t].obj # 0 <=> task'[t].pc \in {"waiting", "starting", "streaming"}
      /\ IsLive(t)' => task'[t].owner # 0
      /\ task'[t].pc \notin {"none", "ready"}
      /\ ~(t > sent)
  BY <1>1 DEF BasicInv, LockInv, Over, NoTask, IsLive, Ended
<1>5. \A u \in Tasks :
        /\ task'[u].obj # 0 <=> task'[u].pc \in {"waiting", "starting", "streaming"}
        /\ task'[u].pc \in {"starting", "streaming"} => HoldsLock(u)'
        /\ IsLive(u)' => task'[u].owner # 0
        /\ u > sent' => task'[u].pc = "none"
  <2>1. ASSUME NEW u \in Tasks, u # t
        PROVE  task'[u] = task[u] /\ IsLive(u)' = IsLive(u)
    BY <2>1 DEF IsLive
  <2>2. \A u \in Tasks : task[u].pc \in {"starting", "streaming"} => HoldsLock(u)
    BY DEF BasicInv, LockInv
  <2> QED
    BY <1>2, <1>4, <2>1, <2>2 DEF BasicInv, LockInv
<1>6. \A u, v \in Tasks :
        u # v /\ task'[u].obj = task'[v].obj /\ task'[u].obj # 0 =>
          u \in task'[v].ahead \/ v \in task'[u].ahead
  BY DEF BasicInv, LockInv, Over, NoTask
<1>7. \A u \in Tasks : \A v \in task'[u].ahead : task'[v].pc \notin {"none", "ready"}
  <2>1. \A u \in Tasks : task[u].ahead \in SUBSET Tasks
    BY DEF BasicInv, TypeOK, TaskTypes
  <2> QED
    BY <1>3, <1>4, <2>1 DEF BasicInv, LockInv
<1> QED
  BY <1>1, <1>5, <1>6, <1>7 DEF BasicInv, LockInv

\* Of two tasks in one line at most one holds the lock.
LEMMA OneHolder ==
  ASSUME BasicInv, NEW t \in Tasks, NEW u \in Tasks, HoldsLock(t), HoldsLock(u),
         task[t].obj = task[u].obj, task[t].obj # 0
  PROVE  t = u
BY DEF BasicInv, LockInv, HoldsLock, Line

\* A task past waiting holds the lock of an object that exists.
LEMMA PastWaiting ==
  ASSUME BasicInv, NEW t \in Tasks, task[t].pc \in {"waiting", "starting", "streaming"}
  PROVE  /\ task[t].obj # 0
         /\ task[t].obj \in 1 .. Len(objs)
         /\ Len(objs) \in Nat
         /\ objs[task[t].obj] \in ObjectTypes
         /\ task[t].pc # "waiting" => HoldsLock(t)
<1>1. task[t].obj # 0
  BY DEF BasicInv, LockInv
<1>2. Len(objs) \in Nat /\ task[t].obj \in 1 .. Len(objs)
  BY <1>1, LenProperties DEF BasicInv, TypeOK, TaskTypes
<1>3. objs[task[t].obj] \in ObjectTypes
  BY <1>2, ElementOfSeq DEF BasicInv, TypeOK
<1> QED
  BY <1>1, <1>2, <1>3 DEF BasicInv, LockInv

\* A task that goes on keeps its place.
LEMMA GoesOn ==
  ASSUME NEW x \in TaskTypes, NEW s \in Sources \cup {None}, NEW pc \in {"starting", "streaming"}
  PROVE  /\ [x EXCEPT !.pc = pc, !.fits = s] \in TaskTypes
         /\ [x EXCEPT !.pc = pc, !.fits = s].pc = pc
         /\ [x EXCEPT !.pc = pc, !.fits = s].obj = x.obj
         /\ [x EXCEPT !.pc = pc, !.fits = s].owner = x.owner
         /\ [x EXCEPT !.pc = pc, !.fits = s].ahead = x.ahead
         /\ [x EXCEPT !.pc = pc] \in TaskTypes
         /\ [x EXCEPT !.pc = pc].pc = pc
         /\ [x EXCEPT !.pc = pc].obj = x.obj
         /\ [x EXCEPT !.pc = pc].owner = x.owner
         /\ [x EXCEPT !.pc = pc].ahead = x.ahead
BY DEF TaskTypes

LEMMA FitAgentBasic ==
  ASSUME BasicInv, NEW t \in Tasks, FitAgent(t)
  PROVE  BasicInv'
<1>1. HoldsLock(t) /\ task[t].obj # 0
  BY PastWaiting DEF FitAgent
<1>2. task \in [Tasks -> TaskTypes] /\ task[t] \in TaskTypes
  BY DEF BasicInv, TypeOK
<1>3. TaskTypes' = TaskTypes /\ ObjectTypes' = ObjectTypes
  BY DEF FitAgent, TaskTypes, ObjectTypes
<1>4. PICK x \in TaskTypes :
        /\ task' = [task EXCEPT ![t] = x]
        /\ x.pc \in {"starting", "streaming"}
        /\ x.obj = task[t].obj /\ x.owner = task[t].owner /\ x.ahead = task[t].ahead
  <2>1. source \in Sources \cup {None}
    BY DEF BasicInv, TypeOK
  <2>2. CASE task' = [task EXCEPT ![t] = [task[t] EXCEPT !.pc = "streaming"]]
    BY ZenonT(60), <1>2, <2>1, <2>2, GoesOn
  <2>3. CASE task' = [task EXCEPT ![t] = [task[t] EXCEPT !.pc = "starting", !.fits = source]]
    <3> DEFINE y == [task[t] EXCEPT !.pc = "starting", !.fits = source]
    <3>1. /\ y \in TaskTypes /\ y.pc = "starting"
          /\ y.obj = task[t].obj /\ y.owner = task[t].owner /\ y.ahead = task[t].ahead
      BY <1>2, <2>1 DEF TaskTypes
    <3>2. task' = [task EXCEPT ![t] = y]
      BY <2>3
    <3> HIDE DEF y
    <3> QED
      BY <3>1, <3>2
  <2> QED
    BY <2>2, <2>3 DEF FitAgent
<1>5. task' \in [Tasks -> TaskTypes'] /\ running' \in SUBSET running
  BY <1>2, <1>3, <1>4 DEF FitAgent
<1>6. TypeOK'
  BY <1>3, <1>5 DEF BasicInv, TypeOK, FitAgent
<1>7. LockInv'
  BY <1>1, <1>2, <1>4, <1>6, HolderMoves DEF FitAgent
<1> QED
  BY <1>6, <1>7 DEF BasicInv

LEMMA AgentStartsBasic ==
  ASSUME BasicInv, NEW t \in Tasks, AgentStarts(t)
  PROVE  BasicInv'
<1> DEFINE g == task[t].obj
           o == [objs[g] EXCEPT !.agent = made + 1, !.fits = task[t].fits]
<1>1. /\ HoldsLock(t) /\ g # 0 /\ g \in 1 .. Len(objs) /\ Len(objs) \in Nat
      /\ objs[g] \in ObjectTypes
  BY PastWaiting DEF AgentStarts
<1>2. task \in [Tasks -> TaskTypes] /\ task[t] \in TaskTypes /\ made \in Nat
  BY DEF BasicInv, TypeOK
<1>3. ObjectTypes \subseteq ObjectTypes'
  BY <1>2 DEF ObjectTypes, AgentStarts
<1>4. o \in ObjectTypes'
  <2>1. task[t].fits \in Sources \cup {None} /\ made + 1 \in 0 .. made'
    BY <1>2 DEF TaskTypes, AgentStarts
  <2>2. objs[g] \in ObjectTypes'
    BY <1>1, <1>3
  <2> QED
    BY <2>1, <2>2 DEF ObjectTypes
<1>5. objs' = [objs EXCEPT ![g] = o] /\ objs \in Seq(ObjectTypes')
  BY <1>3, SeqMonotonic DEF AgentStarts, BasicInv, TypeOK
<1>6. objs' \in Seq(ObjectTypes') /\ Len(objs') = Len(objs)
  <2> HIDE DEF g, o
  <2> QED
    BY <1>1, <1>4, <1>5, ExceptSeq
<1>7. TaskTypes' = TaskTypes
  BY <1>6 DEF TaskTypes
<1>8. PICK x \in TaskTypes :
        /\ task' = [task EXCEPT ![t] = x]
        /\ x.pc = "streaming"
        /\ x.obj = task[t].obj /\ x.owner = task[t].owner /\ x.ahead = task[t].ahead
  <2>1. task' = [task EXCEPT ![t] = [task[t] EXCEPT !.pc = "streaming"]] /\ None \in Sources \cup {None}
    BY DEF AgentStarts
  <2> QED
    BY ZenonT(60), <1>2, <2>1, GoesOn
<1>9. task' \in [Tasks -> TaskTypes'] /\ running' \in SUBSET (1 .. made') /\ made' \in Nat
  <2>1. made' = made + 1 /\ running' = running \cup {made + 1} /\ running \in SUBSET (1 .. made)
    BY DEF AgentStarts, BasicInv, TypeOK
  <2> QED
    BY <1>2, <1>7, <1>8, <2>1
<1>10. TypeOK'
  BY <1>6, <1>9 DEF BasicInv, TypeOK, AgentStarts
<1>11. LockInv'
  BY <1>1, <1>2, <1>8, <1>10, HolderMoves DEF AgentStarts
<1> QED
  BY <1>10, <1>11 DEF BasicInv

LEMMA EmitBasic ==
  ASSUME BasicInv, NEW t \in Tasks, Emit(t)
  PROVE  BasicInv'
<1>1. HoldsLock(t) /\ task[t].obj # 0 /\ task[t].pc = "streaming"
  BY PastWaiting DEF Emit
<1>2. /\ Len(objs) \in Nat /\ Len(objs') \in Len(objs) .. Len(objs) + 1
      /\ objs' \in Seq(ObjectTypes)
      /\ manager' \in 1 .. Len(objs')
  BY ObjectsGrow DEF Emit, BasicInv
<1>3. TaskTypes \subseteq TaskTypes' /\ ObjectTypes' = ObjectTypes
  BY <1>2, TasksGrow DEF BasicInv, ObjectTypes, Emit
<1>4. task \in [Tasks -> TaskTypes] /\ task[t] \in TaskTypes
  BY DEF BasicInv, TypeOK
<1> DEFINE x == [task[t] EXCEPT !.events = @ + 1]
<1>5. /\ x \in TaskTypes /\ x.pc = "streaming"
      /\ x.obj = task[t].obj /\ x.owner = task[t].owner /\ x.ahead = task[t].ahead
  <2>1. task[t].events + 1 \in 0 .. MaxEvents
    BY <1>4, TaskNumbers DEF Emit, TaskTypes
  <2> QED
    BY <1>1, <1>4, <2>1 DEF TaskTypes
<1>6. task' = [task EXCEPT ![t] = x]
  BY DEF Emit
<1> HIDE DEF x
<1>7. task' \in [Tasks -> TaskTypes']
  BY <1>3, <1>4, <1>5, <1>6
<1>8. log' \in Seq([task : Tasks, kind : {"event", "error", "done"}])
  <2>1. <<"event">> \in Seq({"event", "error", "done"})
    OBVIOUS
  <2> QED
    BY <2>1, PutAppends DEF BasicInv, Emit
<1>9. TypeOK'
  BY <1>2, <1>3, <1>7, <1>8 DEF BasicInv, TypeOK, Emit
<1>10. LockInv'
  BY <1>1, <1>4, <1>5, <1>6, <1>9, HolderMoves DEF Emit
<1> QED
  BY <1>9, <1>10 DEF BasicInv

\* A reply ends with the lock held, its events and then "done" in the queue.
LEMMA ReplyEnds ==
  ASSUME BasicInv, NEW t \in Tasks, Reply(t)
  PROVE  /\ HoldsLock(t) /\ task[t].obj # 0
         /\ task[t].pc \in {"waiting", "starting", "streaming"}
         /\ task' = [task EXCEPT ![t] = Over("answered")]
         /\ \/ UNCHANGED log
            \/ \E kinds \in {<<"done">>, <<"error", "done">>} : Put(t, kinds)
<1>1. task[t].pc \in {"waiting", "starting", "streaming"}
  BY DEF Reply
<1>2. HoldsLock(t) /\ task[t].obj # 0
  BY <1>1, PastWaiting DEF Reply
<1> QED
  BY <1>1, <1>2 DEF Reply, Finish

LEMMA ReplyBasic ==
  ASSUME BasicInv, NEW t \in Tasks, Reply(t)
  PROVE  BasicInv'
<1>1. /\ HoldsLock(t) /\ task[t].obj # 0
      /\ task' = [task EXCEPT ![t] = Over("answered")]
  BY ReplyEnds
<1>2. task \in [Tasks -> TaskTypes] /\ TaskTypes' = TaskTypes /\ ObjectTypes' = ObjectTypes
  BY DEF BasicInv, TypeOK, TaskTypes, ObjectTypes, Reply
<1>3. Over("answered") \in TaskTypes
  BY NoTaskType DEF BasicInv, Ended
<1>4. log' \in Seq([task : Tasks, kind : {"event", "error", "done"}])
  <2>1. <<"done">> \in Seq({"event", "error", "done"}) /\ <<"error", "done">> \in Seq({"event", "error", "done"})
    OBVIOUS
  <2>2. UNCHANGED log \/ Put(t, <<"done">>) \/ Put(t, <<"error", "done">>)
    BY ReplyEnds
  <2> QED
    BY <2>1, <2>2, PutAppends DEF BasicInv, TypeOK
<1>5. TypeOK'
  BY <1>1, <1>2, <1>3, <1>4 DEF BasicInv, TypeOK, Reply
<1>6. task'[t] = Over("answered") /\ \A u \in Tasks : u # t => task'[u] = task[u]
  BY <1>1, <1>2
<1>7. LockInv'
  BY <1>1, <1>5, <1>6, HolderMoves DEF Reply
<1> QED
  BY <1>5, <1>7 DEF BasicInv

LEMMA TaskStepBasic ==
  ASSUME BasicInv, NEW t \in Tasks, TaskStep(t)
  PROVE  BasicInv'
BY TaskStartsBasic, FitAgentBasic, AgentStartsBasic, EmitBasic, ReplyBasic DEF TaskStep

\* Whoever a cancellation takes out leaves its line, and nobody loses a place by it.
LEMMA CancelledBasic ==
  ASSUME BasicInv, NEW ts \in SUBSET Tasks, Cancelled(ts), db # "absent",
         \A t \in ts : IsLive(t), deleter' \in {"messages", "stop"},
         UNCHANGED <<source, db, objs, manager, running, made, sent, log, upload, reaper,
                     spent, odd>>
  PROVE  BasicInv'
<1>1. task \in [Tasks -> TaskTypes] /\ TaskTypes' = TaskTypes /\ ObjectTypes' = ObjectTypes
  BY DEF BasicInv, TypeOK, TaskTypes, ObjectTypes
<1>2. Over("cancelled") \in TaskTypes
  BY NoTaskType DEF BasicInv, Ended
<1>3. task' \in [Tasks -> TaskTypes']
  BY <1>1, <1>2 DEF Cancelled
<1>4. TypeOK'
  BY <1>1, <1>3 DEF BasicInv, TypeOK
<1>5. /\ \A t \in ts : task'[t] = Over("cancelled")
      /\ \A t \in Tasks \ ts : task'[t] = task[t]
  BY DEF Cancelled
<1>6. /\ Over("cancelled").pc = "cancelled"
      /\ Over("cancelled").obj = 0
      /\ Over("cancelled").ahead = {}
  BY DEF Over, NoTask
<1>7. ASSUME NEW u \in Tasks \ ts, HoldsLock(u), task[u].obj # 0
      PROVE  HoldsLock(u)'
  <2>1. Line(task[u].obj)' \subseteq Line(task[u].obj)
    BY <1>5, <1>6, <1>7 DEF Line
  <2> QED
    BY <1>5, <1>7, <2>1 DEF HoldsLock
<1>8. \A t \in ts : task[t].pc # "none"
  BY DEF IsLive
<1>9. \A t \in Tasks \ ts : IsLive(t)' = IsLive(t)
  BY <1>5 DEF IsLive
<1>10. \A t \in Tasks :
         /\ task'[t].obj # 0 <=> task'[t].pc \in {"waiting", "starting", "streaming"}
         /\ task'[t].pc \in {"starting", "streaming"} => HoldsLock(t)'
         /\ IsLive(t)' => task'[t].owner # 0
         /\ t > sent => task'[t].pc = "none"
  <2>1. ASSUME NEW t \in ts
        PROVE  ~IsLive(t)' /\ ~(t > sent)
    BY <1>5, <1>6, <1>8, <2>1 DEF IsLive, BasicInv, LockInv, Ended
  <2>2. ASSUME NEW t \in Tasks \ ts
        PROVE  /\ task'[t].pc \in {"starting", "streaming"} => HoldsLock(t)'
    BY <1>5, <1>7, <2>2 DEF BasicInv, LockInv
  <2> QED
    BY <1>5, <1>6, <1>9, <2>1, <2>2 DEF BasicInv, LockInv
<1>11. \A t, u \in Tasks :
         t # u /\ task'[t].obj = task'[u].obj /\ task'[t].obj # 0 =>
           t \in task'[u].ahead \/ u \in task'[t].ahead
  BY <1>5, <1>6 DEF BasicInv, LockInv
<1>12. \A u \in Tasks : \A t \in task'[u].ahead : task'[t].pc \notin {"none", "ready"}
  <2>1. \A u \in Tasks : task[u].ahead \in SUBSET Tasks
    BY <1>1 DEF TaskTypes
  <2> QED
    BY <1>5, <1>6, <2>1 DEF BasicInv, LockInv
<1> QED
  BY <1>4, <1>10, <1>11, <1>12 DEF BasicInv, LockInv

LEMMA DeletedIsMade ==
  ASSUME BasicInv, deleter # "idle" \/ manager # 0
  PROVE  db # "absent"
BY DEF BasicInv, LockInv, NothingYet

\* The session objects without the agent of one of them.
LEMMA WithoutAgentType ==
  ASSUME TypeOK, NEW g \in 1 .. Len(objs), WithoutAgent(g), made' = made
  PROVE  /\ objs' \in Seq(ObjectTypes) /\ Len(objs') = Len(objs)
         /\ \A h \in 1 .. Len(objs) : /\ objs'[h].terminating = objs[h].terminating
                                      /\ h # g => objs'[h] = objs[h]
         /\ objs'[g].agent = 0
         /\ running' \in SUBSET running
         /\ ObjectTypes' = ObjectTypes /\ TaskTypes' = TaskTypes
<1> DEFINE o == [objs[g] EXCEPT !.agent = 0, !.fits = None]
<1>1. made \in Nat /\ objs[g] \in ObjectTypes
  BY ElementOfSeq DEF TypeOK
<1>2. o \in ObjectTypes /\ o.terminating = objs[g].terminating /\ o.agent = 0
  <2>1. None \in Sources \cup {None} /\ 0 \in 0 .. made
    BY <1>1
  <2>2. o.terminating = objs[g].terminating /\ o.agent = 0
    BY <1>1 DEF ObjectTypes
  <2>3. o \in ObjectTypes
    BY <1>1, <2>1 DEF ObjectTypes
  <2> QED
    BY <2>2, <2>3
<1>3. objs' = [objs EXCEPT ![g] = o] /\ objs \in Seq(ObjectTypes)
  BY DEF WithoutAgent, TypeOK
<1>4. /\ objs' \in Seq(ObjectTypes) /\ Len(objs') = Len(objs)
      /\ \A h \in 1 .. Len(objs) : objs'[h] = IF h = g THEN o ELSE objs[h]
  <2> HIDE DEF o
  <2> QED
    BY <1>2, <1>3, ExceptSeq
<1> HIDE DEF o
<1>5. ObjectTypes' = ObjectTypes /\ TaskTypes' = TaskTypes
  BY <1>4 DEF ObjectTypes, TaskTypes
<1> QED
  BY <1>2, <1>4, <1>5 DEF WithoutAgent

LEMMA DeleteBasic ==
  ASSUME BasicInv, DeleteStarts \/ DeleteStep
  PROVE  BasicInv'
<1>1. CASE DeleteStarts
  <2>1. objs' \in Seq(ObjectTypes) /\ Len(objs') = Len(objs)
    <3>1. CASE manager = 0
      BY <1>1, <3>1 DEF DeleteStarts, BasicInv, TypeOK
    <3>2. CASE manager # 0
      <4> DEFINE o == [objs[manager] EXCEPT !.terminating = TRUE]
      <4>1. objs \in Seq(ObjectTypes) /\ manager \in 1 .. Len(objs)
        BY <3>2, LenProperties DEF BasicInv, TypeOK
      <4>2. objs[manager] \in ObjectTypes
        BY <4>1, ElementOfSeq
      <4>3. o \in ObjectTypes /\ objs' = [objs EXCEPT ![manager] = o]
        BY <1>1, <3>2, <4>2 DEF ObjectTypes, DeleteStarts
      <4> HIDE DEF o
      <4> QED
        BY <4>1, <4>3, ExceptSeq
    <3> QED
      BY <3>1, <3>2
  <2>2. ObjectTypes' = ObjectTypes /\ TaskTypes' = TaskTypes
    BY <1>1, <2>1 DEF ObjectTypes, TaskTypes, DeleteStarts
  <2>3. TypeOK'
    BY <1>1, <2>1, <2>2 DEF BasicInv, TypeOK, DeleteStarts
  <2> QED
    BY <1>1, <2>3, NoTaskMoves DEF DeleteStarts
<1>2. CASE DeleteCancels
  <2>1. \A p \in BOOLEAN : Doomed(p) \in SUBSET Tasks /\ \A t \in Doomed(p) : IsLive(t)
    BY DEF Doomed, Live, IsLive
  <2>2. db # "absent" /\ deleter' \in {"messages", "stop"}
    BY <1>2, DeletedIsMade DEF DeleteCancels
  <2> QED
    BY <1>2, <2>1, <2>2, CancelledBasic DEF DeleteCancels
<1>3. CASE DeleteStops
  <2>1. /\ objs' \in Seq(ObjectTypes') /\ Len(objs') = Len(objs)
        /\ running' \in SUBSET running /\ TaskTypes' = TaskTypes
    <3>1. CASE manager = 0
      BY <1>3, <3>1 DEF DeleteStops, BasicInv, TypeOK, ObjectTypes, TaskTypes
    <3>2. CASE manager # 0
      <4>1. manager \in 1 .. Len(objs)
        BY <3>2, LenProperties DEF BasicInv, TypeOK
      <4> QED
        BY <1>3, <3>2, <4>1, WithoutAgentType DEF DeleteStops, BasicInv
    <3> QED
      BY <3>1, <3>2
  <2>2. TypeOK'
    BY <1>3, <2>1 DEF BasicInv, TypeOK, DeleteStops
  <2> QED
    BY <1>3, <2>2, NoTaskMoves, DeletedIsMade DEF DeleteStops
<1>4. CASE DeleteRemoves
  <2>1. TypeOK'
    BY <1>4, EmptySeq, LenProperties DEF BasicInv, TypeOK, DeleteRemoves, ObjectTypes, TaskTypes
  <2> QED
    BY <1>4, <2>1, NoTaskMoves, DeletedIsMade DEF DeleteRemoves
<1> QED
  BY <1>1, <1>2, <1>3, <1>4 DEF DeleteStep

LEMMA ReapBasic ==
  ASSUME BasicInv, ReapPicks \/ ReapStops \/ ReapRemoves
  PROVE  BasicInv'
<1>1. Len(objs) \in Nat /\ manager \in 0 .. Len(objs) /\ Met \in SUBSET {"upload", "reaper"}
  BY LenProperties DEF BasicInv, TypeOK, Met
<1>2. CASE ReapPicks
  <2>1. TypeOK'
    BY <1>1, <1>2 DEF BasicInv, TypeOK, ReapPicks, ObjectTypes, TaskTypes
  <2> QED
    BY <1>2, <2>1, NoTaskMoves, DeletedIsMade DEF ReapPicks
<1>3. CASE ReapStops
  <2>1. /\ objs' \in Seq(ObjectTypes') /\ Len(objs') = Len(objs)
        /\ running' \in SUBSET running /\ TaskTypes' = TaskTypes
    <3>1. CASE manager # reaper.obj
      BY <1>3, <3>1 DEF ReapStops, BasicInv, TypeOK, ObjectTypes, TaskTypes
    <3>2. CASE manager = reaper.obj
      <4>1. manager \in 1 .. Len(objs)
        BY <1>1, <1>3, <3>2 DEF BasicInv, LockInv, ReapStops
      <4> QED
        BY <1>3, <3>2, <4>1, WithoutAgentType DEF ReapStops, BasicInv
    <3> QED
      BY <3>1, <3>2
  <2>2. TypeOK'
    BY <1>1, <1>3, <2>1 DEF BasicInv, TypeOK, ReapStops
  <2> QED
    BY <1>3, <2>2, NoTaskMoves DEF ReapStops, BasicInv, LockInv, NothingYet
<1>4. CASE ReapRemoves
  <2>1. TypeOK'
    BY <1>1, <1>4 DEF BasicInv, TypeOK, ReapRemoves, ObjectTypes, TaskTypes
  <2> QED
    BY <1>4, <2>1, NoTaskMoves DEF ReapRemoves, BasicInv, LockInv, NothingYet
<1> QED
  BY <1>2, <1>3, <1>4

LEMMA RestartBasic ==
  ASSUME BasicInv, Restart
  PROVE  BasicInv'
<1>1. /\ <<>> \in Seq(ObjectTypes') /\ Len(<<>>) = 0 /\ Len(objs) \in Nat
      /\ <<>> \in Seq([task : Tasks, kind : {"event", "error", "done"}])
  BY EmptySeq, LenProperties DEF BasicInv, TypeOK
<1>2. NoTask \in TaskTypes' /\ Over("lost") \in TaskTypes'
  BY <1>1, TaskNumbers DEF Restart, NoTask, Over, TaskTypes, Ended
<1>3. \A t \in Tasks : /\ task'[t] \in TaskTypes'
                       /\ task[t].pc = "none" => task'[t].pc = "none"
                       /\ task'[t].pc \in {"none", "lost"}
                       /\ task'[t].obj = 0 /\ task'[t].ahead = {}
  BY <1>2 DEF Restart, NoTask, Over
<1>4. task' \in [Tasks -> TaskTypes']
  BY <1>3 DEF Restart
<1>5. TypeOK'
  BY <1>1, <1>4 DEF BasicInv, TypeOK, Restart
<1>6. LockInv'
  BY <1>3 DEF BasicInv, LockInv, NothingYet, IsLive, Ended, HoldsLock, Restart
<1> QED
  BY <1>5, <1>6 DEF BasicInv

LEMMA ChangeSourceBasic ==
  ASSUME BasicInv, NEW s \in Sources, ChangeSource(s)
  PROVE  BasicInv'
<1>1. TypeOK'
  BY DEF BasicInv, TypeOK, ChangeSource, ObjectTypes, TaskTypes
<1> QED
  BY <1>1, NoTaskMoves DEF ChangeSource

LEMMA NextBasic == BasicInv /\ [Next]_vars => BasicInv'
<1> SUFFICES ASSUME BasicInv, [Next]_vars PROVE BasicInv'
  OBVIOUS
<1>1. CASE UNCHANGED vars
  <2>1. TypeOK'
    BY <1>1 DEF BasicInv, TypeOK, vars, ObjectTypes, TaskTypes
  <2> QED
    BY <1>1, <2>1, NoTaskMoves DEF vars
<1> QED
  BY <1>1, CreateBasic, MessageBasic, ChangeSourceBasic, TaskStepBasic, DeleteBasic, ReapBasic,
     RestartBasic DEF Next

-----------------------------------------------------------------------------
(* One session object, as long as nothing odd happened.                    *)

Calm == BasicInv /\ odd = {} /\ OneSession /\ DeleteInv

LEMMA NobodyWithoutManager ==
  ASSUME Calm, manager = 0
  PROVE  /\ running = {}
         /\ \A t \in Tasks : ~IsLive(t) /\ task[t].obj = 0
BY DEF Calm, BasicInv, LockInv, OneSession, IsLive, Ended

LEMMA ManagerIsAnObject ==
  ASSUME BasicInv, manager # 0
  PROVE  /\ manager \in 1 .. Len(objs) /\ Len(objs) \in Nat
         /\ objs[manager] \in ObjectTypes
<1>1. manager \in 1 .. Len(objs) /\ Len(objs) \in Nat
  BY LenProperties DEF BasicInv, TypeOK
<1> QED
  BY <1>1, ElementOfSeq DEF BasicInv, TypeOK

\* Registering the session of a conversation that was not deleted gives its tasks
\* the object they have, or the first one when there are none.
LEMMA RegisterCalm ==
  ASSUME Calm, manager # 0 \/ db = "active", objs' = Objects, manager' = Registered
  PROVE  /\ manager' # 0
         /\ manager # 0 => manager' = manager
         /\ objs'[manager'].terminating <=> deleter # "idle"
         /\ running \subseteq {objs'[manager'].agent}
         /\ reaper.pc # "idle" => manager' = reaper.obj
         /\ \A t \in Tasks : /\ IsLive(t) => task[t].owner = manager'
                             /\ task[t].obj # 0 => task[t].obj = manager' /\ reaper.pc = "idle"
<1>1. /\ Registered # 0
      /\ manager # 0 => Objects = objs /\ Registered = manager
      /\ manager = 0 => Objects[Registered] = NewObject
  BY ObjectsGrow DEF Calm, BasicInv
<1>2. CASE manager # 0
  BY <1>1, <1>2 DEF Calm, OneSession, DeleteInv
<1>3. CASE manager = 0
  <2>1. deleter = "idle" /\ reaper.pc = "idle"
    BY <1>3 DEF Calm, OneSession, DeleteInv, BasicInv, LockInv
  <2>2. objs'[manager'].terminating = FALSE
    BY <1>1, <1>3 DEF NewObject
  <2> QED
    BY <1>1, <1>3, <2>1, <2>2, NobodyWithoutManager
<1> QED
  BY <1>2, <1>3

LEMMA CreateCalm ==
  ASSUME Calm, Create
  PROVE  OneSession' /\ DeleteInv'
<1>1. /\ objs = <<>> /\ manager = 0 /\ deleter = "idle" /\ reaper.pc = "idle"
      /\ \A t \in Tasks : task[t].pc = "none"
      /\ running = {} /\ db' = "active"
  BY NobodyWithoutManager DEF Calm, BasicInv, LockInv, NothingYet, Create
<1>2. /\ Append(objs, NewObject)[Len(objs) + 1] = NewObject
      /\ Len(objs) = 0
  BY <1>1, AppendProperties, NewObjectType, EmptySeq DEF Calm, BasicInv, TypeOK
<1>3. objs'[manager'].terminating = FALSE /\ manager' = 1
  BY <1>2 DEF Create, NewObject
<1>4. \A t \in Tasks : /\ IsLive(t)' => task'[t].owner = 1
                       /\ task'[t].obj = 0
                       /\ task'[t].pc # "starting"
  <2>1. \A t \in Tasks : task[t].obj = 0 /\ task[t] \in TaskTypes
    BY <1>1 DEF Calm, BasicInv, LockInv, TypeOK
  <2>2. CASE task' = task
    BY <1>1, <2>1, <2>2 DEF IsLive
  <2>3. CASE task' = [task EXCEPT ![Prewarm] = [@ EXCEPT !.pc = "ready", !.owner = 1]]
    <3>1. task \in [Tasks -> TaskTypes] /\ Prewarm \in Tasks
      BY TaskNumbers DEF Calm, BasicInv, TypeOK
    <3>2. /\ task'[Prewarm].pc = "ready" /\ task'[Prewarm].owner = 1
          /\ task'[Prewarm].obj = task[Prewarm].obj
      BY <2>1, <2>3, <3>1 DEF TaskTypes
    <3>3. \A t \in Tasks : t # Prewarm => task'[t] = task[t]
      BY <2>3, <3>1
    <3> QED
      BY <1>1, <2>1, <3>2, <3>3 DEF IsLive
  <2> QED
    BY <2>2, <2>3 DEF Create
<1> QED
  BY <1>1, <1>3, <1>4 DEF OneSession, DeleteInv, Create

LEMMA ScheduleCalm ==
  ASSUME Calm, BasicInv', Schedule, sent < MaxMessages, db = "active",
         manager # 0 => deleter = "idle",
         UNCHANGED <<source, db, running, made, log, deleter, reaper, spent>>
  PROVE  OneSession' /\ DeleteInv'
<1> DEFINE t == sent + 1
<1>1. /\ manager' # 0
      /\ objs'[manager'].terminating <=> deleter # "idle"
      /\ running \subseteq {objs'[manager'].agent}
      /\ reaper.pc # "idle" => manager' = reaper.obj
      /\ \A u \in Tasks : /\ IsLive(u) => task[u].owner = manager'
                          /\ task[u].obj # 0 => task[u].obj = manager' /\ reaper.pc = "idle"
  BY RegisterCalm DEF Schedule
<1>2. t \in Tasks
  BY TaskNumbers DEF Calm, BasicInv, TypeOK, Tasks
<1>3. /\ task'[t].pc = "ready" /\ task'[t].owner = manager' /\ task'[t].obj = 0
      /\ \A u \in Tasks : u # t => task'[u] = task[u]
  BY <1>2 DEF Schedule, Calm, BasicInv, TypeOK, NoTask
<1>4. deleter = "idle"
  BY DEF Calm, DeleteInv
<1> QED
  BY <1>1, <1>3, <1>4 DEF OneSession, DeleteInv, IsLive, Calm

LEMMA MessageCalm ==
  ASSUME Calm, BasicInv', odd' = {}, SendMessage \/ UploadStarts \/ UploadEnds
  PROVE  OneSession' /\ DeleteInv'
<1>1. ASSUME Reachable
      PROVE  db = "active" /\ deleter = "idle"
  <2>1. db \in {"absent", "active", "deleted"} /\ db # "absent"
    BY <1>1, ReachableIsMade DEF Calm, BasicInv, TypeOK
  <2> QED
    BY <1>1, <2>1 DEF Calm, DeleteInv, Reachable
<1>2. CASE SendMessage
  <2>1. sent < MaxMessages
    BY <1>2, TaskNumbers DEF SendMessage, Calm, BasicInv, TypeOK
  <2> QED
    BY <1>1, <1>2, <2>1, ScheduleCalm DEF SendMessage
<1>3. CASE UploadEnds
  <2>1. sent < MaxMessages /\ db = "active"
    BY <1>3 DEF UploadEnds, Calm, BasicInv, LockInv, NothingYet, TypeOK
  <2> QED
    BY <1>3, <2>1, ScheduleCalm DEF UploadEnds, Calm, DeleteInv
<1>4. CASE UploadStarts
  <2>1. /\ manager' # 0
        /\ objs'[manager'].terminating <=> deleter # "idle"
        /\ running \subseteq {objs'[manager'].agent}
        /\ reaper.pc # "idle" => manager' = reaper.obj
        /\ \A u \in Tasks : /\ IsLive(u) => task[u].owner = manager'
                            /\ task[u].obj # 0 => task[u].obj = manager' /\ reaper.pc = "idle"
    BY <1>1, <1>4, RegisterCalm DEF UploadStarts
  <2> QED
    BY <1>1, <1>4, <2>1 DEF OneSession, DeleteInv, IsLive, Calm, UploadStarts
<1> QED
  BY <1>2, <1>3, <1>4

\* A task in a line is of the one session object, and the reaper is not at work.
LEMMA InLine ==
  ASSUME Calm, NEW t \in Tasks, task[t].obj # 0
  PROVE  /\ task[t].obj = manager /\ manager # 0
         /\ reaper.pc = "idle"
         /\ IsLive(t)
         /\ deleter \notin {"stop", "remove"}
BY DEF Calm, OneSession, DeleteInv, BasicInv, LockInv, IsLive, Ended

\* A live task goes on in the line of the one object or ends.
LEMMA TaskMovesCalm ==
  ASSUME Calm, NEW t \in Tasks, IsLive(t), manager # 0,
         UNCHANGED <<db, manager, deleter, reaper>>,
         objs'[manager].terminating = objs[manager].terminating,
         \A u \in Tasks : u # t => task'[u] = task[u],
         \/ ~IsLive(t)' /\ task'[t].obj = 0 /\ task'[t].pc # "starting"
         \/ task'[t].owner = task[t].owner /\ task'[t].obj = manager /\ reaper.pc = "idle",
         running' \subseteq {objs'[manager].agent},
         reaper.pc # "idle" => running' = running,
         \A u \in Tasks : task'[u].pc = "starting" => running' = {}
  PROVE  OneSession' /\ DeleteInv'
<1>1. \A u \in Tasks : IsLive(u)' => IsLive(u) /\ task'[u].owner = task[u].owner
  BY DEF IsLive
<1>2. deleter \notin {"stop", "remove"}
  BY DEF Calm, DeleteInv
<1>3. OneSession'
  BY <1>1 DEF Calm, OneSession
<1>4. DeleteInv'
  <2>1. deleter # "idle" => db = "deleted"
    BY DEF Calm, DeleteInv
  <2>2. objs'[manager'].terminating <=> deleter # "idle"
    BY DEF Calm, DeleteInv
  <2>3. ~(db = "deleted" /\ deleter = "idle")
    BY DEF Calm, DeleteInv
  <2>4. deleter \notin {"idle", "prewarm"} => ~IsLive(Prewarm)'
    BY <1>1, TaskNumbers DEF Calm, DeleteInv
  <2> QED
    BY <1>2, <2>1, <2>2, <2>3, <2>4 DEF DeleteInv
<1> QED
  BY <1>3, <1>4

LEMMA TaskStartsCalm ==
  ASSUME Calm, BasicInv', odd' = {}, NEW t \in Tasks, TaskStarts(t)
  PROVE  OneSession' /\ DeleteInv'
<1>1. IsLive(t) /\ reaper.pc = "idle" /\ task[t].owner = manager /\ manager # 0
  BY DEF TaskStarts, Calm, OneSession, IsLive, Ended, BasicInv, LockInv
<1>2. objs' = objs /\ manager' = manager /\ Registered = manager
  BY <1>1, ObjectsGrow DEF TaskStarts, Calm, BasicInv
<1>3. \A u \in Tasks : u # t => task'[u] = task[u]
  BY DEF TaskStarts, Calm, BasicInv, TypeOK
<1>4. \/ ~IsLive(t)' /\ task'[t].obj = 0 /\ task'[t].pc # "starting"
      \/ task'[t].owner = task[t].owner /\ task'[t].obj = manager /\ task'[t].pc = "waiting"
  <2>1. task \in [Tasks -> TaskTypes] /\ task[t] \in TaskTypes
    BY DEF Calm, BasicInv, TypeOK
  <2>2. CASE task' = [task EXCEPT ![t] = Over("answered")]
    BY <2>1, <2>2 DEF IsLive, Over, NoTask, Ended
  <2>3. CASE task' = [task EXCEPT ![t].pc = "waiting", ![t].obj = Registered,
                                  ![t].ahead = Line(Registered)]
    BY <1>2, <2>1, <2>3 DEF TaskTypes
  <2> QED
    BY <2>2, <2>3 DEF TaskStarts
<1>5. \A u \in Tasks : task'[u].pc = "starting" => running' = {}
  BY <1>3, <1>4 DEF Calm, OneSession, TaskStarts
<1>6. UNCHANGED <<db, manager, deleter, reaper, objs, running>>
  BY <1>2 DEF TaskStarts
<1>7. running' \subseteq {objs'[manager].agent}
  BY <1>1, <1>6 DEF Calm, OneSession
<1> QED
  BY <1>1, <1>3, <1>4, <1>5, <1>6, <1>7, TaskMovesCalm

LEMMA FitAgentCalm ==
  ASSUME Calm, NEW t \in Tasks, FitAgent(t)
  PROVE  OneSession' /\ DeleteInv'
<1>1. /\ task[t].obj = manager /\ manager # 0 /\ reaper.pc = "idle"
      /\ IsLive(t) /\ deleter \notin {"stop", "remove"}
  BY InLine, PastWaiting DEF Calm, FitAgent
<1>2. task \in [Tasks -> TaskTypes] /\ task[t] \in TaskTypes
  BY DEF Calm, BasicInv, TypeOK
<1>3. /\ \A u \in Tasks : u # t => task'[u] = task[u]
      /\ task'[t].owner = task[t].owner /\ task'[t].obj = task[t].obj
      /\ \/ task'[t].pc = "streaming" /\ running' = running
         \/ task'[t].pc = "starting" /\ running' = running \ {objs[manager].agent}
  <2>1. CASE task' = [task EXCEPT ![t].pc = "streaming"] /\ running' = running
    BY <1>2, <2>1 DEF TaskTypes
  <2>2. CASE /\ task' = [task EXCEPT ![t].pc = "starting", ![t].fits = source]
             /\ running' = running \ {objs[manager].agent}
    BY <1>2, <2>2 DEF TaskTypes
  <2> QED
    BY <1>1, <2>1, <2>2 DEF FitAgent
<1>4. running' \subseteq running /\ (task'[t].pc = "starting" => running' = {})
  BY <1>1, <1>3 DEF Calm, OneSession
<1>5. \A u \in Tasks : task'[u].pc = "starting" => running' = {}
  BY <1>3, <1>4 DEF Calm, OneSession
<1>6. UNCHANGED <<db, manager, deleter, reaper, objs>>
  BY DEF FitAgent
<1>7. running' \subseteq {objs'[manager].agent}
  BY <1>1, <1>4, <1>6 DEF Calm, OneSession
<1> QED
  BY <1>1, <1>3, <1>5, <1>6, <1>7, TaskMovesCalm

LEMMA AgentStartsCalm ==
  ASSUME Calm, NEW t \in Tasks, AgentStarts(t)
  PROVE  OneSession' /\ DeleteInv'
<1>1. /\ task[t].obj = manager /\ manager # 0 /\ reaper.pc = "idle"
      /\ IsLive(t) /\ deleter \notin {"stop", "remove"}
      /\ HoldsLock(t) /\ running = {}
  BY InLine, PastWaiting DEF Calm, AgentStarts, OneSession
<1>2. task \in [Tasks -> TaskTypes] /\ task[t] \in TaskTypes
  BY DEF Calm, BasicInv, TypeOK
<1>3. /\ \A u \in Tasks : u # t => task'[u] = task[u]
      /\ task'[t].owner = task[t].owner /\ task'[t].obj = task[t].obj
      /\ task'[t].pc = "streaming"
  BY <1>2 DEF TaskTypes, AgentStarts
<1>4. ASSUME NEW u \in Tasks, task[u].pc = "starting"
      PROVE  u = t
  <2>1. HoldsLock(u) /\ task[u].obj = manager
    BY <1>4, InLine, PastWaiting DEF Calm
  <2> QED
    BY <1>1, <2>1, OneHolder DEF Calm
<1>5. objs'[manager].agent = made + 1 /\ objs'[manager].terminating = objs[manager].terminating
  <2>1. manager \in 1 .. Len(objs) /\ objs[manager] \in ObjectTypes /\ objs \in Seq(ObjectTypes)
    BY <1>1, ManagerIsAnObject DEF Calm, BasicInv, TypeOK
  <2>2. DOMAIN objs = 1 .. Len(objs)
    BY <2>1, LenProperties
  <2>3. objs' = [objs EXCEPT ![manager] = [@ EXCEPT !.agent = made + 1, !.fits = task[t].fits]]
    BY <1>1 DEF AgentStarts
  <2> QED
    BY <2>1, <2>2, <2>3 DEF ObjectTypes
<1>6. running' = {made + 1}
  BY <1>1 DEF AgentStarts
<1>7. \A u \in Tasks : task'[u].pc # "starting"
  BY <1>3, <1>4
<1>8. UNCHANGED <<db, manager, deleter, reaper>>
  BY DEF AgentStarts
<1> QED
  BY <1>1, <1>3, <1>5, <1>6, <1>7, <1>8, TaskMovesCalm

LEMMA EmitCalm ==
  ASSUME Calm, NEW t \in Tasks, Emit(t)
  PROVE  OneSession' /\ DeleteInv'
<1>1. task[t].obj = manager /\ manager # 0
  BY InLine, PastWaiting DEF Calm, Emit
<1>2. objs' = objs /\ manager' = manager
  BY <1>1, ObjectsGrow DEF Emit, Calm, BasicInv
<1>3. \A u \in Tasks : /\ task'[u].pc = task[u].pc
                       /\ task'[u].owner = task[u].owner
                       /\ task'[u].obj = task[u].obj
  BY SMTT(30) DEF Emit, Calm, BasicInv, TypeOK, TaskTypes
<1> QED
  BY <1>2, <1>3 DEF OneSession, DeleteInv, Calm, Emit, IsLive

LEMMA ReplyCalm ==
  ASSUME Calm, NEW t \in Tasks, Reply(t)
  PROVE  OneSession' /\ DeleteInv'
<1>1. task' = [task EXCEPT ![t] = Over("answered")]
  BY ReplyEnds DEF Calm
<1>2. task \in [Tasks -> TaskTypes]
  BY DEF Calm, BasicInv, TypeOK
<1>3. \A u \in Tasks : task'[u] = IF u = t THEN Over("answered") ELSE task[u]
  BY <1>1, <1>2
<1>4. ~IsLive(t)' /\ task'[t].obj = 0 /\ task'[t].pc # "starting"
  BY <1>3 DEF IsLive, Over, NoTask, Ended
<1>5. IsLive(t) /\ manager # 0
  BY ReplyEnds, InLine DEF Calm
<1>6. UNCHANGED <<db, manager, deleter, reaper, objs, running>>
  BY DEF Reply
<1>7. /\ running' \subseteq {objs'[manager].agent}
      /\ \A u \in Tasks : task'[u].pc = "starting" => running' = {}
  BY <1>3, <1>4, <1>5, <1>6 DEF Calm, OneSession
<1> QED
  BY <1>3, <1>4, <1>5, <1>6, <1>7, TaskMovesCalm

LEMMA DeleteCalm ==
  ASSUME Calm, DeleteStarts \/ DeleteStep
  PROVE  OneSession' /\ DeleteInv'
<1>1. CASE DeleteStarts
  <2>1. /\ manager # 0 => objs'[manager].terminating /\ objs'[manager].agent = objs[manager].agent
    <3>1. ASSUME manager # 0
          PROVE  objs'[manager].terminating /\ objs'[manager].agent = objs[manager].agent
      <4>1. manager \in 1 .. Len(objs) /\ objs[manager] \in ObjectTypes /\ objs \in Seq(ObjectTypes)
        BY <3>1, ManagerIsAnObject DEF Calm, BasicInv, TypeOK
      <4>2. DOMAIN objs = 1 .. Len(objs)
        BY <4>1, LenProperties
      <4>3. objs' = [objs EXCEPT ![manager] = [@ EXCEPT !.terminating = TRUE]]
        BY <1>1, <3>1 DEF DeleteStarts
      <4> QED
        BY <4>1, <4>2, <4>3 DEF ObjectTypes
    <3> QED
      BY <3>1
  <2> QED
    BY <1>1, <2>1 DEF OneSession, DeleteInv, Calm, DeleteStarts, IsLive
<1>2. CASE DeleteCancels
  <2>1. PICK p \in BOOLEAN :
          /\ Cancelled(Doomed(p))
          /\ p => deleter = "prewarm" /\ deleter' = "messages"
          /\ ~p => deleter = "messages" /\ deleter' = "stop"
    BY <1>2 DEF DeleteCancels
  <2>2. \A t \in Tasks : IsLive(t) => (t \in Doomed(p) <=> ((t = Prewarm) = p))
    BY DEF Doomed, Live, IsLive, Calm, OneSession
  <2>3. \A t \in Tasks : \/ task'[t] = task[t] /\ t \notin Doomed(p)
                         \/ task'[t] = Over("cancelled")
    BY <2>1 DEF Cancelled
  <2>4. /\ Over("cancelled").pc = "cancelled" /\ Over("cancelled").obj = 0
    BY DEF Over, NoTask
  <2>5. \A t \in Tasks : IsLive(t)' => IsLive(t) /\ task'[t] = task[t] /\ t \notin Doomed(p)
    BY <2>3, <2>4 DEF IsLive, Ended
  <2>6. \A t \in Tasks : task'[t].obj # 0 \/ task'[t].pc = "starting" => task'[t] = task[t]
    BY <2>3, <2>4
  <2>7. OneSession'
    BY <1>2, <2>5, <2>6 DEF Calm, OneSession, DeleteCancels
  <2>8. /\ deleter' = "messages" => ~IsLive(Prewarm)'
        /\ deleter' = "stop" => \A t \in Tasks : ~IsLive(t)'
    BY <2>1, <2>2, <2>5, TaskNumbers DEF Calm, DeleteInv
  <2>9. deleter' \in {"messages", "stop"} /\ deleter # "idle"
    BY <2>1
  <2> QED
    BY <1>2, <2>7, <2>8, <2>9, TaskNumbers DEF Calm, DeleteInv, DeleteCancels
<1>3. CASE DeleteStops
  <2>1. running' = {}
    BY <1>3, NobodyWithoutManager DEF DeleteStops, WithoutAgent, Calm, OneSession
  <2>2. manager # 0 => objs'[manager].terminating = objs[manager].terminating
    BY <1>3, ManagerIsAnObject, WithoutAgentType DEF DeleteStops, Calm, BasicInv
  <2> QED
    BY <1>3, <2>1, <2>2, TaskNumbers DEF Calm, OneSession, DeleteInv, DeleteStops, IsLive
<1>4. CASE DeleteRemoves
  <2>1. running = {} /\ \A t \in Tasks : ~IsLive(t) /\ task[t].obj = 0
    BY <1>4, InLine DEF DeleteRemoves, Calm, DeleteInv
  <2> QED
    BY <1>4, <2>1 DEF Calm, OneSession, DeleteInv, DeleteRemoves, IsLive
<1> QED
  BY <1>1, <1>2, <1>3, <1>4 DEF DeleteStep

LEMMA ReapCalm ==
  ASSUME Calm, odd' = {}, ReapPicks \/ ReapStops \/ ReapRemoves
  PROVE  OneSession' /\ DeleteInv'
<1>1. CASE ReapPicks
  <2>1. \A t \in Tasks : ~IsLive(t) /\ task[t].obj = 0
    <3>1. \A t \in Tasks : ~IsLive(t)
      BY <1>1 DEF ReapPicks, Busy, IsLive, Calm, OneSession
    <3> QED
      BY <3>1, InLine
  <2> QED
    BY <1>1, <2>1 DEF Calm, OneSession, DeleteInv, ReapPicks, IsLive
<1>2. ASSUME ReapStops \/ ReapRemoves
      PROVE  /\ deleter = "idle" /\ reaper.pc # "idle"
             /\ \A t \in Tasks : task[t].obj = 0
             /\ \A t \in Tasks : task[t].pc # "starting"
             /\ manager = 0 \/ ~Busy(reaper.obj)
  <2>1. ~Busy(reaper.obj) /\ deleter = "idle" /\ reaper.pc # "idle"
    BY <1>2 DEF ReapStops, ReapRemoves, Met, Calm
  <2> QED
    BY <2>1 DEF Calm, OneSession, BasicInv, LockInv
<1>3. CASE ReapStops
  <2>1. running' = {}
    <3>1. CASE manager = reaper.obj
      BY <1>3, <3>1 DEF ReapStops, WithoutAgent, Calm, OneSession
    <3>2. CASE manager # reaper.obj
      BY <1>2, <1>3, <3>2, NobodyWithoutManager DEF ReapStops, Calm, OneSession
    <3> QED
      BY <3>1, <3>2
  <2>2. manager # 0 => objs'[manager].terminating = objs[manager].terminating
    BY <1>3, ManagerIsAnObject, WithoutAgentType DEF ReapStops, Calm, BasicInv
  <2> QED
    BY <1>2, <1>3, <2>1, <2>2 DEF Calm, OneSession, DeleteInv, ReapStops, IsLive
<1>4. CASE ReapRemoves
  <2>1. running = {}
    BY <1>4 DEF ReapRemoves, Calm, OneSession
  <2>2. \A t \in Tasks : ~IsLive(t)
    <3>1. CASE manager = 0
      BY <3>1, NobodyWithoutManager
    <3>2. CASE manager # 0
      <4>1. manager = reaper.obj /\ ~Busy(reaper.obj)
        BY <1>2, <1>4, <3>2 DEF Calm, OneSession
      <4> QED
        BY <4>1 DEF Busy, IsLive, Calm, OneSession
    <3> QED
      BY <3>1, <3>2
  <2> QED
    BY <1>2, <1>4, <2>1, <2>2 DEF Calm, OneSession, DeleteInv, ReapRemoves, IsLive
<1> QED
  BY <1>1, <1>3, <1>4

LEMMA RestartCalm ==
  ASSUME BasicInv, Restart
  PROVE  OneSession' /\ DeleteInv'
<1>1. \A t \in Tasks : task'[t].obj = 0 /\ task'[t].pc \in {"none", "lost"}
  BY DEF Restart, NoTask, Over
<1> QED
  BY <1>1 DEF OneSession, DeleteInv, Restart, IsLive, Ended

LEMMA InitCalm == Init => OneSession /\ DeleteInv
BY TaskNumbers DEF Init, OneSession, DeleteInv, IsLive, NoTask, Ended

\* What was odd stays odd until the process restarts.
LEMMA OddStays ==
  ASSUME [Next]_vars, odd' = {}
  PROVE  odd = {} \/ Restart
BY DEF Next, vars, Create, SendMessage, UploadStarts, UploadEnds, ChangeSource, TaskStep,
       TaskStarts, FitAgent, AgentStarts, Emit, Reply, DeleteStarts, DeleteStep,
       DeleteCancels, DeleteStops, DeleteRemoves, ReapPicks, ReapStops, ReapRemoves, Met

LEMMA NextCalm ==
  ASSUME BasicInv, odd = {} => OneSession /\ DeleteInv, [Next]_vars, odd' = {}
  PROVE  OneSession' /\ DeleteInv'
<1>1. BasicInv'
  BY NextBasic
<1>2. CASE Restart
  BY <1>2, RestartCalm
<1>3. CASE odd = {}
  <2>1. Calm
    BY <1>3 DEF Calm
  <2>2. CASE UNCHANGED vars \/ \E s \in Sources : ChangeSource(s)
    BY <2>1, <2>2 DEF Calm, OneSession, DeleteInv, IsLive, vars, ChangeSource
  <2>3. CASE \E t \in Tasks : TaskStep(t)
    BY <1>1, <2>1, <2>3, TaskStartsCalm, FitAgentCalm, AgentStartsCalm, EmitCalm, ReplyCalm
    DEF TaskStep
  <2> QED
    BY <1>1, <1>2, <2>1, <2>2, <2>3, CreateCalm, MessageCalm, DeleteCalm, ReapCalm DEF Next
<1> QED
  BY <1>2, <1>3, OddStays

-----------------------------------------------------------------------------
(* The event queue.                                                        *)

\* RepliesDoNotInterleave without its condition, and what it needs of the tasks.
RepliesApart ==
  \A i, k \in DOMAIN log : i < k /\ log[i].task = log[k].task =>
    \A j \in i .. k - 1 : log[j].task = log[i].task /\ log[j].kind # "done"

QueueInv == LogInv /\ RepliesApart

LEMMA EmptyQueue == log = <<>> => QueueInv
BY DEF QueueInv, LogInv, RepliesApart

\* A task that ended stays ended, and one that streams goes on or ends.
TasksGoOn ==
  \A t \in Tasks : /\ task[t].pc \in Ended => task'[t].pc \in Ended
                   /\ task[t].pc = "streaming" => task'[t].pc \in {"streaming"} \cup Ended

LEMMA LogEntries ==
  ASSUME TypeOK
  PROVE  /\ Len(log) \in Nat /\ DOMAIN log = 1 .. Len(log)
         /\ \A i \in DOMAIN log : log[i].task \in Tasks
<1>1. Len(log) \in Nat /\ DOMAIN log = 1 .. Len(log)
  BY LenProperties DEF TypeOK
<1>2. \A i \in 1 .. Len(log) : log[i] \in [task : Tasks, kind : {"event", "error", "done"}]
  <2> DEFINE E == [task : Tasks, kind : {"event", "error", "done"}]
  <2>1. log \in Seq(E)
    BY DEF TypeOK
  <2> HIDE DEF E
  <2>2. \A i \in 1 .. Len(log) : log[i] \in E
    BY <2>1, ElementOfSeq
  <2> QED
    BY <2>2 DEF E
<1> QED
  BY <1>1, <1>2

LEMMA QueueFrame ==
  ASSUME TypeOK, QueueInv, UNCHANGED log, TasksGoOn
  PROVE  QueueInv'
BY LogEntries DEF QueueInv, LogInv, RepliesApart, TasksGoOn

\* A task puts what belongs to its reply behind the replies of tasks that ended.
LEMMA QueueGrows ==
  ASSUME TypeOK, QueueInv, TasksGoOn, NEW t \in Tasks, task[t].pc \notin Ended,
         NEW kinds \in {<<"event">>, <<"done">>, <<"error", "done">>}, Put(t, kinds),
         \A u \in Tasks : task[u].pc = "streaming" => u = t,
         IF kinds = <<"event">> THEN task'[t].pc = "streaming" ELSE task'[t].pc \in Ended
  PROVE  QueueInv'
<1> DEFINE N == Len(log)
           M == Len(log')
<1>1. /\ kinds \in Seq({"event", "error", "done"}) /\ Len(kinds) \in 1 .. 2
      /\ \A i \in 1 .. Len(kinds) : kinds[i] = "done" => i = Len(kinds) /\ kinds # <<"event">>
  <2>1. CASE kinds = <<"event">>
    BY <2>1
  <2>2. CASE kinds = <<"done">>
    <3>1. Len(kinds) = 1 /\ kinds[1] = "done" /\ "done" # "event" /\ <<"event">>[1] = "event"
      BY <2>2
    <3>2. kinds # <<"event">>
      BY <3>1
    <3> QED
      BY <2>2, <3>1, <3>2
  <2>3. CASE kinds = <<"error", "done">>
    <3>1. Len(kinds) = 2 /\ kinds[1] = "error" /\ "done" # "error" /\ Len(<<"event">>) = 1
      BY <2>3
    <3>2. kinds # <<"event">>
      BY <3>1
    <3> QED
      BY <2>3, <3>1, <3>2
  <2> QED
    BY <2>1, <2>2, <2>3
<1>2. /\ N \in Nat /\ M = N + Len(kinds)
      /\ DOMAIN log = 1 .. N /\ DOMAIN log' = 1 .. M
      /\ \A i \in 1 .. N : log'[i] = log[i]
      /\ \A i \in N + 1 .. M : log'[i].task = t /\ log'[i].kind = kinds[i - N]
  BY <1>1, PutAppends
<1>3. \A i \in N + 1 .. M : log'[i].kind = "done" => i = M /\ kinds # <<"event">>
  <2> SUFFICES ASSUME NEW i \in N + 1 .. M, log'[i].kind = "done"
               PROVE  i = M /\ kinds # <<"event">>
    OBVIOUS
  <2>1. i - N \in 1 .. Len(kinds) /\ kinds[i - N] = "done"
    BY <1>1, <1>2
  <2>2. i - N = Len(kinds) /\ kinds # <<"event">>
    BY <1>1, <2>1
  <2> QED
    BY <1>1, <1>2, <2>2
<1>4. \A i \in 1 .. N : log[i].task \in Tasks
  BY <1>2, LogEntries
<1>5. \A i \in 1 .. N : log[i].task # t => task[log[i].task].pc \in Ended
  BY <1>2, <1>4 DEF QueueInv, LogInv
<1>6. \A i \in 1 .. N : log[i].task = t => log[i].kind # "done"
  BY <1>2 DEF QueueInv, LogInv
<1>7. \A i, j \in 1 .. N : i < j /\ log[i].task = t => log[j].task = t
  BY <1>2 DEF QueueInv, LogInv
<1>8. LogInv'
  <2>1. task'[t].pc \in {"streaming"} \cup Ended
    OBVIOUS
  <2>2. \A i \in 1 .. M :
          /\ task'[log'[i].task].pc \in {"streaming"} \cup Ended
          /\ log'[i].kind = "done" => task'[log'[i].task].pc \in Ended
    <3>1. ASSUME NEW i \in 1 .. N
          PROVE  /\ task'[log'[i].task].pc \in {"streaming"} \cup Ended
                 /\ log'[i].kind = "done" => task'[log'[i].task].pc \in Ended
      BY <1>2, <1>4 DEF QueueInv, LogInv, TasksGoOn
    <3>2. ASSUME NEW i \in N + 1 .. M
          PROVE  /\ task'[log'[i].task].pc \in {"streaming"} \cup Ended
                 /\ log'[i].kind = "done" => task'[log'[i].task].pc \in Ended
      BY <1>2, <1>3, <2>1
    <3>3. \A i \in 1 .. M : i \in 1 .. N \/ i \in N + 1 .. M
      BY <1>1, <1>2
    <3> QED
      BY <3>1, <3>2, <3>3
  <2>3. ASSUME NEW i \in 1 .. M, NEW j \in 1 .. M, i < j
        PROVE  /\ log'[i].task # log'[j].task => task'[log'[i].task].pc \in Ended
               /\ log'[i].kind = "done" => log'[i].task # log'[j].task
    <3>1. CASE j \in 1 .. N
      <4>1. i \in 1 .. N
        BY <1>2, <2>3, <3>1
      <4> QED
        BY <1>2, <1>4, <2>3, <3>1, <4>1 DEF QueueInv, LogInv, TasksGoOn
    <3>2. CASE i \in 1 .. N /\ j \in N + 1 .. M
      BY <1>2, <1>4, <1>5, <1>6, <3>2 DEF TasksGoOn
    <3>3. CASE i \in N + 1 .. M /\ j \in N + 1 .. M
      <4>1. i # M
        BY <1>1, <1>2, <2>3
      <4> QED
        BY <1>2, <1>3, <3>3, <4>1
    <3>4. \/ j \in 1 .. N
          \/ i \in 1 .. N /\ j \in N + 1 .. M
          \/ i \in N + 1 .. M /\ j \in N + 1 .. M
      BY <1>1, <1>2, <2>3
    <3> QED
      BY <3>1, <3>2, <3>3, <3>4
  <2> QED
    BY <1>2, <2>2, <2>3 DEF LogInv
<1>9. RepliesApart'
  <2> SUFFICES ASSUME NEW i \in 1 .. M, NEW k \in 1 .. M, i < k,
                      log'[i].task = log'[k].task, NEW j \in i .. k - 1
               PROVE  log'[j].task = log'[i].task /\ log'[j].kind # "done"
    BY <1>2 DEF RepliesApart
  <2>1. j \in 1 .. M /\ j < k /\ i <= j /\ i \in Nat /\ j \in Nat /\ k \in Nat /\ M \in Nat
    BY <1>1, <1>2
  <2>2. CASE k \in 1 .. N
    <3>1. i \in 1 .. N /\ j \in 1 .. N
      BY <1>2, <2>1, <2>2
    <3> QED
      BY SMTT(30), <1>2, <2>2, <3>1 DEF QueueInv, RepliesApart
  <2>3. CASE k \in N + 1 .. M
    <3>1. log'[i].task = t
      BY <1>2, <2>3
    <3>2. CASE j \in N + 1 .. M
      <4>1. j # M
        BY <1>1, <1>2, <2>1
      <4> QED
        BY <1>2, <1>3, <3>1, <3>2, <4>1
    <3>3. CASE j \in 1 .. N
      <4>1. i \in 1 .. N /\ log[i].task = t
        BY <1>2, <2>1, <3>1, <3>3
      <4>2. log[j].task = t
        BY <1>7, <2>1, <3>3, <4>1
      <4> QED
        BY <1>2, <1>6, <3>1, <3>3, <4>2
    <3> QED
      BY <1>1, <1>2, <2>1, <3>2, <3>3
  <2> QED
    BY <1>1, <1>2, <2>2, <2>3
<1> QED
  BY <1>8, <1>9 DEF QueueInv

\* A task changes only by its own steps, a cancellation and a restart, and a message
\* that is scheduled had no task before.
LEMMA NextGoesOn ==
  ASSUME BasicInv, [Next]_vars
  PROVE  TasksGoOn
<1>1. task \in [Tasks -> TaskTypes] /\ \A t \in Tasks : task[t] \in TaskTypes
  BY DEF BasicInv, TypeOK
<1>2. CASE task' = task
  BY <1>2 DEF TasksGoOn
<1>3. CASE Create
  <2>1. \A t \in Tasks : task[t].pc = "none"
    BY <1>3 DEF Create, BasicInv, LockInv, NothingYet
  <2> QED
    BY <2>1 DEF TasksGoOn, Ended
<1>4. CASE Schedule /\ sent < MaxMessages
  <2>1. sent + 1 \in Tasks /\ sent + 1 > sent
    BY <1>4, TaskNumbers DEF BasicInv, TypeOK, Tasks
  <2>2. task[sent + 1].pc = "none"
    BY <2>1 DEF BasicInv, LockInv
  <2>3. \A t \in Tasks : t # sent + 1 => task'[t] = task[t]
    BY <1>1, <1>4 DEF Schedule
  <2> QED
    BY <2>2, <2>3 DEF TasksGoOn, Ended
<1>5. ASSUME NEW t \in Tasks, TaskStep(t)
      PROVE  TasksGoOn
  <2>1. \A u \in Tasks : u # t => task'[u] = task[u]
    BY <1>1, <1>5 DEF TaskStep, TaskStarts, FitAgent, AgentStarts, Emit, Reply, Finish
  <2>2. task[t].pc \in {"ready", "waiting", "starting", "streaming"}
    BY <1>5 DEF TaskStep, TaskStarts, FitAgent, AgentStarts, Emit, Reply
  <2>3. task[t].pc = "streaming" => task'[t].pc \in {"streaming"} \cup Ended
    <3>1. CASE Emit(t)
      BY <1>1, <3>1 DEF Emit, TaskTypes
    <3>2. CASE Reply(t)
      BY <1>1, <3>2 DEF Reply, Finish, Over, NoTask, Ended
    <3> QED
      BY <1>5, <3>1, <3>2 DEF TaskStep, TaskStarts, FitAgent, AgentStarts
  <2> QED
    BY <2>1, <2>2, <2>3 DEF TasksGoOn, Ended
<1>6. CASE DeleteCancels
  <2>1. \A p \in BOOLEAN : \A t \in Doomed(p) : task[t].pc \notin Ended
    BY DEF Doomed, Live
  <2>2. Over("cancelled").pc = "cancelled"
    BY DEF Over, NoTask
  <2> QED
    BY <1>6, <2>1, <2>2 DEF DeleteCancels, Cancelled, TasksGoOn, Ended
<1>7. CASE Restart
  <2>1. Over("lost").pc = "lost"
    BY DEF Over, NoTask
  <2> QED
    BY <1>7, <2>1 DEF Restart, TasksGoOn, Ended
<1>8. CASE SendMessage
  <2>1. sent < MaxMessages
    BY <1>8, TaskNumbers DEF SendMessage, BasicInv, TypeOK
  <2> QED
    BY <1>4, <1>8, <2>1 DEF SendMessage
<1>9. CASE UploadEnds
  BY <1>4, <1>9 DEF UploadEnds, BasicInv, LockInv
<1> QED
  BY <1>2, <1>3, <1>5, <1>6, <1>7, <1>8, <1>9
  DEF Next, vars, UploadStarts, ChangeSource, DeleteStarts, DeleteStep, DeleteStops,
      DeleteRemoves, ReapPicks, ReapStops, ReapRemoves

LEMMA NextQueue ==
  ASSUME BasicInv, odd = {} => OneSession /\ DeleteInv,
         odd = {} /\ deleter = "idle" => QueueInv,
         [Next]_vars, odd' = {}, deleter' = "idle"
  PROVE  QueueInv'
<1>1. TasksGoOn /\ TypeOK
  BY NextGoesOn DEF BasicInv
<1>2. CASE Restart \/ DeleteRemoves
  <2>1. log' = <<>>
    BY <1>2 DEF Restart, DeleteRemoves
  <2> QED
    BY <2>1 DEF QueueInv, LogInv, RepliesApart
<1>3. CASE ~(Restart \/ DeleteRemoves)
  <2>1. deleter = "idle" /\ odd = {}
    <3>1. odd = {}
      BY <1>3, OddStays
    <3>2. deleter = "idle"
      BY <1>3
      DEF Next, vars, Create, SendMessage, UploadStarts, UploadEnds, ChangeSource, TaskStep,
          TaskStarts, FitAgent, AgentStarts, Emit, Reply, DeleteStarts, DeleteStep,
          DeleteCancels, DeleteStops, ReapPicks, ReapStops, ReapRemoves
    <3> QED
      BY <3>1, <3>2
  <2>2. QueueInv /\ Calm
    BY <2>1 DEF Calm
  <2>3. CASE UNCHANGED log
    BY <1>1, <2>2, <2>3, QueueFrame
  <2>4. ASSUME NEW t \in Tasks, HoldsLock(t), task[t].obj # 0
        PROVE  \A u \in Tasks : task[u].pc = "streaming" => u = t
    BY <2>2, <2>4, InLine, PastWaiting, OneHolder DEF Calm
  <2>5. ASSUME NEW t \in Tasks, Emit(t)
        PROVE  QueueInv'
    <3>1. HoldsLock(t) /\ task[t].obj # 0 /\ task[t].pc = "streaming"
      BY <2>5, PastWaiting DEF Emit
    <3>2. task'[t].pc = "streaming" /\ Put(t, <<"event">>)
      BY <2>5, <3>1 DEF Emit, BasicInv, TypeOK, TaskTypes
    <3>3. task[t].pc \notin Ended
      BY <3>1 DEF Ended
    <3> QED
      BY <1>1, <2>2, <2>4, <3>1, <3>2, <3>3, QueueGrows
  <2>6. ASSUME NEW t \in Tasks, Reply(t)
        PROVE  QueueInv'
    <3>1. /\ HoldsLock(t) /\ task[t].obj # 0
          /\ task[t].pc \notin Ended
          /\ task'[t] = Over("answered")
      BY <2>6, ReplyEnds DEF BasicInv, TypeOK, Ended
    <3>2. task'[t].pc \in Ended
      BY <3>1 DEF Over, NoTask, Ended
    <3>3. CASE Put(t, <<"done">>)
      <4>1. <<"done">> # <<"event">>
        <5>1. <<"done">>[1] # <<"event">>[1]
          OBVIOUS
        <5> QED
          BY <5>1
      <4> QED
        BY <1>1, <2>2, <2>4, <3>1, <3>2, <3>3, <4>1, QueueGrows
    <3>4. CASE Put(t, <<"error", "done">>)
      <4>1. <<"error", "done">> # <<"event">>
        <5>1. <<"error", "done">>[1] # <<"event">>[1]
          OBVIOUS
        <5> QED
          BY <5>1
      <4> QED
        BY <1>1, <2>2, <2>4, <3>1, <3>2, <3>4, <4>1, QueueGrows
    <3> QED
      BY <2>3, <2>6, <3>3, <3>4, ReplyEnds
  <2>7. ASSUME NEW t \in Tasks, TaskStarts(t)
        PROVE  UNCHANGED log
    <3>1. manager # 0 /\ task[t].pc = "ready"
      BY <2>2, <2>7 DEF TaskStarts, Calm, OneSession, IsLive, Ended, BasicInv, LockInv
    <3>2. ~Objects[Registered].terminating
      BY <2>1, <2>2, <3>1, ObjectsGrow, ManagerIsAnObject DEF Calm, DeleteInv, BasicInv, ObjectTypes
    <3> QED
      BY <2>7, <3>2 DEF TaskStarts
  <2>8. CASE UNCHANGED vars
    BY <2>3, <2>8 DEF vars
  <2> QED
    BY <1>3, <2>3, <2>5, <2>6, <2>7, <2>8
    DEF Next, Create, SendMessage, UploadStarts, UploadEnds, ChangeSource, TaskStep, FitAgent,
        AgentStarts, DeleteStarts, DeleteStep, DeleteCancels, DeleteStops, ReapPicks,
        ReapStops, ReapRemoves
<1> QED
  BY <1>2, <1>3

-----------------------------------------------------------------------------
(* The theorems.                                                           *)

\* SessionInv with the order of the replies, which it needs of the queue.
FullInv ==
  /\ BasicInv
  /\ odd = {} => OneSession /\ DeleteInv
  /\ odd = {} /\ deleter = "idle" => QueueInv

LEMMA FullHolds == Spec => []FullInv
<1>1. Init => FullInv
  <2>1. Init => log = <<>>
    BY DEF Init
  <2> QED
    BY <2>1, InitBasic, InitCalm, EmptyQueue DEF FullInv
<1>2. FullInv /\ [Next]_vars => FullInv'
  BY NextBasic, NextCalm, NextQueue DEF FullInv
<1> QED
  BY <1>1, <1>2, PTL DEF Spec

\* No two messages of a session are ever past its lock, and until an upload outlives a
\* DELETE or the reaper meets a busy session every task and the only running agent
\* belong to the one session object: for any number of messages, events and turns.
THEOREM SessionIsSound == Spec => []SessionInv
<1>1. FullInv => SessionInv
  BY DEF FullInv, SessionInv, BasicInv, QueueInv
<1> QED
  BY <1>1, FullHolds, PTL

\* Two replies never mix in the event queue of a conversation: each is whole and ends
\* with one "done", whatever is cancelled, fails or restarts on the way.
THEOREM RepliesStayApart == Spec => []RepliesDoNotInterleave
<1>1. FullInv => RepliesDoNotInterleave
  BY DEF FullInv, RepliesDoNotInterleave, QueueInv, RepliesApart
<1> QED
  BY <1>1, FullHolds, PTL

\* After a DELETE no session, agent or task of the conversation is left, and no agent
\* ever runs that the registered session does not own.
THEOREM DeletedConversationsAreGone == Spec => []NothingLeaks
<1>1. FullInv => NothingLeaks
  <2> SUFFICES ASSUME FullInv PROVE NothingLeaks
    OBVIOUS
  <2>1. NoAgentLeaks
    BY DEF FullInv, OneSession, NoAgentLeaks
  <2>2. DeletedStaysGone
    <3> SUFFICES ASSUME db = "deleted", deleter = "idle", odd = {}
                 PROVE  /\ manager = 0
                        /\ running = {}
                        /\ \A t \in Tasks : task[t].pc \in Ended \cup {"none"}
      BY DEF DeletedStaysGone
    <3>1. Calm /\ manager = 0
      BY DEF FullInv, Calm, DeleteInv
    <3> QED
      BY <3>1, NobodyWithoutManager DEF IsLive
  <2> QED
    BY <2>1, <2>2 DEF NothingLeaks
<1> QED
  BY <1>1, FullHolds, PTL
=============================================================================
