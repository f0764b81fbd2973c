--------------------------- MODULE DaemonControl ----------------------------
(***************************************************************************)
(* shipagent daemon start and stop: the PID file that tells the commands   *)
(* which process is the daemon, and the processes.  A started process runs *)
(* the server's startup, recovery of interrupted jobs included, before it  *)
(* binds its port.  The operating system and uvicorn are external.         *)
(***************************************************************************)
EXTENDS Naturals, FiniteSets

CONSTANTS
  Pids,       \* the process ids the starts get
  NoPid,
  MaxStopCmds \* bounds the stop commands

VARIABLES
  pidFile,   \* its content, or NoPid when there is none
  proc,      \* pid -> what the process of that id is doing
  found,     \* pid -> what its start read in the file
  bound,     \* the process that has the port, or NoPid
  stopping,  \* the process the stop command waits for, or NoPid
  overlaps,  \* history: two commands overlapped, or a stop stopped waiting
  stopCmds

daemonVars == <<pidFile, proc, found, bound, stopping, overlaps, stopCmds>>

TypeOK ==
  /\ {pidFile, bound, stopping} \subseteq Pids \cup {NoPid}
  /\ proc \in [Pids -> {"none", "reading", "clear", "recovering", "serving",
                        "draining", "gone", "stranger"}]
  /\ found \in [Pids -> Pids \cup {NoPid}]
  /\ overlaps \in BOOLEAN
  /\ stopCmds \in 0 .. MaxStopCmds

Init ==
  /\ pidFile = NoPid
  /\ proc = [p \in Pids |-> "none"]
  /\ found = [p \in Pids |-> NoPid]
  /\ bound = NoPid
  /\ stopping = NoPid
  /\ overlaps = FALSE
  /\ stopCmds = 0

Goes(p, s) == proc' = [proc EXCEPT ![p] = s]
Starting   == {p \in Pids : proc[p] \in {"reading", "clear", "recovering"}}
Commanded  == Starting # {} \/ stopping # NoPid

\* start_daemon reads the file.
ReadRecord(p) ==
  /\ proc[p] = "none"
  /\ Goes(p, "reading")
  /\ found' = [found EXCEPT ![p] = pidFile]
  /\ overlaps' = (overlaps \/ Commanded)
  /\ UNCHANGED <<pidFile, bound, stopping, stopCmds>>

\* is_pid_alive: some process has the id, and its command line is ours; when ps
\* fails its existence is enough.
Alive(p, psWorks) ==
  \/ proc[p] \in {"reading", "clear", "recovering", "serving", "draining"}
  \/ proc[p] = "stranger" /\ ~psWorks

\* Mutant of CheckRecord: a start takes any record for a stale one.
CheckNothing(p, psWorks) ==
  /\ proc[p] = "reading"
  /\ Goes(p, "clear")
  /\ pidFile' = NoPid
  /\ UNCHANGED <<found, bound, stopping, overlaps, stopCmds>>

\* A live daemon on record ends the start; a stale record is removed.
CheckRecord(p, psWorks) ==
  /\ proc[p] = "reading"
  /\ IF found[p] # NoPid /\ Alive(found[p], psWorks)
       THEN Goes(p, "gone") /\ UNCHANGED pidFile
       ELSE /\ Goes(p, "clear")
            /\ pidFile' = IF found[p] = NoPid THEN pidFile ELSE NoPid
  /\ UNCHANGED <<found, bound, stopping, overlaps, stopCmds>>

WriteRecord(p) ==
  /\ proc[p] = "clear"
  /\ pidFile' = p
  /\ Goes(p, "recovering")
  /\ UNCHANGED <<found, bound, stopping, overlaps, stopCmds>>

\* uvicorn binds the port after the server's startup; when it is taken, it exits.
Bind(p) ==
  /\ proc[p] = "recovering"
  /\ IF bound = NoPid THEN bound' = p /\ Goes(p, "serving")
                      ELSE UNCHANGED bound /\ Goes(p, "draining")
  /\ UNCHANGED <<pidFile, found, stopping, overlaps, stopCmds>>

\* A signal of the terminal or of a stop: the port is free at once, while the
\* requests and the batches under way end.
Signalled(p) ==
  /\ proc[p] = "serving"
  /\ Goes(p, "draining")
  /\ bound' = NoPid

Interrupt(p) ==
  /\ Signalled(p)
  /\ UNCHANGED <<pidFile, found, stopping, overlaps, stopCmds>>

\* The finally of start_daemon removes the file, whoever it names.
Exit(p) ==
  /\ proc[p] = "draining"
  /\ Goes(p, "gone")
  /\ pidFile' = NoPid
  /\ UNCHANGED <<found, bound, stopping, overlaps, stopCmds>>

Kill(p) ==
  /\ proc[p] \in {"clear", "recovering", "serving", "draining"}
  /\ Goes(p, "gone")
  /\ bound' = IF bound = p THEN NoPid ELSE bound
  /\ UNCHANGED <<pidFile, found, stopping, overlaps, stopCmds>>

\* The id of a dead process is given to another program.
Reuse(p) ==
  /\ proc[p] = "gone"
  /\ p # stopping
  /\ Goes(p, "stranger")
  /\ UNCHANGED <<pidFile, found, bound, stopping, overlaps, stopCmds>>

\* stop_daemon: a stale record is removed, a live process gets SIGTERM.
Stop(psWorks) ==
  /\ stopping = NoPid
  /\ pidFile # NoPid
  /\ stopCmds < MaxStopCmds
  /\ stopCmds' = stopCmds + 1
  /\ IF ~Alive(pidFile, psWorks)
       THEN pidFile' = NoPid /\ UNCHANGED <<proc, bound, stopping>>
       ELSE /\ stopping' = pidFile
            /\ \/ Signalled(pidFile)
               \/ proc[pidFile] # "serving" /\ UNCHANGED <<proc, bound>>
            /\ UNCHANGED pidFile
  /\ overlaps' = (overlaps \/ Commanded)
  /\ UNCHANGED found

\* Mutant of Stopped: waits for nothing.
StoppedAtOnce ==
  /\ stopping # NoPid
  /\ pidFile' = NoPid
  /\ stopping' = NoPid
  /\ UNCHANGED <<proc, found, bound, overlaps, stopCmds>>

\* The process is gone, or ten seconds are over: the file is removed.
Stopped ==
  /\ stopping # NoPid
  /\ overlaps' = (overlaps \/ proc[stopping] # "gone")
  /\ pidFile' = NoPid
  /\ stopping' = NoPid
  /\ UNCHANGED <<proc, found, bound, stopCmds>>

Next ==
  \/ \E p \in Pids :
       \/ ReadRecord(p)
       \/ \E psWorks \in BOOLEAN : CheckRecord(p, psWorks)
       \/ WriteRecord(p)
       \/ Bind(p)
       \/ Interrupt(p)
       \/ Exit(p)
       \/ Kill(p)
       \/ Reuse(p)
  \/ \E psWorks \in BOOLEAN : Stop(psWorks)
  \/ Stopped

-----------------------------------------------------------------------------
\* As long as commands do not overlap and no stop gives up waiting, a daemon that
\* serves is the one on record, so it can be stopped.
ServingIsOnRecord ==
  ~overlaps => \A p \in Pids : proc[p] = "serving" => pidFile = p

\* As long as they do not, the recovery of a starting server runs when no other
\* server is there whose batches it would take for interrupted.
RecoversAlone ==
  ~overlaps => Cardinality({p \in Pids :
                 proc[p] \in {"recovering", "serving", "draining"}}) <= 1
=============================================================================
