----------------------------- MODULE HotFolder -----------------------------
(***************************************************************************)
(* The watched folders of the server: cli/watchdog_service.py, the         *)
(* callback and the startup of api/main.py, and the rules of               *)
(* cli/auto_confirm.py.  Every folder is seen through one file name; what  *)
(* is dropped under it is numbered.  Users of the same server connect      *)
(* sources to the same gateway.                                            *)
(***************************************************************************)
EXTENDS Naturals, FiniteSets

CONSTANTS None,
  Folders,      \* watched folders, each with one file name
  FolderRules,  \* folder -> [auto, cost, rows]: a limit of None is the global one
  GlobalRules,  \* [cost, top, rows, services, addresses, warnings]
  Previews,     \* what previews can come to: [rows, cost, top, services]
  MaxDrops      \* bounds the files dropped

VARIABLES
  watchdog,  \* off; scanned: the backlog is listed; watching: the observer runs
  dropped,   \* the number of files dropped so far
  inbox,     \* the file in each folder: [file, whole], or None
  timer,     \* the folders whose debounce timer runs
  fired,     \* callbacks of a folder that wait for the processing lock
  worker,    \* the callback of a folder that holds it: [file, at, disturbed, ...]
  filed,     \* [folder, place, stamp, file]: the files in the three subdirectories
  source,    \* what the gateway holds: a file, "user", or None
  batches,   \* [file, of, preview, status]: the jobs made for a file
  clashed    \* the files overwritten by a move of the same name in the same second

hotVars == <<watchdog, dropped, inbox, timer, fired, worker, filed, source, batches, clashed>>

FileIds == 1..MaxDrops
Places == {".processing", "processed", "failed"}

TypeOK ==
  /\ watchdog \in {"off", "scanned", "watching"}
  /\ dropped \in 0..MaxDrops
  /\ \A f \in Folders :
       /\ inbox[f] # None => inbox[f] \in [file : FileIds, whole : BOOLEAN]
       /\ worker[f] # None => worker[f].at \in {"claimed", "imported", "previewed", "running"}
  /\ timer \subseteq Folders
  /\ fired \in [Folders -> 0..2]
  /\ \A x \in filed : x.folder \in Folders /\ x.place \in Places /\ x.file \in FileIds \cup {0}
  /\ source \in FileIds \cup {0, None}
  /\ clashed \subseteq FileIds \cup {0}

\* A file of the name was processed before, in every folder.
Init ==
  /\ watchdog = "off"
  /\ dropped = 0
  /\ inbox = [f \in Folders |-> None]
  /\ timer = {}
  /\ fired = [f \in Folders |-> 0]
  /\ worker = [f \in Folders |-> None]
  /\ filed = {[folder |-> f, place |-> "processed", stamp |-> 0, file |-> 0] : f \in Folders}
  /\ source = None
  /\ batches = {}
  /\ clashed = {}

-----------------------------------------------------------------------------
\* Someone starts to write a file into the folder, or goes on with it: the observer
\* sets the timer anew.
Write(f) ==
  /\ \/ /\ inbox[f] = None
        /\ dropped < MaxDrops
        /\ dropped' = dropped + 1
        /\ \E whole \in BOOLEAN : inbox' = [inbox EXCEPT ![f] = [file |-> dropped + 1, whole |-> whole]]
     \/ /\ inbox[f] # None /\ ~inbox[f].whole
        /\ inbox' = [inbox EXCEPT ![f].whole = TRUE]
        /\ UNCHANGED dropped
  /\ timer' = IF watchdog = "watching" THEN timer \cup {f} ELSE timer
  /\ UNCHANGED <<watchdog, fired, worker, filed, source, batches, clashed>>

\* The timer of a file expires, two seconds after the last event.
Fire(f) ==
  /\ f \in timer
  /\ fired[f] < 2
  /\ timer' = timer \ {f}
  /\ fired' = [fired EXCEPT ![f] = @ + 1]
  /\ UNCHANGED <<watchdog, dropped, inbox, worker, filed, source, batches, clashed>>

\* The lifespan handler lists the files it finds, and starts a callback for each.
Scan ==
  /\ watchdog = "off"
  /\ watchdog' = "scanned"
  /\ fired' = [f \in Folders |-> IF inbox[f] # None THEN 1 ELSE 0]
  /\ UNCHANGED <<dropped, inbox, timer, worker, filed, source, batches, clashed>>

StartObserver ==
  /\ watchdog = "scanned"
  /\ watchdog' = "watching"
  /\ UNCHANGED <<dropped, inbox, timer, fired, worker, filed, source, batches, clashed>>

-----------------------------------------------------------------------------
\* The names taken in a subdirectory of the folder.
Taken(f, place) == {x.stamp : x \in {y \in filed : y.folder = f /\ y.place = place}}

\* The mutant: the name is used whether it is taken or not.
PlainName(f, place) == {0}

\* _collision_safe_name: the name itself if it is free, or else the name with the time
\* in seconds, which another move of this second may have taken.
SafeNames(f, place) ==
  IF 0 \notin Taken(f, place) THEN {0}
  ELSE {n \in 1..MaxDrops : \A k \in 1..(n - 1) : k \in Taken(f, place)}

\* shutil.move replaces a file that has the name.
Move(f, x, place) ==
  \E n \in SafeNames(f, place) :
    LET there == {y \in filed : y.folder = f /\ y.place = place /\ y.stamp = n}
    IN  /\ filed' = ({y \in filed : y.file # x} \ there)
                      \cup {[folder |-> f, place |-> place, stamp |-> n, file |-> x]}
        /\ clashed' = IF n = 0 THEN clashed ELSE clashed \cup {y.file : y \in there}

\* The mutant: one lock for each folder.
FolderLockFree(f) == worker[f] = None

\* One lock for every folder.
LockFree(f) == \A g \in Folders : worker[g] = None

\* The mutant: the file stays where it was found.
CopyOut(f) == UNCHANGED inbox

\* The file is moved away.
MoveOut(f) == inbox' = [inbox EXCEPT ![f] = None]

\* The callback gets the lock and claims the file by moving it, so that a second
\* callback for the same file finds nothing.
Claim(f) ==
  /\ watchdog # "off"
  /\ fired[f] > 0
  /\ LockFree(f)
  /\ fired' = [fired EXCEPT ![f] = @ - 1]
  /\ IF inbox[f] = None THEN UNCHANGED <<inbox, worker, filed, clashed>>
     ELSE /\ worker' = [worker EXCEPT ![f] = [file |-> inbox[f].file, at |-> "claimed",
                                              disturbed |-> FALSE]]
          /\ Move(f, inbox[f].file, ".processing")
          /\ MoveOut(f)
  /\ UNCHANGED <<watchdog, dropped, timer, source, batches>>

\* The callback ends, with the file in its last place.
File(f, place) ==
  /\ Move(f, worker[f].file, place)
  /\ worker' = [worker EXCEPT ![f] = None]

\* The file is imported, and with it what was connected is gone.
Import(f) ==
  /\ worker[f] # None /\ worker[f].at = "claimed"
  /\ source' = worker[f].file
  /\ worker' = [worker EXCEPT ![f].at = "imported", ![f].disturbed = FALSE]
  /\ UNCHANGED <<watchdog, dropped, inbox, timer, fired, filed, batches, clashed>>

\* The agent runs the command of the folder on what the gateway holds, and its preview
\* makes a job; or it makes none, and the callback is done.
Preview(f) ==
  /\ worker[f] # None /\ worker[f].at = "imported"
  /\ \/ /\ source # None
        /\ \E p \in Previews :
             batches' = batches \cup {[file |-> worker[f].file, of |-> source, folder |-> f,
                                       disturbed |-> worker[f].disturbed,
                                       preview |-> p, status |-> "pending"]}
        /\ worker' = [worker EXCEPT ![f].at = "previewed"]
        /\ UNCHANGED <<filed, clashed>>
     \/ /\ File(f, "processed")
        /\ UNCHANGED batches
  /\ UNCHANGED <<watchdog, dropped, inbox, timer, fired, source>>

\* The mutant: the folder can raise the limits.
Highest(own, global) == IF own # None /\ own > global THEN own ELSE global

\* A limit of the folder that is unset, or zero, is the global one.
Limit(own, global) == IF own \notin {None, 0} THEN own ELSE global

\* The rules a preview violates (cli/auto_confirm.py).  The callback reports every
\* address as unverified and with warnings, and no row as unreadable.
Violations(f, p) ==
  {rule \in {"max_rows", "max_cost_cents", "max_cost_per_row_cents", "allowed_services",
             "require_valid_addresses"} :
     \/ rule = "max_rows" /\ p.rows > Limit(FolderRules[f].rows, GlobalRules.rows)
     \/ rule = "max_cost_cents" /\ p.cost > Limit(FolderRules[f].cost, GlobalRules.cost)
     \/ rule = "max_cost_per_row_cents" /\ p.top > GlobalRules.top
     \/ /\ rule = "allowed_services"
        /\ GlobalRules.services # {}
        /\ ~(p.services \subseteq GlobalRules.services)
     \/ rule = "require_valid_addresses" /\ GlobalRules.addresses}

\* The job of the callback.
JobOf(f) == CHOOSE b \in batches : b.file = worker[f].file

SetStatus(b, status) == batches' = (batches \ {b}) \cup {[b EXCEPT !.status = status]}

\* A folder without auto_confirm, or a preview that violates a rule, leaves the job
\* pending; the folder's own rules are enabled, whatever the global switch says.
Decide(f) ==
  /\ worker[f] # None /\ worker[f].at = "previewed"
  /\ LET b == JobOf(f)
     IN  IF FolderRules[f].auto /\ b.status = "pending" /\ Violations(f, b.preview) = {}
         THEN /\ SetStatus(b, "running")
              /\ worker' = [worker EXCEPT ![f].at = "running"]
              /\ UNCHANGED <<filed, clashed>>
         ELSE /\ File(f, "processed")
              /\ UNCHANGED batches
  /\ UNCHANGED <<watchdog, dropped, inbox, timer, fired, source>>

\* execute_batch returns.
Execute(f) ==
  /\ worker[f] # None /\ worker[f].at = "running"
  /\ SetStatus(JobOf(f), "ended")
  /\ File(f, "processed")
  /\ UNCHANGED <<watchdog, dropped, inbox, timer, fired, source>>

\* An exception at any await: the file goes to failed/, the job stays as it is.
Fail(f) ==
  /\ worker[f] # None
  /\ File(f, "failed")
  /\ UNCHANGED <<watchdog, dropped, inbox, timer, fired, source, batches>>

-----------------------------------------------------------------------------
\* A user connects another source to the gateway, or confirms a pending job.
UserConnects ==
  /\ source' = 0
  /\ worker' = [f \in Folders |->
                  IF worker[f] = None THEN None ELSE [worker[f] EXCEPT !.disturbed = TRUE]]
  /\ UNCHANGED <<watchdog, dropped, inbox, timer, fired, filed, batches, clashed>>

UserConfirms ==
  /\ \E b \in batches : b.status = "pending" /\ SetStatus(b, "by user")
  /\ UNCHANGED <<watchdog, dropped, inbox, timer, fired, worker, filed, source, clashed>>

\* The server stops or dies: what was claimed stays in .processing, and nothing looks
\* for it there again.
Crash ==
  /\ watchdog # "off"
  /\ watchdog' = "off"
  /\ timer' = {}
  /\ fired' = [f \in Folders |-> 0]
  /\ worker' = [f \in Folders |-> None]
  /\ source' = None
  /\ UNCHANGED <<dropped, inbox, filed, batches, clashed>>

Next ==
  \/ \E f \in Folders :
       \/ Write(f) \/ Fire(f) \/ Claim(f) \/ Import(f)
       \/ Preview(f) \/ Decide(f) \/ Execute(f) \/ Fail(f)
  \/ Scan \/ StartObserver \/ UserConnects \/ UserConfirms \/ Crash

-----------------------------------------------------------------------------
\* The processing lock keeps the source of one file from the batch of another: unless
\* a user connects a source meanwhile, the job made for a file has the rows of that
\* file (main.py:114).
WatchedJobIsOfItsFile == \A b \in batches : ~b.disturbed => b.of = b.file

\* A file is batched at most once, however many callbacks the backlog, the observer and
\* a restart start for it.
BatchedOnce == \A b, c \in batches : b.file = c.file => b = c

\* Every file that was dropped is in one place, unless a later file of the same name
\* was moved in the same second.
FilesAreKept ==
  \A x \in 1..dropped :
    \/ x \in clashed
    \/ Cardinality({y \in filed : y.file = x})
         + Cardinality({f \in Folders : inbox[f] # None /\ inbox[f].file = x}) = 1

\* What a folder ships unattended it was set to confirm, and no limit on cost, neither
\* the folder's nor, where it has none, the global one, is exceeded by its preview.
UnattendedIsWithinLimits ==
  \A b \in batches :
    b.status \in {"running", "ended"} =>
      /\ FolderRules[b.folder].auto
      /\ b.preview.top <= GlobalRules.top
      /\ b.preview.cost <= IF FolderRules[b.folder].cost \in {None, 0} THEN GlobalRules.cost
                           ELSE FolderRules[b.folder].cost
=============================================================================
