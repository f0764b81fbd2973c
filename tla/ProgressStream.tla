--------------------------- MODULE ProgressStream ---------------------------
(***************************************************************************)
(* The progress of one job as its pages see it: the observer of            *)
(* orchestrator/batch/sse_observer.py, the stream and the counters of      *)
(* api/routes/progress.py, and the events api/routes/preview.py sends.     *)
(*                                                                         *)
(* The observer keeps at most one queue for the job.  Every connection     *)
(* takes from the queue it was given, whether the observer still keeps     *)
(* that queue or not, and whichever connection ends first makes the        *)
(* observer forget it.                                                     *)
(***************************************************************************)
EXTENDS Naturals, Sequences, FiniteSets

CONSTANTS None,
  MaxStreams, \* bounds the connections of EventSource, numbered in the order they are
              \* made; a tab that reconnects makes a new one
  BatchRows,  \* the rows of the job
  MaxQueues   \* bounds the queues the observer may create

VARIABLES
  queue,    \* the queue the observer keeps, or None
  waiting,  \* the events of each queue created so far
  stream,   \* what each connection is doing, on which queue, what it has shown
  emitted,  \* the events of the batch, in order
  counted,  \* the rows the counters of the job include, as committed
  batch     \* idle, running, or the status the job ended with

streamVars == <<queue, waiting, stream, emitted, counted, batch>>

Streams == 1..MaxStreams

Event(kind, r) == [event |-> kind, row |-> r]
Ends == {"batch_completed", "batch_failed"}

TypeOK ==
  /\ queue \in 1..Len(waiting) \cup {None}
  /\ Len(waiting) <= MaxQueues
  /\ \A c \in Streams :
       /\ stream[c].state \in {"new", "subscribed", "reading", "left", "ended"}
       /\ stream[c].queue \in 1..Len(waiting) \cup {None}
  /\ counted \subseteq BatchRows
  /\ batch \in {"idle", "running", "completed", "failed"}

Init ==
  /\ queue = None
  /\ waiting = <<>>
  /\ stream = [c \in Streams |-> [state |-> "new", queue |-> None, shown |-> <<>>,
                                  since |-> 0, alone |-> FALSE]]
  /\ emitted = <<>>
  /\ counted = {}
  /\ batch = "idle"

-----------------------------------------------------------------------------
\* The mutant: an event goes only to a connection whose generator has begun.
EmitToReaders(e) ==
  /\ emitted' = Append(emitted, e)
  /\ waiting' = IF queue = None \/ \A c \in Streams : stream[c].state # "reading" THEN waiting
                ELSE [waiting EXCEPT ![queue] = Append(@, e)]

\* An event goes to the queue of the job if there is one, and is lost if not.
Emit(e) ==
  /\ emitted' = Append(emitted, e)
  /\ waiting' = IF queue = None THEN waiting ELSE [waiting EXCEPT ![queue] = Append(@, e)]

\* batch_started, from _execute_batch.
Start ==
  /\ batch = "idle"
  /\ batch' = "running"
  /\ Emit(Event("batch_started", None))
  /\ UNCHANGED <<queue, stream, counted>>

\* The mutant: the page is told of the row before the counters are committed.
CountAfter(r) == UNCHANGED counted

\* The adapter of execute_batch commits the counters before it passes the event on.
Count(r) == counted' = counted \cup {r}

\* One of the concurrent rows ends.
RowEnds(r) ==
  /\ batch = "running"
  /\ r \notin {emitted[i].row : i \in DOMAIN emitted}
  /\ Count(r)
  /\ \E kind \in {"row_completed", "row_failed"} : Emit(Event(kind, r))
  /\ UNCHANGED <<queue, stream, batch>>

Failures == {r \in BatchRows : Event("row_failed", r) \in {emitted[i] : i \in DOMAIN emitted}}

\* Every row has ended: the job has its status, and then the page hears of it.
Finish ==
  /\ batch = "running"
  /\ counted = BatchRows
  /\ batch' = IF Failures = {} THEN "completed" ELSE "failed"
  /\ Emit(Event(IF Failures = {} THEN "batch_completed" ELSE "batch_failed", None))
  /\ UNCHANGED <<queue, stream, counted>>

\* execute_batch raises, before or between rows.
Raise ==
  /\ batch = "running"
  /\ batch' = "failed"
  /\ Emit(Event("batch_failed", None))
  /\ UNCHANGED <<queue, stream, counted>>

-----------------------------------------------------------------------------
\* Others whose end can still take the queue away.
Open(c) == stream[c].state \in {"subscribed", "reading", "left"}

\* The queue of the job, created on demand, and shared by every connection.
Subscribe(c) ==
  /\ stream[c].state = "new"
  /\ \A d \in 1..(c - 1) : stream[d].state # "new"
  /\ queue = None => Len(waiting) < MaxQueues
  /\ LET q == IF queue = None THEN Len(waiting) + 1 ELSE queue
         others == {d \in Streams \ {c} : Open(d)}
     IN  /\ queue' = q
         /\ waiting' = IF queue = None THEN Append(waiting, <<>>) ELSE waiting
         /\ stream' = [d \in Streams |->
              IF d = c THEN [state |-> "subscribed", queue |-> q, shown |-> <<>>,
                             since |-> Len(emitted), alone |-> queue = None /\ others = {}]
              ELSE [stream[d] EXCEPT !.alone = FALSE]]
  /\ UNCHANGED <<emitted, counted, batch>>

\* The response starts to run the generator; one whose client is gone by then never
\* runs, so neither does its finally, and the observer keeps the queue.
Begin(c) ==
  /\ stream[c].state = "subscribed"
  /\ stream' = [stream EXCEPT ![c].state = "reading"]
  /\ UNCHANGED <<queue, waiting, emitted, counted, batch>>

NeverBegins(c) ==
  /\ stream[c].state = "subscribed"
  /\ stream' = [stream EXCEPT ![c].state = "ended"]
  /\ UNCHANGED <<queue, waiting, emitted, counted, batch>>

\* The mutant: the event stays in the queue.
PeekFirst(q) == waiting

\* The queue without its first event.
RemoveFirst(q) == [waiting EXCEPT ![q] = Tail(@)]

\* The generator takes an event; a client that has left does not see it.
Take(c) ==
  /\ stream[c].state \in {"reading", "left"}
  /\ LET q == stream[c].queue
     IN  /\ waiting[q] # <<>>
         /\ waiting' = RemoveFirst(q)
         /\ stream' = IF stream[c].state = "left" THEN stream
                      ELSE [stream EXCEPT ![c].shown = Append(@, Head(waiting[q]))]
  /\ UNCHANGED <<queue, emitted, counted, batch>>

\* The client closes the connection; the server notices later.
Leave(c) ==
  /\ stream[c].state = "reading"
  /\ stream' = [stream EXCEPT ![c].state = "left"]
  /\ UNCHANGED <<queue, waiting, emitted, counted, batch>>

\* The generator ends: the observer forgets whatever queue it has for the job.
Unsubscribe(c) ==
  /\ stream[c].state = "left"
  /\ stream' = [stream EXCEPT ![c].state = "ended"]
  /\ queue' = None
  /\ UNCHANGED <<waiting, emitted, counted, batch>>

Next ==
  \/ Start
  \/ \E r \in BatchRows : RowEnds(r)
  \/ Finish
  \/ Raise
  \/ \E c \in Streams :
       Subscribe(c) \/ Begin(c) \/ NeverBegins(c) \/ Take(c) \/ Leave(c) \/ Unsubscribe(c)

-----------------------------------------------------------------------------
After(n) == SubSeq(emitted, n + 1, Len(emitted))

Reading(c) == stream[c].state \in {"subscribed", "reading"}

\* A page that has the job to itself is told, in order, of everything that happens
\* from the moment it subscribes, also of what happens before its stream starts and
\* of what happens while no one asks (sse_observer.py:75).
AlonePageMissesNothing ==
  \A c \in Streams :
    Reading(c) /\ stream[c].alone =>
      stream[c].shown \o waiting[stream[c].queue] = After(stream[c].since)

\* The events a connection has shown.
Told(c) == {stream[c].shown[i] : i \in DOMAIN stream[c].shown}

\* Every event is shown at most once, over all the pages of the job, since they take
\* from one queue (sse_observer.py:40).
ShownOnce ==
  /\ \A c \in Streams : Cardinality(Told(c)) = Len(stream[c].shown)
  /\ \A c, d \in Streams : c # d => Told(c) \cap Told(d) = {}

\* No page shows the end of a row the counters of GET /progress do not include, or the
\* end of a batch whose job is still running: a page that reloads does not go back.
PageIsNotAhead ==
  \A c \in Streams : \A e \in Told(c) :
    /\ e.event \in {"row_completed", "row_failed"} => e.row \in counted
    /\ e.event \in Ends => batch \in {"completed", "failed"}

\* Every page that watches a job is told of what happens to it.
EveryPageIsTold ==
  \A c \in Streams :
    Reading(c) =>
      LET heard == Told(c) \cup {waiting[stream[c].queue][i] : i \in DOMAIN waiting[stream[c].queue]}
      IN  {After(stream[c].since)[i] : i \in DOMAIN After(stream[c].since)} \subseteq heard
=============================================================================
