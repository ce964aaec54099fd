------------------------------ MODULE Exporter ------------------------------
(***************************************************************************)
(* The metrics exporter of the host.  Its task receives bus events into a  *)
(* bounded queue, folds the queue into cumulative sums at every tick and   *)
(* posts a snapshot of them, with retries; while it posts, it does not     *)
(* receive, and the bus may pass it by.  The host's exit signals it, and   *)
(* waits for one last flush within a bound.  A failed post loses nothing   *)
(* (the next snapshot carries the sums again); what is lost is counted.    *)
(* Sources: hekma-host/src/otlp/{task,client,payload}.rs, lib.rs.          *)
(***************************************************************************)
EXTENDS Integers, Sequences, FiniteSets

CONSTANTS
  QueueMax,    \* QUEUE_CAPACITY
  BusMax,      \* EVENT_BUS_CAPACITY
  RetryMax,    \* RETRY_ATTEMPTS
  MaxSent      \* bound: events published while the exporter listens

ASSUME ExporterAssumption ==
  {QueueMax, BusMax, RetryMax} \subseteq Nat \ {0} /\ MaxSent \in Nat

VARIABLES
  sent,       \* events published since the exporter subscribed
  heard,      \* how far its receiver has read
  queue,      \* received, not yet folded in
  folded,     \* in the cumulative sums
  inFlight,   \* MetricState::in_flight
  lostEvents, \* events in MetricState::dropped (batches and points apart)
  accepted,   \* the events whose sums the collector holds (ghost)
  task,       \* where the export task is
  tries,      \* posts of the current batch
  asked,      \* the shutdown signal is set
  atStop,     \* in_flight_at_stop
  drainedTo,  \* how far the last drain before the exit reached
  taskSays,   \* what the task returned, or Unsaid
  told        \* what shutdown returned, or Unsaid

exporterVars == <<sent, heard, queue, folded, inFlight, lostEvents, accepted, task,
                  tries, asked, atStop, drainedTo, taskSays, told>>

Unsaid == -1
NoCount == -2

ExporterInit ==
  /\ sent = 0 /\ heard = 0 /\ queue = <<>> /\ folded = {} /\ inFlight = 0
  /\ lostEvents = 0 /\ accepted = {} /\ task = "listening" /\ tries = 0
  /\ asked = FALSE /\ atStop = 0 /\ drainedTo = 0 /\ taskSays = Unsaid /\ told = Unsaid

------------------------------------------------------------------------------
\* The engine publishes, whatever the exporter does.
Broadcast ==
  /\ sent < MaxSent /\ sent' = sent + 1
  /\ UNCHANGED <<heard, queue, folded, inFlight, lostEvents, accepted, task, tries,
                 asked, atStop, drainedTo, taskSays, told>>

\* What a receiver that continues at the oldest retained event has skipped.
Lagged == IF sent - heard > BusMax THEN sent - heard - BusMax ELSE 0

\* The receiver takes k events after what it lagged: push drops the oldest
\* when the queue is full, and counts it as the lag is counted.
Received(k) ==
  LET q == queue \o [i \in 1 .. k |-> heard + Lagged + i]
      over == IF Len(q) > QueueMax THEN Len(q) - QueueMax ELSE 0
  IN  [queue |-> SubSeq(q, over + 1, Len(q)), lost |-> lostEvents + Lagged + over]

\* recv: the count of a lag, or one event.
Hear ==
  /\ task = "listening" /\ heard < sent
  /\ LET k == IF Lagged > 0 THEN 0 ELSE 1
     IN  /\ heard' = heard + Lagged + k
         /\ queue' = Received(k).queue /\ lostEvents' = Received(k).lost
  /\ UNCHANGED <<sent, folded, inFlight, accepted, task, tries, asked, atStop,
                 drainedTo, taskSays, told>>

\* drain_bus takes what the bus holds; the whole queue is then observed.
DrainAll == Received(sent - heard - Lagged)

DrainAndObserve ==
  /\ heard' = sent /\ queue' = <<>>
  /\ lostEvents' = DrainAll.lost
  /\ folded' = folded \cup {DrainAll.queue[i] : i \in DOMAIN DrainAll.queue}
  /\ inFlight' = inFlight + Len(DrainAll.queue)
  /\ tries' = 1

\* The interval ticks: the snapshot is taken and the first post sent.
Flush ==
  /\ task = "listening" /\ task' = "posting"
  /\ DrainAndObserve
  /\ UNCHANGED <<sent, accepted, asked, atStop, drainedTo, taskSays, told>>

\* Seeded fault: the count is taken before the tail is folded in.
CountBeforeFold == inFlight

\* in_flight_at_stop.
CountAtStop == inFlight'

\* The loop ends at the signal; the last flush begins, with its bound.
FinalFlush ==
  /\ task = "listening" /\ asked /\ task' = "final"
  /\ DrainAndObserve
  /\ atStop' = CountAtStop
  /\ drainedTo' = sent
  /\ UNCHANGED <<sent, accepted, asked, taskSays, told>>

\* deliver: the collector took the post or not, and the answer says so, is a
\* retryable failure (a timeout too), or a terminal one.
PostAnswered ==
  /\ task \in {"posting", "final"}
  /\ \E took \in BOOLEAN, says \in {"ok", "retryable", "terminal"} :
       /\ says = "ok" => took
       /\ says = "terminal" => ~ took
       /\ accepted' = (IF took THEN folded ELSE accepted)
       /\ inFlight' = (IF says = "ok" THEN 0 ELSE inFlight)
       /\ \/ /\ says = "retryable" /\ tries < RetryMax
             /\ tries' = tries + 1
             /\ UNCHANGED <<task, taskSays>>
          \/ /\ says # "retryable" \/ tries = RetryMax
             /\ task' = (IF task = "final" THEN "returned" ELSE "listening")
             /\ taskSays' = (IF task = "final" THEN inFlight' ELSE taskSays)
             /\ tries' = 0
  /\ UNCHANGED <<sent, heard, queue, folded, lostEvents, asked, atStop, drainedTo, told>>

\* FINAL_FLUSH_BOUND passes, perhaps after the collector took the post.
FinalBound ==
  /\ task = "final" /\ task' = "returned"
  /\ accepted' \in {accepted, folded}
  /\ taskSays' = atStop /\ tries' = 0
  /\ UNCHANGED <<sent, heard, queue, folded, inFlight, lostEvents, asked, atStop,
                 drainedTo, told>>

\* OtlpExporter::shutdown: the signal, and the answer of the task.
AskStop ==
  /\ ~ asked /\ asked' = TRUE
  /\ UNCHANGED <<sent, heard, queue, folded, inFlight, lostEvents, accepted, task,
                 tries, atStop, drainedTo, taskSays, told>>

\* The host waits as long as the last flush may take, from the signal on, and
\* goes on without a count when that passes first.
ToldCount ==
  /\ asked /\ told = Unsaid
  /\ told' = IF task = "returned" THEN taskSays ELSE NoCount
  /\ UNCHANGED <<sent, heard, queue, folded, inFlight, lostEvents, accepted, task,
                 tries, asked, atStop, drainedTo, taskSays>>

ExporterNext ==
  \/ Broadcast \/ Hear \/ Flush \/ FinalFlush \/ PostAnswered \/ FinalBound
  \/ AskStop \/ ToldCount

ExporterSpec == ExporterInit /\ [][ExporterNext]_exporterVars

------------------------------------------------------------------------------
ExporterTypeOK ==
  /\ {sent, heard, inFlight, lostEvents, atStop, drainedTo} \subseteq 0 .. MaxSent
  /\ queue \in Seq(1 .. MaxSent) /\ Len(queue) <= QueueMax
  /\ folded \subseteq 1 .. MaxSent /\ accepted \subseteq folded
  /\ task \in {"listening", "posting", "final", "returned"}
  /\ tries \in 0 .. RetryMax /\ asked \in BOOLEAN
  /\ taskSays \in 0 .. MaxSent \cup {Unsaid}
  /\ told \in 0 .. MaxSent \cup {Unsaid, NoCount}

\* No event disappears uncounted: each one received is folded, queued or in
\* the dropped counter; what the collector may lack is in flight; and a count
\* the host is told at its exit covers every event of the last drain that
\* the collector does not hold, whatever became of posts and their answers.
ExporterAccounts ==
  /\ heard = Cardinality(folded) + Len(queue) + lostEvents
  /\ Cardinality(folded \ accepted) <= inFlight
  /\ told >= 0 => Cardinality((1 .. drainedTo) \ accepted) <= told + lostEvents
=============================================================================
