------------------------------ MODULE Metering ------------------------------
(***************************************************************************)
(* How the usage of one instance reaches the ledger.  The agent writes     *)
(* usage lines into its raw log, or calls its model through the engine's   *)
(* listener, which queues what it observed.  Reaper ticks and terminal     *)
(* paths drain both, commit event by event, park what the store refuses,   *)
(* and cut the raw log at its cap once both of its readers are past it.    *)
(*                                                                         *)
(* An operation holds the supervisor's lock until it is done; todo is its  *)
(* call stack, innermost frame first, because a commit that crosses a      *)
(* ceiling with action `stop` runs a whole stop inside the drain loop.     *)
(* The agent, the listener and the log tailer go on meanwhile, the engine  *)
(* may crash.                                                              *)
(* Sources: domain/supervisor/{usage,mod,lifecycle,reaper,spawn}.rs,       *)
(* ports/{usage_source,process_backend}.rs, metering/listener.rs,          *)
(* store/run_store_sqlite.rs.                                              *)
(***************************************************************************)
EXTENDS Integers, Sequences, FiniteSets

CONSTANTS
  Sources,     \* metering sources that are tried
  Parts,       \* how a line may be cut in two by the agent's own flushes
  Poison,      \* events the store refuses for ever
  StopAt,      \* events whose commit crosses a ceiling with action stop
  ParkMax,     \* USAGE_PARK_MAX_ATTEMPTS
  BufMax,      \* OBSERVED_PARK_MAX_EVENTS
  Cap,         \* the raw log's cap, in chunks
  MaxEvents,   \* bound: events the agent produces
  MaxGen,      \* bound: launches and adoptions
  MaxFaults    \* bound: failing calls and crashes

ASSUME MeteringAssumption ==
  /\ Sources \subseteq {"log", "observed"} /\ Parts \subseteq {"json", "torn"}
  /\ ParkMax \in Nat \ {0} /\ BufMax \in Nat /\ Cap \in Nat \ {0}
  /\ MaxEvents \in Nat /\ MaxGen \in Nat /\ MaxFaults \in Nat
  /\ Poison \subseteq 1 .. MaxEvents /\ StopAt \subseteq 1 .. MaxEvents

VARIABLES
  source,     \* the channel this instance reports on
  metadata,   \* the capture mode of its launches: raw logs go at the end
  row,        \* agent_instances.state, as far as draining depends on it
  alive,      \* the agent process
  file,       \* the raw log: what each write of the agent appended
  seq,        \* the agent's own sequence counter
  half,       \* the line the agent has begun and not ended
  queue,      \* the listener's queue
  gen,        \* launch_generation, in the store and in the handle
  held,       \* running holds the instance
  cursor,     \* usage_cursor
  park,       \* usage_park_attempts: where, and how often it failed
  observed,   \* observed_park: the pending events and the failures of the first
  minted,     \* the observed source's sequence counter
  capture,    \* the handle has a LogCapture (an adopted one has none)
  tailer,     \* the tailer's cursor
  unconfirmed,\* stop_unconfirmed
  stale,      \* an adoption could not advance the generation
  rows,       \* usage_events
  todo,       \* the operation under way: its call stack
  faults,     \* how many calls have failed
  produced,   \* history: events the agent has begun
  errors,     \* history: commits refused with anything but Busy
  skips,      \* history: mid-run skips
  announced,  \* history: events a diagnostic calls lost, skipped or dropped
  excused,    \* history: events lost in one of the gaps the README lists
  unshown     \* history: whole lines destroyed before the tailer took them

agent == <<alive, file, seq, half, queue, produced>>
handle == <<held, cursor, park, observed, minted, capture, tailer, unconfirmed,
            stale>>
losses == <<errors, skips, announced, excused, unshown>>
vars == <<source, metadata, row, agent, gen, handle, rows, todo, faults, losses>>

Ids == 1 .. MaxEvents
Chunk == [id : Ids, seq : Nat, part : {"line", "rest"} \cup Parts]
NoHalf == [id |-> 0, part |-> "line"]
NoPark == [at |-> 0, attempts |-> 0]
NonePending == [events |-> <<>>, attempts |-> 0]
Members(s) == {s[i] : i \in DOMAIN s}
IdsOf(s) == {s[i].id : i \in DOMAIN s}
Min2(a, b) == IF a <= b THEN a ELSE b

\* A finite set of numbers as the increasing sequence of its members.
InOrder(S) == CHOOSE s \in [1 .. Cardinality(S) -> S] :
                /\ S = Members(s)
                /\ \A m, n \in DOMAIN s : m < n => s[m] < s[n]

-----------------------------------------------------------------------------
(* The file: where a drain may stop reading, and what it then parses.      *)

\* A chunk that ends in a newline.
Ends(c) == c.part \in {"line", "rest"}

\* Seeded fault: a line the agent is still writing is taken as it stands.
PlanDrainToEnd(from, mode) == Len(file)

\* plan_drain: up to the last newline mid-run, to the end at the last drain.
PlanDrain(from, mode) ==
  IF mode = "terminal" THEN Len(file)
  ELSE LET ends == {i \in from + 1 .. Len(file) : Ends(file[i])}
       IN IF ends = {} THEN from ELSE CHOOSE i \in ends : \A j \in ends : j <= i

\* parse_usage_block: a line counts when all of its text is in the block.
Parses(i, to) == \/ file[i].part \in {"line", "json"}
                 \/ file[i].part = "torn" /\ i < to /\ file[i + 1].part = "rest"
ParseBlock(from, to) ==
  LET good == InOrder({i \in from + 1 .. to : Parses(i, to)})
  IN [n \in DOMAIN good |-> [id |-> file[good[n]].id, seq |-> file[good[n]].seq]]

\* The events that are lost when the cursor passes to: their line is torn there.
CutOff(to) == {file[i].id : i \in {j \in {to} \cap DOMAIN file : file[j].part = "torn"}}

-----------------------------------------------------------------------------
(* Frames of the call stack.                                               *)

Frame(op, mode) == [op |-> op, mode |-> mode, rest |-> <<>>, from |-> 0, to |-> 0]
Drains(mode) == <<Frame("log", mode), Frame("obs", mode)>>
TickFrames == Drains("mid")
StopFrames == Drains("terminal")
                \o <<Frame("kill", "terminal"), Frame("log", "terminal"),
                     Frame("drop", "terminal")>>
\* A reap may let go of a process that still lives: it is wedged, or cannot be
\* polled.
ReapFrames == Drains("terminal") \o <<Frame("drop", IF alive THEN "live" ELSE "terminal")>>

Ready == todo = <<>>
Doing(op) == todo # <<>> /\ Head(todo).op = op
Top == Head(todo)
Return == todo' = Tail(todo)

\* Bound: the history counter of refusals saturates where no property reads on.
MaxErrors == MaxEvents * ParkMax

Fault == faults < MaxFaults /\ faults' = faults + 1

\* Events that some step to come can still take to the ledger.
Unread == IF held THEN {file[i].id : i \in cursor + 1 .. Len(file)} ELSE {}
InHand == IdsOf(queue) \cup IdsOf(observed.events)
            \cup UNION {IdsOf(todo[i].rest) : i \in DOMAIN todo}

-----------------------------------------------------------------------------
(* The agent, its listener and the tailer thread.                          *)

\* An append to the raw log; nobody reads it while no engine holds the instance.
Appended(part, id) ==
  /\ file' = Append(file, [id |-> id, seq |-> seq', part |-> part])
  /\ excused' = IF held THEN excused ELSE excused \cup {id}
  /\ UNCHANGED <<source, metadata, row, alive, queue, gen, handle, rows, todo, faults,
                 errors, skips, announced, unshown>>

\* A usage line in one write, or the first part of one.
WriteLine ==
  /\ source = "log" /\ alive /\ half = NoHalf /\ produced < MaxEvents
  /\ produced' = produced + 1 /\ seq' = seq + 1
  /\ \E part \in {"line"} \cup Parts :
       /\ Appended(part, produced')
       /\ half' = IF part = "line" THEN NoHalf ELSE [id |-> produced', part |-> part]

\* The rest of that line, with its newline.
WriteRest ==
  /\ alive /\ half # NoHalf
  /\ half' = NoHalf /\ UNCHANGED <<seq, produced>> /\ Appended("rest", half.id)

\* forward: a completion went through the listener; its counts are queued.
Forward ==
  /\ source = "observed" /\ alive /\ held /\ produced < MaxEvents
  /\ produced' = produced + 1
  /\ queue' = Append(queue, [id |-> produced'])
  /\ UNCHANGED <<source, metadata, row, alive, file, seq, half, gen, handle, rows, todo,
                 faults, losses>>

\* A line that is cut inside its text when the process ends was never reported.
Unfinished == IF half.part = "torn" THEN {half.id} ELSE {}

\* The process ends by itself.
Exit ==
  /\ alive /\ alive' = FALSE /\ half' = NoHalf /\ excused' = excused \cup Unfinished
  /\ UNCHANGED <<source, metadata, row, file, seq, queue, produced, gen, handle, rows,
                 todo, faults, errors, skips, announced, unshown>>

\* catch_up: every whole line since the tailer's cursor goes to output.log.
CatchUp == IF capture THEN PlanDrain(tailer, "mid") ELSE tailer
TailerPass ==
  /\ held /\ capture /\ CatchUp # tailer /\ tailer' = CatchUp
  /\ UNCHANGED <<source, metadata, row, agent, gen, held, cursor, park, observed, minted,
                 capture, unconfirmed, stale, rows, todo, faults, losses>>

-----------------------------------------------------------------------------
(* The log drain.                                                          *)

\* Read the tail, plan, parse.  An unreadable file ends the drain.
ReadTail ==
  /\ Doing("log")
  /\ \/ /\ Fault /\ Return /\ UNCHANGED cursor
        /\ excused' = IF Top.mode = "terminal" THEN excused \cup IdsOf(file) ELSE excused
     \/ /\ UNCHANGED <<faults, excused>>
        /\ IF ~held THEN Return /\ UNCHANGED cursor
           ELSE IF cursor > Len(file) THEN Return /\ cursor' = Len(file)
           ELSE LET to == PlanDrain(cursor, Top.mode)
                    block == [op |-> "ingest", mode |-> Top.mode, from |-> cursor,
                              rest |-> ParseBlock(cursor, to), to |-> to]
                IN /\ todo' = (IF to = cursor THEN <<>> ELSE <<block>>)
                                 \o <<Frame("trunc", Top.mode)>> \o Tail(todo)
                   /\ UNCHANGED cursor
  /\ UNCHANGED <<source, metadata, row, agent, gen, held, park, observed, minted, capture,
                 tailer, unconfirmed, stale, rows, errors, skips, announced, unshown>>

\* ingest_usage of the next event commits: a fresh row, or a recognized replay.
\* A fresh row may cross a ceiling whose action stops the instance here and now.
Key(e) == [gen |-> IF held THEN gen ELSE 0, seq |-> e.seq]
Replay(e) == \E r \in rows : r.gen = Key(e).gen /\ r.seq = e.seq
Breaches(e) == e.id \in StopAt /\ ~Replay(e) /\ held /\ row = "running"
InLoop == (Doing("ingest") \/ Doing("ingestObs")) /\ Top.rest # <<>>
Commit ==
  /\ InLoop
  /\ LET e == Head(Top.rest)
         after == [Top EXCEPT !.rest = Tail(@)]
     IN /\ e.id \notin Poison
        /\ rows' = IF Replay(e) THEN rows
                   ELSE rows \cup {[gen |-> Key(e).gen, seq |-> e.seq, id |-> e.id]}
        /\ todo' = (IF Breaches(e) THEN StopFrames ELSE <<>>) \o <<after>> \o Tail(todo)
        /\ row' = IF Breaches(e) THEN "stopping" ELSE row
        /\ excused' = IF stale /\ Replay(e) THEN excused \cup {e.id} ELSE excused
  /\ UNCHANGED <<source, metadata, agent, gen, handle, faults, errors, skips, announced,
                 unshown>>

\* Every event committed: the cursor passes the block, the park is cleared.
Advance ==
  /\ Doing("ingest") /\ Top.rest = <<>> /\ Return
  /\ cursor' = IF held THEN Top.to ELSE cursor
  /\ park' = IF held THEN NoPark ELSE park
  /\ excused' = IF held /\ Top.mode = "terminal" THEN excused \cup CutOff(Top.to)
                ELSE excused
  /\ UNCHANGED <<source, metadata, row, agent, gen, held, observed, minted, capture, tailer,
                 unconfirmed, stale, rows, faults, errors, skips, announced, unshown>>

\* The store refuses the next event, for once or because of the event.
Refusal(busy) ==
  /\ InLoop
  /\ \/ Fault
     \/ Head(Top.rest).id \in Poison /\ ~busy /\ UNCHANGED faults
  /\ errors' = IF busy THEN errors ELSE Min2(errors + 1, MaxErrors)

\* Seeded fault: contention spends an attempt too.
AttemptsBusyToo(same, n, busy) == IF same THEN n + 1 ELSE 1
\* Seeded fault: every drain counts afresh.
AttemptsAfresh(same, n, busy) == 0

Attempts(same, n, busy) ==
  IF same THEN IF busy THEN n ELSE n + 1 ELSE IF busy THEN 0 ELSE 1

GiveUp(attempts) == attempts >= ParkMax

\* The first refusal ends the loop.  The last drain announces the loss; a tick
\* parks the block, and skips it once ParkMax drains from here have failed.
LogRefused(busy) ==
  /\ Doing("ingest") /\ Refusal(busy) /\ Return
  /\ LET attempts == Attempts(park.at = Top.from, park.attempts, busy)
         skip == Top.mode = "mid" /\ GiveUp(attempts)
         lost == IdsOf(Top.rest)
     IN /\ cursor' = IF skip /\ held THEN Top.to ELSE cursor
        /\ park' = IF Top.mode = "terminal" \/ ~held THEN park
                   ELSE IF skip THEN NoPark
                   ELSE [at |-> Top.from, attempts |-> attempts]
        /\ announced' = IF skip \/ Top.mode = "terminal" THEN announced \cup lost
                        ELSE announced
        /\ skips' = IF skip THEN skips + 1 ELSE skips
  /\ UNCHANGED <<source, metadata, row, agent, gen, held, observed, minted, capture, tailer,
                 unconfirmed, stale, rows, excused, unshown>>

\* Seeded fault: only the usage cursor is asked.
TailerIgnored(pos, len) == TRUE

\* An adopted handle has no tailer that could lag.
TailerPast(pos, len) == capture => pos >= len

\* maybe_truncate_raw_log, up to the decision: both readers are at the length
\* seen now.  The last drain first takes the tailer along.
TruncateCheck ==
  /\ Doing("trunc")
  /\ tailer' = IF Top.mode = "terminal" /\ held THEN CatchUp ELSE tailer
  /\ LET len == Len(file)
         due == held /\ len >= Cap /\ cursor >= len /\ TailerPast(tailer', len)
     IN todo' = (IF due THEN <<[Top EXCEPT !.op = "cut", !.to = len]>> ELSE <<>>)
                  \o Tail(todo)
  /\ UNCHANGED <<source, metadata, row, agent, gen, held, cursor, park, observed, minted,
                 capture, unconfirmed, stale, rows, faults, losses>>

\* Whole lines among the chunks of the file after position n, up to position m.
LinesIn(n, m) == {file[i].id : i \in {j \in n + 1 .. m : Ends(file[j])}}

\* Its cut.  What the agent appended since the check is gone with the rest.
Truncate ==
  /\ Doing("cut") /\ Return
  /\ \/ Fault /\ UNCHANGED <<file, cursor, tailer, excused, unshown>>
     \/ /\ UNCHANGED faults
        /\ file' = <<>> /\ cursor' = 0 /\ tailer' = 0
        /\ excused' = excused \cup {file[i].id : i \in Top.to + 1 .. Len(file)}
        /\ unshown' = IF capture THEN unshown \cup LinesIn(tailer, Top.to) ELSE unshown
  /\ UNCHANGED <<source, metadata, row, alive, seq, half, queue, produced, gen, held, park,
                 observed, minted, capture, unconfirmed, stale, rows, errors, skips,
                 announced>>

-----------------------------------------------------------------------------
(* The drain of the observed queue.                                        *)

\* Parked events first, as they were; the queue is emptied and minted.
Mint(q) == [n \in DOMAIN q |-> [id |-> q[n].id, seq |-> minted + n]]
ReadQueue ==
  /\ Doing("obs")
  /\ IF held /\ source = "observed" /\ observed.events \o queue # <<>>
     THEN /\ todo' = <<[Top EXCEPT !.op = "ingestObs",
                                   !.rest = observed.events \o Mint(queue)]>> \o Tail(todo)
          /\ queue' = <<>> /\ minted' = minted + Len(queue)
     ELSE Return /\ UNCHANGED <<queue, minted>>
  /\ UNCHANGED <<source, metadata, row, alive, file, seq, half, produced, gen, held, cursor,
                 park, observed, capture, tailer, unconfirmed, stale, rows, faults, losses>>

ObservedDone ==
  /\ Doing("ingestObs") /\ Top.rest = <<>> /\ Return
  /\ observed' = NonePending
  /\ UNCHANGED <<source, metadata, row, agent, gen, held, cursor, park, minted, capture,
                 tailer, unconfirmed, stale, rows, faults, losses>>

\* Seeded fault: the buffer grows with the outage.
CapNothing(s) == s

\* cap_observed_park_buffer: the oldest go.
CapBuffer(s) == SubSeq(s, Len(s) - Min2(Len(s), BufMax) + 1, Len(s))

\* The first refusal ends the loop.  The last drain announces the loss; a tick
\* parks what is left, and skips its first event after ParkMax refusals of it.
ObservedRefused(busy) ==
  /\ Doing("ingestObs") /\ Refusal(busy) /\ Return
  /\ LET left == IF Top.mode = "terminal" THEN <<>> ELSE CapBuffer(Top.rest)
         parked == observed.events
         same == parked # <<>> /\ left # <<>> /\ Head(parked).seq = Head(left).seq
         attempts == Attempts(same, observed.attempts, busy)
         skip == left # <<>> /\ GiveUp(attempts)
         keep == IF skip THEN Tail(left) ELSE left
     IN /\ observed' = IF keep = <<>> \/ ~held THEN NonePending
                       ELSE [events |-> keep, attempts |-> IF skip THEN 1 ELSE attempts]
        /\ announced' = announced \cup (IdsOf(Top.rest) \ IdsOf(keep))
        /\ skips' = IF skip THEN skips + 1 ELSE skips
  /\ UNCHANGED <<source, metadata, row, agent, gen, held, cursor, park, minted, capture,
                 tailer, unconfirmed, stale, rows, excused, unshown>>

-----------------------------------------------------------------------------
(* The operations that drain.                                              *)

\* A reaper tick: both drains of every held handle, mid-run.
Tick ==
  /\ Ready /\ held /\ todo' = TickFrames
  /\ UNCHANGED <<source, metadata, row, agent, gen, handle, rows, faults, losses>>

\* stop: drain, kill, drain what came since, let go.
Stop ==
  /\ Ready /\ held /\ row = "running"
  /\ row' = "stopping" /\ todo' = StopFrames
  /\ UNCHANGED <<source, metadata, agent, gen, handle, rows, faults, losses>>

\* poll_once finds the process gone, or its liveness window has expired.
Reap ==
  /\ Ready /\ held /\ (~alive \/ row = "running") /\ todo' = ReapFrames
  /\ UNCHANGED <<source, metadata, row, agent, gen, handle, rows, faults, losses>>

\* backend.stop: confirmed, or the stop returns with the handle kept.
Kill ==
  /\ Doing("kill")
  /\ \/ /\ alive' = FALSE /\ half' = NoHalf /\ Return /\ UNCHANGED <<faults, unconfirmed>>
     \/ /\ alive /\ Fault /\ unconfirmed' = TRUE
        /\ todo' = SubSeq(todo, 4, Len(todo)) /\ UNCHANGED <<alive, half>>
  /\ excused' = IF alive' THEN excused ELSE excused \cup Unfinished
  /\ UNCHANGED <<source, metadata, row, file, seq, queue, produced, gen, held, cursor, park,
                 observed, minted, capture, tailer, stale, rows, errors, skips, announced,
                 unshown>>

\* The handle goes, with the queue and the park, and the raw log of a launch in
\* metadata mode.  Whatever still lives is killed by the drop.
Gone ==
  /\ held' = FALSE /\ row' = "down" /\ alive' = FALSE /\ half' = NoHalf
  /\ queue' = <<>> /\ observed' = NonePending /\ park' = NoPark /\ unconfirmed' = FALSE
  /\ UNCHANGED <<source, metadata, seq, produced, gen, cursor, minted, capture, tailer,
                 stale, rows, faults, errors, skips, announced>>

Drop ==
  /\ Doing("drop") /\ Return /\ Gone
  /\ excused' = excused \cup Unfinished \cup IdsOf(queue)
                  \cup (IF Top.mode = "live" THEN Unread ELSE {})
  /\ IF metadata /\ capture
     THEN /\ file' = <<>>
          /\ unshown' = IF Top.mode = "live" THEN unshown
                        ELSE unshown \cup (LinesIn(tailer, Len(file)) \ excused)
     ELSE UNCHANGED <<file, unshown>>

\* A second stop finds the process of an unconfirmed one dead: it settles the
\* row without a drain.
StopAgain ==
  /\ Ready /\ held /\ row = "stopping" /\ unconfirmed /\ ~alive /\ Gone
  /\ excused' = excused \cup Unread \cup InHand
  /\ UNCHANGED <<file, todo, unshown>>

-----------------------------------------------------------------------------
(* Launches, crashes and adoptions.                                        *)

\* Seeded fault: an attach reads the log from its start.
AnchorAtStart == 0

\* agent_log_len: an attach reads what comes from now on.
Anchor == Len(file)

\* What a fresh handle starts from: the end of the log, a new generation.
Attach ==
  /\ held' = TRUE /\ cursor' = Anchor /\ park' = NoPark /\ observed' = NonePending
  /\ minted' = 0 /\ unconfirmed' = FALSE
  /\ UNCHANGED <<source, metadata, file, produced, rows, todo, errors, skips, announced,
                 excused, unshown>>

Launch ==
  /\ Ready /\ ~held /\ row = "down" /\ gen < MaxGen
  /\ row' = "running" /\ alive' = TRUE /\ seq' = 0 /\ half' = NoHalf /\ queue' = <<>>
  /\ gen' = gen + 1 /\ stale' = FALSE /\ capture' = TRUE /\ tailer' = Len(file)
  /\ Attach /\ UNCHANGED faults

\* The engine dies with its handles; whatever it had not committed is gone.
Crash ==
  /\ Fault
  /\ excused' = excused \cup Unread \cup InHand
  /\ held' = FALSE /\ todo' = <<>> /\ queue' = <<>> /\ observed' = NonePending
  /\ park' = NoPark /\ unconfirmed' = FALSE
  /\ UNCHANGED <<source, metadata, row, alive, file, seq, half, produced, gen, cursor,
                 minted, capture, tailer, stale, rows, errors, skips, announced, unshown>>

\* The next engine takes the process over.  Its observed sequence starts again,
\* so the generation moves on; when that write fails the old one is kept.
Adopt ==
  /\ Ready /\ ~held /\ row = "running" /\ alive /\ gen < MaxGen
  /\ capture' = FALSE /\ Attach
  /\ \/ gen' = gen + 1 /\ stale' = FALSE /\ UNCHANGED faults
     \/ Fault /\ stale' = TRUE /\ UNCHANGED gen
  /\ UNCHANGED <<row, alive, seq, half, queue, tailer>>

\* Or it finds the process gone, and settles the row.
Reconcile ==
  /\ Ready /\ ~held /\ ~alive /\ row # "down" /\ row' = "down"
  /\ UNCHANGED <<source, metadata, agent, gen, handle, rows, todo, faults, losses>>

-----------------------------------------------------------------------------
Init ==
  /\ source \in Sources /\ metadata \in BOOLEAN
  /\ row = "down" /\ alive = FALSE /\ file = <<>> /\ seq = 0 /\ half = NoHalf /\ queue = <<>>
  /\ gen = 0 /\ held = FALSE /\ cursor = 0 /\ park = NoPark /\ observed = NonePending
  /\ minted = 0 /\ capture = FALSE /\ tailer = 0 /\ unconfirmed = FALSE /\ stale = FALSE
  /\ rows = {} /\ todo = <<>> /\ faults = 0 /\ produced = 0 /\ errors = 0 /\ skips = 0
  /\ announced = {} /\ excused = {} /\ unshown = {}

Drain == \/ ReadTail \/ Commit \/ Advance \/ TruncateCheck \/ Truncate
         \/ ReadQueue \/ ObservedDone
         \/ \E busy \in BOOLEAN : LogRefused(busy) \/ ObservedRefused(busy)

Next == \/ WriteLine \/ WriteRest \/ Forward \/ Exit \/ TailerPass
        \/ Drain \/ Kill \/ Drop
        \/ Tick \/ Stop \/ Reap \/ StopAgain
        \/ Launch \/ Crash \/ Adopt \/ Reconcile

Spec == Init /\ [][Next]_vars

\* The reaper ticks for as long as the engine runs, an operation finishes what
\* it began, and a tick that finds the process gone reaps it.  The agent may
\* never write again, and nobody need stop, restart or adopt it.
Fairness == /\ WF_vars(Drain) /\ WF_vars(Kill) /\ WF_vars(Drop) /\ WF_vars(Tick)
            /\ SF_vars(~alive /\ Reap)
FairSpec == Spec /\ Fairness

-----------------------------------------------------------------------------
\* The types, and what keeps parking bounded in memory whatever the store does:
\* the retries of the parked event and the buffer of completions.
TypeOK ==
  /\ source \in {"log", "observed"} /\ metadata \in BOOLEAN
  /\ row \in {"running", "stopping", "down"} /\ alive \in BOOLEAN
  /\ file \in Seq(Chunk) /\ seq \in Nat /\ half.id \in Ids \cup {0}
  /\ IdsOf(queue) \subseteq Ids /\ gen \in 0 .. MaxGen
  /\ held \in BOOLEAN /\ cursor \in Nat /\ tailer \in Nat /\ minted \in Nat
  /\ park \in [at : Nat, attempts : 0 .. ParkMax - 1]
  /\ IdsOf(observed.events) \subseteq Ids /\ Len(observed.events) <= BufMax
  /\ observed.attempts \in 0 .. ParkMax
  /\ capture \in BOOLEAN /\ unconfirmed \in BOOLEAN /\ stale \in BOOLEAN
  /\ rows \subseteq [gen : 0 .. MaxGen, seq : Nat, id : Ids]
  /\ faults \in 0 .. MaxFaults /\ produced \in 0 .. MaxEvents
  /\ errors \in Nat /\ skips \in Nat
  /\ announced \subseteq Ids /\ excused \subseteq Ids /\ unshown \subseteq Ids

\* An event is in the ledger at most once, whatever is read again: a parked
\* block, the block a nested stop drains under the outer loop, the log after a
\* cut, the log of an adopted process ("never a double-count", usage.rs:146).
NoDoubleCount == \A a, b \in rows : a.id = b.id => a = b

Counted == {r.id : r \in rows}
Settled == Counted \cup announced \cup excused
Finished == (1 .. produced) \ Unfinished

\* No usage is lost in silence: an event the agent has reported in full is in
\* the ledger, was announced as lost, fell into a documented gap, or can still
\* be read from where the cursor, the queue or the park holds it.
Accounted == Finished \subseteq Settled \cup Unread \cup InHand

\* Contention never costs usage (story 21-1): mid-run, an event is given up
\* only after real refusals, ParkMax of them for the first and at least one
\* fewer for each that follows.
BusyNeverSkips == skips > 0 => errors >= ParkMax + (skips - 1) * (ParkMax - 1)

\* A whole line the length check has seen is never destroyed, by the cut or by
\* the unlink of the metadata mode, before the tailer has put it in output.log.
OutputKept == unshown = {}

\* A poisoned event does not strand the events behind it: all that the agent
\* reported is eventually in the ledger or accounted for.
Settles == <>[]((1 .. produced) \ {half.id} \subseteq Settled)
=============================================================================
