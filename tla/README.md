# A TLA+ model of Hekma's engine

Hekma is a control plane for agent workloads: it registers agents, launches and
supervises their processes, restarts them under a policy, meters what they
spend and acts when a budget is breached. This project models the part of the
engine that has to survive crashes, failing calls and interleavings. The models
are translated from `crates/hekma-engine/src` and, for the event stream and the
metrics exporter, `crates/hekma-host/src`; TLC checks them on small instances
and TLAPS proves the safety properties for every instance, a few of them under
hypotheses that "What is proved" states.

## Inventory

Paths are relative to `crates/hekma-engine/src/` unless they name a crate.

| component | state | operations | what makes it hard | correct when |
|---|---|---|---|---|
| lifecycle (`domain/transition.rs`, `lifecycle.rs`) | `agent_instances.state` | four commands, edges for process events | the table is consulted before many steps that change the world | every committed change is an edge |
| supervisor (`domain/supervisor/{mod,spawn,lifecycle,reaper,commit}.rs`) | handle map, spawn records, restart timers | start, restart, stop, pause, resume, remove, poll, adopt, release | each operation is a sequence of store writes, signals and spawns, any of which may fail; the engine may die between any two; timers outlive what they were planned for | record, handle, row and process agree; nothing is lost or started twice; crashes are noticed |
| restart policy (`domain/restart.rs`) | count in the record, sleeping tasks | plan, count, give up | thresholds, stale timers | restarts happen, crash loops end |
| governance (`domain/{budget,cost,governance,pipeline}.rs`, `supervisor/usage.rs`) | rollups, `run_latches`, `breach_events`, fence bits | commit usage, evaluate, act, re-apply | decisions are committed before they are acted on; settings change at any time; Runs outlive processes and engines | a crossing is recorded once and never missed; what was enforced stays enforced |
| metering (`supervisor/usage.rs`, `metering/*`) | byte cursors, parked events, listener | drain, park, retry, truncate, forward | the agent writes while the engine reads and truncates | no event counts twice, none is lost silently |
| adoption leases (`store/sqlite.rs`, `supervisor/reaper.rs`) | lease in the record | compare-and-set | engines of concurrent commands | one adopter |
| Runs (`domain/runs/*`, `store/runs_sqlite.rs`) | Run rows, labels, parents | project, open child, close, sweep | cascade, partial projection | no open Run without a process |
| store writer (`store/writer.rs`) | job queue | batch, savepoint, hooks | batches, shutdown | a job commits whole or not at all |
| event bus, resync, outbox (`domain/{bus,resync,outbox}.rs`) | broadcast ring, cursors, sequence | publish, backfill, acknowledge, evict | lag, crash between commit and publish, eviction | a reader can see every gap |
| process backends (`backends/*`) | child handles, fingerprints | spawn, poll, stop, signal, adopt | pid reuse, deaths that cannot be confirmed | dropping a handle never leaks an attached child |
| ACP client (`acp/*`) | pending map, session, turn | prompt, cancel, route replies | answers race the mark of a turn, the end of the reader and writes that were given up | answers reach the request or turn they belong to |
| host (`hekma-host`) | lock file, HTTP, exporter queue | serve, drain, export | shutdown races | one host per directory |
| CLI, adapters, conformance kit | none of their own | calls of the engine | | |

The registry and the supervisor are locked for the whole of every engine
operation (`engine.rs` 1298-1472), so operations of one engine exclude each
other. What interleaves is the outside: processes exit, the engine crashes,
timers fire between operations, other processes write the configuration, other
engines open the same data directory, and threads that take neither lock run
on: the store writer, the log tailer, the listener, the ACP reader, the
subscribers of the bus and the exporter.
Components meet in the store (row, record, ledger, latches), in the handle map,
and in calls: usage commits call back into pause and stop; launch and adoption
call the evaluation; the reaper calls the restart plan.

`PROJECT.json` lists each component with what is and is not modelled, the
hazards at their lines, and the map from definitions to source lines.

## Modules

| module | models |
|---|---|
| `LifecycleTable` | the command table `next_state` and the event edges |
| `Lifecycle` | the abstract specification: one row that moves along those edges |
| `Supervisor` | supervision of one instance by engines that come and go |
| `SupervisorProofs` | its theorems |
| `Budget` | budget governance of one detached instance |
| `BudgetProofs` | its theorems |
| `Metering` | the usage of one instance, on either channel, from the agent to the ledger |
| `MeteringProofs` | its theorems |
| `Writer`, `WriterProofs` | the store's writer thread and its callers; its theorems |
| `Feed` | the bus, a subscriber's stream, and resync |
| `Outbox` | the durable outbox and a host that pulls and acknowledges |
| `Exporter` | the host's metrics exporter |
| `DeliveryProofs` | the theorems of `Feed`, `Outbox` and `Exporter` |
| `Runs`, `RunsProofs` | Run records, child Runs, the published snapshot; their theorems |
| `Adoption`, `AdoptionProofs` | engines that share a data directory; one theorem on who keeps a process |
| `Acp`, `AcpProofs` | the ACP connection to one agent; its theorem |
| `MCSupervisor`, `MCBudget`, `MCMetering`, `MCServices` | values and symmetry for TLC |

`Supervisor` and `Lifecycle` are related by refinement. The other modules meet
through what they assume of each other: all of them use the store as one atomic
commit that may fail, which is what `Writer` shows of it; `Metering` stops where
`Budget`'s `Usage` begins, at the commit of an event, and takes from it only
that a breach may stop the agent inside the drain; `Runs` is driven by the
transitions of `Supervisor`; `Adoption` puts several engines around the record
that `Supervisor` gives to one. The services share no variables, so
`MCServices` checks them in one run in which each behaviour moves one of them,
chosen in the initial state.

### Supervisor

`row` is the instance's state in the store, `rec` its `agent_runtime` row (pid,
policy, restart count, detachment), `pauseKind` what `classify_pause_kind`
reads back from the ledger, `proc` the operating system's view of each process
the model may create, `held` the engine's handle, `timers` the restart tasks
that sleep, by attempt, and `op` the operation under way. An operation that
writes several times is several actions: `Start`, `Spawn`, `WriteRecord`,
`CommitRunning` and their error paths for `start_inner`; `StopBegin`,
`StopConfirmed` or `StopUnconfirmed` or `StopErrs`, `StopSettles`,
`CommitStopped` for `stop_inner`; the `Reap...` actions and `CommitFailed`,
`CommitExited` for `poll_once`; `Open`, `OrphanRow`, `OrphanRecord` for
`adopt_orphans`; `Close...` for the drop of an engine. Between them only
`Exit` and `Crash` happen: that is what the locks leave possible.
A call that may fail is an `Attempt`; `FaultKinds` says which kinds fail in an
instance and `MaxFaults` how many calls do.

### Budget

`config` is the settings in force, `total` the two rollups, `latches` and
`breaches` the two tables the evaluation writes, `listener` and `fence` the
wire fence, and `todo` what the operation under way still has to do. `Usage` is
`ingest_usage`: ledger row, rollups, evaluation, breach rows and latches are
one commit (`pipeline::commit_usage`), after which the actions wait in `todo`.
`EnforcePause`, `EnforceStop` and `NoteBreach` take them; `EnforceFenced` and
`EnforceAdopted` are `enforce_budget` at the end of a launch and of an adoption;
`Reapply` is `reapply_latched_actions`. A stop drains usage once more, so a
breach may fire inside a breach's stop: `Usage` is also enabled while `finish`
is due.

`timers` counts the restart timers that sleep, `recorded` says that the spawn
record holds the Run's id: a launch writes it, a stop, a clean exit, a reap that
gives up and a reconciliation settle it, a reap that plans a relaunch keeps it.
`Relaunch` is a timer that fires. As in `start_inner` only the command table
decides whether it launches (`RelaunchRejected` is the other case), so it may
find the row `failed` or `stopped`; it keeps the Run, with its fence and the
re-application of its latches, if the record still names it, and otherwise, or
when the record cannot be read, opens a Run (`OpensRun`, which an operator's
`Start` shares) and re-applies nothing.

`hold` and `blocked` are history variables: what became of the last pause or
stop that fired, and that a block fired, under these settings. A hold is
`committed` with its breach, and once taken it is `enforced`, or `overhung` when
a restart timer slept already.

### Metering

One instance with one of the two metering channels. The agent appends lines to
its raw log, whole or in two parts, or its forwarded requests queue completions
at the listener. `file`, `cursor`, `tailer` and `park` are the raw log, the
drain's cursor, the tailer's and how often the event at the cursor was refused;
`queue` and `observed` the listener's queue and the buffer of what the store
refused; `rows` what was committed, with the generation that the dedup key
contains. `todo` is the call stack of the operation under way, because a
breach's stop drains inside the drain that committed the breach. `TickFrames`,
`StopFrames` and `ReapFrames` are the places that drain. Truncation is two
steps, because the agent may write between the check and the cut.

`excused` are the events whose loss the code knows of: lines cut by the raced
truncation, lines between a crash and an adoption (the cursor starts at the end
of the log), lines nobody held the process for, what a live reap drops, a
line torn by the drain before a kill, completions between the last observed
drain and the drop, a terminal drain that cannot read the file, a second stop
of an unconfirmed one. `announced` are those a diagnostic names. `Accounted`
says there is no third kind.

### Writer

A job is submitted, claimed by the writer's thread or by its caller's timeout
(`Claims`), runs in a savepoint of a batch, and is answered after the commit
and after its hooks. The transaction may be refused, lost to SQLite in the
middle, or fail at the commit. A writer that is closed in the initial state is
the one of a read-only engine.

### Feed, Outbox, Exporter

`Feed` has a committed ledger of rows in families, the ring of the bus with one
subscriber on the host's event stream, and the host's cursor of counts per
family. Publication follows the commit, a crash may come between. The host is
the documented one: it subscribes, then resyncs, and resyncs on a lag frame.
`Outbox` is the table with its byte bound, a puller with pages, and a host that
may restart with what it stored. `Exporter` is the `select!` loop of the task:
bus, tick, stop; the retry buffer; the last flush and its bound. The host stops
the exporter before the engine goes, so the bus does not close under it.

### Runs

Rows of Runs with status, parent and owner; the transitions of the owner's
lifecycle and their projection, which may fail and be missed; the Run of a
launch and of a relaunch; children, closing, the cascade; the published
snapshot, which is changed record by record; removal; a reopened engine with
its adoption and its sweep. `deleted` and `refused` are two consequences that
the run sets aside and the list below names.

### Adoption

The locks of an engine do not reach the engines of other commands. `rowState`
and `runtime` are the row and the record (pid, owner, lease) they share,
`agents` the processes, `at` where each engine is, `listed` what its
`list_spawn_records` returned, `launched` the process its launch has spawned,
`handles` what it holds. `OpenEngine` reads the list; `TakeLease`, `SkipRecord`
and `PassGate` are the live-owner and lease gate; `AdoptListed`,
`AdoptNothing`, `ReconcileRow`, `ReconcileRecord` what follows; launches, stops
and reaps of other engines go on between all of them. The probe of the owner or
leaseholder and the compare-and-set are one step: an engine that is dead stays
dead, so a probe that said so is still right at the update. `Detached` is the
set of processes that were launched detached; their handles do not kill, and
the gate does not apply.

### Acp

Two threads and the agent. `caller` is the supervisor's thread in the handshake
or in `send_prompt`, `acpReader` the reader; `pending`, `prompt` and `stdin` are
the three locked fields, `owed` and `stdout` what the agent has and what it has
answered, `stuck` a write that was given up and may yet land. The lock of
`prompt_id` is held from the check to the mark, across the write, so `BeginPrompt`,
`WritePrompt` and `MarkPrompt` exclude the reader where it takes that lock
(`PromptLockFree`).

## What TLC checks

| run | shows | bounds |
|---|---|---|
| `supervisor_faults` | types, `SupervisedIsRecorded`, `StoppedStaysStopped`, and that `Supervisor` implements `Lifecycle` | three processes, threshold 3, two failures of any kind (a crash of the engine is one), 2.4 million states |
| `supervisor_live` | `OneProcess`, `NoPhantomRow`, `FrozenOnlyForBreach`, and the liveness properties `CrashIsNoticed`, `RestartHappens`, `StuckStopHeals`, `CrashLoopEnds` | two processes, threshold 2, an unconfirmed stop, 113 thousand states |
| `budget_safe` | `OncePerRun`, `CrossingIsRecorded`, `BreachHolds`, `FenceSurvives` | two settings that use all four actions, three tokens, three Runs, two timers, one failure, 7.6 million states |
| `metering_safe` | types and buffer bounds, `NoDoubleCount`, `Accounted`, `BusyNeverSkips`, `OutputKept`, and the liveness property `Settles` | two events, of which the first is poisoned and the last breaches, retry bound 2, buffer 1, log cap 2, two generations, one failure, 431 thousand states |
| `services` | the store writer (`AnswerHonest`, `HooksFollowCommits`, `WriterSettles`), the feed (`NoSilentGap`, `FeedDelivers`), `ExportLossless`, `ExporterAccounts`, the Runs (`TreeFollowsOwner`, `SnapshotExact`, `RunFollowsProcess`), `SoleKeeper`, `Correlated` | below; 382 thousand states |
| `stale_restart` | violated: a stale timer launches a stopped instance | no failures |
| `policy_forgotten` | violated: a stop forgets the restart policy | no failures |
| `stopping_wedge` | violated: an unconfirmed stop outlives its engine | one unconfirmed stop, engines keep being opened |
| `masked_ceiling` | violated: a latched per-run ceiling masks the cumulative one | one setting, one Run, no failures |
| `untaken_action` | violated: a fired action is lost with the engine | one crash |
| `double_count` | violated: a breach stop inside the drain makes the outer drain count its events again | no failures |
| `lease_respawned` | violated: a lease is granted on a record that was re-spawned since it was listed | three engines, two attached processes |

The seven violated properties are statements of the repository's comments and
documentation that the code does not keep; `PROJECT.json` quotes them.

Why the bounds are enough. Three processes let an orphan, a replacement and a
relaunch of it exist together; two failures let an error path fail itself, as a
tear-down after a failed record write; a threshold of 3 separates the first
restart, a later one and giving up. In `budget_safe` a Run's ceiling lies below
the instance's, so one Run reaches both; three tokens go one past the lower
ceilings; two Runs and two settings exercise both ways a latch is re-armed. The
third Run and the second timer are for the timers that come late: one is planned
in a first Run, an operator starts a second, whose crash plans another, and the
old timer opens the third. One call fails, of any kind and at any step; the
theorems about `Budget` hold for any number.

In `metering_safe` two events are enough for one behind a poisoned one, a log cap
of two lines is reached, and one failure falls on every call in turn (three
events were checked once for safety: 6.0 million states). In `services`: four
jobs in batches of two, so that a batch has a neighbour and a next batch; four
events in a ring of two, with one crash, one broken stream and one removal; six
appends into an outbox of four in pages of two, with one restart of the host;
five events through an exporter whose queues hold two; three Runs nested three
deep, one missed projection, one reopened engine (four Runs were checked once:
294 thousand states); three engines, so that an owner, a leaseholder and a
third can meet, two processes of which one is detached (four engines were checked
once: 9.1 million states); four requests, which leaves room for a handshake and
a turn after it, one stray answer and one request of the agent (six requests
were checked once: 499 thousand states).

Properties about lost calls. `OneProcess`, `NoPhantomRow` and
`FrozenOnlyForBreach` are stated for behaviours in which no store write, signal
or poll fails and the engine does not crash: with such failures the code gives
them up knowingly (an error is reported, the row may be behind). `BreachHolds`
is stated for behaviours without failing reads and engine crashes, `FenceSurvives` for
those without failing reads and commits; in the others the code degrades to "no
budget", as its comments say.

What `BreachHolds` says depends on the timers. An action taken while no restart
timer slept holds until an operator resumes, starts or reconfigures the agent:
every timer planned later finds its Run in the record and takes the action
again. An action taken while an earlier timer slept (`overhung`) binds only its
Run. The run reaches the case that needs this: a process crashes and a relaunch
is planned, an operator starts the agent during the backoff, a breach stops it,
and the old timer, which the table lets through, finds the record settled, opens
a Run and leaves the agent running, with no failing call. `stale_restart` shows
the same timer in `Supervisor`, as a contradiction of the comment at
`supervisor/lifecycle.rs` 20.

`SoleKeeper` sets aside behaviours in which a lease was granted on a re-spawned
record, which is `lease_respawned`'s subject. The first conjunct of `Correlated`
is about an agent that answers a request once; the others hold of any agent.
`NoDoubleCount` is checked in `metering_safe` on an instance whose breach comes
last, which is where it holds; `double_count` has one with an event behind it.

Fairness (`supervisor_live`). An operation that has begun runs on: it holds the
locks on a thread of its own and every wait in it is bounded. The reaper's
ticker and the sleeping restart tasks run as long as the engine is open. A
process that was sent SIGKILL dies in the end. Nothing is assumed of operators,
of sessions or of any other exit, and every conclusion allows the engine to be
closed. `stopping_wedge` assumes in addition that engines are opened again and
again and stay open, which is the strongest case for the comment it tests.

In `metering_safe` the drains and steps of an operation that has begun are
weakly fair, so is the ticker; the reap of a dead process is strongly fair,
since ticks keep coming and other operations only postpone it. In `services`
the writer's thread is weakly fair while its handle lives, the engine publishes
what it committed, and a host that lagged or lost its stream keeps acting;
nothing is assumed of callers. A deadlock is not an error in `services`: each
bounded component comes to rest.

Every property has a seeded fault (the operators marked "Seeded fault"), a
plausible bug of one definition, under which TLC finds it violated.

## What is proved

For every set of processes, threshold, number of failures and timers
(`SupervisorProofs`): `TypeCorrect`, `SupervisionIsRecorded`, `StopIsFinal` and
`SupervisorImplementsLifecycle`. The properties are not inductive by themselves.
A launch in progress has a process that no handle or record names yet, a stop
has a handle and a row that disagree. The invariant `Inv` adds `OpInv`, what
each step of an operation may rely on (the row it has committed, the record it
has written, the handle it has dropped; and that nothing runs and no handle
exists between sessions), and `HandleInv`, that a handle names a process. Each action is one lemma; the refinement maps every
step to an edge or a stutter with the row unchanged.

Under `Lossless`, the failures that `supervisor_live` leaves in (the wait for a
death may give up, no other call fails and the engine is closed in order):
`NeverTwoProcesses`, `LiveRowIsHeld` and `OnlyBreachLeavesFrozen`, from `Solo`.
Every process that runs, or could be made to run, has its one place (`Sole`): a
launch or a stop under way, the handle under a live row, or, with no engine
open, the detached process of the record. A live row has the handle or record
that goes with it (`Backed`), and what is frozen is being stopped or was paused
by signal (`Suspended`). With lost calls the three do not hold, as said
above.

For all settings, sizes, failures and bounds (`BudgetProofs`):

* `TypeCorrect`.
* `BreachOnce`, from `LatchInv`: the latches are exactly the recorded breaches.
  What fires is not latched under the configured action, hence not recorded.
* `CrossingRecorded`, from the same invariant: a latch that suppresses a
  crossing is itself a breach of this Run, dimension and action.
* `FenceHolds`, from `FenceInv`: while a block holds, the breach that an
  adoption reads is recorded and the ceiling that a relaunch evaluates is still
  reached, because totals only grow within a Run.
* `TimersKeepTheRun`, from its own invariant `TimerInv`: after an action taken
  while no timer slept at most one timer comes to sleep, its row is `failed` and
  its Run in the record; a process that is up has its Run recorded; no timer
  outlives its engine.
* `BreachStaysEnforced`, from `HoldInv` and `TimerInv`: the record of an enforced
  action can be found, a relaunched process still has its re-application ahead,
  a breach's pause is not mistaken for an operator's, and no timer that could
  open another Run is left under an `enforced` hold.

For any set of jobs and any batch bound (`WriterProofs`): `AnswersAreHonest` and
`HooksAreOrdered`, from `WriterInv`. A job leaves a trace only once the thread
has taken it (`Traces`); what ran waits exactly once for its answer
(`Waiting`); the open transaction holds exactly what ran in it
(`Transaction`); what is durable was answered with success or is about to be
(`Durable`). A caller's timeout and the thread's claim exclude each other, which
is why a write that was given up is never applied.

For any number of engines and launches (`AdoptionProofs`): `KeeperIsUnique`,
from `AdoptionInv`. A claim on a process is a launch in progress, a handle, or a
lease taken and not yet used. While its launcher claims a process, the record and
every listing of it name that engine as the owner (`Owned`); whoever claims it by adoption is the
leaseholder in its record (`Leased`); an attached process has one claimant
(`SoleClaim`). Nearly all steps give up names or claims, and one lemma treats
them together; the six that add one have a lemma each. At the compare-and-set, a
claimant that existed would have been seen alive, as owner or as leaseholder.

For any number of requests, stray answers and requests of the agent
(`AcpProofs`): `TurnsAreCorrelated`, from `AcpInv`. Ids are minted in order, so
the handshake's lie at or below the session's and turns above it (`Minted`,
`Phases`). With an agent that answers once, every request is in one place
(`Once`); an open request of the handshake has its waiter (`Waited`); and what
remains is one turn: marked, about to be marked under the lock, or written late
on a pipe on which nothing can be written any more (`Single`). Hence an answer
without a waiter is the one open turn's, and taking the flag without comparing
ids is right for such an agent.

For any queue sizes, caps, pages, families and numbers of events, crashes and
restarts (`DeliveryProofs`):

* `MetricsAreAccounted`, from `ExporterInv`: the events the exporter has folded and those
  that are queued are the events heard, in order, up to those it counted as lost;
  what the collector lacks is at most what is in flight and what was counted.
* `ExportIsLossless`, from `OutboxInv`: the retained sequence numbers are an
  interval (`Window`), the host holds what lies below what it stored and pulled
  (`Cursors`), and the newest row that was dropped unacknowledged did not fit
  (`Needed`).
* `ResyncLeavesNoGap`, from `FeedInv`: a host whose cursor is of the present
  registration holds every row below it (`Covered`).

`Outbox` sums sizes and `Feed` counts rows with the library's folds and
cardinalities, whose induction theorems the provers cannot instantiate; the
lemmas about them go by the least element of a set of naturals, or by the
largest subset for which the claim holds.

For any number of Runs (`RunsProofs`): `TreesFollowTheirOwner`,
`SnapshotsAreExact` and `RunsTellTheTruth`, from `RunsInv`. There is one open
owner at most, and every other open Run lies below it in its status, however
many Runs between were closed (`Tree`); the snapshot, changed record by record,
is the projection of all rows (`Exact`), because a write that opens or closes an
owner touches that owner; the phase of a launch says which Run is recorded
(`Kept`); and unless a projection has failed, the Run's status is the row's
(`Truth`).

For any number of events, launches, adoptions and failures, any cap and any
retry bound (`MeteringProofs`):

* `MeteringTypes`, with the shape of the call stack (`Stack`): below a loop come
  the calls its operation has left, and a kill is followed by its drain and its
  drop.
* `PatienceIsKept`, from `Metered`: ids grow along the log, the queue, the park
  and the blocks of the stack (`Ordered`), the two channels never mix
  (`Channel`), and every skip was of an event older than all that are pending
  (`Thrift`): there are never more skips than events, the saturating counter has
  room for the refusals behind each, and every attempt counted so far was one.
* `NoEventCountsTwice`, from `LedgerInv`: only the innermost loop holds events
  (`RestOnTop`); pending events are numbered in the order of their ids; a row of
  a pending event has the key that a second commit of it would have (`Keys`).
  The hypothesis is `BreachEndsBlock`: an event whose commit stops the instance
  is the last of its block. It cannot be dropped, as `double_count` shows.
  `LastBreachNeverDoubles` proves it of every instance in which only the last
  event may breach, as in `metering_safe`.
* `WholeLinesAreShown`, from `OutputInv`: cursor and block lie inside the file, a
  cut was decided when the tailer had it all (`Readers`), and what lets go of the
  handle still has a kill or a last drain ahead, or nothing left to show
  (`Shown`). The hypothesis is `ReturnsInside`: a stop whose kill stays
  unconfirmed does not return to a drain whose block its own drain has cut off
  the log. "Observations" has the case that breaks it.
* `NoUsageLostInSilence`, from `Account` on top of both. A line that was begun is
  the last chunk of the log, and a torn one is ended by the next chunk or is
  excused (`Lines`); the cursor leaves no line in two unless it is settled
  (`Whole`); what lies between the cursor and the end of the block is settled,
  in the loop's hands, or cut off there (`InBlock`); and a handle is let go of
  after both drains (`Tidy`). The hypotheses are `BreachEndsBlock` and
  `KillReturns`: a stop whose kill stays unconfirmed was not begun by a drain.
* `NoCeilingLosesNothing`: where no ceiling stops the instance (`StopAt` is
  empty) the hypotheses hold by themselves, and so do `NoDoubleCount`,
  `Accounted` and `OutputKept`. Contention, poison, failing reads and cuts,
  unconfirmed kills, crashes and adoptions are all still possible.

The assumptions are those of the modules: `NoPid` is no process, the threshold
and the bound on timers are positive, ceilings are naturals or unset, sizes are
naturals, hooks belong to jobs, `NoEngine` is no engine and `NoAgent` no process,
caps and retry bounds are naturals or positive, poisoned and breaching events
are events, the other bounds are naturals.

Only model-checked: the liveness properties, because fairness and `ENABLED` are
beyond the prover; and in `metering_safe`, where the last event may breach,
`Accounted` and `OutputKept` of the behaviours in which that breach's stop finds
its kill unconfirmed inside a drain, which the theorems' hypotheses set aside.

## What is not modelled

* Supervisor: several instances (they share nothing but locks), backoff delays (a
  timer may fire at any time), the waiting part of a drain, the ACP session id
  that a settled record keeps as a policy-only row, Windows job objects.
* Budget: child Runs' own ceilings (usage is attributed to children only behind
  a test seam), the launch's single steps and the adoption of a row in
  `stopping` (both in Supervisor), attached instances, replayed and parked
  usage (in Metering), saturation and rounding of micro-dollars. A rate of 0
  stands for no rate. A timer that finds the record settled launches the agent
  attached (`supervisor/lifecycle.rs` 48-53); `Budget` goes on treating it as
  detached, which allows more: its process may also outlive a closed session.
* Metering: the stderr twin of the raw log, whose drain is the same code; the
  vendors' payloads.
* Feed, Outbox, Exporter: payloads, the import of the journal that preceded the
  outbox table, HTTP beyond "answered or not".
* Runs: labels, limits, control depth, verbs, the breach anomaly, a child's
  external identity, a failing publication of the initial snapshot.
* Adoption: failing store and backend calls, fingerprints that cannot be read
  (the gate is open then, by design), pauses, removal, unconfirmed stops. The
  single engine's failures are in Supervisor. A settled row that is kept for an
  ACP session id (pid 0) counts as gone, also in `LeaseFree`, although the
  update of the lease would match it; the listed process is dead by then.
* Acp: the bounded queue of notices, updates and context usage, the codec.
* Left out altogether: the command line, the conformance kit, examples,
  rendering, configuration layers, manifests, secrets, HTTP routes, the host's
  lock and drain. They are most of the repository's lines and hold little state
  that two actors share: parsing and validation of TOML, tables of text, tests
  and benchmarks. That is why the map covers a small share of all lines while
  it covers most of what runs concurrently.

## Observations

Consequences of the code met while modelling that no run states, because
nothing in the repository contradicts them or because they are a matter of
wording.

* Governance: a fence is lifted by a relaunch after the ceiling was raised; a
  breach's pause that is refused because an operator had paused is not taken
  when the session's end resumes the agent; an action changed away and back
  across a relaunch is not re-applied.
* Restarts: a policy set to `never` during a backoff does not cancel the restart.
  A stale timer that launches a stopped instance opens a new Run although "only
  an operator start mints" (`supervisor/spawn.rs` 706): the pause or stop that a
  breach had taken is not re-applied and the per-run totals begin at zero, so the
  agent runs again although no operator asked for it.
* Metering: when a stop that a breach began inside a drain finds its kill
  unconfirmed, it returns into that drain, which then sets the cursor to the end
  of its own, older block (`usage.rs` 196-378, `set_cursor(s, cursor +
  consumed)`), even if the stop's drain has cut the log in between. The cursor
  then lies past the end, and the lines written up to there are passed over in
  silence (`Accounted` fails for `StopAt` = {1}, three events, a log cap of 1 and
  one failure). The drain of the reap that follows returns at its check for a
  log that shrank, before it takes the tailer along, so that in metadata mode
  whole lines may be unlinked unshown. `metering_safe` has the breach last,
  where nothing follows it.
* Metering: the drain before a kill announces a refused tail as lost although the
  drain after the kill retries it; after an observed event was skipped the next
  one starts with an attempt already counted; the comment at
  `supervisor/lifecycle.rs` 468 says that observed completions before the kill
  "must land", but those between that drain and the drop do not; an event of the
  log and one of the twin channel of an ACP agent share a dedup key.
* Adoption: after another engine's stop and start, the reaper of the engine that
  held the old process finds its pid dead and the row `running`, and records a
  crash of the new one: it looks the row up by name and compares no fingerprint.
  With four engines a lease granted on a re-spawned record can leave two engines
  that both kill the process on exit. That "the registry already refuses a
  duplicate spawn of a live record" (`ports/state_store.rs` 130) rests on the
  row's state alone.
* Feed: a resync cursor of an instance that was removed and registered again is
  accepted once the new counts reach it, and the rows below it are skipped
  (`domain/resync.rs` 84 calls the count a stable position); `domain/bus.rs`
  advises to resync before subscribing, while `resync.rs` says that this order
  leaves a gap. The outbox's docs say that a failing append never fails the
  commit; it is part of the commit now.
* Exporter: the wait at shutdown has the same bound as the last flush and starts
  before it, so the caller may see no count.
* Runs: removing a failed instance whose relaunch is pending deletes its Run rows
  and leaves the entry in the published snapshot (`deleted`); a planned relaunch
  that is refused before the row is `starting` leaves its Run open without a
  process until the next engine's sweep (`refused`); an adoption brings depth and
  labels up to date, not a status left behind by a failed projection, although
  `supervisor/mod.rs` says that it does.
* Acp: an answer without a waiter takes the turn's flag before its id is compared,
  so a stray one ends another turn, though the comment says it is counted and
  skipped; a request or prompt that begins between the reader's last two steps
  and the close of the stdin waits out its timeout or leaves the flag set; a
  write that timed out may land, and its answer is then called not issued by
  this engine; a `session/load` that times out uses up the deadline, or the
  pipe, that `session/new` needs, though a load failure is said never to be fatal
  to a start; the drop of any clone closes the stdin.

## Plan

1. Proofs: the safety of metering when the kill of a breach's stop stays
   unconfirmed inside a drain but nothing is written afterwards, which would
   cover `metering_safe` in full.
2. `Writer` as the refinement of an atomic commit that the other modules could
   instantiate.
3. The queue of ACP notices, the liveness windows, the reaper's poll streaks, the
   host's lock and drain.
