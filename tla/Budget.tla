------------------------------- MODULE Budget -------------------------------
(***************************************************************************)
(* Budget governance of one detached agent instance: usage is committed to *)
(* the ledger, the budgets are evaluated in the same transaction, every    *)
(* breach is recorded with a durable latch, and its Breach Action is taken *)
(* afterwards through the lifecycle.  A relaunch and an adoption keep the   *)
(* Run that the spawn record names, with its totals, latches and fence;    *)
(* every other launch opens a Run, also that of a restart timer which      *)
(* finds the record settled.                                               *)
(*                                                                         *)
(* An operation holds the engine's locks until it is done; what it still   *)
(* has to do is the sequence todo.  Only two things come between its       *)
(* steps: a crash of the engine, and a write of the settings by another    *)
(* process (every evaluation reads them anew).                             *)
(* Sources: domain/pipeline.rs, governance.rs, budget.rs, cost.rs,         *)
(* metering/fence.rs, domain/supervisor/{usage,spawn,reaper}.rs.           *)
(***************************************************************************)
EXTENDS LifecycleTable, Integers, Sequences, FiniteSets

CONSTANTS
  Settings,     \* the budget settings that may be in force
  Sizes,        \* the tokens of one usage event
  Sources,      \* which metering sources are tried
  FaultKinds,   \* which calls may fail in this instance of the model
  MaxFaults,    \* bound: how many kinds of calls fail, each of them once
  MaxTokens,    \* bound: tokens used by the instance over its life
  MaxRuns,      \* bound: Runs opened
  MaxTimers     \* bound: restart timers that sleep at once

Dimensions == {"tokens", "dollars"}
Scopes == {"per_run", "cumulative"}
Actions == {"warn", "pause", "stop", "block"}
Unset == -1                                   \* this ceiling is not configured
Setting == [limit : [Dimensions -> [Scopes -> Nat \cup {Unset}]],
            action : [Dimensions -> Actions], rate : Nat]

ASSUME SettingsAssumption == Settings \subseteq Setting /\ Settings # {}
ASSUME SizesAssumption == Sizes \subseteq Nat
ASSUME SourcesAssumption == Sources \subseteq {"engine-observed", "self-reported"}
ASSUME FaultKindsAssumption ==
  FaultKinds \subseteq {"totals", "config", "breaches", "record", "commit", "crash"}
ASSUME BoundsAssumption ==
  MaxFaults \in Nat /\ MaxTokens \in Nat /\ MaxRuns \in Nat /\ MaxTimers \in Nat

VARIABLES
  config,    \* the settings in force
  source,    \* the instance's metering source
  canPause,  \* the adapter's pause capability
  row,       \* agent_instances.state
  operator,  \* the last pause was an operator's, not a breach's
  run,       \* the number of the current (or last) Run
  recorded,  \* the spawn record holds that Run's id: it has not been settled
  total,     \* the rollups of this Run and of the instance
  latches,   \* run_latches
  breaches,  \* breach_events, oldest first
  up,        \* is an engine open
  held,      \* the engine supervises the instance
  listener,  \* its metering listener is bound
  fence,     \* the reasons raised on that listener
  timers,    \* how many restart timers sleep
  todo,      \* what the operation under way still has to do
  faults,    \* which kinds of calls have failed
  hold,      \* history: what became of the last pause or stop that fired
  blocked    \* history: a block fired in this Run under these settings

ledger == <<run, recorded, total, latches, breaches>>
engine == <<up, held, listener, fence, timers>>
fixed == <<source, canPause>>
history == <<hold, blocked>>
vars == <<config, fixed, row, operator, ledger, engine, todo, faults, history>>

Key == [dimension : Dimensions, scope : Scopes]
Breach == [run : 0 .. MaxRuns, dimension : Dimensions, scope : Scopes,
           action : Actions]
Holds == {"none", "committed", "enforced", "overhung"}
Tasks == Actions \cup {"enforce", "fenced", "reapply", "finish"}
KeyOf(b) == [dimension |-> b.dimension, scope |-> b.scope]
Zero == [d \in Dimensions |-> 0]
Members(s) == {s[i] : i \in DOMAIN s}

Ready == up /\ todo = <<>>
Doing(task) == up /\ todo # <<>> /\ Head(todo) = task

\* A call that may fail, once for each kind.
Attempt(kind, ok) ==
  IF ok THEN UNCHANGED faults
  ELSE /\ kind \in FaultKinds \ faults /\ Cardinality(faults) < MaxFaults
       /\ faults' = faults \cup {kind}

-----------------------------------------------------------------------------
(* The decision core: governance::decide *)

Reached(limit, sum) == limit # Unset /\ sum >= limit

\* BudgetEvaluator::evaluate and CostEvaluator::evaluate: the scope reported
\* as reached, the Run's before the instance's.
Within == "within"
evaluate(limit, sums, d) ==
  IF Reached(limit["per_run"], sums["per_run"][d]) THEN "per_run"
  ELSE IF Reached(limit["cumulative"], sums["cumulative"][d]) THEN "cumulative"
  ELSE Within

\* A dimension without a ceiling is skipped, and dollars without a rate.
Armed(c, d) ==
  /\ \E s \in Scopes : c.limit[d][s] # Unset
  /\ d = "dollars" => c.rate > 0

\* What fires for one dimension: at most one decision, unless it is latched.
Fires(c, sums, latched, d) ==
  LET scope == evaluate(c.limit[d], sums, d)
      key == [dimension |-> d, scope |-> scope]
  IN IF Armed(c, d) /\ scope # Within /\ key \notin latched
     THEN <<[run |-> run, dimension |-> d, scope |-> scope,
             action |-> c.action[d]]>>
     ELSE <<>>

\* Tokens before dollars.
decide(c, sums, latched) ==
  Fires(c, sums, latched, "tokens") \o Fires(c, sums, latched, "dollars")

-----------------------------------------------------------------------------
(* The writer's job: pipeline::evaluate *)

\* Seeded fault: a latch is spent whatever the action that recorded it.
LatchedWhateverAction(c) ==
  {KeyOf(l) : l \in {m \in latches : m.run = run}}

\* Seeded fault: nothing is ever latched.
LatchedNothing(c) == {}

\* The Run's latches, under the actions that are configured now.
Latched(c) ==
  {KeyOf(l) : l \in {m \in latches :
                       m.run = run /\ m.action = c.action[m.dimension]}}

\* A settings file that cannot be read stands for no budget and no rate.
Unconfigured ==
  [limit |-> [d \in Dimensions |-> [s \in Scopes |-> Unset]],
   action |-> [d \in Dimensions |-> "pause"], rate |-> 0]

\* The totals a reader gets: a failed read counts as zero.
ReadTotals(sums, lost) ==
  [s \in Scopes |-> [d \in Dimensions |->
     IF <<d, s>> \in lost THEN 0 ELSE sums[s][d]]]

\* What one evaluation gets to read, when at most one kind of read fails.
Reads(c, lost) ==
  \/ c = config /\ lost = {} /\ UNCHANGED faults
  \/ c = config /\ lost # {} /\ Attempt("totals", FALSE)
  \/ c = Unconfigured /\ lost = {} /\ Attempt("config", FALSE)

\* One rollup row holds both dimensions.
RollupLosses == {Dimensions \X S : S \in SUBSET Scopes}

Blocks(fired) == {KeyOf(b) : b \in {x \in Members(fired) : x.action = "block"}}

\* apply_evaluation takes the actions in the order their breaches fired.
ActionsOf(fired) == [i \in DOMAIN fired |-> fired[i].action]
Acts(fired) == \E b \in Members(fired) : b.action \in {"pause", "stop"}

\* Everything the job writes, and what is left to do before the operation goes
\* on with `rest`.  The fence is raised after the commit and before the caller
\* hears of it.
CommitBreaches(fired, rest) ==
  /\ breaches' = breaches \o fired
  /\ latches' = latches \cup Members(fired)
  /\ fence' = IF listener THEN fence \cup Blocks(fired) ELSE fence
  /\ todo' = ActionsOf(fired) \o rest
  /\ hold' = IF Acts(fired) THEN "committed" ELSE hold
  /\ blocked' = (blocked \/ Blocks(fired) # {})

\* The row of a usage event is priced at the rate in force when it commits.
Counted(sum, n, rate) ==
  [sum EXCEPT !["tokens"] = @ + n, !["dollars"] = @ + n * rate]

\* ingest_usage: the ledger row, both rollups and the evaluation are one
\* commit; when it fails nothing of it landed and the event waits or is lost.
\* Events are drained between operations and, for the last time, while a stop
\* is under way.
Usage(n) ==
  /\ held /\ (Ready \/ Doing("finish"))
  /\ total["cumulative"]["tokens"] + n <= MaxTokens
  /\ \E c \in {config, Unconfigured}, lost \in RollupLosses :
       LET sums == [s \in Scopes |-> Counted(total[s], n, c.rate)] IN
         /\ Reads(c, lost)
         /\ total' = sums
         /\ CommitBreaches(decide(c, ReadTotals(sums, lost), Latched(c)), todo)
  /\ UNCHANGED <<config, fixed, row, operator, run, recorded, up, held, listener, timers>>

\* enforce_budget: an evaluation without a new ledger row.
EnforceBudget ==
  /\ \E c \in {config, Unconfigured}, lost \in RollupLosses :
       /\ Reads(c, lost)
       /\ CommitBreaches(decide(c, ReadTotals(total, lost), Latched(c)), Tail(todo))
  /\ UNCHANGED <<config, fixed, row, operator, run, recorded, total, up, held, listener,
                 timers>>

-----------------------------------------------------------------------------
(* Launches: an operator's start opens a new Run, a relaunch keeps the Run *)
(* that the record still names.                                            *)

BlockConfigured(c) == \E d \in Dimensions : c.action[d] = "block"

\* run_start_fence: before the process is spawned the fence is raised for
\* every block ceiling the Run begins at, whatever is latched.
RunStartFence(c, sums) == Blocks(decide(c, sums, {}))

\* The listener of the launch is born with its fence, the process and its
\* record follow, and the launch goes on with `rest`.  Of the calls that read
\* something at most one fails: without `read` it was that of the record.
Launched(sums, rest, read) ==
  /\ row' = "running" /\ held' = TRUE /\ recorded' = TRUE
  /\ listener' = (source = "engine-observed")
  /\ \E c \in {config, Unconfigured}, lost \in SUBSET (Dimensions \X Scopes) :
       /\ IF read THEN Reads(c, lost)
          ELSE c = config /\ lost = {} /\ Attempt("record", FALSE)
       /\ fence' = IF listener' THEN RunStartFence(c, ReadTotals(sums, lost)) ELSE {}
  /\ todo' = rest

NewSums == [total EXCEPT !["per_run"] = Zero]

\* What a Run that no operator opened leaves of the hold.
HeldInRun == IF hold = "enforced" THEN hold ELSE "none"

\* RunId::mint: the launch is that of a new Run, with nothing to re-apply.
OpensRun(read) ==
  /\ run < MaxRuns /\ run' = run + 1 /\ total' = NewSums
  /\ Launched(NewSums, <<"fenced">>, read)
  /\ blocked' = FALSE

Start ==
  /\ Ready /\ next_state(row, "start") = "starting"
  /\ OpensRun(TRUE) /\ hold' = "none"
  /\ UNCHANGED <<config, fixed, operator, latches, breaches, up, timers>>

\* A restart timer fires, and only the command table decides whether it
\* launches: it may find the row failed, or stopped since.  The Run goes on if
\* the record still names it; else, and when the record cannot be read, a Run
\* is opened with nothing to re-apply.
Relaunch ==
  /\ Ready /\ timers > 0 /\ timers' = timers - 1
  /\ next_state(row, "start") = "starting"
  /\ \/ /\ recorded /\ Launched(total, <<"fenced", "reapply">>, TRUE)
        /\ UNCHANGED <<run, total, history>>
     \/ OpensRun(~recorded) /\ hold' = HeldInRun
  /\ UNCHANGED <<config, fixed, operator, latches, breaches, up>>

\* The gate rejects the start of an agent that is up.
RelaunchRejected ==
  /\ Ready /\ timers > 0 /\ timers' = timers - 1
  /\ next_state(row, "start") # "starting"
  /\ UNCHANGED <<config, fixed, row, operator, ledger, up, held, listener, fence, todo,
                 faults, history>>

\* With a fence raised, or block configured by now, the breaches the fence
\* stands for are recorded at once.
EnforceFenced ==
  /\ Doing("fenced")
  /\ fence # {} \/ BlockConfigured(config)
  /\ EnforceBudget

SkipFenced ==
  /\ Doing("fenced") /\ fence = {}
  /\ \/ ~BlockConfigured(config) /\ UNCHANGED faults
     \/ Attempt("config", FALSE)
  /\ todo' = Tail(todo)
  /\ UNCHANGED <<config, fixed, row, operator, ledger, engine, history>>

\* The writer rolled the evaluation back: it is left to the next usage event.
EnforcementFails ==
  /\ Doing("fenced") \/ Doing("enforce")
  /\ Attempt("commit", FALSE) /\ todo' = Tail(todo)
  /\ UNCHANGED <<config, fixed, row, operator, ledger, engine, history>>

\* Seeded fault: the spent latches are left alone.
SpentNone(c) == {}

\* The Run's pauses and stops under the actions that are configured now.
Spent(c) ==
  {i \in DOMAIN breaches :
     /\ breaches[i].run = run
     /\ breaches[i].action = c.action[breaches[i].dimension]
     /\ breaches[i].action \in {"pause", "stop"}}

\* reapply_latched_actions: the last of them is taken again.
Reapply ==
  /\ Doing("reapply")
  /\ \/ \E i \in Spent(config) :
          /\ \A j \in Spent(config) : j <= i
          /\ todo' = <<breaches[i].action>> \o Tail(todo)
          /\ hold' = "committed" /\ UNCHANGED faults
     \/ /\ Spent(config) = {} /\ todo' = Tail(todo) /\ UNCHANGED <<hold, faults>>
     \/ /\ Attempt("config", FALSE) \/ Attempt("breaches", FALSE)
        /\ todo' = Tail(todo) /\ UNCHANGED hold
  /\ UNCHANGED <<config, fixed, row, operator, ledger, engine, blocked>>

-----------------------------------------------------------------------------
(* Breach Actions and the operator: the lifecycle as governance sees it *)

\* What becomes of a pause or stop that fired and has not been overtaken by
\* new settings.  Taken while an earlier restart timer sleeps it is overhung:
\* that timer may find the record settled and open another Run.
Taken ==
  IF hold # "committed" THEN hold ELSE IF timers = 0 THEN "enforced" ELSE "overhung"
Refused == IF hold = "committed" THEN "none" ELSE hold

\* A warning is only recorded; the fence of a block is up already (note_block).
NoteBreach ==
  /\ Doing("warn") \/ Doing("block")
  /\ todo' = Tail(todo)
  /\ UNCHANGED <<config, fixed, row, operator, ledger, engine, faults, history>>

\* enforce_pause: refused by the gate, or by an adapter that cannot pause, it
\* is only reported.
EnforcePause ==
  /\ Doing("pause")
  /\ todo' = Tail(todo)
  /\ IF next_state(row, "pause") = "paused" /\ canPause
     THEN row' = "paused" /\ operator' = FALSE /\ hold' = Taken
     ELSE hold' = Refused /\ UNCHANGED <<row, operator>>
  /\ UNCHANGED <<config, fixed, ledger, engine, faults, blocked>>

\* enforce_stop: a whole stop, inside the operation that met the breach.
EnforceStop ==
  /\ Doing("stop")
  /\ IF next_state(row, "stop") = "stopping"
     THEN /\ row' = "stopping" /\ hold' = Taken
          /\ todo' = <<"finish">> \o Tail(todo)
     ELSE hold' = Refused /\ todo' = Tail(todo) /\ UNCHANGED row
  /\ UNCHANGED <<config, fixed, operator, ledger, engine, faults, blocked>>

Stop ==
  /\ Ready /\ held /\ next_state(row, "stop") = "stopping"
  /\ row' = "stopping" /\ todo' = <<"finish">>
  /\ UNCHANGED <<config, fixed, operator, ledger, engine, faults, history>>

\* The listener, and with it the fence, goes when the process does.
Unsupervised == held' = FALSE /\ listener' = FALSE /\ fence' = {}

FinishStop ==
  /\ Doing("finish")
  /\ row' = "stopped" /\ Unsupervised /\ recorded' = FALSE /\ todo' = Tail(todo)
  /\ UNCHANGED <<config, fixed, operator, run, total, latches, breaches, up, timers, faults,
                 history>>

Pause ==
  /\ Ready /\ held /\ next_state(row, "pause") = "paused" /\ canPause
  /\ row' = "paused" /\ operator' = TRUE
  /\ UNCHANGED <<config, fixed, ledger, engine, todo, faults, history>>

Resume ==
  /\ Ready /\ held /\ next_state(row, "resume") = "running"
  /\ row' = "running" /\ hold' = "none"
  /\ UNCHANGED <<config, fixed, operator, ledger, engine, todo, faults, blocked>>

\* The process has exited: the reaper, after the last drain, reads the row
\* again and plans a relaunch, for which the record is kept, or gives up, and
\* settles it.  The earlier timers sleep on.
Reap(again) ==
  /\ Ready /\ held /\ row \in {"running", "paused"}
  /\ row' = "failed" /\ Unsupervised
  /\ IF again THEN /\ timers < MaxTimers /\ timers' = timers + 1 /\ UNCHANGED recorded
             ELSE recorded' = FALSE /\ UNCHANGED timers
  /\ UNCHANGED <<config, fixed, operator, run, total, latches, breaches, up, todo, faults,
                 history>>

\* The exit code is one the adapter declares clean.
ReapClean ==
  /\ Ready /\ held /\ row = "running"
  /\ row' = "stopped" /\ Unsupervised /\ recorded' = FALSE
  /\ UNCHANGED <<config, fixed, operator, run, total, latches, breaches, up, timers, todo,
                 faults, history>>

\* config set, by an operator or by another process at any time.
Configure(c) ==
  /\ c # config /\ config' = c
  /\ hold' = "none" /\ blocked' = FALSE
  /\ UNCHANGED <<fixed, row, operator, ledger, engine, todo, faults>>

-----------------------------------------------------------------------------
(* Sessions: the engine closes or crashes, the process runs on *)

Gone == up' = FALSE /\ Unsupervised /\ timers' = 0 /\ todo' = <<>>

\* release_detached_paused: an operator's pause ends with the session.
Close ==
  /\ Ready /\ Gone
  /\ row' = IF held /\ row = "paused" /\ operator THEN "running" ELSE row
  /\ UNCHANGED <<config, fixed, operator, ledger, faults, history>>

Crash ==
  /\ up /\ Attempt("crash", FALSE) /\ Gone
  /\ UNCHANGED <<config, fixed, row, operator, ledger, history>>

\* Seeded fault: the fence of the resumed Run is left to the evaluation.
ResumedNoReasons(c) == {}

\* The reasons the fence of the resumed Run was up for, from its records.
ResumedReasons(c) ==
  {KeyOf(b) : b \in {x \in Members(breaches) :
     x.run = run /\ x.action = "block" /\ c.action[x.dimension] = "block"}}

\* adopt_orphans: the listener is bound again, if it can be, with the fence of
\* the resumed Run; then the budgets are evaluated.
OpenAdopts ==
  /\ ~up /\ up' = TRUE /\ row \in {"running", "paused"}
  /\ held' = TRUE /\ todo' = <<"enforce">>
  /\ listener' \in {FALSE, source = "engine-observed"}
  /\ \/ fence' = (IF listener' THEN ResumedReasons(config) ELSE {}) /\ UNCHANGED faults
     \/ fence' = {} /\ (Attempt("config", FALSE) \/ Attempt("breaches", FALSE))
  /\ UNCHANGED <<config, fixed, row, operator, ledger, timers, history>>

EnforceAdopted ==
  /\ Doing("enforce")
  /\ EnforceBudget

\* There is no process to adopt: a running or paused row is reconciled, and the
\* record is settled whatever the row.
OpenReconciles ==
  /\ ~up /\ up' = TRUE /\ recorded' = FALSE
  /\ row' = IF row \in {"running", "paused"} THEN "failed" ELSE row
  /\ UNCHANGED <<config, fixed, operator, run, total, latches, breaches, held, listener,
                 fence, timers, todo, faults, history>>

-----------------------------------------------------------------------------
Init ==
  /\ config \in Settings /\ source \in Sources /\ canPause \in BOOLEAN
  /\ row = "registered" /\ operator = FALSE
  /\ run = 0 /\ recorded = FALSE /\ total = [s \in Scopes |-> Zero]
  /\ latches = {} /\ breaches = <<>>
  /\ up = TRUE /\ held = FALSE /\ listener = FALSE /\ fence = {}
  /\ timers = 0 /\ todo = <<>> /\ faults = {}
  /\ hold = "none" /\ blocked = FALSE

Next ==
  \/ \E n \in Sizes : Usage(n)
  \/ Start \/ Relaunch \/ RelaunchRejected
  \/ EnforceFenced \/ SkipFenced \/ EnforcementFails \/ Reapply
  \/ NoteBreach \/ EnforcePause \/ EnforceStop \/ Stop \/ FinishStop \/ Pause \/ Resume
  \/ ReapClean \/ \E again \in BOOLEAN : Reap(again)
  \/ \E c \in Settings : Configure(c)
  \/ Close \/ Crash \/ OpenAdopts \/ EnforceAdopted \/ OpenReconciles

Spec == Init /\ [][Next]_vars

-----------------------------------------------------------------------------
(* Properties *)

\* Every variable keeps its type.
TypeOK ==
  /\ config \in Settings /\ source \in Sources /\ canPause \in BOOLEAN
  /\ row \in Rows /\ operator \in BOOLEAN
  /\ run \in 0 .. MaxRuns /\ recorded \in BOOLEAN /\ total \in [Scopes -> [Dimensions -> Nat]]
  /\ latches \subseteq Breach /\ breaches \in Seq(Breach)
  /\ up \in BOOLEAN /\ held \in BOOLEAN /\ listener \in BOOLEAN
  /\ fence \subseteq Key /\ timers \in Nat
  /\ todo \in Seq(Tasks) /\ faults \subseteq FaultKinds
  /\ hold \in Holds /\ blocked \in BOOLEAN

\* "at most one breach per (dimension, scope) per Run and action": no breach
\* is recorded twice, through relaunches, adoptions, settings that come and
\* go, and evaluations whose reads fail.
OncePerRun ==
  \A i, j \in DOMAIN breaches : breaches[i] = breaches[j] => i = j

\* A ceiling is reached at or above its limit.
AtCeiling(d, s) ==
  config.limit[d][s] # Unset /\ config.limit[d][s] <= total[s][d]

\* A usage event whose commit could read its settings and totals never leaves
\* a dimension at a ceiling without a breach of this Run under the action that
\* is configured: a changed action fires again, and so does a new Run.
CrossingIsRecorded ==
  [][total["cumulative"] # total'["cumulative"] /\ faults' = faults =>
       \A d \in Dimensions, s \in Scopes :
         Armed(config, d) /\ AtCeiling(d, s)' =>
           \E b \in Members(breaches') :
             /\ b.run = run /\ b.dimension = d /\ b.action = config.action[d]
             /\ AtCeiling(d, b.scope)']_vars

\* A pause or stop that was taken for a breach stays in force until an
\* operator resumes or starts the agent or changes the settings: no crash, no
\* clean exit or stop, no relaunch and no change of sessions brings the agent
\* back running.  Where a restart timer slept already when the action was
\* taken, the action binds only its Run: such a timer may open another one
\* (the supervisor's StoppedIsNotRestarted fails by the same timer).
InForce == hold \in {"enforced", "overhung"}
BreachHolds == faults = {} /\ Ready /\ InForce => row # "running"

\* Once a block has fired in a Run, and until the settings change, every
\* listener of that Run is fenced from the moment it is bound: "no request can
\* slip through between bind and raise".
FenceSurvives ==
  faults \subseteq {"crash"} /\ blocked /\ listener => fence # {}

-----------------------------------------------------------------------------
(* What the repository says of the code, and the code does not do *)

\* "the action is the same regardless of scope, so precedence only affects the
\* reported label" (budget.rs): a usage event with which a ceiling of the Run
\* or of the instance comes to be reached records a breach of its dimension.
EveryCeilingFires ==
  [][total["cumulative"] # total'["cumulative"] =>
       \A d \in Dimensions, s \in Scopes :
         Armed(config, d) /\ AtCeiling(d, s)' /\ ~AtCeiling(d, s)
         => \E b \in Members(breaches') \ Members(breaches) :
              b.run = run /\ b.dimension = d]_vars

\* "an instance already past its ceiling must be enforced at startup, not left
\* running unconstrained" (supervisor/reaper.rs): once an adoption is done, no
\* pause or stop that fired is still waiting to be taken.
FiredActionIsTaken == Ready /\ held => hold # "committed"
=============================================================================
