-------------------------------- MODULE Runs --------------------------------
(***************************************************************************)
(* The Run records of one instance.  A supervised launch owns a Run; a     *)
(* host opens child Runs below it, nested.  Every lifecycle transition is  *)
(* projected onto the owner's Run inside the job that commits it, in a     *)
(* savepoint of its own (Run bookkeeping never blocks a transition), and   *)
(* cascades to the open Runs below.  The data path reads a published       *)
(* snapshot that each job changes only by the records it touched.          *)
(* Sources: domain/runs/{ops,snapshot}.rs, domain/supervisor/{commit,runs, *)
(* spawn,reaper}.rs, store/runs_sqlite.rs, domain/registry.rs.             *)
(***************************************************************************)
EXTENDS Integers, FiniteSets, LifecycleTable

CONSTANTS
  MaxRuns,     \* bound: Runs minted
  MaxNesting,  \* MAX_RUN_NESTING
  MaxMissed,   \* bound: projections, syncs and sweeps that fail
  MaxOpens     \* bound: times the engine is opened again

ASSUME RunsAssumption ==
  /\ MaxRuns \in Nat /\ MaxNesting \in Nat /\ MaxMissed \in Nat /\ MaxOpens \in Nat

VARIABLES
  lifecycle,  \* the instance's stored state
  runs,       \* the Run rows
  born,       \* Runs minted so far
  recorded,   \* the Run id on the spawn record, or NoRun
  underway,   \* the operation that holds the lock: see Underway
  snapshot,   \* the published snapshot: the entries by Run id
  ownerOf,    \* its index: the instance's open process-owning Run
  phase,      \* where the engine is: opening in two steps, up, or down
  planned,    \* a relaunch of a crash is planned in this engine
  refused,    \* a planned relaunch was refused before it changed the row
  unprojected,\* the last transition that should have moved the Run did not
  deleted,    \* Runs whose rows went with the instance since the engine opened
  missed, opens

runsVars == <<lifecycle, runs, born, recorded, underway, snapshot, ownerOf, phase,
              planned, refused, unprojected, deleted, missed, opens>>

NoRun == 0

\* A launch before its record is the Run it keeps (NoRun: it mints one).
Launched == -1
Stopping == -2
Nothing == -3
Underway == 0 .. MaxRuns \cup {Launched, Stopping, Nothing}

RunId == 1 .. MaxRuns
NoRow == [status |-> "none", owner |-> FALSE, above |-> {}, anomaly |-> FALSE]
Open == {"active", "held"}
NoProcess == {"failed", "stopped", "registered"}

RunsInit ==
  /\ lifecycle = "registered"
  /\ runs = [r \in RunId |-> NoRow] /\ born = 0
  /\ recorded = NoRun /\ underway = Nothing
  /\ snapshot = [r \in RunId |-> NoRow] /\ ownerOf = NoRun
  /\ phase = "up" /\ planned = FALSE /\ refused = FALSE /\ unprojected = FALSE
  /\ deleted = {} /\ missed = 0 /\ opens = 0

------------------------------------------------------------------------------
(* ops.rs and snapshot.rs: what one job writes, and what its hook publishes. *)

\* open_process_run: the unique index keeps it to one.
OpenOwners == {r \in RunId : runs[r].owner /\ runs[r].status \in Open}

\* Seeded fault: the walk stops at an ended Run.
DescendantsThroughOpen(rs, o) ==
  { r \in RunId : /\ o \in rs[r].above /\ rs[r].status \in Open
                  /\ \A a \in rs[r].above : a = o \/ rs[a].status \in Open }

\* open_in_process_descendants: ended Runs between are walked through.
Descendants(rs, o) == {r \in RunId : o \in rs[r].above /\ rs[r].status \in Open}

\* move_to and cascade: when the owner's status changes, every open Run below
\* takes it (a child never holds on its own).
MoveOwner(rs, o, status, anomaly) ==
  [r \in RunId |->
     IF r = o THEN [rs[r] EXCEPT !.status = status, !.anomaly = anomaly]
     ELSE IF rs[o].status # status /\ r \in Descendants(rs, o)
          THEN [rs[r] EXCEPT !.status = status]
          ELSE rs[r]]

EndOwners(rs, S) ==
  [r \in RunId |-> LET o == CHOOSE o \in S : TRUE
                   IN  IF S = {} THEN rs[r]
                       ELSE MoveOwner(rs, o, "ended", rs[o].anomaly)[r]]

\* The table of project_transition.
Projected(o, new, relaunching) ==
  CASE new = "running" -> "active"
    [] new = "paused" -> "held"
    [] new = "stopped" \/ (new = "failed" /\ ~ relaunching) -> "ended"
    [] OTHER -> runs[o].status

Projects(new) == new \in {"running", "paused", "stopped", "failed"}

project_transition(new, relaunching) ==
  [r \in RunId |->
     LET o == CHOOSE o \in OpenOwners : TRUE
     IN  IF OpenOwners = {} \/ ~ Projects(new) THEN runs[r]
         ELSE MoveOwner(runs, o, Projected(o, new, relaunching),
                        IF new = "running" THEN FALSE
                        ELSE new = "failed" \/ runs[o].anomaly)[r]]

\* ensure_supervised: another open owner ends as replaced; a kept Run that
\* had ended is reopened; any other id is inserted.
ensure_supervised(id) ==
  LET replaced == EndOwners(runs, OpenOwners \ {id})
  IN  IF runs[id].status \in Open THEN replaced
      ELSE IF runs[id].status = "ended"
           THEN [replaced EXCEPT ![id].status = "active"]
           ELSE [replaced EXCEPT ![id] = [NoRow EXCEPT !.status = "active", !.owner = TRUE]]

\* Seeded fault: an ended Run stays in the snapshot.
EntryKeepingEnded(row) == row

\* A snapshot holds the Runs that have not ended.
Entry(row) == IF row.status \in Open THEN row ELSE NoRow

\* RunSnapshot::with, in the post-commit hook of the job that writes rs.
Write(rs) ==
  LET changed == {r \in RunId : rs[r] # runs[r]}
      opened == {r \in changed : rs[r].owner /\ rs[r].status \in Open}
  IN  /\ runs' = rs
      /\ snapshot' = [r \in RunId |-> IF r \in changed THEN Entry(rs[r]) ELSE snapshot[r]]
      /\ ownerOf' = IF opened # {} THEN CHOOSE r \in opened : TRUE
                    ELSE IF ownerOf \in changed THEN NoRun ELSE ownerOf

Unwritten == UNCHANGED <<runs, snapshot, ownerOf>>

Miss == missed < MaxMissed /\ missed' = missed + 1

------------------------------------------------------------------------------
(* Lifecycle transitions: commit_transition. *)

\* The state and the projection commit together; when the projection fails,
\* its savepoint alone is rolled back.
Transition(new, relaunching) ==
  /\ lifecycle' = new
  /\ \/ /\ Write(project_transition(new, relaunching))
        /\ unprojected' = (unprojected /\ ~ Projects(new))
        /\ UNCHANGED missed
     \/ /\ Projects(new) /\ Miss /\ Unwritten
        /\ unprojected' = TRUE

\* start_inner up to the starting row.  A relaunch keeps the recorded Run.
BeginLaunch(relaunch) ==
  /\ phase = "up" /\ underway = Nothing /\ lifecycle \in Accepts.start
  /\ relaunch => planned
  /\ planned' = (planned /\ ~ relaunch)
  /\ underway' = (IF relaunch THEN recorded ELSE NoRun)
  /\ Transition("starting", FALSE)
  /\ UNCHANGED <<born, recorded, phase, refused, deleted, opens>>

\* A planned relaunch whose preparations fail, or that finds a row it cannot
\* start from: nothing is committed.
RefuseRelaunch ==
  /\ phase = "up" /\ underway = Nothing /\ planned /\ planned' = FALSE
  /\ refused' = (refused \/ lifecycle \in NoProcess)
  /\ UNCHANGED <<lifecycle, runs, born, recorded, underway, snapshot, ownerOf, phase,
                 unprojected, deleted, missed, opens>>

\* write_spawn_record_new_launch: the record and the Run in one job.
RecordLaunch ==
  /\ phase = "up" /\ underway \in RunId \cup {NoRun}
  /\ underway = NoRun => born < MaxRuns
  /\ LET id == IF underway = NoRun THEN born + 1 ELSE underway
     IN  Write(ensure_supervised(id)) /\ recorded' = id
  /\ born' = (IF underway = NoRun THEN born + 1 ELSE born)
  /\ underway' = Launched
  /\ refused' = FALSE
  /\ unprojected' = FALSE
  /\ UNCHANGED <<lifecycle, phase, planned, deleted, missed, opens>>

\* The launch fails, before or after its record; only an exit in the launch
\* window is planned for.
FailLaunch(relaunching) ==
  /\ phase = "up" /\ underway \notin {Stopping, Nothing}
  /\ relaunching => underway = Launched
  /\ Transition("failed", relaunching)
  /\ planned' = (planned \/ relaunching)
  /\ underway' = Nothing
  /\ UNCHANGED <<born, recorded, phase, refused, deleted, opens>>

Ready ==
  /\ phase = "up" /\ underway = Launched
  /\ Transition("running", FALSE)
  /\ underway' = Nothing
  /\ UNCHANGED <<born, recorded, phase, planned, refused, deleted, opens>>

\* pause, resume, and the first half of stop.
Command(c) ==
  /\ phase = "up" /\ underway = Nothing
  /\ c # "start" /\ next_state(lifecycle, c) # InvalidTransition
  /\ Transition(next_state(lifecycle, c), FALSE)
  /\ underway' = (IF c = "stop" THEN Stopping ELSE Nothing)
  /\ UNCHANGED <<born, recorded, phase, planned, refused, deleted, opens>>

\* The process is confirmed dead (by this call, a retry or the reaper of the
\* same engine), or it exited cleanly on its own.
ConfirmStopped ==
  /\ phase = "up"
  /\ underway = Stopping \/ (underway = Nothing /\ lifecycle = "running")
  /\ Transition("stopped", FALSE)
  /\ recorded' = NoRun /\ underway' = Nothing
  /\ UNCHANGED <<born, phase, planned, refused, deleted, opens>>

\* The reaper finds the process gone: a planned relaunch keeps the record.
CrashAgent(relaunching) ==
  /\ phase = "up" /\ underway = Nothing /\ lifecycle \in {"running", "paused"}
  /\ Transition("failed", relaunching)
  /\ planned' = (planned \/ relaunching)
  /\ recorded' = (IF relaunching THEN recorded ELSE NoRun)
  /\ UNCHANGED <<born, underway, phase, refused, deleted, opens>>

------------------------------------------------------------------------------
(* Child Runs, removal. *)

\* open_child: below any Run that has not ended, up to the nesting limit.
OpenChild(parent) ==
  /\ phase = "up" /\ underway \in {Nothing, Stopping} /\ born < MaxRuns
  /\ runs[parent].status \in Open
  /\ Cardinality(runs[parent].above) + 2 <= MaxNesting
  /\ born' = born + 1
  /\ Write([runs EXCEPT ![born + 1] =
              [NoRow EXCEPT !.status = runs[parent].status,
                            !.above = runs[parent].above \cup {parent}]])
  /\ UNCHANGED <<lifecycle, recorded, underway, phase, planned, refused, unprojected,
                 deleted, missed, opens>>

\* close: a child only; the Runs below it stay open.
CloseRun(r) ==
  /\ phase = "up" /\ underway \in {Nothing, Stopping}
  /\ ~ runs[r].owner /\ runs[r].status \in Open
  /\ Write([runs EXCEPT ![r].status = "ended"])
  /\ UNCHANGED <<lifecycle, born, recorded, underway, phase, planned, refused,
                 unprojected, deleted, missed, opens>>

\* Engine::remove: the rows go with the instance, in the store only.  The name
\* is registered again at once.
RemoveAgent ==
  /\ phase = "up" /\ underway \in {Nothing, Stopping} /\ lifecycle \in Deletable
  /\ underway' = Nothing
  /\ deleted' = deleted \cup {r \in RunId : runs[r] # NoRow}
  /\ runs' = [r \in RunId |-> NoRow]
  /\ lifecycle' = "registered" /\ recorded' = NoRun
  /\ refused' = FALSE /\ unprojected' = FALSE
  /\ UNCHANGED <<born, snapshot, ownerOf, phase, planned, missed, opens>>

------------------------------------------------------------------------------
(* The engine goes away and is opened again. *)

EngineDown ==
  /\ phase # "down" /\ opens < MaxOpens /\ phase' = "down"
  /\ opens' = opens + 1
  /\ planned' = FALSE /\ underway' = Nothing
  /\ snapshot' = [r \in RunId |-> NoRow] /\ ownerOf' = NoRun /\ deleted' = {}
  /\ UNCHANGED <<lifecycle, runs, born, recorded, refused, unprojected, missed>>

\* The writer publishes the initial snapshot before any other job.
PublishInitial ==
  /\ phase = "down" /\ phase' = "adopting"
  /\ snapshot' = [r \in RunId |-> Entry(runs[r])]
  /\ ownerOf' = (IF OpenOwners = {} THEN NoRun ELSE CHOOSE r \in OpenOwners : TRUE)
  /\ UNCHANGED <<lifecycle, runs, born, recorded, underway, planned, refused,
                 unprojected, deleted, missed, opens>>

\* adopt_orphans: the recorded process is there, and its Run is kept; or it is
\* gone, and a live row becomes failed.
Adopt ==
  /\ phase = "adopting" /\ phase' = "sweeping"
  /\ \/ /\ recorded # NoRun /\ lifecycle \notin NoProcess
        /\ \/ Write(ensure_supervised(recorded)) /\ UNCHANGED missed
           \/ Miss /\ Unwritten
        /\ UNCHANGED <<lifecycle, recorded, unprojected>>
     \/ /\ recorded # NoRun /\ recorded' = NoRun
        /\ IF lifecycle \in {"running", "paused"}
           THEN Transition("failed", FALSE)
           ELSE Unwritten /\ UNCHANGED <<lifecycle, unprojected, missed>>
     \/ recorded = NoRun /\ Unwritten /\ UNCHANGED <<lifecycle, recorded, unprojected, missed>>
  /\ UNCHANGED <<born, underway, planned, refused, deleted, opens>>

\* Seeded fault: only a failed instance's Run is looked for.
WithoutProcessFailed == IF lifecycle = "failed" THEN OpenOwners ELSE {}

\* open_owners_without_a_process.
WithoutProcess == IF lifecycle \in NoProcess THEN OpenOwners ELSE {}

\* end_runs_without_a_process, or its failure.
Sweep ==
  /\ phase = "sweeping" /\ phase' = "up"
  /\ \/ /\ Write(EndOwners(runs, WithoutProcess))
        /\ unprojected' = (unprojected /\ lifecycle \notin NoProcess)
        /\ refused' = FALSE
        /\ UNCHANGED missed
     \/ /\ Miss /\ Unwritten /\ UNCHANGED refused
        /\ unprojected' = (unprojected \/ WithoutProcess # {})
  /\ UNCHANGED <<lifecycle, born, recorded, underway, planned, deleted, opens>>

RunsNext ==
  \/ \E b \in BOOLEAN : BeginLaunch(b) \/ FailLaunch(b) \/ CrashAgent(b)
  \/ RefuseRelaunch \/ RecordLaunch \/ Ready \/ ConfirmStopped
  \/ \E c \in Commands : Command(c)
  \/ \E r \in RunId : OpenChild(r) \/ CloseRun(r)
  \/ RemoveAgent \/ EngineDown \/ PublishInitial \/ Adopt \/ Sweep

RunsSpec == RunsInit /\ [][RunsNext]_runsVars

------------------------------------------------------------------------------
RunsTypeOK ==
  /\ lifecycle \in Rows /\ phase \in {"up", "down", "adopting", "sweeping"}
  /\ \A row \in {runs[r] : r \in RunId} \cup {snapshot[r] : r \in RunId} :
       /\ row.status \in Open \cup {"none", "ended"} /\ row.above \subseteq RunId
       /\ row.owner \in BOOLEAN /\ row.anomaly \in BOOLEAN
  /\ born \in 0 .. MaxRuns /\ {recorded, ownerOf} \subseteq RunId \cup {NoRun}
  /\ underway \in Underway /\ deleted \subseteq RunId

\* A child Run lives and holds with the process that hosts it: below an open
\* Run at any depth there is one open owner, in the same status, however the
\* Runs between were closed and whichever projections failed.
TreeFollowsOwner ==
  /\ Cardinality(OpenOwners) <= 1
  /\ \A r \in RunId : runs[r].status \in Open /\ ~ runs[r].owner =>
       \E o \in OpenOwners : o \in runs[r].above /\ runs[o].status = runs[r].status

\* The snapshot, changed a few records at a time, is the view of every Run
\* that has not ended (apart from Runs deleted with their instance).
SnapshotExact ==
  phase \in {"up", "adopting", "sweeping"} =>
    /\ \A r \in RunId \ deleted :
         snapshot[r] = IF runs[r].status \in Open THEN runs[r] ELSE NoRow
    /\ ownerOf \in OpenOwners \/ (OpenOwners = {} /\ ownerOf \in {NoRun} \cup deleted)

\* The Run tells the truth about its process unless a write of it failed: a
\* running instance's is active, a paused one's held, and without a process a
\* Run stays open only while a relaunch is planned (or was refused).
RunFollowsProcess ==
  phase = "up" /\ ~ unprojected =>
    /\ lifecycle = "running" => \E o \in OpenOwners : runs[o].status = "active"
    /\ lifecycle = "paused" => \E o \in OpenOwners : runs[o].status = "held"
    /\ lifecycle \in NoProcess => OpenOwners = {} \/ planned \/ refused
=============================================================================
