----------------------------- MODULE Supervisor -----------------------------
(***************************************************************************)
(* The supervision of one agent instance by the engine: the durable row    *)
(* and spawn record, the operating-system processes, the handle the engine *)
(* holds, and the sleeping restart timers.                                 *)
(*                                                                         *)
(* Every engine operation holds the registry and the supervisor mutex from *)
(* beginning to end, so within one engine operations never interleave with *)
(* each other.  What does interleave with the steps of an operation is the *)
(* process (which may exit), and a crash of the engine.  An operation is   *)
(* therefore a chain of steps, one for each durable write or effect on a   *)
(* process; op.at says which step is next, "idle" that no operation runs.  *)
(* Sources: crates/hekma-engine/src/domain/supervisor/*.rs, engine.rs,     *)
(* domain/restart.rs, store/sqlite.rs.                                     *)
(***************************************************************************)
EXTENDS LifecycleTable, Integers, FiniteSets

CONSTANTS
  Pids,         \* process identities (pid and start time), re-used once dead
  NoPid,        \* pid 0: no process
  MaxFailures,  \* consecutive failures that make a crash loop
  Detaches,     \* the values `start --detach` may take
  FaultKinds,   \* which calls may fail in this instance of the model
  MaxFaults,    \* bound: how many calls fail in one behaviour
  MaxTimers     \* bound: sleeping restart timers with the same attempt

ASSUME PidsAssumption == NoPid \notin Pids
ASSUME MaxFailuresAssumption == MaxFailures \in Nat \ {0}
ASSUME DetachesAssumption == Detaches \subseteq BOOLEAN
ASSUME FaultKindsAssumption ==
  FaultKinds \subseteq
    {"store", "adopt", "stop", "unconfirmed", "signal", "poll", "crash"}
ASSUME MaxFaultsAssumption == MaxFaults \in Nat
ASSUME MaxTimersAssumption == MaxTimers \in Nat \ {0}

VARIABLES
  row,        \* agent_instances.state
  rec,        \* the agent_runtime row: fingerprint, policy, count, detach
  pauseKind,  \* why the last pause was made, read back from the ledger
  proc,       \* the operating system's view of every process
  up,         \* is an engine open on this data directory
  held,       \* the engine's handle for the instance
  timers,     \* how many restart timers sleep, by attempt number
  op,         \* the operation in progress
  faults,     \* how many calls have failed
  chosen      \* history: the restart policy the operator asked for last

durable == <<row, rec, pauseKind, chosen>>
vars == <<row, rec, pauseKind, proc, up, held, timers, op, faults, chosen>>

-----------------------------------------------------------------------------
(* Data *)

Attempts == 0 .. MaxFailures - 1
NoPlan == -1          \* no restart: an operator's start, or a final failure
Policies == {"never", "on-failure"}
Unset == "unset"      \* there is no agent_runtime row
PauseKinds == {"operator", "breach", "cooperative"}

Record == [pid : Pids \cup {NoPid}, policy : Policies \cup {Unset},
           count : Attempts, detach : BOOLEAN]
NoRecord == [pid |-> NoPid, policy |-> Unset, count |-> 0, detach |-> FALSE]

\* The row set_restart_policy writes when no process is recorded.
Seed(policy) == [NoRecord EXCEPT !.policy = policy]

\* effective_restart_policy: the record's, or on-failure without a record.
EffectivePolicy(r) == IF r.policy = Unset THEN "on-failure" ELSE r.policy

Handle == [pid : Pids \cup {NoPid}, detach : BOOLEAN, unconfirmed : BOOLEAN,
           adopted : BOOLEAN, coop : BOOLEAN]
NoHandle == [pid |-> NoPid, detach |-> FALSE, unconfirmed |-> FALSE,
             adopted |-> FALSE, coop |-> FALSE]

\* "stuck": sent SIGKILL, and still not gone when the engine stopped waiting.
ProcStates == {"live", "frozen", "stuck", "dead"}
Alive(p) == p # NoPid /\ proc[p] # "dead"

Steps == {"idle", "spawn", "record", "ready", "fail", "crashed", "exited",
          "stop", "settle", "finish", "delete", "orphanRow", "orphanRecord"}
Op == [at : Steps, pid : Pids \cup {NoPid}, attempt : Attempts \cup {NoPlan},
       plan : Attempts \cup {NoPlan}, detach : BOOLEAN, remove : BOOLEAN]
Idle == [at |-> "idle", pid |-> NoPid, attempt |-> NoPlan, plan |-> NoPlan,
         detach |-> FALSE, remove |-> FALSE]
Ready == up /\ op.at = "idle"

\* A call that may fail: nothing is counted unless it does.
Attempt(kind, ok) ==
  IF ok THEN UNCHANGED faults
  ELSE kind \in FaultKinds /\ faults < MaxFaults /\ faults' = faults + 1

\* Dropping a handle kills the process group, unless it was detached.
Dropped(h) ==
  IF h.pid # NoPid /\ ~h.detach
  THEN [proc EXCEPT ![h.pid] = IF @ = "stuck" THEN @ ELSE "dead"]
  ELSE proc

\* backend.resume: SIGCONT.
Thawed(p) == IF p # NoPid /\ proc[p] = "frozen"
             THEN [proc EXCEPT ![p] = "live"] ELSE proc

\* RestartPlan becomes a sleeping task of its own.
Sleeping(plan) ==
  IF plan = NoPlan THEN timers ELSE [timers EXCEPT ![plan] = @ + 1]
NoTimers == [n \in Attempts |-> 0]
-----------------------------------------------------------------------------
(* What becomes of the record and of the restart after a crash *)

\* Seeded fault: the settled record keeps more than the policy.
SettledKeepsPid(r) == [r EXCEPT !.count = 0]

\* settle_spawn_record: the record of a process that is gone is deleted.
Settled(r) == NoRecord

next_consecutive_failures(current, stable) == IF stable THEN 1 ELSE current + 1

\* Seeded fault: off by one at the threshold.
IsCrashLoopLate(failures) == failures > MaxFailures

is_crash_loop(failures) == failures >= MaxFailures

\* set_restart_count: updates the row, if there is one.
CountSet(r, n) == IF r.policy = Unset THEN r ELSE [r EXCEPT !.count = n]

\* plan_restart: under `never`, and at the crash-loop threshold, the record is
\* settled and the policy seeded again; otherwise the attempt is numbered.
plan_restart(r, stable) ==
  LET policy == EffectivePolicy(r)
      next == next_consecutive_failures(r.count, stable)
  IN IF policy = "never" \/ is_crash_loop(next)
     THEN [rec |-> Seed(policy), plan |-> NoPlan]
     ELSE [rec |-> CountSet(r, next), plan |-> next]

\* plan_requested_restart: a requested restart is no failure.
plan_requested_restart(r) ==
  IF EffectivePolicy(r) = "never"
  THEN [rec |-> Seed("never"), plan |-> NoPlan]
  ELSE [rec |-> r, plan |-> r.count]

-----------------------------------------------------------------------------
(* Registration and policy *)

Register ==
  /\ Ready /\ row = "absent"
  /\ row' = "registered" /\ chosen' = Unset
  /\ UNCHANGED <<rec, pauseKind, proc, up, held, timers, op, faults>>

\* The upsert keeps the fingerprint of a recorded process.
SetRestartPolicy(policy) ==
  /\ Ready /\ row # "absent"
  /\ rec' = [rec EXCEPT !.policy = policy] /\ chosen' = policy
  /\ UNCHANGED <<row, pauseKind, proc, up, held, timers, op, faults>>

\* registry.remove: the record goes with the row (foreign key cascade).
DeleteRow == row' = "absent" /\ rec' = NoRecord /\ chosen' = Unset

\* A row that is neither running nor paused is deleted at once.
Remove ==
  /\ Ready /\ row \in Deletable /\ DeleteRow
  /\ UNCHANGED <<pauseKind, proc, up, held, timers, op, faults>>

-----------------------------------------------------------------------------
(* Launch: start_inner *)

\* The gate and the commit of `starting`.
Launch(attempt, detach) ==
  /\ next_state(row, "start") = "starting"
  /\ row' = "starting"
  /\ op' = [Idle EXCEPT !.at = "spawn", !.attempt = attempt, !.detach = detach]

\* Bound: no new launch while MaxTimers timers sleep for one attempt number.
Start(detach) ==
  /\ Ready /\ \A n \in Attempts : timers[n] < MaxTimers
  /\ Launch(NoPlan, detach)
  /\ UNCHANGED <<rec, pauseKind, proc, up, held, timers, faults, chosen>>

\* Seeded fault: the timer looks for the handle that the reaper has dropped.
RestartDueIfHeld(n) ==
  /\ Ready /\ timers[n] > 0 /\ held # NoHandle
  /\ timers' = [timers EXCEPT ![n] = @ - 1] /\ Launch(n, rec.detach)
  /\ UNCHANGED <<rec, pauseKind, proc, up, held, faults, chosen>>

\* A restart timer fires.  Whether it launches is decided by the row it finds:
\* a rejected restart, and one that fails before `starting`, changes nothing.
RestartDue(n) ==
  /\ Ready /\ timers[n] > 0
  /\ timers' = [timers EXCEPT ![n] = @ - 1]
  /\ \E ok \in BOOLEAN :
       /\ Attempt("store", ok)
       /\ IF ok /\ next_state(row, "start") = "starting"
          THEN Launch(n, rec.detach) ELSE UNCHANGED <<row, op>>
  /\ UNCHANGED <<rec, pauseKind, proc, up, held, chosen>>

\* backend.spawn fails: fail_launch.
SpawnFails ==
  /\ op.at = "spawn" /\ op' = [op EXCEPT !.at = "fail"]
  /\ UNCHANGED <<durable, proc, up, held, timers, faults>>

Spawn(p) ==
  /\ op.at = "spawn" /\ proc[p] = "dead" /\ p \notin {rec.pid, held.pid}
  /\ proc' = [proc EXCEPT ![p] = "live"]
  /\ op' = [op EXCEPT !.at = "record", !.pid = p]
  /\ UNCHANGED <<durable, up, held, timers, faults>>

\* watch_startup sees the process exit before it was recorded.
StartupExit ==
  /\ op.at = "record" /\ ~Alive(op.pid)
  /\ op' = [op EXCEPT !.at = "fail"]
  /\ UNCHANGED <<durable, proc, up, held, timers, faults>>

\* Seeded fault: a restart keeps the fingerprint that was recorded.
NewRecordKeepsPid ==
  [pid |-> IF op.attempt = NoPlan THEN op.pid ELSE rec.pid,
   policy |-> EffectivePolicy(rec), count |-> 0, detach |-> op.detach]

\* Seeded fault: a restart begins a new count.
NewRecordCountsAfresh == [pid |-> op.pid, policy |-> EffectivePolicy(rec),
                          count |-> 0, detach |-> op.detach]

NewRecord == [pid |-> op.pid, policy |-> EffectivePolicy(rec),
              count |-> IF op.attempt = NoPlan THEN 0 ELSE op.attempt,
              detach |-> op.detach]

\* The launch's own handle, before it is held for supervision.
LaunchHandle == [NoHandle EXCEPT !.pid = op.pid, !.detach = op.detach]

\* Best-effort stop of a launch that is given up, then the drop of its handle:
\* only a detached process that could not be stopped survives both.
TornDown(stopped) ==
  IF stopped THEN [proc EXCEPT ![op.pid] = "dead"] ELSE Dropped(LaunchHandle)

WriteRecord ==
  /\ op.at = "record"
  /\ rec' = NewRecord /\ op' = [op EXCEPT !.at = "ready"]
  /\ UNCHANGED <<row, pauseKind, proc, up, held, timers, faults, chosen>>

\* The write fails: the process is torn down and the launch fails.
WriteRecordFails ==
  /\ op.at = "record" /\ Attempt("store", FALSE)
  /\ \E stopped \in BOOLEAN :
       (stopped \/ "stop" \in FaultKinds) /\ proc' = TornDown(stopped)
  /\ op' = [op EXCEPT !.at = "fail"]
  /\ UNCHANGED <<durable, up, held, timers>>

\* The ACP handshake failed or the readiness probe timed out: the process is
\* torn down and never restarted; the record stays.
LaunchAborted ==
  /\ op.at = "ready"
  /\ \E stopped \in BOOLEAN :
       Attempt("stop", stopped) /\ proc' = TornDown(stopped)
  /\ op' = [op EXCEPT !.at = "fail"]
  /\ UNCHANGED <<durable, up, held, timers>>

\* The readiness probe sees the process exit: a crash, planned like any other.
ReadinessExit ==
  /\ op.at = "ready" /\ ~Alive(op.pid)
  /\ LET decision == plan_restart(rec, FALSE) IN
       \E ok \in BOOLEAN :
         /\ Attempt("store", ok)
         /\ rec' = IF ok THEN decision.rec ELSE rec
         /\ op' = [op EXCEPT !.at = "fail", !.plan = decision.plan]
  /\ UNCHANGED <<row, pauseKind, proc, up, held, timers, chosen>>

\* starting -> failed.  An error of this commit is reported, and a restart
\* that was planned is queued all the same.
CommitLaunchFailed ==
  /\ op.at = "fail"
  /\ \E ok \in BOOLEAN :
       Attempt("store", ok) /\ row' = IF ok THEN "failed" ELSE row
  /\ timers' = Sleeping(op.plan) /\ op' = Idle
  /\ UNCHANGED <<rec, pauseKind, proc, up, held, chosen>>

\* starting -> running; the new handle replaces (and drops) an older one.
CommitRunning ==
  /\ op.at = "ready"
  /\ row' = "running" /\ held' = LaunchHandle /\ proc' = Dropped(held)
  /\ op' = Idle
  /\ UNCHANGED <<rec, pauseKind, up, timers, faults, chosen>>

\* The commit fails: start returns the error, which drops the handle.
CommitRunningFails ==
  /\ op.at = "ready" /\ Attempt("store", FALSE)
  /\ proc' = Dropped(LaunchHandle) /\ op' = Idle
  /\ UNCHANGED <<durable, up, held, timers>>

-----------------------------------------------------------------------------
(* Stop: stop_inner, and remove of a live instance, which stops it first *)

\* adopt: the process with the recorded fingerprint, re-held as detached as
\* it was spawned.  No pipe and no exit code come with it.
Adopted == [pid |-> rec.pid, detach |-> rec.detach, unconfirmed |-> FALSE,
            adopted |-> TRUE, coop |-> pauseKind = "cooperative"]

\* A stop that finds no handle re-acquires the recorded process (an error of
\* that is only reported); the commit of `stopping`; a process that is not
\* paused cooperatively is resumed (a failed signal is ignored).
StopBeginWith(remove, fails) ==
  /\ held' = IF held = NoHandle /\ Alive(rec.pid) /\ fails # "adopt"
             THEN Adopted ELSE held
  /\ IF fails # "store"
     THEN /\ row' = "stopping"
          /\ op' = [Idle EXCEPT !.at = "stop", !.remove = remove]
          /\ proc' = IF fails # "signal" /\ row = "paused" /\ ~held'.coop
                     THEN Thawed(held'.pid) ELSE proc
     ELSE UNCHANGED <<row, op, proc>>

\* The gate, and at most one call that fails.
StopBegin(remove) ==
  /\ Ready /\ next_state(row, "stop") = "stopping"
  /\ \E fails \in {"none", "adopt", "store", "signal"} :
       Attempt(fails, fails = "none") /\ StopBeginWith(remove, fails)
  /\ UNCHANGED <<rec, pauseKind, up, timers, chosen>>

\* backend.stop confirmed the death, or there is no handle to stop.
StopConfirmed ==
  /\ op.at = "stop"
  /\ proc' = IF held = NoHandle THEN proc ELSE [proc EXCEPT ![held.pid] = "dead"]
  /\ held' = NoHandle /\ op' = [op EXCEPT !.at = "settle"]
  /\ UNCHANGED <<durable, up, timers, faults>>

\* SIGKILL was sent and the death not confirmed in time: the handle stays,
\* marked for the reaper and for a retry.
StopUnconfirmed ==
  /\ op.at = "stop" /\ Alive(held.pid) /\ Attempt("unconfirmed", FALSE)
  /\ proc' = [proc EXCEPT ![held.pid] = "stuck"]
  /\ held' = [held EXCEPT !.unconfirmed = TRUE] /\ op' = Idle
  /\ UNCHANGED <<durable, up, timers>>

\* Any other error of backend.stop: the handle stays, unmarked.
StopErrs ==
  /\ op.at = "stop" /\ held # NoHandle /\ Attempt("stop", FALSE)
  /\ op' = Idle
  /\ UNCHANGED <<durable, proc, up, held, timers>>

\* A second stop finds the process dead that the first could not confirm.
StopRetry ==
  /\ Ready /\ row = "stopping" /\ held.unconfirmed /\ ~Alive(held.pid)
  /\ held' = NoHandle /\ op' = [Idle EXCEPT !.at = "settle"]
  /\ UNCHANGED <<durable, proc, up, timers, faults>>

\* The record is settled before the row says `stopped`.
StopSettles ==
  /\ op.at = "settle"
  /\ \E ok \in BOOLEAN :
       /\ Attempt("store", ok)
       /\ rec' = IF ok THEN Settled(rec) ELSE rec
       /\ op' = IF ok THEN [op EXCEPT !.at = "finish"] ELSE Idle
  /\ UNCHANGED <<row, pauseKind, proc, up, held, timers, chosen>>

CommitStopped ==
  /\ op.at = "finish"
  /\ \E ok \in BOOLEAN :
       /\ Attempt("store", ok)
       /\ row' = IF ok THEN "stopped" ELSE row
       /\ op' = IF ok /\ op.remove THEN [op EXCEPT !.at = "delete"] ELSE Idle
  /\ UNCHANGED <<rec, pauseKind, proc, up, held, timers, chosen>>

RemoveStopped ==
  /\ op.at = "delete" /\ DeleteRow /\ op' = Idle
  /\ UNCHANGED <<pauseKind, proc, up, held, timers, faults>>

-----------------------------------------------------------------------------
(* Pause and resume: suspend_or_resume *)

\* What classify_pause_kind will read.  Without a handle a guaranteed pause
\* is recorded as best effort, whatever asked for it.
RecordedKind(kind) ==
  IF kind = "breach" /\ held = NoHandle THEN "operator" ELSE kind

\* The commit comes first, the signal second: when the signal fails the row
\* says paused over a running process.  A cooperative pause sends none.
Pause(kind) ==
  /\ Ready /\ next_state(row, "pause") = "paused"
  /\ row' = "paused" /\ pauseKind' = RecordedKind(kind)
  /\ held' = IF held # NoHandle /\ kind = "cooperative"
             THEN [held EXCEPT !.coop = TRUE] ELSE held
  /\ \E signalled \in BOOLEAN :
       /\ Attempt("signal", signalled)
       /\ proc' = IF signalled /\ kind # "cooperative" /\ held # NoHandle
                     /\ proc[held.pid] = "live"
                  THEN [proc EXCEPT ![held.pid] = "frozen"] ELSE proc
  /\ UNCHANGED <<rec, up, timers, op, chosen>>

\* A best-effort pause or resume commits the row and signals nothing.
PauseBestEffort ==
  /\ Ready /\ next_state(row, "pause") = "paused"
  /\ row' = "paused" /\ pauseKind' = "operator"
  /\ UNCHANGED <<rec, proc, up, held, timers, op, faults, chosen>>

\* note_committed_resume_edge clears the cooperative mark with the commit.
Resume ==
  /\ Ready /\ next_state(row, "resume") = "running"
  /\ row' = "running"
  /\ held' = IF held = NoHandle THEN held ELSE [held EXCEPT !.coop = FALSE]
  /\ \E signalled \in BOOLEAN :
       /\ Attempt("signal", signalled)
       /\ proc' = IF signalled THEN Thawed(held.pid) ELSE proc
  /\ UNCHANGED <<rec, pauseKind, up, timers, op, chosen>>

-----------------------------------------------------------------------------
(* The reaper: poll_once *)

\* The poll says the process is gone, or has failed so often in a row that the
\* handle is no longer trusted.
PolledGone == ~Alive(held.pid) /\ UNCHANGED faults
PollGivesUp == Alive(held.pid) /\ Attempt("poll", FALSE)

\* The first half of every verdict on a live row: the handle is dropped, then
\* the record is updated as the decision says; the row follows.
Reaped(decision, ok) ==
  /\ held' = NoHandle
  /\ rec' = IF ok THEN decision.rec ELSE rec
  /\ op' = [Idle EXCEPT !.at = "crashed", !.plan = decision.plan]

\* Seeded fault: only running instances are reaped.
ReapCrashRunning ==
  /\ Ready /\ held # NoHandle /\ row = "running" /\ PolledGone
  /\ Reaped(plan_restart(rec, FALSE), TRUE)
  /\ UNCHANGED <<row, pauseKind, proc, up, timers, chosen>>

\* An unexpected exit, or a handle that cannot be polled.  Only an uptime read
\* while running can be long enough to count as stable.
ReapCrash ==
  /\ Ready /\ held # NoHandle /\ row \in {"running", "paused"}
  /\ PolledGone \/ PollGivesUp
  /\ \E stable \in BOOLEAN :
       (stable => row = "running") /\ Reaped(plan_restart(rec, stable), TRUE)
  /\ proc' = Dropped(held)
  /\ UNCHANGED <<row, pauseKind, up, timers, chosen>>

\* The same, when the store refuses the record's update (which is ignored).
ReapCrashUnrecorded ==
  /\ Ready /\ held # NoHandle /\ row \in {"running", "paused"}
  /\ ~Alive(held.pid) /\ Attempt("store", FALSE)
  /\ Reaped(plan_restart(rec, FALSE), FALSE)
  /\ UNCHANGED <<row, pauseKind, proc, up, timers, chosen>>

\* classify_exit: a declared exit code, of a running child of this engine.
Classified == row = "running" /\ ~held.adopted /\ ~Alive(held.pid)

ReapRequested ==
  /\ Ready /\ held # NoHandle /\ Classified
  /\ Reaped(plan_requested_restart(rec), TRUE)
  /\ UNCHANGED <<row, pauseKind, proc, up, timers, faults, chosen>>

ReapClean ==
  /\ Ready /\ held # NoHandle /\ Classified
  /\ held' = NoHandle
  /\ \E ok \in BOOLEAN :
       Attempt("store", ok) /\ rec' = IF ok THEN Settled(rec) ELSE rec
  /\ op' = [Idle EXCEPT !.at = "exited"]
  /\ UNCHANGED <<row, pauseKind, proc, up, timers, chosen>>

\* Seeded fault: an expired detached process is not killed.
LivenessExpiredSpares ==
  /\ Ready /\ held # NoHandle /\ row = "running" /\ Alive(held.pid)
  /\ proc' = Dropped(held) /\ Reaped(plan_restart(rec, FALSE), TRUE)
  /\ UNCHANGED <<row, pauseKind, up, timers, faults, chosen>>

\* The liveness window expired on a running instance.  A detached process is
\* killed first (best effort); dropping an attached handle kills it anyway.
LivenessExpired ==
  /\ Ready /\ held # NoHandle /\ row = "running" /\ Alive(held.pid)
  /\ \E killed, stable \in BOOLEAN :
       /\ Attempt("stop", killed)
       /\ proc' = IF killed /\ rec.detach /\ proc[held.pid] # "stuck"
                  THEN [proc EXCEPT ![held.pid] = "dead"] ELSE Dropped(held)
       /\ Reaped(plan_restart(rec, stable), TRUE)
  /\ UNCHANGED <<row, pauseKind, up, timers, chosen>>

\* -> failed.  When this commit fails the planned restart is forgotten.
CommitFailed ==
  /\ op.at = "crashed"
  /\ \E ok \in BOOLEAN :
       /\ Attempt("store", ok)
       /\ row' = IF ok THEN "failed" ELSE row
       /\ timers' = IF ok THEN Sleeping(op.plan) ELSE timers
  /\ op' = Idle
  /\ UNCHANGED <<rec, pauseKind, proc, up, held, chosen>>

\* running -> stopped after a clean exit; an error is ignored.
CommitExited ==
  /\ op.at = "exited"
  /\ \E ok \in BOOLEAN :
       Attempt("store", ok) /\ row' = IF ok THEN "stopped" ELSE row
  /\ op' = Idle
  /\ UNCHANGED <<rec, pauseKind, proc, up, held, timers, chosen>>

\* Seeded fault: the reaper forgets the handle and leaves the row.
ReapStuckStopForgets ==
  /\ Ready /\ row = "stopping" /\ held.unconfirmed /\ PolledGone
  /\ held' = NoHandle
  /\ UNCHANGED <<durable, proc, up, timers, op>>

\* The reaper finishes the stop that could not confirm the death.
ReapStuckStop ==
  /\ Ready /\ row = "stopping" /\ held.unconfirmed
  /\ PolledGone \/ PollGivesUp
  /\ proc' = Dropped(held) /\ held' = NoHandle
  /\ op' = [Idle EXCEPT !.at = "settle"]
  /\ UNCHANGED <<durable, up, timers>>

\* In any other state a handle whose process is gone is only forgotten.
ReapForgets ==
  /\ Ready /\ held # NoHandle /\ row \notin {"running", "paused"}
  /\ ~(row = "stopping" /\ held.unconfirmed)
  /\ PolledGone \/ PollGivesUp
  /\ proc' = Dropped(held) /\ held' = NoHandle
  /\ UNCHANGED <<durable, up, timers, op>>

-----------------------------------------------------------------------------
(* The engine opens, closes and crashes; processes exit *)

\* adopt_orphans: the recorded process is re-held when it is there and the
\* adoption does not fail; otherwise the record is reconciled.
Open ==
  /\ ~up /\ up' = TRUE
  /\ \E ok \in BOOLEAN :
       /\ Attempt("adopt", ok)
       /\ IF rec.pid = NoPid THEN UNCHANGED <<held, op>>
          ELSE IF ok /\ Alive(rec.pid)
               THEN held' = Adopted /\ UNCHANGED op
               ELSE op' = [Idle EXCEPT !.at = "orphanRow"] /\ UNCHANGED held
  /\ UNCHANGED <<durable, proc, timers>>

\* Seeded fault: the state of the row is not looked at.
OrphanRowAnyState ==
  /\ op.at = "orphanRow" /\ row' = "failed"
  /\ op' = [op EXCEPT !.at = "orphanRecord"]
  /\ UNCHANGED <<rec, pauseKind, proc, up, held, timers, faults, chosen>>

\* Seeded fault: paused rows are not reconciled.
OrphanRowRunning ==
  /\ op.at = "orphanRow"
  /\ row' = IF row = "running" THEN "failed" ELSE row
  /\ op' = [op EXCEPT !.at = "orphanRecord"]
  /\ UNCHANGED <<rec, pauseKind, proc, up, held, timers, faults, chosen>>

\* reconcile_orphan_failed, first the row (an error is ignored) ...
OrphanRow ==
  /\ op.at = "orphanRow"
  /\ \E ok \in BOOLEAN :
       /\ Attempt("store", ok)
       /\ row' = IF ok /\ row \in {"running", "paused"} THEN "failed" ELSE row
  /\ op' = [op EXCEPT !.at = "orphanRecord"]
  /\ UNCHANGED <<rec, pauseKind, proc, up, held, timers, chosen>>

\* ... then the record.
OrphanRecord ==
  /\ op.at = "orphanRecord"
  /\ \E ok \in BOOLEAN :
       Attempt("store", ok) /\ rec' = IF ok THEN Settled(rec) ELSE rec
  /\ op' = Idle
  /\ UNCHANGED <<row, pauseKind, proc, up, held, timers, chosen>>

\* Seeded fault: only adopted instances are released.
ReleasableAdopted == held.adopted /\ rec.detach /\ row = "paused"

\* release_detached_paused looks at detached instances that are paused.
Releasable == held # NoHandle /\ rec.detach /\ row = "paused"

\* The engine forgets everything it holds; the handles that are dropped kill
\* what they own, given what the release has done to the processes.
Forget == up' = FALSE /\ held' = NoHandle /\ timers' = NoTimers

\* Nothing to release, or a budget breach or a cooperative pause that the
\* engine leaves as it is, or a signal that fails.
Close ==
  /\ Ready /\ Forget
  /\ \/ ~Releasable /\ UNCHANGED faults
     \/ Releasable /\ Alive(held.pid) /\ pauseKind # "operator" /\ UNCHANGED faults
     \/ Releasable /\ Alive(held.pid) /\ Attempt("signal", FALSE)
  /\ proc' = Dropped(held)
  /\ UNCHANGED <<durable, op>>

\* The child an operator paused is resumed, then the row is moved to running.
CloseReleases ==
  /\ Ready /\ Forget /\ Releasable
  /\ Alive(held.pid) /\ pauseKind = "operator"
  /\ proc' = Thawed(held.pid)
  /\ \E ok \in BOOLEAN :
       Attempt("store", ok) /\ row' = IF ok THEN "running" ELSE row
  /\ UNCHANGED <<rec, pauseKind, op, chosen>>

\* reconcile_released_exit: the paused child turns out to be dead.
CloseReconciles ==
  /\ Ready /\ Forget /\ Releasable /\ ~Alive(held.pid)
  /\ \E ok \in BOOLEAN :
       Attempt("store", ok) /\ row' = IF ok THEN "failed" ELSE row
  /\ rec' = Settled(rec)
  /\ UNCHANGED <<pauseKind, proc, op, chosen>>

\* The engine process dies at any point of any operation.
Crash ==
  /\ up /\ Forget /\ op' = Idle /\ Attempt("crash", FALSE)
  /\ UNCHANGED <<durable, proc>>

Exit(p) ==
  /\ proc[p] # "dead" /\ proc' = [proc EXCEPT ![p] = "dead"]
  /\ UNCHANGED <<durable, up, held, timers, op, faults>>

-----------------------------------------------------------------------------
Init ==
  /\ row = "absent" /\ rec = NoRecord /\ pauseKind = "operator"
  /\ proc = [p \in Pids |-> "dead"]
  /\ up = FALSE /\ held = NoHandle /\ timers = NoTimers /\ op = Idle
  /\ faults = 0 /\ chosen = Unset

\* What an operator or a host asks for.
Operator ==
  \/ Register \/ Remove \/ Resume \/ PauseBestEffort \/ StopRetry
  \/ \E policy \in Policies : SetRestartPolicy(policy)
  \/ \E detach \in Detaches : Start(detach)
  \/ \E kind \in PauseKinds : Pause(kind)
  \/ \E remove \in BOOLEAN : StopBegin(remove)

\* The steps of an operation that is under way.
Continue ==
  \/ SpawnFails \/ (\E p \in Pids : Spawn(p)) \/ StartupExit
  \/ WriteRecord \/ WriteRecordFails \/ LaunchAborted \/ ReadinessExit
  \/ CommitLaunchFailed \/ CommitRunning \/ CommitRunningFails
  \/ StopConfirmed \/ StopUnconfirmed \/ StopErrs \/ StopSettles
  \/ CommitStopped \/ RemoveStopped
  \/ CommitFailed \/ CommitExited \/ OrphanRow \/ OrphanRecord

Reaper ==
  \/ ReapCrash \/ ReapCrashUnrecorded \/ ReapRequested \/ ReapClean
  \/ LivenessExpired \/ ReapStuckStop \/ ReapForgets

Session == Open \/ Close \/ CloseReleases \/ CloseReconciles \/ Crash

Next ==
  \/ Operator \/ Continue \/ Reaper \/ Session
  \/ \E n \in Attempts : RestartDue(n)
  \/ \E p \in Pids : Exit(p)

Spec == Init /\ [][Next]_vars

\* An operation that has begun runs on; the reaper's ticker and the sleeping
\* tasks run as long as the engine is open; a process that has been sent
\* SIGKILL dies in the end.  Nothing is assumed of operators, of sessions or
\* of any other exit.
Fairness ==
  /\ WF_vars(Continue) /\ WF_vars(Reaper)
  /\ \A n \in Attempts : WF_vars(RestartDue(n))
  /\ \A p \in Pids : WF_vars(proc[p] = "stuck" /\ Exit(p))

FairSpec == Spec /\ Fairness

-----------------------------------------------------------------------------
(* Properties *)

\* Every variable keeps its type; in particular a restart attempt, in the
\* record, in a plan and in a timer, stays below the crash-loop threshold.
TypeOK ==
  /\ row \in Rows /\ rec \in Record /\ pauseKind \in PauseKinds
  /\ proc \in [Pids -> ProcStates] /\ up \in BOOLEAN /\ held \in Handle
  /\ timers \in [Attempts -> Nat] /\ op \in Op /\ faults \in 0 .. MaxFaults
  /\ chosen \in Policies \cup {Unset}

\* The handle of a running or paused instance is for the process its spawn
\* record names, with the same detachment: a crash of the engine at any moment
\* leaves a record from which the next one finds the process it supervised.
SupervisedIsRecorded ==
  row \in {"running", "paused"} /\ held # NoHandle =>
    rec.pid = held.pid /\ rec.detach = held.detach

\* Once a row reads `stopped`, no handle is left, and the record, if one
\* stayed behind, names a dead process: the next engine adopts nothing, so a
\* stop is not undone by a restart of the engine.
StoppedStaysStopped ==
  row = "stopped" => held = NoHandle /\ ~Alive(rec.pid)

\* Every committed change of the row is an edge of the lifecycle.
Ledger == INSTANCE Lifecycle WITH state <- row
ImplementsLifecycle == Ledger!Spec

\* Without lost calls there is never more than one process of the instance
\* that runs or can be made to run, whatever timers, exits, sessions and
\* operators do.
OneProcess ==
  Cardinality({p \in Pids : proc[p] \in {"live", "frozen"}}) <= 1

\* Without lost calls a running or paused row of an open engine is never a
\* phantom: between operations the engine holds its process.
NoPhantomRow ==
  Ready /\ row \in {"running", "paused"} => held # NoHandle

\* Without lost calls a process that is left suspended while no engine is open
\* was detached and paused for a budget breach: "a detached child is never
\* left SIGSTOPped and unsupervised between commands".
FrozenOnlyForBreach ==
  ~up => \A p \in Pids : proc[p] = "frozen" =>
           rec.pid = p /\ rec.detach /\ row = "paused" /\ pauseKind = "breach"

\* A crash is noticed: a live row over a dead process moves on while the
\* engine stays open.
CrashIsNoticed ==
  up /\ row \in {"running", "paused"} /\ ~Alive(held.pid)
    ~> row \notin {"running", "paused"} \/ ~up

\* A failed instance with a restart timer is relaunched, by that timer or by
\* an operator before it.
RestartHappens ==
  \A n \in Attempts : row = "failed" /\ timers[n] > 0 ~> row # "failed" \/ ~up

\* A stop that could not confirm the death is finished once the process dies,
\* with no further command, as long as the engine that issued it stays open.
StuckStopHeals ==
  row = "stopping" /\ held.unconfirmed ~> row # "stopping" \/ ~up

\* A step that restarts for a crash and counts it, and no operator's start.
Quiet ==
  /\ ~(row # "starting" /\ row' = "starting" /\ op'.attempt = NoPlan)
  /\ op'.plan \notin {op.plan, NoPlan} => op'.plan = rec.count + 1

\* A crash loop ends: when operators stop starting the instance and every run
\* of it is short, it is not relaunched for ever.
CrashLoopEnds == <>[][Quiet]_vars => <>[](row # "starting")

-----------------------------------------------------------------------------
(* What the repository says of the code, and the code does not do *)

\* "if ... an operator stopped it back to `stopped`, the gate rejects and this
\* restart is a harmless no-op" (supervisor/lifecycle.rs): only an operator's
\* start launches a stopped instance.
StoppedIsNotRestarted ==
  [][row = "stopped" /\ row' = "starting" => op'.attempt = NoPlan]_vars

\* "Persists the policy so a subsequent `start` reads it" (engine.rs) and
\* "every registration, restart policy, and restart count survives" a restart
\* (docs/architecture.md): the policy a launch reads is the one last chosen.
ChosenPolicyIsUsed ==
  [][row # "starting" /\ row' = "starting" /\ chosen # Unset
       => EffectivePolicy(rec) = chosen]_vars

\* "whichever happens first, the row does not stay permanently stuck"
\* (supervisor/lifecycle.rs) after a stop that could not confirm the death.
StoppingIsLeft == row = "stopping" ~> row # "stopping"
=============================================================================
