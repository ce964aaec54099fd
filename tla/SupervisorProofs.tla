-------------------------- MODULE SupervisorProofs --------------------------
(***************************************************************************)
(* Proofs about Supervisor, for every set of processes, every threshold    *)
(* and any number of failing calls and crashes.                            *)
(***************************************************************************)
EXTENDS Supervisor, FiniteSetTheorems, TLAPS

\* What a step of an operation may rely on: the row the operation has
\* committed, the handle it has dropped, the record it has written.
OpInv ==
  /\ op.at \in {"spawn", "record", "ready", "fail"} => row = "starting"
  /\ op.at \in {"record", "ready"} => op.pid \in Pids
  /\ op.at = "ready" => rec.pid = op.pid /\ rec.detach = op.detach
  /\ op.at = "stop" => row = "stopping"
  /\ op.at \in {"settle", "finish"} => row = "stopping" /\ held = NoHandle
  /\ op.at = "finish" => rec.pid = NoPid
  /\ op.at = "delete" => row = "stopped"
  /\ op.at = "crashed" => row \in {"running", "paused"} /\ held = NoHandle
  /\ op.at = "exited" =>
       row = "running" /\ held = NoHandle /\ ~Alive(rec.pid)
  /\ op.at \in {"orphanRow", "orphanRecord"} => held = NoHandle
  /\ ~up => held = NoHandle /\ op.at = "idle"

\* A handle names a process.
HandleInv == held = NoHandle \/ held.pid \in Pids

Core == OpInv /\ HandleInv /\ SupervisedIsRecorded /\ StoppedStaysStopped
Inv == TypeOK /\ Core

-----------------------------------------------------------------------------
(* Lemmas about the operators *)

\* A call that may fail keeps the count of failures within its bound.
LEMMA AttemptType ==
  ASSUME NEW kind, NEW ok \in BOOLEAN, faults \in 0 .. MaxFaults,
         Attempt(kind, ok)
  PROVE  faults' \in 0 .. MaxFaults
BY MaxFaultsAssumption DEF Attempt

\* Records and handles that stand for nothing have their type, too.
LEMMA EmptyTypes ==
  /\ NoRecord \in Record /\ NoHandle \in Handle /\ Idle \in Op
  /\ NoTimers \in [Attempts -> Nat]
  /\ \A policy \in Policies : Seed(policy) \in Record
<1>1. 0 \in Attempts
  BY MaxFailuresAssumption DEF Attempts
<1>2. NoRecord \in Record
  BY <1>1 DEF NoRecord, Record
<1>3. NoHandle \in Handle
  BY DEF NoHandle, Handle
<1>4. Idle \in Op
  BY DEF Idle, Op, Steps
<1>5. NoTimers \in [Attempts -> Nat]
  BY DEF NoTimers
<1>6. \A policy \in Policies : Seed(policy) \in Record
  BY <1>2 DEF Seed, Record
<1> QED BY <1>2, <1>3, <1>4, <1>5, <1>6

\* What plan_restart decides is a record and an attempt below the threshold,
\* whatever the record says and however often the instance has failed.
LEMMA PlanType ==
  ASSUME NEW r \in Record, NEW stable \in BOOLEAN
  PROVE  /\ plan_restart(r, stable).rec \in Record
         /\ plan_restart(r, stable).plan \in Attempts \cup {NoPlan}
         /\ plan_requested_restart(r).rec \in Record
         /\ plan_requested_restart(r).plan \in Attempts \cup {NoPlan}
<1> DEFINE next == next_consecutive_failures(r.count, stable)
<1>1. EffectivePolicy(r) \in Policies
  BY DEF EffectivePolicy, Record, Policies, Unset
<1>2. Seed(EffectivePolicy(r)) \in Record /\ Seed("never") \in Record
  BY <1>1, EmptyTypes DEF Policies
<1>3. ~is_crash_loop(next) => next \in Attempts
  BY MaxFailuresAssumption
     DEF is_crash_loop, next_consecutive_failures, Record, Attempts
<1>4. next \in Attempts => CountSet(r, next) \in Record
  BY DEF CountSet, Record
<1>5. r.count \in Attempts
  BY DEF Record
<1> HIDE DEF next
<1>6. /\ plan_restart(r, stable).rec \in Record
      /\ plan_restart(r, stable).plan \in Attempts \cup {NoPlan}
  <2>1. CASE EffectivePolicy(r) = "never" \/ is_crash_loop(next)
    BY <2>1, <1>2 DEF plan_restart, next
  <2>2. CASE ~(EffectivePolicy(r) = "never" \/ is_crash_loop(next))
    BY <2>2, <1>3, <1>4 DEF plan_restart, next
  <2> QED BY <2>1, <2>2
<1>7. /\ plan_requested_restart(r).rec \in Record
      /\ plan_requested_restart(r).plan \in Attempts \cup {NoPlan}
  BY <1>2, <1>5 DEF plan_requested_restart
<1> QED BY <1>6, <1>7

\* Dropping a handle, thawing and tearing down only change process states.
LEMMA ProcTypes ==
  ASSUME TypeOK
  PROVE  /\ \A h \in Handle : Dropped(h) \in [Pids -> ProcStates]
         /\ \A p : Thawed(p) \in [Pids -> ProcStates]
         /\ \A stopped \in BOOLEAN : TornDown(stopped) \in [Pids -> ProcStates]
         /\ \A p, s : s \in ProcStates =>
              [proc EXCEPT ![p] = s] \in [Pids -> ProcStates]
<1>1. \A h \in Handle : Dropped(h) \in [Pids -> ProcStates]
  BY DEF Dropped, TypeOK, ProcStates
<1>2. \A p : Thawed(p) \in [Pids -> ProcStates]
  BY DEF Thawed, TypeOK, ProcStates
<1>3. LaunchHandle \in Handle
  BY EmptyTypes DEF LaunchHandle, TypeOK, Op, Handle
<1>4. \A stopped \in BOOLEAN : TornDown(stopped) \in [Pids -> ProcStates]
  BY <1>1, <1>3 DEF TornDown, TypeOK, ProcStates
<1> QED BY <1>1, <1>2, <1>4 DEF TypeOK

\* A plan becomes a timer of its attempt number.
LEMMA SleepingType ==
  ASSUME timers \in [Attempts -> Nat], NEW plan \in Attempts \cup {NoPlan}
  PROVE  Sleeping(plan) \in [Attempts -> Nat]
BY DEF Sleeping

-----------------------------------------------------------------------------
(* Type correctness *)

\* The initial state is typed.
LEMMA InitType == Init => TypeOK
<1> SUFFICES ASSUME Init PROVE TypeOK
  OBVIOUS
<1>1. proc \in [Pids -> ProcStates]
  BY DEF Init, ProcStates
<1>2. faults \in 0 .. MaxFaults
  BY MaxFaultsAssumption DEF Init
<1>3. row \in Rows /\ pauseKind \in PauseKinds /\ up \in BOOLEAN
  BY DEF Init, Rows, PauseKinds
<1> QED BY <1>1, <1>2, <1>3, EmptyTypes DEF Init, TypeOK

\* An operator's command keeps the types.
LEMMA OperatorType == TypeOK /\ Operator => TypeOK'
<1> SUFFICES ASSUME TypeOK, Operator PROVE TypeOK'
  OBVIOUS
<1>1. CASE Register
  BY <1>1 DEF Register, TypeOK, Rows, Unset
<1>2. CASE Remove
  BY <1>2, EmptyTypes DEF Remove, DeleteRow, TypeOK, Rows, Unset
<1>3. CASE Resume
  <2>1. PICK signalled \in BOOLEAN :
          /\ Attempt("signal", signalled)
          /\ proc' = IF signalled THEN Thawed(held.pid) ELSE proc
    BY <1>3 DEF Resume
  <2>2. faults' \in 0 .. MaxFaults
    BY <2>1, AttemptType DEF TypeOK
  <2>3. proc' \in [Pids -> ProcStates]
    BY <2>1, ProcTypes DEF TypeOK
  <2>4. held' \in Handle
    BY <1>3 DEF Resume, TypeOK, Handle
  <2> QED BY <1>3, <2>2, <2>3, <2>4 DEF Resume, TypeOK, Rows
<1>4. CASE PauseBestEffort
  BY <1>4 DEF PauseBestEffort, TypeOK, Rows, PauseKinds
<1>5. CASE StopRetry
  <2>1. op' \in Op
    BY <1>5, EmptyTypes DEF StopRetry, Op, Steps
  <2> QED BY <1>5, <2>1, EmptyTypes DEF StopRetry, durable, TypeOK
<1>6. ASSUME NEW policy \in Policies, SetRestartPolicy(policy) PROVE TypeOK'
  BY <1>6 DEF SetRestartPolicy, TypeOK, Record
<1>7. ASSUME NEW detach \in Detaches, Start(detach) PROVE TypeOK'
  <2>1. op' \in Op
    BY <1>7, EmptyTypes, DetachesAssumption
       DEF Start, Launch, Op, Steps, NoPlan
  <2> QED BY <1>7, <2>1 DEF Start, Launch, TypeOK, Rows
<1>8. ASSUME NEW kind \in PauseKinds, Pause(kind) PROVE TypeOK'
  <2>1. faults' \in 0 .. MaxFaults
    BY <1>8, AttemptType DEF Pause, TypeOK
  <2>2. proc' \in [Pids -> ProcStates]
    BY <1>8 DEF Pause, TypeOK, ProcStates
  <2>3. held' \in Handle
    BY <1>8 DEF Pause, TypeOK, Handle
  <2>4. pauseKind' \in PauseKinds
    BY <1>8 DEF Pause, RecordedKind, PauseKinds
  <2> QED BY <1>8, <2>1, <2>2, <2>3, <2>4 DEF Pause, TypeOK, Rows
<1>9. ASSUME NEW remove \in BOOLEAN, StopBegin(remove) PROVE TypeOK'
  <2>1. PICK fails \in {"none", "adopt", "store", "signal"} :
          Attempt(fails, fails = "none") /\ StopBeginWith(remove, fails)
    BY <1>9 DEF StopBegin
  <2>2. faults' \in 0 .. MaxFaults
    BY <2>1, AttemptType DEF TypeOK
  <2>3. held' \in Handle
    BY <2>1 DEF StopBeginWith, TypeOK, Adopted, Handle, Record
  <2>4. op' \in Op
    <3>1. [Idle EXCEPT !.at = "stop", !.remove = remove] \in Op
      BY EmptyTypes DEF Op, Steps
    <3> QED BY <2>1, <3>1 DEF StopBeginWith, TypeOK
  <2>5. proc' \in [Pids -> ProcStates]
    BY <2>1, ProcTypes DEF StopBeginWith, TypeOK
  <2>6. row' \in Rows
    BY <2>1 DEF StopBeginWith, TypeOK, Rows
  <2> QED BY <1>9, <2>2, <2>3, <2>4, <2>5, <2>6 DEF StopBegin, TypeOK
<1> QED BY <1>1, <1>2, <1>3, <1>4, <1>5, <1>6, <1>7, <1>8, <1>9 DEF Operator

\* Every step of an operation keeps the types.
LEMMA ContinueType == TypeOK /\ Continue => TypeOK'
<1> SUFFICES ASSUME TypeOK, Continue PROVE TypeOK'
  OBVIOUS
<1>1. CASE SpawnFails \/ StartupExit
  <2>1. op' \in Op
    BY <1>1 DEF SpawnFails, StartupExit, TypeOK, Op, Steps
  <2> QED BY <1>1, <2>1 DEF SpawnFails, StartupExit, durable, TypeOK
<1>2. ASSUME NEW p \in Pids, Spawn(p) PROVE TypeOK'
  <2>1. op' \in Op
    BY <1>2 DEF Spawn, TypeOK, Op, Steps
  <2>2. proc' \in [Pids -> ProcStates]
    BY <1>2 DEF Spawn, TypeOK, ProcStates
  <2> QED BY <1>2, <2>1, <2>2 DEF Spawn, durable, TypeOK
<1>3. CASE WriteRecord
  <2>1. op' \in Op
    BY <1>3 DEF WriteRecord, TypeOK, Op, Steps
  <2>2. 0 \in Attempts
    BY MaxFailuresAssumption DEF Attempts
  <2>3. rec' \in Record
    BY <1>3, <2>2
       DEF WriteRecord, NewRecord, EffectivePolicy, TypeOK, Record, Op, Policies
  <2> QED BY <1>3, <2>1, <2>3 DEF WriteRecord, TypeOK
<1>4. CASE WriteRecordFails \/ LaunchAborted
  <2>1. op' \in Op
    BY <1>4 DEF WriteRecordFails, LaunchAborted, TypeOK, Op, Steps
  <2>2. faults' \in 0 .. MaxFaults
    BY <1>4, AttemptType DEF WriteRecordFails, LaunchAborted, TypeOK
  <2>3. proc' \in [Pids -> ProcStates]
    BY <1>4, ProcTypes DEF WriteRecordFails, LaunchAborted
  <2> QED BY <1>4, <2>1, <2>2, <2>3
          DEF WriteRecordFails, LaunchAborted, durable, TypeOK
<1>5. CASE ReadinessExit
  <2>1. PICK ok \in BOOLEAN :
          /\ Attempt("store", ok)
          /\ rec' = IF ok THEN plan_restart(rec, FALSE).rec ELSE rec
          /\ op' = [op EXCEPT !.at = "fail",
                              !.plan = plan_restart(rec, FALSE).plan]
    BY <1>5 DEF ReadinessExit
  <2>2. /\ plan_restart(rec, FALSE).rec \in Record
        /\ plan_restart(rec, FALSE).plan \in Attempts \cup {NoPlan}
    BY PlanType DEF TypeOK
  <2>3. op' \in Op
    BY <2>1, <2>2 DEF TypeOK, Op, Steps
  <2>4. faults' \in 0 .. MaxFaults
    BY <2>1, AttemptType DEF TypeOK
  <2> QED BY <1>5, <2>1, <2>2, <2>3, <2>4 DEF ReadinessExit, TypeOK
<1>6. CASE CommitLaunchFailed \/ CommitFailed
  <2>1. faults' \in 0 .. MaxFaults
    BY <1>6, AttemptType DEF CommitLaunchFailed, CommitFailed, TypeOK
  <2>2. op.plan \in Attempts \cup {NoPlan}
    BY DEF TypeOK, Op
  <2>3. timers' \in [Attempts -> Nat]
    BY <1>6, <2>2, SleepingType DEF CommitLaunchFailed, CommitFailed, TypeOK
  <2>4. row' \in Rows
    BY <1>6 DEF CommitLaunchFailed, CommitFailed, TypeOK, Rows
  <2> QED BY <1>6, <2>1, <2>3, <2>4, EmptyTypes
          DEF CommitLaunchFailed, CommitFailed, TypeOK
<1>7. CASE CommitRunning
  <2>1. held' \in Handle
    BY <1>7, EmptyTypes DEF CommitRunning, LaunchHandle, TypeOK, Op, Handle
  <2>2. proc' \in [Pids -> ProcStates]
    BY <1>7, ProcTypes DEF CommitRunning, TypeOK
  <2> QED BY <1>7, <2>1, <2>2, EmptyTypes DEF CommitRunning, TypeOK, Rows
<1>8. CASE CommitRunningFails
  <2>1. LaunchHandle \in Handle
    BY EmptyTypes DEF LaunchHandle, TypeOK, Op, Handle
  <2>2. faults' \in 0 .. MaxFaults
    BY <1>8, AttemptType DEF CommitRunningFails, TypeOK
  <2> QED BY <1>8, <2>1, <2>2, ProcTypes, EmptyTypes
          DEF CommitRunningFails, durable, TypeOK
<1>9. CASE StopConfirmed
  <2>1. op' \in Op
    BY <1>9 DEF StopConfirmed, TypeOK, Op, Steps
  <2>2. proc' \in [Pids -> ProcStates]
    BY <1>9 DEF StopConfirmed, TypeOK, ProcStates
  <2> QED BY <1>9, <2>1, <2>2, EmptyTypes DEF StopConfirmed, durable, TypeOK
<1>10. CASE StopUnconfirmed \/ StopErrs
  <2>1. faults' \in 0 .. MaxFaults
    BY <1>10, AttemptType DEF StopUnconfirmed, StopErrs, TypeOK
  <2>2. proc' \in [Pids -> ProcStates]
    BY <1>10 DEF StopUnconfirmed, StopErrs, TypeOK, ProcStates
  <2>3. held' \in Handle
    BY <1>10 DEF StopUnconfirmed, StopErrs, TypeOK, Handle
  <2> QED BY <1>10, <2>1, <2>2, <2>3, EmptyTypes
          DEF StopUnconfirmed, StopErrs, durable, TypeOK
<1>11. CASE StopSettles \/ CommitStopped \/ OrphanRow \/ OrphanRecord
  <2>1. faults' \in 0 .. MaxFaults
    BY <1>11, AttemptType
       DEF StopSettles, CommitStopped, OrphanRow, OrphanRecord, TypeOK
  <2>2. op' \in Op
    BY <1>11, EmptyTypes
       DEF StopSettles, CommitStopped, OrphanRow, OrphanRecord, TypeOK, Op, Steps
  <2>3. rec' \in Record /\ row' \in Rows
    BY <1>11, EmptyTypes
       DEF StopSettles, CommitStopped, OrphanRow, OrphanRecord, Settled, TypeOK,
           Rows
  <2> QED BY <1>11, <2>1, <2>2, <2>3
          DEF StopSettles, CommitStopped, OrphanRow, OrphanRecord, TypeOK
<1>12. CASE RemoveStopped
  BY <1>12, EmptyTypes DEF RemoveStopped, DeleteRow, TypeOK, Rows
<1>13. CASE CommitExited
  <2>1. faults' \in 0 .. MaxFaults
    BY <1>13, AttemptType DEF CommitExited, TypeOK
  <2> QED BY <1>13, <2>1, EmptyTypes DEF CommitExited, TypeOK, Rows
<1> QED BY <1>1, <1>2, <1>3, <1>4, <1>5, <1>6, <1>7, <1>8, <1>9, <1>10, <1>11,
           <1>12, <1>13 DEF Continue

\* A verdict of the reaper puts a typed decision into the record and the plan.
LEMMA ReapedType ==
  ASSUME TypeOK, NEW d, NEW ok \in BOOLEAN, d.rec \in Record,
         d.plan \in Attempts \cup {NoPlan}, Reaped(d, ok)
  PROVE  rec' \in Record /\ held' \in Handle /\ op' \in Op
<1>1. op' \in Op
  BY EmptyTypes DEF Reaped, Op, Steps
<1> QED BY <1>1, EmptyTypes DEF Reaped, TypeOK

\* Every verdict of the reaper keeps the types.
LEMMA ReaperType == TypeOK /\ Reaper => TypeOK'
<1> SUFFICES ASSUME TypeOK, Reaper PROVE TypeOK'
  OBVIOUS
<1>a. rec \in Record /\ held \in Handle
  BY DEF TypeOK
<1>1. CASE ReapCrash
  <2>1. PICK stable \in BOOLEAN : Reaped(plan_restart(rec, stable), TRUE)
    BY <1>1 DEF ReapCrash
  <2>2. rec' \in Record /\ held' \in Handle /\ op' \in Op
    BY <1>a, <2>1, PlanType, ReapedType
  <2>3. faults' \in 0 .. MaxFaults
    BY <1>1, AttemptType DEF ReapCrash, PolledGone, PollGivesUp, TypeOK
  <2>4. proc' \in [Pids -> ProcStates]
    BY <1>a, <1>1, ProcTypes DEF ReapCrash
  <2> QED BY <1>1, <2>2, <2>3, <2>4 DEF ReapCrash, TypeOK
<1>2. CASE ReapCrashUnrecorded
  <2>1. rec' \in Record /\ held' \in Handle /\ op' \in Op
    BY <1>a, <1>2, PlanType, ReapedType DEF ReapCrashUnrecorded
  <2>2. faults' \in 0 .. MaxFaults
    BY <1>2, AttemptType DEF ReapCrashUnrecorded, TypeOK
  <2> QED BY <1>2, <2>1, <2>2 DEF ReapCrashUnrecorded, TypeOK
<1>3. CASE ReapRequested
  <2>1. rec' \in Record /\ held' \in Handle /\ op' \in Op
    BY <1>a, <1>3, PlanType, ReapedType DEF ReapRequested
  <2> QED BY <1>3, <2>1 DEF ReapRequested, TypeOK
<1>4. CASE ReapClean
  <2>1. op' \in Op
    BY <1>4, EmptyTypes DEF ReapClean, Op, Steps
  <2>2. faults' \in 0 .. MaxFaults
    BY <1>4, AttemptType DEF ReapClean, TypeOK
  <2>3. rec' \in Record
    BY <1>4, <1>a, EmptyTypes DEF ReapClean, Settled
  <2> QED BY <1>4, <2>1, <2>2, <2>3, EmptyTypes DEF ReapClean, TypeOK
<1>5. CASE LivenessExpired
  <2>1. PICK killed \in BOOLEAN, stable \in BOOLEAN :
          /\ Attempt("stop", killed)
          /\ proc' = IF killed /\ rec.detach /\ proc[held.pid] # "stuck"
                     THEN [proc EXCEPT ![held.pid] = "dead"] ELSE Dropped(held)
          /\ Reaped(plan_restart(rec, stable), TRUE)
    BY <1>5 DEF LivenessExpired
  <2>2. rec' \in Record /\ held' \in Handle /\ op' \in Op
    BY <1>a, <2>1, PlanType, ReapedType
  <2>3. faults' \in 0 .. MaxFaults
    BY <2>1, AttemptType DEF TypeOK
  <2>4. proc' \in [Pids -> ProcStates]
    BY <1>a, <2>1, ProcTypes DEF ProcStates
  <2> QED BY <1>5, <2>2, <2>3, <2>4 DEF LivenessExpired, TypeOK
<1>6. CASE ReapStuckStop \/ ReapForgets
  <2>1. op' \in Op
    BY <1>6, EmptyTypes DEF ReapStuckStop, ReapForgets, TypeOK, Op, Steps
  <2>2. faults' \in 0 .. MaxFaults
    BY <1>6, AttemptType
       DEF ReapStuckStop, ReapForgets, PolledGone, PollGivesUp, TypeOK
  <2>3. proc' \in [Pids -> ProcStates]
    BY <1>a, <1>6, ProcTypes DEF ReapStuckStop, ReapForgets
  <2> QED BY <1>6, <2>1, <2>2, <2>3, EmptyTypes
          DEF ReapStuckStop, ReapForgets, durable, TypeOK
<1> QED BY <1>1, <1>2, <1>3, <1>4, <1>5, <1>6 DEF Reaper

\* Opening, closing and crashing keep the types.
LEMMA SessionType == TypeOK /\ Session => TypeOK'
<1> SUFFICES ASSUME TypeOK, Session PROVE TypeOK'
  OBVIOUS
<1>a. rec \in Record /\ held \in Handle
  BY DEF TypeOK
<1>1. CASE Open
  <2>1. faults' \in 0 .. MaxFaults
    BY <1>1, AttemptType DEF Open, TypeOK
  <2>2. op' \in Op
    BY <1>1, EmptyTypes DEF Open, TypeOK, Op, Steps
  <2>3. Adopted \in Handle
    BY DEF Adopted, TypeOK, Handle, Record
  <2>4. held' \in Handle
    BY <1>1, <1>a, <2>3 DEF Open
  <2> QED BY <1>1, <2>1, <2>2, <2>4 DEF Open, durable, TypeOK
<1>2. CASE Close
  <2>1. faults' \in 0 .. MaxFaults
    BY <1>2, AttemptType DEF Close, TypeOK
  <2>2. proc' \in [Pids -> ProcStates]
    BY <1>a, <1>2, ProcTypes DEF Close
  <2> QED BY <1>2, <2>1, <2>2, EmptyTypes DEF Close, Forget, durable, TypeOK
<1>3. CASE CloseReleases
  <2>1. faults' \in 0 .. MaxFaults
    BY <1>3, AttemptType DEF CloseReleases, TypeOK
  <2>2. proc' \in [Pids -> ProcStates]
    BY <1>3, ProcTypes DEF CloseReleases
  <2> QED BY <1>3, <2>1, <2>2, EmptyTypes DEF CloseReleases, Forget, TypeOK, Rows
<1>4. CASE CloseReconciles
  <2>1. faults' \in 0 .. MaxFaults
    BY <1>4, AttemptType DEF CloseReconciles, TypeOK
  <2> QED BY <1>4, <2>1, EmptyTypes
          DEF CloseReconciles, Forget, Settled, TypeOK, Rows
<1>5. CASE Crash
  <2>1. faults' \in 0 .. MaxFaults
    BY <1>5, AttemptType DEF Crash, TypeOK
  <2> QED BY <1>5, <2>1, EmptyTypes DEF Crash, Forget, durable, TypeOK
<1> QED BY <1>1, <1>2, <1>3, <1>4, <1>5 DEF Session

\* The timers and the processes keep the types.
LEMMA TimerExitType ==
  TypeOK /\ ((\E n \in Attempts : RestartDue(n)) \/ (\E p \in Pids : Exit(p)))
    => TypeOK'
<1> SUFFICES ASSUME TypeOK,
                    (\E n \in Attempts : RestartDue(n)) \/ (\E p \in Pids : Exit(p))
             PROVE  TypeOK'
  OBVIOUS
<1>1. ASSUME NEW n \in Attempts, RestartDue(n) PROVE TypeOK'
  <2>1. faults' \in 0 .. MaxFaults
    BY <1>1, AttemptType DEF RestartDue, TypeOK
  <2>2. timers' \in [Attempts -> Nat]
    BY <1>1 DEF RestartDue, TypeOK
  <2>3. op' \in Op
    <3> DEFINE launched == [Idle EXCEPT !.at = "spawn", !.attempt = n,
                                        !.detach = rec.detach]
    <3>1. rec.detach \in BOOLEAN
      BY DEF TypeOK, Record
    <3>2. launched \in Op
      BY <3>1, EmptyTypes DEF Op, Steps
    <3>3. op' = op \/ op' = launched
      BY <1>1 DEF RestartDue, Launch
    <3> QED BY <3>2, <3>3 DEF TypeOK
  <2>4. row' \in Rows
    BY <1>1 DEF RestartDue, Launch, TypeOK, Rows
  <2> QED BY <1>1, <2>1, <2>2, <2>3, <2>4 DEF RestartDue, TypeOK
<1>2. ASSUME NEW p \in Pids, Exit(p) PROVE TypeOK'
  BY <1>2 DEF Exit, durable, TypeOK, ProcStates
<1> QED BY <1>1, <1>2

\* One step, of whichever part, keeps the types.
LEMMA NextType == TypeOK /\ [Next]_vars => TypeOK'
<1>1. TypeOK /\ UNCHANGED vars => TypeOK'
  BY DEF TypeOK, vars
<1> QED BY <1>1, OperatorType, ContinueType, ReaperType, SessionType,
           TimerExitType DEF Next

\* Type correctness of supervision (supervisor/*.rs).  The part with content:
\* restart attempts stay below the crash-loop threshold for ever, and the
\* bound on failures is the only one a behaviour needs.
THEOREM TypeCorrect == Spec => []TypeOK
<1>1. Init => TypeOK
  BY InitType
<1>2. TypeOK /\ [Next]_vars => TypeOK'
  BY NextType
<1> QED BY <1>1, <1>2, PTL DEF Spec

-----------------------------------------------------------------------------
(* The inductive invariant *)

\* It holds at the beginning.
LEMMA InitInv == Init => Inv
<1> SUFFICES ASSUME Init PROVE Inv
  OBVIOUS
<1>1. TypeOK
  BY InitType
<1>2. OpInv /\ HandleInv
  BY DEF Init, Idle, OpInv, HandleInv
<1>3. SupervisedIsRecorded /\ StoppedStaysStopped
  BY DEF Init, SupervisedIsRecorded, StoppedStaysStopped
<1> QED BY <1>1, <1>2, <1>3 DEF Inv, Core

\* No step brings a dead process back to life, but for the spawn.
NoneRevived == \A q \in Pids : proc[q] = "dead" => proc'[q] = "dead"

\* The engine's ways of changing a process revive none.
LEMMA RevivesNone ==
  ASSUME TypeOK
  PROVE  /\ \A h \in Handle : proc' = Dropped(h) => NoneRevived
         /\ \A p : proc' = Thawed(p) => NoneRevived
         /\ \A stopped \in BOOLEAN : proc' = TornDown(stopped) => NoneRevived
<1>1. \A h \in Handle : proc' = Dropped(h) => NoneRevived
  BY DEF Dropped, NoneRevived, TypeOK
<1>2. \A p : proc' = Thawed(p) => NoneRevived
  BY DEF Thawed, NoneRevived, TypeOK
<1>3. LaunchHandle \in Handle
  BY EmptyTypes DEF LaunchHandle, TypeOK, Op, Handle
<1>4. \A stopped \in BOOLEAN : proc' = TornDown(stopped) => NoneRevived
  BY <1>1, <1>3 DEF TornDown, NoneRevived, TypeOK
<1> QED BY <1>1, <1>2, <1>4

\* A record whose process is dead stays one, if none is revived.
LEMMA DeadRecord ==
  ASSUME TypeOK, NoneRevived, ~Alive(rec.pid), rec'.pid \in {rec.pid, NoPid}
  PROVE  ~Alive(rec.pid)'
BY DEF Alive, NoneRevived, TypeOK, Record

\* Commands of an operator.
LEMMA OperatorCore == Inv /\ Operator => Core'
<1> SUFFICES ASSUME Inv, Operator PROVE Core'
  OBVIOUS
<1> USE DEF Inv, Core, Ready
<1>1. CASE Register \/ Remove
  BY <1>1 DEF Register, Remove, DeleteRow, OpInv, HandleInv, Alive, Deletable,
              SupervisedIsRecorded, StoppedStaysStopped, NoRecord
<1>2. CASE Resume
  <2>1. HandleInv' /\ SupervisedIsRecorded'
    BY <1>2 DEF Resume, HandleInv, SupervisedIsRecorded, next_state, Accepts,
                Target, InvalidTransition, TypeOK, Handle, NoHandle
  <2>2. OpInv' /\ StoppedStaysStopped'
    BY <1>2 DEF Resume, OpInv, StoppedStaysStopped
  <2> QED BY <2>1, <2>2
<1>3. CASE PauseBestEffort
  BY <1>3 DEF PauseBestEffort, OpInv, HandleInv, SupervisedIsRecorded,
              StoppedStaysStopped, next_state, Accepts, Target, InvalidTransition
<1>4. CASE StopRetry
  BY <1>4 DEF StopRetry, durable, Idle, OpInv, HandleInv,
              SupervisedIsRecorded, StoppedStaysStopped
<1>5. ASSUME NEW policy \in Policies, SetRestartPolicy(policy) PROVE Core'
  BY <1>5 DEF SetRestartPolicy, OpInv, HandleInv, SupervisedIsRecorded,
              StoppedStaysStopped, Alive, TypeOK, Record
<1>6. ASSUME NEW detach \in Detaches, Start(detach) PROVE Core'
  BY <1>6 DEF Start, Launch, Idle, OpInv, HandleInv, SupervisedIsRecorded,
              StoppedStaysStopped
<1>7. ASSUME NEW kind \in PauseKinds, Pause(kind) PROVE Core'
  <2>1. row = "running" /\ row' = "paused"
    BY <1>7 DEF Pause, next_state, Accepts, Target, InvalidTransition
  <2>2. HandleInv' /\ SupervisedIsRecorded'
    BY <1>7, <2>1 DEF Pause, HandleInv, SupervisedIsRecorded, TypeOK, Handle,
                      NoHandle
  <2>3. OpInv' /\ StoppedStaysStopped'
    BY <1>7, <2>1 DEF Pause, OpInv, StoppedStaysStopped
  <2> QED BY <2>2, <2>3
<1>8. ASSUME NEW remove \in BOOLEAN, StopBegin(remove) PROVE Core'
  <2>1. PICK fails \in {"none", "adopt", "store", "signal"} :
          Attempt(fails, fails = "none") /\ StopBeginWith(remove, fails)
    BY <1>8 DEF StopBegin
  <2>2. row \in {"running", "paused"}
    BY <1>8 DEF StopBegin, next_state, Accepts, Target, InvalidTransition
  <2>3. HandleInv'
    BY <2>1 DEF StopBeginWith, HandleInv, Adopted, Alive, TypeOK, Record
  <2>4. SupervisedIsRecorded'
    BY <1>8, <2>1 DEF StopBegin, StopBeginWith, SupervisedIsRecorded, Adopted
  <2>5. OpInv'
    BY <1>8, <2>1 DEF StopBegin, StopBeginWith, OpInv, Idle
  <2>6. StoppedStaysStopped'
    BY <2>1, <2>2 DEF StopBeginWith, StoppedStaysStopped
  <2> QED BY <2>3, <2>4, <2>5, <2>6
<1> QED BY <1>1, <1>2, <1>3, <1>4, <1>5, <1>6, <1>7, <1>8 DEF Operator

\* Steps of an operation.
LEMMA ContinueCore == Inv /\ Continue => Core'
<1> SUFFICES ASSUME Inv, Continue PROVE Core'
  OBVIOUS
<1> USE DEF Inv, Core
<1>0. up = TRUE \/ op.at = "idle"
  BY DEF OpInv, TypeOK
<1>1. CASE SpawnFails \/ StartupExit
  BY <1>0, <1>1 DEF SpawnFails, StartupExit, durable, OpInv, HandleInv, TypeOK, Op,
              SupervisedIsRecorded, StoppedStaysStopped
<1>2. ASSUME NEW p \in Pids, Spawn(p) PROVE Core'
  BY <1>0, <1>2 DEF Spawn, durable, OpInv, HandleInv, TypeOK, Op,
              SupervisedIsRecorded, StoppedStaysStopped
<1>3. CASE WriteRecord
  BY <1>0, <1>3 DEF WriteRecord, NewRecord, OpInv, HandleInv, TypeOK, Op,
              SupervisedIsRecorded, StoppedStaysStopped
<1>4. CASE WriteRecordFails \/ LaunchAborted
  BY <1>0, <1>4 DEF WriteRecordFails, LaunchAborted, durable, OpInv, HandleInv,
              TypeOK, Op, SupervisedIsRecorded, StoppedStaysStopped
<1>5. CASE ReadinessExit
  <2>1. /\ op.at = "ready" /\ op'.at = "fail"
        /\ UNCHANGED <<row, proc, up, held>>
    BY <1>5 DEF ReadinessExit, TypeOK, Op
  <2> QED BY <1>0, <2>1 DEF OpInv, HandleInv, SupervisedIsRecorded,
                            StoppedStaysStopped
<1>6. CASE CommitLaunchFailed
  BY <1>0, <1>6 DEF CommitLaunchFailed, Idle, OpInv, HandleInv,
                    SupervisedIsRecorded, StoppedStaysStopped
<1>7. CASE CommitRunning
  BY <1>0, <1>7 DEF CommitRunning, LaunchHandle, NoHandle, Idle, OpInv, HandleInv,
                    SupervisedIsRecorded, StoppedStaysStopped
<1>8. CASE CommitRunningFails
  BY <1>0, <1>8 DEF CommitRunningFails, durable, Idle, OpInv, HandleInv,
                    SupervisedIsRecorded, StoppedStaysStopped
<1>9. CASE StopConfirmed
  BY <1>0, <1>9 DEF StopConfirmed, durable, OpInv, HandleInv, TypeOK, Op,
                    SupervisedIsRecorded, StoppedStaysStopped
<1>10. CASE StopUnconfirmed
  <2>1. HandleInv'
    BY <1>10 DEF StopUnconfirmed, HandleInv, Alive, TypeOK, Handle
  <2>2. row = "stopping" /\ row' = "stopping" /\ op'.at = "idle" /\ up' = TRUE
    BY <1>0, <1>10 DEF StopUnconfirmed, durable, OpInv, Idle
  <2> QED BY <2>1, <2>2 DEF OpInv, SupervisedIsRecorded, StoppedStaysStopped
<1>11. CASE StopErrs
  BY <1>0, <1>11 DEF StopErrs, durable, Idle, OpInv, HandleInv,
                     SupervisedIsRecorded, StoppedStaysStopped
<1>12. CASE StopSettles
  BY <1>0, <1>12 DEF StopSettles, Settled, NoRecord, Idle, OpInv, HandleInv,
                     TypeOK, Op, SupervisedIsRecorded, StoppedStaysStopped
<1>13. CASE CommitStopped
  BY <1>0, <1>13 DEF CommitStopped, Idle, OpInv, HandleInv, TypeOK, Op, Alive,
                     SupervisedIsRecorded, StoppedStaysStopped
<1>14. CASE RemoveStopped
  BY <1>0, <1>14 DEF RemoveStopped, DeleteRow, Idle, OpInv, HandleInv,
                     SupervisedIsRecorded, StoppedStaysStopped
<1>15. CASE CommitFailed
  BY <1>0, <1>15 DEF CommitFailed, Idle, OpInv, HandleInv,
                     SupervisedIsRecorded, StoppedStaysStopped
<1>16. CASE CommitExited
  BY <1>0, <1>16 DEF CommitExited, Idle, OpInv, HandleInv, Alive,
                     SupervisedIsRecorded, StoppedStaysStopped
<1>17. CASE OrphanRow
  BY <1>0, <1>17 DEF OrphanRow, OpInv, HandleInv, TypeOK, Op, Alive,
                     SupervisedIsRecorded, StoppedStaysStopped
<1>18. CASE OrphanRecord
  BY <1>0, <1>18 DEF OrphanRecord, Settled, NoRecord, Idle, OpInv, HandleInv,
                     Alive, SupervisedIsRecorded, StoppedStaysStopped
<1> QED BY <1>1, <1>2, <1>3, <1>4, <1>5, <1>6, <1>7, <1>8, <1>9, <1>10, <1>11,
           <1>12, <1>13, <1>14, <1>15, <1>16, <1>17, <1>18 DEF Continue

\* Verdicts of the reaper.
LEMMA ReaperCore == Inv /\ Reaper => Core'
<1> SUFFICES ASSUME Inv, Reaper PROVE Core'
  OBVIOUS
<1> USE DEF Inv, Core, Ready
<1>1. ASSUME row \in {"running", "paused"}, Ready, UNCHANGED <<row, up>>,
             held' = NoHandle, op'.at = "crashed"
      PROVE  Core'
  BY <1>1 DEF OpInv, HandleInv, SupervisedIsRecorded, StoppedStaysStopped
<1>2. CASE ReapCrash \/ ReapCrashUnrecorded \/ ReapRequested \/ LivenessExpired
  <2>1. op'.at = "crashed" /\ held' = NoHandle
    BY <1>2 DEF ReapCrash, ReapCrashUnrecorded, ReapRequested, LivenessExpired,
                Reaped, Idle
  <2> QED BY <1>1, <1>2, <2>1
          DEF ReapCrash, ReapCrashUnrecorded, ReapRequested, LivenessExpired,
              Classified
<1>3. CASE ReapClean
  <2>1. row = "running" /\ ~Alive(rec.pid)
    BY <1>3 DEF ReapClean, Classified, SupervisedIsRecorded
  <2>2. /\ op'.at = "exited" /\ held' = NoHandle
        /\ UNCHANGED <<row, up, proc>>
        /\ rec' \in {rec, NoRecord}
    BY <1>3 DEF ReapClean, Idle, Settled
  <2>3. ~Alive(rec.pid)'
    BY <2>1, <2>2 DEF Alive, NoRecord
  <2> QED BY <1>3, <2>1, <2>2, <2>3
          DEF ReapClean, OpInv, HandleInv, SupervisedIsRecorded,
              StoppedStaysStopped
<1>4. CASE ReapStuckStop
  BY <1>4 DEF ReapStuckStop, durable, Idle, OpInv, HandleInv,
              SupervisedIsRecorded, StoppedStaysStopped
<1>5. CASE ReapForgets
  <2>1. StoppedStaysStopped'
    BY <1>5 DEF ReapForgets, durable, StoppedStaysStopped
  <2> QED BY <1>5, <2>1 DEF ReapForgets, durable, OpInv, HandleInv,
                            SupervisedIsRecorded
<1> QED BY <1>2, <1>3, <1>4, <1>5 DEF Reaper

\* Sessions of the engine.
LEMMA SessionCore == Inv /\ Session => Core'
<1> SUFFICES ASSUME Inv, Session PROVE Core'
  OBVIOUS
<1> USE DEF Inv, Core, Ready
<1>1. CASE Open
  <2>1. held = NoHandle /\ op.at = "idle" /\ UNCHANGED <<row, rec, proc>>
    BY <1>1 DEF Open, durable, OpInv
  <2>2. \/ UNCHANGED <<held, op>>
        \/ Alive(rec.pid) /\ held' = Adopted /\ UNCHANGED op
        \/ op'.at = "orphanRow" /\ UNCHANGED held
    BY <1>1 DEF Open, Idle
  <2>3. HandleInv'
    BY <2>1, <2>2 DEF HandleInv, Adopted, Alive, TypeOK, Record
  <2>4. SupervisedIsRecorded'
    BY <2>1, <2>2 DEF SupervisedIsRecorded, Adopted
  <2>5. StoppedStaysStopped'
    BY <2>1, <2>2 DEF StoppedStaysStopped, Alive
  <2>6. OpInv'
    BY <1>1, <2>1, <2>2 DEF Open, OpInv
  <2> QED BY <2>3, <2>4, <2>5, <2>6
<1>2. ASSUME up' = FALSE, held' = NoHandle, op'.at = "idle", NoneRevived,
             rec'.pid \in {rec.pid, NoPid}, row' = row \/ row' # "stopped"
      PROVE  Core'
  <2>1. OpInv' /\ HandleInv' /\ SupervisedIsRecorded'
    BY <1>2 DEF OpInv, HandleInv, SupervisedIsRecorded
  <2>2. StoppedStaysStopped'
    BY <1>2, DeadRecord DEF StoppedStaysStopped
  <2> QED BY <2>1, <2>2
<1>3. CASE Close \/ CloseReleases \/ CloseReconciles \/ Crash
  <2>1. NoneRevived
    BY <1>3, RevivesNone
       DEF Close, CloseReleases, CloseReconciles, Crash, NoneRevived, TypeOK
  <2>2. up' = FALSE /\ held' = NoHandle
    BY <1>3 DEF Close, CloseReleases, CloseReconciles, Crash, Forget
  <2>3. op'.at = "idle"
    <3>1. CASE Close \/ CloseReleases \/ CloseReconciles
      BY <3>1 DEF Close, CloseReleases, CloseReconciles
    <3>2. CASE Crash
      BY <3>2 DEF Crash, Idle
    <3> QED BY <1>3, <3>1, <3>2
  <2>4. rec'.pid \in {rec.pid, NoPid} /\ (row' = row \/ row' # "stopped")
    <3>1. CASE Close \/ Crash
      BY <3>1 DEF Close, Crash, durable
    <3>2. CASE CloseReleases
      BY <3>2 DEF CloseReleases
    <3>3. CASE CloseReconciles
      BY <3>3 DEF CloseReconciles, Settled, NoRecord
    <3> QED BY <1>3, <3>1, <3>2, <3>3
  <2> QED BY <1>2, <2>1, <2>2, <2>3, <2>4
<1> QED BY <1>1, <1>3 DEF Session

\* Restart timers and exits of processes.
LEMMA TimerExitCore ==
  Inv /\ ((\E n \in Attempts : RestartDue(n)) \/ (\E p \in Pids : Exit(p)))
    => Core'
<1> SUFFICES ASSUME Inv,
                    (\E n \in Attempts : RestartDue(n)) \/ (\E p \in Pids : Exit(p))
             PROVE  Core'
  OBVIOUS
<1> USE DEF Inv, Core, Ready
<1>1. ASSUME NEW n \in Attempts, RestartDue(n) PROVE Core'
  BY <1>1 DEF RestartDue, Launch, Idle, OpInv, HandleInv, Alive,
              SupervisedIsRecorded, StoppedStaysStopped
<1>2. ASSUME NEW p \in Pids, Exit(p) PROVE Core'
  <2>1. NoneRevived
    BY <1>2 DEF Exit, NoneRevived, TypeOK
  <2>2. ~Alive(rec.pid) => ~Alive(rec.pid)'
    BY <1>2, <2>1, DeadRecord DEF Exit, durable
  <2> QED BY <1>2, <2>2 DEF Exit, durable, OpInv, HandleInv,
                            SupervisedIsRecorded, StoppedStaysStopped
<1> QED BY <1>1, <1>2

\* One step keeps the invariant.
LEMMA NextInv == Inv /\ [Next]_vars => Inv'
<1>1. Inv /\ [Next]_vars => TypeOK'
  BY NextType DEF Inv
<1>2. Inv /\ UNCHANGED vars => Core'
  BY DEF Inv, Core, vars, OpInv, HandleInv, SupervisedIsRecorded,
         StoppedStaysStopped, Alive
<1>3. Inv /\ Next => Core'
  BY OperatorCore, ContinueCore, ReaperCore, SessionCore, TimerExitCore DEF Next
<1> QED BY <1>1, <1>2, <1>3 DEF Inv

\* The invariant holds for ever.
THEOREM Invariance == Spec => []Inv
<1>1. Init => Inv
  BY InitInv
<1>2. Inv /\ [Next]_vars => Inv'
  BY NextInv
<1> QED BY <1>1, <1>2, PTL DEF Spec

\* Whatever fails and whenever the engine crashes, the process an engine
\* supervises under a running or paused row is the one its spawn record names
\* (start_inner, stop_inner, poll_once and adopt_orphans together).
THEOREM SupervisionIsRecorded == Spec => []SupervisedIsRecorded
<1>1. Inv => SupervisedIsRecorded
  BY DEF Inv, Core
<1> QED BY <1>1, Invariance, PTL

\* Whatever fails and whenever the engine crashes, a stopped row leaves
\* nothing behind that a later engine would adopt.
THEOREM StopIsFinal == Spec => []StoppedStaysStopped
<1>1. Inv => StoppedStaysStopped
  BY DEF Inv, Core
<1> QED BY <1>1, Invariance, PTL

-----------------------------------------------------------------------------
(* Supervision implements the lifecycle *)

\* A command the gate lets through commits an edge of the table.
LEMMA CommandEdge ==
  ASSUME NEW c \in Commands, next_state(row, c) = row', row' \in Rows
  PROVE  Ledger!Next
<1>1. next_state(row, c) # InvalidTransition
  BY DEF Rows, InvalidTransition
<1> QED BY <1>1 DEF Ledger!Next, Ledger!Command, Ledger!Commands,
             Ledger!next_state, Ledger!InvalidTransition, Ledger!Accepts,
             Ledger!Target, next_state, InvalidTransition, Accepts, Target,
             Commands

\* Every step changes the row along an edge, or not at all.
LEMMA RowStep == Inv /\ [Next]_vars => [Ledger!Next]_row
<1> SUFFICES ASSUME Inv, [Next]_vars PROVE [Ledger!Next]_row
  OBVIOUS
<1>t. row \in Rows /\ row' \in Rows
  BY NextType DEF Inv, TypeOK
<1>1. CASE UNCHANGED row
  BY <1>1
<1>2. ASSUME <<row, row'>> \in EventEdges PROVE Ledger!Next
  BY <1>2 DEF Ledger!Next, Ledger!Event, Ledger!EventEdges, EventEdges
<1>3. ASSUME NEW detach, NEW n, Launch(n, detach) PROVE Ledger!Next
  BY <1>3, <1>t, CommandEdge DEF Launch, Commands
<1>4. CASE Operator
  <2>1. CASE Register
    BY <2>1 DEF Register, Ledger!Next, Ledger!Register
  <2>2. CASE Remove
    BY <2>2 DEF Remove, DeleteRow, Ledger!Next, Ledger!Remove,
                Ledger!Deletable, Deletable
  <2>3. CASE Resume
    BY <2>3, <1>t, CommandEdge DEF Resume, Commands
  <2>4. CASE PauseBestEffort
    BY <2>4, <1>t, CommandEdge DEF PauseBestEffort, Commands
  <2>5. CASE StopRetry
    BY <2>5 DEF StopRetry, durable
  <2>6. ASSUME NEW policy \in Policies, SetRestartPolicy(policy)
        PROVE  UNCHANGED row
    BY <2>6 DEF SetRestartPolicy
  <2>7. ASSUME NEW detach \in Detaches, Start(detach) PROVE Ledger!Next
    BY <2>7, <1>3 DEF Start
  <2>8. ASSUME NEW kind \in PauseKinds, Pause(kind) PROVE Ledger!Next
    BY <2>8, <1>t, CommandEdge DEF Pause, Commands
  <2>9. ASSUME NEW remove \in BOOLEAN, StopBegin(remove)
        PROVE  UNCHANGED row \/ Ledger!Next
    <3>1. UNCHANGED row \/ row' = "stopping"
      BY <2>9 DEF StopBegin, StopBeginWith
    <3> QED BY <2>9, <3>1, <1>t, CommandEdge DEF StopBegin, Commands
  <2> QED BY <1>4, <2>1, <2>2, <2>3, <2>4, <2>5, <2>6, <2>7, <2>8, <2>9
          DEF Operator
<1>5. CASE Continue
  <2>1. CASE CommitLaunchFailed \/ CommitRunning
    <3>1. row = "starting" /\ row' \in {row, "failed", "running"}
      BY <2>1 DEF Inv, Core, OpInv, CommitLaunchFailed, CommitRunning
    <3> QED BY <3>1, <1>2 DEF EventEdges
  <2>2. CASE CommitStopped
    <3>1. row = "stopping" /\ row' \in {row, "stopped"}
      BY <2>2 DEF Inv, Core, OpInv, CommitStopped
    <3> QED BY <3>1, <1>2 DEF EventEdges
  <2>3. CASE RemoveStopped
    <3>1. row = "stopped" /\ row' = "absent"
      BY <2>3 DEF Inv, Core, OpInv, RemoveStopped, DeleteRow
    <3> QED BY <3>1 DEF Ledger!Next, Ledger!Remove, Ledger!Deletable
  <2>4. CASE CommitFailed \/ OrphanRow
    <3>1. row' = row \/ (row \in {"running", "paused"} /\ row' = "failed")
      BY <2>4 DEF Inv, Core, OpInv, CommitFailed, OrphanRow
    <3> QED BY <3>1, <1>2 DEF EventEdges
  <2>5. CASE CommitExited
    <3>1. row = "running" /\ row' \in {row, "stopped"}
      BY <2>5 DEF Inv, Core, OpInv, CommitExited
    <3> QED BY <3>1, <1>2 DEF EventEdges
  <2>6. ASSUME NEW p \in Pids, Spawn(p) PROVE UNCHANGED row
    BY <2>6 DEF Spawn, durable
  <2>7. CASE \/ SpawnFails \/ StartupExit \/ WriteRecord \/ WriteRecordFails
             \/ LaunchAborted \/ ReadinessExit \/ CommitRunningFails
             \/ StopConfirmed \/ StopUnconfirmed \/ StopErrs \/ StopSettles
             \/ OrphanRecord
    BY <2>7 DEF SpawnFails, StartupExit, WriteRecord, WriteRecordFails,
                LaunchAborted, ReadinessExit, CommitRunningFails, StopConfirmed,
                StopUnconfirmed, StopErrs, StopSettles, OrphanRecord, durable
  <2> QED BY <1>5, <2>1, <2>2, <2>3, <2>4, <2>5, <2>6, <2>7 DEF Continue
<1>6. CASE Reaper
  BY <1>6 DEF Reaper, ReapCrash, ReapCrashUnrecorded, ReapRequested, ReapClean,
              LivenessExpired, ReapStuckStop, ReapForgets, durable
<1>7. CASE Session
  <2>1. CASE Open \/ Close \/ Crash
    BY <2>1 DEF Open, Close, Crash, durable
  <2>2. CASE CloseReleases \/ CloseReconciles
    <3>1. row = "paused" /\ row' \in {row, "running", "failed"}
      BY <2>2 DEF CloseReleases, CloseReconciles, Releasable
    <3> QED BY <3>1, <1>2 DEF EventEdges
  <2> QED BY <1>7, <2>1, <2>2 DEF Session
<1>8. ASSUME NEW n \in Attempts, RestartDue(n) PROVE UNCHANGED row \/ Ledger!Next
  BY <1>8, <1>3 DEF RestartDue
<1>9. ASSUME NEW p \in Pids, Exit(p) PROVE UNCHANGED row
  BY <1>9 DEF Exit, durable
<1>10. CASE UNCHANGED vars
  BY <1>10 DEF vars
<1> QED BY <1>4, <1>5, <1>6, <1>7, <1>8, <1>9, <1>10 DEF Next

\* Supervision implements the lifecycle: whatever fails, every change of the
\* row that commit_transition persists is an edge of the state machine.
THEOREM SupervisorImplementsLifecycle == Spec => ImplementsLifecycle
<1>1. Init => Ledger!Init
  BY DEF Init, Ledger!Init
<1>2. Inv /\ [Next]_vars => [Ledger!Next]_row
  BY RowStep
<1> QED BY <1>1, <1>2, Invariance, PTL DEF Spec, ImplementsLifecycle, Ledger!Spec

-----------------------------------------------------------------------------
(* Without lost calls: one process, no phantom, nothing left suspended *)

\* No call fails and no engine crashes; only the death of a process that was
\* sent SIGKILL may stay unconfirmed.
Lossless == FaultKinds \subseteq {"unconfirmed"}

Runnable(p) == proc[p] \in {"live", "frozen"}
NoneRunnable == \A p \in Pids : ~Runnable(p)
LiveRow == row \in {"running", "paused"}

\* A process that runs, or can be made to run, is the one the launch or the
\* stop under way is about, the one the open engine holds under a live row, or
\* the detached one that a closed engine has left recorded under a live row.
Sole ==
  \A p \in Pids : Runnable(p) =>
    \/ op.at \in {"record", "ready"} /\ p = op.pid
    \/ op.at = "stop" /\ p = held.pid
    \/ Ready /\ LiveRow /\ p = held.pid
    \/ ~up /\ LiveRow /\ p = rec.pid /\ rec.detach

\* A live row is backed by a handle or, while no engine is open, by a record;
\* adopt_orphans settles a record only under a row it has taken down.
Backed ==
  /\ Ready /\ LiveRow => held # NoHandle
  /\ ~up /\ LiveRow => rec.pid # NoPid
  /\ op.at = "orphanRecord" => ~LiveRow

\* A suspended process is being stopped, or its row is paused and the pause
\* was not cooperative; without an engine, it was a budget breach.
Suspended ==
  \A p \in Pids : proc[p] = "frozen" =>
    \/ op.at = "stop"
    \/ /\ op.at = "idle" /\ row = "paused" /\ pauseKind # "cooperative"
       /\ ~up => pauseKind = "breach"

Solo == Sole /\ Backed /\ Suspended

\* Without lost calls, every call but the wait for a death succeeds.
LEMMA CallSucceeds ==
  ASSUME Lossless, NEW kind, kind # "unconfirmed", NEW ok \in BOOLEAN,
         Attempt(kind, ok)
  PROVE  ok = TRUE
BY DEF Lossless, Attempt

\* A step that leaves nothing runnable keeps the first and the last part.
LEMMA NothingRuns == NoneRunnable' => Sole' /\ Suspended'
BY DEF NoneRunnable, Sole, Suspended, Runnable

\* Nor does a process run before its spawn, after its end, or between
\* operations under a row that is not live.
LEMMA QuietSteps ==
  ASSUME Inv, Sole,
         \/ op.at \notin {"idle", "record", "ready", "stop"}
         \/ op.at = "idle" /\ ~LiveRow
  PROVE  NoneRunnable
BY DEF Inv, Core, OpInv, Sole, NoneRunnable, Ready

\* What an engine does to a process group makes no other process run.
LEMMA StillQuiet ==
  ASSUME TypeOK
  PROVE  /\ \A h \in Handle : proc' = Dropped(h) =>
              \A p \in Pids : Runnable(p)' => Runnable(p) /\ proc'[p] = proc[p]
         /\ \A h \in Handle : proc' = Dropped(h) /\ ~h.detach /\ h.pid \in Pids
              => ~Runnable(h.pid)'
         /\ \A q : proc' = Thawed(q) =>
              \A p \in Pids : /\ Runnable(p)' => Runnable(p)
                              /\ proc'[p] = "frozen" => proc[p] = "frozen" /\ p # q
<1>1. proc \in [Pids -> ProcStates]
  BY DEF TypeOK
<1>2. ASSUME NEW h \in Handle, proc' = Dropped(h), NEW p \in Pids, Runnable(p)'
      PROVE  Runnable(p) /\ proc'[p] = proc[p]
  BY <1>1, <1>2 DEF Dropped, Runnable, ProcStates
<1>3. ASSUME NEW h \in Handle, proc' = Dropped(h), ~h.detach, h.pid \in Pids
      PROVE  ~Runnable(h.pid)'
  BY <1>1, <1>3, PidsAssumption DEF Dropped, Runnable, ProcStates
<1>4. ASSUME NEW q, proc' = Thawed(q), NEW p \in Pids
      PROVE  /\ Runnable(p)' => Runnable(p)
             /\ proc'[p] = "frozen" => proc[p] = "frozen" /\ p # q
  BY <1>1, <1>4, PidsAssumption DEF Thawed, Runnable, ProcStates
<1> QED BY <1>2, <1>3, <1>4

\* An operator's command.
LEMMA OperatorSolo == Lossless /\ Inv /\ Solo /\ Operator => Solo'
<1> SUFFICES ASSUME Lossless, Inv, Solo, Operator PROVE Solo'
  OBVIOUS
<1> USE DEF Solo, Ready
<1>t. TypeOK /\ OpInv /\ HandleInv /\ NoPid \notin Pids
  BY PidsAssumption DEF Inv, Core
<1>1. CASE Register \/ Remove
  <2>1. NoneRunnable
    BY <1>1, QuietSteps DEF Register, Remove, Deletable, LiveRow
  <2>2. NoneRunnable'
    BY <1>1, <2>1 DEF Register, Remove, NoneRunnable, Runnable
  <2>3. Backed'
    BY <1>1 DEF Register, Remove, DeleteRow, Backed, LiveRow
  <2> QED BY <2>2, <2>3, NothingRuns
<1>2. CASE Resume
  <2>1. row = "paused" /\ row' = "running" /\ proc' = Thawed(held.pid)
    BY <1>2, CallSucceeds
       DEF Resume, next_state, Accepts, Target, InvalidTransition
  <2>2. /\ held # NoHandle /\ held' # NoHandle /\ held'.pid = held.pid
        /\ up /\ UNCHANGED <<rec, up, op>>
    BY <1>2, <1>t, <2>1 DEF Resume, Backed, LiveRow, HandleInv, TypeOK, Handle,
                            NoHandle
  <2>3. \A p \in Pids : Runnable(p)' => p = held.pid
    BY <1>2, <1>t, <2>1, StillQuiet DEF Resume, Sole
  <2>4. \A p \in Pids : proc'[p] # "frozen"
    <3>1. \A p \in Pids : proc'[p] = "frozen" => Runnable(p)'
      BY DEF Runnable
    <3> QED BY <1>t, <2>1, <2>3, <3>1, StillQuiet
  <2>5. Sole'
    BY <1>2, <2>1, <2>2, <2>3 DEF Resume, Sole, LiveRow
  <2>6. Backed' /\ Suspended'
    BY <1>2, <2>2, <2>4 DEF Resume, Backed, Suspended
  <2> QED BY <2>5, <2>6
<1>3. CASE PauseBestEffort
  <2>1. row = "running" /\ row' = "paused"
    BY <1>3 DEF PauseBestEffort, next_state, Accepts, Target, InvalidTransition
  <2>2. \A p \in Pids : proc'[p] # "frozen"
    BY <1>3, <2>1 DEF PauseBestEffort, Suspended
  <2> QED BY <1>3, <2>1, <2>2
          DEF PauseBestEffort, Sole, Backed, Suspended, Runnable, LiveRow
<1>4. CASE StopRetry
  <2>1. NoneRunnable
    BY <1>4, QuietSteps DEF StopRetry, LiveRow
  <2>2. NoneRunnable'
    BY <1>4, <2>1 DEF StopRetry, NoneRunnable, Runnable
  <2>3. Backed'
    BY <1>4 DEF StopRetry, durable, Idle, Backed
  <2> QED BY <2>2, <2>3, NothingRuns
<1>5. ASSUME NEW policy \in Policies, SetRestartPolicy(policy) PROVE Solo'
  <2>1. rec'.pid = rec.pid /\ rec'.detach = rec.detach
    BY <1>5, <1>t DEF SetRestartPolicy, TypeOK, Record
  <2> QED BY <1>5, <2>1
          DEF SetRestartPolicy, Sole, Backed, Suspended, Runnable, LiveRow
<1>6. ASSUME NEW detach \in Detaches, Start(detach) PROVE Solo'
  <2>1. NoneRunnable
    BY <1>6, QuietSteps DEF Start, Launch, LiveRow, next_state, Accepts, Target,
                            InvalidTransition
  <2>2. NoneRunnable'
    BY <1>6, <2>1 DEF Start, NoneRunnable, Runnable
  <2>3. Backed'
    BY <1>6 DEF Start, Launch, Idle, Backed, LiveRow
  <2> QED BY <2>2, <2>3, NothingRuns
<1>7. ASSUME NEW kind \in PauseKinds, Pause(kind) PROVE Solo'
  <2>1. /\ row = "running" /\ row' = "paused" /\ held # NoHandle
        /\ pauseKind' = kind
    BY <1>7 DEF Pause, next_state, Accepts, Target, InvalidTransition, Backed,
                LiveRow, RecordedKind
  <2>2. /\ held' # NoHandle /\ held'.pid = held.pid
        /\ up /\ UNCHANGED <<rec, up, op>>
    BY <1>7, <1>t, <2>1 DEF Pause, HandleInv, TypeOK, Handle, NoHandle
  <2>3. \A p \in Pids : proc[p] # "frozen"
    BY <1>7, <2>1 DEF Pause, Suspended
  <2>4. PICK signalled \in BOOLEAN :
          proc' = IF signalled /\ kind # "cooperative" /\ held # NoHandle
                     /\ proc[held.pid] = "live"
                  THEN [proc EXCEPT ![held.pid] = "frozen"] ELSE proc
    BY <1>7 DEF Pause
  <2>5. \A p \in Pids : /\ Runnable(p)' => Runnable(p)
                        /\ proc'[p] = "frozen" => kind # "cooperative"
    BY <1>t, <2>3, <2>4 DEF Runnable, TypeOK, ProcStates
  <2>6. Sole'
    BY <1>7, <2>1, <2>2, <2>5 DEF Pause, Sole, LiveRow
  <2>7. Backed' /\ Suspended'
    BY <1>7, <2>1, <2>2, <2>5 DEF Pause, Backed, Suspended
  <2> QED BY <2>6, <2>7
<1>8. ASSUME NEW remove \in BOOLEAN, StopBegin(remove) PROVE Solo'
  <2>1. PICK fails \in {"none", "adopt", "store", "signal"} :
          Attempt(fails, fails = "none") /\ StopBeginWith(remove, fails)
    BY <1>8 DEF StopBegin
  <2>2. fails = "none"
    BY <2>1, CallSucceeds
  <2>3. row \in {"running", "paused"}
    BY <1>8 DEF StopBegin, next_state, Accepts, Target, InvalidTransition
  <2>4. held # NoHandle /\ held' = held /\ row' = "stopping" /\ op'.at = "stop"
    BY <1>8, <2>1, <2>2, <2>3
       DEF StopBegin, StopBeginWith, Backed, LiveRow, Idle
  <2>5. proc' = Thawed(held.pid) \/ proc' = proc
    BY <2>1, <2>2, <2>4 DEF StopBeginWith
  <2>6. \A p \in Pids : Runnable(p)' => Runnable(p)
    BY <1>t, <2>5, StillQuiet DEF Runnable
  <2>7. Sole'
    BY <1>8, <2>3, <2>4, <2>6 DEF StopBegin, Sole, LiveRow
  <2>8. Backed' /\ Suspended'
    BY <2>4 DEF Backed, Suspended, LiveRow
  <2> QED BY <2>7, <2>8
<1> QED BY <1>1, <1>2, <1>3, <1>4, <1>5, <1>6, <1>7, <1>8 DEF Operator

\* A step of an operation.
LEMMA ContinueSolo == Lossless /\ Inv /\ Solo /\ Continue => Solo'
<1> SUFFICES ASSUME Lossless, Inv, Solo, Continue PROVE Solo'
  OBVIOUS
<1> USE DEF Solo, Ready
<1>t. TypeOK /\ OpInv /\ HandleInv /\ NoPid \notin Pids
  BY PidsAssumption DEF Inv, Core
<1>n. up = TRUE
  <2>1. op.at # "idle"
    BY DEF Continue, SpawnFails, Spawn, StartupExit, WriteRecord,
           WriteRecordFails, LaunchAborted, ReadinessExit, CommitLaunchFailed,
           CommitRunning, CommitRunningFails, StopConfirmed, StopUnconfirmed,
           StopErrs, StopSettles, CommitStopped, RemoveStopped, CommitFailed,
           CommitExited, OrphanRow, OrphanRecord
  <2> QED BY <1>t, <2>1 DEF OpInv, TypeOK
<1>q. ASSUME NoneRunnable', Backed' PROVE Solo'
  BY <1>q, NothingRuns
<1>1. CASE SpawnFails \/ StartupExit
  <2>1. NoneRunnable
    BY <1>1, <1>t, QuietSteps
       DEF SpawnFails, StartupExit, NoneRunnable, Runnable, Sole, OpInv, LiveRow,
           Alive
  <2>2. NoneRunnable'
    BY <1>1, <2>1 DEF SpawnFails, StartupExit, NoneRunnable, Runnable
  <2>3. Backed'
    BY <1>1, <1>n, <1>t
       DEF SpawnFails, StartupExit, durable, Backed, TypeOK, Op
  <2> QED BY <2>2, <2>3, <1>q
<1>2. ASSUME NEW q \in Pids, Spawn(q) PROVE Solo'
  <2>1. NoneRunnable
    BY <1>2, QuietSteps DEF Spawn
  <2>2. op'.at = "record" /\ op'.pid = q /\ up' = TRUE
    BY <1>2, <1>n, <1>t DEF Spawn, TypeOK, Op
  <2>3. \A p \in Pids : p # q => proc'[p] = proc[p]
    BY <1>2, <1>t DEF Spawn, TypeOK
  <2>4. proc'[q] = "live"
    BY <1>2, <1>t DEF Spawn, TypeOK
  <2>5. \A p \in Pids : Runnable(p)' => p = q
    BY <2>1, <2>3 DEF NoneRunnable, Runnable
  <2>6. \A p \in Pids : proc'[p] # "frozen"
    BY <2>4, <2>5 DEF Runnable
  <2> QED BY <2>2, <2>5, <2>6 DEF Sole, Backed, Suspended
<1>3. CASE WriteRecord
  <2>1. op'.at = "ready" /\ op'.pid = op.pid /\ up' = TRUE
    BY <1>3, <1>n, <1>t DEF WriteRecord, TypeOK, Op
  <2>2. \A p \in Pids : Runnable(p)' => p = op.pid
    BY <1>3, <1>t, <1>n DEF WriteRecord, Runnable, Sole
  <2>3. \A p \in Pids : proc'[p] # "frozen"
    BY <1>3 DEF WriteRecord, Suspended
  <2> QED BY <2>1, <2>2, <2>3 DEF Sole, Backed, Suspended
<1>4. CASE WriteRecordFails \/ CommitRunningFails \/ StopErrs
  BY <1>4, CallSucceeds DEF WriteRecordFails, CommitRunningFails, StopErrs
<1>5. CASE LaunchAborted
  <2>1. op.at = "ready" /\ op.pid \in Pids /\ op'.at = "fail" /\ up' = TRUE
    BY <1>5, <1>n, <1>t DEF LaunchAborted, OpInv, TypeOK, Op
  <2>2. proc' = [proc EXCEPT ![op.pid] = "dead"]
    BY <1>5, CallSucceeds DEF LaunchAborted, TornDown
  <2>3. NoneRunnable'
    BY <1>t, <1>n, <2>1, <2>2 DEF NoneRunnable, Runnable, Sole, TypeOK
  <2>4. Backed'
    BY <2>1 DEF Backed
  <2> QED BY <2>3, <2>4, <1>q
<1>6. CASE ReadinessExit
  <2>1. op.at = "ready" /\ op'.at = "fail" /\ up' = TRUE
    BY <1>6, <1>n, <1>t DEF ReadinessExit, TypeOK, Op
  <2>2. NoneRunnable'
    BY <1>6, <1>t, <1>n
       DEF ReadinessExit, NoneRunnable, Runnable, Sole, OpInv, Alive
  <2>3. Backed'
    BY <2>1 DEF Backed
  <2> QED BY <2>2, <2>3, <1>q
<1>7. CASE CommitRunning
  <2>1. op.at = "ready" /\ op.pid \in Pids /\ row' = "running" /\ up' = TRUE
    BY <1>7, <1>n, <1>t DEF CommitRunning, OpInv
  <2>2. held'.pid = op.pid /\ held' # NoHandle /\ op'.at = "idle"
    BY <1>7, <1>t, <2>1 DEF CommitRunning, LaunchHandle, NoHandle, Idle
  <2>3. \A p \in Pids : /\ Runnable(p)' => Runnable(p)
                        /\ Runnable(p)' => proc'[p] = proc[p]
    BY <1>7, <1>t, StillQuiet DEF CommitRunning, TypeOK
  <2>4. \A p \in Pids : Runnable(p)' => p = op.pid
    BY <1>n, <2>1, <2>3 DEF Sole
  <2>5. \A p \in Pids : proc'[p] # "frozen"
    BY <2>1, <2>3 DEF Suspended, Runnable
  <2> QED BY <2>1, <2>2, <2>4, <2>5 DEF Sole, Backed, Suspended, LiveRow
<1>8. CASE StopConfirmed
  <2>1. op'.at = "settle" /\ up' = TRUE
    BY <1>8, <1>n, <1>t DEF StopConfirmed, TypeOK, Op
  <2>2. NoneRunnable'
    <3>1. CASE held = NoHandle
      BY <1>8, <1>n, <1>t, <3>1
         DEF StopConfirmed, NoneRunnable, Runnable, Sole, NoHandle
    <3>2. CASE held # NoHandle
      BY <1>8, <1>n, <1>t, <3>2
         DEF StopConfirmed, NoneRunnable, Runnable, Sole, TypeOK
    <3> QED BY <3>1, <3>2
  <2>3. Backed'
    BY <2>1 DEF Backed
  <2> QED BY <2>2, <2>3, <1>q
<1>9. CASE StopUnconfirmed
  <2>1. op.at = "stop" /\ row' = "stopping" /\ op'.at = "idle"
    BY <1>9, <1>t DEF StopUnconfirmed, durable, OpInv, Idle
  <2>2. NoneRunnable'
    BY <1>9, <1>n, <1>t, <2>1
       DEF StopUnconfirmed, NoneRunnable, Runnable, Sole, TypeOK
  <2>3. Backed'
    BY <2>1 DEF Backed, LiveRow
  <2> QED BY <2>2, <2>3, <1>q
<1>10. CASE \/ CommitLaunchFailed \/ StopSettles \/ CommitStopped
            \/ RemoveStopped \/ CommitFailed \/ CommitExited
            \/ OrphanRow \/ OrphanRecord
  <2>1. NoneRunnable
    BY <1>10, QuietSteps
       DEF CommitLaunchFailed, StopSettles, CommitStopped, RemoveStopped,
           CommitFailed, CommitExited, OrphanRow, OrphanRecord
  <2>2. UNCHANGED proc
    BY <1>10
       DEF CommitLaunchFailed, StopSettles, CommitStopped, RemoveStopped,
           CommitFailed, CommitExited, OrphanRow, OrphanRecord
  <2>3. NoneRunnable'
    BY <2>1, <2>2 DEF NoneRunnable, Runnable
  <2>4. up' = TRUE
    BY <1>10, <1>n
       DEF CommitLaunchFailed, StopSettles, CommitStopped, RemoveStopped,
           CommitFailed, CommitExited, OrphanRow, OrphanRecord
  <2>5. ~LiveRow'
    <3>1. CASE CommitLaunchFailed
      BY <3>1, CallSucceeds DEF CommitLaunchFailed, LiveRow
    <3>2. CASE StopSettles
      BY <3>2, <1>t DEF StopSettles, OpInv, LiveRow
    <3>3. CASE CommitStopped
      BY <3>3, CallSucceeds DEF CommitStopped, LiveRow
    <3>4. CASE RemoveStopped
      BY <3>4 DEF RemoveStopped, DeleteRow, LiveRow
    <3>5. CASE CommitFailed
      BY <3>5, CallSucceeds DEF CommitFailed, LiveRow
    <3>6. CASE CommitExited
      BY <3>6, CallSucceeds DEF CommitExited, LiveRow
    <3>7. CASE OrphanRow
      BY <3>7, CallSucceeds DEF OrphanRow, LiveRow
    <3>8. CASE OrphanRecord
      BY <3>8 DEF OrphanRecord, Backed, LiveRow
    <3> QED BY <1>10, <3>1, <3>2, <3>3, <3>4, <3>5, <3>6, <3>7, <3>8
  <2>6. Backed'
    BY <2>4, <2>5 DEF Backed
  <2> QED BY <2>3, <2>6, <1>q
<1> QED BY <1>1, <1>2, <1>3, <1>4, <1>5, <1>6, <1>7, <1>8, <1>9, <1>10
        DEF Continue

\* A verdict of the reaper: the process it gives up is gone.
LEMMA ReaperSolo == Lossless /\ Inv /\ Solo /\ Reaper => Solo'
<1> SUFFICES ASSUME Lossless, Inv, Solo, Reaper PROVE Solo'
  OBVIOUS
<1> USE DEF Solo, Ready
<1>t. TypeOK /\ OpInv /\ HandleInv /\ NoPid \notin Pids
  BY PidsAssumption DEF Inv, Core
<1>n. up /\ op.at = "idle" /\ UNCHANGED up
  <2>1. CASE ReapCrash \/ ReapCrashUnrecorded \/ ReapRequested \/ ReapClean
    BY <2>1 DEF ReapCrash, ReapCrashUnrecorded, ReapRequested, ReapClean
  <2>2. CASE LivenessExpired \/ ReapStuckStop \/ ReapForgets
    BY <2>2 DEF LivenessExpired, ReapStuckStop, ReapForgets
  <2> QED BY <2>1, <2>2 DEF Reaper
<1>h. held # NoHandle
  <2>1. CASE ReapStuckStop
    BY <2>1 DEF ReapStuckStop, NoHandle
  <2>2. CASE ~ReapStuckStop
    BY <2>2 DEF Reaper, ReapCrash, ReapCrashUnrecorded, ReapRequested, ReapClean,
                LivenessExpired, ReapForgets
  <2> QED BY <2>1, <2>2
<1>p. held \in Handle /\ held.pid \in Pids
  BY <1>t, <1>h DEF HandleInv, TypeOK
<1>q. ASSUME NoneRunnable', op'.at \in {"crashed", "exited", "settle"} \/ ~LiveRow'
      PROVE  Solo'
  <2>1. op'.at # "orphanRecord"
    BY <1>n, <1>t
       DEF Reaper, ReapCrash, ReapCrashUnrecorded, ReapRequested, ReapClean,
           LivenessExpired, ReapStuckStop, ReapForgets, Reaped, Idle
  <2>2. Backed'
    BY <1>q, <1>n, <2>1 DEF Backed
  <2> QED BY <1>q, <2>2, NothingRuns
<1>g. PollGivesUp => FALSE
  BY CallSucceeds DEF PollGivesUp
<1>d. ASSUME ~Alive(held.pid) PROVE NoneRunnable
  BY <1>d, <1>n, <1>p, <1>t DEF Sole, Runnable, Alive, NoneRunnable, OpInv
<1>e. ASSUME NoneRunnable, proc' = proc \/ proc' = Dropped(held)
      PROVE  NoneRunnable'
  BY <1>e, <1>p, <1>t, StillQuiet DEF NoneRunnable, Runnable
<1>1. CASE ReapCrash
  BY <1>1, <1>g, <1>d, <1>e, <1>q DEF ReapCrash, PolledGone, Reaped, Idle
<1>2. CASE ReapCrashUnrecorded
  BY <1>2, CallSucceeds DEF ReapCrashUnrecorded
<1>3. CASE ReapRequested
  BY <1>3, <1>d, <1>e, <1>q DEF ReapRequested, Classified, Reaped, Idle
<1>4. CASE ReapClean
  BY <1>4, <1>d, <1>e, <1>q DEF ReapClean, Classified, Idle
<1>5. CASE LivenessExpired
  <2>1. PICK killed \in BOOLEAN :
          /\ Attempt("stop", killed)
          /\ proc' = IF killed /\ rec.detach /\ proc[held.pid] # "stuck"
                     THEN [proc EXCEPT ![held.pid] = "dead"] ELSE Dropped(held)
    BY <1>5 DEF LivenessExpired
  <2>2. killed = TRUE /\ rec.detach = held.detach
    BY <1>5, <1>h, <2>1, CallSucceeds
       DEF LivenessExpired, Inv, Core, SupervisedIsRecorded
  <2>3. proc'[held.pid] \notin {"live", "frozen"}
    <3>1. CASE rec.detach /\ proc[held.pid] # "stuck"
      BY <1>p, <1>t, <2>1, <2>2, <3>1 DEF TypeOK
    <3>2. CASE ~rec.detach
      BY <1>p, <1>t, <2>1, <2>2, <3>2, StillQuiet DEF Runnable
    <3>3. CASE proc[held.pid] = "stuck"
      <4>1. proc' = Dropped(held)
        BY <2>1, <3>3
      <4> QED BY <1>p, <1>t, <3>3, <4>1, StillQuiet DEF Runnable
    <3> QED BY <3>1, <3>2, <3>3
  <2>4. \A p \in Pids : Runnable(p)' => Runnable(p)
    <3>1. CASE proc' = Dropped(held)
      BY <3>1, <1>p, <1>t, StillQuiet
    <3>2. CASE proc' = [proc EXCEPT ![held.pid] = "dead"]
      BY <3>2, <1>t DEF Runnable, TypeOK
    <3> QED BY <2>1, <3>1, <3>2
  <2>5. \A p \in Pids : Runnable(p) => p = held.pid
    BY <1>n DEF Sole
  <2>6. NoneRunnable'
    BY <2>3, <2>4, <2>5 DEF NoneRunnable, Runnable
  <2> QED BY <1>5, <2>6, <1>q DEF LivenessExpired, Reaped, Idle
<1>6. CASE ReapStuckStop
  BY <1>6, <1>g, <1>d, <1>e, <1>q DEF ReapStuckStop, PolledGone, Idle
<1>7. CASE ReapForgets
  BY <1>7, <1>g, <1>d, <1>e, <1>q
     DEF ReapForgets, PolledGone, durable, LiveRow
<1> QED BY <1>1, <1>2, <1>3, <1>4, <1>5, <1>6, <1>7 DEF Reaper

\* A session of the engine begins or ends.
LEMMA SessionSolo == Lossless /\ Inv /\ Solo /\ Session => Solo'
<1> SUFFICES ASSUME Lossless, Inv, Solo, Session PROVE Solo'
  OBVIOUS
<1> USE DEF Solo, Ready
<1>t. TypeOK /\ OpInv /\ HandleInv /\ NoPid \notin Pids
  BY PidsAssumption DEF Inv, Core
<1>1. CASE Crash
  BY <1>1, CallSucceeds DEF Crash
<1>2. CASE Open
  <2>1. /\ up = FALSE /\ up' = TRUE /\ op.at = "idle" /\ held = NoHandle
        /\ UNCHANGED <<row, rec, pauseKind, proc>>
    BY <1>2, <1>t DEF Open, durable, OpInv, TypeOK
  <2>2. \/ rec.pid = NoPid /\ UNCHANGED op
        \/ rec.pid # NoPid /\ Alive(rec.pid) /\ held' = Adopted /\ UNCHANGED op
        \/ ~Alive(rec.pid) /\ op'.at = "orphanRow"
    BY <1>2, CallSucceeds DEF Open, Idle
  <2>3. CASE rec.pid = NoPid /\ UNCHANGED op
    <3>1. ~LiveRow
      BY <2>1, <2>3 DEF Backed
    <3>2. NoneRunnable
      BY <1>t, <2>1, <3>1, QuietSteps
    <3>3. NoneRunnable' /\ Backed'
      BY <2>1, <2>3, <3>1, <3>2 DEF NoneRunnable, Runnable, Backed, LiveRow
    <3> QED BY <3>3, NothingRuns
  <2>4. CASE rec.pid # NoPid /\ held' = Adopted /\ UNCHANGED op
    <3>1. held'.pid = rec.pid /\ held' # NoHandle
      BY <2>4 DEF Adopted, NoHandle
    <3>2. Sole'
      BY <2>1, <2>4, <3>1 DEF Sole, Runnable, LiveRow
    <3> QED BY <2>1, <2>4, <3>1, <3>2 DEF Backed, Suspended
  <2>5. CASE ~Alive(rec.pid) /\ op'.at = "orphanRow"
    <3>1. NoneRunnable
      BY <1>t, <2>1, <2>5 DEF Sole, Alive, Runnable, NoneRunnable
    <3>2. NoneRunnable' /\ Backed'
      BY <2>1, <2>5, <3>1 DEF NoneRunnable, Runnable, Backed
    <3> QED BY <3>2, NothingRuns
  <2> QED BY <2>2, <2>3, <2>4, <2>5
<1>3. ASSUME up, op.at = "idle", up' = FALSE, UNCHANGED op
      PROVE  /\ \A p \in Pids : Runnable(p) => LiveRow /\ p = held.pid
             /\ LiveRow => /\ held # NoHandle /\ held \in Handle
                           /\ held.pid \in Pids /\ rec.pid = held.pid
                           /\ rec.detach = held.detach
  BY <1>3, <1>t DEF Sole, Backed, HandleInv, TypeOK, LiveRow, Inv, Core,
                    SupervisedIsRecorded
<1>4. CASE Close
  <2>1. /\ up /\ op.at = "idle" /\ up' = FALSE
        /\ UNCHANGED <<row, rec, pauseKind, op>> /\ proc' = Dropped(held)
    BY <1>4 DEF Close, Forget, durable
  <2>2. ~Releasable \/ pauseKind # "operator"
    BY <1>4, CallSucceeds DEF Close
  <2>3. held \in Handle
    BY <1>t DEF TypeOK
  <2>4. \A p \in Pids : Runnable(p)' => Runnable(p) /\ proc'[p] = proc[p]
    BY <1>t, <2>1, <2>3, StillQuiet
  <2>5. \A p \in Pids : Runnable(p)' => LiveRow /\ p = rec.pid /\ held.detach
    <3>1. \A p \in Pids : Runnable(p)' => LiveRow /\ p = held.pid
      BY <1>3, <2>1, <2>4
    <3>2. \A p \in Pids : Runnable(p)' => held.detach
      BY <1>t, <2>1, <2>3, <3>1, StillQuiet DEF Runnable
    <3> QED BY <1>3, <2>1, <3>1, <3>2
  <2>6. Sole'
    BY <1>3, <2>1, <2>5 DEF Sole, LiveRow
  <2>7. Backed'
    BY <1>3, <1>t, <2>1 DEF Backed, LiveRow
  <2>8. ASSUME NEW p \in Pids, proc'[p] = "frozen"
        PROVE  row = "paused" /\ pauseKind = "breach"
    <3>1. proc[p] = "frozen" /\ LiveRow /\ held.detach
      BY <2>4, <2>5, <2>8 DEF Runnable
    <3>2. row = "paused" /\ pauseKind # "cooperative"
      BY <2>1, <3>1 DEF Suspended
    <3>3. Releasable
      BY <1>3, <2>1, <3>1, <3>2 DEF Releasable
    <3> QED BY <1>t, <2>2, <3>2, <3>3 DEF TypeOK, PauseKinds
  <2>9. Suspended'
    BY <2>1, <2>8 DEF Suspended
  <2> QED BY <2>6, <2>7, <2>9
<1>5. CASE CloseReleases
  <2>1. /\ up /\ op.at = "idle" /\ up' = FALSE /\ UNCHANGED <<rec, op>>
        /\ row = "paused" /\ rec.detach /\ proc' = Thawed(held.pid)
    BY <1>5 DEF CloseReleases, Forget, Releasable
  <2>2. row' = "running"
    BY <1>5, CallSucceeds DEF CloseReleases
  <2>3. \A p \in Pids : /\ Runnable(p)' => Runnable(p)
                        /\ proc'[p] = "frozen" => proc[p] = "frozen" /\ p # held.pid
    BY <1>t, <2>1, StillQuiet
  <2>4. \A p \in Pids : Runnable(p)' => p = rec.pid
    BY <1>3, <2>1, <2>3
  <2>5. \A p \in Pids : proc'[p] # "frozen"
    BY <1>3, <2>1, <2>3 DEF Runnable
  <2>6. rec.pid # NoPid
    BY <1>3, <1>t, <2>1 DEF LiveRow
  <2> QED BY <2>1, <2>2, <2>4, <2>5, <2>6 DEF Sole, Backed, Suspended, LiveRow
<1>6. CASE CloseReconciles
  <2>1. /\ up /\ op.at = "idle" /\ up' = FALSE /\ UNCHANGED <<op, proc>>
        /\ ~Alive(held.pid)
    BY <1>6 DEF CloseReconciles, Forget
  <2>2. row' = "failed"
    BY <1>6, CallSucceeds DEF CloseReconciles
  <2>3. NoneRunnable'
    BY <1>3, <1>t, <2>1 DEF Alive, NoneRunnable, Runnable
  <2>4. Backed'
    BY <2>1, <2>2 DEF Backed, LiveRow
  <2> QED BY <2>3, <2>4, NothingRuns
<1> QED BY <1>1, <1>2, <1>4, <1>5, <1>6 DEF Session

\* A restart timer fires, or a process exits.
LEMMA TimerExitSolo ==
  /\ Lossless /\ Inv /\ Solo
  /\ (\E n \in Attempts : RestartDue(n)) \/ (\E p \in Pids : Exit(p))
  => Solo'
<1> SUFFICES ASSUME Lossless, Inv, Solo,
                    (\E n \in Attempts : RestartDue(n)) \/ (\E p \in Pids : Exit(p))
             PROVE  Solo'
  OBVIOUS
<1> USE DEF Solo, Ready
<1>1. ASSUME NEW n \in Attempts, RestartDue(n) PROVE Solo'
  <2>1. UNCHANGED <<rec, pauseKind, proc, up, held>> /\ up /\ op.at = "idle"
    BY <1>1 DEF RestartDue
  <2>2. CASE UNCHANGED <<row, op>>
    BY <2>1, <2>2 DEF Sole, Backed, Suspended, Runnable, LiveRow
  <2>3. CASE Launch(n, rec.detach)
    <3>1. ~LiveRow /\ row' = "starting" /\ op'.at = "spawn"
      BY <2>3 DEF Launch, LiveRow, next_state, Accepts, Target,
                  InvalidTransition, Idle
    <3>2. NoneRunnable
      BY <2>1, <3>1, QuietSteps
    <3>3. NoneRunnable' /\ Backed'
      BY <2>1, <3>1, <3>2 DEF NoneRunnable, Runnable, Backed, LiveRow
    <3> QED BY <3>3, NothingRuns
  <2> QED BY <1>1, <2>2, <2>3 DEF RestartDue
<1>2. ASSUME NEW q \in Pids, Exit(q) PROVE Solo'
  <2>1. UNCHANGED <<row, rec, pauseKind, up, held, op>>
    BY <1>2 DEF Exit, durable
  <2>2. \A p \in Pids : /\ Runnable(p)' => Runnable(p)
                        /\ proc'[p] = "frozen" => proc[p] = "frozen"
    BY <1>2 DEF Exit, Inv, TypeOK, Runnable
  <2> QED BY <2>1, <2>2 DEF Sole, Backed, Suspended, LiveRow
<1> QED BY <1>1, <1>2

\* One step keeps both invariants.
LEMMA NextSolo == Lossless /\ Inv /\ Solo /\ [Next]_vars => Solo'
<1>1. Solo /\ UNCHANGED vars => Solo'
  BY DEF Solo, Sole, Backed, Suspended, Runnable, LiveRow, Ready, vars
<1>2. Lossless /\ Inv /\ Solo /\ Next => Solo'
  BY OperatorSolo, ContinueSolo, ReaperSolo, SessionSolo, TimerExitSolo DEF Next
<1> QED BY <1>1, <1>2

\* Without lost calls both invariants hold for ever.
THEOREM SoloInvariance == Lossless /\ Spec => [](Inv /\ Solo)
<1> SUFFICES ASSUME Lossless PROVE Spec => [](Inv /\ Solo)
  OBVIOUS
<1>1. Init => Inv /\ Solo
  <2>1. Init => NoneRunnable
    BY DEF Init, NoneRunnable, Runnable
  <2>2. Init => Solo
    BY <2>1 DEF Init, Idle, Solo, Sole, Backed, Suspended, NoneRunnable,
                Runnable, LiveRow
  <2> QED BY <2>2, InitInv
<1>2. (Inv /\ Solo) /\ [Next]_vars => (Inv /\ Solo)'
  BY NextInv, NextSolo
<1> QED BY <1>1, <1>2, PTL DEF Spec

\* A set whose members are all the same has at most one.
LEMMA AtMostOne ==
  ASSUME NEW S, \A a, b \in S : a = b
  PROVE  Cardinality(S) <= 1
<1>1. CASE S = {}
  BY <1>1, FS_EmptySet
<1>2. CASE S # {}
  <2>1. PICK a \in S : TRUE
    BY <1>2
  <2>2. S = {a}
    BY <2>1
  <2> QED BY <2>2, FS_Singleton
<1> QED BY <1>1, <1>2

\* Whatever exits, timers, sessions and commands do, in any order, there is one
\* process of the instance at most that runs or can be made to run
\* (start_inner, stop_inner, poll_once, adopt_orphans, release_detached_paused).
THEOREM NeverTwoProcesses == Lossless /\ Spec => []OneProcess
<1>1. Inv /\ Solo => OneProcess
  <2> SUFFICES ASSUME Inv, Solo PROVE OneProcess
    OBVIOUS
  <2> DEFINE Ps == {p \in Pids : proc[p] \in {"live", "frozen"}}
  <2>1. \A a, b \in Ps : a = b
    BY DEF Inv, Core, OpInv, Solo, Sole, Runnable, Ready
  <2>2. Cardinality(Ps) <= 1
    BY <2>1, AtMostOne
  <2> QED BY <2>2 DEF OneProcess
<1> QED BY <1>1, SoloInvariance, PTL

\* Between operations an open engine holds the process of every instance whose
\* row is running or paused (poll_once and adopt_orphans leave no live row
\* without a handle).
THEOREM LiveRowIsHeld == Lossless /\ Spec => []NoPhantomRow
<1>1. Solo => NoPhantomRow
  BY DEF Solo, Backed, NoPhantomRow, LiveRow
<1> QED BY <1>1, SoloInvariance, PTL

\* A process an engine leaves suspended when it goes away was detached and
\* paused for a budget breach (release_detached_paused, suspend_or_resume).
THEOREM OnlyBreachLeavesFrozen == Lossless /\ Spec => []FrozenOnlyForBreach
<1>1. Inv /\ Solo => FrozenOnlyForBreach
  BY DEF Inv, Core, OpInv, Solo, Sole, Suspended, Runnable, LiveRow, Ready,
         FrozenOnlyForBreach
<1> QED BY <1>1, SoloInvariance, PTL
=============================================================================
