------------------------------ MODULE Adoption ------------------------------
(***************************************************************************)
(* Engines that share a data directory.  A serve host and every command    *)
(* open an engine of their own over the same instance; the locks of an     *)
(* engine do not reach the others, so what arbitrates between them is in   *)
(* the store: the instance's row and its spawn record, with the engine     *)
(* that spawned the process (owner) and the one that adopted it (lease).   *)
(* An engine that opens lists the records first and acts on them later,    *)
(* one durable write or one effect on a process in each step.  Failing     *)
(* calls, pauses and removals are in Supervisor; here a running row stands *)
(* for a paused one too.                                                   *)
(* Sources: domain/supervisor/{reaper,lifecycle,spawn}.rs, store/sqlite.rs.*)
(***************************************************************************)
EXTENDS LifecycleTable

CONSTANTS
  Engines,      \* engine processes, each opened once
  Agents,       \* agent processes, each spawned once: pid and start time
  NoEngine,     \* an owner or a lease that is NULL
  NoAgent,      \* pid 0
  Detached      \* the processes that are launched with `start --detach`

ASSUME AdoptionAssumption ==
  /\ NoEngine \notin Engines /\ NoAgent \notin Agents
  /\ Detached \subseteq Agents

VARIABLES
  rowState,   \* agent_instances.state
  runtime,    \* the agent_runtime row, Unrecorded for none and for a seed
  agents,     \* the agent processes
  at,         \* where each engine is in the operation it runs
  listed,     \* the record each engine that opens has read and not dealt with
  launched,   \* the process of each engine's launch under way
  handles,    \* each engine's handle of the instance
  respawned   \* history: a lease was taken on a record listed otherwise

adoptionVars == <<rowState, runtime, agents, at, listed, launched, handles, respawned>>

Steps == {"new", "gate", "adopt", "orphanRow", "orphanRecord", "idle", "spawn",
          "record", "ready", "stop", "kill", "settle", "finish", "crashed", "gone"}

\* A live engine process.
Running(e) == e # NoEngine /\ at[e] \notin {"new", "gone"}

Unrecorded == [pid |-> NoAgent, owner |-> NoEngine, lease |-> NoEngine]
Unheld == [pid |-> NoAgent, from |-> "none"]
Held(p, from) == [pid |-> p, from |-> from]

Lives(p) == p # NoAgent /\ agents[p] = "live"

Step(e, next) == at' = [at EXCEPT ![e] = next]
Forget(e) == listed' = [listed EXCEPT ![e] = Unrecorded]
Hold(e, handle) == handles' = [handles EXCEPT ![e] = handle]

\* Dropping a handle kills the process group, unless it is detached.
AgentsWithout(h) ==
  IF Lives(h.pid) /\ h.pid \notin Detached THEN [agents EXCEPT ![h.pid] = "dead"] ELSE agents

AdoptionInit ==
  /\ rowState = "registered" /\ runtime = Unrecorded
  /\ agents = [p \in Agents |-> "unborn"]
  /\ at = [e \in Engines |-> "new"]
  /\ listed = [e \in Engines |-> Unrecorded]
  /\ launched = [e \in Engines |-> NoAgent]
  /\ handles = [e \in Engines |-> Unheld]
  /\ respawned = FALSE

------------------------------------------------------------------------------
(* adopt_orphans *)

\* list_spawn_records; a record without a process is skipped.
OpenEngine(e) ==
  /\ at[e] = "new"
  /\ listed' = [listed EXCEPT ![e] = runtime]
  /\ Step(e, IF runtime.pid = NoAgent THEN "idle" ELSE "gate")
  /\ UNCHANGED <<rowState, runtime, agents, launched, handles, respawned>>

\* The owner, or the holder of the lease, is another engine that lives.
KeptElsewhere(e) ==
  \E other \in {listed[e].owner, listed[e].lease} : other # e /\ Running(other)

\* Seeded fault: the lease is taken whoever holds it.
LeaseFreeAlways(e) == runtime.pid # NoAgent

\* The guard of try_acquire_adoption_lease: the row is there, and its lease is
\* the one that was listed.  A settled row that is kept for an ACP session id,
\* with pid 0, counts as gone: the listed process is dead by then.
LeaseFree(e) == runtime.pid # NoAgent /\ runtime.lease = listed[e].lease

\* The lease is taken before any handle is.
TakeLease(e) ==
  /\ at[e] = "gate" /\ listed[e].pid \notin Detached /\ ~ KeptElsewhere(e) /\ LeaseFree(e)
  /\ runtime' = [runtime EXCEPT !.lease = e]
  /\ respawned' = (respawned \/ runtime.pid # listed[e].pid)
  /\ Step(e, "adopt")
  /\ UNCHANGED <<rowState, agents, listed, launched, handles>>

\* The record is another engine's, or the lease was lost, or its write failed.
SkipRecord(e) ==
  /\ at[e] = "gate" /\ listed[e].pid \notin Detached
  /\ Step(e, "idle") /\ Forget(e)
  /\ UNCHANGED <<rowState, runtime, agents, launched, handles, respawned>>

\* A detached record has no gate: its handle kills nothing.
PassGate(e) ==
  /\ at[e] = "gate" /\ listed[e].pid \in Detached
  /\ Step(e, "adopt")
  /\ UNCHANGED <<rowState, runtime, agents, listed, launched, handles, respawned>>

\* backend.adopt finds the listed process.
AdoptListed(e) ==
  /\ at[e] = "adopt" /\ Lives(listed[e].pid)
  /\ Hold(e, Held(listed[e].pid, "adoption"))
  /\ Step(e, "idle") /\ Forget(e)
  /\ UNCHANGED <<rowState, runtime, agents, launched, respawned>>

\* Or does not find it.
AdoptNothing(e) ==
  /\ at[e] = "adopt" /\ ~ Lives(listed[e].pid)
  /\ Step(e, "orphanRow")
  /\ UNCHANGED <<rowState, runtime, agents, listed, launched, handles, respawned>>

\* reconcile_orphan_failed: the row, then the record, whatever they say now.
ReconcileRow(e) ==
  /\ at[e] = "orphanRow"
  /\ rowState' = IF rowState = "running" THEN "failed" ELSE rowState
  /\ Step(e, "orphanRecord")
  /\ UNCHANGED <<runtime, agents, listed, launched, handles, respawned>>

ReconcileRecord(e) ==
  /\ at[e] = "orphanRecord"
  /\ runtime' = Unrecorded
  /\ Step(e, "idle") /\ Forget(e)
  /\ UNCHANGED <<rowState, agents, launched, handles, respawned>>

------------------------------------------------------------------------------
(* start_inner, of an operator or of a restart that is due *)

\* -> starting is conditional on the state that was read, so the gate and the
\* commit are one step.
StartAgent(e) ==
  /\ at[e] = "idle" /\ next_state(rowState, "start") = "starting"
  /\ rowState' = "starting"
  /\ Step(e, "spawn")
  /\ UNCHANGED <<runtime, agents, listed, launched, handles, respawned>>

SpawnAgent(e, p) ==
  /\ at[e] = "spawn" /\ agents[p] = "unborn"
  /\ agents' = [agents EXCEPT ![p] = "live"]
  /\ launched' = [launched EXCEPT ![e] = p]
  /\ Step(e, "record")
  /\ UNCHANGED <<rowState, runtime, listed, handles, respawned>>

\* upsert_spawn_record: this engine owns the process, and no lease is kept.
RecordAgent(e) ==
  /\ at[e] = "record"
  /\ runtime' = [pid |-> launched[e], owner |-> e, lease |-> NoEngine]
  /\ Step(e, "ready")
  /\ UNCHANGED <<rowState, agents, listed, launched, handles, respawned>>

\* starting -> running, unconditional; the new handle replaces an older one.
AgentReady(e) ==
  /\ at[e] = "ready"
  /\ rowState' = "running"
  /\ Hold(e, Held(launched[e], "launch"))
  /\ agents' = AgentsWithout(handles[e])
  /\ launched' = [launched EXCEPT ![e] = NoAgent]
  /\ Step(e, "idle")
  /\ UNCHANGED <<runtime, listed, respawned>>

\* The readiness probe sees the process exit, a crash like the reaper's: the
\* record is settled when no restart is planned.
ReadinessExit(e) ==
  /\ at[e] = "ready" /\ ~ Lives(launched[e])
  /\ runtime' \in {runtime, Unrecorded}
  /\ launched' = [launched EXCEPT ![e] = NoAgent]
  /\ Step(e, "crashed")
  /\ UNCHANGED <<rowState, agents, listed, handles, respawned>>

\* The spawn, the start-up watch, the record's write, the handshake or the
\* readiness probe fails: the process is stopped, the row says failed, and the
\* record stays.
LaunchFails(e) ==
  /\ at[e] \in {"spawn", "record", "ready"}
  /\ rowState' = "failed"
  /\ agents' = IF Lives(launched[e])
               THEN [agents EXCEPT ![launched[e]] = "dead"] ELSE agents
  /\ launched' = [launched EXCEPT ![e] = NoAgent]
  /\ Step(e, "idle")
  /\ UNCHANGED <<runtime, listed, handles, respawned>>

------------------------------------------------------------------------------
(* stop_inner *)

\* The gate reads the row.  A stop from an engine that has no handle then
\* re-acquires the recorded process.
StopAgent(e) ==
  /\ at[e] = "idle" /\ next_state(rowState, "stop") = "stopping"
  /\ IF handles[e] = Unheld /\ Lives(runtime.pid)
     THEN Hold(e, Held(runtime.pid, "stop"))
     ELSE UNCHANGED handles
  /\ Step(e, "stop")
  /\ UNCHANGED <<rowState, runtime, agents, listed, launched, respawned>>

\* -> stopping, unconditional.
StopCommits(e) ==
  /\ at[e] = "stop"
  /\ rowState' = "stopping"
  /\ Step(e, "kill")
  /\ UNCHANGED <<runtime, agents, listed, launched, handles, respawned>>

\* The ladder ends with the process confirmed dead, and the handle is dropped.
KillAgent(e) ==
  /\ at[e] = "kill"
  /\ agents' = IF Lives(handles[e].pid)
               THEN [agents EXCEPT ![handles[e].pid] = "dead"] ELSE agents
  /\ Hold(e, Unheld)
  /\ Step(e, "settle")
  /\ UNCHANGED <<rowState, runtime, listed, launched, respawned>>

SettleRecord(e) ==
  /\ at[e] = "settle"
  /\ runtime' = Unrecorded
  /\ Step(e, "finish")
  /\ UNCHANGED <<rowState, agents, listed, launched, handles, respawned>>

\* The row says stopped: of a stop, and of a clean exit.
StoppedCommits(e) ==
  /\ at[e] = "finish"
  /\ rowState' = "stopped"
  /\ Step(e, "idle")
  /\ UNCHANGED <<runtime, agents, listed, launched, handles, respawned>>

------------------------------------------------------------------------------
(* poll_once *)

\* The handle's process is gone and the row still says running: a crash.  The
\* record is settled when no restart is planned, and kept otherwise.
ReapAgent(e) ==
  /\ at[e] = "idle" /\ handles[e] # Unheld /\ ~ Lives(handles[e].pid)
  /\ rowState = "running"
  /\ Hold(e, Unheld)
  /\ runtime' \in {runtime, Unrecorded}
  /\ Step(e, "crashed")
  /\ UNCHANGED <<rowState, agents, listed, launched, respawned>>

CrashCommits(e) ==
  /\ at[e] = "crashed"
  /\ rowState' = "failed"
  /\ Step(e, "idle")
  /\ UNCHANGED <<runtime, agents, listed, launched, handles, respawned>>

\* A declared exit code, which only the parent reads.
ReapCleanExit(e) ==
  /\ at[e] = "idle" /\ handles[e].from = "launch" /\ ~ Lives(handles[e].pid)
  /\ rowState = "running"
  /\ Hold(e, Unheld)
  /\ runtime' = Unrecorded
  /\ Step(e, "finish")
  /\ UNCHANGED <<rowState, agents, listed, launched, respawned>>

\* Any other row: somebody's stop.
ReapNothing(e) ==
  /\ at[e] = "idle" /\ handles[e] # Unheld /\ ~ Lives(handles[e].pid)
  /\ rowState # "running"
  /\ Hold(e, Unheld)
  /\ UNCHANGED <<rowState, runtime, agents, at, listed, launched, respawned>>

------------------------------------------------------------------------------
\* The engine goes away: its handles are dropped.
CloseEngine(e) ==
  /\ at[e] = "idle"
  /\ agents' = AgentsWithout(handles[e])
  /\ Hold(e, Unheld)
  /\ Step(e, "gone")
  /\ UNCHANGED <<rowState, runtime, listed, launched, respawned>>

\* It is killed: they are not.
KillEngine(e) ==
  /\ Running(e)
  /\ Hold(e, Unheld)
  /\ launched' = [launched EXCEPT ![e] = NoAgent]
  /\ Step(e, "gone") /\ Forget(e)
  /\ UNCHANGED <<rowState, runtime, agents, respawned>>

AgentExits(p) ==
  /\ Lives(p)
  /\ agents' = [agents EXCEPT ![p] = "dead"]
  /\ UNCHANGED <<rowState, runtime, at, listed, launched, handles, respawned>>

AdoptOrphans(e) ==
  \/ OpenEngine(e) \/ TakeLease(e) \/ SkipRecord(e) \/ PassGate(e)
  \/ AdoptListed(e) \/ AdoptNothing(e) \/ ReconcileRow(e) \/ ReconcileRecord(e)

Launching(e) ==
  \/ StartAgent(e)
  \/ \E p \in Agents : SpawnAgent(e, p)
  \/ RecordAgent(e) \/ AgentReady(e) \/ ReadinessExit(e) \/ LaunchFails(e)

StoppingOf(e) ==
  StopAgent(e) \/ StopCommits(e) \/ KillAgent(e) \/ SettleRecord(e) \/ StoppedCommits(e)

Reaping(e) ==
  ReapAgent(e) \/ CrashCommits(e) \/ ReapCleanExit(e) \/ ReapNothing(e)

AdoptionNext ==
  \/ \E e \in Engines :
       \/ AdoptOrphans(e) \/ Launching(e) \/ StoppingOf(e) \/ Reaping(e)
       \/ CloseEngine(e) \/ KillEngine(e)
  \/ \E p \in Agents : AgentExits(p)

AdoptionSpec == AdoptionInit /\ [][AdoptionNext]_adoptionVars

------------------------------------------------------------------------------
SpawnRecord == [pid : Agents \cup {NoAgent}, owner : Engines \cup {NoEngine},
                lease : Engines \cup {NoEngine}]
HandleOf == [pid : Agents \cup {NoAgent}, from : {"none", "launch", "adoption", "stop"}]

AdoptionTypeOK ==
  /\ rowState \in Rows /\ runtime \in SpawnRecord
  /\ agents \in [Agents -> {"unborn", "live", "dead"}]
  /\ at \in [Engines -> Steps]
  /\ listed \in [Engines -> SpawnRecord]
  /\ launched \in [Engines -> Agents \cup {NoAgent}] /\ handles \in [Engines -> HandleOf]
  /\ respawned \in BOOLEAN

\* The engine's drop would kill the process, and no stop of its own is why.
Keeps(e, p) ==
  handles[e].pid = p /\ p \notin Detached /\ handles[e].from # "stop"

\* "Exactly one engine adopts armed" (store/sqlite.rs): whatever engines open,
\* launch, stop, reap, die and list at the same time, a process has no two
\* engines whose exit kills it.  A lease taken on a record that no longer
\* names the listed process is set aside: see RespawnedIsRefused.
SoleKeeper ==
  \A p \in Agents, d, e \in Engines :
    ~ respawned /\ Keeps(d, p) /\ Keeps(e, p) => d = e

\* try_acquire_adoption_lease says of a listed record that has changed: "row
\* gone, row re-spawned, and row leased-elsewhere all mean the same thing
\* here ... they are uniformly Ok(false)".
RespawnedIsRefused == ~ respawned
=============================================================================
