--------------------------- MODULE AdoptionProofs ---------------------------
(***************************************************************************)
(* A process has one engine whose exit kills it, for every number of       *)
(* engines and processes.                                                  *)
(***************************************************************************)
EXTENDS Adoption, TLAPS

\* The engine that launched the process, and the one that adopts or adopted it.
LaunchClaim(e, p) ==
  \/ launched[e] = p
  \/ handles[e].pid = p /\ handles[e].from = "launch"
AdoptClaim(e, p) ==
  \/ at[e] = "adopt" /\ listed[e].pid = p
  \/ handles[e].pid = p /\ handles[e].from = "adoption"
Claim(e, p) == LaunchClaim(e, p) \/ AdoptClaim(e, p)

Names(e, p) == launched[e] = p \/ listed[e].pid = p \/ handles[e].pid = p

\* A launch has its process from the spawn to the ready row; an engine that is
\* not there holds nothing.
Busy ==
  \A e \in Engines :
    /\ (launched[e] # NoAgent) <=> (at[e] \in {"record", "ready"})
    /\ at[e] \in {"new", "gone"} => handles[e] = Unheld
    /\ handles[e].from = "none" => handles[e].pid = NoAgent

\* Nothing names a process that has not been spawned, and only its launch
\* names one that has not been recorded.
Unnamed ==
  \A p \in Agents :
    agents[p] = "unborn" => runtime.pid # p /\ \A e \in Engines : ~ Names(e, p)
Fresh ==
  \A e \in Engines :
    at[e] = "record" =>
      /\ runtime.pid # launched[e]
      /\ \A d \in Engines : /\ d # e => ~ Names(d, launched[e])
                            /\ listed[d].pid # launched[e]
                            /\ handles[d].pid # launched[e]

\* The record, and every listing of it, names the engine that launched the
\* process as its owner.
Owned ==
  \A p \in Agents, e \in Engines :
    LaunchClaim(e, p) =>
      /\ runtime.pid = p => runtime.owner = e
      /\ \A d \in Engines : listed[d].pid = p => listed[d].owner = e

\* The record names the engine that adopts as the holder of its lease.
Leased ==
  \A p \in Agents \ Detached, e \in Engines :
    ~ respawned /\ AdoptClaim(e, p) /\ runtime.pid = p => runtime.lease = e

SoleClaim ==
  \A p \in Agents \ Detached, d, e \in Engines :
    ~ respawned /\ Claim(d, p) /\ Claim(e, p) => d = e

AdoptionInv ==
  AdoptionTypeOK /\ Busy /\ Unnamed /\ Fresh /\ Owned /\ Leased /\ SoleClaim

------------------------------------------------------------------------------
\* An engine holds no more than before: what it names it named, or it is the
\* handle that a stop re-acquires from the record.
HoldsNoMore ==
  \A e \in Engines :
    /\ launched'[e] \in {launched[e], NoAgent}
    /\ listed'[e] \in {listed[e], Unrecorded}
    /\ \/ handles'[e] \in {handles[e], Unheld}
       \/ handles'[e] = Held(runtime.pid, "stop") /\ Lives(runtime.pid)
    /\ at'[e] = "record" => at[e] = "record" /\ launched'[e] = launched[e]
    /\ at'[e] = "adopt" => at[e] = "adopt" \/ listed[e].pid \in Detached

\* The steps that neither spawn, record, list nor lease keep the invariant.
Recedes ==
  /\ AdoptionTypeOK' /\ Busy'
  /\ HoldsNoMore
  /\ runtime' \in {runtime, Unrecorded} /\ respawned' = respawned
  /\ \A p \in Agents : agents'[p] = "unborn" => agents[p] = "unborn"

\* Giving up names and claims keeps every part of the invariant.
LEMMA RecedingKeeps ==
  ASSUME AdoptionInv, Recedes
  PROVE  AdoptionInv'
<1> USE AdoptionAssumption
<1> USE DEF AdoptionInv, Recedes, HoldsNoMore, Unrecorded, Unheld, Held
<1>1. Unnamed'
  BY DEF Unnamed, Names, Lives
<1>2. Fresh'
  BY DEF Fresh, Names, Lives, Busy, AdoptionTypeOK
<1>3. Owned'
  BY DEF Owned, LaunchClaim, AdoptionTypeOK
<1>4. ASSUME NEW p \in Agents \ Detached, NEW e \in Engines
      PROVE  /\ LaunchClaim(e, p)' => LaunchClaim(e, p)
             /\ AdoptClaim(e, p)' => AdoptClaim(e, p)
  BY DEF LaunchClaim, AdoptClaim
<1>5. Leased'
  BY <1>4 DEF Leased
<1>6. SoleClaim'
  BY <1>4 DEF SoleClaim, Claim
<1> QED
  BY <1>1, <1>2, <1>3, <1>5, <1>6

\* The receding steps, one by one: all but the six that follow.
LEMMA StepsRecede ==
  ASSUME AdoptionInv, NEW e \in Engines,
         \/ SkipRecord(e) \/ PassGate(e) \/ AdoptNothing(e) \/ ReconcileRow(e)
         \/ ReconcileRecord(e) \/ StartAgent(e) \/ LaunchFails(e) \/ ReadinessExit(e)
         \/ StopAgent(e) \/ StopCommits(e) \/ KillAgent(e) \/ SettleRecord(e) \/ StoppedCommits(e)
         \/ ReapAgent(e) \/ CrashCommits(e) \/ ReapCleanExit(e) \/ ReapNothing(e)
         \/ CloseEngine(e) \/ KillEngine(e)
  PROVE  Recedes
<1> USE AdoptionAssumption
<1> USE DEF AdoptionInv, AdoptionTypeOK, Busy, Recedes, HoldsNoMore, SpawnRecord,
            HandleOf, Steps, Rows, Step, Forget, Hold, Held, Unheld, Unrecorded, Lives
<1>1. CASE SkipRecord(e)
  BY <1>1 DEF SkipRecord
<1>2. CASE PassGate(e)
  BY <1>2 DEF PassGate
<1>3. CASE AdoptNothing(e)
  BY <1>3 DEF AdoptNothing
<1>4. CASE ReconcileRow(e)
  BY <1>4 DEF ReconcileRow
<1>5. CASE ReconcileRecord(e)
  BY <1>5 DEF ReconcileRecord
<1>6. CASE StartAgent(e)
  BY <1>6 DEF StartAgent, next_state, Accepts, Target
<1>7. CASE LaunchFails(e)
  BY <1>7 DEF LaunchFails
<1>8. CASE StopAgent(e)
  <2>1. /\ at[e] = "idle" /\ at' = [at EXCEPT ![e] = "stop"]
        /\ UNCHANGED <<rowState, runtime, agents, listed, launched, respawned>>
    BY <1>8 DEF StopAgent
  <2>2. \/ handles' = handles
        \/ handles' = [handles EXCEPT ![e] = Held(runtime.pid, "stop")] /\ Lives(runtime.pid)
    BY <1>8 DEF StopAgent
  <2>3. CASE handles' = handles
    BY <2>1, <2>3
  <2>4. CASE handles' = [handles EXCEPT ![e] = Held(runtime.pid, "stop")] /\ Lives(runtime.pid)
    BY <2>1, <2>4
  <2> QED
    BY <2>2, <2>3, <2>4
<1>9. CASE StopCommits(e)
  BY <1>9 DEF StopCommits
<1>10. CASE KillAgent(e)
  BY <1>10 DEF KillAgent
<1>11. CASE SettleRecord(e)
  BY <1>11 DEF SettleRecord
<1>12. CASE StoppedCommits(e)
  BY <1>12 DEF StoppedCommits
<1>13. CASE ReapAgent(e)
  BY <1>13 DEF ReapAgent
<1>14. CASE CrashCommits(e)
  BY <1>14 DEF CrashCommits
<1>15. CASE ReapCleanExit(e)
  BY <1>15 DEF ReapCleanExit
<1>16. CASE ReapNothing(e)
  BY <1>16 DEF ReapNothing
<1>17. CASE CloseEngine(e)
  BY <1>17 DEF CloseEngine, AgentsWithout
<1>18. CASE KillEngine(e)
  BY <1>18 DEF KillEngine, Running
<1>19. CASE ReadinessExit(e)
  BY <1>19 DEF ReadinessExit
<1> QED
  BY <1>1, <1>2, <1>3, <1>4, <1>5, <1>6, <1>7, <1>8, <1>9, <1>10, <1>11, <1>12,
     <1>13, <1>14, <1>15, <1>16, <1>17, <1>18, <1>19

\* list_spawn_records copies the record, owner and lease included; it names no
\* process that is unborn or unrecorded.
LEMMA OpenKeeps ==
  ASSUME AdoptionInv, NEW e \in Engines, OpenEngine(e)
  PROVE  AdoptionInv'
<1> USE AdoptionAssumption
<1> USE DEF AdoptionInv, OpenEngine, AdoptionTypeOK, SpawnRecord, HandleOf, Step, Steps
<1>1. AdoptionTypeOK' /\ Busy'
  BY DEF Busy
<1>2. Unnamed' /\ Fresh'
  BY DEF Unnamed, Fresh, Names
<1>3. Owned'
  BY DEF Owned, LaunchClaim
<1>4. ASSUME NEW p \in Agents \ Detached, NEW d \in Engines
      PROVE  /\ LaunchClaim(d, p)' => LaunchClaim(d, p)
             /\ AdoptClaim(d, p)' => AdoptClaim(d, p)
  BY DEF LaunchClaim, AdoptClaim
<1>5. Leased' /\ SoleClaim'
  BY <1>4 DEF Leased, SoleClaim, Claim
<1> QED
  BY <1>1, <1>2, <1>3, <1>5

\* The compare-and-set.  On a record that still names the listed process, the
\* engine that launched it, or the holder of the lease, would have been seen
\* alive: no engine has a claim yet.
LEMMA LeaseKeeps ==
  ASSUME AdoptionInv, NEW e \in Engines, TakeLease(e)
  PROVE  AdoptionInv'
<1> USE AdoptionAssumption
<1> USE DEF AdoptionInv, TakeLease, AdoptionTypeOK, SpawnRecord, HandleOf, Step, Steps
<1>1. /\ AdoptionTypeOK' /\ Busy' /\ Unnamed' /\ Fresh' /\ Owned'
  <2>1. runtime'.pid = runtime.pid /\ runtime'.owner = runtime.owner
    OBVIOUS
  <2>2. AdoptionTypeOK' /\ Busy'
    BY DEF Busy, LeaseFree
  <2>3. Unnamed' /\ Fresh'
    BY <2>1 DEF Unnamed, Fresh, Names
  <2>4. Owned'
    BY <2>1 DEF Owned, LaunchClaim
  <2> QED
    BY <2>2, <2>3, <2>4
<1>2. ASSUME NEW p \in Agents \ Detached, NEW d \in Engines
      PROVE  /\ LaunchClaim(d, p)' <=> LaunchClaim(d, p)
             /\ AdoptClaim(d, p)' <=> AdoptClaim(d, p) \/ (d = e /\ p = listed[e].pid)
  BY DEF LaunchClaim, AdoptClaim
<1>3. ASSUME NEW p \in Agents \ Detached, NEW d \in Engines, Claim(d, p)
      PROVE  Running(d)
  BY <1>3 DEF Claim, LaunchClaim, AdoptClaim, Busy, Running, Unheld
<1>4. ASSUME NEW d \in Engines, d # e, ~ respawned', listed[e].pid \in Agents \ Detached,
             Claim(d, listed[e].pid)
      PROVE  FALSE
  <2>1. runtime.pid = listed[e].pid /\ runtime.lease = listed[e].lease /\ ~ respawned
    BY <1>4 DEF LeaseFree
  <2>2. CASE LaunchClaim(d, listed[e].pid)
    <3>1. listed[e].owner = d
      BY <2>2, <1>4 DEF Owned
    <3> QED
      BY <3>1, <1>3, <1>4 DEF KeptElsewhere
  <2>3. CASE AdoptClaim(d, listed[e].pid)
    <3>1. listed[e].lease = d
      BY <2>1, <2>3, <1>4 DEF Leased
    <3> QED
      BY <3>1, <1>3, <1>4 DEF KeptElsewhere
  <2> QED
    BY <1>4, <2>2, <2>3 DEF Claim
<1>5. Leased'
  <2> SUFFICES ASSUME NEW p \in Agents \ Detached, NEW d \in Engines, d # e,
                      ~ respawned', AdoptClaim(d, p)', runtime'.pid = p
               PROVE  FALSE
    BY DEF Leased
  <2>1. runtime.pid = p /\ listed[e].pid = p
    OBVIOUS
  <2> QED
    BY <2>1, <1>2, <1>4 DEF Claim
<1>6. SoleClaim'
  BY <1>2, <1>4 DEF SoleClaim, Claim
<1> QED
  BY <1>1, <1>5, <1>6

\* backend.adopt turns the claim of the lease into a handle.
LEMMA AdoptKeeps ==
  ASSUME AdoptionInv, NEW e \in Engines, AdoptListed(e)
  PROVE  AdoptionInv'
<1> USE AdoptionAssumption
<1> USE DEF AdoptionInv, AdoptListed, AdoptionTypeOK, SpawnRecord, HandleOf, Step, Steps,
            Hold, Held, Forget, Unrecorded, Lives
<1>1. AdoptionTypeOK' /\ Busy'
  BY DEF Busy
<1>2. Unnamed'
  BY DEF Unnamed, Names
<1>3. Fresh'
  BY DEF Fresh, Names, Busy
<1>4. Owned'
  BY DEF Owned, LaunchClaim
<1>5. ASSUME NEW p \in Agents \ Detached, NEW d \in Engines
      PROVE  /\ LaunchClaim(d, p)' => LaunchClaim(d, p)
             /\ AdoptClaim(d, p)' => AdoptClaim(d, p)
  BY DEF LaunchClaim, AdoptClaim
<1>6. Leased' /\ SoleClaim'
  BY <1>5 DEF Leased, SoleClaim, Claim
<1> QED
  BY <1>1, <1>2, <1>3, <1>4, <1>6

\* A new process is named by its launch alone.
LEMMA SpawnKeeps ==
  ASSUME AdoptionInv, NEW e \in Engines, NEW q \in Agents, SpawnAgent(e, q)
  PROVE  AdoptionInv'
<1> USE AdoptionAssumption
<1> USE DEF AdoptionInv, SpawnAgent, AdoptionTypeOK, SpawnRecord, HandleOf, Step, Steps
<1>1. AdoptionTypeOK' /\ Busy'
  BY DEF Busy
<1>2. runtime.pid # q /\ \A d \in Engines : ~ Names(d, q)
  BY DEF Unnamed
<1>3. Unnamed' /\ Fresh'
  BY <1>2 DEF Unnamed, Fresh, Names, Busy
<1>4. ASSUME NEW p \in Agents, NEW d \in Engines
      PROVE  /\ LaunchClaim(d, p)' => LaunchClaim(d, p) \/ (d = e /\ p = q)
             /\ AdoptClaim(d, p)' => AdoptClaim(d, p) /\ p # q
             /\ ~ LaunchClaim(d, q)
  BY <1>2 DEF LaunchClaim, AdoptClaim, Names
<1>5. Owned' /\ Leased' /\ SoleClaim'
  BY <1>2, <1>4 DEF Owned, Leased, SoleClaim, Claim, Names
<1> QED
  BY <1>1, <1>3, <1>5

\* The write-ahead record names the launching engine as the owner.
LEMMA RecordKeeps ==
  ASSUME AdoptionInv, NEW e \in Engines, RecordAgent(e)
  PROVE  AdoptionInv'
<1> USE AdoptionAssumption
<1> USE DEF AdoptionInv, RecordAgent, AdoptionTypeOK, SpawnRecord, HandleOf, Step, Steps
<1>1. AdoptionTypeOK' /\ Busy'
  BY DEF Busy
<1>2. /\ runtime.pid # launched[e] /\ launched[e] \in Agents
      /\ \A d \in Engines : /\ d # e => ~ Names(d, launched[e])
                            /\ listed[d].pid # launched[e]
                            /\ handles[d].pid # launched[e]
  BY DEF Fresh, Busy
<1>3. Unnamed' /\ Fresh'
  BY <1>2 DEF Unnamed, Fresh, Names, Busy
<1>4. ASSUME NEW p \in Agents, NEW d \in Engines
      PROVE  /\ LaunchClaim(d, p)' <=> LaunchClaim(d, p)
             /\ AdoptClaim(d, p)' => AdoptClaim(d, p) /\ p # launched[e]
             /\ LaunchClaim(d, launched[e]) => d = e
  BY <1>2 DEF LaunchClaim, AdoptClaim, Names
<1>5. Owned' /\ Leased' /\ SoleClaim'
  BY <1>2, <1>4 DEF Owned, Leased, SoleClaim, Claim
<1> QED
  BY <1>1, <1>3, <1>5

\* The launch's claim becomes the handle's.
LEMMA ReadyKeeps ==
  ASSUME AdoptionInv, NEW e \in Engines, AgentReady(e)
  PROVE  AdoptionInv'
<1> USE AdoptionAssumption
<1> USE DEF AdoptionInv, AgentReady, AdoptionTypeOK, SpawnRecord, HandleOf, Step, Steps,
            Hold, Held, Rows
<1>1. AdoptionTypeOK' /\ Busy'
  BY DEF Busy, AgentsWithout, Lives
<1>2. Unnamed' /\ Fresh'
  BY DEF Unnamed, Fresh, Names, AgentsWithout, Lives, Busy
<1>3. ASSUME NEW p \in Agents, NEW d \in Engines
      PROVE  /\ LaunchClaim(d, p)' => LaunchClaim(d, p)
             /\ AdoptClaim(d, p)' => AdoptClaim(d, p)
  BY DEF LaunchClaim, AdoptClaim
<1>4. Owned' /\ Leased' /\ SoleClaim'
  BY <1>3 DEF Owned, Leased, SoleClaim, Claim
<1> QED
  BY <1>1, <1>2, <1>4

(* Every step of an engine, a process or a timer keeps the invariant. *)
LEMMA AdoptionStep ==
  ASSUME AdoptionInv, [AdoptionNext]_adoptionVars
  PROVE  AdoptionInv'
<1>1. CASE UNCHANGED adoptionVars
  BY <1>1 DEF adoptionVars, AdoptionInv, AdoptionTypeOK, Busy, Unnamed, Fresh, Owned,
              Leased, SoleClaim, Names, Claim, LaunchClaim, AdoptClaim
<1>2. ASSUME NEW p \in Agents, AgentExits(p)
      PROVE  AdoptionInv'
  <2>1. Recedes
    BY <1>2, AdoptionAssumption DEF AdoptionInv, AdoptionTypeOK, Busy, Recedes,
       HoldsNoMore, AgentExits, Lives
  <2> QED
    BY <2>1, RecedingKeeps
<1>3. ASSUME NEW e \in Engines, AdoptOrphans(e)
      PROVE  AdoptionInv'
  BY <1>3, OpenKeeps, LeaseKeeps, AdoptKeeps, StepsRecede, RecedingKeeps DEF AdoptOrphans
<1>4. ASSUME NEW e \in Engines, Launching(e)
      PROVE  AdoptionInv'
  BY <1>4, SpawnKeeps, RecordKeeps, ReadyKeeps, StepsRecede, RecedingKeeps DEF Launching
<1>5. ASSUME NEW e \in Engines,
             StoppingOf(e) \/ Reaping(e) \/ CloseEngine(e) \/ KillEngine(e)
      PROVE  AdoptionInv'
  BY <1>5, StepsRecede, RecedingKeeps DEF StoppingOf, Reaping
<1> QED
  BY <1>1, <1>2, <1>3, <1>4, <1>5 DEF AdoptionNext

\* The invariant of engines that share a data directory.
THEOREM AdoptionInductive == AdoptionSpec => []AdoptionInv
<1>1. AdoptionInit => AdoptionInv
  <2> SUFFICES ASSUME AdoptionInit PROVE AdoptionInv
    OBVIOUS
  <2> USE AdoptionAssumption DEF AdoptionInit, Unrecorded, Unheld
  <2>1. AdoptionTypeOK
    BY DEF AdoptionTypeOK, SpawnRecord, HandleOf, Steps, Rows
  <2>2. Busy /\ Unnamed /\ Fresh
    BY DEF Busy, Unnamed, Fresh, Names
  <2>3. \A p \in Agents, e \in Engines : ~ LaunchClaim(e, p) /\ ~ AdoptClaim(e, p)
    BY DEF LaunchClaim, AdoptClaim
  <2>4. Owned /\ Leased /\ SoleClaim
    BY <2>3 DEF Owned, Leased, SoleClaim, Claim
  <2> QED
    BY <2>1, <2>2, <2>4 DEF AdoptionInv
<1> QED
  BY <1>1, AdoptionStep, PTL DEF AdoptionSpec

\* However many engines open over a data directory, and whatever they launch,
\* adopt, stop and reap, no process has two engines whose exit kills it, as
\* long as no lease is taken on a record that was replaced after it was listed.
THEOREM KeeperIsUnique == AdoptionSpec => []SoleKeeper
<1>1. AdoptionInv => SoleKeeper
  <2> SUFFICES ASSUME AdoptionInv PROVE SoleKeeper
    OBVIOUS
  <2>1. ASSUME NEW p \in Agents, NEW e \in Engines, Keeps(e, p)
        PROVE  p \notin Detached /\ Claim(e, p)
    BY <2>1, AdoptionAssumption DEF AdoptionInv, AdoptionTypeOK, HandleOf, Busy, Keeps,
       Claim, LaunchClaim, AdoptClaim
  <2> QED
    BY <2>1 DEF AdoptionInv, SoleClaim, SoleKeeper
<1> QED
  BY <1>1, AdoptionInductive, PTL
=============================================================================
