--------------------------- MODULE LifecycleTable ---------------------------
(***************************************************************************)
(* The lifecycle state machine of an agent instance: the table of command  *)
(* edges and the edges the supervisor applies on process events.           *)
(* Source: crates/hekma-engine/src/domain/{transition,lifecycle}.rs.       *)
(***************************************************************************)

\* LifecycleState; "absent" is an instance with no row in the store.
Rows == {"absent", "registered", "starting", "running", "paused",
         "stopping", "stopped", "failed"}

Commands == {"start", "stop", "pause", "resume"}

\* The states in which the table has a row for a command.
Accepts ==
  [start  |-> {"registered", "stopped", "failed"},
   stop   |-> {"running", "paused"},
   pause  |-> {"running"},
   resume |-> {"paused"}]

\* The state a command leads to, the same for each state that accepts it.
Target == [start |-> "starting", stop |-> "stopping",
           pause |-> "paused", resume |-> "running"]

InvalidTransition == "invalid"

next_state(from, command) ==
  IF from \in Accepts[command] THEN Target[command] ELSE InvalidTransition

\* The edges that no command drives: the process became ready, failed to
\* launch, crashed, exited cleanly, was confirmed stopped, or was released
\* from an operator's pause by an engine that goes away.
EventEdges ==
  {<<"starting", "running">>, <<"starting", "failed">>,
   <<"stopping", "stopped">>, <<"running", "failed">>,
   <<"paused", "failed">>, <<"running", "stopped">>, <<"paused", "running">>}

\* A live row is stopped before it is deleted, so no row is ever deleted
\* while it reads running or paused.
Deletable == {"registered", "starting", "stopping", "stopped", "failed"}
=============================================================================
