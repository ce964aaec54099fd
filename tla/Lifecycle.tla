------------------------------ MODULE Lifecycle -----------------------------
(***************************************************************************)
(* What the ledger promises about the lifecycle state of one instance:     *)
(* every committed change follows one edge of the table.  The supervisor   *)
(* (module Supervisor) is shown to implement this specification.           *)
(***************************************************************************)
EXTENDS LifecycleTable

VARIABLE state

Init == state = "absent"

\* A new instance begins in registered.
Register == state = "absent" /\ state' = "registered"

\* An accepted command commits the state the table names.
Command(c) ==
  /\ next_state(state, c) # InvalidTransition
  /\ state' = next_state(state, c)

\* A process event commits one of the event edges.
Event == <<state, state'>> \in EventEdges

Remove == state \in Deletable /\ state' = "absent"

Next == Register \/ (\E c \in Commands : Command(c)) \/ Event \/ Remove

Spec == Init /\ [][Next]_state
=============================================================================
