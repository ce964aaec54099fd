---------------------------- MODULE MCSupervisor ----------------------------
(***************************************************************************)
(* Instances of Supervisor for TLC.  The process identities are model      *)
(* values and interchangeable, which the safety runs make use of.          *)
(***************************************************************************)
EXTENDS Supervisor, TLC

Symmetry == Permutations(Pids)

\* For the finding on unconfirmed stops: engines are opened again whenever
\* they are gone, and the stop is tried again whenever that can do anything.
ReopenSpec ==
  FairSpec /\ WF_vars(Open) /\ WF_vars(StopRetry)
=============================================================================
