------------------------------ MODULE MCBudget ------------------------------
(***************************************************************************)
(* Settings for TLC: ceilings of the Run below those of the instance, so   *)
(* that one Run reaches both, and every Breach Action is set for something.*)
(***************************************************************************)
EXTENDS Budget

Limits(runTokens, allTokens, runDollars, allDollars) ==
  [d \in Dimensions |-> [s \in Scopes |->
     IF d = "tokens" THEN IF s = "per_run" THEN runTokens ELSE allTokens
     ELSE IF s = "per_run" THEN runDollars ELSE allDollars]]

Choice(limits, tokens, dollars, rate) ==
  [limit |-> limits, rate |-> rate,
   action |-> [d \in Dimensions |-> IF d = "tokens" THEN tokens ELSE dollars]]

\* Pause on tokens, and a higher ceiling in dollars that stops.
Pausing == Choice(Limits(1, 3, Unset, 2), "pause", "stop", 1)
\* A fence for tokens, and a dollar ceiling that is only reported.
Blocking == Choice(Limits(1, 2, Unset, 2), "block", "warn", 1)

\* Both token ceilings under one action, as in the default configuration.
TokensOnly == {Choice(Limits(1, 2, Unset, Unset), "pause", "pause", 0)}

TwoSettings == {Pausing, Blocking}
=============================================================================
