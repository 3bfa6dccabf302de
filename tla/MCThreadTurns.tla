---------------------------- MODULE MCThreadTurns ----------------------------
(***************************************************************************)
(* ThreadTurns on a few turns.  Turns are interchangeable in Init and      *)
(* Next, so they may be permuted where no liveness is checked.             *)
(***************************************************************************)
EXTENDS ThreadTurns, TLC

Symmetry == Permutations(Turns)

(* Scope of the search for a late fence: no usage, every run asks.         *)
LateFenceScope ==
  /\ latest = 0
  /\ \A t \in Turns : run[t] = "completed" => mine[t] # None
=============================================================================
