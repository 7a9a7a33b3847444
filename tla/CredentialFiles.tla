-------------------------- MODULE CredentialFiles --------------------------
(***************************************************************************)
(* What a file under client-credentials may hold.  Credentials are named   *)
(* by their generation: the orchestrator makes new ones, and refuses the   *)
(* old, when a node is onboarded again.                                    *)
(***************************************************************************)
EXTENDS Naturals

CONSTANT MaxGeneration  \* bound: how often the orchestrator onboards the node
ASSUME GenerationsAssumption == MaxGeneration \in Nat

Generations == 1..MaxGeneration
Absent == 0
Torn   == MaxGeneration + 1  \* a file that was truncated and not written
=============================================================================
