-------------------------- MODULE MCOrchestration --------------------------
(* Small instances of Orchestration for TLC.  The two items are of different *)
(* tiers, hence of different behaviour, so no symmetry is declared.          *)
EXTENDS Orchestration, TLC

CONSTANTS i1, i2

(* Two workers for one slot: the second queues behind the first.            *)
MCItems == {i1, i2}

(* i1 holds the workspace tools; i2 is a coding harness, or a plain model   *)
(* call in the liveness run.                                                *)
MCTier2 == {i1}
MCTier3 == {i2}
MCNoTier3 == {}
=============================================================================
