---------------------------- MODULE MCImageBuild ----------------------------
EXTENDS ImageBuildProperties
\* the scripts that stop the chain on the repository's own files
Stale == {"trade_state_gate", "hard_time_exit", "residual_accounting"}
ASSUME ScriptsAreSound == PatchesSound /\ CeilingsOfOne /\ ThinStakeIsLate
=============================================================================
