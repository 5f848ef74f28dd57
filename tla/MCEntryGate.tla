---------------------------- MODULE MCEntryGate -----------------------------
EXTENDS EntryGateProperties, TLC
GateSymmetry == Permutations(Signals) \cup Permutations(Handlers)
=============================================================================
