-------------------------- MODULE MCStoreCommit --------------------------
EXTENDS StoreCommit, TLC

\* The clients are alike.
Symmetry == Permutations(Peers)
===========================================================================
