-------------------------- MODULE MCWorkerDatabase --------------------------
\* Model values and symmetry for checking WorkerDatabase with TLC.
EXTENDS WorkerDatabase, TLC

Symmetric == Permutations(Workers)
=============================================================================
