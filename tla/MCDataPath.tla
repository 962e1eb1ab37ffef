----------------------------- MODULE MCDataPath -----------------------------
\* Instances of DataPath: interchangeable client processes.
EXTENDS DataPath, TLC

Symmetry == Permutations(Clients)
=============================================================================
