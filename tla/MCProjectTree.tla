---------------------------- MODULE MCProjectTree ----------------------------
EXTENDS ProjectTree, TLC
MCSymmetry == Permutations(Requests) \cup Permutations(Envs) \cup Permutations(Apps)
                \cup Permutations(Projects)
=============================================================================
