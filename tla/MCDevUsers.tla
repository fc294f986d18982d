----------------------------- MODULE MCDevUsers -----------------------------
EXTENDS DevUsers, TLC
MCSymmetry == Permutations(Callers) \cup Permutations(Users \ Seed)
=============================================================================
