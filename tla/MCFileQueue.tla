----------------------------- MODULE MCFileQueue -----------------------------
EXTENDS FileQueue, TLC

CONSTANTS w1, w2, o1

Symmetric == Permutations(Workers) \cup Permutations(Jobs)
==============================================================================
