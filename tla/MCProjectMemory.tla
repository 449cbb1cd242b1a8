--------------------------- MODULE MCProjectMemory ---------------------------
EXTENDS ProjectMemory, TLC

CONSTANTS x1, o1, d1, r1, r2

OneExecutor == {x1}
OneOrchestrator == {o1}
OneDreamer == {d1}
TwoRuns == {r1, r2}

Alike == Permutations(TwoRuns)
===============================================================================
