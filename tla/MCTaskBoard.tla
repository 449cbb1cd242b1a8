------------------------------ MODULE MCTaskBoard ------------------------------
EXTENDS TaskBoard, TLC

CONSTANTS a1, a2, t1, x1, x2, p1, p2

MCAgents == {a1, a2}
MCTasks == {t1}
MCPaths == {x1, x2}
MCProcs == {p1, p2}

Symmetric == Permutations(MCAgents) \cup Permutations(MCPaths) \cup Permutations(MCProcs)
================================================================================
