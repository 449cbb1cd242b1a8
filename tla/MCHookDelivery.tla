---------------------------- MODULE MCHookDelivery ----------------------------
EXTENDS HookDelivery, TLC

CONSTANTS x1, x2, s1, s2

Symmetric == Permutations(Executors) \cup Permutations(Senders)
==============================================================================
