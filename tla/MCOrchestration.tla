--------------------------- MODULE MCOrchestration ---------------------------
EXTENDS Orchestration, TLC

CONSTANTS p1, p2

TwoProcs == {p1, p2}
Alike == Permutations(TwoProcs)

New(deps, files, flagged) ==
  [status |-> "todo", deps |-> deps, files |-> files, rank |-> 1, flagged |-> flagged, source |-> 0]

Board(f) == [t \in Tasks |-> IF t \in DOMAIN f THEN f[t] ELSE None]

\* A flagged task and one that waits for it; two that share a file, the second more
\* urgent; two that wait for each other.
Chain == Board(<<New({}, {1}, TRUE), New({1}, {}, FALSE)>>)
Shared == Board(<<New({}, {1}, FALSE), [New({}, {1}, FALSE) EXCEPT !.rank = 0]>>)
Cycle == Board(<<New({2}, {}, FALSE), New({1}, {}, FALSE)>>)

\* With the gate, every run of the second board gets a batch of its own.
ThreeProjects ==
  {[gate |-> FALSE, board |-> Chain], [gate |-> TRUE, board |-> Shared], [gate |-> FALSE, board |-> Cycle]}
===============================================================================
