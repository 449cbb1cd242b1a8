----------------------------- MODULE MCGuardrails -----------------------------
EXTENDS Guardrails

CONSTANTS r1, r2, w1, o1

TwoRuns == {r1, r2}
OneWorker == {w1}
OneOperator == {o1}

Agents == [codex |-> 0, claude |-> 1]
Modes == [project_root |-> 0, git_worktree |-> 0]
Flags == [security |-> 1]
GuardedFlag == {"security"}
Nothing == {}

Plain == [agent |-> "codex", mode |-> "project_root", flags |-> {}, paths |-> {}]
Dear == [agent |-> "claude", mode |-> "git_worktree", flags |-> {}, paths |-> {}]
Guarded == [agent |-> "claude", mode |-> "git_worktree", flags |-> {"security"}, paths |-> {}]

\* A run of 1 unit and one of 2 that only the budget stops, or one of 3 that the
\* governance rules guard as well.
TwoTasks == {[r \in TwoRuns |-> IF r = r1 THEN Plain ELSE t] : t \in {Dear, Guarded}}

\* A person may ask to have the first run done again, and the second one accepted.
Requested == {<<r1, "retry">>, <<r2, "accept">>}
===============================================================================
