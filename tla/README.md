# A verification project for `runtime-harness` (claw)

`claw` turns task files into runs, queues them, lets workers execute agents in
them, retries, pauses for approval, and announces completed runs through hooks.
All of its state is files: there is no database and no server, only short-lived
processes (workers, operator commands, cron jobs) that read, rewrite, rename and
unlink JSON files next to each other. What is hard about it is therefore what
happens *between* two file operations. The modules here take file operations as
their atomic actions and let the processes interleave and crash between them.

## 1. Inventory

| Component | State it keeps | Operations | Hard behaviours | What makes it correct |
|---|---|---|---|---|
| File queue (`file_queue.py`) | one JSON file per job in `pending`, `running`, `awaiting_approval`, `done`, `failed`, `dead_letter`; lease, attempt count, `next_retry_at` inside | enqueue, claim, renew_lease, ack, fail, dead_letter, await_approval, approve, reject, retry, cancel, unlock, reclaim | read–rewrite–rename sequences of several processes, stale leases, crashes between the steps | one file per job, one executor per job, bounded attempts, nothing lost, every job comes to rest |
| Worker loop (`claw.py cmd_worker`) | the item in hand, a heartbeat thread | reclaim, claim, preflight, execute, settle, retry | heartbeat racing the settlement, retry as two operations | drives the queue along its lifecycle |
| Hook delivery (`hooklib.py`, `dispatch_hooks.py`, `reconcile_hooks.py`, `openclaw wake`) | one file per hook in `pending`, `sent`, `failed`; a copy of the state in `result.json` | announce, dispatch, reconcile, callback bridge | two copies after a crash, stale listings, listener time-outs, unlocked rewrite of `result.json` | nothing undelivered is dropped, bounded retries, every hook settles |
| Job execution and run control (`execute_job.py`, `runtime_control.py`) | `result.json`, `meta.json`, `task_control.json`, the agent process | start, record process, request stop, finish | stop requested before the agent is recorded or after it ended | a stop that was accepted takes effect, no agent, nor a process that shares its output, outlives its execution |
| Task claims, wake queue, sessions (`task_claims.py`, `wake_queue.py`, `session_store.py`, `session_docs.py`) | a claim, a wake and a session file per scope, documents and their manifest, lock directories, the task's front matter | claim, release, mark-done, enqueue, get_or_create, update, reset, rotate, put_document | the task status is written outside the lock, a killed process leaves its lock | one holder per task, no wake lost |
| Approvals and guardrails (`claw.py`, `budget_guardrails.py`) | approval files, a guardrail snapshot per run, a budget snapshot per project | preflight, pause, request, resolve, finalize | check-then-act on the budget, effects of a decision before its record, decisions racing workers | nothing guarded runs unapproved, the budget holds, what waits can be approved, an approval is not asked for twice |
| Orchestration (`claw.py cmd_orchestrate`) | task files, runs, the steps of a loop | choose, start, run, decide, accept, follow up, delegate | two loops at once, task numbers taken without a lock, a loop killed while its worker goes on | dependencies first, one task at a time, no task stranded, follow-ups made |
| Review batches (`generate_review_batch.py`, `claw.py review-gate`) | manifests, decision stubs, the cadence counter | trigger, classify, write batch, decide, gate | batch numbers taken without a lock, a worker killed between manifest and stubs | a flagged run is not accepted unseen |
| Project memory (`project_memory.py`) | run notes, index, dream log, dream lock, the dream record in `orchestration_state.json` | extract, index, dream with its gates, record | unlocked replacement of index and state, a failure in the middle of a dream | notes and dreams stay on record, no run is left out of every dream |
| Orchestration state (`orchestration_state.py`) | `orchestration_state.json` | load, replace, evict | unlocked rewrites by workers, stops, dreams and the loop | see run control and project memory |
| Operator jobs (`operator_jobs.py`) | a job record per run | create, update | kept in step with the queue by separate writes | the record follows the queue |
| Planning (`task_planner.py`, `decomposer.py`, `org_graph.py`) | none | order, split, lint | boundary cases of the algorithms | acyclicity, no missing dependency |
| Event log, transport, contracts, validation | append-only or derived files | append, render, validate | formatting and I/O | — |

The components call each other as follows. `build_run.py` makes a run directory;
`runtime.enqueue_run` puts it on the queue. A worker claims the item, asks the
guardrails, starts `execute_job.py` as a child process while a thread renews the
lease, and settles the item by the child's exit code. `execute_job.py` announces
the run as a hook and makes the first delivery attempt; cron jobs and the
operator's `openclaw wake` make the others. Operator commands approve, reject,
cancel and reclaim queue items while workers are at work.

`requeue` and `unlock` of the queue have no caller in the repository. `unlock` is
modelled as an operator intervention; `requeue` differs from `approve` only in
the text of its history entry.

## 2. Plan

| Order | Module | Composes | Abstract specification | Runs | Theorems |
|---|---|---|---|---|---|
| 1 | `FileQueue` | worker loop, heartbeat thread, operator commands, reclaim, crashes | `JobLifecycle` | `queue_quiet`, `queue_recovery`, `queue_open`, `queue_claim_gap` | type correctness, one file per job, exclusive execution, nothing lost, final states kept, executions within budget, refinement of `JobLifecycle` |
| 2 | `HookDelivery` | executor, dispatch, reconcile, wake | — | `hooks_serial`, `hooks_race` | type correctness, hooks accounted, settled hooks left alone |
| 3 | `TaskBoard` | task claims, wake queue, sessions, session documents, the task's front matter | — | `board` | type correctness, mutual exclusion, one holder, updates kept, documents described, undisturbed tasks |
| 4 | `RunControl` | worker loop, execute_job, agent, stop-task, operator-cancel, control file, operator job, entry of the orchestration state | `JobLifecycle` | `control`, `control_cancel` | type correctness, no agent left, operator job and entry follow the queue, stops win, cancelled only when asked, refinement of `JobLifecycle` |
| 5 | `Guardrails` | worker, direct execution, dashboard, requests, resolve-approval | `JobLifecycle` | `budget` | type correctness, no guarded run unapproved, no second pause, waiters have a request, the budget is held, refinement of `JobLifecycle` |
| 6 | `Orchestration` | orchestrate loop, worker, review batches, review gate, decisions, follow-ups, delegation | — | `orchestrate` | type correctness, dependencies first, one task at a time, flagged runs reviewed, follow-ups kept, no task stranded |
| 7 | `ProjectMemory` | execute_job, orchestrate loop, `claw dream` | — | `dream` | type correctness, memory kept, no run forgotten |

All modules are written without RECURSIVE operators, with one action per file
operation and with the properties as conjunctions of named parts. Where two
modules meet at the same code, one takes it apart and the other has it as a
single step: the queue's moves are split in `FileQueue` and single everywhere else,
`resolve-approval` is split in `Guardrails` and single in `Orchestration`, the entry
of a task in `orchestration_state.json` is in `RunControl`, the rest of that file in
`ProjectMemory`.

That a single step in one module stands for what another takes apart is itself proved
where the two share an abstract specification: `FileQueue` implements `JobLifecycle`, and
`RunControl` and `Guardrails`, which have the queue's moves as single steps, move their items
as `JobLifecycle` says (`FollowsLifecycle` in both). `Orchestration` is not shown to: its
`Claim` and its `Execute` are two moves of that lifecycle each, so that neither is a step of it.

Every safety invariant and action property of the passing runs is a theorem, except for
`NobodyStuck`, which is stated with ENABLED; the liveness properties `EveryJobComesToRest` and
`EveryHookSettles` stay with TLC as well. Next in line: the components listed as partly
modelled.

## 3. The file queue

### `FileQueue`

| State | In the code |
|---|---|
| `disk[path]` | the files under `state/queue/`; a path is a state, a job and 0 for `{job}.json` or a number for `{job}.{time_ns}.json` |
| `disk[path].attempt, .lease` | `queue.attempt_count`, `queue.lease_id` (0: none) |
| `disk[path].stale` | what `_is_stale` would answer: the lease has run out, or there is none and the mtime is too old |
| `disk[path].deferred` | `queue.next_retry_at` lies in the future |
| `disk[path].runnable` | FALSE for the `{"job_id": ...}` stub that `_read_payload` makes up for an unreadable file |
| `op[a]` | where process `a` is inside an operation, with the `ClaimedJob` of a worker |
| `beat[w]` | the payload the heartbeat thread of worker `w` has read and not yet written back |
| `admitted`, `runs`, `grants` | history: accepted jobs, executions started, approvals given |

`_transition_path` is four actions (`TransitionRead`, `TransitionWrite`,
`PickTarget`, `Move`) because another process may act between its read, its
rewrite, the look whether the target name is free, and the rename. `claim` is
`ClaimPick`, `ClaimRename`, `ClaimRead`, `ClaimWrite`; `renew_lease` is
`HeartbeatRead` and `HeartbeatWrite`; `retry` is `RetryFind`, `RetryRead`,
`RetryWrite` and a transition; `enqueue` is `EnqueueStart`, one `EnqueueScan` per
state directory and `EnqueuePut`. `BeginRun`, `PauseRun`, `AbortOnStub`,
`SettleRun`, `FailAndRetry` and `DeadLetter` are the branches of `cmd_worker`.
Time appears as `GrowsStale` and `BackoffElapses`.

Abstractions: `claim` takes the oldest pending item, `ClaimPick` any; the
`FileNotFoundError` of `sorted(..., key=stat)` when a file moves meanwhile ends
the process and is covered by `Crash`; a killed worker takes its agent with it
(in the code the child process may outlive it, see the hazards); the
alternative names `{job}.{time_ns}.json` are numbered instead of stamped; a worker process
whose last heartbeat thread hangs beyond the time-out of its join and which claims all the same
counts as two workers, one with the late write, one with the new claim (nothing tells workers
apart, and `Workers` is any set); histories, error texts
and time stamps other than the verdicts above are left out. Within one actor the
scan of the reclaimer is one `Reclaim` per item.

### `JobLifecycle`

What the queue promises: a job is in one state, moves along the lifecycle edges
in single steps, is claimed by one worker and executed by that worker only.
`FileQueue` implements it (`ImplementsLifecycle`) under the mapping that takes the
set of directories a job is found in for its state. `RunControl` and `Guardrails` are
measured against it too. `Cancel` and `Drop` are not part of the promise: they are what
`operator-cancel` and an approved retry may do to an item beside it, and the two modules
say exactly where (§6 and §7).

### Runs

| Run | Question | Instance | Result |
|---|---|---|---|
| `queue_quiet` | Does the queue keep its promises while nobody reclaims? | 2 jobs, 2 workers, 1 operator, 2 attempts, 1 crash | `TypeOK`, `OneFilePerJob`, `ExclusiveExecution`, `ImplementsLifecycle` hold |
| `queue_recovery` | Do jobs survive the death of their worker? | 2 jobs, 1 worker that reclaims, 1 operator, 1 crash | `RunsWithinBudget`, `ImplementsLifecycle` and `EveryJobComesToRest` hold |
| `queue_open` | What is left when everything is allowed? | 1 job, worker and operator both reclaiming, stalls, cancel, unlock, drop, resubmission | `NoJobLost` and `FinalStatesKept` hold |
| `queue_claim_gap` | Does a reclaim spare workers that are alive? | 1 job, 2 workers, a reclaiming operator | violated: an item between the rename of `claim` and its lease is judged by its mtime in `pending` |

Bounds. `MaxAttempts = 2` gives a first attempt, a retry and a dead letter.
`MaxLeases` bounds claims; 3 to 5 are enough for two attempts of each of two jobs
plus a reclaimed claim. `MaxAlts` bounds alternative file names, which only
collisions make; it is 0 in the runs in which `OneFilePerJob` excludes them (the
model would stop there, and the invariant would be violated first). One crash at
any step covers each window by itself. `MaxCommands` bounds operator commands.
The runs stop when the bounds are used up, hence `CHECK_DEADLOCK FALSE`.

Fairness (`queue_recovery` only). A worker that is in an operation goes on
(`WF` of its steps); an agent ends, because `execute_job.py` enforces a time-out,
and does so at some moment the heartbeat thread sleeps (`SF` of `EndRun`: the
thread sleeps for seconds and writes for milliseconds); a worker reclaims in every
round of its loop when started with `--stale-after-seconds` (`WF` of `Reclaim`);
time passes. Operators are not fair: nobody has to approve anything. Coming to
rest therefore includes waiting for approval, and includes `failed` with attempts
left, where a worker killed between `fail` and `retry` leaves its job.

### Proofs

`FileQueueProofs` proves `TypeCorrect` (`Spec => []TypeOK`) for all values of the
constants that satisfy `QueueAssumption` and `SentinelAssumption` (the model values
that stand for "none" are not files, paths or renewals). There is one lemma per
action group; `TypeOK` is strengthened by `LocalTyped` — the path, destination and
payload in a process's hands are present when its program counter says it needs
them — to be inductive.

It proves `OneFile` (`OneFilePerJob`) and `Exclusion`
(`ExclusiveExecution`) under `Undisturbed`: no interventions, no stalls, at most
one operator process, and a process that reclaims is the only worker. These are
the conditions of `queue_quiet` and `queue_recovery` without their bounds; the
violated run shows what happens without them. Neither property is inductive. The
invariant `IInv` adds:

- `OneOwner`: two processes inside an operation on an existing item never work on
  the same job;
- `InTransition`, `Held`, `Moving`: the file a process has in its hands lies where
  its program counter says, and the target of a pending move is free;
- `BeatInHand`: a renewal in flight is for the file its worker is executing, so
  that writing it back cannot create a file;
- `WorkerLocal`, `OperatorLocal`: which operations workers and operators can be in;
- `FilesAdmitted`: every file belongs to an accepted job, so that an enqueue of a
  job not yet accepted finds none.

Each action is shown to preserve it, by way of a few lemmas about the effect of
a step on the disk (`FileStep`, `LastFileStep`) and on one process (`LocalStep`,
`EndStep`). Nothing bounds the number of jobs, workers, crashes, claims or
commands.

`FileQueuePromises` proves the rest of the queue's safety.

- `NothingLost` (`NoJobLost`) and `FinalKept` (`FinalStatesKept`) hold without
  `Undisturbed`: processes may crash, stall, reclaim each other's items, cancel,
  drop and submit again, and two files of one job may collide. The invariant
  `Placed` says that a process only ever takes an item from `pending`, `running`,
  `failed` or `awaiting_approval` and moves it under the name of its job, so that a
  step that removes a file creates another of the same job (`JobsKept`): a rename
  over a file needs that file to be of the same job.
- `Budget` (`RunsWithinBudget`) holds under `Undisturbed`. The invariant `BInv` adds
  to `IInv` what ties the count to the disk: `FileBudget` (the attempt in a file is no
  less than the executions started, no more than the budget, and less than it
  in `pending`), `HandBudget` (a payload in memory carries the attempt on disk, and
  whoever leads an item back to `pending` has an attempt left) and `BeatBudget`
  (a renewal in flight writes the attempt that is there).
- `Implements` (`ImplementsLifecycle`) is the refinement of `JobLifecycle`, also under
  `Undisturbed`. `Where`, `Claimants` and `Executors` are the abstract state. The
  rename of a claim is `Claim`, `BeginRun` is `Start`, the last step of a worker with a
  job, a crash included, is `Release`, the rename of a transition is `Settle`,
  `Retry` or `Decide` by the directory it leaves, the write of an enqueue is
  `Submit`, and every other step is a stutter. `Aim` is the invariant needed beyond
  `IInv`: which directory an operation leads to from the one it found its item in.

Only model-checked: `EveryJobComesToRest`, since liveness under fairness is out of the
prover's reach, and `ReclaimSparesTheLiving`.

## 4. Hook delivery

### `HookDelivery`

| State | In the code |
|---|---|
| `hooks[slot]` | the files `state/hooks/{pending,sent,failed}/{hook_id}.json`; of the payload `delivery_attempts`, the `dead_letter` mark, whether it is the real payload or the empty one that `read_json` returns for a missing file, and whether `is_stale_pending_hook` finds it old enough |
| `result[run]` | `result.json`: is it final, and which hook state does it note |
| `proc[a]` | an `execute_job.py`, `dispatch_hooks.py`, `reconcile_hooks.py` or `openclaw wake` process |
| `announced`, `calls`, `accepted` | history: what was announced, how often the listener was called since, whether it took the hook |

`write_hook_payload` is `Store` and one `Sweep` per other state; the test for
existence and the unlink of one file are one step. `dispatch_hook_file` is `Open`
(the read), `Call` (the listener: success, or failure or time-out after which it
may have taken the hook all the same), `Store`, `Sweep`, `PersistRead`,
`PersistWrite`. `HookFails` is the error that `execute_job.py` catches around all that, after
which `FinishHookless` writes a result without a hook; it counts as a fault under `MaxCrashes`.
A session lists the directories in one step (`Begin`), a reconciliation then leaves out what is
not old enough (`Judge`), and either visits the hooks in any order within a state. Sessions may run with or without a
configured listener command; without one, `wake` marks hooks as sent through
`deliver_hook_via_callback_bridge` and the others rewrite them where they are.

### Runs

| Run | Question | Instance | Result |
|---|---|---|---|
| `hooks_serial` | Does delivery work when processes do not overlap, crashes included? | 2 runs, 2 executions (two runs, or one and its retry), 2 tries, 1 crash, one `dispatch` or `wake` session and any number of reconciliations | `TypeOK`, `HooksAccounted`, `SettledLeftAlone`, `EveryHookSettles` hold |
| `hooks_race` | Does a hook survive two processes at once? | 1 run, an executor and two senders, no crash | violated: each removes the other's file |

`HooksAccounted` is the conjunction of `UndeliveredKept` (an announcement that was not
accepted lies among the pending or the failed), `PayloadComplete` (a hook on disk is
not the empty payload of a file that was gone, unless a process was killed: the
second copy that a kill leaves is visited after it has been removed), `RetriesBounded`
and `ResultAgrees` (between sessions the state noted in `result.json` is the directory the
hook lies in, unless a process was killed). `SettledLeftAlone`: no session but `wake`, which
visits dead letters on purpose, calls the listener for a hook on record as sent or dead.

Not covered by any property: a session that has read `result.json` while the run is being
executed writes that older result back after `execute_job.py` has written the final one
(`hooklib.py:293`). It takes an overlap, nothing in the code prevents it, and under `Serial`
there is nothing to check.

`Serial` stands for a deployment in which cron jobs and workers do not overlap;
the code does not enforce it, and `hooks_race` shows what it costs. `calls` does
not count what an operator asks for with `wake`, which visits dead letters too.
`RetriesBounded` grants one more round of attempts per crash, because a process
killed after the listener ran and before the payload was stored loses the count.
Fairness: a started process goes on, an agent ends, reconciliation comes round
again (a cron job, `SF` of `Begin`), time passes.

### Proofs

`HookDeliveryProofs` proves `TypeCorrect` (`TypeOK`) however the processes interleave
and, for processes that take turns (`ASSUME Serial`, the assumption under which the
properties are claimed at all), `Accounted` (`HooksAccounted`) and `SettledStays`
(`SettledLeftAlone`), for any numbers of runs, processes, attempts, executions,
sessions and crashes. `HookAssumption` asks for a positive number of attempts, for
executors and senders that are not the same and for one process at least.

The properties are not inductive: they speak of the files, and a step is explained by
what the process that takes it has in memory. `HInv` therefore says that some process
is the only one that may be at work and describes the state by it (`Work`):

- `Shape`: which steps a kind of process can be at, and that no copy it has yet to
  remove is the one it has just written;
- `Filed`: what has been stored is there, beside it only what is yet to be removed, and
  what is being stored as sent has been accepted. This carries `UndeliveredKept`: each
  removal leaves a pending or failed file, or an accepted announcement;
- `Noted`: an executor's run has a provisional result, and the `result.json` in memory is
  the one on disk, so that writing it back takes nothing away;
- `Unharmed`, until the first crash: one copy of a hook unless it is being stored, and
  of a listing no file has gone, because a listing has one file per run;
- `Tried`, `CallCount`, `StoreCount`, `TodoCount`: the calls made are on record in the
  `delivery_attempts` of the files, but for `MaxTries` per crash (`Spent`). The bound
  survives a crash between the two writes because of two copies the pending one lacks
  a whole round (`calls + MaxTries <= Spent + 1`): the session that reads the stale
  count of 0 starts a round that the crash has already paid for.

Each action has a lemma of the form "`Work` of the process before gives `Work` of the
process after" (`WorkStore`, `WorkSweep`, `WorkCall`, `WorkVisit`, ...); `Onward` and
`TakesTurn` put them together. `EveryHookSettles` (liveness) stays with TLC.

## 5. The task board

### `TaskBoard`

| State | In the code |
|---|---|
| `claims[task]` | `state/claims/{task}.json`: `status` and `owner` |
| `wakes[agent, task]` | `coalesced_count` of the pending wake of the scope, 0 without a file |
| `sessions[agent, task]` | the session file: `session_id`, number of rotations, whether there is a resume handle |
| `docs[task]`, `manifests[task]` | the versions of the shared documents, and those `manifest.json` describes |
| `board[task]` | the front matter of `tasks/{task}.md`: its `status`, and whether the rest of it is there |
| `locks` | the lock directories of the four stores |
| `proc[p]` | an invocation of `claw task-claim`, `task-release`, `mark-done`, `wake-enqueue` or `continue`, `session-update`, `session-reset`, `session-rotate`, `session-file-put` |
| `holders`, `due`, `enqueued`, `issued`, `forgotten`, `undescribed`, `disturbed` | history, for the properties |

A store operation is `Acquire`, a read, a write and `Release`; `TimeOut` may fire
whenever the directory is there, because nothing tells how long the holder takes,
and ends the command, except that `cmd_task_claim` swallows the exception of its
wake. `AfterStore` is the sequence of a command: claim, front matter, wake,
session; or release, `Check`, front matter. The front matter is read (`FrontRead`),
truncated (`FrontOpen`) and written (`FrontWrite`): `write_front_matter` uses
`Path.write_text`, and a reader in between sees an empty file (`Empty`), which
counts as `todo`. `mark-done` writes twice, the second time through
`persist_task_lifecycle`, which keeps the status it has read. The JSON files of the
stores are replaced by `os.replace` and are written in one step.

A process may be killed anywhere (`Kill`): its lock directory stays. Or an operation
inside a store raises an exception (`Fail`: a full disk, a file that does not parse):
it is not made, the `finally` clause gives the lock back, and the command ends, but for
`cmd_task_claim` and its wake. A put that is cut off either way between `put_file` and
`_write_payload` leaves its document `undescribed` until the next put of the same
document. An exception outside the stores ends the command without touching a lock and
is a `Kill` as well.

Abstractions: reasons, notes, histories and time stamps; `--no-wake` is the outcome
`quiet`; the refusals of `mark-done` (review required, review gate) are a
nondeterministic end; interrupting a process from the keyboard is a `Fail` or a `Kill`;
`load_session`, `list_claims`, `inbox` and the unlocked `fetch_document` only read.
The orchestration state that `persist_task_lifecycle` also rewrites is in `RunControl`
and `ProjectMemory`, the creation of follow-up and delegated tasks in `Orchestration`.

### Runs

| Run | Question | Instance | Result |
|---|---|---|---|
| `board` | Do the stores keep their promises, whoever is killed? | 2 agents, 1 task, 2 documents, 2 processes, 3 commands of any kind, 1 kill or exception | `TypeOK`, `MutualExclusion`, `HoldersAgree`, `UpdatesKept`, `DocsDescribed`, `UndisturbedTask`, `NobodyStuck` hold |

`UpdatesKept` is the conjunction of `WakesCounted` (no coalesced wake is lost),
`SessionNotForked` (another session id comes about by rotation only) and
`ResetForgets` (no slower update brings back the resume handle a reset has removed).

Bounds. The scopes do not interact except through the task's claim, front matter
and documents, so that one task and two agents make every conflict there is. Three
commands are the least with which a release meets a claim that has followed it, or
a reset an update; two processes overlap, the third command starts when one of
them has ended or was killed. Two documents are the least with which a put of one could
undo the description of the other. Agents, processes and documents are symmetric.

`DocsDescribed` names, document by document, the cases in which the manifest does not
describe it: the process that put it is about to write the manifest, or was cut off
before it did. Nothing repairs a cut-off put until the same document is put again, and
nobody holds the lock meanwhile: `fetch_document` then hands out the new file with the
old entry of the manifest, or with none.

`UndisturbedTask` is about tasks that one command at a time has dealt with, none of
them killed or failed (`disturbed` collects the others): this is how the front matter, which
has no lock, has to be used. `NobodyStuck` stands in for
termination: no command loops, so that each ends if it can always go on, which the
lock of a killed process does not prevent, thanks to the time-out. Processes stop
when the commands are used up, hence `CHECK_DEADLOCK FALSE`.

### Proofs

`TaskBoardProofs` proves `TypeCorrect` (`TypeOK`), `Exclusion` (`MutualExclusion`),
`HoldersRight` (`HoldersAgree`), `NoUpdateLost` (`UpdatesKept`), `ManifestRight`
(`DocsDescribed`) and `UndisturbedRight` (`UndisturbedTask`) as theorems of `Spec` for all values of the
constants that satisfy `BoardAssumption` and `NoneAssumption`. The invariants:

- `TInv` adds to `TypeOK` which command is where (`ControlTyped`: which stores it
  enters, whose it is) and what it has in memory when it writes (`MemoryTyped`);
- `LInv` adds to mutual exclusion that whoever is inside a store has its lock
  (`LockHeld`); a lock that a killed process left only makes the set larger;
- `CInv` adds to `HoldersAgree` that what a process has read of a claim still holds
  when it writes it (`StillSo`): another writer would have to be inside the same
  store, which `MutualExclusion` excludes (`WriterAlone`);
- `UInv` says the same of what was read of a wake (`WakeStillSo`) and of a session
  (`SessionStillSo`), beside the three parts of `UpdatesKept`: a count is written
  from the file it replaces, a cleared handle is read as cleared;
- `DInv` adds to `DocsDescribed` that what a process has read of a manifest is still
  there when it writes it (`PuttersKnow`), for the lock of a task's documents keeps the
  others out (`Excluded`); a kill or an exception moves the document that was put and
  not described into `undescribed`;
- `BInv` says of every task without a disturbance that either no process is at it
  and the front matter, the claim and the wakes are as they should be (`Quiet`,
  `Settled`), or exactly one is (`AtWork`). Of that one, `OwnLock` says that it
  holds the locks of the stores it is inside, `WakesOwed` which wake is still to
  come, and `FrontKept` how the file differs from what the claim calls for at each
  of its steps. A command that begins on a task with another under way disturbs
  it, and so does a kill or an exception; no other action leaves this invariant's premise.

Only model-checked: `NobodyStuck`, which is stated with ENABLED.

## 6. Run control

### `RunControl`

One job between its claim and its settlement, and what stops it.

| State | In the code |
|---|---|
| `queue`, `attempt` | the directory of the job's item, the executions begun |
| `control` | `task_control.json`: the agent it names, `stop.requested`, `stop.outcome` |
| `result` | `status` and `stop.outcome` of `result.json` and `meta.json` |
| `entry` | the entry of the task in `orchestration_state.json`: `status`, `notified`, `stop` |
| `record` | `status` of the operator job, `cancelling` for `running` with that phase |
| `checkpoint` | `approval_checkpoint.json`: absent, pending, or its decision |
| `agent[a]` | the process group of the agent of execution `a`: its leader, its helper (none, sharing its output, or detached from it), the exit code |
| `work[w]` | a `claw worker` with the `execute_job.py` it waits for, and what it has loaded |
| `stop[s]` | a `claw stop-task` or `claw operator-cancel`, and what it has loaded |
| `asked`, `signalled`, `accepted`, `overlap` | history, for the properties |

`cmd_worker` is `Claim`, `Feed` and `Put` (`sync_operator_job_record`, called three
times), `Begin` (guardrails), `Load` and `Save` (`persist_task_lifecycle`, after
the start and after the end), `Pause`, `Judge` (the run is read back) and `Settle`.
`execute_job.py` is `Initialize`, or `Refuse` when it ends before that because the
prompt, the agent or the workspace is missing (it then leaves the result and the control
file of the execution before where they are), `Spawn`, `RecordRead` and `RecordWrite`
(`record_agent_process`), `Reap` or `Expire`, `Drain`, `Check`, `EndRead`,
`EndWrite` and `Reread` (`finalize_stop_state` and the result); `RecordFails` is its
safety net. `stop_runtime_task` is `Look`, `MarkRead`, `MarkWrite`, `Signal`,
`FinRead`, `FinWrite`, `Reload`, `SyncRead`, `SyncWrite`; `operator-cancel` adds
`Where` before it and `Update` after it, or `Withdraw`, `VoidLoad`, `VoidSave`,
`VoidPut` for a job that is not running. The control file and the entry are
loaded and replaced without a lock, in two actions each. `AgentStep`
is the agent: it asks for an approval, starts a helper, exits with any code, and answers
SIGTERM as it likes. A helper inherits the output of its agent, or has it redirected
(`nohup ... >file &`); one that has inherited it may give it up later, and the thread that
reads the output may fail, which comes to the same.

Abstractions: the queue's moves are single steps (`FileQueue` takes them apart); the
live status feed is read in one step; the operator job is updated under its lock, in
one step; the mirror of the entry in the task's front matter, the approval request
of a paused run and the run's events are left out; process group numbers are not
reused; `execute_job.py` writes `running` into the result and resets the control
file in one step; the helpers of one agent are either gone, or all detached, or one of
them shares the output; those of a lost agent end with it.

### Runs

| Run | Question | Instance | Result |
|---|---|---|---|
| `control` | Does a stop do what it says, and do the records follow? | 1 worker, 1 stop or cancel at any step, 2 executions of a job with 2 attempts, local or remote, one agent at a time with a helper | `RecordAgrees`, `EntryAgrees`, `NoAgentLeft`, `StopWins`, `CancelledWhenAsked`, `FollowsLifecycle` hold |
| `control_cancel` | Does an accepted cancel of a running job land? | the same, without helpers | violated: the reset of the control file at the start of a retry wipes it |

Bounds. Two executions are the least in which a stop, a checkpoint decision or a
result of one execution can be mistaken for one of the next. One stop is enough for
each window between a load and a replacement. Two workers never hold the same job
(`ItemFollows`, for any number of them), so one is instantiated. The runs end when the executions are used
up, or wait for an approval nobody has to give: `CHECK_DEADLOCK FALSE`.

`RecordAgrees`, `EntryAgrees`, `StopWins` and `CancelledWhenAsked` are about
histories in which no command ran while a worker was at the files (`~overlap`); a
command during the long wait for the agent does not count as overlap, and that is
when stops are normally given. With overlap the code gives no such guarantee, since
every writer replaces the file by what it read before; the hazards say which
update is lost where, and `control_cancel` shows one case. `NoAgentLeft` needs
no such condition. It is about agents and the processes that share their output, and it
names the two kinds of process that do outlive a settled job and may be at work beside
the next execution: an agent that runs on after an error between its start and the wait
for it (`lost`), and a helper that is `detached` from the output. `execute_job.py` waits
for the end of the output and not for the process group, kills only the leader on a
timeout (line 302), and never kills the group; only a `stop-task --force` that still finds
the group does. `FollowsLifecycle` needs no condition either:
commands that overlap a worker replace what it writes, but the item of a running job is
moved by its worker only. `TypeOK` is a theorem and not part of the run.

No liveness is claimed: the readers of the agent's output are joined without a
time-out (`Drain`), and the prompt is written to its input before the time-out starts
to count (execute_job.py:283-295), so that a helper which keeps the output open, or an
agent that does not read a long prompt, can hold up an execution for as long as they
live.

### Proofs

`RunControlProofs` proves `TypeOK` and all six properties of `control` for any numbers of workers,
commands, attempts and executions, with commands overlapping workers as they like; the
only assumption on `None` is that it is neither a control file, nor an entry, nor one of
the named outcomes of a stop (`NoneAssumption`).

`TypeCorrect` is `Spec => []TypeOK`. `TypeOK` is not inductive: an action copies
what a worker or a command has in hand into a file. `TInv` adds what they have in
hand when they are about to use it (`WorkerGood`, `StopperGood`) and that whoever
works on an execution finds a control file (`Prepared`).

`AgentsConfined` is `Spec => []NoAgentLeft`, from `TInv /\ OInv`. `OInv` has four parts:

- `Phased`: what a worker is at agrees with what it last wrote of the run;
- `OneOwner`: the queue says `running` while a worker owns the run, and one does at most;
- `AgentPlaced`: a live agent is that of the current execution, and some worker is at it;
- `AgentEnds`: behind the wait the leader has ended, behind `Drain` no helper shares
  its output, except for an agent marked `lost`.

A worker's step moves its agent along or keeps it; everything commands and agents do
to agents only brings them nearer to their end (`Fades`, `AgentsFade`). That is why
no condition on overlap is needed: commands send signals and replace files, but
start no agent.

`RecordFollows` (`RecordAgrees`), `EntryFollows` (`EntryAgrees`), `StopHeeded` (`StopWins`)
and `CancelEarned` (`CancelledWhenAsked`) come from a third invariant, `RInv`: as long as
nothing has overlapped, `Followed` holds. TLC has checked it, on `control` and, up to the
first overlap, with two workers, two commands and three executions. `Followed` says

- that nothing overlaps now (`~Overlapping`): whoever is at the files has them alone;
- of a worker that has the item (`OwnerKnows`), which status it carries to the file it
  writes next, that the control file it writes back is the one on disk, that a signal has
  left `requested` in the control file until `EndWrite` turns it into `killed` there and
  `Reread` in the result, and that neither is there without a stop of this execution;
- of one that has let the item go (`PartedKnows`), that what it is about to write is
  what `StatusOf` and `RecordOf` say of the item, and that the verdict on the run, which
  the feed computes once more from the files, is still the one that sent the item there
  (`VerdictFits`);
- of a command (`StopperKnows`), that the item is running when it is about to write
  `cancelling`, in `failed` while it voids the job, and that the entry it replaces has the
  status it has read;
- that both records are right whenever no worker is at the files and no command is
  between the withdrawal of the item and `VoidPut` (`Calm`).

`Followed` is not inductive alone: `Refuse` leaves the result and the control file of the
execution before as the verdict on this one. `UInv` adds that, as long as nothing has
overlapped, an item that is still to be executed has no result that succeeded and no file
that says requested or killed (`Unmarred`): a run whose files do is not retried, and a
command that finds the item waiting copies the outcome it has read or writes another one
(`KeepsOut`).

`WorkerFrame` and `StopperFrame` say what one step has to show: since it is alone, only
about the one that takes it and about workers that wait for their agent, of whom
`Heeded` is all that a command can touch. The two action properties follow because an item
leaves running by `Pause` and `Settle` only (`LeavesRunning`), and what the worker knows at
that point decides where it goes (`VerdictsRight`).

`ItemFollows` (`FollowsLifecycle`) is the refinement of `JobLifecycle`, with any number of
workers and commands, overlapping or not. A worker that has claimed the item and has not
started `execute_job.py` is the claimant (`Preparing`), one between `Initialize` and the exit of
`execute_job.py` the executor (`InExecuteJob`). The steps map as follows:

| Step | Lifecycle |
|---|---|
| `Claim` | `Claim` |
| `Put`, when it leads to the worker's start of `execute_job.py` | `Start` |
| `Begin`, when the guardrails pause the run; the end of the execution | `Release` |
| `Pause`, `Settle` | `Settle` |
| `Approve`, and `Resolve` of a checkpoint | `Decide` |
| `Withdraw` | `Cancel` of a pending item, `Decide` of one that awaits approval |
| all others | stutter |

The invariant is `OInv`: the abstract sets have one member because of `OneOwner`, and a
worker that settles its item leaves nobody behind with it.

## 7. Approvals and the budget

### `Guardrails`

| State | In the code |
|---|---|
| `asks` | what the task of a run asks for: agent, workspace mode, risk flags, paths; constant in a behaviour |
| `queue`, `attempts` | the state of the run's item and its `attempt_count`; `stub` is the item that `_read_payload` makes up when a transition meets a dropped file |
| `used` | runs whose directory has been built |
| `snap` | `guardrail_snapshot.json` of a run: decision, estimated and consumed units, whether an override applied |
| `total` | `consumed_units` of the project's `budget_snapshot.json` |
| `pending`, `resolved` | `state/approvals/pending` and `resolved` |
| `task` | the status in the front matter of the task |
| `proc` | a `claw worker`, `run --execute`, `ask-human`, `resolve-approval` or dashboard, with what it has in hand |
| `granted`, `crowded`, `disturbed` | history: approvals recorded; executions or refreshes that overlapped; runs that were resolved while somebody worked on them, or whose process was killed |

`preflight_guardrails` is `Collect`, `Publish` (`refresh_guardrail_snapshot`: the
snapshots are summed up, the sum is put into the budget snapshot), `Load` (the
budget snapshot is read back) and `Evaluate`, and after it a second `Collect` and
`Publish`. `pause_run_for_guardrail` is `Mark`, `Scan` and `Create`, followed by `Park`
in a worker. `Execute` is the agent with the charge of `finalize_guardrails`, followed
by a third refresh and `Settle`. `resolve-approval` is `Resolve`, then the effects of the
decision on queue and task (`Drop`, `Release`, `Status`), then `Record` and `Unlink`.
`Claim`, `Direct`, `Enqueue`, `Dashboard`, `AskHuman`, `ApproveItem` and `Reclaim` are the
commands around them.

Abstractions: the queue moves in single steps; a request of a guardrail for a given
run has the same reasons each time, since the policy is constant, while a person may
give any; the request ids are numbers; the texts of reasons and the event log are
left out. `guardrail-check` with `guardrails.py` judges the text of a diff, changes no
state and is not modelled.

### Run

| Run | Question | Instance | Result |
|---|---|---|---|
| `budget` | Does nothing guarded or too dear run unapproved, and can what waits be approved? | 2 runs, 1 worker, 1 operator process, 2 attempts, 2 requests, 2 commands, 1 crash, hard limit 3 | `GovernedRunsApproved`, `BudgetHeld`, `WaitingHasRequest`, `NotPausedAgain`, `FollowsLifecycle` hold |

Bounds. One run costs 1 unit; the other 2 (the budget stops it once the first is
charged) or 3 with a governed flag (the governance rules stop it in any case). Two
attempts let a charged run come back, two requests let a request of a person stand
next to that of the guardrail, or two runs wait at once. A person may ask to retry the
first run, which has an effect on the queue, and to accept the second, which has one on the
task; `follow_up` has none. An exit code 2 is a pause or, when no checkpoint is pending any
more, an error, and charged in either case. One crash covers each window by itself. The
behaviours end when the bounds are used up, hence `CHECK_DEADLOCK FALSE`.

Exceptions. `BudgetHeld` assumes that executions and refreshes come one at a time
(`~crowded`): between `Load` and the charge nothing is reserved, so two workers can
each find room for the same units. `WaitingHasRequest` and `NotPausedAgain` are about
runs that are not `disturbed`. `GovernedRunsApproved` needs neither. `FollowsLifecycle` is about
runs that are not `disturbed`, and about the others for as long as the worker that has the
item has it alone and finds it running (`Intact`); the one step that may end this is the
`Drop` of an approved retry under a worker, after which the worker's settling brings the item
back as a stub. `TypeOK` is a theorem and not part of the run.

### Proofs

`GuardrailsProofs` proves `TypeOK` (`TypeCorrect`) and all five properties of the run `budget`:
`ItemsFollow` (`FollowsLifecycle`), `GovernedApproved` (`GovernedRunsApproved`), `NeverPausedAgain` (`NotPausedAgain`),
`WaitersHaveRequest` (`WaitingHasRequest`) and `BudgetIsHeld` (`BudgetHeld`), for any
policy, any numbers of runs, workers, operators, requests and commands, and whichever
processes are killed. It assumes of the policy what `PolicyAssumption` says (costs and limits are
natural numbers, a task has finitely many flags) and that one request can be made at
least.

None of the properties is inductive. The invariant is built in layers, each of which was
an invariant of a run of TLC first:

| Layer | What it adds | Why it is needed |
|---|---|---|
| `TInv` | `Shape`: command, run, request and status a process has in hand fit the step it is at; whoever is `Cleared` to start an agent has a snapshot; finitely many units are charged | these go into files, and into sums |
| `GInv` | an approval on file for a guardrail's request was granted; who is `Cleared` for a governed run has it granted | a process that has evaluated its run still refreshes the budget before it starts the agent |
| `LInv` | items, processes and requests are about runs that were built; the number of a request has been given out | a new request is not one that was resolved before, and `run --execute` meets nobody on its new run |
| `NInv` | for a run that is not `disturbed`: one process executes or resolves it (`Alone`); what is being resolved is pending, and was not resolved before unless it is about to be unlinked (`ResolvedOnce`); a granted run has its override on file and nobody about to pause it (`Granted`) | `Record` replaces an earlier resolution of the same request: a second one could take the approval back |
| `WInv` | a task that waits has its request pending, or a process about to make one; nobody who has written the status of a waiting task is still to unlink a request to run it | `Mark` comes before `Create`, `Status` before `Unlink` |
| `BInv` | until executions overlap: one process counts; what it has read of sum and snapshots is so (`Reads`); an agent about to start has room for its units (`Room`) | the decision is taken five steps before the charge |
| `PInv`, `JInv` | only a worker executes on behalf of the queue; of a run that is not `disturbed`, one worker at most has the item, and it is running (`Intact`) | `Reclaim` and `Settle` move an item on the word of the directory alone, or of the worker alone |

`StepMoves` says once for all steps how they move a process: nobody but `Evaluate` brings
a process closer to an agent or a pause. `GovernedStopped` and `RoomLeft` are what is needed of
`Evaluation`. A sum is the number of its units, counted one by one (`Sum`), so that the
theorems about finite sets apply; the lemma `SumChanges` bounds it when one run is added
or charged anew.

`ItemsFollow` is the refinement, run by run. A worker from its claim to the end of `Evaluate` and
of the refresh after it is the claimant (`Preparing`), one at `Execute` the executor; a dropped
item and a stub count as no item. The lemmas `LifeSubmits`, `LifeClaims`, `LifeStarts` and
their like say what change of item, claimants and executors is which step of `JobLifecycle`;
each action group has one lemma that shows its steps to be one of these, or a stutter, and to
keep the run intact (`Follows`). `run --execute` runs an agent without an item and is no
executor here: `PInv` keeps the two apart.

## 8. Orchestration and reviews

### `Orchestration`

| State | In the code |
|---|---|
| `gate` | is `review_gate` enabled and blocking |
| `task[t]` | a task file: status, dependencies, files its spec mentions, rank, flagged for review, the run a follow-up comes from |
| `run[r]` | a run directory with its job: task, state and attempts on the queue, result, flags copied from the task |
| `batch[b]`, `stubs`, `cadence` | review manifests, `reviews/decisions`, `successful_since_last_batch` |
| `approvals` | pending requests about runs |
| `proc[p]` | an orchestrate loop (with the worker it waits for), a `worker --once`, or another command |
| `accepted`, `crowded`, `unbatched`, `again`, `forced`, `overwritten`, `left` | history, for the properties |

The loop is `Look` (dashboard and `select_ready_tasks`), `EndsEarly`, `Start`, `Build` or
`BuildFails`; its worker is `Claim` or `NothingToDo`, then `Execute`, `Pause` at a checkpoint
or `Guarded` (`pause_run_for_guardrail`), then `SkipReview` (`--skip-review`, or no policy) or
`Trigger` (`maybe_trigger_review`), `BatchNumber`, `Manifest`, `DecisionStubs` for each batch,
`SaveCadence`, any of which `ReviewFails` may break off with the error swallowed, and `Review`; then `EvaluateFailed`, `EvaluateWaits`, `EvaluateReviewed` or
`EvaluateUnreviewed` (`evaluate_run_decision`), `TaskNumber`, `WriteTask`,
`QueueFollowUp` for a follow-up, and `Accept`. `Delegate`, `Enqueue`, `ReviewGate`,
`MarkDone`, `Decide`, `AskHuman`, the outcomes of `resolve-approval` (`Retry`, `AcceptAsked`,
`Admit`, `Block`, `Dismiss`), of `approve` and `resolve-checkpoint` (`Release`, `Reject`) and
`Reclaim` are what people do; `Orphan` and
`Crash` kill a process, the first leaving the loop's worker behind.

Abstractions: the order of tasks by `rank` stands for priority, status and id;
dashboard and selection are one step, settlement and result are one, the stubs of a
batch are written in one, or some of them and an error; of several decided stubs any may have
the latest date; the failure counter of the loop only changes the status it reports; whether a
checkpoint was left is not kept, so that `Reject` may meet any item that awaits approval; a run
that is cancelled or killed is not executed here (see §6); texts of specs and reviews are left out.

### Run

| Run | Question | Instance | Result |
|---|---|---|---|
| `orchestrate` | Are tasks done in order, one at a time, reviewed, and finished? | 2 processes of any kind; boards with a dependency and a flag, with shared files and the review gate, with a cycle; 3 tasks, 2 runs, 2 batches, 2 commands, 2 steps, 2 attempts, cadence 2, 1 kill | `TypeOK`, `DependenciesFirst`, `OneTaskAtATime`, `FlaggedReviewed`, `FollowUpKept`, `NoTaskStranded` hold |

Bounds. Two loops, or a loop and another command, are what can get in each other's
way. A third task is the follow-up or the delegated one. Two runs of a cadence of two
make a periodic batch, or a run and its retry, or a run and its follow-up. `MaxCommands` counts
commands begun, stubs a person fills in, requests and tasks marked done. The gate is
combined with the board whose tasks are not flagged, because a flagged run gets a
batch in any case. The processes are symmetric; the behaviours end when the bounds are
used up, hence `CHECK_DEADLOCK FALSE`.

Exceptions, each named by a history variable. `crowded`: the batches of two writers
crossed. `unbatched`: the runs a worker made no batch for where it should have, because of
`--skip-review`, a policy that could not be loaded or an error that `maybe_trigger_review`
swallows (`claw.py:3010`), and those in a manifest whose stubs were not all written; the loop
accepts these as not needing review, and `FlaggedReviewed` says that it accepts no other
flagged run so: what fails for one run costs no run of another batch its review. `again`: runs whose job
had been dropped when a request to run them was approved, so that they are executed anew.
`forced`: a person enqueued or reopened the task, two
loops selected at the same moment, or a loop wrote a status over that of a task that was
done (`Reopened`). `overwritten`: two new tasks took the same
number. `left`: a build that failed, a kill, a worker outside the loop, a review nobody
waits for, a request that was dismissed, a checkpoint that was rejected (`claw.py:3826`: the
item goes to `failed`, and neither the task nor a person hears of it), a job of which only the
id is left; all of these leave a task `in_progress` or `awaiting_approval` until
a person looks at it, and `NoTaskStranded` says that the steps of the model know no others. The dependency of a
follow-up on the task it follows counts as satisfied when the run of that task has
succeeded: the code builds the follow-up first and accepts the run afterwards.

### Proofs

`OrchestrationProofs` proves all six properties of the run for any projects, processes,
tasks, runs, batches, commands and kills: `TypeCorrect` (`TypeOK`), `DependenciesComeFirst`
(`DependenciesFirst`), `Single` (`OneTaskAtATime`), `FollowUpsAreKept` (`FollowUpKept`),
`FlaggedAreReviewed` (`FlaggedReviewed`) and `NobodyIsStranded` (`NoTaskStranded`).
`ProjectAssumption` says of the boards that none of their tasks is a follow-up or marked
as being worked on when the first process starts.

None of the properties is inductive, because each is made true by a step long before the
one it speaks of. The invariant is built in layers; a layer is preserved by every step
as long as the layers below it hold, and each was an invariant of a run of TLC first:

| Layer | What it adds | Why it is needed |
|---|---|---|
| `TInv` | `Shape`: the run and the task a process has in hand fit the step it is at; `Referring`: runs are numbered without gaps and nothing refers to a run or a task that is not there | a step writes through these references |
| `RInv` | a run that is not in `again` is executed by one process, and after its success one process is through with it; one that succeeded is never on the queue again | accepting and following up would happen twice, and a later failure could take a success back |
| `GInv` | the task of a run in `again` is `forced` (`ForcedAgain`) | what is said of the others need not be said of these |
| `DInv` | the dependencies are satisfied from the choice (`Building`) to the end of the run | between the choice and the agent lie an enqueue, retries and a pause |
| `OInv` | of the unforced runs on the queue and the unforced choices that are to become runs there is one | the loop looks at the queue before it marks the task, and enqueues afterwards |
| `FInv` | until writers cross: one process writes batches; a run in a manifest has a stub, is about to get one or is `unbatched`; a flagged run that is past `Trigger` is `UnderReview` or `unbatched` | the decision reads the stubs, which `Trigger` has only promised |
| `UInv` | a follow-up's source has succeeded, and the process that holds that run knows of it | the acceptance comes two enqueues after the task was written |
| `SInv` | whoever `Minds` a task has steps before it that settle the task or put it into `left` | a task changes hands between loop, queue, worker and person |

Each layer has a lemma for the steps that only move one process (`RMoves`, `DMoves`,
`UMoves`, `FMoves`, `SMoves`), and the steps that write go through those about a task
that gets another status and a job that moves (`JobMoves`, `Rejob`). `Least`, the least
member of a set of numbers, is how the free run number and the first task of the
smallest rank are found. `Chunks` ranks the runs of a batch by their cardinality, so that these facts
follow from those about finite sets.

Two things came out of the proof. A loop writes `in_progress`, `queued` or `todo` over
whatever status it finds (`update_task_status`), also over that of a task somebody has
marked done since the loop looked; what depends on that task has lost its reason to run.
`Reopened` collects these tasks in `forced`. And the boards TLC starts from satisfy what
the properties need of them only because nobody is at work yet, which
`ProjectAssumption` now says.

## 9. Project memory

### `ProjectMemory`

| State | In the code |
|---|---|
| `state` | the dream record of `orchestration_state.json`: `last_completed_at`, and whether there is a `last_checked_at`; what else the file holds is saved together with it |
| `clock`, `stamp`, `finished` | the second that `utc_now` shows, the one a run took as its `finished_at`, the runs whose `result.json` has it |
| `notes`, `indexed`, `index` | `knowledge/runs/*.md` and `project_memory.md`, whether there is a `MEMORY.md`, its lines |
| `log`, `lock` | `dream_log.md`, `.dream.lock` |
| `proc` | an `execute_job`, a `claw orchestrate` or a `claw dream`, with what it has read |
| `completed`, `ending`, `reviewed`, `during`, `unlisted`, `overlapped`, `abandoned` | history, for the properties |

`extract_run_knowledge` is `Finish`, `WriteNote`, `EnsureIndex`, `CreateIndex`, `ReadIndex`,
`UpdateIndex`, followed by `WriteResult`. `run_project_dream` is `ReadState`, the gates `Skip`,
`TooFew` and `Proceed`, then `Acquire`, `Locked` or `AcquireFails`, `Begin`, the project
note with its line in the index, `ReadLog`, `AppendLog`, `Complete`, `Release`; `DreamFails` is its
exception handler, `NoteFails` that of the executor. `Command`, `Reload` and `Settle` are the
entry `claw dream` keeps of itself, `Decide` the decisions the loop records meanwhile.

Time is a whole second, as `utc_now_timestamp` gives it: `Tick` shows another one, any
time later, and between two ticks everything has the same time. `ReadState` lists the
results that are strictly later than `last_completed_at`; the others (`Behind`) have left
the window.

Abstractions: each run finishes once; the state file and the results are read in one step;
results of runs under way count by their creation time, that is, arbitrarily; the texts of
notes are left out.

### Run

| Run | Question | Instance | Result |
|---|---|---|---|
| `dream` | Is what was written found, and is every run dreamt about? | 1 executor, 1 loop, 1 `claw dream`, 2 runs, 2 dreams, 2 seconds, 1 failure or kill | `TypeOK`, `MemoryKept`, `NoRunForgotten` hold |

Bounds. One process per role: two executors only add overlapping updates of the index,
which an executor and a dream already make. Two dreams are the least in which one meets
what another left; two seconds are the least in which one end is before, in the same as, or
after another. One fault at any step; a longer run with two found nothing else.
The runs are symmetric; the behaviours end when the bounds are used up, hence
`CHECK_DEADLOCK FALSE`.

Exceptions. `overlapped`: two updates of the index overlapped, the later replaces the
earlier. `unlisted`: the writer of a note failed before the index. `abandoned`: a dream
was killed, or failed while it took the lock, and nothing ever removes the file.
`during`: a run that ended while a dream was at work is neither in that dream nor in the
window of the next, and neither is one that ends after a dream but in the second of its
end (`ending`): the comparison of line 368 is strict. The property says no other run is
lost.

### Proofs

`ProjectMemoryProofs` proves all three for any numbers of processes, runs, dreams and
faults:

- `TypeCorrect`, from `TInv`: `TypeOK`, with which role can be where and whose note or
  dream it has in hand (`Placing`);
- `MemoryIsKept` (`MemoryKept`), from `LInv` (the lock is there while a dream is behind it,
  and one is at most; what it has read of the log is all there is) and `XInv` (what a
  writer has read of the index is still there when it writes, unless updates overlapped);
- `RunsReviewed` (`NoRunForgotten`), from `WInv`: whatever state a process has in hand, its
  window hides only runs that were reviewed or are in `during`, its last end is not later
  than now, and in this second only if `ending` says so; and for a dream at work, everything that has ended is in its hands, outside its window, or in `during`.

## 10. Not modelled

- Task planning (`task_planner.py`, `decomposer.py`, `org_graph.py`): functions from texts to
  texts by one process that keep nothing between calls. The two checks of their result
  that decide what the loop does, missing dependencies and cycles, are `Unlinted` in
  `Orchestration`.
- Event log (`event_log.py` and its snapshot): append-only, and no other component decides by it.
- Operator transport and its session store: messages to and from an external chat.
- Process helpers: argument vectors, an allow list, constants.

Partly modelled: the worker loop (its metrics and listeners are left out), job execution
(building of the command, advisory artifacts), operator jobs (listing and summary),
sessions (the operator's own store), orchestration state (its rendering), approvals
(`guardrail-check`), project memory (`handoff_notes.py` only validates a text), workflow
contract (its parsing; the values it admits are constants and assumptions), run building
(templates, validation of artifacts whose outcome is only recorded).
