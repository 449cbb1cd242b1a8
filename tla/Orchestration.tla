----------------------------- MODULE Orchestration -----------------------------
(***************************************************************************)
(* The orchestrate loop of scripts/claw.py with what it plans, runs and    *)
(* decides: the choice of the next task, the worker it starts for every    *)
(* step, the review batches of generate_review_batch.py that a worker      *)
(* makes when its run has ended, the review gate, the decision about the   *)
(* run, and the tasks that people and decisions add to the board.          *)
(*                                                                         *)
(* A process runs one command at a time: orchestrate (which waits for its  *)
(* own worker, so the two are one process), worker --once, task-delegate,  *)
(* task-escalate, enqueue or review-gate.  Task files, manifests, stubs    *)
(* and approvals are not locked; the queue moves in single steps (see      *)
(* FileQueue), and so do a guardrail's pause and resolve-approval, whose   *)
(* steps are those of Guardrails.                                          *)
(***************************************************************************)
EXTENDS Naturals, FiniteSets, Sequences

CONSTANTS
  Procs,        \* processes
  Projects,     \* the task files a project may begin with, and is the review gate blocking?
  MaxSteps,     \* orchestrate --max-steps
  MaxAttempts,  \* queue.max_attempts
  Cadence,      \* reviewer_policy.cadence.successful_runs_batch
  MaxTasks,     \* bound: task files
  MaxRuns,      \* bound: run directories
  MaxBatches,   \* bound: review manifests
  MaxCommands,  \* bound: commands begun in a behaviour, and stubs filled in by people
  MaxCrashes,   \* bound: processes killed in a behaviour
  None

ASSUME BoundAssumption ==
  /\ MaxSteps \in Nat \ {0} /\ MaxAttempts \in Nat \ {0} /\ Cadence \in Nat \ {0}
  /\ MaxTasks \in Nat /\ MaxRuns \in Nat /\ MaxBatches \in Nat
  /\ MaxCommands \in Nat /\ MaxCrashes \in Nat

Tasks == 1 .. MaxTasks
Runs == 1 .. MaxRuns
Batches == 1 .. MaxBatches

\* TASK_DONE_STATUSES, TASK_ACTIVE_STATUSES and TASK_BLOCKED_STATUSES, one of each
\* for all that are treated alike.
Done == {"done"}
Active == {"in_progress", "queued", "awaiting_approval"}
Blocked == {"blocked"}

\* files: what the spec of the task mentions, {} with shared_files; flagged:
\* needs_review or a risk flag; source: the run a follow-up comes from, else 0.
Task == [status : {"todo"} \cup Done \cup Active \cup Blocked, deps : SUBSET Nat,
         files : SUBSET Nat, rank : Nat, flagged : BOOLEAN, source : {0} \cup Runs]

\* "stub": of a job that was dropped under its worker only the id has come back, as an
\* item that is pending, running or awaiting_approval and that no worker can execute.
QueueStates == {"none", "stub", "pending", "running", "awaiting_approval", "done", "failed"}
Live == {"pending", "running", "awaiting_approval"}

Run == [task : Tasks, at : QueueStates, attempts : 0 .. MaxAttempts,
        result : {"none", "success", "failed"}, flagged : BOOLEAN]

ASSUME NoneAssumption == None \notin Task /\ None \notin Run
\* A project begins with no runs: no task is a follow-up or being worked on.
ASSUME ProjectAssumption ==
  \A x \in Projects :
    /\ x \in [gate : BOOLEAN, board : [Tasks -> Task \cup {None}]]
    /\ \A t \in Tasks : x.board[t] # None => x.board[t].source = 0 /\ x.board[t].status \notin Active

Verdicts == {"approved", "rejected", "needs_follow_up"}
Stub == [batch : Batches, run : Runs, verdict : Verdicts \cup {"pending"}]
\* What ask-human offers, and what a guardrail asks for.
Askable == {"retry", "accept", "follow_up"}
Approval == [run : Runs, action : Askable \cup {"run"}]

PCs == {"idle", "look", "start", "build", "claim", "execute", "trigger", "seq", "manifest",
        "stub", "save", "review", "evaluate", "accept", "number", "write", "queue"}

\* task: the one being added or started; run: the one being executed or decided;
\* todo: the batches to write; seq: the number read for a manifest or a task file;
\* then: what follows a batch, a build or a new task.
Proc == [pc : PCs, kind : {"loop", "worker", "command"}, then : PCs, steps : 0 .. MaxSteps,
         task : {0} \cup Tasks, run : {0} \cup Runs, ok : BOOLEAN, todo : Seq(SUBSET Runs),
         seq : Nat, count : Nat, how : {"none", "unreviewed", "approved", "needs_follow_up"}]

Idle == [pc |-> "idle", kind |-> "command", then |-> "idle", steps |-> 0, task |-> 0, run |-> 0,
         ok |-> FALSE, todo |-> <<>>, seq |-> 0, count |-> 0, how |-> "none"]

VARIABLES
  gate,       \* is review_gate enabled and blocking?
  task,       \* the task files, None where there is none
  run,        \* the runs and their jobs, None where there is none
  batch,      \* the runs in the manifest of a batch, {} where there is none
  stubs,      \* reviews/decisions
  approvals,  \* state/approvals/pending
  cadence,    \* successful_since_last_batch
  proc,       \* processes
  commands,   \* commands begun
  crashes,    \* processes killed
  accepted,   \* history: runs the loop has accepted, and on what
  crowded,    \* history: were batches written by two at once?
  unbatched,  \* history: runs that a worker has made no batch for where it should
              \* have, or whose batch has been left half written
  again,      \* history: runs put back on the queue after their job had been dropped
  forced,     \* history: tasks enqueued by a person, started by two loops at once,
              \* overwritten, or reopened when they were done
  overwritten,\* history: tasks whose file another new task was written over
  left        \* history: tasks whose run has been left to a person

board == <<task, run>>
reviews == <<batch, stubs, cadence>>
doubts == <<unbatched, again>>
ghosts == <<accepted, crowded, doubts, forced, overwritten, left>>
bounds == <<commands, crashes>>
vars == <<gate, board, reviews, approvals, proc, bounds, ghosts>>

-----------------------------------------------------------------------------
TaskIds == {t \in Tasks : task[t] # None}
RunIds == {r \in Runs : run[r] # None}
RunsOf(t) == {r \in RunIds : run[r].task = t}
LiveRuns == {r \in RunIds : run[r].at \in Live}
InState(q) == {r \in RunIds : run[r].at = q}

Largest(S) == CHOOSE n \in S \cup {0} : \A m \in S : m <= n

\* lint_task_graph: a dependency nobody has a file for, or a cycle (some tasks of
\* which each depends on one of them).
Unlinted ==
  \/ \E t \in TaskIds : ~(task[t].deps \subseteq TaskIds)
  \/ \E S \in SUBSET TaskIds \ {{}} : \A t \in S : task[t].deps \cap S # {}

\* collect_task_records: active and ready.
OnQueue(t) == \E r \in LiveRuns : run[r].task = t
IsDone(t) == t \in TaskIds /\ task[t].status \in Done

\* A status is written over that of a task that is done.
Reopened(t) == IF IsDone(t) THEN {t} ELSE {}

\* Variant: a dependency that has been started will do.
ReadyOnStarted(t) ==
  /\ task[t].status \notin Done \cup Active \cup Blocked
  /\ ~OnQueue(t)
  /\ \A d \in task[t].deps : d \in TaskIds /\ task[d].status \in Done \cup Active

Ready(t) ==
  /\ task[t].status \notin Done \cup Active \cup Blocked
  /\ ~OnQueue(t)
  /\ \A d \in task[t].deps : IsDone(d)

\* _tasks_overlap_files.
Overlap(t, u) == task[t].files \cap task[u].files # {}

\* select_ready_tasks with limit 1: the first ready task that overlaps no occupied one.
Selectable ==
  {t \in TaskIds : /\ Ready(t)
                   /\ \A u \in TaskIds : task[u].status \in Active \/ OnQueue(u) => ~Overlap(t, u)}
First(S) ==
  CHOOSE t \in S : \A u \in S : \/ task[t].rank < task[u].rank
                                \/ task[t].rank = task[u].rank /\ t <= u

StubsOf(r) == {s \in stubs : s.run = r}
PendingStubs(S) == {s \in S : s.verdict = "pending"}

\* Variant: needs_review and the risk flags are not looked at.
ImmediateByStatus(r) == run[r].result = "failed"

\* classify_run: a run that has failed, or one that is flagged, executed or not.
Immediate(r) == run[r].result = "failed" \/ run[r].flagged

\* generate_batches: the batches for the runs that are in no manifest, Cadence of them
\* at a time in the order of their numbers, and the rest later.
Chunks(S) ==
  LET Before(r) == Cardinality({q \in S : q < r})
  IN  [i \in 1 .. Cardinality(S) \div Cadence |->
         {r \in S : (i - 1) * Cadence <= Before(r) /\ Before(r) < i * Cadence}]
DueBatches ==
  LET unseen == RunIds \ UNION {batch[b] : b \in Batches}
      now == {r \in unseen : Immediate(r)}
      later == {r \in unseen \ now : run[r].result = "success"}
  IN  (IF now = {} THEN <<>> ELSE <<now>>) \o Chunks(later)

-----------------------------------------------------------------------------
At(p, pc) == proc[p].pc = pc
Set(p, x) == proc' = [proc EXCEPT ![p] = x]
Ends(p) == Set(p, Idle)
Goes(p, pc) == Set(p, [proc[p] EXCEPT !.pc = pc])

Begin(p) == At(p, "idle") /\ commands < MaxCommands /\ commands' = commands + 1

\* The next turn of the loop, when it may have one.
NextTurn(x) ==
  IF x.steps < MaxSteps THEN [Idle EXCEPT !.pc = "look", !.kind = "loop", !.steps = x.steps] ELSE Idle

\* The tasks a process has in hand.
InHand(p) ==
  {t \in TaskIds : proc[p].pc # "idle"
                     /\ (proc[p].task = t \/ (proc[p].run \in RunIds /\ run[proc[p].run].task = t))}

BoardInit ==
  /\ \E x \in Projects : gate = x.gate /\ task = x.board
  /\ run = [r \in Runs |-> None]
  /\ batch = [b \in Batches |-> {}] /\ stubs = {} /\ approvals = {} /\ cadence = 0

Init ==
  /\ BoardInit
  /\ proc = [p \in Procs |-> Idle] /\ commands = 0 /\ crashes = 0
  /\ accepted = {} /\ crowded = FALSE /\ unbatched = {} /\ again = {}
  /\ forced = {} /\ overwritten = {} /\ left = {}

-----------------------------------------------------------------------------
(* The loop chooses. *)

\* cmd_orchestrate begins, or refuses the board.
Orchestrate(p) ==
  /\ Begin(p)
  /\ IF Unlinted THEN UNCHANGED proc ELSE Set(p, NextTurn(Idle))
  /\ UNCHANGED <<gate, board, reviews, approvals, crashes, ghosts>>

Starting(p) == proc[p].kind = "loop" /\ proc[p].pc \in {"start", "build"} /\ proc[p].run = 0

\* Variant: the loop does not look at the queue before it selects a task.
LookWithoutQueue(p) ==
  /\ At(p, "look")
  /\ CASE approvals # {} \/ PendingStubs(stubs) # {} -> Ends(p) /\ UNCHANGED forced
       [] OTHER ->
            IF Selectable = {} THEN Ends(p) /\ UNCHANGED forced
            ELSE /\ Set(p, [proc[p] EXCEPT !.pc = "start", !.then = "claim", !.task = First(Selectable)])
                 /\ UNCHANGED forced
  /\ UNCHANGED <<doubts, gate, board, reviews, approvals, bounds, accepted, crowded, left, overwritten>>

\* The dashboard and select_ready_tasks.
Look(p) ==
  /\ At(p, "look")
  /\ IF approvals # {} \/ InState("awaiting_approval") # {} \/ PendingStubs(stubs) # {}
     THEN Ends(p) /\ UNCHANGED forced
     ELSE IF InState("pending") \cup InState("running") \cup InState("stub") # {}
     THEN Goes(p, "claim") /\ UNCHANGED forced
     ELSE IF Selectable = {} THEN Ends(p) /\ UNCHANGED forced
     ELSE LET t == First(Selectable) IN
          /\ Set(p, [proc[p] EXCEPT !.pc = "start", !.then = "claim", !.task = t])
          /\ forced' = forced \cup
               (IF \E q \in Procs : Starting(q)
                  THEN {t} \cup {proc[q].task : q \in {q \in Procs : Starting(q)}} ELSE {})
  /\ UNCHANGED <<doubts, gate, board, reviews, approvals, bounds, accepted, crowded, left, overwritten>>

\* The epic in scope is complete, or WORKFLOW.md does not allow the agent of the task.
EndsEarly(p) ==
  /\ At(p, "look")
  /\ Ends(p)
  /\ UNCHANGED <<gate, board, reviews, approvals, bounds, ghosts>>

\* update_task_status(in_progress).
Start(p) ==
  /\ At(p, "start")
  /\ LET t == proc[p].task IN
     /\ task' = [task EXCEPT ![t].status = "in_progress"]
     /\ forced' = forced \cup Reopened(t)
     /\ left' = left \ {t}
  /\ Goes(p, "build")
  /\ UNCHANGED <<doubts, gate, run, reviews, approvals, bounds, accepted, crowded, overwritten>>

NewRun(t) == [task |-> t, at |-> "pending", attempts |-> 0, result |-> "none", flagged |-> task[t].flagged]

\* enqueue_task_path: next_run_directory takes a directory of its own, then the job
\* goes on the queue.
Build(p) ==
  /\ At(p, "build") /\ RunIds # Runs
  /\ LET t == proc[p].task
         r == Cardinality(RunIds) + 1
     IN  run' = [run EXCEPT ![r] = NewRun(t)]
  /\ IF proc[p].then = "idle" THEN Ends(p)
     ELSE Set(p, [proc[p] EXCEPT !.pc = proc[p].then, !.then = "idle", !.task = 0])
  /\ UNCHANGED <<gate, task, reviews, approvals, bounds, ghosts>>

\* build_run fails: the command exits, and the status stays.  What raises an
\* exception instead restores the status of a follow-up.
BuildFails(p) ==
  /\ At(p, "build")
  /\ \/ UNCHANGED <<task, forced>>
     \/ /\ proc[p].then = "accept"
        /\ task' = [task EXCEPT ![proc[p].task].status = "todo"]
        /\ forced' = forced \cup Reopened(proc[p].task)
  /\ left' = left \cup InHand(p)
  /\ Ends(p)
  /\ UNCHANGED <<doubts, gate, run, reviews, approvals, bounds, accepted, crowded, overwritten>>

-----------------------------------------------------------------------------
(* The worker. *)

\* claw worker --once, outside the loop.
Worker(p) ==
  /\ Begin(p)
  /\ Set(p, [Idle EXCEPT !.pc = "claim", !.kind = "worker"])
  /\ UNCHANGED <<gate, board, reviews, approvals, crashes, ghosts>>

\* The worker takes any job that is due.
Claim(p, r) ==
  /\ At(p, "claim") /\ r \in InState("pending")
  /\ run' = [run EXCEPT ![r].at = "running",
                       ![r].attempts = IF @ < MaxAttempts THEN @ + 1 ELSE @]
  /\ Set(p, [proc[p] EXCEPT !.pc = "execute", !.run = r])
  /\ UNCHANGED <<gate, task, reviews, approvals, bounds, ghosts>>

\* There is none, all of them wait for their next_retry_at, or the worker exits over
\* a job without its run_path.
NothingToDo(p) ==
  /\ At(p, "claim")
  /\ InState("stub") # {} \/ \A r \in InState("pending") : run[r].attempts > 0
  /\ Ends(p)
  /\ UNCHANGED <<gate, board, reviews, approvals, bounds, ghosts>>

\* Variant: the queue gets the word that is reported.
SettledAsReported(r, outcome) ==
  IF outcome = "success" THEN "done"
  ELSE IF outcome = "paused" THEN "awaiting_approval"
  ELSE IF run[r].attempts < MaxAttempts THEN "retried"
  ELSE "failed"

Settled(r, outcome) ==
  IF outcome = "success" THEN "done"
  ELSE IF outcome = "paused" THEN "awaiting_approval"
  ELSE IF run[r].attempts < MaxAttempts THEN "pending"
  ELSE "failed"

\* A transition of a dropped job writes a new item in its place (_read_payload).
AfterRun(r, outcome) ==
  LET q == Settled(r, outcome)
  IN  CASE run[r].at = "running" -> q
        [] run[r].at = "none" /\ q \in Live -> "stub"
        [] OTHER -> run[r].at

\* The run succeeds or fails, and its job is settled.
Execute(p) ==
  /\ At(p, "execute")
  /\ LET r == proc[p].run IN
     \E outcome \in {"success", "failed"} :
       /\ run' = [run EXCEPT ![r].at = AfterRun(r, outcome), ![r].result = outcome]
       /\ Set(p, [proc[p] EXCEPT !.pc = "trigger", !.ok = (outcome = "success"),
                    !.steps = IF proc[p].kind = "loop" THEN @ + 1 ELSE @])
  /\ UNCHANGED <<gate, task, reviews, approvals, bounds, ghosts>>

\* The agent has asked at a checkpoint: the worker makes no reviews, and the loop
\* breaks.
Pause(p) ==
  /\ At(p, "execute")
  /\ run' = [run EXCEPT ![proc[p].run].at = AfterRun(proc[p].run, "paused")]
  /\ Ends(p)
  /\ UNCHANGED <<gate, task, reviews, approvals, bounds, ghosts>>

\* pause_run_for_guardrail: the task and a request say so, too.
Guarded(p) ==
  /\ At(p, "execute")
  /\ LET r == proc[p].run
         t == run[r].task
     IN  /\ run' = [run EXCEPT ![r].at = AfterRun(r, "paused")]
         /\ task' = [task EXCEPT ![t].status = "awaiting_approval"]
         /\ approvals' = approvals \cup {[run |-> r, action |-> "run"]}
         /\ forced' = forced \cup Reopened(t)
         /\ left' = left \ {t}
  /\ Ends(p)
  /\ UNCHANGED <<doubts, gate, reviews, bounds, accepted, crowded, overwritten>>

-----------------------------------------------------------------------------
(* Review batches. *)

Batching(p) == proc[p].pc \in {"seq", "manifest", "stub"}

\* maybe_trigger_review reads the counter and the manifests there are.
Trigger(p) ==
  /\ At(p, "trigger")
  /\ LET r == proc[p].run
         count == IF ~Immediate(r) /\ proc[p].ok THEN cadence + 1 ELSE cadence
         asked == Immediate(r) \/ (proc[p].ok /\ count >= Cadence)
         due == IF asked THEN DueBatches ELSE <<>>
         periodic == \E i \in DOMAIN due : \A q \in due[i] : ~Immediate(q)
     IN  Set(p, [proc[p] EXCEPT !.pc = IF due = <<>> THEN "save" ELSE "seq", !.then = "save",
                                !.todo = due, !.count = IF periodic THEN 0 ELSE count])
  /\ crowded' = (crowded \/ \E q \in Procs : Batching(q))
  /\ UNCHANGED <<doubts, gate, board, reviews, approvals, bounds, accepted, forced, left, overwritten>>

\* What the worker is through with: nobody judges a run executed outside the loop.
Worked(p) ==
  IF proc[p].kind = "loop" THEN Goes(p, "evaluate") /\ UNCHANGED left
  ELSE /\ Ends(p)
       /\ left' = left \cup (IF run[proc[p].run].at \in Live THEN {} ELSE InHand(p))

\* --skip-review, or a policy that cannot be loaded.
SkipReview(p) ==
  /\ At(p, "trigger")
  /\ unbatched' = unbatched \cup {proc[p].run}
  /\ Worked(p)
  /\ UNCHANGED <<gate, board, reviews, approvals, bounds, accepted, crowded, again, forced, overwritten>>

\* next_batch_seq.
BatchNumber(p) ==
  /\ At(p, "seq")
  /\ LET n == Largest({b \in Batches : batch[b] # {}}) + 1 IN
     /\ n <= MaxBatches
     /\ Set(p, [proc[p] EXCEPT !.pc = "manifest", !.seq = n])
  /\ UNCHANGED <<gate, board, reviews, approvals, bounds, ghosts>>

\* write_batch.
Manifest(p) ==
  /\ At(p, "manifest")
  /\ batch' = [batch EXCEPT ![proc[p].seq] = Head(proc[p].todo)]
  /\ Goes(p, "stub")
  /\ UNCHANGED <<gate, board, stubs, cadence, approvals, bounds, ghosts>>

AfterStubs(x) ==
  IF Len(x.todo) > 1 THEN [x EXCEPT !.pc = "seq", !.seq = 0, !.todo = Tail(@)]
  ELSE IF x.then = "idle" THEN Idle
  ELSE [x EXCEPT !.pc = x.then, !.then = "idle", !.seq = 0, !.todo = <<>>]

\* A stub of the same batch and run is written over.
WithStubs(b, R) ==
  {s \in stubs : s.batch # b \/ s.run \notin R} \cup [batch : {b}, run : R, verdict : {"pending"}]

\* write_decision_stubs.
DecisionStubs(p) ==
  /\ At(p, "stub")
  /\ stubs' = WithStubs(proc[p].seq, Head(proc[p].todo))
  /\ Set(p, AfterStubs(proc[p]))
  /\ UNCHANGED <<gate, board, batch, cadence, approvals, bounds, ghosts>>

\* The runs a process has still to write stubs for; those whose manifest is there.
Unmade(p) ==
  IF At(p, "trigger") THEN {proc[p].run}
  ELSE IF Batching(p) THEN UNION {proc[p].todo[i] : i \in DOMAIN proc[p].todo}
  ELSE {}
HalfMade(p) == IF At(p, "stub") THEN Head(proc[p].todo) ELSE {}

\* maybe_trigger_review swallows whatever is raised on its way; what has been written
\* stays.  A batch of the gate's own ends its command instead.
ReviewFails(p) ==
  /\ Batching(p) \/ proc[p].pc \in {"trigger", "save"}
  /\ \E R \in SUBSET HalfMade(p) :
       /\ stubs' = WithStubs(proc[p].seq, R)
       /\ unbatched' = unbatched \cup (Unmade(p) \ R)
  /\ IF Batching(p) /\ proc[p].then = "idle" THEN Ends(p)
     ELSE Set(p, [proc[p] EXCEPT !.pc = "review", !.then = "idle", !.todo = <<>>, !.seq = 0, !.count = 0])
  /\ UNCHANGED <<gate, board, batch, cadence, approvals, bounds, accepted, crowded, again, forced, left, overwritten>>

\* save_cadence_state writes what has been read and counted.
SaveCadence(p) ==
  /\ At(p, "save")
  /\ cadence' = proc[p].count
  /\ Set(p, [proc[p] EXCEPT !.pc = "review", !.count = 0])
  /\ UNCHANGED <<gate, board, batch, stubs, approvals, bounds, ghosts>>

Decided(S, v) == (stubs \ S) \cup {[s EXCEPT !.verdict = v] : s \in S}

\* maybe_execute_pending_reviews: the reviewer decides on all stubs or fails.
Review(p) ==
  /\ At(p, "review")
  /\ \/ UNCHANGED stubs
     \/ PendingStubs(stubs) # {} /\ \E v \in Verdicts : stubs' = Decided(PendingStubs(stubs), v)
  /\ Worked(p)
  /\ UNCHANGED <<doubts, gate, board, batch, cadence, approvals, bounds, accepted, crowded, forced, overwritten>>

-----------------------------------------------------------------------------
(* evaluate_run_decision *)

\* create_approval_request, and the loop breaks.
Asks(p, action) ==
  /\ approvals' = approvals \cup {[run |-> proc[p].run, action |-> action]}
  /\ Ends(p) /\ UNCHANGED left

EvaluateFailed(p) ==
  /\ At(p, "evaluate") /\ ~proc[p].ok
  /\ Asks(p, "retry")
  /\ UNCHANGED <<doubts, gate, board, reviews, bounds, accepted, crowded, forced, overwritten>>

\* A stub is pending, or ensure_review_gate makes a batch of its own; nobody comes
\* back to the run.
EvaluateWaits(p) ==
  /\ At(p, "evaluate") /\ proc[p].ok
  /\ LET r == proc[p].run IN
     \/ PendingStubs(StubsOf(r)) # {} /\ Ends(p)
     \/ /\ gate /\ StubsOf(r) = {}
        /\ Set(p, [proc[p] EXCEPT !.pc = "seq", !.then = "idle", !.todo = <<{r}>>])
  /\ left' = left \cup InHand(p)
  /\ crowded' = (crowded \/ (\E q \in Procs : Batching(q)))
  /\ UNCHANGED <<doubts, gate, board, reviews, approvals, bounds, accepted, forced, overwritten>>

FollowUps(r) == {t \in TaskIds : task[t].source = r}

\* Variant: a review that asks for a follow-up is taken as an approval.
EvaluateReviewedAsApproved(p) ==
  /\ At(p, "evaluate") /\ proc[p].ok
  /\ LET r == proc[p].run IN
     /\ StubsOf(r) # {} /\ PendingStubs(StubsOf(r)) = {}
     /\ \E s \in StubsOf(r) :
          CASE s.verdict = "rejected" -> Asks(p, "retry")
            [] OTHER -> Set(p, [proc[p] EXCEPT !.pc = "accept", !.how = s.verdict])
                          /\ UNCHANGED <<approvals, left>>
  /\ UNCHANGED <<doubts, gate, board, reviews, bounds, accepted, crowded, forced, overwritten>>

\* Variant: a rejected run is not brought before anybody.
EvaluateReviewedSilently(p) ==
  /\ At(p, "evaluate") /\ proc[p].ok
  /\ LET r == proc[p].run IN
     /\ StubsOf(r) # {} /\ PendingStubs(StubsOf(r)) = {}
     /\ \E s \in StubsOf(r) :
          CASE s.verdict = "rejected" -> Ends(p) /\ UNCHANGED <<approvals, left>>
            [] OTHER -> Set(p, [proc[p] EXCEPT !.pc = "accept", !.how = s.verdict])
                          /\ UNCHANGED <<approvals, left>>
  /\ UNCHANGED <<doubts, gate, board, reviews, bounds, accepted, crowded, forced, overwritten>>

AtWork(t) == task[t].status \in Done \cup Active

\* There is a decision; of several, any may be the one with the latest date.
\* materialize_follow_up_tasks makes a task unless there is one, or there are no
\* actions to make it from, and queues it unless that has been done.
EvaluateReviewed(p) ==
  /\ At(p, "evaluate") /\ proc[p].ok
  /\ LET r == proc[p].run IN
     /\ StubsOf(r) # {} /\ PendingStubs(StubsOf(r)) = {}
     /\ \E s \in StubsOf(r) :
          \/ /\ s.verdict = "rejected"
             /\ Asks(p, "retry")
          \/ /\ s.verdict = "needs_follow_up"
             /\ Asks(p, "follow_up")
          \/ /\ s.verdict = "approved" \/ (s.verdict = "needs_follow_up" /\ \E t \in FollowUps(r) : AtWork(t))
             /\ Set(p, [proc[p] EXCEPT !.pc = "accept", !.how = s.verdict])
             /\ UNCHANGED <<approvals, left>>
          \/ /\ s.verdict = "needs_follow_up"
             /\ \E t \in FollowUps(r) :
                  ~AtWork(t) /\ Set(p, [proc[p] EXCEPT !.pc = "queue", !.task = t, !.how = s.verdict])
             /\ UNCHANGED <<approvals, left>>
          \/ /\ s.verdict = "needs_follow_up" /\ FollowUps(r) = {}
             /\ Set(p, [proc[p] EXCEPT !.pc = "number", !.then = "queue", !.how = s.verdict])
             /\ UNCHANGED <<approvals, left>>
  /\ UNCHANGED <<doubts, gate, board, reviews, bounds, accepted, crowded, forced, overwritten>>

EvaluateUnreviewed(p) ==
  /\ At(p, "evaluate") /\ proc[p].ok /\ ~gate /\ StubsOf(proc[p].run) = {}
  /\ Set(p, [proc[p] EXCEPT !.pc = "accept", !.how = "unreviewed"])
  /\ UNCHANGED <<gate, board, reviews, approvals, bounds, ghosts>>

\* accept_run, and the loop goes on.
Accept(p) ==
  /\ At(p, "accept")
  /\ task' = [task EXCEPT ![run[proc[p].run].task].status = "done"]
  /\ accepted' = accepted \cup {[run |-> proc[p].run, how |-> proc[p].how]}
  /\ Set(p, NextTurn(proc[p]))
  /\ UNCHANGED <<doubts, gate, run, reviews, approvals, bounds, crowded, forced, left, overwritten>>

-----------------------------------------------------------------------------
(* New tasks. *)

\* next_task_id.
TaskNumber(p) ==
  /\ At(p, "number")
  /\ LET n == Largest(TaskIds) + 1 IN
     /\ n <= MaxTasks
     /\ Set(p, [proc[p] EXCEPT !.pc = "write", !.seq = n])
  /\ UNCHANGED <<gate, board, reviews, approvals, bounds, ghosts>>

\* create_follow_up_task waits for the task it follows; create_delegated_task inherits
\* what its parent has, and waits for nothing.
NewTask(x) ==
  IF x.kind = "loop"
  THEN LET t == run[x.run].task
       IN  [status |-> "todo", deps |-> {t}, files |-> task[t].files, rank |-> task[t].rank,
            flagged |-> FALSE, source |-> x.run]
  ELSE [task[x.task] EXCEPT !.status = "todo", !.deps = {}, !.source = 0]

\* write_front_matter, over whatever has that number by now.
WriteTask(p) ==
  /\ At(p, "write")
  /\ LET x == proc[p] IN
     /\ task' = [task EXCEPT ![x.seq] = NewTask(x)]
     /\ LET over == IF task[x.seq] = None THEN {} ELSE {x.seq}
        IN  forced' = forced \cup over /\ overwritten' = overwritten \cup over
     /\ IF x.then = "idle" THEN Ends(p)
        ELSE Set(p, [x EXCEPT !.pc = "queue", !.then = "idle", !.task = x.seq, !.seq = 0])
  /\ UNCHANGED <<doubts, gate, run, reviews, approvals, bounds, accepted, crowded, left>>

\* The follow-up is queued, and built at once.
QueueFollowUp(p) ==
  /\ At(p, "queue")
  /\ task' = [task EXCEPT ![proc[p].task].status = "queued"]
  /\ forced' = forced \cup Reopened(proc[p].task)
  /\ Set(p, [proc[p] EXCEPT !.pc = "build", !.then = "accept"])
  /\ UNCHANGED <<doubts, gate, run, reviews, approvals, bounds, accepted, crowded, left, overwritten>>

\* cmd_task_delegate, and cmd_task_escalate for a blocked task.
Delegate(p, t) ==
  /\ Begin(p) /\ t \in TaskIds
  /\ Set(p, [Idle EXCEPT !.pc = "number", !.task = t])
  /\ UNCHANGED <<gate, board, reviews, approvals, crashes, ghosts>>

-----------------------------------------------------------------------------
(* People. *)

\* cmd_enqueue: whatever the status of the task is.
Enqueue(p, t) ==
  /\ Begin(p) /\ t \in TaskIds
  /\ Set(p, [Idle EXCEPT !.pc = "build", !.task = t])
  /\ forced' = forced \cup {t}
  /\ UNCHANGED <<doubts, gate, board, reviews, approvals, crashes, accepted, crowded, left, overwritten>>

\* cmd_review_gate, and the gate of cmd_mark_done, for a run that has no review.
ReviewGate(p, r) ==
  /\ Begin(p) /\ gate /\ r \in RunIds /\ StubsOf(r) = {}
  /\ Set(p, [Idle EXCEPT !.pc = "seq", !.todo = <<{r}>>])
  /\ crowded' = (crowded \/ \E q \in Procs : Batching(q))
  /\ UNCHANGED <<doubts, gate, board, reviews, approvals, crashes, accepted, forced, left, overwritten>>

\* cmd_mark_done with a reviewer; which run is the latest depends on the clocks.
MarkDone(t) ==
  /\ t \in TaskIds /\ ~IsDone(t)
  /\ commands < MaxCommands /\ commands' = commands + 1
  /\ gate => \E r \in RunsOf(t) : /\ PendingStubs(StubsOf(r)) = {}
                                  /\ \E s \in StubsOf(r) : s.verdict = "approved"
  /\ task' = [task EXCEPT ![t].status = "done"]
  /\ UNCHANGED <<gate, run, reviews, approvals, proc, crashes, ghosts>>

\* A person fills in a stub.
Decide ==
  /\ commands < MaxCommands /\ commands' = commands + 1
  /\ \E s \in PendingStubs(stubs), v \in Verdicts : stubs' = Decided({s}, v)
  /\ UNCHANGED <<gate, board, batch, cadence, approvals, proc, crashes, ghosts>>

\* cmd_ask_human, about any run.
AskHuman(r, action) ==
  /\ r \in RunIds
  /\ commands < MaxCommands /\ commands' = commands + 1
  /\ approvals' = approvals \cup {[run |-> r, action |-> action]}
  /\ UNCHANGED <<gate, board, reviews, proc, crashes, ghosts>>

Resolves(a, action) == a \in approvals /\ a.action = action /\ approvals' = approvals \ {a}

\* resolve-approval of a retry that is approved: the job is dropped, the task is to be
\* done again.
Retry(a) ==
  LET t == run[a.run].task IN
  /\ Resolves(a, "retry")
  /\ run' = [run EXCEPT ![a.run].at = "none"]
  /\ task' = [task EXCEPT ![t].status = "todo"]
  /\ forced' = forced \cup Reopened(t)
  /\ UNCHANGED <<doubts, gate, reviews, proc, bounds, accepted, crowded, left, overwritten>>

\* Of one to accept.
AcceptAsked(a) ==
  /\ Resolves(a, "accept")
  /\ task' = [task EXCEPT ![run[a.run].task].status = "done"]
  /\ UNCHANGED <<gate, run, reviews, proc, bounds, ghosts>>

\* Of one to run: the job goes on, or a new one takes the place of a dropped one.  For
\* a job that is anywhere else the command fails, and the request stays.
Admit(a) ==
  LET r == a.run
      t == run[r].task
      back == run[r].at = "none"
  IN
  /\ Resolves(a, "run")
  /\ run[r].at \in {"awaiting_approval", "none", "stub"}
  /\ run' = [run EXCEPT ![r].at = IF @ = "stub" THEN @ ELSE "pending",
                         ![r].attempts = IF back THEN 0 ELSE @]
  /\ task' = [task EXCEPT ![t].status = "queued"]
  /\ forced' = forced \cup Reopened(t) \cup (IF back THEN {t} ELSE {})
  /\ again' = again \cup (IF back THEN {r} ELSE {})
  /\ left' = IF run[r].at = "stub" THEN left \cup {t} ELSE left \ {t}
  /\ UNCHANGED <<gate, reviews, proc, bounds, accepted, crowded, unbatched, overwritten>>

\* Of one to run that is rejected.
Block(a) ==
  LET t == run[a.run].task IN
  /\ Resolves(a, "run")
  /\ task' = [task EXCEPT ![t].status = "blocked"]
  /\ forced' = forced \cup Reopened(t)
  /\ UNCHANGED <<doubts, gate, run, reviews, proc, bounds, accepted, crowded, left, overwritten>>

\* A follow-up that is approved, and all else that is rejected, changes neither the
\* task nor the job.
Dismiss(a) ==
  /\ \E action \in Askable : Resolves(a, action)
  /\ left' = left \cup {run[a.run].task}
  /\ UNCHANGED <<doubts, gate, board, reviews, proc, bounds, accepted, crowded, forced, overwritten>>

\* claw approve, and resolve-checkpoint that accepts: the request there may be stays.
Release(r) ==
  /\ r \in InState("awaiting_approval")
  /\ run' = [run EXCEPT ![r].at = "pending"]
  /\ UNCHANGED <<gate, task, reviews, approvals, proc, bounds, ghosts>>

\* resolve-checkpoint that rejects, for a run that has left a checkpoint at any time:
\* nobody is told, and the task stays as it is.
Reject(r) ==
  /\ \/ r \in InState("awaiting_approval") /\ run' = [run EXCEPT ![r].at = "failed"]
     \/ r \in InState("stub") /\ run' = [run EXCEPT ![r].at = "none"]
  /\ left' = left \cup {run[r].task}
  /\ UNCHANGED <<doubts, gate, task, reviews, approvals, proc, bounds, accepted, crowded, forced, overwritten>>

\* The job of a worker that is gone; one that has lost its run_path may go through
\* all its attempts that way.
Reclaim(r) ==
  /\ \/ /\ r \in InState("running")
        /\ \A p \in Procs : ~(At(p, "execute") /\ proc[p].run = r)
        /\ run' = [run EXCEPT ![r].at = IF run[r].attempts < MaxAttempts THEN "pending" ELSE "failed"]
     \/ /\ r \in InState("stub")
        /\ run' = [run EXCEPT ![r].at = "none"]
  /\ UNCHANGED <<gate, task, reviews, approvals, proc, bounds, ghosts>>

\* The loop is killed while it waits for its worker, which goes on without it.
Orphan(p) ==
  /\ proc[p].kind = "loop" /\ crashes < MaxCrashes
  /\ proc[p].pc \in {"claim", "execute", "trigger", "seq", "manifest", "stub", "save", "review"}
  /\ proc[p].then \in {"idle", "save"} /\ ~(Batching(p) /\ proc[p].then = "idle")
  /\ crashes' = crashes + 1
  /\ Set(p, [proc[p] EXCEPT !.kind = "worker", !.steps = 0])
  /\ left' = left \cup InHand(p)
  /\ UNCHANGED <<doubts, gate, board, reviews, approvals, commands, accepted, crowded, forced, overwritten>>

Crash(p) ==
  /\ ~At(p, "idle") /\ crashes < MaxCrashes
  /\ crashes' = crashes + 1
  /\ left' = left \cup InHand(p)
  /\ unbatched' = unbatched \cup HalfMade(p)
  /\ Ends(p)
  /\ UNCHANGED <<gate, board, reviews, approvals, commands, accepted, crowded, again, forced, overwritten>>

-----------------------------------------------------------------------------
Step(p) ==
  \/ Look(p) \/ EndsEarly(p) \/ Start(p) \/ Build(p) \/ BuildFails(p)
  \/ NothingToDo(p) \/ Execute(p) \/ Pause(p) \/ Guarded(p) \/ SkipReview(p) \/ ReviewFails(p)
  \/ Trigger(p) \/ BatchNumber(p) \/ Manifest(p) \/ DecisionStubs(p) \/ SaveCadence(p) \/ Review(p)
  \/ EvaluateFailed(p) \/ EvaluateWaits(p) \/ EvaluateReviewed(p) \/ EvaluateUnreviewed(p)
  \/ Accept(p) \/ TaskNumber(p) \/ WriteTask(p) \/ QueueFollowUp(p)
  \/ \E r \in Runs : Claim(p, r)

Command(p) ==
  \/ Orchestrate(p) \/ Worker(p)
  \/ \E t \in Tasks : Delegate(p, t) \/ Enqueue(p, t)
  \/ \E r \in Runs : ReviewGate(p, r)

People ==
  \/ Decide
  \/ \E t \in Tasks : MarkDone(t)
  \/ \E r \in Runs, action \in Askable : AskHuman(r, action)
  \/ \E a \in approvals : Retry(a) \/ AcceptAsked(a) \/ Admit(a) \/ Block(a) \/ Dismiss(a)
  \/ \E r \in Runs : Release(r) \/ Reject(r) \/ Reclaim(r)

Next ==
  \/ \E p \in Procs : Step(p) \/ Command(p) \/ Crash(p) \/ Orphan(p)
  \/ People

Spec == Init /\ [][Next]_vars

-----------------------------------------------------------------------------
\* Every variable keeps to its type: in particular a run, a batch and a task never
\* lose the parts that the decision about them reads (enqueue_task_path, write_batch,
\* create_follow_up_task).
TypeOK ==
  /\ gate \in BOOLEAN
  /\ task \in [Tasks -> Task \cup {None}] /\ run \in [Runs -> Run \cup {None}]
  /\ batch \in [Batches -> SUBSET Runs]
  /\ stubs \subseteq Stub /\ approvals \subseteq Approval /\ cadence \in Nat
  /\ proc \in [Procs -> Proc]
  /\ commands \in 0 .. MaxCommands /\ crashes \in 0 .. MaxCrashes
  /\ forced \subseteq Tasks /\ overwritten \subseteq forced /\ left \subseteq Tasks
  /\ crowded \in BOOLEAN /\ unbatched \subseteq Runs /\ again \subseteq Runs

Satisfied(t, d) ==
  \/ IsDone(d) \/ d \in forced
  \/ task[t].source \in RunIds /\ run[task[t].source].task = d
       /\ run[task[t].source].result = "success"

\* No agent is at work on a task before the tasks it depends on are done.  A
\* follow-up is started before the task it follows has been accepted, but never
\* before its run has succeeded.  Only a person who enqueues the task or reopens
\* what it depends on, or two loops in each other's way, can change that
\* (collect_task_records, select_ready_tasks, materialize_follow_up_tasks).
DependenciesFirst ==
  \A p \in Procs : At(p, "execute") =>
    LET t == run[proc[p].run].task
    IN  t \in forced \/ \A d \in task[t].deps : Satisfied(t, d)

\* Of two runs on the queue, one is that of a follow-up, unless a person has put
\* one there or two loops have selected at the same moment: tasks that overlap in
\* their files, or the same task twice, are never worked on at once
\* (cmd_orchestrate, select_ready_tasks, materialize_follow_up_tasks).
OneTaskAtATime ==
  \A r, s \in LiveRuns : r # s =>
    \/ {run[r].task, run[s].task} \cap forced # {}
    \/ \E q \in {r, s} : task[run[q].task].source # 0

\* A flagged run that the loop accepts has been decided upon by a reviewer, unless a
\* worker made no batch for it (--skip-review, no policy, an error on the way that
\* maybe_trigger_review swallows), its batch was left half written, or two workers
\* ever wrote batches at once.  An error in one batch or a kill takes nothing from the
\* runs of the others (maybe_trigger_review, generate_batches, evaluate_run_decision).
FlaggedReviewed ==
  ~crowded => \A a \in accepted :
    run[a.run].flagged /\ a.run \notin unbatched => a.how # "unreviewed"

\* When the loop accepts a run whose review asks for more, the task that does more is
\* on the board and has a run, whatever fails in between; unless another new task
\* took its number, or the run was done a second time because a request to run it was
\* approved after its job had been dropped (materialize_follow_up_tasks, next_task_id).
FollowUpKept ==
  \A a \in accepted : a.how = "needs_follow_up" =>
    \/ overwritten # {} \/ a.run \in again
    \/ \E t \in FollowUps(a.run) : RunsOf(t) # {}

\* A task that says it is being worked on, or waits for an approval, is looked after:
\* somebody has it in hand, it has a job on the queue or a request about its run waits
\* for a person.  The ways in which it can end up with none of them are those "left"
\* collects: a build that fails, a kill, a worker outside the loop, a review nobody
\* waits for, a request that is dismissed, a checkpoint that is rejected, a job of
\* which only the id is left (cmd_orchestrate, evaluate_run_decision,
\* cmd_resolve_checkpoint, resolve_approval_request).
NoTaskStranded ==
  \A t \in TaskIds \ (left \cup forced) : task[t].status \in Active =>
    \/ \E p \in Procs : t \in InHand(p)
    \/ OnQueue(t)
    \/ \E a \in approvals : run[a.run].task = t
=============================================================================
