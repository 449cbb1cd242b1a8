------------------------------ MODULE Guardrails ------------------------------
(***************************************************************************)
(* The budget and the governance rules a run has to pass before an agent   *)
(* is started for it, and the approvals that let it pass all the same:     *)
(* _system/engine/budget_guardrails.py, preflight_guardrails,              *)
(* finalize_guardrails and pause_run_for_guardrail, the approval requests, *)
(* and the commands run --execute, run --enqueue, enqueue, ask-human and   *)
(* resolve-approval of scripts/claw.py.                                    *)
(*                                                                         *)
(* Every execution collects the guardrail_snapshot.json of all runs, puts  *)
(* their sum into budget_snapshot.json, reads that file back, decides, and *)
(* charges its units after the agent has ended.  Nothing of it is locked.  *)
(* An approval request is a file in state/approvals/pending; resolving it  *)
(* first has its effects, is then written to state/approvals/resolved, and *)
(* is unlinked last.  Queue moves are single steps (see FileQueue).        *)
(***************************************************************************)
EXTENDS Naturals, FiniteSets

CONSTANTS
  Runs,         \* run directories
  Workers,      \* processes of claw worker
  Operators,    \* processes of the other commands
  Tasks,        \* what the tasks of the runs may ask for: agent, mode, flags, paths
  BaseCost, AgentCost, ModeCost, FlagCost,            \* guardrails.budget
  WarningLimit, HardLimit,                            \* 0: no limit
  GuardedAgents, GuardedModes, GuardedFlags, GuardedPaths,  \* guardrails.governance
  Asked,        \* bound: what people ask for in requests of their own, and for which run
  MaxAttempts,  \* queue.max_attempts
  MaxRequests,  \* bound: approval requests in a behaviour
  MaxCommands,  \* bound: commands about runs that exist in a behaviour
  MaxCrashes,   \* bound: processes killed in a behaviour
  None

ASSUME PolicyAssumption ==
  /\ BaseCost \in Nat /\ WarningLimit \in Nat /\ HardLimit \in Nat
  /\ HardLimit > 0 => WarningLimit <= HardLimit
  /\ \A t \in Tasks, r \in Runs : /\ AgentCost[t[r].agent] \in Nat
                                  /\ ModeCost[t[r].mode] \in Nat
                                  /\ IsFiniteSet(t[r].flags)
                                  /\ \A f \in t[r].flags : FlagCost[f] \in Nat
  /\ Workers \cap Operators = {}

ASSUME BoundAssumption ==
  /\ Asked \subseteq Runs \X {"retry", "accept", "follow_up"}
  /\ MaxAttempts \in Nat \ {0} /\ MaxRequests \in Nat \ {0}
  /\ MaxCommands \in Nat /\ MaxCrashes \in Nat

Procs == Workers \cup Operators
Actions == {"run", "retry", "accept", "follow_up"}
Decisions == {"approved", "rejected"}
Sources == {"guardrail", "human"}

\* guardrail_snapshot.json of a run, None without the file.
Snapshot == [decision : {"allow", "warn", "pause"}, units : Nat, consumed : Nat, override : BOOLEAN]
ASSUME NoneAssumption == None \notin Snapshot /\ None \notin Runs

Requests == [id : 1 .. MaxRequests, run : Runs, action : Actions, source : Sources]
GuardrailRequests == {a \in Requests : a.action = "run" /\ a.source = "guardrail"}
Resolutions == [request : Requests, decision : Decisions]

\* "none": the run has no item; "stub": it was dropped under its worker, and only
\* its id has come back, as an item that no worker can execute (see FileQueue).
QueueStates == {"none", "stub", "pending", "running", "awaiting_approval", "done", "failed"}
TaskStatuses == {"todo", "queued", "awaiting_approval", "blocked", "done"}

PCs == {"idle", "collect", "publish", "load", "evaluate", "mark", "scan", "create", "park",
        "execute", "settle", "drop", "release", "status", "record", "unlink"}

\* seen: the units in hand; then: what follows a refresh; status: what
\* resolve-approval is about to write into the task file.
Proc == [pc : PCs, cmd : {"worker", "direct", "ask", "resolve", "dashboard"},
         run : Runs \cup {None}, then : PCs, seen : Nat, code : 0 .. 2,
         request : Requests \cup {None}, decision : Decisions, status : TaskStatuses]

Idle == [pc |-> "idle", cmd |-> "ask", run |-> None, then |-> "idle", seen |-> 0, code |-> 0,
         request |-> None, decision |-> "approved", status |-> "todo"]

VARIABLES
  asks,       \* what the tasks ask for (the meta.json and job.json of the runs)
  queue,      \* state of the item of a run
  attempts,   \* queue.attempt_count
  used,       \* runs whose directory has been built
  snap,       \* guardrail snapshots of the runs
  total,      \* budget.consumed_units of budget_snapshot.json
  pending,    \* state/approvals/pending
  resolved,   \* state/approvals/resolved
  task,       \* status in the front matter of the task of a run
  proc,       \* processes
  issued,     \* approval ids given out
  commands,   \* operator commands begun
  crashes,    \* processes killed
  crowded,    \* history: did two executions or refreshes overlap?
  granted,    \* history: runs with a recorded approval of a guardrail request
  disturbed   \* history: runs of which a process was killed, or that were
              \* resolved while somebody worked on them

files == <<snap, total, pending, resolved, task>>
ghosts == <<crowded, granted, disturbed>>
vars == <<asks, queue, attempts, used, files, proc, issued, commands, crashes, ghosts>>

-----------------------------------------------------------------------------
(* The evaluation of a run. *)

Larger(a, b) == IF a >= b THEN a ELSE b

\* The sum of the f[x] of the members of S, counted one by one.
Sum(f, S) == Cardinality(UNION {{x} \X (1 .. f[x]) : x \in S})

\* estimate_budget_units.
Units(r) ==
  Larger(1, Larger(1, BaseCost) + AgentCost[asks[r].agent] + ModeCost[asks[r].mode]
              + Sum(FlagCost, asks[r].flags))

\* The governance actions of evaluate_guardrails: is there one?
Governed(r) ==
  \/ asks[r].agent \in GuardedAgents
  \/ asks[r].mode \in GuardedModes
  \/ asks[r].flags \cap GuardedFlags # {}
  \/ asks[r].paths \cap GuardedPaths # {}

\* Variant: the run may take the sum up to the limit.
EvaluationUpToLimit(r, consumed, override) ==
  LET stopped == (HardLimit > 0 /\ consumed + Units(r) > HardLimit) \/ Governed(r)
  IN  [decision |-> IF stopped /\ ~override THEN "pause" ELSE "allow",
       units |-> Units(r), consumed |-> 0, override |-> override]

\* Variant: an approval lifts the budget only.
EvaluationGovernedAnyway(r, consumed, override) ==
  LET over == HardLimit > 0 /\ consumed + Units(r) >= HardLimit
  IN  [decision |-> IF (over /\ ~override) \/ Governed(r) THEN "pause" ELSE "allow",
       units |-> Units(r), consumed |-> 0, override |-> override]

\* evaluate_guardrails.  The new snapshot has consumed nothing, whatever the one
\* it replaces had.
Evaluation(r, consumed, override) ==
  LET projected == consumed + Units(r)
      over == HardLimit > 0 /\ projected >= HardLimit
      warned == WarningLimit > 0 /\ projected >= WarningLimit
      stopped == over \/ Governed(r)
  IN  [decision |-> IF stopped /\ override THEN "allow"
                    ELSE IF stopped THEN "pause"
                    ELSE IF warned THEN "warn"
                    ELSE "allow",
       units |-> Units(r), consumed |-> 0, override |-> override]

\* summarize_project_guardrails: the sum over the snapshots there are.
charges == [r \in Runs |-> IF snap[r] = None THEN 0 ELSE snap[r].consumed]
Consumed == Sum(charges, Runs)

\* Variant: any resolution counts, a rejection too.
OverrideByAny(r) ==
  \E a \in resolved : a.request \in GuardrailRequests /\ a.request.run = r

\* load_resolved_guardrail_override.
Override(r) ==
  \E a \in resolved :
    a.request \in GuardrailRequests /\ a.request.run = r /\ a.decision = "approved"

-----------------------------------------------------------------------------
Set(p, x) == proc' = [proc EXCEPT ![p] = x]
Ends(p) == Set(p, Idle)
At(p, pc) == proc[p].pc = pc
Goes(p, pc) == Set(p, [proc[p] EXCEPT !.pc = pc])

\* refresh_guardrail_snapshot, with what comes after it.
Refresh(x, next) == [x EXCEPT !.pc = "collect", !.then = next]

\* Executions and refreshes; the others leave the budget alone.
Counting(p) == proc[p].pc # "idle" /\ proc[p].cmd \in {"worker", "direct", "dashboard"}
Crowds(p) == crowded' = (crowded \/ \E q \in Procs \ {p} : Counting(q))

WorkingOn(r) == {p \in Procs : proc[p].pc # "idle" /\ proc[p].run = r}
Meets(p, r) == disturbed' = disturbed \cup (IF WorkingOn(r) \ {p} = {} THEN {} ELSE {r})

Init ==
  /\ asks \in Tasks
  /\ queue = [r \in Runs |-> "none"] /\ attempts = [r \in Runs |-> 0]
  /\ used = {} /\ snap = [r \in Runs |-> None] /\ total = 0
  /\ pending = {} /\ resolved = {} /\ task = [r \in Runs |-> "todo"]
  /\ proc = [p \in Procs |-> Idle]
  /\ issued = 0 /\ commands = 0 /\ crashes = 0
  /\ crowded = FALSE /\ granted = {} /\ disturbed = {}

-----------------------------------------------------------------------------
(* The beginning of an execution. *)

\* cmd_worker takes an item of the queue.
Claim(w, r) ==
  /\ At(w, "idle") /\ queue[r] = "pending"
  /\ queue' = [queue EXCEPT ![r] = "running"]
  /\ attempts' = [attempts EXCEPT ![r] = @ + 1]
  /\ Set(w, Refresh([Idle EXCEPT !.cmd = "worker", !.run = r], "load"))
  /\ Crowds(w) /\ Meets(w, r) /\ UNCHANGED granted
  /\ UNCHANGED <<asks, used, files, issued, commands, crashes>>

Command(p) == At(p, "idle") /\ commands < MaxCommands /\ commands' = commands + 1

\* cmd_run --execute.
Direct(p, r) ==
  /\ At(p, "idle") /\ r \notin used
  /\ used' = used \cup {r}
  /\ Set(p, Refresh([Idle EXCEPT !.cmd = "direct", !.run = r], "load"))
  /\ Crowds(p) /\ UNCHANGED <<granted, disturbed>>
  /\ UNCHANGED <<asks, queue, attempts, files, issued, commands, crashes>>

\* cmd_enqueue and cmd_run --enqueue, with or without --awaiting-approval.
Enqueue(p, r) ==
  /\ At(p, "idle") /\ r \notin used
  /\ used' = used \cup {r}
  /\ \E state \in {"pending", "awaiting_approval"} : queue' = [queue EXCEPT ![r] = state]
  /\ UNCHANGED <<asks, attempts, files, proc, issued, commands, crashes, ghosts>>

\* build_project_dashboard refreshes the budget, too.
Dashboard(p) ==
  /\ Command(p)
  /\ Set(p, Refresh([Idle EXCEPT !.cmd = "dashboard"], "idle"))
  /\ Crowds(p) /\ UNCHANGED <<granted, disturbed>>
  /\ UNCHANGED <<asks, queue, attempts, used, files, issued, crashes>>

-----------------------------------------------------------------------------
(* preflight_guardrails *)

Collect(p) ==
  /\ At(p, "collect")
  /\ Set(p, [proc[p] EXCEPT !.pc = "publish", !.seen = Consumed])
  /\ UNCHANGED <<asks, queue, attempts, used, files, issued, commands, crashes, ghosts>>

Publish(p) ==
  /\ At(p, "publish")
  /\ total' = proc[p].seen
  /\ IF proc[p].then = "idle" THEN Ends(p) ELSE Set(p, [proc[p] EXCEPT !.pc = proc[p].then, !.then = "idle", !.seen = 0])
  /\ UNCHANGED <<asks, queue, attempts, used, snap, pending, resolved, task, issued, commands, crashes, ghosts>>

\* load_guardrail_project_snapshot.
Load(p) ==
  /\ At(p, "load")
  /\ Set(p, [proc[p] EXCEPT !.pc = "evaluate", !.seen = total])
  /\ UNCHANGED <<asks, queue, attempts, used, files, issued, commands, crashes, ghosts>>

Evaluate(p) ==
  /\ At(p, "evaluate")
  /\ LET r == proc[p].run
         new == Evaluation(r, proc[p].seen, Override(r))
     IN  /\ snap' = [snap EXCEPT ![r] = new]
         /\ Set(p, Refresh([proc[p] EXCEPT !.seen = 0],
                           IF new.decision = "pause" THEN "mark" ELSE "execute"))
  /\ UNCHANGED <<asks, queue, attempts, used, total, pending, resolved, task, issued, commands, crashes, ghosts>>

-----------------------------------------------------------------------------
(* pause_run_for_guardrail *)

Mark(p) ==
  /\ At(p, "mark")
  /\ task' = [task EXCEPT ![proc[p].run] = "awaiting_approval"]
  /\ Set(p, [proc[p] EXCEPT !.pc = "scan",
                            !.request = [id |-> 1, run |-> proc[p].run,
                                         action |-> "run", source |-> "guardrail"]])
  /\ UNCHANGED <<asks, queue, attempts, used, snap, total, pending, resolved, issued, commands, crashes, ghosts>>

\* After create_approval_request: a worker parks its item, the others have none.
AfterAsking(x) ==
  CASE x.cmd = "worker" -> [x EXCEPT !.pc = "park", !.request = None]
    [] x.cmd = "direct" -> Refresh([x EXCEPT !.request = None], "idle")
    [] OTHER -> Idle

\* Variant: the run is not compared.
ScanAnyRun(p) ==
  /\ At(p, "scan")
  /\ IF \E a \in pending : a.action = proc[p].request.action /\ a.source = proc[p].request.source
       THEN Set(p, AfterAsking(proc[p])) ELSE Goes(p, "create")
  /\ UNCHANGED <<asks, queue, attempts, used, files, issued, commands, crashes, ghosts>>

\* create_approval_request looks for the same request among the pending ones (the
\* reasons count, too: a person may give another, those of a guardrail's requests about
\* one run are the same) ...
Scan(p) ==
  /\ At(p, "scan")
  /\ \/ /\ \E a \in pending : [a EXCEPT !.id = 1] = proc[p].request
        /\ Set(p, AfterAsking(proc[p]))
     \/ /\ proc[p].cmd = "ask" \/ \A a \in pending : [a EXCEPT !.id = 1] # proc[p].request
        /\ Goes(p, "create")
  /\ UNCHANGED <<asks, queue, attempts, used, files, issued, commands, crashes, ghosts>>

\* ... and makes one if there is none.
Create(p) ==
  /\ At(p, "create") /\ issued < MaxRequests
  /\ issued' = issued + 1
  /\ pending' = pending \cup {[proc[p].request EXCEPT !.id = issued + 1]}
  /\ Set(p, AfterAsking(proc[p]))
  /\ UNCHANGED <<asks, queue, attempts, used, snap, total, resolved, task, commands, crashes, ghosts>>

\* A transition of the item the worker has claimed; of a dropped one it makes a stub.
Moves(r, state) ==
  queue' = [queue EXCEPT ![r] = CASE @ = "running" -> state
                                  [] @ = "none" -> "stub"
                                  [] OTHER -> @]

\* FileQueue.await_approval.
Park(p) ==
  /\ At(p, "park")
  /\ Moves(proc[p].run, "awaiting_approval")
  /\ Set(p, Refresh(proc[p], "idle"))
  /\ UNCHANGED <<asks, attempts, used, files, issued, commands, crashes, ghosts>>

-----------------------------------------------------------------------------
(* The execution and finalize_guardrails. *)

Charged(s, code) == IF code \in {0, 2} THEN [s EXCEPT !.consumed = s.units] ELSE s

\* The agent ends, 0 for success and 2 before a checkpoint, and its run is charged.
Execute(p) ==
  /\ At(p, "execute")
  /\ \E code \in 0 .. 2 :
       /\ snap' = [snap EXCEPT ![proc[p].run] = Charged(@, code)]
       /\ Set(p, IF proc[p].cmd = "worker" THEN Refresh([proc[p] EXCEPT !.code = code], "settle")
                                          ELSE Refresh(proc[p], "idle"))
  /\ UNCHANGED <<asks, queue, attempts, used, total, pending, resolved, task, issued, commands, crashes, ghosts>>

\* Of code 2 the worker reads whether a checkpoint is pending: without one it is an error.
Settle(p) ==
  /\ At(p, "settle")
  /\ LET r == proc[p].run
         code == proc[p].code
     IN  \/ code = 0 /\ Moves(r, "done")
         \/ code = 2 /\ Moves(r, "awaiting_approval")
         \/ code # 0 /\ Moves(r, IF attempts[r] < MaxAttempts THEN "pending" ELSE "failed")
  /\ Ends(p)
  /\ UNCHANGED <<asks, attempts, used, files, issued, commands, crashes, ghosts>>

-----------------------------------------------------------------------------
(* People. *)

\* cmd_ask_human, and the requests the orchestrate loop makes for failed runs.
AskHuman(p, r) ==
  /\ Command(p) /\ r \in used
  /\ \E action \in Actions :
       /\ <<r, action>> \in Asked
       /\ Set(p, [Idle EXCEPT !.pc = "scan", !.cmd = "ask", !.run = r,
                    !.request = [id |-> 1, run |-> r, action |-> action, source |-> "human"]])
  /\ UNCHANGED <<asks, queue, attempts, used, files, issued, crashes, ghosts>>

\* cmd_resolve_approval reads the pending request.
Resolve(p) ==
  /\ Command(p)
  /\ \E a \in pending, d \in Decisions :
       LET first == CASE a.action = "retry" /\ d = "approved" -> <<"drop", "todo">>
                      [] a.action = "accept" /\ d = "approved" -> <<"status", "done">>
                      [] a.action = "run" /\ d = "approved" -> <<"release", "queued">>
                      [] a.action = "run" /\ d = "rejected" -> <<"status", "blocked">>
                      [] OTHER -> <<"record", "todo">>
       IN  /\ Set(p, [Idle EXCEPT !.pc = first[1], !.cmd = "resolve", !.run = a.run,
                        !.request = a, !.decision = d, !.status = first[2]])
           /\ Meets(p, a.run)
  /\ UNCHANGED <<asks, queue, attempts, used, files, issued, crashes, crowded, granted>>

\* drop_queue_job, in whatever state the item is.
Drop(p) ==
  /\ At(p, "drop")
  /\ queue' = [queue EXCEPT ![proc[p].run] = "none"]
  /\ Goes(p, "status")
  /\ UNCHANGED <<asks, attempts, used, files, issued, commands, crashes, ghosts>>

\* FileQueue.approve, or else enqueue_run, which raises for a job it finds on the
\* queue in another state.  A stub stays one, wherever it is.
Release(p) ==
  /\ At(p, "release")
  /\ LET r == proc[p].run IN
       IF queue[r] = "stub" THEN (Goes(p, "status") \/ Ends(p)) /\ UNCHANGED <<asks, queue, attempts>>
       ELSE IF queue[r] \in {"awaiting_approval", "none"}
       THEN /\ queue' = [queue EXCEPT ![r] = "pending"]
            /\ attempts' = [attempts EXCEPT ![r] = IF queue[r] = "none" THEN 0 ELSE @]
            /\ Goes(p, "status")
       ELSE Ends(p) /\ UNCHANGED <<asks, queue, attempts>>
  /\ UNCHANGED <<asks, used, files, issued, commands, crashes, ghosts>>

\* update_task_status with persist_task_lifecycle, which keeps the status.
Status(p) ==
  /\ At(p, "status")
  /\ task' = [task EXCEPT ![proc[p].run] = proc[p].status]
  /\ Goes(p, "record")
  /\ UNCHANGED <<asks, queue, attempts, used, snap, total, pending, resolved, issued, commands, crashes, ghosts>>

Record(p) ==
  /\ At(p, "record")
  /\ resolved' = {a \in resolved : a.request # proc[p].request}
                   \cup {[request |-> proc[p].request, decision |-> proc[p].decision]}
  /\ granted' = granted \cup
       (IF proc[p].request \in GuardrailRequests /\ proc[p].decision = "approved" THEN {proc[p].run} ELSE {})
  /\ Goes(p, "unlink")
  /\ UNCHANGED <<asks, queue, attempts, used, snap, total, pending, task, issued, commands, crashes, crowded, disturbed>>

Unlink(p) ==
  /\ At(p, "unlink")
  /\ pending' = pending \ {proc[p].request}
  /\ Ends(p)
  /\ UNCHANGED <<asks, queue, attempts, used, snap, total, resolved, task, issued, commands, crashes, ghosts>>

\* claw approve and resolve-checkpoint: the item itself is released.
ApproveItem(r) ==
  /\ commands < MaxCommands /\ commands' = commands + 1
  /\ queue[r] = "awaiting_approval"
  /\ queue' = [queue EXCEPT ![r] = "pending"]
  /\ Meets(None, r) /\ UNCHANGED <<crowded, granted>>
  /\ UNCHANGED <<asks, attempts, used, files, proc, issued, crashes>>

\* Variant: whether its worker is gone or not.
ReclaimAnyway(r) ==
  /\ queue[r] = "running"
  /\ queue' = [queue EXCEPT ![r] = IF attempts[r] < MaxAttempts THEN "pending" ELSE "failed"]
  /\ UNCHANGED <<asks, attempts, used, files, proc, issued, commands, crashes, ghosts>>

\* The item of a worker that is gone is reclaimed.
Reclaim(r) ==
  /\ queue[r] = "running" /\ \A w \in Workers : proc[w].run # r
  /\ queue' = [queue EXCEPT ![r] = IF attempts[r] < MaxAttempts THEN "pending" ELSE "failed"]
  /\ UNCHANGED <<asks, attempts, used, files, proc, issued, commands, crashes, ghosts>>

Crash(p) ==
  /\ ~At(p, "idle") /\ crashes < MaxCrashes
  /\ crashes' = crashes + 1
  /\ disturbed' = disturbed \cup ({proc[p].run} \ {None})
  /\ Ends(p)
  /\ UNCHANGED <<asks, queue, attempts, used, files, issued, commands, crowded, granted>>

-----------------------------------------------------------------------------
Step(p) ==
  \/ Collect(p) \/ Publish(p) \/ Load(p) \/ Evaluate(p)
  \/ Mark(p) \/ Scan(p) \/ Create(p) \/ Park(p)
  \/ Execute(p) \/ Settle(p)
  \/ Drop(p) \/ Release(p) \/ Status(p) \/ Record(p) \/ Unlink(p)

Begin(p) ==
  \/ Dashboard(p) \/ Resolve(p)
  \/ \E r \in Runs : Direct(p, r) \/ Enqueue(p, r) \/ AskHuman(p, r)

Next ==
  \/ \E w \in Workers, r \in Runs : Claim(w, r)
  \/ \E p \in Procs : Step(p) \/ Crash(p)
  \/ \E p \in Operators : Begin(p)
  \/ \E r \in Runs : ApproveItem(r) \/ Reclaim(r)

Spec == Init /\ [][Next]_vars

-----------------------------------------------------------------------------
\* Every variable keeps to its type: what a process has in hand is what the file
\* it will write may hold (preflight_guardrails, create_approval_request).
TypeOK ==
  /\ asks \in Tasks
  /\ queue \in [Runs -> QueueStates] /\ attempts \in [Runs -> Nat]
  /\ used \subseteq Runs /\ snap \in [Runs -> Snapshot \cup {None}] /\ total \in Nat
  /\ pending \subseteq Requests /\ resolved \subseteq Resolutions
  /\ task \in [Runs -> TaskStatuses]
  /\ proc \in [Procs -> Proc]
  /\ issued \in 0 .. MaxRequests /\ commands \in 0 .. MaxCommands /\ crashes \in 0 .. MaxCrashes
  /\ crowded \in BOOLEAN /\ granted \subseteq Runs /\ disturbed \subseteq Runs

Executing(r) == \E p \in WorkingOn(r) : proc[p].pc = "execute"

\* No agent is started for a run the governance rules guard before a person has
\* approved the guardrail's request for this run, whoever starts it, is killed or
\* decides meanwhile (preflight_guardrails before both executions).
GovernedRunsApproved == \A r \in Runs : Executing(r) /\ Governed(r) => r \in granted

Unapproved == {r \in Runs : snap[r] # None /\ ~snap[r].override}

\* As long as executions and refreshes come one at a time, the units charged for
\* runs nobody approved stay below the hard limit, through retries, checkpoints
\* and kills (preflight_guardrails, finalize_guardrails).
BudgetHeld ==
  HardLimit > 0 /\ ~crowded =>
    \/ Unapproved = {}
    \/ Sum(charges, Unapproved) < HardLimit

\* A task that says awaiting_approval, and on whose run nobody is at work, has a
\* pending request that asks to run it: without one nobody could tell what it is
\* waiting for (pause_run_for_guardrail, resolve_approval_request).
WaitingHasRequest ==
  \A r \in Runs \ disturbed :
    task[r] = "awaiting_approval" /\ WorkingOn(r) = {}
      => \E a \in pending \cap GuardrailRequests : a.run = r

\* A run whose approval has been recorded is not paused again, be it by the
\* budget or by the governance rules, and however many retries, checkpoints and
\* other requests follow (load_resolved_guardrail_override, evaluate_guardrails).
NotPausedAgain ==
  \A p \in Procs : At(p, "mark") => proc[p].run \notin granted \ disturbed

\* The item is in the hands of this worker: it has claimed it, and neither parked nor
\* settled it yet.  Before the agent is started it prepares the run.
Holds(w, r) ==
  /\ proc[w].cmd = "worker" /\ proc[w].pc # "idle" /\ proc[w].run = r
  /\ ~(proc[w].pc \in {"collect", "publish"} /\ proc[w].then = "idle")
Preparing(w, r) ==
  /\ Holds(w, r)
  /\ \/ proc[w].pc \in {"load", "evaluate"}
     \/ proc[w].pc \in {"collect", "publish"} /\ proc[w].then \in {"load", "execute"}

\* The queue as the job of a run sees it (see JobLifecycle, which FileQueue implements).
Lifecycle(r) == INSTANCE JobLifecycle WITH
  Jobs      <- {r},
  where     <- [j \in {r} |-> {queue[j]} \ {"none", "stub"}],
  claimants <- [j \in {r} |-> {w \in Workers : Preparing(w, j)}],
  executors <- [j \in {r} |-> {w \in Workers : Holds(w, j) /\ proc[w].pc = "execute"}]

\* A worker that has the item finds it running, and is the only one that has it.
Intact(r) ==
  \A w \in Workers : Holds(w, r) =>
    queue[r] = "running" /\ \A v \in Workers : Holds(v, r) => v = w

\* Guardrails, approvals, kills and reclaims move the item of a run as the queue
\* promises, and leave a worker that has it alone with it.  Only a run that is resolved
\* while somebody works on it may lose this, to an approved retry that drops the item
\* under its worker (cmd_worker, pause_run_for_guardrail, resolve_approval_request).
FollowsLifecycle ==
  [][\A r \in Runs : r \notin disturbed \/ Intact(r) =>
       \/ Intact(r)' /\ (UNCHANGED Lifecycle(r)!lifecycle \/ Lifecycle(r)!Next)
       \/ Lifecycle(r)!Drop(r)]_vars
=============================================================================
