------------------------------ MODULE RunControl ------------------------------
(***************************************************************************)
(* One job from its claim to its settlement, and the commands that stop    *)
(* it: the worker loop (cmd_worker of scripts/claw.py), the execution of   *)
(* the agent (main and stream_agent_output of scripts/execute_job.py), the *)
(* control file of a run (_system/engine/runtime_control.py), stop-task    *)
(* and operator-cancel of scripts/claw.py, and the two records that tell   *)
(* people what became of the job: the entry of its task in                 *)
(* orchestration_state.json and the operator job.                          *)
(*                                                                         *)
(* Nobody locks the control file or the entries: whoever changes one loads *)
(* the file, changes its copy and replaces the file by it.  Each load and  *)
(* each replacement is an action, so that others come in between.  The     *)
(* moves of the queue are single steps here; module FileQueue takes them   *)
(* apart.                                                                  *)
(***************************************************************************)
EXTENDS Naturals, FiniteSets

CONSTANTS
  Workers,      \* processes of claw worker
  Stoppers,     \* processes of claw stop-task and claw operator-cancel
  MaxAttempts,  \* queue.max_attempts of the job
  MaxHelpers,   \* bound: agents of the job with a helper at the same time
  MaxRuns,      \* bound: executions of the job in a behaviour
  MaxStops,     \* bound: stop and cancel commands in a behaviour
  None

ASSUME RunAssumption ==
  /\ MaxAttempts \in Nat \ {0} /\ MaxRuns \in Nat \ {0} /\ MaxStops \in Nat
  /\ MaxHelpers \in Nat

Runs == 1 .. MaxRuns

Outcomes == {None, "requested", "killed", "not_running", "unsupported"}
TaskStatuses == {"pending", "running", "completed", "failed", "killed"}
Terminal == {"completed", "failed", "killed"}

\* task_control.json.  pid is the number of the execution whose agent it names,
\* 0 for none: every agent leads a process group of its own.
Control == [pid : 0 .. MaxRuns, req : BOOLEAN, out : Outcomes]
Fresh == [pid |-> 0, req |-> FALSE, out |-> None]

\* result.json with its copy of the outcome of a stop.
Result == [status : {"created", "running", "success", "failed"}, out : Outcomes]

\* The entry of the task in orchestration_state.json; None when it is evicted.
Entry == [status : TaskStatuses, notified : BOOLEAN, req : BOOLEAN, out : Outcomes]

\* None is no file, and no outcome of a stop.
ASSUME NoneAssumption ==
  None \notin Control \cup Entry \cup {"requested", "killed", "not_running", "unsupported"}

\* The agent of an execution: its first process, which is a zombie until it is
\* waited for; the other processes of its group, of which one shares its output or
\* all are detached from it; its exit code.  A lost agent runs, it or a helper of
\* it, although nobody waits for it.
Agent == [leader : {"none", "up", "zombie", "gone", "lost"},
          helper : {"none", "sharing", "detached"}, code : 0 .. 2]

\* A worker together with the execute_job process it waits for.
WorkerPCs == {"idle", "feed", "put", "load", "save", "begin", "pause", "init", "spawn",
              "record_read", "record_write", "wait", "drain", "check", "end_read",
              "end_write", "reread", "verdict", "settle"}
Worker == [pc : WorkerPCs, phase : {"claimed", "started", "paused", "finished"},
           control : Control \cup {None}, entry : Entry \cup {None}, code : 0 .. 2,
           verdict : {None, "running", "success", "failed", "created", "cancelled", "cancel_requested"},
           status : TaskStatuses \cup {"queued", "cancelled"}]

StopperPCs == {"idle", "where", "withdraw", "void_load", "void_save", "void_put", "look",
               "mark_read", "mark_write", "signal", "fin_read", "fin_write", "reload",
               "sync_read", "sync_write", "update"}
Stopper == [pc : StopperPCs, cmd : {"stop", "cancel"}, force : BOOLEAN,
            control : Control \cup {None}, entry : Entry \cup {None},
            res : Outcomes \cup {"missing_control"}]

AtRest == [pc |-> "idle", phase |-> "claimed", control |-> None, entry |-> None,
           code |-> 1, verdict |-> None, status |-> "pending"]
NoCommand == [pc |-> "idle", cmd |-> "stop", force |-> FALSE, control |-> None,
              entry |-> None, res |-> None]

VARIABLES
  kind,        \* type of the runtime task: only local ones can be stopped
  queue,       \* state of the job's item
  attempt,     \* executions begun
  checkpoint,  \* approval_checkpoint.json: absent or its status and decision
  control,     \* task_control.json
  result,      \* result.json (and meta.json)
  entry,       \* entry of the task in orchestration_state.json
  record,      \* status of the operator job ("cancelling": running, by its phase)
  agent,       \* the agents of the executions
  work,        \* workers
  stop,        \* stoppers
  stops,       \* commands begun
  asked,       \* history: was a stop of this execution written down?
  signalled,   \* history: was the agent of this execution sent a signal?
  accepted,    \* history: was this execution cancelled before it had an agent?
  overlap      \* history: a command ran while a worker was at the files

files == <<control, result, entry, record>>
ghosts == <<asked, signalled, accepted>>
vars == <<kind, queue, attempt, checkpoint, files, agent, work, stop, stops, ghosts, overlap>>

Init ==
  /\ kind \in {"local_agent", "remote_agent"}
  /\ queue = "pending" /\ attempt = 0 /\ checkpoint = "absent"
  /\ control = None
  /\ result = [status |-> "created", out |-> None]
  /\ entry = [status |-> "pending", notified |-> FALSE, req |-> FALSE, out |-> None]
  /\ record = "queued"
  /\ agent = [a \in Runs |-> [leader |-> "none", helper |-> "none", code |-> 0]]
  /\ work = [w \in Workers |-> AtRest]
  /\ stop = [s \in Stoppers |-> NoCommand]
  /\ stops = 0
  /\ asked = FALSE /\ signalled = FALSE /\ accepted = FALSE
  /\ overlap = FALSE

Work(w, r) == work' = [work EXCEPT ![w] = r]
Stop(s, r) == stop' = [stop EXCEPT ![s] = r]

WorkerOnly == <<kind, stop, stops, ghosts>>
QueueVars == <<queue, attempt, checkpoint>>

\* persist_task_lifecycle: the entry with a new status; its stop is kept.
Persisted(e, status, notified) ==
  [status |-> status, notified |-> notified,
   req |-> e # None /\ e.req, out |-> IF e = None THEN None ELSE e.out]

\* resolve_effective_result_status: the stop of the result, of the control file
\* when that says killed, or else the status of the result.
Effective ==
  IF result.out = "killed" THEN "cancelled"
  ELSE IF result.out = "requested" THEN "cancel_requested"
  ELSE IF control # None /\ control.out = "killed" THEN "cancelled"
  ELSE result.status

\* Variant: an item that has left running has failed if it is not done.
DerivedFromQueue(q, verdict) ==
  CASE q \in {"pending", "awaiting_approval"} -> "queued"
    [] q = "running" -> "running"
    [] q = "done" -> "completed"
    [] OTHER -> "failed"

\* derive_operator_job_status of the live status feed.
Derived(q, verdict) ==
  IF q \in {"pending", "awaiting_approval"} THEN "queued"
  ELSE IF q = "running" THEN "running"
  ELSE IF verdict = "cancelled" THEN "cancelled"
  ELSE IF verdict = "success" THEN "completed"
  ELSE IF q \in {"failed", "dead_letter"} \/ verdict = "failed" THEN "failed"
  ELSE "queued"

------------------------------------------------------------------------------
(* The worker *)

Claim(w) ==
  /\ work[w].pc = "idle"
  /\ queue = "pending" /\ attempt < MaxRuns
  /\ queue' = "running" /\ attempt' = attempt + 1
  /\ asked' = FALSE /\ signalled' = FALSE /\ accepted' = FALSE
  /\ Work(w, [AtRest EXCEPT !.pc = "feed"])
  /\ UNCHANGED <<kind, checkpoint, files, agent, stop, stops>>

\* sync_operator_job_record: the feed is built, then the operator job updated
\* under its lock.
Feed(w) ==
  /\ work[w].pc = "feed"
  /\ Work(w, [work[w] EXCEPT !.pc = "put", !.status = Derived(queue, Effective)])
  /\ UNCHANGED <<QueueVars, files, agent, WorkerOnly>>

Put(w) ==
  /\ work[w].pc = "put"
  /\ record' = work[w].status
  /\ Work(w, CASE work[w].phase = "claimed" -> [work[w] EXCEPT !.pc = "begin"]
               [] work[w].phase = "started" -> [work[w] EXCEPT !.pc = "init"]
               [] OTHER -> AtRest)
  /\ UNCHANGED <<QueueVars, control, result, entry, agent, WorkerOnly>>

\* The guardrails let the run go on or pause it.
Begin(w) ==
  /\ work[w].pc = "begin"
  /\ \/ Work(w, [work[w] EXCEPT !.pc = "load", !.phase = "started", !.status = "running"])
     \/ Work(w, [work[w] EXCEPT !.pc = "load", !.phase = "paused", !.status = "pending"])
  /\ UNCHANGED <<QueueVars, files, agent, WorkerOnly>>

\* persist_task_lifecycle; a run that is over counts as told when its item is
\* done or a dead letter.
Load(w) ==
  /\ work[w].pc = "load"
  /\ Work(w, [work[w] EXCEPT !.pc = "save", !.entry = entry])
  /\ UNCHANGED <<QueueVars, files, agent, WorkerOnly>>

Save(w) ==
  /\ work[w].pc = "save"
  /\ entry' = Persisted(work[w].entry, work[w].status, work[w].status \in {"completed", "failed"})
  /\ Work(w, [work[w] EXCEPT !.entry = None,
                !.pc = IF work[w].phase = "paused" THEN "pause" ELSE "feed"])
  /\ UNCHANGED <<QueueVars, control, result, record, agent, WorkerOnly>>

Pause(w) ==
  /\ work[w].pc = "pause"
  /\ queue' = "awaiting_approval"
  /\ Work(w, [work[w] EXCEPT !.pc = "feed"])
  /\ UNCHANGED <<attempt, checkpoint, files, agent, WorkerOnly>>

\* The run is read back.
Judge(w) ==
  /\ work[w].pc = "verdict"
  /\ Work(w, [work[w] EXCEPT !.pc = "settle", !.verdict = Effective])
  /\ UNCHANGED <<QueueVars, files, agent, WorkerOnly>>

\* Variant: the exit code decides alone.
DestinationByCode(r) ==
  IF r.code = 0 THEN "done"
  ELSE IF r.code = 2 /\ checkpoint = "pending" THEN "awaiting_approval"
  ELSE IF attempt < MaxAttempts THEN "pending"
  ELSE "dead_letter"

\* Where the item of a run goes.  A failed one with attempts left is retried,
\* which takes it from failed to pending.
Destination(r) ==
  IF r.verdict = "cancelled" THEN "failed"
  ELSE IF r.code = 0 THEN "done"
  ELSE IF r.code = 2 /\ checkpoint = "pending" THEN "awaiting_approval"
  ELSE IF attempt < MaxAttempts THEN "pending"
  ELSE "dead_letter"

\* Variant: a cancelled run stays to be done.
SettledPending(r, dest) ==
  IF dest = "done" THEN IF r.verdict = "success" THEN "completed" ELSE "failed"
  ELSE IF dest = "dead_letter" THEN "failed"
  ELSE "pending"

\* The status of the task that goes with it.
Settled(r, dest) ==
  IF dest = "done" THEN IF r.verdict = "success" THEN "completed" ELSE "failed"
  ELSE IF dest = "dead_letter" THEN "failed"
  ELSE IF r.verdict = "cancelled" THEN "killed"
  ELSE "pending"

Settle(w) ==
  LET dest == Destination(work[w])
  IN  /\ work[w].pc = "settle"
      /\ queue' = dest
      /\ Work(w, [AtRest EXCEPT !.pc = "load", !.phase = "finished",
                    !.status = Settled(work[w], dest)])
      /\ UNCHANGED <<attempt, checkpoint, files, agent, WorkerOnly>>

------------------------------------------------------------------------------
(* execute_job.py *)

\* Variant: a control file that is there is kept.
InitializeOnce(w) ==
  /\ work[w].pc = "init"
  /\ result' = [result EXCEPT !.status = "running"]
  /\ control' = IF control = None THEN Fresh ELSE control
  /\ Work(w, [work[w] EXCEPT !.pc = "spawn"])
  /\ UNCHANGED <<QueueVars, entry, record, agent, WorkerOnly>>

\* result.json says running, but keeps the stop of an earlier execution;
\* initialize_run_control replaces the control file by a fresh one.
Initialize(w) ==
  /\ work[w].pc = "init"
  /\ result' = [result EXCEPT !.status = "running"]
  /\ control' = Fresh
  /\ Work(w, [work[w] EXCEPT !.pc = "spawn"])
  /\ UNCHANGED <<QueueVars, entry, record, agent, WorkerOnly>>

\* Without a prompt, an agent or a workspace execute_job.py ends before all that.
Refuse(w) ==
  /\ work[w].pc = "init"
  /\ Work(w, [work[w] EXCEPT !.pc = "verdict", !.code = 1])
  /\ UNCHANGED <<QueueVars, files, agent, WorkerOnly>>

\* The command of the agent is started or not found.
Spawn(w) ==
  /\ work[w].pc = "spawn"
  /\ \/ /\ agent' = [agent EXCEPT ![attempt].leader = "up"]
        /\ Work(w, [work[w] EXCEPT !.pc = "record_read"])
     \/ /\ Work(w, [work[w] EXCEPT !.pc = "check"])
        /\ UNCHANGED agent
  /\ UNCHANGED <<QueueVars, files, WorkerOnly>>

RecordRead(w) ==
  /\ work[w].pc = "record_read"
  /\ Work(w, [work[w] EXCEPT !.pc = "record_write", !.control = control])
  /\ UNCHANGED <<QueueVars, files, agent, WorkerOnly>>

RecordWrite(w) ==
  /\ work[w].pc = "record_write"
  /\ control' = [work[w].control EXCEPT !.pid = attempt]
  /\ Work(w, [work[w] EXCEPT !.pc = "wait", !.control = None])
  /\ UNCHANGED <<QueueVars, result, entry, record, agent, WorkerOnly>>

\* An error between the start of the agent and the wait for it (the control
\* file or the stream cannot be written) ends the run and not the agent.
RecordFails(w) ==
  /\ work[w].pc = "record_write"
  /\ agent' = [agent EXCEPT ![attempt].leader =
                  IF @ = "up" \/ agent[attempt].helper = "sharing" THEN "lost" ELSE "gone"]
  /\ Work(w, [work[w] EXCEPT !.pc = "check", !.control = None])
  /\ UNCHANGED <<QueueVars, files, WorkerOnly>>

Reap(w) ==
  /\ work[w].pc = "wait" /\ agent[attempt].leader = "zombie"
  /\ agent' = [agent EXCEPT ![attempt] = [@ EXCEPT !.leader = "gone", !.code = 0]]
  /\ Work(w, [work[w] EXCEPT !.pc = "drain", !.code = agent[attempt].code])
  /\ UNCHANGED <<QueueVars, files, WorkerOnly>>

\* The timeout: proc.kill ends the first process of the agent and no other, and
\* nobody waits for it.
Expire(w) ==
  /\ work[w].pc = "wait" /\ agent[attempt].leader = "up"
  /\ agent' = [agent EXCEPT ![attempt] = [@ EXCEPT !.leader = "zombie", !.code = 1]]
  /\ Work(w, [work[w] EXCEPT !.pc = "drain", !.code = 1])
  /\ UNCHANGED <<QueueVars, files, WorkerOnly>>

\* Variant: the threads are not waited for.
DrainNot(w) ==
  /\ work[w].pc = "drain"
  /\ Work(w, [work[w] EXCEPT !.pc = "check"])
  /\ UNCHANGED <<QueueVars, files, agent, WorkerOnly>>

\* The threads that read the output end when nobody has it open any more.
Drain(w) ==
  /\ work[w].pc = "drain" /\ agent[attempt].helper # "sharing"
  /\ Work(w, [work[w] EXCEPT !.pc = "check"])
  /\ UNCHANGED <<QueueVars, files, agent, WorkerOnly>>

\* execute_job has written its result and ends; so does a zombie it left.
Finished(w, code, out) ==
  /\ result' = [status |-> IF code = 0 THEN "success" ELSE "failed", out |-> out]
  /\ agent' = IF agent[attempt].leader # "zombie" THEN agent
              ELSE [agent EXCEPT ![attempt] = [@ EXCEPT !.leader = "gone", !.code = 0]]
  /\ Work(w, [work[w] EXCEPT !.pc = "verdict", !.code = code])

\* A successful agent that wrote a checkpoint turns into exit code 2; then the
\* control file is looked at.
Check(w) ==
  LET code == IF work[w].code = 0 /\ checkpoint = "pending" THEN 2 ELSE work[w].code
  IN  /\ work[w].pc = "check"
      /\ IF control.req
         THEN /\ Work(w, [work[w] EXCEPT !.pc = "end_read", !.code = code])
              /\ UNCHANGED <<result, agent>>
         ELSE Finished(w, code, control.out)
      /\ UNCHANGED <<QueueVars, control, entry, record, WorkerOnly>>

\* finalize_stop_state with outcome killed, and the copy for the result.
EndRead(w) ==
  /\ work[w].pc = "end_read"
  /\ Work(w, [work[w] EXCEPT !.pc = "end_write", !.control = control])
  /\ UNCHANGED <<QueueVars, files, agent, WorkerOnly>>

EndWrite(w) ==
  /\ work[w].pc = "end_write"
  /\ control' = [work[w].control EXCEPT !.out = "killed"]
  /\ Work(w, [work[w] EXCEPT !.pc = "reread", !.control = None])
  /\ UNCHANGED <<QueueVars, result, entry, record, agent, WorkerOnly>>

Reread(w) ==
  /\ work[w].pc = "reread"
  /\ Finished(w, work[w].code, control.out)
  /\ UNCHANGED <<QueueVars, control, entry, record, WorkerOnly>>

ExecutorStep(w) ==
  \/ Initialize(w) \/ Refuse(w) \/ Spawn(w) \/ RecordRead(w) \/ RecordWrite(w) \/ RecordFails(w)
  \/ Reap(w) \/ Expire(w) \/ Drain(w) \/ Check(w) \/ EndRead(w) \/ EndWrite(w) \/ Reread(w)

WorkerStep(w) ==
  \/ Claim(w) \/ Feed(w) \/ Put(w) \/ Begin(w) \/ Load(w) \/ Save(w) \/ Pause(w)
  \/ ExecutorStep(w) \/ Judge(w) \/ Settle(w)

------------------------------------------------------------------------------
(* Agents and approvals *)

\* An agent asks for an approval, starts a helper, which inherits its output or has it
\* redirected, or exits; on SIGTERM it does whatever it likes, which includes all of
\* these.  A helper ends when it likes, or gives up the output before: it redirects it,
\* or the thread that reads it has failed.
AgentStep(a) ==
  /\ \/ /\ agent[a].leader \in {"up", "lost"} /\ checkpoint # "pending"
        /\ checkpoint' = "pending" /\ UNCHANGED agent
     \/ /\ agent[a].leader = "up" /\ agent[a].helper = "none"
        /\ Cardinality({b \in Runs : agent[b].helper # "none"}) < MaxHelpers
        /\ \E h \in {"sharing", "detached"} : agent' = [agent EXCEPT ![a].helper = h]
        /\ UNCHANGED checkpoint
     \/ /\ agent[a].leader = "up"
        /\ \E c \in 0 .. 2 : agent' = [agent EXCEPT ![a] = [@ EXCEPT !.leader = "zombie", !.code = c]]
        /\ UNCHANGED checkpoint
     \/ /\ agent[a].leader = "lost"
        /\ agent' = [agent EXCEPT ![a] = [@ EXCEPT !.leader = "gone", !.helper = "none"]]
        /\ UNCHANGED checkpoint
     \/ /\ agent[a].leader # "lost" /\ agent[a].helper # "none"
        /\ \E h \in {"none", "detached"} : agent' = [agent EXCEPT ![a].helper = h]
        /\ UNCHANGED checkpoint
  /\ UNCHANGED <<kind, queue, attempt, files, work, stop, stops, ghosts>>

\* approve moves the item and leaves a checkpoint alone; resolve-checkpoint
\* writes the decision down, whatever the run is doing and whatever was decided
\* before, and then moves the item.
Approve ==
  /\ queue = "awaiting_approval"
  /\ queue' = "pending"
  /\ UNCHANGED <<kind, attempt, checkpoint, files, agent, work, stop, stops, ghosts>>

Resolve ==
  /\ checkpoint # "absent"
  /\ \E d \in {"accept", "reject"} :
       /\ checkpoint' = d
       /\ queue' = IF queue # "awaiting_approval" THEN queue
                   ELSE IF d = "accept" THEN "pending" ELSE "failed"
  /\ UNCHANGED <<kind, attempt, files, agent, work, stop, stops, ghosts>>

\* Whoever saves the state leaves out entries that are over, told and old.
Evict ==
  /\ entry # None /\ entry.status \in Terminal /\ entry.notified
  /\ entry' = None
  /\ UNCHANGED <<kind, queue, attempt, checkpoint, control, result, record, agent, work,
                 stop, stops, ghosts>>

------------------------------------------------------------------------------
(* stop-task and operator-cancel *)

StopperOnly == <<kind, attempt, checkpoint, result, work>>

Command(s) ==
  /\ stop[s].pc = "idle" /\ stops < MaxStops
  /\ stops' = stops + 1
  /\ \/ \E f \in BOOLEAN : Stop(s, [NoCommand EXCEPT !.pc = "look", !.force = f])
     \/ Stop(s, [NoCommand EXCEPT !.pc = "where", !.cmd = "cancel"])
  /\ UNCHANGED <<StopperOnly, queue, control, entry, record, agent, ghosts>>

\* operator-cancel: a running job is stopped, one that has not begun or has
\* failed is withdrawn, any other one is refused.
Where(s) ==
  /\ stop[s].pc = "where"
  /\ Stop(s, CASE queue = "running" -> [stop[s] EXCEPT !.pc = "look"]
               [] queue \in {"pending", "awaiting_approval", "failed"} ->
                    [stop[s] EXCEPT !.pc = "withdraw"]
               [] OTHER -> NoCommand)
  /\ UNCHANGED <<StopperOnly, queue, control, entry, record, agent, stops, ghosts>>

\* Variant: an item that has been claimed meanwhile is withdrawn, too.
WithdrawAnywhere(s) ==
  /\ stop[s].pc = "withdraw"
  /\ queue' = "failed"
  /\ Stop(s, [stop[s] EXCEPT !.pc = "void_load"])
  /\ UNCHANGED <<StopperOnly, control, entry, record, agent, stops, ghosts>>

\* queue.cancel: the command goes on, whether it found the item or not.
Withdraw(s) ==
  /\ stop[s].pc = "withdraw"
  /\ queue' = IF queue \in {"pending", "awaiting_approval", "failed"} THEN "failed" ELSE queue
  /\ Stop(s, [stop[s] EXCEPT !.pc = "void_load"])
  /\ UNCHANGED <<StopperOnly, control, entry, record, agent, stops, ghosts>>

VoidLoad(s) ==
  /\ stop[s].pc = "void_load"
  /\ Stop(s, [stop[s] EXCEPT !.pc = "void_save", !.entry = entry])
  /\ UNCHANGED <<StopperOnly, queue, control, entry, record, agent, stops, ghosts>>

VoidSave(s) ==
  /\ stop[s].pc = "void_save"
  /\ entry' = Persisted(stop[s].entry, "killed", TRUE)
  /\ Stop(s, [stop[s] EXCEPT !.pc = "void_put", !.entry = None])
  /\ UNCHANGED <<StopperOnly, queue, control, record, agent, stops, ghosts>>

VoidPut(s) ==
  /\ stop[s].pc = "void_put"
  /\ record' = "cancelled"
  /\ Stop(s, NoCommand)
  /\ UNCHANGED <<StopperOnly, queue, control, entry, agent, stops, ghosts>>

\* stop_runtime_task.  operator-cancel takes the not_running of a task that is
\* over for an answer to go on with.
Look(s) ==
  /\ stop[s].pc = "look"
  /\ Stop(s, CASE entry = None -> NoCommand
               [] entry # None /\ entry.status \in Terminal ->
                    IF stop[s].cmd = "cancel" THEN [stop[s] EXCEPT !.pc = "update"] ELSE NoCommand
               [] entry # None /\ entry.status \notin Terminal ->
                    IF kind = "local_agent" THEN [stop[s] EXCEPT !.pc = "mark_read"]
                    ELSE [stop[s] EXCEPT !.pc = "sync_read", !.res = "unsupported",
                            !.control = [Fresh EXCEPT !.req = TRUE, !.out = "unsupported"]])
  /\ UNCHANGED <<StopperOnly, queue, control, entry, record, agent, stops, ghosts>>

\* request_stop_signal: mark_stop_requested,
MarkRead(s) ==
  /\ stop[s].pc = "mark_read"
  /\ Stop(s, IF control = None THEN [stop[s] EXCEPT !.pc = "reload", !.res = "missing_control"]
             ELSE [stop[s] EXCEPT !.pc = "mark_write", !.control = control])
  /\ UNCHANGED <<StopperOnly, queue, control, entry, record, agent, stops, ghosts>>

MarkWrite(s) ==
  LET marked == [stop[s].control EXCEPT !.req = TRUE]
  IN  /\ stop[s].pc = "mark_write"
      /\ control' = marked
      /\ asked' = TRUE
      /\ Stop(s, [stop[s] EXCEPT !.pc = "signal", !.control = marked])
      /\ UNCHANGED <<StopperOnly, queue, entry, record, agent, stops, signalled, accepted>>

\* killpg: it finds the group as long as one process of it, dead or alive, has
\* not been waited for.
GroupExists(a) == agent[a].leader \in {"up", "zombie", "lost"} \/ agent[a].helper # "none"

Killed(g) == [g EXCEPT !.helper = "none",
                !.leader = IF @ = "up" THEN "zombie" ELSE IF @ = "lost" THEN "gone" ELSE @,
                !.code = IF g.leader = "up" THEN 1 ELSE @]

Signal(s) ==
  LET a == stop[s].control.pid
  IN  /\ stop[s].pc = "signal"
      /\ IF a # 0 /\ GroupExists(a)
         THEN /\ agent' = IF stop[s].force THEN [agent EXCEPT ![a] = Killed(@)] ELSE agent
              /\ signalled' = (signalled \/ a = attempt)
              /\ Stop(s, [stop[s] EXCEPT !.pc = "fin_read", !.force = FALSE, !.res = "requested"])
         ELSE /\ Stop(s, [stop[s] EXCEPT !.pc = "fin_read", !.force = FALSE, !.res = "not_running"])
              /\ UNCHANGED <<agent, signalled>>
      /\ UNCHANGED <<StopperOnly, queue, control, entry, record, stops, asked, accepted>>

\* and finalize_stop_state.
FinRead(s) ==
  /\ stop[s].pc = "fin_read"
  /\ Stop(s, [stop[s] EXCEPT !.pc = "fin_write", !.control = control])
  /\ UNCHANGED <<StopperOnly, queue, control, entry, record, agent, stops, ghosts>>

FinWrite(s) ==
  /\ stop[s].pc = "fin_write"
  /\ control' = [stop[s].control EXCEPT !.out = stop[s].res]
  /\ Stop(s, [stop[s] EXCEPT !.pc = "reload"])
  /\ UNCHANGED <<StopperOnly, queue, entry, record, agent, stops, ghosts>>

Reload(s) ==
  /\ stop[s].pc = "reload"
  /\ Stop(s, [stop[s] EXCEPT !.pc = "sync_read", !.control = control])
  /\ UNCHANGED <<StopperOnly, queue, control, entry, record, agent, stops, ghosts>>

\* sync_runtime_stop_state: the entry with the stop of the control file.
Synced(e, c) == IF c = None THEN e ELSE [e EXCEPT !.req = c.req, !.out = c.out]

AfterSync(r) ==
  IF r.cmd = "cancel" /\ r.res \in {"requested", "not_running"}
  THEN [r EXCEPT !.pc = "update", !.control = None, !.entry = None]
  ELSE NoCommand

SyncRead(s) ==
  /\ stop[s].pc = "sync_read"
  /\ Stop(s, IF entry = None THEN AfterSync(stop[s])
             ELSE [stop[s] EXCEPT !.pc = "sync_write", !.entry = entry])
  /\ UNCHANGED <<StopperOnly, queue, control, entry, record, agent, stops, ghosts>>

SyncWrite(s) ==
  /\ stop[s].pc = "sync_write"
  /\ entry' = Synced(stop[s].entry, stop[s].control)
  /\ Stop(s, AfterSync(stop[s]))
  /\ UNCHANGED <<StopperOnly, queue, control, record, agent, stops, ghosts>>

\* operator-cancel tells the operator that the job is being cancelled.
Update(s) ==
  /\ stop[s].pc = "update"
  /\ record' = "cancelling"
  /\ accepted' = (accepted \/ agent[attempt].leader = "none")
  /\ Stop(s, NoCommand)
  /\ UNCHANGED <<StopperOnly, queue, control, entry, agent, stops, asked, signalled>>

StopperStep(s) ==
  \/ Command(s) \/ Where(s) \/ Withdraw(s) \/ VoidLoad(s) \/ VoidSave(s) \/ VoidPut(s)
  \/ Look(s) \/ MarkRead(s) \/ MarkWrite(s) \/ Signal(s) \/ FinRead(s) \/ FinWrite(s)
  \/ Reload(s) \/ SyncRead(s) \/ SyncWrite(s) \/ Update(s)

------------------------------------------------------------------------------
(* The system *)

AtTheFiles(w) == work[w].pc \notin {"idle", "wait", "drain"}
Overlapping ==
  \/ \E s \in Stoppers : stop[s].pc # "idle" /\ \E w \in Workers : AtTheFiles(w)
  \/ \E s, r \in Stoppers : s # r /\ stop[s].pc # "idle" /\ stop[r].pc # "idle"
  \/ \E v, w \in Workers : v # w /\ work[v].pc # "idle" /\ work[w].pc # "idle"

Act ==
  \/ \E w \in Workers : WorkerStep(w)
  \/ \E s \in Stoppers : StopperStep(s)
  \/ \E a \in Runs : AgentStep(a)
  \/ Evict

Next ==
  \/ Act /\ overlap' = (overlap \/ Overlapping')
  \/ (Approve \/ Resolve) /\ overlap' = (overlap \/ \E w \in Workers : AtTheFiles(w))

Spec == Init /\ [][Next]_vars

------------------------------------------------------------------------------
(* Properties *)

TypeOK ==
  /\ kind \in {"local_agent", "remote_agent"}
  /\ queue \in {"pending", "running", "awaiting_approval", "done", "failed", "dead_letter"}
  /\ attempt \in 0 .. MaxRuns
  /\ checkpoint \in {"absent", "pending", "accept", "reject"}
  /\ control \in Control \cup {None}
  /\ result \in Result
  /\ entry \in Entry \cup {None}
  /\ record \in {"queued", "running", "cancelling", "completed", "failed", "cancelled"}
  /\ agent \in [Runs -> Agent]
  /\ work \in [Workers -> Worker]
  /\ stop \in [Stoppers -> Stopper]
  /\ stops \in 0 .. MaxStops
  /\ asked \in BOOLEAN /\ signalled \in BOOLEAN /\ accepted \in BOOLEAN /\ overlap \in BOOLEAN

\* The job and its records are at rest: no worker is between its claim and the
\* end of its bookkeeping, except that it may be waiting for the agent.
AtPeace == (\A w \in Workers : ~AtTheFiles(w)) /\ (\A s \in Stoppers : stop[s].pc = "idle")

\* The operator job says what became of the item of the queue.  (Nobody updates it
\* when a checkpoint is rejected.)
RecordRight ==
  \/ queue \in {"pending", "awaiting_approval"} /\ record = "queued"
  \/ queue = "running" /\ record \in {"running", "cancelling"}
  \/ queue = "done" /\ record = "completed"
  \/ queue = "dead_letter" /\ record = "failed"
  \/ queue = "failed" /\ record = "cancelled"
  \/ queue = "failed" /\ checkpoint # "absent" /\ record = "queued"

\* When no command ran while a worker was at the files, the operator job is right
\* whenever the job is at rest.
RecordAgrees == ~overlap /\ AtPeace => RecordRight

\* The entry of the task says so too, unless it has been evicted, and only entries
\* that are over are.
EntryRight ==
  \/ queue \in {"pending", "awaiting_approval"} /\ entry # None /\ entry.status = "pending"
  \/ queue = "running" /\ entry # None /\ entry.status = "running"
  \/ queue = "done" /\ (entry = None \/ entry.status = "completed")
  \/ queue = "dead_letter" /\ (entry = None \/ entry.status = "failed")
  \/ queue = "failed" /\ (entry = None \/ entry.status = "killed")
  \/ queue = "failed" /\ checkpoint # "absent" /\ entry # None /\ entry.status = "pending"

\* Under the same condition the entry of the task agrees with the queue as well.
EntryAgrees == ~overlap /\ AtPeace => EntryRight

\* A run whose agent was sent a signal is neither finished, retried nor sent to
\* an approval afterwards: its item goes to failed, whatever the agent answered.
StopWins ==
  [][ queue = "running" /\ queue' # "running" /\ signalled /\ ~overlap' => queue' = "failed" ]_vars

\* A worker writes a run off as cancelled only when somebody stopped that very
\* execution: a stop of an earlier one is forgotten.
CancelledWhenAsked ==
  [][ queue = "running" /\ queue' = "failed" /\ ~overlap' => asked ]_vars

\* However commands interleave, an agent has ended when its job is settled, and so has
\* every process that shares its output.  Two kinds of process do outlive the job and
\* may be at work beside the next execution: an agent that could not be written down
\* (lost), and helpers that are detached from the output, since execute_job.py kills
\* the leader on a timeout and never the group.
NoAgentLeft ==
  \A a \in Runs :
    \/ agent[a].leader \in {"up", "zombie"}
    \/ agent[a].helper = "sharing" /\ agent[a].leader # "lost"
    => queue = "running" /\ a = attempt

\* The worker has claimed the item and not begun to execute it; it executes it.
Preparing(w) ==
  work[w].pc \in {"feed", "put", "begin", "load", "save"} /\ work[w].phase \in {"claimed", "started"}
InExecuteJob(w) ==
  work[w].pc \in WorkerPCs \ {"idle", "feed", "put", "load", "save", "begin", "pause", "verdict", "settle"}

\* The queue as one job sees it (see JobLifecycle, which FileQueue implements).
Lifecycle == INSTANCE JobLifecycle WITH
  Jobs      <- {"job"},
  where     <- [j \in {"job"} |-> {queue}],
  claimants <- [j \in {"job"} |-> {w \in Workers : Preparing(w)}],
  executors <- [j \in {"job"} |-> {w \in Workers : InExecuteJob(w)}]

\* Whatever the commands do meanwhile, every step of this module moves the item as
\* the queue promises or lets an operator withdraw it: a worker claims it when no
\* other has it, executes it once for each claim, and settles it when it has ended
\* (cmd_worker, operator-cancel, approve and resolve-checkpoint).
FollowsLifecycle == [][Lifecycle!Next \/ Lifecycle!Cancel("job")]_(Lifecycle!lifecycle)

\* operator_jobs_test.sh:171-187: a running job whose cancellation was accepted ends
\* as cancelled.  Here, one whose agent had not been started by then.
CancelLands == accepted => queue # "done"
==============================================================================
