------------------------------ MODULE FileQueue ------------------------------
(***************************************************************************)
(* The filesystem job queue of _system/engine/file_queue.py, at the        *)
(* granularity of its file operations, together with the part of the       *)
(* worker loop (cmd_worker of scripts/claw.py) that decides which queue    *)
(* operation comes next.                                                   *)
(*                                                                         *)
(* A job is a JSON file in one of six state directories.  An operation of  *)
(* the queue is a sequence of separate reads, atomic rewrites and renames  *)
(* performed by one of several processes: workers (claw worker) and        *)
(* operator commands (claw approve, resolve-checkpoint, operator-cancel,   *)
(* reclaim, enqueue).  Each step of such a sequence is an action here, so  *)
(* that processes interleave between the steps as the operating system     *)
(* lets them.                                                              *)
(***************************************************************************)
EXTENDS Naturals, FiniteSets, Sequences

CONSTANTS
  Jobs,           \* job ids
  Workers,        \* worker processes
  Operators,      \* processes running operator commands
  Reclaimers,     \* the processes that reclaim stale running items
  MaxAttempts,    \* queue.max_attempts of every item (DEFAULT_MAX_ATTEMPTS)
  Interventions,  \* which of "cancel", "unlock", "drop", "resubmit" operators do
  Stalls,         \* may a live process stall beyond its lease or a join timeout?
  MaxLeases,      \* bound: claims made in a behaviour
  MaxAlts,        \* bound: alternative file names made in a behaviour
  MaxCrashes,     \* bound: processes killed in a behaviour
  MaxCommands,    \* bound: operator commands begun in a behaviour
  NoFile, NoPath, NoBeat

Actors == Workers \cup Operators

ASSUME QueueAssumption ==
  /\ Workers \cap Operators = {}
  /\ Reclaimers \subseteq Actors
  /\ MaxAttempts \in Nat \ {0}
  /\ MaxLeases \in Nat /\ MaxAlts \in Nat /\ MaxCrashes \in Nat /\ MaxCommands \in Nat
  /\ Interventions \subseteq {"cancel", "unlock", "drop", "resubmit"} /\ Stalls \in BOOLEAN

STATE_ORDER == <<"pending", "running", "awaiting_approval", "done", "failed", "dead_letter">>
Dirs == {"pending", "running", "awaiting_approval", "done", "failed", "dead_letter"}

\* {job}.json is alt = 0; {job}.{time_ns}.json is a fresh alt > 0.
Path == [dir : Dirs, job : Jobs, alt : 0 .. MaxAlts]

\* What the queue reads back from an item.  lease = 0 is no lease_id; stale is
\* the verdict of _is_stale on a file of running (lease run out, or no lease
\* and an mtime older than stale_after_sec); deferred is a next_retry_at in the
\* future; runnable is FALSE for the {"job_id": ...} stub _read_payload makes up.
Payload == [attempt : Nat, lease : 0 .. MaxLeases,
            stale : BOOLEAN, deferred : BOOLEAN, runnable : BOOLEAN]

PCs == {"idle", "claim", "claim_read", "claim_write", "claimed", "executing",
        "retry", "defer_read", "defer_write", "enqueue", "put", "cancel",
        "drop", "unlink", "read", "write", "pick", "move"}

\* The local state of a process inside an operation: where it is, the file it
\* works on, the payload it has in memory, the state it moves the item to and
\* the program counter after the move, the directories it has yet to search,
\* and the lease and attempt of its ClaimedJob.
Op == [pc : PCs, path : Path \cup {NoPath}, dest : Path \cup {NoPath},
       mem : Payload \cup {NoFile}, goal : Dirs, cont : {"idle", "retry"},
       todo : Seq(Dirs), lease : 0 .. MaxLeases, attempt : Nat]

Idle == [pc |-> "idle", path |-> NoPath, dest |-> NoPath, mem |-> NoFile,
         goal |-> "pending", cont |-> "idle", todo |-> <<>>,
         lease |-> 0, attempt |-> 0]

Beat == [path : Path, mem : Payload]

ASSUME SentinelAssumption ==
  NoFile \notin Payload /\ NoPath \notin Path /\ NoBeat \notin Beat

VARIABLES
  disk,      \* the files: Path -> Payload, NoFile where there is none
  op,        \* local state of each process
  beat,      \* the renewal a worker's heartbeat thread has read but not written
  leases,    \* leases issued so far
  alts,      \* alternative names made so far
  crashes,   \* processes killed so far
  commands,  \* operator commands begun so far
  admitted,  \* jobs enqueued and not dropped
  runs,      \* history: executions started per job
  grants     \* history: approvals per job

vars == <<disk, op, beat, leases, alts, crashes, commands, admitted, runs, grants>>

Init ==
  /\ disk = [p \in Path |-> NoFile]
  /\ op = [a \in Actors |-> Idle]
  /\ beat = [w \in Workers |-> NoBeat]
  /\ leases = 0 /\ alts = 0 /\ crashes = 0 /\ commands = 0
  /\ admitted = {}
  /\ runs = [j \in Jobs |-> 0]
  /\ grants = [j \in Jobs |-> 0]

------------------------------------------------------------------------------
(* Files *)

JobPath(d, j) == [dir |-> d, job |-> j, alt |-> 0]

Stub == [attempt |-> 0, lease |-> 0, stale |-> FALSE, deferred |-> FALSE,
         runnable |-> FALSE]

\* _read_payload: any failure to read, a missing file included, yields a stub.
ReadPayload(p) == IF disk[p] = NoFile THEN Stub ELSE disk[p]

FindJobFiles(d, j) == {p \in Path : p.dir = d /\ p.job = j /\ disk[p] # NoFile}

\* Variant: shutil.copy in place of os.replace.
RenameByCopy(src, dst) == [disk EXCEPT ![dst] = disk[src]]

Rename(src, dst) == [disk EXCEPT ![src] = NoFile, ![dst] = disk[src]]

\* Whatever is written is written now: its mtime and its lease are fresh.
Write(p, payload) == disk' = [disk EXCEPT ![p] = [payload EXCEPT !.stale = FALSE]]

Step(a, pc) == op' = [op EXCEPT ![a].pc = pc]
Finish(a) == op' = [op EXCEPT ![a] = Idle]

\* A process that calls an operation on item p ending in state d.
StartTransition(a, p, d) ==
  op' = [op EXCEPT ![a] = [@ EXCEPT !.pc = "read", !.path = p, !.goal = d]]

------------------------------------------------------------------------------
(* _transition_path: read, rewrite in place, then move between directories *)

Transitioned(payload, d) ==
  [payload EXCEPT !.lease = 0, !.deferred = IF d = "pending" THEN @ ELSE FALSE]

TransitionRead(a) ==
  /\ op[a].pc = "read"
  /\ op' = [op EXCEPT ![a] = [@ EXCEPT !.pc = "write",
                                       !.mem = ReadPayload(op[a].path)]]
  /\ UNCHANGED <<disk, beat, leases, alts, crashes, commands, admitted, runs, grants>>

TransitionWrite(a) ==
  /\ op[a].pc = "write"
  /\ Write(op[a].path, Transitioned(op[a].mem, op[a].goal))
  /\ op' = [op EXCEPT ![a] = [@ EXCEPT !.pc = "pick", !.mem = NoFile]]
  /\ UNCHANGED <<beat, leases, alts, crashes, commands, admitted, runs, grants>>

\* _move_to_dir_no_overwrite first looks whether the name is taken ...
PickTarget(a) ==
  LET target == [op[a].path EXCEPT !.dir = op[a].goal]
  IN  /\ op[a].pc = "pick"
      /\ \/ /\ disk[target] = NoFile
            /\ op' = [op EXCEPT ![a] = [@ EXCEPT !.pc = "move", !.dest = target]]
            /\ UNCHANGED alts
         \/ /\ disk[target] # NoFile
            /\ alts < MaxAlts
            /\ alts' = alts + 1
            /\ op' = [op EXCEPT ![a] = [@ EXCEPT !.pc = "move",
                                !.dest = [target EXCEPT !.alt = alts + 1]]]
      /\ UNCHANGED <<disk, beat, leases, crashes, commands, admitted, runs, grants>>

\* ... and then renames; a source that has gone raises in the caller.
Move(a) ==
  /\ op[a].pc = "move"
  /\ \/ /\ disk[op[a].path] # NoFile
        /\ disk' = Rename(op[a].path, op[a].dest)
        /\ IF op[a].cont = "retry"
           THEN op' = [op EXCEPT ![a] = [@ EXCEPT !.pc = "retry", !.dest = NoPath]]
           ELSE Finish(a)
     \/ /\ disk[op[a].path] = NoFile
        /\ Finish(a)
        /\ UNCHANGED disk
  /\ UNCHANGED <<beat, leases, alts, crashes, commands, admitted, runs, grants>>

------------------------------------------------------------------------------
(* claim: look at a pending item, rename it, then stamp the lease on it *)

\* A process that goes on while its last heartbeat thread hangs beyond the join is two
\* workers here: one that still has the late write, another that claims.
ClaimPick(w) ==
  /\ op[w].pc = "idle"
  /\ beat[w] = NoBeat
  /\ leases < MaxLeases
  /\ \E p \in Path :
       /\ p.dir = "pending"
       /\ disk[p] # NoFile
       /\ ~disk[p].deferred
       /\ op' = [op EXCEPT ![w] = [Idle EXCEPT !.pc = "claim", !.path = p]]
  /\ UNCHANGED <<disk, beat, leases, alts, crashes, commands, admitted, runs, grants>>

\* Variant: the FileNotFoundError of a lost race is swallowed.
ClaimRenameAnyway(w) ==
  LET target == [op[w].path EXCEPT !.dir = "running"]
  IN  /\ op[w].pc = "claim"
      /\ disk' = IF disk[op[w].path] # NoFile THEN Rename(op[w].path, target) ELSE disk
      /\ op' = [op EXCEPT ![w] = [@ EXCEPT !.pc = "claim_read", !.path = target]]
      /\ UNCHANGED <<beat, leases, alts, crashes, commands, admitted, runs, grants>>

\* Variant: the pending file is deleted and written anew under running.
ClaimByDeletion(w) ==
  /\ op[w].pc = "claim"
  /\ disk' = [disk EXCEPT ![op[w].path] = NoFile]
  /\ op' = [op EXCEPT ![w] = [@ EXCEPT !.pc = "claim_read", !.path.dir = "running"]]
  /\ UNCHANGED <<beat, leases, alts, crashes, commands, admitted, runs, grants>>

ClaimRename(w) ==
  LET target == [op[w].path EXCEPT !.dir = "running"]
  IN  /\ op[w].pc = "claim"
      /\ \/ /\ disk[op[w].path] # NoFile
            /\ \E old \in BOOLEAN : \* the mtime of the item, however long it waited
                 disk' = [Rename(op[w].path, target) EXCEPT ![target].stale = old]
            /\ op' = [op EXCEPT ![w] = [@ EXCEPT !.pc = "claim_read", !.path = target]]
         \/ /\ disk[op[w].path] = NoFile        \* somebody else was first
            /\ Finish(w)
            /\ UNCHANGED disk
      /\ UNCHANGED <<beat, leases, alts, crashes, commands, admitted, runs, grants>>

ClaimRead(w) ==
  /\ op[w].pc = "claim_read"
  /\ op' = [op EXCEPT ![w] = [@ EXCEPT !.pc = "claim_write",
                                       !.mem = ReadPayload(op[w].path)]]
  /\ UNCHANGED <<disk, beat, leases, alts, crashes, commands, admitted, runs, grants>>

ClaimWrite(w) ==
  LET attempt == op[w].mem.attempt + 1
  IN  /\ op[w].pc = "claim_write"
      /\ leases < MaxLeases
      /\ leases' = leases + 1
      /\ Write(op[w].path, [op[w].mem EXCEPT !.attempt = attempt,
                                             !.lease = leases + 1, !.deferred = FALSE])
      /\ op' = [op EXCEPT ![w] = [@ EXCEPT !.pc = "claimed", !.mem = NoFile,
                                           !.lease = leases + 1, !.attempt = attempt]]
      /\ UNCHANGED <<beat, alts, crashes, commands, admitted, runs, grants>>

------------------------------------------------------------------------------
(* The worker loop between claim and the terminal operation *)

\* read_claimed, preflight_guardrails allows the run, execute_job starts.
BeginRun(w) ==
  /\ op[w].pc = "claimed"
  /\ ReadPayload(op[w].path).runnable
  /\ Step(w, "executing")
  /\ runs' = [runs EXCEPT ![op[w].path.job] = @ + 1]
  /\ UNCHANGED <<disk, beat, leases, alts, crashes, commands, admitted, grants>>

\* The guardrails pause the run instead (pause_run_for_guardrail).
PauseRun(w) ==
  /\ op[w].pc = "claimed"
  /\ ReadPayload(op[w].path).runnable
  /\ StartTransition(w, op[w].path, "awaiting_approval")
  /\ UNCHANGED <<disk, beat, leases, alts, crashes, commands, admitted, runs, grants>>

\* payload["run_path"] of a stub raises: the worker exits, the item stays.
AbortOnStub(w) ==
  /\ op[w].pc = "claimed"
  /\ ~ReadPayload(op[w].path).runnable
  /\ Finish(w)
  /\ UNCHANGED <<disk, beat, leases, alts, crashes, commands, admitted, runs, grants>>

\* renew_lease in the heartbeat thread: exists, read and compare ...
HeartbeatRead(w) ==
  /\ op[w].pc = "executing"
  /\ beat[w] = NoBeat
  /\ disk[op[w].path] # NoFile
  /\ disk[op[w].path].lease = op[w].lease
  /\ beat' = [beat EXCEPT ![w] = [path |-> op[w].path, mem |-> disk[op[w].path]]]
  /\ UNCHANGED <<disk, op, leases, alts, crashes, commands, admitted, runs, grants>>

\* ... then write, whatever has become of the file since.
HeartbeatWrite(w) ==
  /\ beat[w] # NoBeat
  /\ Write(beat[w].path, beat[w].mem)
  /\ beat' = [beat EXCEPT ![w] = NoBeat]
  /\ UNCHANGED <<op, leases, alts, crashes, commands, admitted, runs, grants>>

\* execute_job has ended and the heartbeat thread is joined (a stalled thread
\* outlives the timeout of the join).
Joined(w) ==
  /\ op[w].pc = "executing"
  /\ beat[w] = NoBeat \/ Stalls

\* Exit code 0: ack.  A stopped run: fail.  Exit code 2 with a pending
\* checkpoint: await_approval.
SettleRun(w) ==
  /\ Joined(w)
  /\ \E d \in {"done", "failed", "awaiting_approval"} : StartTransition(w, op[w].path, d)
  /\ UNCHANGED <<disk, beat, leases, alts, crashes, commands, admitted, runs, grants>>

\* Any other exit: fail and then retry while attempts are left ...
FailAndRetry(w) ==
  /\ Joined(w)
  /\ op[w].attempt < MaxAttempts
  /\ op' = [op EXCEPT ![w] = [@ EXCEPT !.pc = "read", !.goal = "failed", !.cont = "retry"]]
  /\ UNCHANGED <<disk, beat, leases, alts, crashes, commands, admitted, runs, grants>>

\* ... and dead_letter after the last one.
DeadLetter(w) ==
  /\ Joined(w)
  /\ op[w].attempt >= MaxAttempts
  /\ StartTransition(w, op[w].path, "dead_letter")
  /\ UNCHANGED <<disk, beat, leases, alts, crashes, commands, admitted, runs, grants>>

\* retry: find the job among the failed, store next_retry_at, then move it.
RetryFind(w) ==
  LET found == FindJobFiles("failed", op[w].path.job)
  IN  /\ op[w].pc = "retry"
      /\ \/ \E p \in found :
              op' = [op EXCEPT ![w] = [@ EXCEPT !.pc = "defer_read", !.path = p,
                                                !.cont = "idle"]]
         \/ /\ found = {}
            /\ Finish(w)
      /\ UNCHANGED <<disk, beat, leases, alts, crashes, commands, admitted, runs, grants>>

RetryRead(w) ==
  /\ op[w].pc = "defer_read"
  /\ op' = [op EXCEPT ![w] = [@ EXCEPT !.pc = "defer_write",
                                       !.mem = ReadPayload(op[w].path)]]
  /\ UNCHANGED <<disk, beat, leases, alts, crashes, commands, admitted, runs, grants>>

RetryWrite(w) ==
  /\ op[w].pc = "defer_write"
  /\ Write(op[w].path, [op[w].mem EXCEPT !.deferred = TRUE])
  /\ op' = [op EXCEPT ![w] = [@ EXCEPT !.pc = "read", !.mem = NoFile, !.goal = "pending"]]
  /\ UNCHANGED <<beat, leases, alts, crashes, commands, admitted, runs, grants>>

WorkerStep(w) ==
  \/ ClaimPick(w) \/ ClaimRename(w) \/ ClaimRead(w) \/ ClaimWrite(w)
  \/ BeginRun(w) \/ PauseRun(w) \/ AbortOnStub(w)
  \/ HeartbeatRead(w) \/ HeartbeatWrite(w)
  \/ SettleRun(w) \/ FailAndRetry(w) \/ DeadLetter(w)
  \/ RetryFind(w) \/ RetryRead(w) \/ RetryWrite(w)

------------------------------------------------------------------------------
(* Operator commands *)

Command(a) ==
  /\ op[a].pc = "idle"
  /\ commands < MaxCommands
  /\ commands' = commands + 1

\* enqueue looks for the job in the state directories one after the other ...
EnqueueStart(a) ==
  /\ Command(a)
  /\ \E j \in Jobs, d \in {"pending", "awaiting_approval"} :
       /\ j \in admitted => "resubmit" \in Interventions
       /\ op' = [op EXCEPT ![a] = [Idle EXCEPT !.pc = "enqueue", !.goal = d,
                                     !.path = JobPath(d, j), !.todo = STATE_ORDER]]
  /\ UNCHANGED <<disk, beat, leases, alts, crashes, admitted, runs, grants>>

EnqueueScan(a) ==
  /\ op[a].pc = "enqueue"
  /\ \/ /\ op[a].todo = <<>>
        /\ Step(a, "put")
     \/ /\ op[a].todo # <<>>
        /\ IF FindJobFiles(Head(op[a].todo), op[a].path.job) # {}
           THEN Finish(a)                        \* DuplicateJobError
           ELSE op' = [op EXCEPT ![a].todo = Tail(@)]
  /\ UNCHANGED <<disk, beat, leases, alts, crashes, commands, admitted, runs, grants>>

\* Variant: the path of the item is recorded for its id.
EnqueuePutPath(a) ==
  /\ op[a].pc = "put"
  /\ Write(op[a].path, [Stub EXCEPT !.runnable = TRUE])
  /\ admitted' = admitted \cup {op[a].path}
  /\ Finish(a)
  /\ UNCHANGED <<beat, leases, alts, crashes, commands, runs, grants>>

\* ... and writes the item with a fresh payload.
EnqueuePut(a) ==
  /\ op[a].pc = "put"
  /\ Write(op[a].path, [Stub EXCEPT !.runnable = TRUE])
  /\ admitted' = admitted \cup {op[a].path.job}
  /\ Finish(a)
  /\ UNCHANGED <<beat, leases, alts, crashes, commands, runs, grants>>

\* Variant: an approved item is put straight into running.
ApproveToRunning(a) ==
  /\ Command(a)
  /\ \E j \in Jobs : \E p \in FindJobFiles("awaiting_approval", j) :
       /\ StartTransition(a, p, "running")
       /\ grants' = [grants EXCEPT ![j] = @ + 1]
  /\ UNCHANGED <<disk, beat, leases, alts, crashes, admitted, runs>>

Approve(a) ==
  /\ Command(a)
  /\ \E j \in Jobs : \E p \in FindJobFiles("awaiting_approval", j) :
       /\ StartTransition(a, p, "pending")
       /\ grants' = [grants EXCEPT ![j] = @ + 1]
  /\ UNCHANGED <<disk, beat, leases, alts, crashes, admitted, runs>>

Reject(a) ==
  /\ Command(a)
  /\ \E j \in Jobs : \E p \in FindJobFiles("awaiting_approval", j) :
       StartTransition(a, p, "failed")
  /\ UNCHANGED <<disk, beat, leases, alts, crashes, admitted, runs, grants>>

Unlock(a) ==
  /\ Command(a)
  /\ "unlock" \in Interventions
  /\ \E j \in Jobs : \E p \in FindJobFiles("running", j) :
       StartTransition(a, p, "failed")
  /\ UNCHANGED <<disk, beat, leases, alts, crashes, admitted, runs, grants>>

\* Variant: cancel searches done as well.
SearchStartInDone(a) ==
  /\ Command(a)
  /\ "cancel" \in Interventions
  /\ \E j \in Jobs :
       op' = [op EXCEPT ![a] = [Idle EXCEPT !.pc = "cancel", !.goal = "failed",
                !.path = JobPath("failed", j), !.todo = STATE_ORDER]]
  /\ UNCHANGED <<disk, beat, leases, alts, crashes, admitted, runs, grants>>

\* cancel and drop_queue_job search several directories for the job.
SearchStart(a) ==
  /\ Command(a)
  /\ \E j \in Jobs :
       \/ /\ "cancel" \in Interventions
          /\ op' = [op EXCEPT ![a] = [Idle EXCEPT !.pc = "cancel", !.goal = "failed",
                      !.path = JobPath("failed", j),
                      !.todo = <<"pending", "awaiting_approval", "failed">>]]
       \/ /\ "drop" \in Interventions
          /\ op' = [op EXCEPT ![a] = [Idle EXCEPT !.pc = "drop",
                      !.path = JobPath("pending", j), !.todo = STATE_ORDER]]
  /\ UNCHANGED <<disk, beat, leases, alts, crashes, admitted, runs, grants>>

SearchScan(a) ==
  /\ op[a].pc \in {"cancel", "drop"}
  /\ \/ /\ op[a].todo = <<>>
        /\ Finish(a)
     \/ /\ op[a].todo # <<>>
        /\ LET found == FindJobFiles(Head(op[a].todo), op[a].path.job)
           IN  \/ \E p \in found :
                    op' = [op EXCEPT ![a] = [@ EXCEPT !.path = p, !.todo = <<>>,
                             !.pc = IF op[a].pc = "cancel" THEN "read" ELSE "unlink"]]
               \/ /\ found = {}
                  /\ op' = [op EXCEPT ![a].todo = Tail(@)]
  /\ UNCHANGED <<disk, beat, leases, alts, crashes, commands, admitted, runs, grants>>

DropUnlink(a) ==
  /\ op[a].pc = "unlink"
  /\ disk' = [disk EXCEPT ![op[a].path] = NoFile]
  /\ admitted' = IF disk[op[a].path] = NoFile THEN admitted
                 ELSE admitted \ {op[a].path.job}
  /\ Finish(a)
  /\ UNCHANGED <<beat, leases, alts, crashes, commands, runs, grants>>

OperatorStep(a) ==
  \/ EnqueueStart(a) \/ EnqueueScan(a) \/ EnqueuePut(a)
  \/ Approve(a) \/ Reject(a) \/ Unlock(a)
  \/ SearchStart(a) \/ SearchScan(a) \/ DropUnlink(a)

------------------------------------------------------------------------------
(* Reclaim, time and crashes *)

\* Variant: one attempt more than max_attempts.
ReclaimOnceMore(a) ==
  /\ a \in Reclaimers
  /\ \/ a \in Workers /\ op[a].pc = "idle" /\ UNCHANGED commands
     \/ a \in Operators /\ Command(a)
  /\ \E p \in Path :
       /\ p.dir = "running"
       /\ disk[p] # NoFile
       /\ disk[p].stale
       /\ StartTransition(a, p,
            IF disk[p].attempt > MaxAttempts THEN "dead_letter" ELSE "pending")
  /\ UNCHANGED <<disk, beat, leases, alts, crashes, admitted, runs, grants>>

\* Variant: an item without a lease is never stale.
ReclaimLeased(a) ==
  /\ a \in Reclaimers
  /\ \/ a \in Workers /\ op[a].pc = "idle" /\ UNCHANGED commands
     \/ a \in Operators /\ Command(a)
  /\ \E p \in Path :
       /\ p.dir = "running"
       /\ disk[p] # NoFile
       /\ disk[p].stale /\ disk[p].lease # 0
       /\ StartTransition(a, p,
            IF disk[p].attempt >= MaxAttempts THEN "dead_letter" ELSE "pending")
  /\ UNCHANGED <<disk, beat, leases, alts, crashes, admitted, runs, grants>>

\* reclaim_stale_running_details, one file of its scan: a worker runs it before
\* each claim, an operator with claw reclaim.
Reclaim(a) ==
  /\ a \in Reclaimers
  /\ \/ a \in Workers /\ op[a].pc = "idle" /\ UNCHANGED commands
     \/ a \in Operators /\ Command(a)
  /\ \E p \in Path :
       /\ p.dir = "running"
       /\ disk[p] # NoFile
       /\ disk[p].stale
       /\ StartTransition(a, p,
            IF disk[p].attempt >= MaxAttempts THEN "dead_letter" ELSE "pending")
  /\ UNCHANGED <<disk, beat, leases, alts, crashes, admitted, runs, grants>>

\* A leased item outlives its lease once nobody renews it; an unleased one is
\* judged by its mtime.  Without Stalls a live process is quicker than either.
InHand(p) ==
  IF disk[p].lease # 0 THEN \E w \in Workers : op[w].lease = disk[p].lease
                       ELSE \E a \in Actors : op[a].path = p

GrowsStale(p) ==
  /\ p.dir = "running"
  /\ disk[p] # NoFile
  /\ ~disk[p].stale
  /\ Stalls \/ ~InHand(p)
  /\ disk' = [disk EXCEPT ![p].stale = TRUE]
  /\ UNCHANGED <<op, beat, leases, alts, crashes, commands, admitted, runs, grants>>

BackoffElapses(p) ==
  /\ disk[p] # NoFile
  /\ disk[p].deferred
  /\ disk' = [disk EXCEPT ![p].deferred = FALSE]
  /\ UNCHANGED <<op, beat, leases, alts, crashes, commands, admitted, runs, grants>>

Crash(a) ==
  /\ crashes < MaxCrashes
  /\ op[a].pc # "idle"
  /\ crashes' = crashes + 1
  /\ Finish(a)
  /\ beat' = [w \in Workers |-> IF w = a THEN NoBeat ELSE beat[w]]
  /\ UNCHANGED <<disk, leases, alts, commands, admitted, runs, grants>>

TransitionStep(a) ==
  TransitionRead(a) \/ TransitionWrite(a) \/ PickTarget(a) \/ Move(a)

Next ==
  \/ \E w \in Workers : WorkerStep(w)
  \/ \E a \in Operators : OperatorStep(a)
  \/ \E a \in Actors : TransitionStep(a) \/ Reclaim(a) \/ Crash(a)
  \/ \E p \in Path : GrowsStale(p) \/ BackoffElapses(p)

Spec == Init /\ [][Next]_vars
------------------------------------------------------------------------------
(* Properties *)

\* Every variable keeps to its type.
TypeOK ==
  /\ disk \in [Path -> Payload \cup {NoFile}]
  /\ op \in [Actors -> Op]
  /\ beat \in [Workers -> Beat \cup {NoBeat}]
  /\ leases \in 0 .. MaxLeases /\ alts \in 0 .. MaxAlts
  /\ crashes \in 0 .. MaxCrashes /\ commands \in 0 .. MaxCommands
  /\ admitted \subseteq Jobs
  /\ runs \in [Jobs -> Nat]
  /\ grants \in [Jobs -> Nat]

\* A job is in one state: no two files of the queue belong to the same job.
OneFilePerJob ==
  \A p, q \in Path : disk[p] # NoFile /\ disk[q] # NoFile /\ p.job = q.job => p = q

Claiming(w) == op[w].pc \in {"claim_read", "claim_write", "claimed"}
Executing(w) == op[w].pc = "executing"

\* Two workers never execute the same job at the same time, and the item of a
\* job being executed lies in running under the executing worker's lease.
ExclusiveExecution ==
  \A w \in Workers : Executing(w) =>
    /\ \A v \in Workers : Executing(v) /\ op[v].path.job = op[w].path.job => v = w
    /\ disk[op[w].path] # NoFile
    /\ disk[op[w].path].lease = op[w].lease

\* A job is executed at most max_attempts times, and once more for every time
\* an operator approved it, however its workers crash and are reclaimed.
RunsWithinBudget == \A j \in Jobs : runs[j] <= MaxAttempts + grants[j]

\* An accepted job never vanishes from the queue, whatever crashes or collides.
NoJobLost == \A j \in admitted : \E p \in Path : p.job = j /\ disk[p] # NoFile

\* A job that has reached done or dead_letter is found there ever after, unless
\* an operator drops it: a later collision gives way to it.
HasFile(d, j) == \E p \in Path : p.dir = d /\ p.job = j /\ disk[p] # NoFile
FinalStatesKept ==
  [][\A j \in Jobs, d \in {"done", "dead_letter"} :
       HasFile(d, j) => HasFile(d, j)' \/ \E a \in Operators : op[a].pc = "unlink"]_vars

\* The queue implements the lifecycle it promises.
Lifecycle == INSTANCE JobLifecycle WITH
  where     <- [j \in Jobs |-> {p.dir : p \in {q \in Path : q.job = j /\ disk[q] # NoFile}}],
  claimants <- [j \in Jobs |-> {w \in Workers : Claiming(w) /\ op[w].path.job = j}],
  executors <- [j \in Jobs |-> {w \in Workers : Executing(w) /\ op[w].path.job = j}]
ImplementsLifecycle == Lifecycle!Spec

\* A worker whose machine keeps time loses no item to a reclaim: no process
\* picks for reclaim an item that a live worker has renamed into running.
ReclaimSparesTheLiving ==
  [][\A a \in Actors, w \in Workers :
       /\ op[a].pc = "idle" /\ op'[a].pc = "read" /\ op'[a].path.dir = "running"
       /\ Claiming(w) \/ Executing(w)
       => op'[a].path # op[w].path]_vars

\* An accepted job comes to rest: it ends up in a state in which no worker is
\* due to do anything more with it.
AtRest(j) ==
  /\ \E p \in Path : disk[p] # NoFile /\ p.job = j /\ p.dir \notin {"pending", "running"}
  /\ \A w \in Workers : op[w].pc # "idle" => op[w].path.job # j
EveryJobComesToRest == \A j \in Jobs : j \in admitted ~> AtRest(j)

\* Workers keep working, the agent of a run ends (execute_job enforces its
\* timeouts) at a moment the heartbeat sleeps, workers reclaim in every round
\* of their loop, and time passes.
EndRun(w) == SettleRun(w) \/ FailAndRetry(w) \/ DeadLetter(w)
Fairness ==
  /\ \A w \in Workers :
       /\ WF_vars(WorkerStep(w) \/ TransitionStep(w))
       /\ SF_vars(EndRun(w))
       /\ WF_vars(Reclaim(w))
  /\ \A p \in Path : WF_vars(GrowsStale(p)) /\ WF_vars(BackoffElapses(p))
FairSpec == Spec /\ Fairness
==============================================================================
