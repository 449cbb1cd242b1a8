--------------------------- MODULE FileQueueProofs ---------------------------
(***************************************************************************)
(* The types of the queue, whatever happens to it, and why it keeps its    *)
(* promises when it runs undisturbed: nobody reclaims while a second       *)
(* worker may be in the gap between the rename and the lease of a claim,   *)
(* one operator command runs at a time, and a live worker is quicker than  *)
(* its lease.  Workers may be many, and any process may crash between any  *)
(* two of its file operations.                                             *)
(***************************************************************************)
EXTENDS FileQueue, TLAPS

------------------------------------------------------------------------------
(* Types. *)

\* A local state whose path, payload and target are there when they are used.
LocalTyped(r) ==
  /\ r \in Op
  /\ r.pc # "idle" => r.path \in Path
  /\ r.pc \in {"write", "claim_write", "defer_write"} => r.mem \in Payload
  /\ r.pc = "move" => r.dest \in Path

DiskTyped == disk \in [Path -> Payload \cup {NoFile}]
BeatTyped == beat \in [Workers -> Beat \cup {NoBeat}]
CountsTyped ==
  /\ leases \in 0 .. MaxLeases /\ alts \in 0 .. MaxAlts
  /\ crashes \in 0 .. MaxCrashes /\ commands \in 0 .. MaxCommands
  /\ admitted \subseteq Jobs
  /\ runs \in [Jobs -> Nat]
  /\ grants \in [Jobs -> Nat]

TInv == TypeOK /\ \A a \in Actors : LocalTyped(op[a])

LEMMA IdleTyped == LocalTyped(Idle) /\ Stub \in Payload
<1>1. <<>> \in Seq(Dirs)
  OBVIOUS
<1> QED
  BY <1>1, QueueAssumption DEF LocalTyped, Idle, Op, PCs, Dirs, Stub, Payload

LEMMA StateOrderTyped ==
  STATE_ORDER \in Seq(Dirs) /\ <<"pending", "awaiting_approval", "failed">> \in Seq(Dirs)
  BY DEF STATE_ORDER, Dirs

LEMMA StartTyped ==
  ASSUME NEW r, LocalTyped(r), NEW p \in Path, NEW d \in Dirs
  PROVE  LocalTyped([r EXCEPT !.pc = "read", !.path = p, !.goal = d])
  BY DEF LocalTyped, Op, PCs

LEMMA SearchTyped ==
  ASSUME NEW p \in Path, NEW d \in Dirs, NEW todo \in Seq(Dirs),
         NEW c \in {"enqueue", "cancel", "drop"}
  PROVE  /\ LocalTyped([Idle EXCEPT !.pc = c, !.goal = d, !.path = p, !.todo = todo])
         /\ LocalTyped([Idle EXCEPT !.pc = c, !.path = p, !.todo = todo])
<1>1. Idle \in Op
  BY IdleTyped DEF LocalTyped
<1>2. c \in PCs /\ c # "idle" /\ c \notin {"write", "claim_write", "defer_write", "move"}
  BY DEF PCs
<1> QED
  BY <1>1, <1>2 DEF LocalTyped, Op

LEMMA InitTyped == Init => TInv
  BY IdleTyped, QueueAssumption DEF Init, TInv, TypeOK, LocalTyped, Actors

\* What a step has to show: the new local state of its process and the other
\* variables keep their types.
LEMMA Typing ==
  ASSUME TInv, NEW a \in Actors, NEW r, LocalTyped(r),
         op' = [op EXCEPT ![a] = r],
         DiskTyped', BeatTyped', CountsTyped'
  PROVE  TInv'
  BY DEF TInv, TypeOK, LocalTyped, DiskTyped, BeatTyped, CountsTyped

LEMMA Typed ==
  ASSUME TInv
  PROVE  /\ DiskTyped /\ BeatTyped /\ CountsTyped
         /\ \A a \in Actors : op[a] \in Op /\ LocalTyped(op[a])
         /\ \A p \in Path : ReadPayload(p) \in Payload
  BY IdleTyped DEF TInv, TypeOK, DiskTyped, BeatTyped, CountsTyped, ReadPayload

LEMMA WriteTyped ==
  ASSUME TInv, NEW p \in Path, NEW payload \in Payload, Write(p, payload)
  PROVE  DiskTyped'
<1>1. [payload EXCEPT !.stale = FALSE] \in Payload
  BY DEF Payload
<1> QED
  BY <1>1 DEF Write, DiskTyped, TInv, TypeOK

LEMMA TransitionedTyped ==
  ASSUME NEW payload \in Payload, NEW d
  PROVE  Transitioned(payload, d) \in Payload
<1>1. (IF d = "pending" THEN payload.deferred ELSE FALSE) \in BOOLEAN
  BY DEF Payload
<1>2. 0 \in 0 .. MaxLeases
  BY QueueAssumption
<1> QED
  BY <1>1, <1>2 DEF Transitioned, Payload

LEMMA TransitionTyped ==
  ASSUME TInv, NEW a \in Actors, TransitionStep(a)
  PROVE  TInv'
<1>0. /\ op[a] \in Op /\ LocalTyped(op[a])
      /\ DiskTyped /\ BeatTyped /\ CountsTyped /\ \A p \in Path : ReadPayload(p) \in Payload
  BY Typed
<1>1. CASE TransitionRead(a)
  <2> DEFINE r == [op[a] EXCEPT !.pc = "write", !.mem = ReadPayload(op[a].path)]
  <2>1. LocalTyped(r)
    BY <1>1, <1>0 DEF TransitionRead, LocalTyped, Op, PCs
  <2>2. op' = [op EXCEPT ![a] = r] /\ DiskTyped' /\ BeatTyped' /\ CountsTyped'
    BY <1>1, <1>0 DEF TransitionRead, DiskTyped, BeatTyped, CountsTyped
  <2> QED BY <2>1, <2>2, Typing
<1>2. CASE TransitionWrite(a)
  <2> DEFINE r == [op[a] EXCEPT !.pc = "pick", !.mem = NoFile]
  <2>1. LocalTyped(r)
    BY <1>2, <1>0 DEF TransitionWrite, LocalTyped, Op, PCs
  <2>2. op' = [op EXCEPT ![a] = r] /\ BeatTyped' /\ CountsTyped'
    BY <1>2, <1>0 DEF TransitionWrite, BeatTyped, CountsTyped
  <2>3. DiskTyped'
    <3>1. op[a].path \in Path /\ op[a].mem \in Payload
      BY <1>2, <1>0 DEF TransitionWrite, LocalTyped
    <3> QED BY <1>2, <3>1, TransitionedTyped, WriteTyped, <1>0 DEF TransitionWrite
  <2> QED BY <2>1, <2>2, <2>3, Typing
<1>3. CASE PickTarget(a)
  <2> DEFINE target == [op[a].path EXCEPT !.dir = op[a].goal]
  <2>1. target \in Path /\ (alts < MaxAlts => [target EXCEPT !.alt = alts + 1] \in Path)
    <3>1. op[a].path \in Path /\ op[a].goal \in Dirs /\ alts \in 0 .. MaxAlts
      BY <1>3, <1>0 DEF PickTarget, LocalTyped, Op, CountsTyped
    <3>2. target \in Path
      BY <3>1, <1>0 DEF Path
    <3>3. ASSUME alts < MaxAlts PROVE alts + 1 \in 0 .. MaxAlts
      BY <3>1, <3>3, <1>0, QueueAssumption
    <3> QED BY <3>2, <3>3, <1>0 DEF Path
  <2>2. PICK d \in Path : op' = [op EXCEPT ![a] = [op[a] EXCEPT !.pc = "move", !.dest = d]]
    BY <1>3, <2>1, <1>0 DEF PickTarget
  <2>3. LocalTyped([op[a] EXCEPT !.pc = "move", !.dest = d])
    BY <1>3, <1>0 DEF PickTarget, LocalTyped, Op, PCs
  <2>4. DiskTyped' /\ BeatTyped' /\ CountsTyped'
    BY <1>3, <1>0, QueueAssumption DEF PickTarget, DiskTyped, BeatTyped, CountsTyped
  <2> QED BY <2>2, <2>3, <2>4, Typing
<1>4. CASE Move(a)
  <2> DEFINE r == [op[a] EXCEPT !.pc = "retry", !.dest = NoPath]
  <2>1. LocalTyped(r)
    BY <1>4, <1>0 DEF Move, LocalTyped, Op, PCs
  <2>2. op' = [op EXCEPT ![a] = r] \/ op' = [op EXCEPT ![a] = Idle]
    BY <1>4 DEF Move, Finish
  <2>3. DiskTyped' /\ BeatTyped' /\ CountsTyped'
    BY <1>4, <1>0 DEF Move, Rename, LocalTyped, DiskTyped, BeatTyped, CountsTyped
  <2> QED BY <2>1, <2>2, <2>3, Typing, IdleTyped
<1> QED
  BY <1>1, <1>2, <1>3, <1>4 DEF TransitionStep

LEMMA WorkerTyped ==
  ASSUME TInv, NEW w \in Workers, WorkerStep(w)
  PROVE  TInv'
<1> w \in Actors
  BY DEF Actors
<1>0. /\ op[w] \in Op /\ LocalTyped(op[w])
      /\ DiskTyped /\ BeatTyped /\ CountsTyped /\ \A p \in Path : ReadPayload(p) \in Payload
  BY Typed
<1>1. CASE ClaimPick(w)
  <2>1. PICK p \in Path : op' = [op EXCEPT ![w] = [Idle EXCEPT !.pc = "claim", !.path = p]]
    BY <1>1 DEF ClaimPick
  <2>2. LocalTyped([Idle EXCEPT !.pc = "claim", !.path = p])
    BY <1>0, IdleTyped DEF LocalTyped, Op, PCs
  <2>3. DiskTyped' /\ BeatTyped' /\ CountsTyped'
    BY <1>1, <1>0 DEF ClaimPick, DiskTyped, BeatTyped, CountsTyped
  <2> QED BY <2>1, <2>2, <2>3, Typing
<1>2. CASE ClaimRename(w)
  <2> DEFINE target == [op[w].path EXCEPT !.dir = "running"]
             r == [op[w] EXCEPT !.pc = "claim_read", !.path = target]
  <2>1. target \in Path /\ op[w].path \in Path
    BY <1>2, <1>0 DEF ClaimRename, LocalTyped, Path, Dirs
  <2>2. LocalTyped(r)
    BY <1>2, <2>1, <1>0 DEF ClaimRename, LocalTyped, Op, PCs
  <2>3. op' = [op EXCEPT ![w] = r] \/ op' = [op EXCEPT ![w] = Idle]
    BY <1>2 DEF ClaimRename, Finish
  <2>4. DiskTyped'
    <3>1. CASE disk' = disk
      BY <3>1, <1>0 DEF DiskTyped
    <3>2. ASSUME NEW old \in BOOLEAN, disk[op[w].path] # NoFile,
                 disk' = [Rename(op[w].path, target) EXCEPT ![target].stale = old]
          PROVE  DiskTyped'
      <4>1. [disk[op[w].path] EXCEPT !.stale = old] \in Payload
        BY <2>1, <3>2, <1>0 DEF DiskTyped, Payload
      <4> QED BY <2>1, <3>2, <4>1, <1>0 DEF DiskTyped, Rename
    <3> QED BY <1>2, <3>1, <3>2, <1>0 DEF ClaimRename
  <2>5. BeatTyped' /\ CountsTyped'
    BY <1>2, <1>0 DEF ClaimRename, BeatTyped, CountsTyped
  <2> QED BY <2>2, <2>3, <2>4, <2>5, Typing, IdleTyped
<1>3. CASE ClaimRead(w)
  <2> DEFINE r == [op[w] EXCEPT !.pc = "claim_write", !.mem = ReadPayload(op[w].path)]
  <2>1. LocalTyped(r)
    BY <1>3, <1>0 DEF ClaimRead, LocalTyped, Op, PCs, Dirs
  <2>2. op' = [op EXCEPT ![w] = r] /\ DiskTyped' /\ BeatTyped' /\ CountsTyped'
    BY <1>3, <1>0 DEF ClaimRead, DiskTyped, BeatTyped, CountsTyped
  <2> QED BY <2>1, <2>2, Typing
<1>4. CASE ClaimWrite(w)
  <2> DEFINE attempt == op[w].mem.attempt + 1
             r == [op[w] EXCEPT !.pc = "claimed", !.mem = NoFile,
                                !.lease = leases + 1, !.attempt = attempt]
  <2>1. op[w].path \in Path /\ op[w].mem \in Payload
        /\ attempt \in Nat /\ leases + 1 \in 0 .. MaxLeases
    <3>1. op[w].mem \in Payload /\ op[w].path \in Path
      BY <1>4, <1>0 DEF ClaimWrite, LocalTyped
    <3>2. attempt \in Nat
      BY <3>1, <1>0 DEF Payload
    <3> QED BY <1>4, <3>1, <3>2, <1>0, QueueAssumption DEF ClaimWrite, CountsTyped
  <2>2. LocalTyped(r)
    BY <2>1, <1>4, <1>0 DEF ClaimWrite, LocalTyped, Op, PCs
  <2>3. [op[w].mem EXCEPT !.attempt = attempt, !.lease = leases + 1,
                          !.deferred = FALSE] \in Payload
    BY <2>1, <1>0 DEF Payload
  <2>4. DiskTyped'
    BY <1>4, <2>1, <2>3, WriteTyped, <1>0 DEF ClaimWrite
  <2>5. op' = [op EXCEPT ![w] = r] /\ BeatTyped' /\ CountsTyped'
    BY <1>4, <2>1, <1>0 DEF ClaimWrite, BeatTyped, CountsTyped
  <2> QED BY <2>2, <2>4, <2>5, Typing
<1>5. CASE BeginRun(w)
  <2> DEFINE r == [op[w] EXCEPT !.pc = "executing"]
  <2>1. LocalTyped(r)
    BY <1>5, <1>0 DEF BeginRun, LocalTyped, Op, PCs
  <2>2. runs' \in [Jobs -> Nat]
    <3>1. op[w].path.job \in Jobs
      BY <1>5, <1>0 DEF BeginRun, LocalTyped, Path
    <3> QED BY <1>5, <3>1, <1>0 DEF BeginRun, CountsTyped
  <2>3. op' = [op EXCEPT ![w] = r] /\ DiskTyped' /\ BeatTyped' /\ CountsTyped'
    BY <1>5, <2>2, <1>0 DEF BeginRun, Step, DiskTyped, BeatTyped, CountsTyped
  <2> QED BY <2>1, <2>3, Typing
<1>6. CASE PauseRun(w)
  <2> DEFINE r == [op[w] EXCEPT !.pc = "read", !.path = op[w].path, !.goal = "awaiting_approval"]
  <2>1. LocalTyped(r)
    BY <1>6, <1>0 DEF PauseRun, LocalTyped, Op, PCs, Dirs
  <2>2. op' = [op EXCEPT ![w] = r] /\ DiskTyped' /\ BeatTyped' /\ CountsTyped'
    BY <1>6, <1>0 DEF PauseRun, DiskTyped, BeatTyped, CountsTyped, StartTransition
  <2> QED BY <2>1, <2>2, Typing
<1>7. CASE AbortOnStub(w)
  BY <1>7, Typing, IdleTyped, <1>0 DEF AbortOnStub, Finish, DiskTyped, BeatTyped, CountsTyped
<1>8. CASE HeartbeatRead(w)
  <2>1. op[w].path \in Path /\ disk[op[w].path] \in Payload
    BY <1>8, <1>0 DEF HeartbeatRead, LocalTyped, DiskTyped
  <2>2. BeatTyped' /\ DiskTyped' /\ CountsTyped'
    BY <1>8, <2>1, <1>0 DEF HeartbeatRead, BeatTyped, DiskTyped, CountsTyped, Beat
  <2>3. op' = [op EXCEPT ![w] = op[w]]
    BY <1>8 DEF HeartbeatRead, TInv, TypeOK
  <2> QED BY <2>2, <2>3, Typing, <1>0
<1>9. CASE HeartbeatWrite(w)
  <2>1. beat[w].path \in Path /\ beat[w].mem \in Payload
    BY <1>9, <1>0 DEF HeartbeatWrite, BeatTyped, Beat
  <2>2. DiskTyped'
    BY <1>9, <2>1, WriteTyped, <1>0 DEF HeartbeatWrite
  <2>3. BeatTyped' /\ CountsTyped'
    BY <1>9, <1>0 DEF HeartbeatWrite, BeatTyped, CountsTyped
  <2>4. op' = [op EXCEPT ![w] = op[w]]
    BY <1>9 DEF HeartbeatWrite, TInv, TypeOK
  <2> QED BY <2>2, <2>3, <2>4, Typing, <1>0
<1>10. CASE SettleRun(w)
  <2>0. op[w].pc = "executing" /\ op[w].path \in Path
    BY <1>10, <1>0 DEF SettleRun, Joined, LocalTyped
  <2>1. PICK d \in {"done", "failed", "awaiting_approval"} :
          StartTransition(w, op[w].path, d)
    BY <1>10 DEF SettleRun
  <2>2. LocalTyped([op[w] EXCEPT !.pc = "read", !.path = op[w].path, !.goal = d])
    BY <2>0, <1>0 DEF LocalTyped, Op, PCs, Dirs
  <2>3. DiskTyped' /\ BeatTyped' /\ CountsTyped'
    BY <1>10, <1>0 DEF SettleRun, DiskTyped, BeatTyped, CountsTyped
  <2> QED BY <2>1, <2>2, <2>3, Typing DEF StartTransition
<1>11. CASE FailAndRetry(w)
  <2>0. op[w].pc = "executing" /\ op[w].path \in Path
    BY <1>11, <1>0 DEF FailAndRetry, Joined, LocalTyped
  <2> DEFINE r == [op[w] EXCEPT !.pc = "read", !.goal = "failed", !.cont = "retry"]
  <2>1. LocalTyped(r)
    BY <2>0, <1>0 DEF LocalTyped, Op, PCs, Dirs
  <2>2. op' = [op EXCEPT ![w] = r] /\ DiskTyped' /\ BeatTyped' /\ CountsTyped'
    BY <1>11, <1>0 DEF FailAndRetry, DiskTyped, BeatTyped, CountsTyped
  <2> QED BY <2>1, <2>2, Typing
<1>12. CASE DeadLetter(w)
  <2>0. op[w].pc = "executing" /\ op[w].path \in Path
    BY <1>12, <1>0 DEF DeadLetter, Joined, LocalTyped
  <2> DEFINE r == [op[w] EXCEPT !.pc = "read", !.path = op[w].path, !.goal = "dead_letter"]
  <2>1. LocalTyped(r)
    BY <2>0, <1>0 DEF LocalTyped, Op, PCs, Dirs
  <2>2. op' = [op EXCEPT ![w] = r] /\ DiskTyped' /\ BeatTyped' /\ CountsTyped'
    BY <1>12, <1>0 DEF DeadLetter, DiskTyped, BeatTyped, CountsTyped, StartTransition
  <2> QED BY <2>1, <2>2, Typing
<1>13. CASE RetryFind(w)
  <2>1. DiskTyped' /\ BeatTyped' /\ CountsTyped'
    BY <1>13, <1>0 DEF RetryFind, DiskTyped, BeatTyped, CountsTyped
  <2>2. CASE op' = [op EXCEPT ![w] = Idle]
    BY <2>1, <2>2, <1>0, Typing, IdleTyped
  <2>3. ASSUME NEW p \in Path,
               op' = [op EXCEPT ![w] = [op[w] EXCEPT !.pc = "defer_read", !.path = p,
                                                     !.cont = "idle"]]
        PROVE  TInv'
    <3>1. LocalTyped([op[w] EXCEPT !.pc = "defer_read", !.path = p, !.cont = "idle"])
      BY <1>0 DEF LocalTyped, Op, PCs
    <3> QED BY <2>1, <2>3, <3>1, <1>0, Typing
  <2> QED BY <1>13, <2>2, <2>3, Typing DEF RetryFind, FindJobFiles, Finish
<1>14. CASE RetryRead(w)
  <2> DEFINE r == [op[w] EXCEPT !.pc = "defer_write", !.mem = ReadPayload(op[w].path)]
  <2>1. LocalTyped(r)
    BY <1>14, <1>0 DEF RetryRead, LocalTyped, Op, PCs, Dirs
  <2>2. op' = [op EXCEPT ![w] = r] /\ DiskTyped' /\ BeatTyped' /\ CountsTyped'
    BY <1>14, <1>0 DEF RetryRead, DiskTyped, BeatTyped, CountsTyped
  <2> QED BY <2>1, <2>2, Typing
<1>15. CASE RetryWrite(w)
  <2> DEFINE r == [op[w] EXCEPT !.pc = "read", !.mem = NoFile, !.goal = "pending"]
  <2>1. LocalTyped(r)
    BY <1>15, <1>0 DEF RetryWrite, LocalTyped, Op, PCs, Dirs
  <2>2. op[w].path \in Path /\ [op[w].mem EXCEPT !.deferred = TRUE] \in Payload
    BY <1>15, <1>0 DEF RetryWrite, LocalTyped, Payload
  <2>3. DiskTyped'
    BY <1>15, <2>2, WriteTyped, <1>0 DEF RetryWrite
  <2>4. op' = [op EXCEPT ![w] = r] /\ BeatTyped' /\ CountsTyped'
    BY <1>15, <1>0 DEF RetryWrite, BeatTyped, CountsTyped
  <2> QED BY <2>1, <2>3, <2>4, Typing
<1> QED
  BY <1>1, <1>2, <1>3, <1>4, <1>5, <1>6, <1>7, <1>8, <1>9, <1>10, <1>11, <1>12,
     <1>13, <1>14, <1>15 DEF WorkerStep

LEMMA OperatorTyped ==
  ASSUME TInv, NEW a \in Operators, OperatorStep(a)
  PROVE  TInv'
<1> a \in Actors
  BY DEF Actors
<1>0. /\ op[a] \in Op /\ LocalTyped(op[a])
      /\ DiskTyped /\ BeatTyped /\ CountsTyped
  BY Typed
<1>1. CASE EnqueueStart(a)
  <2>1. PICK j \in Jobs, d \in {"pending", "awaiting_approval"} :
          op' = [op EXCEPT ![a] = [Idle EXCEPT !.pc = "enqueue", !.goal = d,
                                     !.path = JobPath(d, j), !.todo = STATE_ORDER]]
    BY <1>1 DEF EnqueueStart
  <2>2. JobPath(d, j) \in Path
    BY <1>0, QueueAssumption DEF JobPath, Path, Dirs
  <2>3. LocalTyped([Idle EXCEPT !.pc = "enqueue", !.goal = d,
                                !.path = JobPath(d, j), !.todo = STATE_ORDER])
    BY <2>2, SearchTyped, StateOrderTyped DEF Dirs
  <2>4. DiskTyped' /\ BeatTyped' /\ CountsTyped'
    BY <1>1, <1>0, QueueAssumption DEF EnqueueStart, Command, DiskTyped, BeatTyped, CountsTyped
  <2> QED BY <2>1, <2>3, <2>4, Typing
<1>2. CASE EnqueueScan(a)
  <2> DEFINE put == [op[a] EXCEPT !.pc = "put"]
             next == [op[a] EXCEPT !.todo = Tail(@)]
  <2>1. LocalTyped(put)
    BY <1>2, <1>0 DEF EnqueueScan, LocalTyped, Op, PCs
  <2>2. ASSUME op[a].todo # <<>> PROVE LocalTyped(next)
    <3>1. Tail(op[a].todo) \in Seq(Dirs)
      BY <2>2, <1>0 DEF Op
    <3> QED BY <1>2, <3>1, <1>0 DEF EnqueueScan, LocalTyped, Op
  <2>3. \/ op' = [op EXCEPT ![a] = put] \/ op' = [op EXCEPT ![a] = Idle]
        \/ op[a].todo # <<>> /\ op' = [op EXCEPT ![a] = next]
    BY <1>2 DEF EnqueueScan, Step, Finish
  <2>4. DiskTyped' /\ BeatTyped' /\ CountsTyped'
    BY <1>2, <1>0 DEF EnqueueScan, DiskTyped, BeatTyped, CountsTyped
  <2> QED BY <2>1, <2>2, <2>3, <2>4, Typing, IdleTyped
<1>3. CASE EnqueuePut(a)
  <2>1. op[a].path \in Path /\ [Stub EXCEPT !.runnable = TRUE] \in Payload
    BY <1>3, <1>0, IdleTyped DEF EnqueuePut, LocalTyped, Payload
  <2>2. DiskTyped'
    BY <1>3, <2>1, WriteTyped, <1>0 DEF EnqueuePut
  <2>3. admitted' \subseteq Jobs
    BY <1>3, <2>1, <1>0 DEF EnqueuePut, CountsTyped, Path
  <2>4. op' = [op EXCEPT ![a] = Idle] /\ BeatTyped' /\ CountsTyped'
    BY <1>3, <2>3, <1>0 DEF EnqueuePut, Finish, BeatTyped, CountsTyped
  <2> QED BY <2>2, <2>4, Typing, IdleTyped
<1>4. CASE Approve(a)
  <2>1. PICK p \in Path : StartTransition(a, p, "pending")
    BY <1>4 DEF Approve, FindJobFiles
  <2>2. LocalTyped([op[a] EXCEPT !.pc = "read", !.path = p, !.goal = "pending"])
    BY <1>0, StartTyped DEF Dirs
  <2>3. DiskTyped' /\ BeatTyped' /\ CountsTyped'
    BY <1>4, <1>0, QueueAssumption DEF Approve, Command, DiskTyped, BeatTyped, CountsTyped
  <2> QED BY <2>1, <2>2, <2>3, Typing DEF StartTransition
<1>5. CASE Reject(a)
  <2>1. PICK p \in Path : StartTransition(a, p, "failed")
    BY <1>5 DEF Reject, FindJobFiles
  <2>2. LocalTyped([op[a] EXCEPT !.pc = "read", !.path = p, !.goal = "failed"])
    BY <1>0, StartTyped DEF Dirs
  <2>3. DiskTyped' /\ BeatTyped' /\ CountsTyped'
    BY <1>5, <1>0, QueueAssumption DEF Reject, Command, DiskTyped, BeatTyped, CountsTyped
  <2> QED BY <2>1, <2>2, <2>3, Typing DEF StartTransition
<1>6. CASE Unlock(a)
  <2>1. PICK p \in Path : StartTransition(a, p, "failed")
    BY <1>6 DEF Unlock, FindJobFiles
  <2>2. LocalTyped([op[a] EXCEPT !.pc = "read", !.path = p, !.goal = "failed"])
    BY <1>0, StartTyped DEF Dirs
  <2>3. DiskTyped' /\ BeatTyped' /\ CountsTyped'
    BY <1>6, <1>0, QueueAssumption DEF Unlock, Command, DiskTyped, BeatTyped, CountsTyped
  <2> QED BY <2>1, <2>2, <2>3, Typing DEF StartTransition
<1>7. CASE SearchStart(a)
  <2>1. PICK j \in Jobs :
          \/ op' = [op EXCEPT ![a] = [Idle EXCEPT !.pc = "cancel", !.goal = "failed",
                      !.path = JobPath("failed", j),
                      !.todo = <<"pending", "awaiting_approval", "failed">>]]
          \/ op' = [op EXCEPT ![a] = [Idle EXCEPT !.pc = "drop",
                      !.path = JobPath("pending", j), !.todo = STATE_ORDER]]
    BY <1>7 DEF SearchStart
  <2>2. JobPath("failed", j) \in Path /\ JobPath("pending", j) \in Path
    BY <1>0, QueueAssumption DEF JobPath, Path, Dirs
  <2>3. LocalTyped([Idle EXCEPT !.pc = "cancel", !.goal = "failed",
                      !.path = JobPath("failed", j),
                      !.todo = <<"pending", "awaiting_approval", "failed">>])
    BY <2>2, SearchTyped, StateOrderTyped DEF Dirs
  <2>4. LocalTyped([Idle EXCEPT !.pc = "drop",
                      !.path = JobPath("pending", j), !.todo = STATE_ORDER])
    BY <2>2, SearchTyped, StateOrderTyped DEF Dirs
  <2>5. DiskTyped' /\ BeatTyped' /\ CountsTyped'
    BY <1>7, <1>0, QueueAssumption DEF SearchStart, Command, DiskTyped, BeatTyped, CountsTyped
  <2> QED BY <2>1, <2>3, <2>4, <2>5, Typing
<1>8. CASE SearchScan(a)
  <2> DEFINE next == [op[a] EXCEPT !.todo = Tail(@)]
             hit(p) == [op[a] EXCEPT !.path = p, !.todo = <<>>,
                          !.pc = IF op[a].pc = "cancel" THEN "read" ELSE "unlink"]
  <2>1. ASSUME op[a].todo # <<>> PROVE LocalTyped(next)
    <3>1. Tail(op[a].todo) \in Seq(Dirs)
      BY <2>1, <1>0 DEF Op
    <3> QED BY <1>8, <3>1, <1>0 DEF SearchScan, LocalTyped, Op
  <2>2. ASSUME NEW p \in Path PROVE LocalTyped(hit(p))
    <3>1. <<>> \in Seq(Dirs)
      OBVIOUS
    <3> QED BY <3>1, <1>0 DEF LocalTyped, Op, PCs
  <2>3. \/ op' = [op EXCEPT ![a] = Idle]
        \/ op[a].todo # <<>> /\ op' = [op EXCEPT ![a] = next]
        \/ \E p \in Path : op' = [op EXCEPT ![a] = hit(p)]
    BY <1>8 DEF SearchScan, Finish, FindJobFiles
  <2>4. DiskTyped' /\ BeatTyped' /\ CountsTyped'
    BY <1>8, <1>0 DEF SearchScan, DiskTyped, BeatTyped, CountsTyped
  <2> QED BY <2>1, <2>2, <2>3, <2>4, Typing, IdleTyped
<1>9. CASE DropUnlink(a)
  BY <1>9, Typing, IdleTyped, <1>0 DEF DropUnlink, Finish, DiskTyped, BeatTyped, CountsTyped
<1> QED
  BY <1>1, <1>2, <1>3, <1>4, <1>5, <1>6, <1>7, <1>8, <1>9 DEF OperatorStep

LEMMA EnvironmentTyped ==
  ASSUME TInv,
         \/ \E a \in Actors : Reclaim(a) \/ Crash(a)
         \/ \E p \in Path : GrowsStale(p) \/ BackoffElapses(p)
  PROVE  TInv'
<1>0. DiskTyped /\ BeatTyped /\ CountsTyped /\ \A a \in Actors : op[a] \in Op /\ LocalTyped(op[a])
  BY Typed
<1>1. ASSUME NEW a \in Actors, Reclaim(a) PROVE TInv'
  <2>1. PICK p \in Path, d \in {"dead_letter", "pending"} : StartTransition(a, p, d)
    BY <1>1 DEF Reclaim
  <2>2. LocalTyped([op[a] EXCEPT !.pc = "read", !.path = p, !.goal = d])
    BY <1>0, StartTyped DEF Dirs
  <2>3. DiskTyped' /\ BeatTyped' /\ CountsTyped'
    BY <1>1, <1>0, QueueAssumption DEF Reclaim, Command, DiskTyped, BeatTyped, CountsTyped
  <2> QED BY <2>1, <2>2, <2>3, Typing DEF StartTransition
<1>2. ASSUME NEW a \in Actors, Crash(a) PROVE TInv'
  <2>1. BeatTyped'
    BY <1>2, <1>0 DEF Crash, BeatTyped
  <2>2. crashes' \in 0 .. MaxCrashes
    BY <1>2, <1>0, QueueAssumption DEF Crash, CountsTyped
  <2>3. DiskTyped' /\ CountsTyped'
    BY <1>2, <2>2, <1>0 DEF Crash, DiskTyped, CountsTyped
  <2> QED BY <1>2, <2>1, <2>3, Typing, IdleTyped DEF Crash, Finish
<1>3. ASSUME NEW p \in Path, NEW x \in Payload, disk' = [disk EXCEPT ![p] = x],
             UNCHANGED <<op, beat, leases, alts, crashes, commands, admitted, runs, grants>>
      PROVE  TInv'
  BY <1>3, Typing, <1>0 DEF TInv, TypeOK
<1>4. ASSUME NEW p \in Path, GrowsStale(p) PROVE TInv'
  <2>1. [disk[p] EXCEPT !.stale = TRUE] \in Payload
    BY <1>4, <1>0 DEF GrowsStale, DiskTyped, Payload
  <2> QED BY <1>3, <1>4, <2>1, Typing DEF GrowsStale
<1>5. ASSUME NEW p \in Path, BackoffElapses(p) PROVE TInv'
  <2>1. [disk[p] EXCEPT !.deferred = FALSE] \in Payload
    BY <1>5, <1>0 DEF BackoffElapses, DiskTyped, Payload
  <2> QED BY <1>3, <1>5, <2>1, Typing DEF BackoffElapses
<1> QED
  BY <1>1, <1>2, <1>4, <1>5

\* The variables keep their types in every behaviour of the queue: an item that
\* is read back, rewritten and moved by any mix of processes stays a payload.
THEOREM TypeCorrect == Spec => []TypeOK
<1>1. TInv /\ [Next]_vars => TInv'
  <2> SUFFICES ASSUME TInv, [Next]_vars PROVE TInv'
    OBVIOUS
  <2>1. CASE UNCHANGED vars
    BY <2>1 DEF vars, TInv, TypeOK, LocalTyped
  <2> QED
    BY <2>1, TransitionTyped, WorkerTyped, OperatorTyped, EnvironmentTyped DEF Next
<1> QED
  BY <1>1, InitTyped, PTL DEF Spec, TInv

------------------------------------------------------------------------------
(* The queue undisturbed. *)

Undisturbed ==
  /\ Interventions = {}
  /\ ~Stalls
  /\ \A r \in Reclaimers : Workers = {r}
  /\ \A a, b \in Operators : a = b

------------------------------------------------------------------------------
(* The inductive invariant.  r stands for the local state of a process.      *)

\* A process owns the job of its path from the rename that claims it, or from
\* the command that picks it, to the end of the operation.
Owns(r) == r.pc \notin {"idle", "claim", "enqueue", "put"}

InTransition(r) == r.pc \in {"read", "write", "pick", "move"}

\* What an owner finds on disk: its file, or after fail the file fail moved,
\* and under its own lease as long as it has not begun to settle it.
Held(r) ==
  /\ Owns(r) /\ r.pc # "retry" => disk[r.path] # NoFile
  /\ r.pc = "retry" =>
       \E p \in Path : p.dir = "failed" /\ p.job = r.path.job /\ disk[p] # NoFile
  /\ r.pc \in {"claimed", "executing"} => r.lease # 0 /\ disk[r.path].lease = r.lease

Moving(r) ==
  /\ InTransition(r) => r.goal # r.path.dir
  /\ r.pc = "move" => r.dest = [r.path EXCEPT !.dir = r.goal]

WorkerLocal(r) ==
  /\ r.pc \in {"idle", "claim", "claim_read", "claim_write", "claimed", "executing",
               "retry", "defer_read", "defer_write", "read", "write", "pick", "move"}
  /\ r.pc = "claim" => r.path.dir = "pending"
  /\ r.pc \in {"claim_read", "claim_write", "claimed", "executing"} => r.path.dir = "running"
  /\ r.pc \in {"defer_read", "defer_write"} => r.path.dir = "failed"
  /\ InTransition(r) =>
       \/ r.path.dir = "running" /\ (r.cont = "retry" => r.goal = "failed")
       \/ r.path.dir = "failed" /\ r.cont = "idle"
  /\ r.pc \in {"idle", "claim", "claim_read", "claim_write", "claimed", "executing",
               "defer_read", "defer_write"} => r.cont = "idle"

OperatorLocal(r) ==
  /\ r.pc \in {"idle", "enqueue", "put", "read", "write", "pick", "move"}
  /\ r.pc \in {"enqueue", "put"} => r.path.job \notin admitted
  /\ InTransition(r) => r.path.dir = "awaiting_approval"
  /\ r.cont = "idle"

\* A heartbeat is under way only while its worker executes, on its item.
BeatInHand(w) ==
  beat[w] # NoBeat =>
    /\ op[w].pc = "executing"
    /\ beat[w].path = op[w].path
    /\ beat[w].mem.lease = op[w].lease

FilesAdmitted == \A p \in Path : disk[p] # NoFile => p.job \in admitted

OneOwner ==
  \A a, b \in Actors :
    Owns(op[a]) /\ Owns(op[b]) /\ op[a].path.job = op[b].path.job => a = b

IInv ==
  /\ TInv
  /\ OneFilePerJob
  /\ FilesAdmitted
  /\ OneOwner
  /\ \A a \in Actors : Held(op[a]) /\ Moving(op[a])
  /\ \A w \in Workers : WorkerLocal(op[w]) /\ BeatInHand(w)
  /\ \A o \in Operators : OperatorLocal(op[o])

------------------------------------------------------------------------------
LEMMA IdleShape ==
  Held(Idle) /\ Moving(Idle) /\ WorkerLocal(Idle) /\ OperatorLocal(Idle) /\ ~Owns(Idle)
  BY DEF Held, Moving, WorkerLocal, OperatorLocal, Owns, InTransition, Idle

LEMMA InitIInv == Init => IInv
<1> SUFFICES ASSUME Init PROVE IInv
  OBVIOUS
<1>1. \A a \in Actors : op[a] = Idle
  BY DEF Init
<1>2. \A p \in Path : disk[p] = NoFile
  BY DEF Init
<1>3. \A w \in Workers : w \in Actors /\ beat[w] = NoBeat
  BY DEF Init, Actors
<1>4. \A o \in Operators : o \in Actors
  BY DEF Actors
<1> QED
  BY <1>1, <1>2, <1>3, <1>4, IdleShape, InitTyped
     DEF IInv, OneFilePerJob, FilesAdmitted, OneOwner, BeatInHand

\* Where the file of an owned job lies.
LEMMA Whereabouts ==
  ASSUME IInv, NEW a \in Actors, Owns(op[a])
  PROVE  \E p \in Path : /\ disk[p] # NoFile /\ p.job = op[a].path.job
                         /\ a \in Workers => p.dir \in {"running", "failed"}
                         /\ a \in Operators => p.dir = "awaiting_approval"
<1>1. op[a].path \in Path
  BY DEF IInv, TInv, LocalTyped, Owns
<1>2. CASE op[a].pc = "retry"
  <2>1. a \notin Operators
    BY <1>2 DEF IInv, OperatorLocal
  <2> QED BY <1>2, <2>1 DEF IInv, Held
<1>3. CASE op[a].pc # "retry"
  <2>1. disk[op[a].path] # NoFile
    BY <1>3 DEF IInv, Held
  <2>2. a \in Workers => op[a].path.dir \in {"running", "failed"}
    BY <1>3 DEF IInv, WorkerLocal, Owns, InTransition
  <2>3. a \in Operators => op[a].path.dir = "awaiting_approval"
    BY <1>3 DEF IInv, OperatorLocal, Owns, InTransition
  <2> QED BY <1>1, <2>1, <2>2, <2>3
<1> QED
  BY <1>2, <1>3

\* An item is nobody's when its directory is none an owner's file lies in.
LEMMA Unowned ==
  ASSUME IInv, NEW p \in Path, disk[p] # NoFile, NEW a \in Actors,
         a \in Workers => p.dir \notin {"running", "failed"},
         a \in Operators => p.dir # "awaiting_approval"
  PROVE  ~(Owns(op[a]) /\ op[a].path.job = p.job)
<1> SUFFICES ASSUME Owns(op[a]), op[a].path.job = p.job PROVE FALSE
  OBVIOUS
<1>1. PICK q \in Path : /\ disk[q] # NoFile /\ q.job = op[a].path.job
                        /\ a \in Workers => q.dir \in {"running", "failed"}
                        /\ a \in Operators => q.dir = "awaiting_approval"
  BY Whereabouts
<1>2. p = q
  BY <1>1 DEF IInv, OneFilePerJob
<1> QED
  BY <1>1, <1>2 DEF Actors

\* The parts of a step on the files of one job, which nobody else owns.
Alone(a, j) == \A b \in Actors : Owns(op[b]) /\ op[b].path.job = j => b = a
Touches(j) == \A p \in Path : p.job # j => disk'[p] = disk[p]
OneFileNext(j) ==
  \A p, q \in Path :
    disk'[p] # NoFile /\ disk'[q] # NoFile /\ p.job = j /\ q.job = j => p = q
OthersBeat(a) == \A w \in Workers : w # a => beat'[w] = beat[w]

\* A step of one process that changes no file and takes no job.
LEMMA LocalStep ==
  ASSUME IInv, TInv', NEW a \in Actors, NEW r, op' = [op EXCEPT ![a] = r],
         disk' = disk, admitted' = admitted,
         Owns(r) => Owns(op[a]) /\ r.path.job = op[a].path.job,
         Held(r), Moving(r),
         a \in Workers => WorkerLocal(r) /\ BeatInHand(a)',
         a \in Operators => OperatorLocal(r),
         OthersBeat(a)
  PROVE  IInv'
<1>1. op'[a] = r /\ \A b \in Actors : b # a => op'[b] = op[b]
  BY DEF IInv, TInv, TypeOK
<1>2. OneFilePerJob' /\ FilesAdmitted'
  BY DEF IInv, OneFilePerJob, FilesAdmitted
<1>3. OneOwner'
  BY <1>1 DEF IInv, OneOwner
<1>4. ASSUME NEW b \in Actors PROVE (Held(op[b]) /\ Moving(op[b]))'
  BY <1>1 DEF IInv, Held, Moving
<1>5. ASSUME NEW w \in Workers PROVE (WorkerLocal(op[w]) /\ BeatInHand(w))'
  BY <1>1 DEF IInv, Actors, BeatInHand, OthersBeat
<1>6. ASSUME NEW o \in Operators PROVE OperatorLocal(op[o])'
  BY <1>1 DEF IInv, Actors, OperatorLocal
<1> QED
  BY <1>2, <1>3, <1>4, <1>5, <1>6 DEF IInv

\* A step of one process on the files of one job, which nobody else owns.
LEMMA FileStep ==
  ASSUME IInv, Undisturbed, TInv', NEW a \in Actors, NEW r, NEW j \in Jobs,
         op' = [op EXCEPT ![a] = r],
         Alone(a, j),
         Owns(r) => r.path.job = j,
         Touches(j),
         OneFileNext(j),
         \/ admitted' = admitted /\ j \in admitted
         \/ admitted' = admitted \cup {j} /\ a \in Operators,
         Held(r)', Moving(r),
         a \in Workers => WorkerLocal(r) /\ BeatInHand(a)',
         a \in Operators => OperatorLocal(r)',
         OthersBeat(a)
  PROVE  IInv'
<1>1. op'[a] = r /\ \A b \in Actors : b # a => op'[b] = op[b]
  BY DEF IInv, TInv, TypeOK
<1>2. OneFilePerJob'
  BY DEF IInv, OneFilePerJob, OneFileNext, Touches
<1>3. FilesAdmitted'
  BY DEF IInv, FilesAdmitted, Touches
<1>4. OneOwner'
  BY <1>1 DEF IInv, OneOwner, Alone
<1>5. ASSUME NEW b \in Actors PROVE (Held(op[b]) /\ Moving(op[b]))'
  <2>1. CASE b = a
    BY <1>1, <2>1 DEF Held, Moving
  <2>2. CASE b # a
    <3>1. Held(op[b]) /\ Moving(op[b]) /\ (Owns(op[b]) => op[b].path.job # j)
          /\ (Owns(op[b]) => op[b].path \in Path)
      BY <2>2 DEF IInv, TInv, LocalTyped, Owns, Alone
    <3>2. Held(op[b])'
      BY <1>1, <2>2, <3>1 DEF Held, Owns, Touches
    <3> QED BY <1>1, <2>2, <3>1, <3>2 DEF Moving
  <2> QED BY <2>1, <2>2
<1>6. ASSUME NEW w \in Workers PROVE (WorkerLocal(op[w]) /\ BeatInHand(w))'
  BY <1>1 DEF IInv, Actors, BeatInHand, OthersBeat
<1>7. ASSUME NEW o \in Operators PROVE OperatorLocal(op[o])'
  <2>1. CASE o = a
    BY <1>1, <2>1 DEF OperatorLocal
  <2>2. CASE o # a
    <3>1. admitted' = admitted
      BY <2>2 DEF Undisturbed
    <3> QED BY <1>1, <2>2, <3>1 DEF IInv, Actors, OperatorLocal
  <2> QED BY <2>1, <2>2
<1> QED
  BY <1>2, <1>3, <1>4, <1>5, <1>6, <1>7 DEF IInv

------------------------------------------------------------------------------
(* Every step preserves the invariant.                                       *)

LEMMA Actor ==
  ASSUME IInv, NEW a \in Actors
  PROVE  /\ op[a] \in Op /\ LocalTyped(op[a]) /\ Held(op[a]) /\ Moving(op[a])
         /\ a \in Workers => WorkerLocal(op[a]) /\ BeatInHand(a)
         /\ a \in Operators => OperatorLocal(op[a])
         /\ Owns(op[a]) => op[a].path \in Path /\ op[a].path.job \in Jobs
  BY DEF IInv, TInv, TypeOK, LocalTyped, Owns, Path

LEMMA EndStep ==
  ASSUME IInv, TInv', NEW a \in Actors, Finish(a), disk' = disk, admitted' = admitted,
         a \in Workers => BeatInHand(a)',
         OthersBeat(a)
  PROVE  IInv'
  BY LocalStep, IdleShape DEF Finish

LEMMA LastFileStep ==
  ASSUME IInv, Undisturbed, TInv', NEW a \in Actors, NEW j \in Jobs, Finish(a),
         Alone(a, j),
         Touches(j),
         OneFileNext(j),
         \/ admitted' = admitted /\ j \in admitted
         \/ admitted' = admitted \cup {j} /\ a \in Operators,
         a \in Workers => BeatInHand(a)',
         OthersBeat(a)
  PROVE  IInv'
<1>1. PICK r : r = Idle
  OBVIOUS
<1>2. r.pc = "idle" /\ r.cont = "idle"
  BY <1>1 DEF Idle
<1>3. op' = [op EXCEPT ![a] = r]
  BY <1>1 DEF Finish
<1>4. Held(r)' /\ Moving(r) /\ WorkerLocal(r) /\ OperatorLocal(r)' /\ ~Owns(r)
  BY <1>2 DEF Held, Moving, WorkerLocal, OperatorLocal, Owns, InTransition
<1> QED
  BY <1>3, <1>4, FileStep

LEMMA Written ==
  ASSUME IInv, NEW p \in Path, NEW payload \in Payload, Write(p, payload)
  PROVE  /\ \A q \in Path : q # p => disk'[q] = disk[q]
         /\ disk'[p] = [payload EXCEPT !.stale = FALSE]
         /\ disk'[p] # NoFile /\ disk'[p].lease = payload.lease
<1>1. disk \in [Path -> Payload \cup {NoFile}]
  BY DEF IInv, TInv, TypeOK
<1>2. [payload EXCEPT !.stale = FALSE] \in Payload
  BY DEF Payload
<1>3. disk'[p] = [payload EXCEPT !.stale = FALSE] /\ \A q \in Path : q # p => disk'[q] = disk[q]
  BY <1>1 DEF Write
<1>4. [payload EXCEPT !.stale = FALSE].lease = payload.lease
  BY DEF Payload
<1> QED
  BY <1>2, <1>3, <1>4, SentinelAssumption

LEMMA TransitionKeeps ==
  ASSUME IInv, Undisturbed, TInv', NEW a \in Actors, TransitionStep(a)
  PROVE  IInv'
<1> DEFINE path == op[a].path
<1>0. /\ Owns(op[a]) /\ path \in Path /\ path.job \in Jobs /\ disk[path] # NoFile
      /\ op[a].goal # path.dir
      /\ Alone(a, path.job)
      /\ path.job \in admitted
  <2>1. Owns(op[a]) /\ InTransition(op[a]) /\ op[a].pc # "retry"
    BY DEF TransitionStep, TransitionRead, TransitionWrite, PickTarget, Move,
           Owns, InTransition
  <2> QED BY <2>1, Actor DEF Held, Moving, IInv, OneOwner, FilesAdmitted, Alone
<1>1. CASE TransitionRead(a)
  <2>r. PICK r : r = [op[a] EXCEPT !.pc = "write", !.mem = ReadPayload(path)]
    OBVIOUS
  <2>1. /\ op' = [op EXCEPT ![a] = r]
                 /\ r.pc = "write" /\ r.path = path /\ r.goal = op[a].goal
                 /\ r.cont = op[a].cont
    BY <2>r, <1>1, Actor DEF TransitionRead, Op
  <2>2. op[a].pc = "read" /\ disk' = disk /\ beat' = beat /\ admitted' = admitted
    BY <1>1 DEF TransitionRead
  <2>3. Held(r) /\ Moving(r)
    BY <1>0, <2>1 DEF Held, Moving, InTransition
  <2>4. a \in Workers => WorkerLocal(r) /\ BeatInHand(a)'
    BY <2>1, <2>2, Actor DEF WorkerLocal, BeatInHand, InTransition
  <2>5. a \in Operators => OperatorLocal(r)
    BY <2>1, <2>2, Actor DEF OperatorLocal, InTransition
  <2> QED BY <1>0, <2>1, <2>2, <2>3, <2>4, <2>5, LocalStep DEF OthersBeat
<1>2. CASE TransitionWrite(a)
  <2>r. PICK r : r = [op[a] EXCEPT !.pc = "pick", !.mem = NoFile]
    OBVIOUS
  <2>1. /\ op' = [op EXCEPT ![a] = r]
                 /\ r.pc = "pick" /\ r.path = path /\ r.goal = op[a].goal
                 /\ r.cont = op[a].cont
    BY <2>r, <1>2, Actor DEF TransitionWrite, Op
  <2>2. op[a].pc = "write" /\ beat' = beat /\ admitted' = admitted
    BY <1>2 DEF TransitionWrite
  <2>3. /\ \A p \in Path : p # path => disk'[p] = disk[p]
        /\ disk'[path] # NoFile
    <3>1. op[a].mem \in Payload
      BY <2>2, Actor DEF LocalTyped
    <3> QED BY <1>0, <1>2, <3>1, TransitionedTyped, Written DEF TransitionWrite
  <2>4. Held(r)' /\ Moving(r)
    BY <1>0, <2>1, <2>3 DEF Held, Moving, InTransition
  <2>5. a \in Workers => WorkerLocal(r) /\ BeatInHand(a)'
    BY <2>1, <2>2, Actor DEF WorkerLocal, BeatInHand, InTransition
  <2>6. a \in Operators => OperatorLocal(r)'
    BY <2>1, <2>2, Actor DEF OperatorLocal, InTransition
  <2>7. OneFileNext(path.job)
    BY <1>0, <2>3 DEF IInv, OneFilePerJob, OneFileNext
  <2>8. Touches(path.job)
    BY <2>3 DEF Touches
  <2> QED BY <1>0, <2>1, <2>2, <2>4, <2>5, <2>6, <2>7, <2>8, FileStep DEF OthersBeat
<1>3. CASE PickTarget(a)
  <2> DEFINE target == [path EXCEPT !.dir = op[a].goal]
  <2>1. disk[target] = NoFile
    <3>1. target \in Path /\ target # path /\ target.job = path.job
      BY <1>0, Actor DEF Path, Op
    <3> QED BY <1>0, <3>1 DEF IInv, OneFilePerJob
  <2>2. op[a].pc = "pick" /\ disk' = disk /\ beat' = beat /\ admitted' = admitted
    BY <1>3 DEF PickTarget
  <2>r. PICK r : r = [op[a] EXCEPT !.pc = "move", !.dest = target]
    OBVIOUS
  <2>3. /\ op' = [op EXCEPT ![a] = r]
                 /\ r.pc = "move" /\ r.path = path /\ r.goal = op[a].goal
                 /\ r.cont = op[a].cont /\ r.dest = target
    BY <2>r, <1>3, <2>1, Actor DEF PickTarget, Op
  <2>4. Held(r) /\ Moving(r)
    BY <1>0, <2>3 DEF Held, Moving, InTransition
  <2>5. a \in Workers => WorkerLocal(r) /\ BeatInHand(a)'
    BY <2>2, <2>3, Actor DEF WorkerLocal, BeatInHand, InTransition
  <2>6. a \in Operators => OperatorLocal(r)
    BY <2>2, <2>3, Actor DEF OperatorLocal, InTransition
  <2> QED BY <1>0, <2>2, <2>3, <2>4, <2>5, <2>6, LocalStep DEF OthersBeat
<1>4. CASE Move(a)
  <2> DEFINE dest == op[a].dest
  <2>1. dest \in Path /\ dest # path /\ dest.job = path.job /\ dest.dir = op[a].goal
    <3>1. dest = [path EXCEPT !.dir = op[a].goal] /\ dest \in Path
      BY <1>4, Actor DEF Move, Moving, LocalTyped
    <3> QED BY <1>0, <3>1 DEF Path
  <2>2. disk' = Rename(path, dest) /\ beat' = beat /\ admitted' = admitted
    BY <1>0, <1>4 DEF Move
  <2>3. /\ disk'[path] = NoFile /\ disk'[dest] # NoFile
        /\ \A p \in Path : p # path /\ p # dest => disk'[p] = disk[p]
    BY <1>0, <2>1, <2>2, Typed DEF Rename, IInv, DiskTyped
  <2>4. OneFileNext(path.job)
    BY <1>0, <2>3 DEF IInv, OneFilePerJob, OneFileNext
  <2>5. Touches(path.job)
    BY <2>1, <2>3 DEF Touches
  <2>6. a \in Workers => beat[a] = NoBeat
    BY <1>4, Actor DEF Move, BeatInHand
  <2>7. a \in Workers => BeatInHand(a)'
    BY <2>2, <2>6 DEF BeatInHand
  <2>8. CASE Finish(a)
    BY <1>0, <2>2, <2>4, <2>5, <2>7, <2>8, LastFileStep DEF OthersBeat
  <2>9. CASE op[a].cont = "retry" /\ op' = [op EXCEPT ![a] =
                                     [op[a] EXCEPT !.pc = "retry", !.dest = NoPath]]
    <3>1. a \in Workers /\ a \notin Operators /\ op[a].goal = "failed"
      BY <1>4, <2>9, Actor, QueueAssumption
         DEF Move, WorkerLocal, OperatorLocal, InTransition, Actors
    <3>r. PICK r : r = [op[a] EXCEPT !.pc = "retry", !.dest = NoPath]
      OBVIOUS
    <3>2. /\ op' = [op EXCEPT ![a] = r]
                   /\ r.pc = "retry" /\ r.path = path /\ r.cont = op[a].cont
      BY <3>r, <2>9, Actor DEF Op
    <3>3. Held(r)' /\ Moving(r) /\ WorkerLocal(r)
      BY <2>1, <2>3, <3>1, <3>2 DEF Held, Moving, WorkerLocal, InTransition
    <3> QED BY <1>0, <2>2, <2>4, <2>5, <2>7, <3>1, <3>2, <3>3, FileStep DEF OthersBeat
  <2> QED BY <1>0, <1>4, <2>8, <2>9 DEF Move
<1> QED
  BY <1>1, <1>2, <1>3, <1>4 DEF TransitionStep

\* What a process knows of the job it owns.
LEMMA Owner ==
  ASSUME IInv, NEW a \in Actors, Owns(op[a])
  PROVE  /\ op[a].path \in Path /\ op[a].path.job \in Jobs /\ op[a].path.job \in admitted
         /\ Alone(a, op[a].path.job)
  BY Actor, Whereabouts DEF IInv, OneOwner, FilesAdmitted, Alone

\* Rewriting the file of an owned job in place.
LEMMA Rewritten ==
  ASSUME IInv, NEW a \in Actors, Owns(op[a]), op[a].pc # "retry",
         NEW payload \in Payload, Write(op[a].path, payload)
  PROVE  /\ Touches(op[a].path.job)
         /\ OneFileNext(op[a].path.job)
         /\ disk'[op[a].path] # NoFile
         /\ disk'[op[a].path].lease = payload.lease
<1>1. op[a].path \in Path /\ disk[op[a].path] # NoFile
  BY Actor DEF Held
<1>2. /\ \A q \in Path : q # op[a].path => disk'[q] = disk[q]
      /\ disk'[op[a].path] # NoFile /\ disk'[op[a].path].lease = payload.lease
  BY <1>1, Written
<1>3. \A p \in Path : disk'[p] # NoFile => disk[p] # NoFile
  BY <1>1, <1>2
<1>4. \A p, q \in Path : disk[p] # NoFile /\ disk[q] # NoFile /\ p.job = q.job => p = q
  BY DEF IInv, OneFilePerJob
<1>5. ASSUME NEW p \in Path, p.job # op[a].path.job PROVE disk'[p] = disk[p]
  BY <1>2, <1>5
<1>6. ASSUME NEW p \in Path, NEW q \in Path, disk'[p] # NoFile, disk'[q] # NoFile,
             p.job = op[a].path.job, q.job = op[a].path.job
      PROVE  p = q
  BY <1>3, <1>4, <1>6
<1> QED
  BY <1>2, <1>5, <1>6 DEF Touches, OneFileNext

\* A worker between the rename of its claim and the end of its run.
LEMMA InRunning ==
  ASSUME IInv, NEW w \in Workers,
         op[w].pc \in {"claim_read", "claim_write", "claimed", "executing"}
  PROVE  /\ Owns(op[w]) /\ op[w].path.dir = "running" /\ op[w].cont = "idle"
         /\ disk[op[w].path] # NoFile
         /\ op[w].pc \in {"claimed", "executing"} =>
              op[w].lease # 0 /\ disk[op[w].path].lease = op[w].lease
<1>1. Held(op[w]) /\ WorkerLocal(op[w])
  BY DEF IInv, Actors
<1>2. Owns(op[w]) /\ op[w].pc # "retry"
  BY DEF Owns
<1>3. op[w].path.dir = "running" /\ op[w].cont = "idle"
  BY <1>1 DEF WorkerLocal
<1> QED
  BY <1>1, <1>2, <1>3 DEF Held

LEMMA WorkerKeeps ==
  ASSUME IInv, Undisturbed, TInv', NEW w \in Workers, WorkerStep(w)
  PROVE  IInv'
<1> DEFINE path == op[w].path
<1>0. w \in Actors /\ w \notin Operators
  BY QueueAssumption DEF Actors
<1>1. CASE ClaimPick(w)
  <2>1. PICK p \in Path : /\ p.dir = "pending"
                         /\ op' = [op EXCEPT ![w] = [Idle EXCEPT !.pc = "claim", !.path = p]]
    BY <1>1 DEF ClaimPick
  <2>r. PICK r : r = [Idle EXCEPT !.pc = "claim", !.path = p]
    OBVIOUS
  <2>2. r.pc = "claim" /\ r.path = p /\ r.cont = "idle"
    BY <2>r DEF Idle
  <2>3. beat[w] = NoBeat /\ disk' = disk /\ beat' = beat /\ admitted' = admitted
    BY <1>1 DEF ClaimPick
  <2>4. Held(r) /\ Moving(r) /\ WorkerLocal(r) /\ ~Owns(r) /\ BeatInHand(w)'
    BY <2>1, <2>2, <2>3 DEF Held, Moving, WorkerLocal, InTransition, Owns, BeatInHand
  <2> QED BY <1>0, <2>1, <2>r, <2>3, <2>4, LocalStep DEF OthersBeat
<1>2. CASE ClaimRename(w)
  <2> DEFINE target == [path EXCEPT !.dir = "running"]
  <2>0. /\ path \in Path /\ op[w].pc = "claim" /\ path.dir = "pending"
        /\ beat[w] = NoBeat /\ beat' = beat /\ admitted' = admitted
    BY <1>0, <1>2, Actor DEF ClaimRename, LocalTyped, WorkerLocal, BeatInHand
  <2>1. CASE disk' = disk /\ Finish(w)
    BY <1>0, <2>0, <2>1, EndStep DEF BeatInHand, OthersBeat
  <2>2. ASSUME NEW old \in BOOLEAN, disk[path] # NoFile,
               disk' = [Rename(path, target) EXCEPT ![target].stale = old],
               op' = [op EXCEPT ![w] = [@ EXCEPT !.pc = "claim_read", !.path = target]]
        PROVE  IInv'
    <3>1. target \in Path /\ target # path /\ target.job = path.job
          /\ target.dir = "running" /\ path.job \in Jobs
      BY <2>0 DEF Path, Dirs
    <3>2. /\ disk'[path] = NoFile
          /\ disk'[target] = [disk[path] EXCEPT !.stale = old]
          /\ \A p \in Path : p # path /\ p # target => disk'[p] = disk[p]
      BY <2>0, <2>2, <3>1, Typed DEF Rename, IInv, DiskTyped
    <3>3. disk'[target] # NoFile
      <4>1. disk[path] \in Payload
        BY <2>0, <2>2, Typed DEF IInv, DiskTyped
      <4>2. [disk[path] EXCEPT !.stale = old] \in Payload
        BY <4>1 DEF Payload
      <4> QED BY <3>2, <4>2, SentinelAssumption
    <3>r. PICK r : r = [op[w] EXCEPT !.pc = "claim_read", !.path = target]
      OBVIOUS
    <3>4. /\ op' = [op EXCEPT ![w] = r]
          /\ r.pc = "claim_read" /\ r.path = target /\ r.cont = op[w].cont
      BY <2>2, <3>r, <1>0, Actor DEF Op
    <3>5. Held(r)' /\ Moving(r) /\ WorkerLocal(r)
      BY <1>0, <2>0, <3>1, <3>3, <3>4, Actor DEF Held, Moving, WorkerLocal, InTransition
    <3>6. Alone(w, path.job)
      BY <2>0, <2>2, Unowned DEF Alone
    <3>7. OneFileNext(path.job)
      BY <2>0, <2>2, <3>2 DEF IInv, OneFilePerJob, OneFileNext
    <3>8. Touches(path.job)
      BY <3>1, <3>2 DEF Touches
    <3>9. BeatInHand(w)' /\ path.job \in admitted
      BY <2>0, <2>2 DEF BeatInHand, IInv, FilesAdmitted
    <3>10. path.job \in Jobs /\ r.path.job = path.job /\ beat' = beat /\ admitted' = admitted
      BY <2>0, <3>1, <3>4
    <3>11. op' = [op EXCEPT ![w] = r] /\ Held(r)' /\ Moving(r)
      BY <3>4, <3>5
    <3>12. w \in Workers => WorkerLocal(r) /\ BeatInHand(w)'
      BY <3>5, <3>9
    <3>13. w \in Operators => OperatorLocal(r)'
      BY <1>0
    <3>14. OthersBeat(w)
      BY <3>10 DEF OthersBeat
    <3>15. admitted' = admitted /\ path.job \in admitted
      BY <3>9, <3>10
    <3> QED BY <1>0, <3>6, <3>7, <3>8, <3>10, <3>11, <3>12, <3>13, <3>14, <3>15, FileStep DEF OthersBeat
  <2> QED BY <1>2, <2>1, <2>2 DEF ClaimRename
<1>3. CASE ClaimRead(w)
  <2>r. PICK r : r = [op[w] EXCEPT !.pc = "claim_write", !.mem = ReadPayload(path)]
    OBVIOUS
  <2>1. op' = [op EXCEPT ![w] = r] /\ r.pc = "claim_write" /\ r.path = path /\ r.cont = op[w].cont
    BY <2>r, <1>3, Actor DEF ClaimRead, Op, Idle
  <2>2. op[w].pc = "claim_read" /\ disk' = disk /\ beat' = beat /\ admitted' = admitted
    BY <1>3 DEF ClaimRead, Joined
  <2>3. Held(r) /\ Moving(r) /\ WorkerLocal(r)
    <3>1. path.dir = "running" /\ op[w].cont = "idle" /\ disk[path] # NoFile
      BY <1>0, <2>2, InRunning
    <3>2. Held(r)
      BY <2>1, <2>2, <3>1 DEF Held
    <3>3. Moving(r)
      BY <2>1, <3>1 DEF Moving, InTransition
    <3>4. WorkerLocal(r)
      BY <2>1, <3>1 DEF WorkerLocal, InTransition
    <3> QED BY <3>2, <3>3, <3>4
  <2>4. BeatInHand(w)'
    BY <1>0, <1>3, <2>1, <2>2, Actor DEF BeatInHand, Joined, Undisturbed, ClaimRead
  <2> QED BY <1>0, <2>1, <2>2, <2>3, <2>4, LocalStep DEF Owns, OthersBeat
<1>4. CASE ClaimWrite(w)
  <2> DEFINE payload == [op[w].mem EXCEPT !.attempt = op[w].mem.attempt + 1,
                                          !.lease = leases + 1, !.deferred = FALSE]
  <2>0. /\ op[w].pc = "claim_write" /\ Owns(op[w]) /\ op[w].pc # "retry"
        /\ op[w].mem \in Payload /\ beat' = beat /\ admitted' = admitted
        /\ leases \in Nat /\ leases + 1 \in 0 .. MaxLeases
    BY <1>0, <1>4, Actor, Typed, QueueAssumption
       DEF ClaimWrite, Owns, LocalTyped, IInv, CountsTyped
  <2>1. payload \in Payload /\ payload.lease = leases + 1
    <3>1. op[w].mem.attempt + 1 \in Nat
      BY <2>0 DEF Payload
    <3> QED BY <2>0, <3>1 DEF Payload
  <2>2. /\ Touches(path.job)
        /\ OneFileNext(path.job)
        /\ disk'[path] # NoFile /\ disk'[path].lease = leases + 1
    BY <1>0, <1>4, <2>0, <2>1, Rewritten DEF ClaimWrite
  <2>r. PICK r : r = [op[w] EXCEPT !.pc = "claimed", !.mem = NoFile, !.lease = leases + 1,
                                   !.attempt = op[w].mem.attempt + 1]
    OBVIOUS
  <2>3. /\ op' = [op EXCEPT ![w] = r]
        /\ r.pc = "claimed" /\ r.path = path /\ r.cont = op[w].cont
        /\ r.lease = leases + 1
    BY <1>0, <2>r, <1>4, Actor DEF ClaimWrite, Op
  <2>4. Held(r)' /\ Moving(r) /\ WorkerLocal(r) /\ BeatInHand(w)'
    <3>1. path.dir = "running" /\ op[w].cont = "idle" /\ leases + 1 # 0
      BY <1>0, <2>0, InRunning
    <3>2. Held(r)'
      BY <2>2, <2>3, <3>1 DEF Held
    <3>3. Moving(r)
      BY <2>3, <3>1 DEF Moving, InTransition
    <3>4. WorkerLocal(r)
      BY <2>3, <3>1 DEF WorkerLocal, InTransition
    <3>5. BeatInHand(w)'
      BY <1>0, <2>0, Actor DEF BeatInHand
    <3> QED BY <3>2, <3>3, <3>4, <3>5
  <2>5. /\ path.job \in Jobs /\ path.job \in admitted /\ r.path.job = path.job
        /\ Alone(w, path.job)
    BY <1>0, <2>0, <2>3, Owner
  <2>6. op' = [op EXCEPT ![w] = r]
    BY <2>3
  <2>7. w \in Workers => WorkerLocal(r) /\ BeatInHand(w)'
    BY <2>4
  <2>8. w \in Operators => OperatorLocal(r)'
    BY <1>0
  <2>9. OthersBeat(w)
    BY <2>0 DEF OthersBeat
  <2> QED BY <1>0, <2>0, <2>2, <2>4, <2>5, <2>6, <2>7, <2>8, <2>9, FileStep DEF OthersBeat
<1>5. CASE BeginRun(w)
  <2>r. PICK r : r = [op[w] EXCEPT !.pc = "executing"]
    OBVIOUS
  <2>1. op' = [op EXCEPT ![w] = r] /\ r.pc = "executing" /\ r.path = path
        /\ r.cont = op[w].cont /\ r.lease = op[w].lease
    BY <2>r, <1>5, Actor DEF BeginRun, Op, Idle, Step
  <2>2. op[w].pc = "claimed" /\ disk' = disk /\ beat' = beat /\ admitted' = admitted
    BY <1>5 DEF BeginRun, Joined
  <2>3. Held(r) /\ Moving(r) /\ WorkerLocal(r)
    <3>1. path.dir = "running" /\ op[w].cont = "idle" /\ disk[path] # NoFile
          /\ op[w].lease # 0 /\ disk[path].lease = op[w].lease
      BY <1>0, <2>2, InRunning
    <3>2. Held(r)
      BY <2>1, <2>2, <3>1 DEF Held
    <3>3. Moving(r)
      BY <2>1, <3>1 DEF Moving, InTransition
    <3>4. WorkerLocal(r)
      BY <2>1, <3>1 DEF WorkerLocal, InTransition
    <3> QED BY <3>2, <3>3, <3>4
  <2>4. BeatInHand(w)'
    BY <1>0, <1>5, <2>1, <2>2, Actor DEF BeatInHand, Joined, Undisturbed, BeginRun
  <2> QED BY <1>0, <2>1, <2>2, <2>3, <2>4, LocalStep DEF Owns, OthersBeat
<1>6. CASE PauseRun(w)
  <2>r. PICK r : r = [op[w] EXCEPT !.pc = "read", !.path = path, !.goal = "awaiting_approval"]
    OBVIOUS
  <2>1. op' = [op EXCEPT ![w] = r] /\ r.pc = "read" /\ r.path = path
        /\ r.cont = op[w].cont /\ r.goal = "awaiting_approval"
    BY <2>r, <1>6, Actor DEF PauseRun, Op, Idle, StartTransition
  <2>2. op[w].pc = "claimed" /\ disk' = disk /\ beat' = beat /\ admitted' = admitted
    BY <1>6 DEF PauseRun, Joined
  <2>3. Held(r) /\ Moving(r) /\ WorkerLocal(r)
    <3>1. path.dir = "running" /\ op[w].cont = "idle" /\ disk[path] # NoFile
          /\ op[w].lease # 0 /\ disk[path].lease = op[w].lease
      BY <1>0, <2>2, InRunning
    <3>2. Held(r)
      BY <2>1, <2>2, <3>1 DEF Held
    <3>3. Moving(r)
      BY <2>1, <3>1 DEF Moving, InTransition
    <3>4. WorkerLocal(r)
      BY <2>1, <3>1 DEF WorkerLocal, InTransition
    <3> QED BY <3>2, <3>3, <3>4
  <2>4. BeatInHand(w)'
    BY <1>0, <1>6, <2>1, <2>2, Actor DEF BeatInHand, Joined, Undisturbed, PauseRun
  <2> QED BY <1>0, <2>1, <2>2, <2>3, <2>4, LocalStep DEF Owns, OthersBeat
<1>7. CASE AbortOnStub(w)
  BY <1>0, <1>7, EndStep, Actor DEF AbortOnStub, BeatInHand, OthersBeat
<1>8. CASE HeartbeatRead(w)
  <2>1. op' = [op EXCEPT ![w] = op[w]]
    BY <1>8 DEF HeartbeatRead, IInv, TInv, TypeOK
  <2>2. op[w].pc = "executing" /\ disk' = disk /\ op' = op /\ admitted' = admitted
    BY <1>8 DEF HeartbeatRead
  <2>3. BeatInHand(w)' /\ OthersBeat(w)
    BY <1>8, Typed DEF HeartbeatRead, BeatInHand, IInv, BeatTyped, OthersBeat
  <2> QED BY <1>0, <2>1, <2>2, <2>3, Actor, LocalStep DEF OthersBeat
<1>9. CASE HeartbeatWrite(w)
  <2>0. /\ beat[w].mem \in Payload /\ beat[w].path = path
        /\ beat[w].mem.lease = op[w].lease
        /\ op[w].pc = "executing" /\ Owns(op[w]) /\ op[w].pc # "retry"
    BY <1>0, <1>9, Actor, Typed DEF HeartbeatWrite, BeatInHand, Owns, IInv, BeatTyped, Beat
  <2>1. /\ Touches(path.job)
        /\ OneFileNext(path.job)
        /\ disk'[path] # NoFile /\ disk'[path].lease = op[w].lease
    BY <1>0, <1>9, <2>0, Rewritten DEF HeartbeatWrite
  <2>r. PICK r : r = op[w]
    OBVIOUS
  <2>2. op' = [op EXCEPT ![w] = r] /\ op' = op /\ admitted' = admitted
    BY <1>9, <2>r DEF HeartbeatWrite, IInv, TInv, TypeOK
  <2>3. Held(r)' /\ Moving(r) /\ WorkerLocal(r)
    BY <1>0, <2>0, <2>1, <2>r, Actor DEF Held
  <2>4. BeatInHand(w)' /\ OthersBeat(w)
    BY <1>9, Typed DEF HeartbeatWrite, BeatInHand, IInv, BeatTyped, OthersBeat
  <2> QED BY <1>0, <2>0, <2>1, <2>r, <2>2, <2>3, <2>4, Owner, FileStep DEF OthersBeat
<1>10. CASE SettleRun(w)
  <2>0. PICK d \in {"done", "failed", "awaiting_approval"} : StartTransition(w, path, d)
    BY <1>10 DEF SettleRun
  <2>r. PICK r : r = [op[w] EXCEPT !.pc = "read", !.path = path, !.goal = d]
    OBVIOUS
  <2>1. op' = [op EXCEPT ![w] = r] /\ r.pc = "read" /\ r.path = path
        /\ r.cont = op[w].cont /\ r.goal = d
    BY <1>0, <2>r, <2>0, Actor DEF StartTransition, Op
  <2>2. op[w].pc = "executing" /\ disk' = disk /\ beat' = beat /\ admitted' = admitted
        /\ beat[w] = NoBeat
    BY <1>10 DEF SettleRun, Joined, Undisturbed
  <2>3. Held(r) /\ Moving(r) /\ WorkerLocal(r) /\ BeatInHand(w)'
    <3>1. path.dir = "running" /\ op[w].cont = "idle" /\ disk[path] # NoFile
      BY <1>0, <2>2, InRunning
    <3>2. Held(r)
      BY <2>1, <3>1 DEF Held
    <3>3. Moving(r)
      BY <2>1, <3>1 DEF Moving, InTransition
    <3>4. WorkerLocal(r)
      BY <2>1, <3>1 DEF WorkerLocal, InTransition
    <3> QED BY <2>2, <3>2, <3>3, <3>4 DEF BeatInHand
  <2> QED BY <1>0, <2>1, <2>2, <2>3, LocalStep DEF Owns, OthersBeat
<1>11. CASE FailAndRetry(w)
  <2>r. PICK r : r = [op[w] EXCEPT !.pc = "read", !.goal = "failed", !.cont = "retry"]
    OBVIOUS
  <2>1. op' = [op EXCEPT ![w] = r] /\ r.pc = "read" /\ r.path = path
        /\ r.cont = "retry" /\ r.goal = "failed"
    BY <2>r, <1>11, Actor DEF FailAndRetry, Op, Idle
  <2>2. op[w].pc = "executing" /\ disk' = disk /\ beat' = beat /\ admitted' = admitted
    BY <1>11 DEF FailAndRetry, Joined
  <2>3. Held(r) /\ Moving(r) /\ WorkerLocal(r)
    <3>1. path.dir = "running" /\ op[w].cont = "idle" /\ disk[path] # NoFile
          /\ op[w].lease # 0 /\ disk[path].lease = op[w].lease
      BY <1>0, <2>2, InRunning
    <3>2. Held(r)
      BY <2>1, <2>2, <3>1 DEF Held
    <3>3. Moving(r)
      BY <2>1, <3>1 DEF Moving, InTransition
    <3>4. WorkerLocal(r)
      BY <2>1, <3>1 DEF WorkerLocal, InTransition
    <3> QED BY <3>2, <3>3, <3>4
  <2>4. BeatInHand(w)'
    BY <1>0, <1>11, <2>1, <2>2, Actor DEF BeatInHand, Joined, Undisturbed, FailAndRetry
  <2> QED BY <1>0, <2>1, <2>2, <2>3, <2>4, LocalStep DEF Owns, OthersBeat
<1>12. CASE DeadLetter(w)
  <2>r. PICK r : r = [op[w] EXCEPT !.pc = "read", !.path = path, !.goal = "dead_letter"]
    OBVIOUS
  <2>1. op' = [op EXCEPT ![w] = r] /\ r.pc = "read" /\ r.path = path
        /\ r.cont = op[w].cont /\ r.goal = "dead_letter"
    BY <2>r, <1>12, Actor DEF DeadLetter, Op, Idle, StartTransition
  <2>2. op[w].pc = "executing" /\ disk' = disk /\ beat' = beat /\ admitted' = admitted
    BY <1>12 DEF DeadLetter, Joined
  <2>3. Held(r) /\ Moving(r) /\ WorkerLocal(r)
    <3>1. path.dir = "running" /\ op[w].cont = "idle" /\ disk[path] # NoFile
          /\ op[w].lease # 0 /\ disk[path].lease = op[w].lease
      BY <1>0, <2>2, InRunning
    <3>2. Held(r)
      BY <2>1, <2>2, <3>1 DEF Held
    <3>3. Moving(r)
      BY <2>1, <3>1 DEF Moving, InTransition
    <3>4. WorkerLocal(r)
      BY <2>1, <3>1 DEF WorkerLocal, InTransition
    <3> QED BY <3>2, <3>3, <3>4
  <2>4. BeatInHand(w)'
    BY <1>0, <1>12, <2>1, <2>2, Actor DEF BeatInHand, Joined, Undisturbed, DeadLetter
  <2> QED BY <1>0, <2>1, <2>2, <2>3, <2>4, LocalStep DEF Owns, OthersBeat
<1>13. CASE RetryFind(w)
  <2>1. op[w].pc = "retry" /\ disk' = disk /\ beat' = beat /\ admitted' = admitted
        /\ beat[w] = NoBeat
    BY <1>0, <1>13, Actor DEF RetryFind, BeatInHand
  <2>2. CASE Finish(w)
    BY <1>0, <2>1, <2>2, EndStep DEF BeatInHand, OthersBeat
  <2>3. ASSUME NEW p \in FindJobFiles("failed", path.job),
               op' = [op EXCEPT ![w] = [@ EXCEPT !.pc = "defer_read", !.path = p,
                                                 !.cont = "idle"]]
        PROVE  IInv'
    <3>r. PICK r : r = [op[w] EXCEPT !.pc = "defer_read", !.path = p, !.cont = "idle"]
      OBVIOUS
    <3>1. op' = [op EXCEPT ![w] = r] /\ r.pc = "defer_read" /\ r.path = p /\ r.cont = "idle"
      BY <1>0, <2>3, <3>r, Actor DEF Op
    <3>2. p.dir = "failed" /\ p.job = path.job /\ disk[p] # NoFile
      BY <2>3 DEF FindJobFiles
    <3>3. Held(r) /\ Moving(r) /\ WorkerLocal(r) /\ BeatInHand(w)'
      BY <2>1, <3>1, <3>2 DEF Held, Moving, WorkerLocal, InTransition, BeatInHand
    <3> QED BY <1>0, <2>1, <3>1, <3>2, <3>3, LocalStep DEF Owns, OthersBeat
  <2> QED BY <1>13, <2>2, <2>3 DEF RetryFind
<1>14. CASE RetryRead(w)
  <2>r. PICK r : r = [op[w] EXCEPT !.pc = "defer_write", !.mem = ReadPayload(path)]
    OBVIOUS
  <2>1. op' = [op EXCEPT ![w] = r] /\ r.pc = "defer_write" /\ r.path = path /\ r.cont = op[w].cont
    BY <2>r, <1>14, Actor DEF RetryRead, Op, Idle
  <2>2. op[w].pc = "defer_read" /\ disk' = disk /\ beat' = beat /\ admitted' = admitted
    BY <1>14 DEF RetryRead, Joined
  <2>3. Held(r) /\ Moving(r) /\ WorkerLocal(r)
    <3>1. path.dir = "failed" /\ op[w].cont = "idle" /\ disk[path] # NoFile
      BY <1>0, <2>2, Actor DEF WorkerLocal, Held, Owns
    <3>2. Held(r)
      BY <2>1, <2>2, <3>1 DEF Held
    <3>3. Moving(r)
      BY <2>1, <3>1 DEF Moving, InTransition
    <3>4. WorkerLocal(r)
      BY <2>1, <3>1 DEF WorkerLocal, InTransition
    <3> QED BY <3>2, <3>3, <3>4
  <2>4. BeatInHand(w)'
    BY <1>0, <1>14, <2>1, <2>2, Actor DEF BeatInHand, Joined, Undisturbed, RetryRead
  <2> QED BY <1>0, <2>1, <2>2, <2>3, <2>4, LocalStep DEF Owns, OthersBeat
<1>15. CASE RetryWrite(w)
  <2> DEFINE payload == [op[w].mem EXCEPT !.deferred = TRUE]
  <2>0. /\ op[w].pc = "defer_write" /\ Owns(op[w]) /\ op[w].pc # "retry"
        /\ op[w].mem \in Payload /\ beat' = beat /\ admitted' = admitted
    BY <1>0, <1>15, Actor DEF RetryWrite, Owns, LocalTyped
  <2>1. payload \in Payload
    BY <2>0 DEF Payload
  <2>2. /\ Touches(path.job)
        /\ OneFileNext(path.job)
        /\ disk'[path] # NoFile
    BY <1>0, <1>15, <2>0, <2>1, Rewritten DEF RetryWrite
  <2>r. PICK r : r = [op[w] EXCEPT !.pc = "read", !.mem = NoFile, !.goal = "pending"]
    OBVIOUS
  <2>3. /\ op' = [op EXCEPT ![w] = r]
        /\ r.pc = "read" /\ r.path = path /\ r.cont = op[w].cont /\ r.goal = "pending"
    BY <1>0, <2>r, <1>15, Actor DEF RetryWrite, Op
  <2>4. Held(r)' /\ Moving(r) /\ WorkerLocal(r) /\ BeatInHand(w)'
    <3>1. path.dir = "failed" /\ op[w].cont = "idle"
      BY <1>0, <2>0, Actor DEF WorkerLocal
    <3>2. Held(r)'
      BY <2>2, <2>3, <3>1 DEF Held
    <3>3. Moving(r)
      BY <2>3, <3>1 DEF Moving, InTransition
    <3>4. WorkerLocal(r)
      BY <2>3, <3>1 DEF WorkerLocal, InTransition
    <3>5. BeatInHand(w)'
      BY <1>0, <2>0, Actor DEF BeatInHand
    <3> QED BY <3>2, <3>3, <3>4, <3>5
  <2> QED BY <1>0, <2>0, <2>2, <2>3, <2>4, Owner, FileStep DEF OthersBeat
<1> QED
  BY <1>1, <1>2, <1>3, <1>4, <1>5, <1>6, <1>7, <1>8, <1>9, <1>10, <1>11, <1>12,
     <1>13, <1>14, <1>15 DEF WorkerStep

\* With one operator command at a time, an idle operator finds the items that
\* await approval in nobody's hands.
LEMMA OperatorItem ==
  ASSUME IInv, Undisturbed, NEW a \in Operators, op[a].pc = "idle",
         NEW p \in Path, p.dir = "awaiting_approval", disk[p] # NoFile
  PROVE  Alone(a, p.job)
<1> SUFFICES ASSUME NEW b \in Actors, Owns(op[b]), op[b].path.job = p.job PROVE FALSE
  BY DEF Alone
<1>1. b # a
  BY DEF Owns
<1>2. b \notin Operators
  BY <1>1 DEF Undisturbed
<1> QED
  BY <1>2, Unowned

\* An idle process takes an item that is nobody's, to move it elsewhere.
LEMMA TakeForTransition ==
  ASSUME IInv, Undisturbed, TInv', NEW a \in Actors, op[a].pc = "idle",
         NEW p \in Path, disk[p] # NoFile, Alone(a, p.job),
         a \in Workers => p.dir = "running",
         a \in Operators => p.dir = "awaiting_approval",
         NEW d \in {"pending", "failed", "dead_letter"}, StartTransition(a, p, d),
         disk' = disk, beat' = beat, admitted' = admitted
  PROVE  IInv'
<1>1. PICK r : r = [op[a] EXCEPT !.pc = "read", !.path = p, !.goal = d]
  OBVIOUS
<1>2. op' = [op EXCEPT ![a] = r] /\ r.pc = "read" /\ r.path = p /\ r.goal = d
      /\ r.cont = op[a].cont
  BY <1>1, Actor DEF StartTransition, Op
<1>3. Held(r)' /\ Moving(r)
  BY <1>2 DEF Held, Moving, InTransition, Actors
<1>4. a \in Workers => WorkerLocal(r) /\ BeatInHand(a)'
  <2> SUFFICES ASSUME a \in Workers PROVE WorkerLocal(r) /\ BeatInHand(a)'
    OBVIOUS
  <2>1. beat[a] = NoBeat
    BY Actor DEF BeatInHand
  <2>2. r.cont = "idle"
    BY <1>2, Actor DEF WorkerLocal
  <2>3. WorkerLocal(r)
    BY <1>2, <2>2 DEF WorkerLocal, InTransition
  <2> QED BY <2>1, <2>3 DEF BeatInHand
<1>5. a \in Operators => OperatorLocal(r)'
  BY <1>2, Actor DEF OperatorLocal, InTransition
<1>6. p.job \in Jobs /\ p.job \in admitted /\ r.path.job = p.job
  BY <1>2 DEF Path, IInv, FilesAdmitted
<1>7. Touches(p.job) /\ OneFileNext(p.job) /\ OthersBeat(a)
  BY DEF Touches, OneFileNext, OthersBeat, IInv, OneFilePerJob
<1> QED
  BY <1>2, <1>3, <1>4, <1>5, <1>6, <1>7, FileStep

LEMMA OperatorKeeps ==
  ASSUME IInv, Undisturbed, TInv', NEW a \in Operators, OperatorStep(a)
  PROVE  IInv'
<1> DEFINE path == op[a].path
<1>0. a \in Actors /\ a \notin Workers
  BY QueueAssumption DEF Actors
<1>1. CASE EnqueueStart(a)
  <2>1. PICK j \in Jobs, d \in {"pending", "awaiting_approval"} :
          /\ j \notin admitted
          /\ op' = [op EXCEPT ![a] = [Idle EXCEPT !.pc = "enqueue", !.goal = d,
                                       !.path = JobPath(d, j), !.todo = STATE_ORDER]]
    BY <1>1 DEF EnqueueStart, Undisturbed
  <2>2. PICK r : r = [Idle EXCEPT !.pc = "enqueue", !.goal = d,
                                  !.path = JobPath(d, j), !.todo = STATE_ORDER]
    OBVIOUS
  <2>3. r.pc = "enqueue" /\ r.cont = "idle" /\ r.path.job = j
    BY <2>2 DEF Idle, JobPath
  <2>4. Held(r) /\ Moving(r) /\ OperatorLocal(r) /\ ~Owns(r)
    BY <2>1, <2>3 DEF Held, Moving, OperatorLocal, InTransition, Owns
  <2>5. disk' = disk /\ beat' = beat /\ admitted' = admitted
    BY <1>1 DEF EnqueueStart
  <2> QED BY <1>0, <2>1, <2>2, <2>4, <2>5, LocalStep DEF OthersBeat
<1>2. CASE EnqueueScan(a)
  <2>1. op[a].pc = "enqueue" /\ disk' = disk /\ beat' = beat /\ admitted' = admitted
    BY <1>2 DEF EnqueueScan
  <2>2. CASE Finish(a)
    BY <1>0, <2>1, <2>2, EndStep DEF OthersBeat
  <2>3. ASSUME NEW r, op' = [op EXCEPT ![a] = r], r.pc \in {"enqueue", "put"},
               r.path = path, r.cont = op[a].cont
        PROVE  IInv'
    <3>1. path.job \notin admitted /\ op[a].cont = "idle"
      BY <1>0, <2>1, Actor DEF OperatorLocal
    <3>2. Held(r) /\ Moving(r) /\ OperatorLocal(r) /\ ~Owns(r)
      BY <2>3, <3>1 DEF Held, Moving, OperatorLocal, InTransition, Owns
    <3> QED BY <1>0, <2>1, <2>3, <3>2, LocalStep DEF OthersBeat
  <2>4. CASE Step(a, "put")
    <3>1. PICK r : r = [op[a] EXCEPT !.pc = "put"]
      OBVIOUS
    <3>2. op' = [op EXCEPT ![a] = r] /\ r.pc = "put" /\ r.path = path /\ r.cont = op[a].cont
      BY <1>0, <2>4, <3>1, Actor DEF Step, Op
    <3> QED BY <2>3, <3>2
  <2>5. CASE op' = [op EXCEPT ![a].todo = Tail(@)]
    <3>1. PICK r : r = [op[a] EXCEPT !.todo = Tail(@)]
      OBVIOUS
    <3>2. op' = [op EXCEPT ![a] = r] /\ r.pc = op[a].pc /\ r.path = path
          /\ r.cont = op[a].cont
      BY <1>0, <2>5, <3>1, Actor DEF Op
    <3> QED BY <2>1, <2>3, <3>2
  <2> QED BY <1>2, <2>2, <2>4, <2>5 DEF EnqueueScan
<1>3. CASE EnqueuePut(a)
  <2>1. /\ path \in Path /\ path.job \in Jobs /\ path.job \notin admitted
        /\ beat' = beat /\ admitted' = admitted \cup {path.job} /\ Finish(a)
    BY <1>0, <1>3, Actor DEF EnqueuePut, OperatorLocal, LocalTyped, Path
  <2>2. \A p \in Path : p.job = path.job => disk[p] = NoFile
    BY <2>1 DEF IInv, FilesAdmitted
  <2>3. [Stub EXCEPT !.runnable = TRUE] \in Payload
    BY IdleTyped DEF Payload
  <2>4. \A p \in Path : p # path => disk'[p] = disk[p]
    BY <1>3, <2>1, <2>3, Written DEF EnqueuePut
  <2>5. Touches(path.job) /\ OneFileNext(path.job)
    BY <2>2, <2>4 DEF Touches, OneFileNext
  <2>6. Alone(a, path.job)
    BY <2>2, Whereabouts DEF Alone
  <2> QED BY <1>0, <2>1, <2>5, <2>6, LastFileStep DEF OthersBeat
<1>4. CASE Approve(a)
  <2>1. PICK p \in Path : /\ p.dir = "awaiting_approval" /\ disk[p] # NoFile
                         /\ StartTransition(a, p, "pending")
    BY <1>4 DEF Approve, FindJobFiles
  <2>2. op[a].pc = "idle" /\ disk' = disk /\ beat' = beat /\ admitted' = admitted
    BY <1>4 DEF Approve, Command
  <2>3. Alone(a, p.job)
    BY <1>0, <2>1, <2>2, OperatorItem
  <2> QED BY <1>0, <2>1, <2>2, <2>3, TakeForTransition
<1>5. CASE Reject(a)
  <2>1. PICK p \in Path : /\ p.dir = "awaiting_approval" /\ disk[p] # NoFile
                         /\ StartTransition(a, p, "failed")
    BY <1>5 DEF Reject, FindJobFiles
  <2>2. op[a].pc = "idle" /\ disk' = disk /\ beat' = beat /\ admitted' = admitted
    BY <1>5 DEF Reject, Command
  <2>3. Alone(a, p.job)
    BY <1>0, <2>1, <2>2, OperatorItem
  <2> QED BY <1>0, <2>1, <2>2, <2>3, TakeForTransition
<1>6. CASE Unlock(a) \/ SearchStart(a)
  BY <1>6 DEF Unlock, SearchStart, Undisturbed
<1>7. CASE SearchScan(a) \/ DropUnlink(a)
  BY <1>0, <1>7, Actor DEF SearchScan, DropUnlink, OperatorLocal
<1> QED
  BY <1>1, <1>2, <1>3, <1>4, <1>5, <1>6, <1>7 DEF OperatorStep

LEMMA ReclaimKeeps ==
  ASSUME IInv, Undisturbed, TInv', NEW a \in Actors, Reclaim(a)
  PROVE  IInv'
<1>0. a \in Workers /\ a \notin Operators /\ Workers = {a}
  BY QueueAssumption DEF Reclaim, Undisturbed
<1>1. PICK p \in Path, d \in {"dead_letter", "pending"} :
        p.dir = "running" /\ disk[p] # NoFile /\ StartTransition(a, p, d)
  BY DEF Reclaim
<1>2. op[a].pc = "idle" /\ disk' = disk /\ beat' = beat /\ admitted' = admitted
  BY <1>0 DEF Reclaim
<1>3. Alone(a, p.job)
  <2> SUFFICES ASSUME NEW b \in Actors, Owns(op[b]), op[b].path.job = p.job
               PROVE  FALSE
    BY DEF Alone
  <2>1. b # a
    BY <1>2 DEF Owns
  <2>2. b \notin Workers
    BY <1>0, <2>1
  <2> QED BY <1>1, <2>2, Unowned
<1> QED
  BY <1>0, <1>1, <1>2, <1>3, TakeForTransition

LEMMA CrashKeeps ==
  ASSUME IInv, TInv', NEW a \in Actors, Crash(a)
  PROVE  IInv'
<1>1. a \in Workers => beat'[a] = NoBeat
  BY DEF Crash
<1>2. OthersBeat(a)
  BY DEF Crash, OthersBeat
<1>3. a \in Workers => BeatInHand(a)'
  BY <1>1 DEF BeatInHand
<1> QED
  BY <1>2, <1>3, EndStep DEF Crash

\* Time changes verdicts on files, never files or leases.
LEMMA TimeKeeps ==
  ASSUME IInv, TInv', NEW p \in Path, GrowsStale(p) \/ BackoffElapses(p)
  PROVE  IInv'
<1>1. disk[p] # NoFile /\ disk[p] \in Payload
  BY Typed DEF GrowsStale, BackoffElapses, IInv, DiskTyped
<1>2. PICK x \in Payload : disk' = [disk EXCEPT ![p] = x] /\ x.lease = disk[p].lease
  <2>1. [disk[p] EXCEPT !.stale = TRUE] \in Payload
        /\ [disk[p] EXCEPT !.stale = TRUE].lease = disk[p].lease
    BY <1>1 DEF Payload
  <2>2. [disk[p] EXCEPT !.deferred = FALSE] \in Payload
        /\ [disk[p] EXCEPT !.deferred = FALSE].lease = disk[p].lease
    BY <1>1 DEF Payload
  <2>3. GrowsStale(p) => disk' = [disk EXCEPT ![p] = [disk[p] EXCEPT !.stale = TRUE]]
    BY DEF GrowsStale
  <2>4. BackoffElapses(p) => disk' = [disk EXCEPT ![p] = [disk[p] EXCEPT !.deferred = FALSE]]
    BY DEF BackoffElapses
  <2> QED BY <2>1, <2>2, <2>3, <2>4
<1>3. \A q \in Path : /\ disk'[q] = NoFile <=> disk[q] = NoFile
                      /\ disk[q] # NoFile => disk'[q].lease = disk[q].lease
  BY <1>1, <1>2, Typed, SentinelAssumption DEF IInv, DiskTyped
<1>4. op' = op /\ beat' = beat /\ admitted' = admitted
  BY DEF GrowsStale, BackoffElapses
<1>5. OneFilePerJob' /\ FilesAdmitted' /\ OneOwner'
  BY <1>3, <1>4 DEF IInv, OneFilePerJob, FilesAdmitted, OneOwner
<1>6. ASSUME NEW a \in Actors PROVE (Held(op[a]) /\ Moving(op[a]))'
  <2>1. Held(op[a]) /\ Moving(op[a]) /\ (op[a].pc # "idle" => op[a].path \in Path)
    BY Actor DEF LocalTyped
  <2>2. Owns(op[a]) => op[a].path \in Path
    BY <2>1 DEF Owns
  <2>3. Held(op[a])'
    BY <1>3, <1>4, <2>1, <2>2 DEF Held, Owns
  <2> QED BY <1>4, <2>1, <2>3 DEF Moving
<1>7. \A w \in Workers : (WorkerLocal(op[w]) /\ BeatInHand(w))'
  BY <1>4 DEF IInv, BeatInHand
<1>8. \A o \in Operators : OperatorLocal(op[o])'
  BY <1>4 DEF IInv, OperatorLocal
<1> QED
  BY <1>5, <1>6, <1>7, <1>8 DEF IInv

LEMMA Inductive ==
  ASSUME Undisturbed, IInv, [Next]_vars
  PROVE  IInv'
<1>1. TInv'
  <2>1. CASE UNCHANGED vars
    BY <2>1 DEF vars, IInv, TInv, TypeOK, LocalTyped
  <2> QED
    BY <2>1, TransitionTyped, WorkerTyped, OperatorTyped, EnvironmentTyped DEF Next, IInv
<1>2. CASE UNCHANGED vars
  <2>1. disk' = disk /\ op' = op /\ beat' = beat /\ admitted' = admitted
    BY <1>2 DEF vars
  <2> QED
    BY <1>1, <2>1 DEF IInv, OneFilePerJob, FilesAdmitted, OneOwner, Held, Moving,
                      WorkerLocal, BeatInHand, OperatorLocal
<1> QED
  BY <1>1, <1>2, TransitionKeeps, WorkerKeeps, OperatorKeeps, ReclaimKeeps, CrashKeeps,
     TimeKeeps DEF Next

\* Undisturbed, an item is in one state directory at a time: whatever crashes
\* between the rewrite and the rename of a transition, no second file appears.
THEOREM OneFile == ASSUME Undisturbed PROVE Spec => []OneFilePerJob
<1>1. Init => IInv
  BY InitIInv
<1>2. IInv /\ [Next]_vars => IInv'
  BY Inductive
<1>3. IInv => OneFilePerJob
  BY DEF IInv
<1> QED
  BY <1>1, <1>2, <1>3, PTL DEF Spec

\* Undisturbed, at most one worker executes a job, and the file of that job lies
\* in running under the lease this worker was given.
THEOREM Exclusion == ASSUME Undisturbed PROVE Spec => []ExclusiveExecution
<1>1. Init => IInv
  BY InitIInv
<1>2. IInv /\ [Next]_vars => IInv'
  BY Inductive
<1>3. IInv => ExclusiveExecution
  <2> SUFFICES ASSUME IInv, NEW w \in Workers, Executing(w)
               PROVE  /\ \A v \in Workers : Executing(v) /\ op[v].path.job = op[w].path.job
                                              => v = w
                      /\ disk[op[w].path] # NoFile /\ disk[op[w].path].lease = op[w].lease
    BY DEF ExclusiveExecution
  <2>1. \A v \in Workers : v \in Actors /\ (Executing(v) => Owns(op[v]))
    BY DEF Actors, Executing, Owns
  <2> QED
    BY <2>1, InRunning DEF Executing, IInv, OneOwner
<1> QED
  BY <1>1, <1>2, <1>3, PTL DEF Spec
==============================================================================
