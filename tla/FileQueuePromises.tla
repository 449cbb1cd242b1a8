-------------------------- MODULE FileQueuePromises --------------------------
(***************************************************************************)
(* The other promises of the queue.  Whatever processes do to each other,  *)
(* no accepted job vanishes and no final item is taken away.  Undisturbed, *)
(* in the sense of FileQueueProofs, a job is executed no more often than   *)
(* its attempts and approvals allow, and the queue implements the          *)
(* lifecycle of JobLifecycle.                                              *)
(***************************************************************************)
EXTENDS FileQueueProofs

------------------------------------------------------------------------------
(* Nothing is lost.                                                          *)

Settling == {"done", "dead_letter"}

\* A process takes an item only from a directory that is not final, and moves it
\* under the name of its job.
Placed(r) ==
  /\ r.pc = "claim" => r.path.dir = "pending"
  /\ r.pc \in {"claim_read", "claim_write", "claimed", "executing"} => r.path.dir = "running"
  /\ r.pc \in {"defer_read", "defer_write"} => r.path.dir = "failed"
  /\ r.pc = "cancel" => \A i \in DOMAIN r.todo : r.todo[i] \notin Settling
  /\ InTransition(r) => r.path.dir \notin Settling
  /\ r.pc = "move" => r.dest.job = r.path.job

PInv == TInv /\ \A a \in Actors : Placed(op[a])

LEMMA IdlePlaced == Placed(Idle) /\ Idle \in Op
  BY IdleTyped DEF Placed, Idle, InTransition, LocalTyped

LEMMA InitPlaced == Init => PInv
  BY InitTyped, IdlePlaced DEF Init, PInv

LEMMA Replace ==
  ASSUME PInv, TInv', NEW a \in Actors, NEW r, op' = [op EXCEPT ![a] = r], Placed(r)
  PROVE  PInv'
  BY DEF PInv, TInv, TypeOK

LEMMA Taken ==
  ASSUME PInv, TInv', NEW a \in Actors, NEW p \in Path, NEW d, StartTransition(a, p, d),
         p.dir \notin Settling
  PROVE  PInv'
<1>1. Placed([op[a] EXCEPT !.pc = "read", !.path = p, !.goal = d])
  BY DEF PInv, TInv, TypeOK, Op, Placed, InTransition
<1> QED
  BY <1>1, Replace DEF StartTransition

LEMMA Ended == ASSUME PInv, TInv', NEW a \in Actors, Finish(a) PROVE PInv'
  BY IdlePlaced, Replace DEF Finish

LEMMA PlacedStep ==
  ASSUME PInv, TInv', [Next]_vars
  PROVE  PInv'
<1>0. \A a \in Actors : op[a] \in Op /\ LocalTyped(op[a]) /\ Placed(op[a])
  BY Typed DEF PInv
<1>1. CASE op' = op
  BY <1>1 DEF PInv
<1>2. ASSUME NEW a \in Actors, TransitionStep(a) PROVE PInv'
  <2> DEFINE x == op[a]
  <2>1. CASE TransitionRead(a)
    <3>1. Placed([x EXCEPT !.pc = "write", !.mem = ReadPayload(x.path)])
      BY <1>0, <2>1 DEF TransitionRead, Op, Placed, InTransition
    <3> QED BY <2>1, <3>1, Replace DEF TransitionRead
  <2>2. CASE TransitionWrite(a)
    <3>1. Placed([x EXCEPT !.pc = "pick", !.mem = NoFile])
      BY <1>0, <2>2 DEF TransitionWrite, Op, Placed, InTransition
    <3> QED BY <2>2, <3>1, Replace DEF TransitionWrite
  <2>3. CASE PickTarget(a)
    <3> DEFINE target == [x.path EXCEPT !.dir = x.goal]
    <3>1. x.path \in Path /\ x \in Op /\ Placed(x) /\ x.pc = "pick"
      BY <1>0, <2>3 DEF PickTarget, LocalTyped
    <3>2. ASSUME NEW t, t.job = x.path.job PROVE Placed([x EXCEPT !.pc = "move", !.dest = t])
      BY <3>1, <3>2 DEF Op, Placed, InTransition
    <3>3. target.job = x.path.job /\ [target EXCEPT !.alt = alts + 1].job = x.path.job
      BY <3>1 DEF Path
    <3> QED BY <2>3, <3>2, <3>3, Replace DEF PickTarget
  <2>4. CASE Move(a)
    <3>1. Placed([x EXCEPT !.pc = "retry", !.dest = NoPath])
      BY <1>0, <2>4 DEF Move, Op, Placed, InTransition
    <3> QED BY <2>4, <3>1, Replace, Ended DEF Move
  <2> QED BY <1>2, <2>1, <2>2, <2>3, <2>4 DEF TransitionStep
<1>3. ASSUME NEW w \in Workers, WorkerStep(w) PROVE PInv'
  <2> DEFINE x == op[w]
  <2>0. w \in Actors /\ x \in Op /\ LocalTyped(x) /\ Placed(x)
    BY <1>0 DEF Actors
  <2>1. CASE ClaimPick(w)
    <3>1. PICK p \in Path : p.dir = "pending" /\ op' = [op EXCEPT ![w] = [Idle EXCEPT !.pc = "claim", !.path = p]]
      BY <2>1 DEF ClaimPick
    <3>2. Placed([Idle EXCEPT !.pc = "claim", !.path = p])
      BY <3>1, IdlePlaced DEF Op, Placed, InTransition
    <3> QED BY <2>0, <3>1, <3>2, Replace
  <2>2. CASE ClaimRename(w)
    <3> DEFINE target == [x.path EXCEPT !.dir = "running"]
    <3>1. x.path \in Path
      BY <2>0, <2>2 DEF ClaimRename, LocalTyped
    <3>2. target.dir = "running"
      BY <3>1 DEF Path
    <3>3. Placed([x EXCEPT !.pc = "claim_read", !.path = target])
      BY <2>0, <3>2 DEF Op, Placed, InTransition
    <3> QED BY <2>0, <2>2, <3>3, Replace, Ended DEF ClaimRename
  <2>3. CASE ClaimRead(w)
    <3>1. Placed([x EXCEPT !.pc = "claim_write", !.mem = ReadPayload(x.path)])
      BY <2>0, <2>3 DEF ClaimRead, Op, Placed, InTransition
    <3> QED BY <2>0, <2>3, <3>1, Replace DEF ClaimRead
  <2>4. CASE ClaimWrite(w)
    <3>1. Placed([x EXCEPT !.pc = "claimed", !.mem = NoFile, !.lease = leases + 1, !.attempt = x.mem.attempt + 1])
      BY <2>0, <2>4 DEF ClaimWrite, Op, Placed, InTransition
    <3> QED BY <2>0, <2>4, <3>1, Replace DEF ClaimWrite
  <2>5. CASE BeginRun(w)
    <3>1. Placed([x EXCEPT !.pc = "executing"])
      BY <2>0, <2>5 DEF BeginRun, Op, Placed, InTransition
    <3> QED BY <2>0, <2>5, <3>1, Replace DEF BeginRun, Step
  <2>6. CASE PauseRun(w) \/ SettleRun(w) \/ DeadLetter(w)
    <3>1. x.path \in Path /\ x.path.dir = "running"
      BY <2>0, <2>6 DEF PauseRun, SettleRun, DeadLetter, Joined, LocalTyped, Placed
    <3>2. PICK d : StartTransition(w, x.path, d)
      BY <2>6 DEF PauseRun, SettleRun, DeadLetter
    <3> QED BY <2>0, <3>1, <3>2, Taken DEF Settling
  <2>7. CASE AbortOnStub(w)
    BY <2>0, <2>7, Ended DEF AbortOnStub
  <2>8. CASE HeartbeatRead(w) \/ HeartbeatWrite(w)
    BY <1>1, <2>8 DEF HeartbeatRead, HeartbeatWrite
  <2>9. CASE FailAndRetry(w)
    <3>1. Placed([x EXCEPT !.pc = "read", !.goal = "failed", !.cont = "retry"])
      BY <2>0, <2>9 DEF FailAndRetry, Joined, Op, Placed, InTransition, Settling
    <3> QED BY <2>0, <2>9, <3>1, Replace DEF FailAndRetry
  <2>10. CASE RetryFind(w)
    <3>1. ASSUME NEW p \in FindJobFiles("failed", x.path.job)
          PROVE  Placed([x EXCEPT !.pc = "defer_read", !.path = p, !.cont = "idle"])
      <4>1. p.dir = "failed"
        BY DEF FindJobFiles
      <4> QED BY <2>0, <4>1 DEF Op, Placed, InTransition
    <3> QED BY <2>0, <2>10, <3>1, Replace, Ended DEF RetryFind
  <2>11. CASE RetryRead(w)
    <3>1. Placed([x EXCEPT !.pc = "defer_write", !.mem = ReadPayload(x.path)])
      BY <2>0, <2>11 DEF RetryRead, Op, Placed, InTransition
    <3> QED BY <2>0, <2>11, <3>1, Replace DEF RetryRead
  <2>12. CASE RetryWrite(w)
    <3>1. Placed([x EXCEPT !.pc = "read", !.mem = NoFile, !.goal = "pending"])
      BY <2>0, <2>12 DEF RetryWrite, Op, Placed, InTransition, Settling
    <3> QED BY <2>0, <2>12, <3>1, Replace DEF RetryWrite
  <2> QED BY <1>3, <2>1, <2>2, <2>3, <2>4, <2>5, <2>6, <2>7, <2>8, <2>9, <2>10, <2>11, <2>12 DEF WorkerStep
<1>4. ASSUME NEW a \in Operators, OperatorStep(a) PROVE PInv'
  <2> DEFINE x == op[a]
  <2>0. a \in Actors /\ x \in Op /\ LocalTyped(x) /\ Placed(x)
    BY <1>0 DEF Actors
  <2>1. CASE EnqueueStart(a)
    <3>1. PICK j, d : op' = [op EXCEPT ![a] = [Idle EXCEPT !.pc = "enqueue", !.goal = d,
                                               !.path = JobPath(d, j), !.todo = STATE_ORDER]]
      BY <2>1 DEF EnqueueStart
    <3>2. Placed([Idle EXCEPT !.pc = "enqueue", !.goal = d, !.path = JobPath(d, j), !.todo = STATE_ORDER])
      BY IdlePlaced DEF Op, Placed, InTransition
    <3> QED BY <2>0, <3>1, <3>2, Replace
  <2>2. CASE EnqueueScan(a)
    <3>1. Placed([x EXCEPT !.pc = "put"]) /\ Placed([x EXCEPT !.todo = Tail(@)])
      BY <2>0, <2>2 DEF EnqueueScan, Op, Placed, InTransition
    <3> QED BY <2>0, <2>2, <3>1, Replace, Ended DEF EnqueueScan, Step
  <2>3. CASE EnqueuePut(a) \/ DropUnlink(a)
    BY <2>0, <2>3, Ended DEF EnqueuePut, DropUnlink
  <2>4. CASE Approve(a) \/ Reject(a) \/ Unlock(a)
    <3>1. PICK p, d : p \in Path /\ p.dir \in {"awaiting_approval", "running"} /\ StartTransition(a, p, d)
      BY <2>4 DEF Approve, Reject, Unlock, FindJobFiles
    <3> QED BY <2>0, <3>1, Taken DEF Settling
  <2>5. CASE SearchStart(a)
    <3>1. ASSUME NEW j \in Jobs
          PROVE  /\ Placed([Idle EXCEPT !.pc = "cancel", !.goal = "failed", !.path = JobPath("failed", j),
                                        !.todo = <<"pending", "awaiting_approval", "failed">>])
                 /\ Placed([Idle EXCEPT !.pc = "drop", !.path = JobPath("pending", j), !.todo = STATE_ORDER])
      BY IdlePlaced DEF Op, Placed, InTransition, Settling
    <3> QED BY <2>0, <2>5, <3>1, Replace DEF SearchStart
  <2>6. CASE SearchScan(a)
    <3>0. x.pc \in {"cancel", "drop"} /\ x.todo \in Seq(Dirs)
      BY <2>0, <2>6 DEF SearchScan, Op
    <3>1. CASE Finish(a)
      BY <2>0, <3>1, Ended
    <3>2. ASSUME x.todo # <<>>, NEW p \in FindJobFiles(Head(x.todo), x.path.job)
          PROVE  Placed([x EXCEPT !.path = p, !.todo = <<>>, !.pc = IF x.pc = "cancel" THEN "read" ELSE "unlink"])
      <4>1. x.pc = "cancel" => p.dir \notin Settling
        BY <2>0, <3>0, <3>2 DEF Placed, FindJobFiles
      <4>2. CASE x.pc = "cancel"
        BY <2>0, <4>1, <4>2 DEF Op, Placed, InTransition
      <4>3. CASE x.pc = "drop"
        BY <2>0, <4>3 DEF Op, Placed, InTransition
      <4> QED BY <3>0, <4>2, <4>3
    <3>3. ASSUME x.todo # <<>> PROVE Placed([x EXCEPT !.todo = Tail(@)])
      <4>1. x.pc = "cancel" => \A i \in DOMAIN Tail(x.todo) : Tail(x.todo)[i] \notin Settling
        BY <2>0, <3>0, <3>3 DEF Placed
      <4> QED BY <2>0, <3>0, <4>1 DEF Op, Placed, InTransition
    <3> QED BY <2>0, <2>6, <3>1, <3>2, <3>3, Replace DEF SearchScan
  <2> QED BY <1>4, <2>1, <2>2, <2>3, <2>4, <2>5, <2>6 DEF OperatorStep
<1>5. ASSUME NEW a \in Actors, Reclaim(a) PROVE PInv'
  <2>1. PICK p, d : p \in Path /\ p.dir = "running" /\ StartTransition(a, p, d)
    BY <1>5 DEF Reclaim
  <2> QED BY <2>1, Taken DEF Settling
<1>6. ASSUME NEW a \in Actors, Crash(a) PROVE PInv'
  BY <1>6, Ended DEF Crash
<1>7. ASSUME NEW p \in Path, GrowsStale(p) \/ BackoffElapses(p) PROVE PInv'
  BY <1>1, <1>7 DEF GrowsStale, BackoffElapses
<1>8. CASE UNCHANGED vars
  BY <1>1, <1>8 DEF vars
<1> QED
  BY <1>2, <1>3, <1>4, <1>5, <1>6, <1>7, <1>8 DEF Next

LEMMA PlacedInductive ==
  ASSUME PInv, [Next]_vars
  PROVE  PInv'
<1>1. CASE UNCHANGED vars
  BY <1>1 DEF vars, PInv, TInv, TypeOK, LocalTyped
<1>2. TInv'
  BY <1>1, TransitionTyped, WorkerTyped, OperatorTyped, EnvironmentTyped DEF Next, PInv
<1> QED
  BY <1>2, PlacedStep

\* No file of a job goes unless another of the same job comes, and none at all
\* from a final directory.
JobsKept ==
  \A p \in Path : disk[p] # NoFile =>
    \E q \in Path : /\ q.job = p.job /\ disk'[q] # NoFile
                    /\ p.dir \in Settling => q = p

LEMMA Rewriting ==
  ASSUME TInv, NEW p \in Path, NEW payload \in Payload, Write(p, payload)
  PROVE  /\ disk'[p] # NoFile /\ \A q \in Path : q # p => disk'[q] = disk[q]
         /\ JobsKept
<1>1. [payload EXCEPT !.stale = FALSE] \in Payload
  BY DEF Payload
<1>2. disk'[p] # NoFile /\ \A q \in Path : q # p => disk'[q] = disk[q]
  BY <1>1, Typed, SentinelAssumption DEF Write, DiskTyped
<1> QED
  BY <1>2 DEF JobsKept

LEMMA Renaming ==
  ASSUME TInv, NEW p \in Path, NEW q \in Path, p.job = q.job, p.dir \notin Settling,
         disk'[q] # NoFile, \A x \in Path : x # p /\ x # q => disk'[x] = disk[x]
  PROVE  JobsKept
  BY DEF JobsKept

LEMMA Keeping ==
  ASSUME PInv, [Next]_vars, \A a \in Operators : ~DropUnlink(a)
  PROVE  JobsKept
<1>0. \A a \in Actors : op[a] \in Op /\ LocalTyped(op[a]) /\ Placed(op[a])
  BY Typed DEF PInv
<1>a. TInv /\ DiskTyped /\ \A w \in Workers : w \in Actors
  BY Typed DEF PInv, Actors
<1>1. CASE disk' = disk
  BY <1>1 DEF JobsKept
<1>2. ASSUME NEW a \in Actors, TransitionStep(a) PROVE JobsKept
  <2>1. CASE TransitionRead(a) \/ PickTarget(a)
    BY <1>1, <2>1 DEF TransitionRead, PickTarget
  <2>2. CASE TransitionWrite(a)
    <3>1. op[a].path \in Path /\ op[a].mem \in Payload
      BY <1>0, <2>2 DEF TransitionWrite, LocalTyped
    <3> QED BY <1>a, <2>2, <3>1, TransitionedTyped, Rewriting DEF TransitionWrite
  <2>3. CASE Move(a)
    <3>1. /\ op[a].path \in Path /\ op[a].dest \in Path /\ op[a].dest.job = op[a].path.job
          /\ op[a].path.dir \notin Settling
      BY <1>0, <2>3 DEF Move, LocalTyped, Placed, InTransition
    <3>2. CASE disk[op[a].path] # NoFile /\ disk' = Rename(op[a].path, op[a].dest)
      <4>1. /\ disk'[op[a].dest] # NoFile
            /\ \A x \in Path : x # op[a].path /\ x # op[a].dest => disk'[x] = disk[x]
        BY <1>a, <3>1, <3>2 DEF Rename, DiskTyped
      <4> QED BY <1>a, <3>1, <4>1, Renaming
    <3> QED BY <1>1, <2>3, <3>2 DEF Move
  <2> QED BY <1>2, <2>1, <2>2, <2>3 DEF TransitionStep
<1>3. ASSUME NEW w \in Workers, WorkerStep(w) PROVE JobsKept
  <2>0. w \in Actors /\ op[w] \in Op /\ LocalTyped(op[w]) /\ Placed(op[w])
    BY <1>0, <1>a
  <2>1. CASE ClaimRename(w)
    <3> DEFINE path == op[w].path
               target == [path EXCEPT !.dir = "running"]
    <3>1. path \in Path /\ path.dir \notin Settling
      BY <2>0, <2>1 DEF ClaimRename, LocalTyped, Placed, Settling
    <3>2. target \in Path /\ target.job = path.job
      BY <3>1 DEF Path, Dirs
    <3>3. ASSUME disk[path] # NoFile, NEW old \in BOOLEAN,
                 disk' = [Rename(path, target) EXCEPT ![target].stale = old]
          PROVE  JobsKept
      <4>1. disk[path] \in Payload
        BY <1>a, <3>1, <3>3 DEF DiskTyped
      <4>2. [disk[path] EXCEPT !.stale = old] \in Payload
        BY <3>3, <4>1 DEF Payload
      <4>3. disk'[target] = [disk[path] EXCEPT !.stale = old]
            /\ \A x \in Path : x # path /\ x # target => disk'[x] = disk[x]
        BY <1>a, <3>1, <3>2, <3>3 DEF Rename, DiskTyped
      <4> QED BY <1>a, <3>1, <3>2, <4>2, <4>3, SentinelAssumption, Renaming
    <3> QED BY <1>1, <2>1, <3>3 DEF ClaimRename
  <2>2. CASE ClaimWrite(w)
    <3> DEFINE n == op[w].mem.attempt + 1
               x == [op[w].mem EXCEPT !.attempt = n, !.lease = leases + 1, !.deferred = FALSE]
    <3>1. op[w].path \in Path /\ op[w].mem \in Payload
      BY <2>0, <2>2 DEF ClaimWrite, LocalTyped
    <3>2. leases + 1 \in 0 .. MaxLeases
      BY <1>a, <2>2, Typed, QueueAssumption DEF ClaimWrite, CountsTyped
    <3>3. n \in Nat
      BY <3>1 DEF Payload
    <3>4. Write(op[w].path, x)
      BY <2>2 DEF ClaimWrite
    <3> HIDE DEF n
    <3>5. x \in Payload
      BY <3>1, <3>2, <3>3 DEF Payload
    <3> QED BY <1>a, <3>1, <3>4, <3>5, Rewriting
  <2>3. CASE HeartbeatWrite(w)
    <3>1. beat[w].path \in Path /\ beat[w].mem \in Payload
      BY <1>a, <2>3, Typed DEF HeartbeatWrite, BeatTyped, Beat
    <3> QED BY <1>a, <2>3, <3>1, Rewriting DEF HeartbeatWrite
  <2>4. CASE RetryWrite(w)
    <3>1. op[w].path \in Path /\ op[w].mem \in Payload
      BY <2>0, <2>4 DEF RetryWrite, LocalTyped
    <3>2. [op[w].mem EXCEPT !.deferred = TRUE] \in Payload
      BY <3>1 DEF Payload
    <3> QED BY <1>a, <2>4, <3>1, <3>2, Rewriting DEF RetryWrite
  <2>5. CASE disk' = disk
    BY <1>1, <2>5
  <2> QED BY <1>3, <2>1, <2>2, <2>3, <2>4, <2>5
          DEF WorkerStep, ClaimPick, ClaimRead, BeginRun, PauseRun, AbortOnStub, HeartbeatRead, SettleRun,
              FailAndRetry, DeadLetter, RetryFind, RetryRead
<1>4. ASSUME NEW a \in Operators, OperatorStep(a) PROVE JobsKept
  <2>1. CASE EnqueuePut(a)
    <3>1. op[a].path \in Path
      BY <1>0, <2>1 DEF EnqueuePut, LocalTyped, Actors
    <3>2. [Stub EXCEPT !.runnable = TRUE] \in Payload
      BY IdleTyped DEF Payload
    <3> QED BY <1>a, <2>1, <3>1, <3>2, Rewriting DEF EnqueuePut
  <2>2. CASE disk' = disk
    BY <1>1, <2>2
  <2> QED BY <1>4, <2>1, <2>2
          DEF OperatorStep, EnqueueStart, EnqueueScan, Approve, Reject, Unlock, SearchStart, SearchScan
<1>5. ASSUME NEW p \in Path, GrowsStale(p) \/ BackoffElapses(p) PROVE JobsKept
  <2>1. disk[p] \in Payload
    BY <1>a, <1>5 DEF GrowsStale, BackoffElapses, DiskTyped
  <2>2. [disk[p] EXCEPT !.stale = TRUE] \in Payload /\ [disk[p] EXCEPT !.deferred = FALSE] \in Payload
    BY <2>1 DEF Payload
  <2>3. disk'[p] # NoFile /\ \A q \in Path : q # p => disk'[q] = disk[q]
    BY <1>a, <1>5, <2>2, SentinelAssumption DEF GrowsStale, BackoffElapses, DiskTyped
  <2> QED BY <2>3 DEF JobsKept
<1>6. ASSUME NEW a \in Actors, Reclaim(a) \/ Crash(a) PROVE JobsKept
  BY <1>1, <1>6 DEF Reclaim, Crash
<1>7. CASE UNCHANGED vars
  BY <1>1, <1>7 DEF vars
<1> QED
  BY <1>2, <1>3, <1>4, <1>5, <1>6, <1>7 DEF Next

\* The jobs on record change with enqueue and drop only.
LEMMA Admitting ==
  ASSUME [Next]_vars, \A a \in Operators : ~DropUnlink(a) /\ ~EnqueuePut(a)
  PROVE  admitted' = admitted
  BY DEF Next, vars, TransitionStep, TransitionRead, TransitionWrite, PickTarget, Move, WorkerStep, ClaimPick,
         ClaimRename, ClaimRead, ClaimWrite, BeginRun, PauseRun, AbortOnStub, HeartbeatRead, HeartbeatWrite,
         SettleRun, FailAndRetry, DeadLetter, RetryFind, RetryRead, RetryWrite, OperatorStep, EnqueueStart,
         EnqueueScan, Approve, Reject, Unlock, SearchStart, SearchScan, Reclaim, Crash, GrowsStale,
         BackoffElapses

LEMMA StillThere ==
  ASSUME PInv, NoJobLost, [Next]_vars
  PROVE  NoJobLost'
<1>0. /\ \A a \in Operators : a \in Actors /\ op[a] \in Op /\ LocalTyped(op[a])
      /\ TInv /\ DiskTyped
  BY Typed DEF PInv, Actors
<1>1. ASSUME NEW a \in Operators, DropUnlink(a) PROVE NoJobLost'
  <2>1. op[a].path \in Path /\ disk' = [disk EXCEPT ![op[a].path] = NoFile]
    BY <1>0, <1>1 DEF DropUnlink, LocalTyped
  <2>2. CASE disk[op[a].path] = NoFile
    <3>1. disk' = disk /\ admitted' = admitted
      BY <1>0, <1>1, <2>1, <2>2 DEF DropUnlink, DiskTyped
    <3> QED BY <3>1 DEF NoJobLost
  <2>3. CASE disk[op[a].path] # NoFile
    <3>1. admitted' = admitted \ {op[a].path.job} /\ \A p \in Path : p # op[a].path => disk'[p] = disk[p]
      BY <1>0, <1>1, <2>1, <2>3 DEF DropUnlink, DiskTyped
    <3> QED BY <3>1 DEF NoJobLost
  <2> QED BY <2>2, <2>3
<1>2. ASSUME NEW a \in Operators, EnqueuePut(a), ~DropUnlink(a) PROVE NoJobLost'
  <2>1. op[a].path \in Path /\ admitted' = admitted \cup {op[a].path.job}
    BY <1>0, <1>2 DEF EnqueuePut, LocalTyped
  <2>2. [Stub EXCEPT !.runnable = TRUE] \in Payload
    BY IdleTyped DEF Payload
  <2>3. disk'[op[a].path] # NoFile /\ JobsKept
    BY <1>0, <1>2, <2>1, <2>2, Rewriting DEF EnqueuePut
  <2> QED BY <2>1, <2>3 DEF NoJobLost, JobsKept
<1>3. CASE \A a \in Operators : ~DropUnlink(a) /\ ~EnqueuePut(a)
  BY <1>3, Keeping, Admitting DEF NoJobLost, JobsKept
<1> QED
  BY <1>1, <1>2, <1>3

\* An accepted job never vanishes: every process may crash, stall, reclaim, cancel,
\* drop and submit again as it likes, and the items may collide.
THEOREM NothingLost == Spec => []NoJobLost
<1>1. Init => PInv /\ NoJobLost
  BY InitPlaced DEF Init, NoJobLost
<1>2. PInv /\ [Next]_vars => PInv'
  BY PlacedInductive
<1>3. PInv /\ NoJobLost /\ [Next]_vars => NoJobLost'
  BY StillThere
<1> QED
  BY <1>1, <1>2, <1>3, PTL DEF Spec

\* What is done or given up stays where it is, unless an operator drops it.
THEOREM FinalKept == Spec => FinalStatesKept
<1> DEFINE Kept == \A j \in Jobs, d \in {"done", "dead_letter"} :
                     HasFile(d, j) => HasFile(d, j)' \/ \E a \in Operators : op[a].pc = "unlink"
<1>1. Spec => []PInv
  <2>1. PInv /\ [Next]_vars => PInv'
    BY PlacedInductive
  <2> QED BY <2>1, InitPlaced, PTL DEF Spec
<1>2. PInv /\ [Next]_vars => [Kept]_vars
  <2> SUFFICES ASSUME PInv, [Next]_vars PROVE Kept
    OBVIOUS
  <2>1. CASE \E a \in Operators : DropUnlink(a)
    BY <2>1 DEF DropUnlink
  <2>2. CASE JobsKept
    BY <2>2 DEF JobsKept, HasFile, Settling
  <2> QED BY <2>1, <2>2, Keeping
<1> QED
  BY <1>1, <1>2, PTL DEF Spec, FinalStatesKept

------------------------------------------------------------------------------
(* The budget of a job.                                                      *)

\* A file has counted every execution of its job, and one that will be claimed has
\* an attempt left.
FileBudget(p) ==
  disk[p] # NoFile =>
    /\ runs[p.job] <= disk[p].attempt
    /\ disk[p].attempt <= MaxAttempts + grants[p.job]
    /\ p.dir = "pending" => disk[p].attempt < MaxAttempts + grants[p.job]

\* What a process has in hand agrees with the file, and where it leads to another
\* execution an attempt is left.
HandBudget(r) ==
  LET n == disk[r.path].attempt
      left == n < MaxAttempts + grants[r.path.job]
  IN  /\ r.pc \in {"write", "claim_write", "defer_write"} => r.mem.attempt = n
      /\ r.pc \in {"claimed", "executing"} => r.attempt = n
      /\ r.pc = "claimed" => runs[r.path.job] < n
      /\ r.pc \in {"claim_read", "claim_write"} => left
      /\ InTransition(r) /\ r.goal = "pending" => left
      /\ InTransition(r) /\ r.cont = "retry" => n < MaxAttempts
      /\ r.pc \in {"defer_read", "defer_write"} => n < MaxAttempts
      /\ r.pc = "retry" => \A p \in Path : p.job = r.path.job /\ disk[p] # NoFile => disk[p].attempt < MaxAttempts

BeatBudget(w) == beat[w] # NoBeat => beat[w].mem.attempt = disk[beat[w].path].attempt

BInv ==
  /\ IInv
  /\ \A p \in Path : FileBudget(p)
  /\ \A a \in Actors : HandBudget(op[a])
  /\ \A w \in Workers : BeatBudget(w)
  /\ \A j \in Jobs : j \notin admitted => runs[j] = 0
  /\ RunsWithinBudget

LEMMA IdleBudget == HandBudget(Idle)
  BY DEF HandBudget, Idle, InTransition

LEMMA InitBudget == Init => BInv
<1> SUFFICES ASSUME Init PROVE BInv
  OBVIOUS
<1>1. \A a \in Actors : op[a] = Idle
  BY DEF Init
<1>2. \A p \in Path : disk[p] = NoFile
  BY DEF Init
<1>3. \A w \in Workers : beat[w] = NoBeat
  BY DEF Init
<1>4. \A j \in Jobs : runs[j] = 0 /\ grants[j] = 0
  BY DEF Init
<1> QED
  BY <1>1, <1>2, <1>3, <1>4, InitIInv, IdleBudget, QueueAssumption
     DEF BInv, FileBudget, BeatBudget, RunsWithinBudget

\* The files there are keep their counts.
AttemptsKept ==
  \A p \in Path : /\ disk'[p] = NoFile <=> disk[p] = NoFile
                  /\ disk[p] # NoFile => disk'[p].attempt = disk[p].attempt

CountsKept == UNCHANGED <<runs, grants, admitted>>

LEMMA BeatsKept ==
  ASSUME BInv, AttemptsKept, NEW w \in Workers, beat'[w] \in {beat[w], NoBeat}
  PROVE  BeatBudget(w)'
<1>1. CASE beat'[w] = NoBeat
  BY <1>1 DEF BeatBudget
<1>2. CASE beat[w] # NoBeat /\ beat'[w] = beat[w]
  <2>1. beat[w].path = op[w].path /\ op[w].pc = "executing" /\ w \in Actors
    BY <1>2 DEF BInv, IInv, BeatInHand, Actors
  <2>2. beat[w].path \in Path /\ disk[beat[w].path] # NoFile
    BY <2>1, Actor DEF BInv, Held, Owns
  <2> QED BY <1>2, <2>2 DEF BInv, BeatBudget, AttemptsKept
<1> QED
  BY <1>1, <1>2

LEMMA HandsKept ==
  ASSUME BInv, AttemptsKept, CountsKept, NEW a \in Actors, op'[a] = op[a]
  PROVE  HandBudget(op[a])'
<1>1. CASE ~Owns(op[a])
  BY <1>1 DEF HandBudget, Owns, InTransition
<1>2. CASE Owns(op[a]) /\ op[a].pc # "retry"
  <2>1. op[a].path \in Path /\ disk[op[a].path] # NoFile
    BY <1>2, Actor DEF BInv, Held
  <2> QED BY <1>2, <2>1 DEF BInv, HandBudget, AttemptsKept, CountsKept, InTransition
<1>3. CASE op[a].pc = "retry"
  BY <1>3 DEF BInv, HandBudget, AttemptsKept, CountsKept, InTransition
<1> QED
  BY <1>1, <1>2, <1>3

LEMMA FilesKept ==
  ASSUME BInv, IInv', AttemptsKept, CountsKept, \A a \in Actors : HandBudget(op[a])',
         \A w \in Workers : BeatBudget(w)'
  PROVE  BInv'
<1>1. ASSUME NEW p \in Path PROVE FileBudget(p)'
  BY DEF BInv, FileBudget, AttemptsKept, CountsKept
<1> QED
  BY <1>1 DEF BInv, CountsKept, RunsWithinBudget

\* A step of one process that counts nothing.
LEMMA Uncounted ==
  ASSUME BInv, IInv', AttemptsKept, CountsKept, NEW a \in Actors, NEW r, op' = [op EXCEPT ![a] = r],
         HandBudget(r)', \A w \in Workers : beat'[w] \in {beat[w], NoBeat}
  PROVE  BInv'
<1>1. op'[a] = r /\ \A b \in Actors : b # a => op'[b] = op[b]
  BY DEF BInv, IInv, TInv, TypeOK
<1>2. ASSUME NEW b \in Actors PROVE HandBudget(op[b])'
  <2>1. CASE b = a
    BY <1>1, <2>1 DEF HandBudget
  <2>2. CASE b # a
    BY <1>1, <2>2, HandsKept
  <2> QED BY <2>1, <2>2
<1> QED
  BY <1>2, BeatsKept, FilesKept

LEMMA Unmoved == disk' = disk => AttemptsKept
  BY DEF AttemptsKept

\* A step of one process that only goes on.
LEMMA Onward ==
  ASSUME BInv, IInv', NEW a \in Actors, NEW r, op' = [op EXCEPT ![a] = r], HandBudget(r),
         disk' = disk, beat' = beat, CountsKept
  PROVE  BInv'
<1>1. HandBudget(r)'
  BY DEF HandBudget, CountsKept
<1> QED
  BY <1>1, Unmoved, Uncounted

\* A step of one process on the one file of a job nobody else owns.
LEMMA Counted ==
  ASSUME BInv, IInv', NEW a \in Actors, NEW r, op' = [op EXCEPT ![a] = r], NEW j \in Jobs,
         Alone(a, j), Touches(j), OthersBeat(a),
         runs' \in [Jobs -> Nat], grants' \in [Jobs -> Nat],
         \A i \in Jobs : i # j => runs'[i] = runs[i] /\ grants'[i] = grants[i],
         \A p \in Path : p.job = j => FileBudget(p)',
         HandBudget(r)',
         a \in Workers => BeatBudget(a)',
         \A i \in Jobs : i \notin admitted' => i \notin admitted /\ i # j,
         runs'[j] <= MaxAttempts + grants'[j]
  PROVE  BInv'
<1>1. op'[a] = r /\ \A b \in Actors : b # a => op'[b] = op[b]
  BY DEF BInv, IInv, TInv, TypeOK
<1>2. ASSUME NEW p \in Path PROVE FileBudget(p)'
  <2>1. CASE p.job # j
    <3>1. p.job \in Jobs
      BY DEF Path
    <3> QED BY <2>1, <3>1 DEF BInv, FileBudget, Touches
  <2> QED BY <2>1
<1>3. ASSUME NEW b \in Actors, b # a, Owns(op[b])
      PROVE  /\ op[b].path \in Path /\ op[b].path.job \in Jobs /\ op[b].path.job # j
  BY <1>3, Actor DEF BInv, Alone
<1>4. ASSUME NEW b \in Actors PROVE HandBudget(op[b])'
  <2>1. CASE b = a
    BY <1>1, <2>1 DEF HandBudget
  <2>2. CASE b # a /\ ~Owns(op[b])
    BY <1>1, <2>2 DEF HandBudget, Owns, InTransition
  <2>3. CASE b # a /\ Owns(op[b])
    <3>1. /\ HandBudget(op[b]) /\ op'[b] = op[b]
          /\ disk'[op[b].path] = disk[op[b].path]
          /\ runs'[op[b].path.job] = runs[op[b].path.job] /\ grants'[op[b].path.job] = grants[op[b].path.job]
          /\ \A p \in Path : p.job = op[b].path.job => disk'[p] = disk[p]
      BY <1>1, <1>3, <2>3 DEF BInv, Touches
    <3> QED BY <3>1 DEF HandBudget, InTransition
  <2> QED BY <2>1, <2>2, <2>3
<1>5. ASSUME NEW w \in Workers PROVE BeatBudget(w)'
  <2>1. CASE w # a /\ beat[w] # NoBeat
    <3>1. beat[w].path = op[w].path /\ op[w].pc = "executing" /\ w \in Actors
      BY <2>1 DEF BInv, IInv, BeatInHand, Actors
    <3>2. beat[w].path \in Path /\ beat[w].path.job # j
      BY <1>3, <2>1, <3>1 DEF Owns
    <3> QED BY <2>1, <3>2 DEF BInv, BeatBudget, Touches, OthersBeat
  <2>2. CASE w # a /\ beat[w] = NoBeat
    BY <2>2 DEF BeatBudget, OthersBeat
  <2> QED BY <2>1, <2>2
<1>6. \A i \in Jobs : i \notin admitted' => runs'[i] = 0
  BY DEF BInv
<1>7. RunsWithinBudget'
  BY DEF BInv, RunsWithinBudget
<1> QED
  BY <1>2, <1>4, <1>5, <1>6, <1>7 DEF BInv

\* What a process that owns a job knows of its file.
LEMMA InHandKnown ==
  ASSUME BInv, NEW a \in Actors, Owns(op[a])
  PROVE  /\ op[a] \in Op /\ HandBudget(op[a])
         /\ op[a].path \in Path /\ op[a].path.job \in Jobs /\ op[a].path.job \in admitted
         /\ Alone(a, op[a].path.job)
         /\ op[a].pc # "retry" =>
              /\ disk[op[a].path] \in Payload /\ disk[op[a].path] # NoFile
              /\ FileBudget(op[a].path)
              /\ ReadPayload(op[a].path) = disk[op[a].path]
              /\ \A p \in Path : disk[p] # NoFile /\ p.job = op[a].path.job => p = op[a].path
         /\ runs[op[a].path.job] \in Nat /\ grants[op[a].path.job] \in Nat
<1>1. /\ op[a] \in Op /\ op[a].path \in Path /\ op[a].path.job \in Jobs /\ Held(op[a])
      /\ op[a].path.job \in admitted /\ Alone(a, op[a].path.job)
  BY Actor, Owner DEF BInv
<1>2. DiskTyped /\ CountsTyped
  BY Typed DEF BInv, IInv
<1>3. op[a].pc # "retry" => disk[op[a].path] # NoFile
  BY <1>1 DEF Held
<1> QED
  BY <1>1, <1>2, <1>3 DEF BInv, IInv, OneFilePerJob, DiskTyped, CountsTyped, ReadPayload

\* Rewriting a file without counting.
LEMMA Recorded ==
  ASSUME BInv, NEW p \in Path, disk[p] # NoFile, NEW payload \in Payload, Write(p, payload),
         payload.attempt = disk[p].attempt
  PROVE  AttemptsKept
<1>1. /\ \A q \in Path : q # p => disk'[q] = disk[q]
      /\ disk'[p] = [payload EXCEPT !.stale = FALSE] /\ disk'[p] # NoFile
  BY Written DEF BInv
<1>2. [payload EXCEPT !.stale = FALSE].attempt = payload.attempt
  BY DEF Payload
<1> QED
  BY <1>1, <1>2 DEF AttemptsKept

LEMMA EndBudget ==
  ASSUME BInv, IInv', NEW a \in Actors, Finish(a), disk' = disk, CountsKept,
         \A w \in Workers : beat'[w] \in {beat[w], NoBeat}
  PROVE  BInv'
<1>1. HandBudget(Idle)'
  BY DEF HandBudget, Idle, InTransition
<1> QED
  BY <1>1, Unmoved, Uncounted DEF Finish

LEMMA TransitionBudget ==
  ASSUME BInv, IInv', NEW a \in Actors, TransitionStep(a)
  PROVE  BInv'
<1> DEFINE x == op[a]
           path == x.path
<1>0. Owns(x) /\ InTransition(x) /\ x.pc # "retry"
  BY DEF TransitionStep, TransitionRead, TransitionWrite, PickTarget, Move, Owns, InTransition
<1>a. /\ x \in Op /\ HandBudget(x) /\ path \in Path /\ path.job \in Jobs /\ path.job \in admitted
      /\ disk[path] \in Payload /\ disk[path] # NoFile /\ ReadPayload(path) = disk[path]
      /\ \A p \in Path : disk[p] # NoFile /\ p.job = path.job => p = path
  BY <1>0, InHandKnown
<1>1. CASE TransitionRead(a)
  <2>r. PICK r : r = [x EXCEPT !.pc = "write", !.mem = ReadPayload(path)]
    OBVIOUS
  <2>1. r.pc = "write" /\ r.path = path /\ r.goal = x.goal /\ r.cont = x.cont /\ r.mem = disk[path]
    BY <2>r, <1>a DEF Op
  <2>2. HandBudget(r)
    BY <1>0, <1>a, <2>1 DEF HandBudget, InTransition
  <2> QED BY <1>1, <2>r, <2>2, Onward DEF TransitionRead, CountsKept
<1>2. CASE TransitionWrite(a)
  <2>r. PICK r : r = [x EXCEPT !.pc = "pick", !.mem = NoFile]
    OBVIOUS
  <2>1. r.pc = "pick" /\ r.path = path /\ r.goal = x.goal /\ r.cont = x.cont
    BY <2>r, <1>a DEF Op
  <2>2. /\ x.pc = "write" /\ x.mem \in Payload /\ x.mem.attempt = disk[path].attempt
        /\ op' = [op EXCEPT ![a] = r] /\ CountsKept /\ beat' = beat
    BY <1>a, <1>2, <2>r, Actor DEF TransitionWrite, HandBudget, LocalTyped, CountsKept, BInv
  <2>3. Transitioned(x.mem, x.goal).attempt = x.mem.attempt /\ Transitioned(x.mem, x.goal) \in Payload
    <3>1. Transitioned(x.mem, x.goal).attempt = x.mem.attempt
      BY <2>2 DEF Transitioned, Payload
    <3> QED BY <2>2, <3>1, TransitionedTyped
  <2>4. AttemptsKept
    BY <1>a, <1>2, <2>2, <2>3, Recorded DEF TransitionWrite
  <2>5. HandBudget(r)'
    BY <1>0, <1>a, <2>1, <2>2, <2>4 DEF HandBudget, InTransition, AttemptsKept, CountsKept
  <2> QED BY <2>2, <2>4, <2>5, Uncounted
<1>3. CASE PickTarget(a)
  <2>1. ASSUME NEW t PROVE HandBudget([x EXCEPT !.pc = "move", !.dest = t])
    <3>r. PICK r : r = [x EXCEPT !.pc = "move", !.dest = t]
      OBVIOUS
    <3>1. r.pc = "move" /\ r.path = path /\ r.goal = x.goal /\ r.cont = x.cont
      BY <3>r, <1>a DEF Op
    <3>2. HandBudget(r)
      BY <1>0, <1>a, <3>1 DEF HandBudget, InTransition
    <3> QED BY <3>r, <3>2
  <2>2. PICK t : op' = [op EXCEPT ![a] = [x EXCEPT !.pc = "move", !.dest = t]]
    BY <1>3 DEF PickTarget
  <2>3. disk' = disk /\ beat' = beat /\ CountsKept
    BY <1>3 DEF PickTarget, CountsKept
  <2> QED BY <2>1, <2>2, <2>3, Onward
<1>4. CASE Move(a)
  <2> DEFINE dest == x.dest
             j == path.job
  <2>0. x.pc = "move" /\ dest = [path EXCEPT !.dir = x.goal] /\ dest \in Path /\ x.goal # path.dir
    BY <1>0, <1>4, Actor DEF Move, Moving, LocalTyped, BInv
  <2>1. dest # path /\ dest.job = j /\ dest.dir = x.goal
    BY <1>a, <2>0 DEF Path
  <2>2. disk' = Rename(path, dest) /\ beat' = beat /\ CountsKept
    BY <1>a, <1>4 DEF Move, CountsKept
  <2>3. /\ disk'[path] = NoFile /\ disk'[dest] = disk[path]
        /\ \A p \in Path : p # path /\ p # dest => disk'[p] = disk[p]
    BY <1>a, <2>0, <2>1, <2>2, Typed DEF Rename, BInv, IInv, DiskTyped
  <2>4. Alone(a, j) /\ Touches(j) /\ OthersBeat(a)
    BY <1>0, <2>1, <2>2, <2>3, InHandKnown DEF Touches, OthersBeat
  <2>5. ASSUME NEW p \in Path, p.job = j, disk'[p] # NoFile PROVE p = dest
    BY <1>a, <2>3, <2>5
  <2>6. runs' = runs /\ grants' = grants /\ admitted' = admitted
    BY <2>2 DEF CountsKept
  <2>7. FileBudget(path)
    BY <1>a DEF BInv
  <2>8. ASSUME NEW p \in Path, p.job = j PROVE FileBudget(p)'
    <3>1. x.goal = "pending" => disk[path].attempt < MaxAttempts + grants[j]
      BY <1>0, <1>a DEF HandBudget
    <3>2. CASE p = dest
      BY <1>a, <2>1, <2>3, <2>6, <2>7, <3>1, <3>2 DEF FileBudget
    <3>3. CASE disk'[p] = NoFile
      BY <3>3 DEF FileBudget
    <3> QED BY <2>5, <2>8, <3>2, <3>3
  <2>9. runs' \in [Jobs -> Nat] /\ grants' \in [Jobs -> Nat] /\ runs'[j] <= MaxAttempts + grants'[j]
        /\ \A i \in Jobs : i \notin admitted' => i \notin admitted /\ i # j
    BY <1>a, <2>6, Typed DEF BInv, IInv, CountsTyped, RunsWithinBudget
  <2>10. a \in Workers => BeatBudget(a)'
    <3>1. a \in Workers => beat[a] = NoBeat
      BY <2>0, Actor DEF BeatInHand, BInv
    <3> QED BY <2>2, <3>1 DEF BeatBudget
  <2>11. ASSUME NEW r, op' = [op EXCEPT ![a] = r], HandBudget(r)' PROVE BInv'
    BY <1>a, <2>4, <2>6, <2>8, <2>9, <2>10, <2>11, Counted
  <2>12. CASE Finish(a)
    <3>1. HandBudget(Idle)'
      BY DEF HandBudget, Idle, InTransition
    <3> QED BY <2>11, <2>12, <3>1 DEF Finish
  <2>13. CASE x.cont = "retry" /\ op' = [op EXCEPT ![a] = [x EXCEPT !.pc = "retry", !.dest = NoPath]]
    <3>r. PICK r : r = [x EXCEPT !.pc = "retry", !.dest = NoPath]
      OBVIOUS
    <3>1. r.pc = "retry" /\ r.path = path
      BY <3>r, <1>a DEF Op
    <3>2. disk[path].attempt < MaxAttempts
      BY <1>0, <1>a, <2>13 DEF HandBudget
    <3>3. \A p \in Path : p.job = j /\ disk'[p] # NoFile => disk'[p].attempt < MaxAttempts
      BY <2>3, <2>5, <3>2
    <3>4. HandBudget(r)'
      BY <3>1, <3>3 DEF HandBudget, InTransition
    <3> QED BY <2>11, <2>13, <3>r, <3>4
  <2> QED BY <1>a, <1>4, <2>12, <2>13 DEF Move
<1> QED
  BY <1>1, <1>2, <1>3, <1>4 DEF TransitionStep


LEMMA WorkerBudget ==
  ASSUME BInv, IInv', Undisturbed, NEW w \in Workers, WorkerStep(w)
  PROVE  BInv'
<1> DEFINE x == op[w]
           path == x.path
           j == path.job
<1>0. /\ w \in Actors /\ x \in Op /\ LocalTyped(x) /\ WorkerLocal(x) /\ BeatInHand(w) /\ HandBudget(x)
      /\ \A v \in Workers : beat'[v] = beat[v] => beat'[v] \in {beat[v], NoBeat}
  BY Actor DEF Actors, BInv
<1>a. ASSUME NEW r, op' = [op EXCEPT ![w] = r], HandBudget(r), disk' = disk, beat' = beat,
             runs' = runs, grants' = grants, admitted' = admitted
      PROVE  BInv'
  BY <1>0, <1>a, Onward DEF CountsKept
<1>b. ASSUME Finish(w), disk' = disk, beat' = beat, runs' = runs, grants' = grants, admitted' = admitted
      PROVE  BInv'
  BY <1>0, <1>b, EndBudget DEF CountsKept
<1>1. CASE ClaimPick(w)
  <2>1. PICK p \in Path : op' = [op EXCEPT ![w] = [Idle EXCEPT !.pc = "claim", !.path = p]]
    BY <1>1 DEF ClaimPick
  <2>r. PICK r : r = [Idle EXCEPT !.pc = "claim", !.path = p]
    OBVIOUS
  <2>2. r.pc = "claim"
    BY <2>r DEF Idle
  <2>3. HandBudget(r)
    BY <2>2 DEF HandBudget, InTransition
  <2> QED BY <1>1, <1>a, <2>1, <2>r, <2>3 DEF ClaimPick
<1>2. CASE ClaimRename(w)
  <2> DEFINE target == [path EXCEPT !.dir = "running"]
  <2>0. /\ path \in Path /\ path.dir = "pending" /\ beat[w] = NoBeat /\ j \in Jobs
        /\ beat' = beat /\ runs' = runs /\ grants' = grants /\ admitted' = admitted
    BY <1>0, <1>2 DEF ClaimRename, LocalTyped, WorkerLocal, BeatInHand, Path
  <2>1. CASE disk' = disk /\ Finish(w)
    BY <1>b, <2>0, <2>1
  <2>2. ASSUME NEW old \in BOOLEAN, disk[path] # NoFile,
               disk' = [Rename(path, target) EXCEPT ![target].stale = old],
               op' = [op EXCEPT ![w] = [@ EXCEPT !.pc = "claim_read", !.path = target]]
        PROVE  BInv'
    <3>1. target \in Path /\ target # path /\ target.job = j /\ target.dir = "running"
      BY <2>0 DEF Path, Dirs
    <3>2. /\ disk'[path] = NoFile
          /\ disk'[target] = [disk[path] EXCEPT !.stale = old]
          /\ \A p \in Path : p # path /\ p # target => disk'[p] = disk[p]
      BY <2>0, <2>2, <3>1, Typed DEF Rename, BInv, IInv, DiskTyped
    <3>3. disk'[target].attempt = disk[path].attempt
      <4>1. disk[path] \in Payload
        BY <2>0, <2>2, Typed DEF BInv, IInv, DiskTyped
      <4> QED BY <3>2, <4>1 DEF Payload
    <3>r. PICK r : r = [x EXCEPT !.pc = "claim_read", !.path = target]
      OBVIOUS
    <3>4. op' = [op EXCEPT ![w] = r] /\ r.pc = "claim_read" /\ r.path = target
      BY <1>0, <2>2, <3>r DEF Op
    <3>5. FileBudget(path)
      BY <2>0 DEF BInv
    <3>6. HandBudget(r)'
      BY <2>0, <2>2, <3>1, <3>3, <3>4, <3>5 DEF HandBudget, FileBudget, InTransition
    <3>7. ASSUME NEW p \in Path, p.job = j PROVE FileBudget(p)'
      <4>1. CASE p = target
        BY <2>0, <2>2, <3>1, <3>3, <3>5, <4>1 DEF FileBudget
      <4>2. CASE p # target
        <5>1. p # path => disk[p] = NoFile
          BY <2>0, <2>2, <3>7 DEF BInv, IInv, OneFilePerJob
        <5>2. disk'[p] = NoFile
          BY <3>2, <4>2, <5>1
        <5> QED BY <5>2 DEF FileBudget
      <4> QED BY <4>1, <4>2
    <3>8. Alone(w, j)
      BY <2>0, <2>2, Unowned DEF Alone, BInv
    <3>9. Touches(j) /\ OthersBeat(w) /\ BeatBudget(w)'
      BY <2>0, <3>1, <3>2 DEF Touches, OthersBeat, BeatBudget
    <3>10. /\ runs' \in [Jobs -> Nat] /\ grants' \in [Jobs -> Nat]
           /\ j \in admitted /\ runs'[j] <= MaxAttempts + grants'[j]
      BY <2>0, <2>2, Typed DEF BInv, IInv, CountsTyped, FilesAdmitted, RunsWithinBudget
    <3> QED BY <1>0, <2>0, <3>4, <3>6, <3>7, <3>8, <3>9, <3>10, Counted
  <2> QED BY <1>2, <2>1, <2>2 DEF ClaimRename
<1>3. CASE ClaimRead(w)
  <2>0. x.pc = "claim_read" /\ Owns(x) /\ x.pc # "retry"
    BY <1>3 DEF ClaimRead, Owns
  <2>r. PICK r : r = [x EXCEPT !.pc = "claim_write", !.mem = ReadPayload(path)]
    OBVIOUS
  <2>1. r.pc = "claim_write" /\ r.path = path /\ r.mem = disk[path]
    BY <1>0, <2>0, <2>r, InHandKnown DEF Op
  <2>2. HandBudget(r)
    BY <1>0, <2>0, <2>1 DEF HandBudget, InTransition
  <2> QED BY <1>3, <1>a, <2>r, <2>2 DEF ClaimRead
<1>4. CASE ClaimWrite(w)
  <2> DEFINE n == x.mem.attempt + 1
             payload == [x.mem EXCEPT !.attempt = n, !.lease = leases + 1, !.deferred = FALSE]
  <2>0. /\ x.pc = "claim_write" /\ Owns(x) /\ x.pc # "retry" /\ x.mem \in Payload
        /\ beat' = beat /\ runs' = runs /\ grants' = grants /\ admitted' = admitted
        /\ leases + 1 \in 0 .. MaxLeases /\ beat[w] = NoBeat /\ path.dir = "running"
        /\ Write(path, payload)
    BY <1>0, <1>4, Typed, QueueAssumption
       DEF ClaimWrite, Owns, LocalTyped, BInv, IInv, CountsTyped, BeatInHand, WorkerLocal
  <2>a. /\ path \in Path /\ j \in Jobs /\ j \in admitted /\ Alone(w, j)
        /\ disk[path] \in Payload /\ disk[path] # NoFile /\ FileBudget(path)
        /\ \A p \in Path : disk[p] # NoFile /\ p.job = j => p = path
        /\ runs[j] \in Nat /\ grants[j] \in Nat
    BY <1>0, <2>0, InHandKnown
  <2>1. n \in Nat /\ disk[path].attempt \in Nat /\ n = disk[path].attempt + 1 /\ n <= MaxAttempts + grants[j]
    BY <1>0, <2>0, <2>a, QueueAssumption DEF HandBudget, Payload
  <2>r. PICK r : r = [x EXCEPT !.pc = "claimed", !.mem = NoFile, !.lease = leases + 1, !.attempt = n]
    OBVIOUS
  <2>2. op' = [op EXCEPT ![w] = r] /\ r.pc = "claimed" /\ r.path = path /\ r.attempt = n
    BY <1>0, <1>4, <2>r DEF ClaimWrite, Op
  <2> HIDE DEF n
  <2>3. payload \in Payload /\ [payload EXCEPT !.stale = FALSE].attempt = n
    BY <2>0, <2>1 DEF Payload
  <2>4. /\ \A q \in Path : q # path => disk'[q] = disk[q]
        /\ disk'[path] # NoFile /\ disk'[path].attempt = n
    BY <2>0, <2>a, <2>3, Written DEF BInv
  <2>5. runs[j] < n
    BY <2>1, <2>a DEF FileBudget
  <2>6. HandBudget(r)'
    BY <2>0, <2>2, <2>4, <2>5 DEF HandBudget, InTransition
  <2>7. ASSUME NEW p \in Path, p = path PROVE FileBudget(p)'
    BY <2>0, <2>1, <2>4, <2>5, <2>7, <2>a DEF FileBudget
  <2>8. ASSUME NEW p \in Path, p.job = j PROVE FileBudget(p)'
    <3>1. CASE p # path
      <4>1. disk'[p] = NoFile
        BY <2>4, <2>8, <2>a, <3>1
      <4> QED BY <4>1 DEF FileBudget
    <3> QED BY <2>7, <2>8, <3>1
  <2>9. Touches(j) /\ OthersBeat(w) /\ BeatBudget(w)'
    BY <2>0, <2>4, <2>a DEF Touches, OthersBeat, BeatBudget
  <2>10. runs' \in [Jobs -> Nat] /\ grants' \in [Jobs -> Nat] /\ runs'[j] <= MaxAttempts + grants'[j]
    BY <2>0, <2>a, Typed DEF BInv, IInv, CountsTyped, RunsWithinBudget
  <2> QED BY <1>0, <2>0, <2>2, <2>6, <2>8, <2>9, <2>10, <2>a, Counted
<1>5. CASE BeginRun(w)
  <2>0. /\ x.pc = "claimed" /\ Owns(x) /\ x.pc # "retry" /\ beat[w] = NoBeat /\ path.dir = "running"
        /\ disk' = disk /\ beat' = beat /\ grants' = grants /\ admitted' = admitted
        /\ runs' = [runs EXCEPT ![j] = @ + 1]
    BY <1>0, <1>5 DEF BeginRun, Owns, BeatInHand, WorkerLocal
  <2>a. /\ path \in Path /\ j \in Jobs /\ j \in admitted /\ Alone(w, j)
        /\ disk[path] \in Payload /\ disk[path] # NoFile /\ FileBudget(path)
        /\ \A p \in Path : disk[p] # NoFile /\ p.job = j => p = path
        /\ runs[j] \in Nat /\ grants[j] \in Nat
    BY <1>0, <2>0, InHandKnown
  <2>1. /\ runs' \in [Jobs -> Nat] /\ grants' \in [Jobs -> Nat] /\ runs'[j] = runs[j] + 1
        /\ \A i \in Jobs : i # j => runs'[i] = runs[i]
    <3>1. runs \in [Jobs -> Nat] /\ grants \in [Jobs -> Nat]
      BY Typed DEF BInv, IInv, CountsTyped
    <3> QED BY <2>0, <2>a, <3>1
  <2>2. runs'[j] <= disk[path].attempt /\ x.attempt = disk[path].attempt /\ disk[path].attempt \in Nat
    BY <1>0, <2>0, <2>1, <2>a DEF HandBudget, Payload
  <2>r. PICK r : r = [x EXCEPT !.pc = "executing"]
    OBVIOUS
  <2>3. op' = [op EXCEPT ![w] = r] /\ r.pc = "executing" /\ r.path = path /\ r.attempt = x.attempt
    BY <1>0, <1>5, <2>r DEF BeginRun, Step, Op
  <2>4. HandBudget(r)'
    BY <2>0, <2>2, <2>3 DEF HandBudget, InTransition
  <2>5. ASSUME NEW p \in Path, p.job = j PROVE FileBudget(p)'
    <3>1. CASE p = path
      BY <2>0, <2>2, <2>a, <3>1 DEF FileBudget
    <3>2. CASE p # path
      <4>1. disk'[p] = NoFile
        BY <2>0, <2>5, <2>a, <3>2
      <4> QED BY <4>1 DEF FileBudget
    <3> QED BY <3>1, <3>2
  <2>6. Touches(j) /\ OthersBeat(w) /\ BeatBudget(w)'
    BY <2>0 DEF Touches, OthersBeat, BeatBudget
  <2>7. runs'[j] <= MaxAttempts + grants'[j]
    BY <2>0, <2>1, <2>2, <2>a, QueueAssumption DEF FileBudget
  <2> QED BY <1>0, <2>0, <2>1, <2>3, <2>4, <2>5, <2>6, <2>7, <2>a, Counted
<1>6. CASE PauseRun(w) \/ SettleRun(w) \/ DeadLetter(w)
  <2>0. x.cont = "idle"
    BY <1>0, <1>6 DEF PauseRun, SettleRun, DeadLetter, Joined, WorkerLocal
  <2>1. PICK d : d # "pending" /\ StartTransition(w, path, d)
    BY <1>6 DEF PauseRun, SettleRun, DeadLetter
  <2>r. PICK r : r = [x EXCEPT !.pc = "read", !.path = path, !.goal = d]
    OBVIOUS
  <2>2. op' = [op EXCEPT ![w] = r] /\ r.pc = "read" /\ r.goal = d /\ r.cont = "idle"
    BY <1>0, <2>0, <2>1, <2>r DEF StartTransition, Op
  <2>3. HandBudget(r)
    BY <2>1, <2>2 DEF HandBudget, InTransition
  <2> QED BY <1>6, <1>a, <2>2, <2>3 DEF PauseRun, SettleRun, DeadLetter
<1>7. CASE AbortOnStub(w)
  BY <1>7, <1>b DEF AbortOnStub
<1>8. CASE HeartbeatRead(w)
  <2>0. /\ x.pc = "executing" /\ op' = op /\ disk' = disk /\ CountsKept
        /\ beat' = [beat EXCEPT ![w] = [path |-> path, mem |-> disk[path]]]
    BY <1>8 DEF HeartbeatRead, CountsKept
  <2>1. AttemptsKept
    BY <2>0, Unmoved
  <2>2. \A a \in Actors : HandBudget(op[a])'
    BY <2>0, <2>1, HandsKept
  <2>3. ASSUME NEW v \in Workers PROVE BeatBudget(v)'
    <3>1. CASE v = w
      <4>1. beat'[v] = [path |-> path, mem |-> disk[path]]
        BY <2>0, <3>1, Typed DEF BInv, IInv, BeatTyped
      <4> QED BY <2>0, <4>1 DEF BeatBudget
    <3>2. CASE v # w
      <4>1. beat'[v] = beat[v]
        BY <2>0, <3>2, Typed DEF BInv, IInv, BeatTyped
      <4> QED BY <2>1, <4>1, BeatsKept
    <3> QED BY <3>1, <3>2
  <2> QED BY <2>0, <2>1, <2>2, <2>3, FilesKept
<1>9. CASE HeartbeatWrite(w)
  <2>0. /\ beat[w] # NoBeat /\ beat[w].mem \in Payload /\ beat[w].path = path
        /\ x.pc = "executing" /\ Owns(x) /\ x.pc # "retry"
        /\ op' = op /\ CountsKept /\ beat' = [beat EXCEPT ![w] = NoBeat] /\ Write(path, beat[w].mem)
    BY <1>0, <1>9, Typed DEF HeartbeatWrite, BeatInHand, Owns, BInv, IInv, BeatTyped, Beat, CountsKept
  <2>1. path \in Path /\ disk[path] # NoFile
    BY <1>0, <2>0, InHandKnown
  <2>2. beat[w].mem.attempt = disk[path].attempt
    BY <2>0 DEF BInv, BeatBudget
  <2>3. AttemptsKept
    BY <2>0, <2>1, <2>2, Recorded
  <2>4. \A a \in Actors : HandBudget(op[a])'
    BY <2>0, <2>3, HandsKept
  <2>5. \A v \in Workers : beat'[v] \in {beat[v], NoBeat}
    BY <2>0, Typed DEF BInv, IInv, BeatTyped
  <2> QED BY <2>0, <2>3, <2>4, <2>5, BeatsKept, FilesKept
<1>10. CASE FailAndRetry(w)
  <2>0. x.pc = "executing" /\ x.attempt < MaxAttempts
    BY <1>10 DEF FailAndRetry, Joined
  <2>1. disk[path].attempt < MaxAttempts
    BY <1>0, <2>0 DEF HandBudget
  <2>r. PICK r : r = [x EXCEPT !.pc = "read", !.goal = "failed", !.cont = "retry"]
    OBVIOUS
  <2>2. op' = [op EXCEPT ![w] = r] /\ r.pc = "read" /\ r.path = path /\ r.goal = "failed"
    BY <1>0, <1>10, <2>r DEF FailAndRetry, Op
  <2>3. HandBudget(r)
    BY <2>1, <2>2 DEF HandBudget, InTransition
  <2> QED BY <1>10, <1>a, <2>2, <2>3 DEF FailAndRetry
<1>11. CASE RetryFind(w)
  <2>0. x.pc = "retry"
    BY <1>11 DEF RetryFind
  <2>1. ASSUME NEW p \in FindJobFiles("failed", j) PROVE HandBudget([x EXCEPT !.pc = "defer_read", !.path = p, !.cont = "idle"])
    <3>1. p \in Path /\ p.job = j /\ disk[p] # NoFile
      BY DEF FindJobFiles
    <3>2. disk[p].attempt < MaxAttempts
      BY <1>0, <2>0, <3>1 DEF HandBudget
    <3>r. PICK r : r = [x EXCEPT !.pc = "defer_read", !.path = p, !.cont = "idle"]
      OBVIOUS
    <3>3. r.pc = "defer_read" /\ r.path = p
      BY <1>0, <3>r DEF Op
    <3>4. HandBudget(r)
      BY <3>2, <3>3 DEF HandBudget, InTransition
    <3> QED BY <3>r, <3>4
  <2> QED BY <1>11, <1>a, <1>b, <2>1 DEF RetryFind
<1>12. CASE RetryRead(w)
  <2>0. x.pc = "defer_read" /\ Owns(x) /\ x.pc # "retry"
    BY <1>12 DEF RetryRead, Owns
  <2>r. PICK r : r = [x EXCEPT !.pc = "defer_write", !.mem = ReadPayload(path)]
    OBVIOUS
  <2>1. r.pc = "defer_write" /\ r.path = path /\ r.mem = disk[path]
    BY <1>0, <2>0, <2>r, InHandKnown DEF Op
  <2>2. HandBudget(r)
    BY <1>0, <2>0, <2>1 DEF HandBudget, InTransition
  <2> QED BY <1>12, <1>a, <2>r, <2>2 DEF RetryRead
<1>13. CASE RetryWrite(w)
  <2>0. /\ x.pc = "defer_write" /\ Owns(x) /\ x.pc # "retry" /\ x.mem \in Payload /\ x.cont = "idle"
        /\ beat' = beat /\ CountsKept /\ Write(path, [x.mem EXCEPT !.deferred = TRUE])
    BY <1>0, <1>13 DEF RetryWrite, Owns, LocalTyped, WorkerLocal, CountsKept
  <2>1. path \in Path /\ disk[path] # NoFile /\ disk[path] \in Payload /\ grants[j] \in Nat
    BY <1>0, <2>0, InHandKnown
  <2>2. [x.mem EXCEPT !.deferred = TRUE] \in Payload
        /\ [x.mem EXCEPT !.deferred = TRUE].attempt = disk[path].attempt
    BY <1>0, <2>0 DEF HandBudget, Payload
  <2>3. AttemptsKept
    BY <2>0, <2>1, <2>2, Recorded
  <2>r. PICK r : r = [x EXCEPT !.pc = "read", !.mem = NoFile, !.goal = "pending"]
    OBVIOUS
  <2>4. op' = [op EXCEPT ![w] = r] /\ r.pc = "read" /\ r.path = path /\ r.cont = "idle"
    BY <1>0, <1>13, <2>0, <2>r DEF RetryWrite, Op
  <2>5. disk'[path].attempt < MaxAttempts /\ disk[path].attempt \in Nat /\ disk'[path].attempt = disk[path].attempt
    BY <1>0, <2>0, <2>1, <2>3 DEF HandBudget, AttemptsKept, Payload
  <2>6. HandBudget(r)'
    <3>1. disk'[path].attempt < MaxAttempts + grants'[j]
      BY <2>0, <2>1, <2>5, QueueAssumption DEF CountsKept
    <3> QED BY <2>4, <3>1 DEF HandBudget, InTransition
  <2> QED BY <1>0, <2>0, <2>3, <2>4, <2>6, Uncounted
<1> QED
  BY <1>1, <1>2, <1>3, <1>4, <1>5, <1>6, <1>7, <1>8, <1>9, <1>10, <1>11, <1>12, <1>13 DEF WorkerStep

LEMMA OperatorBudget ==
  ASSUME BInv, IInv', Undisturbed, NEW a \in Operators, OperatorStep(a)
  PROVE  BInv'
<1> DEFINE x == op[a]
           path == x.path
<1>0. a \in Actors /\ a \notin Workers /\ x \in Op /\ LocalTyped(x) /\ OperatorLocal(x) /\ HandBudget(x)
  BY Actor, QueueAssumption DEF Actors, BInv
<1>a. ASSUME NEW r, op' = [op EXCEPT ![a] = r], HandBudget(r), disk' = disk, beat' = beat,
             runs' = runs, grants' = grants, admitted' = admitted
      PROVE  BInv'
  BY <1>0, <1>a, Onward DEF CountsKept
<1>b. ASSUME Finish(a), disk' = disk, beat' = beat, runs' = runs, grants' = grants, admitted' = admitted
      PROVE  BInv'
  BY <1>0, <1>b, EndBudget DEF CountsKept
<1>1. CASE EnqueueStart(a)
  <2>1. PICK j, d : op' = [op EXCEPT ![a] = [Idle EXCEPT !.pc = "enqueue", !.goal = d,
                                               !.path = JobPath(d, j), !.todo = STATE_ORDER]]
    BY <1>1 DEF EnqueueStart
  <2>r. PICK r : r = [Idle EXCEPT !.pc = "enqueue", !.goal = d, !.path = JobPath(d, j), !.todo = STATE_ORDER]
    OBVIOUS
  <2>2. r.pc = "enqueue"
    BY <2>r DEF Idle
  <2>3. HandBudget(r)
    BY <2>2 DEF HandBudget, InTransition
  <2> QED BY <1>1, <1>a, <2>1, <2>r, <2>3 DEF EnqueueStart
<1>2. CASE EnqueueScan(a)
  <2>0. disk' = disk /\ beat' = beat /\ runs' = runs /\ grants' = grants /\ admitted' = admitted
    BY <1>2 DEF EnqueueScan
  <2>1. CASE Finish(a)
    BY <1>b, <2>0, <2>1
  <2>2. CASE Step(a, "put")
    <3>r. PICK r : r = [x EXCEPT !.pc = "put"]
      OBVIOUS
    <3>1. op' = [op EXCEPT ![a] = r] /\ r.pc = "put"
      BY <1>0, <2>2, <3>r DEF Step, Op
    <3>2. HandBudget(r)
      BY <3>1 DEF HandBudget, InTransition
    <3> QED BY <1>a, <2>0, <3>1, <3>2
  <2>3. CASE op' = [op EXCEPT ![a].todo = Tail(@)]
    <3>r. PICK r : r = [x EXCEPT !.todo = Tail(@)]
      OBVIOUS
    <3>1. op' = [op EXCEPT ![a] = r] /\ r.pc = "enqueue"
      BY <1>0, <1>2, <2>3, <3>r DEF EnqueueScan, Op
    <3>2. HandBudget(r)
      BY <3>1 DEF HandBudget, InTransition
    <3> QED BY <1>a, <2>0, <3>1, <3>2
  <2> QED BY <1>2, <2>1, <2>2, <2>3 DEF EnqueueScan
<1>3. CASE EnqueuePut(a)
  <2>0. /\ path \in Path /\ path.job \in Jobs /\ path.job \notin admitted
        /\ beat' = beat /\ runs' = runs /\ grants' = grants /\ admitted' = admitted \cup {path.job}
        /\ Finish(a) /\ Write(path, [Stub EXCEPT !.runnable = TRUE])
    BY <1>0, <1>3 DEF EnqueuePut, OperatorLocal, LocalTyped, Path
  <2> DEFINE j == path.job
  <2>1. \A p \in Path : p.job = j => disk[p] = NoFile
    BY <2>0 DEF BInv, IInv, FilesAdmitted
  <2>2. [Stub EXCEPT !.runnable = TRUE] \in Payload /\ [Stub EXCEPT !.runnable = TRUE].attempt = 0
    BY IdleTyped DEF Payload, Stub
  <2>3. /\ \A p \in Path : p # path => disk'[p] = disk[p]
        /\ disk'[path] = [[Stub EXCEPT !.runnable = TRUE] EXCEPT !.stale = FALSE]
    BY <2>0, <2>2, Written DEF BInv
  <2>4. disk'[path].attempt = 0
    BY <2>2, <2>3 DEF Stub
  <2>5. runs[j] = 0 /\ runs \in [Jobs -> Nat] /\ grants \in [Jobs -> Nat] /\ grants[j] \in Nat
    BY <2>0, Typed DEF BInv, IInv, CountsTyped
  <2>6. ASSUME NEW p \in Path, p.job = j PROVE FileBudget(p)'
    <3>1. CASE p = path
      BY <2>0, <2>4, <2>5, <3>1, QueueAssumption DEF FileBudget
    <3>2. CASE p # path
      <4>1. disk'[p] = NoFile
        BY <2>1, <2>3, <2>6, <3>2
      <4> QED BY <4>1 DEF FileBudget
    <3> QED BY <3>1, <3>2
  <2>7. Touches(j) /\ OthersBeat(a)
    BY <2>0, <2>3 DEF Touches, OthersBeat
  <2>8. Alone(a, j)
    BY <2>1, Whereabouts DEF Alone, BInv
  <2>9. HandBudget(Idle)'
    BY DEF HandBudget, Idle, InTransition
  <2>10. runs'[j] <= MaxAttempts + grants'[j] /\ op' = [op EXCEPT ![a] = Idle]
         /\ \A i \in Jobs : i \notin admitted' => i \notin admitted /\ i # j
    BY <2>0, <2>5, QueueAssumption DEF Finish
  <2> QED BY <1>0, <2>0, <2>5, <2>6, <2>7, <2>8, <2>9, <2>10, Counted
<1>4. CASE Approve(a)
  <2>1. PICK j \in Jobs, p \in Path :
          /\ p.dir = "awaiting_approval" /\ p.job = j /\ disk[p] # NoFile
          /\ StartTransition(a, p, "pending") /\ grants' = [grants EXCEPT ![j] = @ + 1]
    BY <1>4 DEF Approve, FindJobFiles
  <2>2. x.pc = "idle" /\ disk' = disk /\ beat' = beat /\ runs' = runs /\ admitted' = admitted
    BY <1>4 DEF Approve, Command
  <2>3. Alone(a, j) /\ Touches(j) /\ OthersBeat(a)
    BY <2>1, <2>2, OperatorItem DEF BInv, Touches, OthersBeat
  <2>4. /\ runs \in [Jobs -> Nat] /\ grants \in [Jobs -> Nat] /\ disk[p] \in Payload
        /\ j \in admitted /\ runs[j] <= MaxAttempts + grants[j]
    BY <2>1, Typed DEF BInv, IInv, CountsTyped, DiskTyped, FilesAdmitted, RunsWithinBudget
  <2>5. /\ grants' \in [Jobs -> Nat] /\ grants'[j] = grants[j] + 1 /\ runs[j] \in Nat /\ grants[j] \in Nat
        /\ \A i \in Jobs : i # j => grants'[i] = grants[i]
    BY <2>1, <2>4
  <2>6. /\ disk[p].attempt \in Nat /\ runs[j] <= disk[p].attempt
        /\ disk[p].attempt < MaxAttempts + grants'[j]
    BY <2>1, <2>4, <2>5, QueueAssumption DEF BInv, FileBudget, Payload
  <2>r. PICK r : r = [x EXCEPT !.pc = "read", !.path = p, !.goal = "pending"]
    OBVIOUS
  <2>7. op' = [op EXCEPT ![a] = r] /\ r.pc = "read" /\ r.path = p /\ r.cont = "idle"
    BY <1>0, <2>1, <2>r DEF StartTransition, Op, OperatorLocal
  <2>8. HandBudget(r)'
    BY <2>1, <2>2, <2>6, <2>7 DEF HandBudget, InTransition
  <2>9. ASSUME NEW q \in Path, q.job = j PROVE FileBudget(q)'
    <3>1. CASE q = p
      BY <2>1, <2>2, <2>4, <2>5, <2>6, <3>1, QueueAssumption DEF FileBudget
    <3>2. CASE q # p
      <4>1. disk'[q] = NoFile
        BY <2>1, <2>2, <2>9, <3>2 DEF BInv, IInv, OneFilePerJob
      <4> QED BY <4>1 DEF FileBudget
    <3> QED BY <3>1, <3>2
  <2>10. runs'[j] <= MaxAttempts + grants'[j]
    BY <2>2, <2>4, <2>5, QueueAssumption
  <2> QED BY <1>0, <2>2, <2>3, <2>4, <2>5, <2>7, <2>8, <2>9, <2>10, Counted
<1>5. CASE Reject(a)
  <2>1. PICK p : StartTransition(a, p, "failed")
    BY <1>5 DEF Reject
  <2>r. PICK r : r = [x EXCEPT !.pc = "read", !.path = p, !.goal = "failed"]
    OBVIOUS
  <2>2. op' = [op EXCEPT ![a] = r] /\ r.pc = "read" /\ r.goal = "failed" /\ r.cont = "idle"
    BY <1>0, <2>1, <2>r DEF StartTransition, Op, OperatorLocal
  <2>3. HandBudget(r)
    BY <2>2 DEF HandBudget, InTransition
  <2> QED BY <1>5, <1>a, <2>2, <2>3 DEF Reject
<1>6. CASE Unlock(a) \/ SearchStart(a)
  BY <1>6 DEF Unlock, SearchStart, Undisturbed
<1>7. CASE SearchScan(a) \/ DropUnlink(a)
  BY <1>0, <1>7 DEF SearchScan, DropUnlink, OperatorLocal
<1> QED
  BY <1>1, <1>2, <1>3, <1>4, <1>5, <1>6, <1>7 DEF OperatorStep

LEMMA ReclaimBudget ==
  ASSUME BInv, IInv', Undisturbed, NEW a \in Actors, Reclaim(a)
  PROVE  BInv'
<1>0. a \in Workers /\ op[a].pc = "idle" /\ op[a] \in Op /\ WorkerLocal(op[a])
  BY Actor, QueueAssumption DEF Reclaim, Undisturbed, BInv
<1>1. PICK p, d :
        /\ p \in Path
        /\ disk[p] # NoFile /\ StartTransition(a, p, d)
        /\ d = "pending" => ~(disk[p].attempt >= MaxAttempts)
  BY DEF Reclaim
<1>2. disk[p] \in Payload /\ grants[p.job] \in Nat
  BY <1>1, Typed DEF BInv, IInv, DiskTyped, CountsTyped, Path
<1>r. PICK r : r = [op[a] EXCEPT !.pc = "read", !.path = p, !.goal = d]
  OBVIOUS
<1>3. op' = [op EXCEPT ![a] = r] /\ r.pc = "read" /\ r.path = p /\ r.goal = d /\ r.cont = "idle"
  BY <1>0, <1>1, <1>r DEF StartTransition, Op, WorkerLocal
<1>4. d = "pending" => disk[p].attempt < MaxAttempts + grants[p.job]
  BY <1>1, <1>2, QueueAssumption DEF Payload
<1>5. HandBudget(r)
  BY <1>3, <1>4 DEF HandBudget, InTransition
<1> QED
  BY <1>3, <1>5, Onward DEF Reclaim, CountsKept

LEMMA TimeBudget ==
  ASSUME BInv, IInv', NEW p \in Path, GrowsStale(p) \/ BackoffElapses(p)
  PROVE  BInv'
<1>1. disk[p] # NoFile /\ disk[p] \in Payload
  BY Typed DEF GrowsStale, BackoffElapses, BInv, IInv, DiskTyped
<1>2. PICK x \in Payload : disk' = [disk EXCEPT ![p] = x] /\ x.attempt = disk[p].attempt
  <2>1. [disk[p] EXCEPT !.stale = TRUE] \in Payload
        /\ [disk[p] EXCEPT !.stale = TRUE].attempt = disk[p].attempt
    BY <1>1 DEF Payload
  <2>2. [disk[p] EXCEPT !.deferred = FALSE] \in Payload
        /\ [disk[p] EXCEPT !.deferred = FALSE].attempt = disk[p].attempt
    BY <1>1 DEF Payload
  <2>3. GrowsStale(p) => disk' = [disk EXCEPT ![p] = [disk[p] EXCEPT !.stale = TRUE]]
    BY DEF GrowsStale
  <2>4. BackoffElapses(p) => disk' = [disk EXCEPT ![p] = [disk[p] EXCEPT !.deferred = FALSE]]
    BY DEF BackoffElapses
  <2> QED BY <2>1, <2>2, <2>3, <2>4
<1>3. AttemptsKept
  BY <1>1, <1>2, Typed, SentinelAssumption DEF BInv, IInv, DiskTyped, AttemptsKept
<1>4. op' = op /\ beat' = beat /\ CountsKept
  BY DEF GrowsStale, BackoffElapses, CountsKept
<1> QED
  BY <1>3, <1>4, HandsKept, BeatsKept, FilesKept

LEMMA BudgetInductive ==
  ASSUME Undisturbed, BInv, [Next]_vars
  PROVE  BInv'
<1>1. IInv'
  BY Inductive DEF BInv
<1>2. ASSUME NEW a \in Actors, Crash(a) PROVE BInv'
  BY <1>1, <1>2, EndBudget DEF Crash, CountsKept
<1>3. CASE UNCHANGED vars
  <2>1. disk' = disk /\ op' = op /\ beat' = beat /\ CountsKept
    BY <1>3 DEF vars, CountsKept
  <2> QED BY <1>1, <2>1, Unmoved, HandsKept, BeatsKept, FilesKept
<1> QED
  BY <1>1, <1>2, <1>3, TransitionBudget, WorkerBudget, OperatorBudget, ReclaimBudget, TimeBudget DEF Next

\* Undisturbed, a job is executed no more often than max_attempts, and once more for
\* every approval: the attempt a claim writes is on disk before the execution it
\* counts begins, and no crash, retry or reclaim takes it back.
THEOREM Budget == ASSUME Undisturbed PROVE Spec => []RunsWithinBudget
<1>1. Init => BInv
  BY InitBudget
<1>2. BInv /\ [Next]_vars => BInv'
  BY BudgetInductive
<1>3. BInv => RunsWithinBudget
  BY DEF BInv
<1> QED
  BY <1>1, <1>2, <1>3, PTL DEF Spec

------------------------------------------------------------------------------
(* The lifecycle.                                                            *)

\* Where an operation leads: an item that failed goes back to pending only, one that
\* awaits approval to pending or failed, and a new one begins in either of two places.
Aim(r) ==
  /\ InTransition(r) /\ r.path.dir = "failed" => r.goal = "pending"
  /\ InTransition(r) /\ r.path.dir = "awaiting_approval" => r.goal \in {"pending", "failed"}
  /\ r.pc \in {"enqueue", "put"} => r.path.dir \in {"pending", "awaiting_approval"}

AInv == IInv /\ \A a \in Actors : Aim(op[a])

LEMMA AimAt ==
  ASSUME AInv, IInv', NEW a \in Actors, NEW r, op' = [op EXCEPT ![a] = r], Aim(r)
  PROVE  AInv'
<1>1. op'[a] = r /\ \A b \in Actors : b # a => op'[b] = op[b]
  BY DEF AInv, IInv, TInv, TypeOK
<1> QED
  BY <1>1 DEF AInv, Aim

LEMMA AimEnd == ASSUME AInv, IInv', NEW a \in Actors, Finish(a) PROVE AInv'
<1>1. Aim(Idle)
  BY DEF Aim, Idle, InTransition
<1> QED
  BY <1>1, AimAt DEF Finish

LEMMA AimFrom ==
  ASSUME AInv, IInv', NEW a \in Actors, NEW p, NEW d, StartTransition(a, p, d),
         \/ p.dir = "running"
         \/ p.dir = "awaiting_approval" /\ d \in {"pending", "failed"}
  PROVE  AInv'
<1>r. PICK r : r = [op[a] EXCEPT !.pc = "read", !.path = p, !.goal = d]
  OBVIOUS
<1>1. op' = [op EXCEPT ![a] = r] /\ r.pc = "read" /\ r.path = p /\ r.goal = d
  BY <1>r, Actor DEF StartTransition, Op, AInv
<1>2. Aim(r)
  BY <1>1 DEF Aim, InTransition
<1> QED
  BY <1>1, <1>2, AimAt

LEMMA AimStep ==
  ASSUME AInv, IInv', Undisturbed, [Next]_vars
  PROVE  AInv'
<1>0. \A a \in Actors : op[a] \in Op /\ Aim(op[a])
  BY Actor DEF AInv
<1>1. CASE op' = op
  BY <1>1 DEF AInv, Aim
<1>2. ASSUME NEW a \in Actors, TransitionStep(a) PROVE AInv'
  <2> DEFINE x == op[a]
  <2>1. ASSUME NEW r, op' = [op EXCEPT ![a] = r], r.path = x.path, r.goal = x.goal,
               r.pc \in {"write", "pick", "move"}
        PROVE  AInv'
    <3>1. InTransition(x)
      BY <1>2 DEF TransitionStep, TransitionRead, TransitionWrite, PickTarget, Move, InTransition
    <3>2. Aim(r)
      BY <1>0, <2>1, <3>1 DEF Aim, InTransition
    <3> QED BY <2>1, <3>2, AimAt
  <2>2. CASE TransitionRead(a)
    <3>r. PICK r : r = [x EXCEPT !.pc = "write", !.mem = ReadPayload(x.path)]
      OBVIOUS
    <3>1. op' = [op EXCEPT ![a] = r] /\ r.path = x.path /\ r.goal = x.goal /\ r.pc = "write"
      BY <1>0, <2>2, <3>r DEF TransitionRead, Op
    <3> QED BY <2>1, <3>1
  <2>3. CASE TransitionWrite(a)
    <3>r. PICK r : r = [x EXCEPT !.pc = "pick", !.mem = NoFile]
      OBVIOUS
    <3>1. op' = [op EXCEPT ![a] = r] /\ r.path = x.path /\ r.goal = x.goal /\ r.pc = "pick"
      BY <1>0, <2>3, <3>r DEF TransitionWrite, Op
    <3> QED BY <2>1, <3>1
  <2>4. CASE PickTarget(a)
    <3>0. PICK t : op' = [op EXCEPT ![a] = [x EXCEPT !.pc = "move", !.dest = t]]
      BY <2>4 DEF PickTarget
    <3>r. PICK r : r = [x EXCEPT !.pc = "move", !.dest = t]
      OBVIOUS
    <3>1. op' = [op EXCEPT ![a] = r] /\ r.path = x.path /\ r.goal = x.goal /\ r.pc = "move"
      BY <1>0, <3>0, <3>r DEF Op
    <3> QED BY <2>1, <3>1
  <2>5. CASE Move(a)
    <3>1. CASE Finish(a)
      BY <3>1, AimEnd
    <3>2. CASE op' = [op EXCEPT ![a] = [x EXCEPT !.pc = "retry", !.dest = NoPath]]
      <4>r. PICK r : r = [x EXCEPT !.pc = "retry", !.dest = NoPath]
        OBVIOUS
      <4>1. op' = [op EXCEPT ![a] = r] /\ r.pc = "retry"
        BY <1>0, <3>2, <4>r DEF Op
      <4>2. Aim(r)
        BY <4>1 DEF Aim, InTransition
      <4> QED BY <4>1, <4>2, AimAt
    <3> QED BY <2>5, <3>1, <3>2 DEF Move
  <2> QED BY <1>2, <2>2, <2>3, <2>4, <2>5 DEF TransitionStep
<1>3. ASSUME NEW w \in Workers, WorkerStep(w) PROVE AInv'
  <2> DEFINE x == op[w]
  <2>0. w \in Actors /\ x \in Op /\ WorkerLocal(x)
    BY Actor DEF Actors, AInv
  <2>1. ASSUME NEW r, op' = [op EXCEPT ![w] = r],
               r.pc \in {"claim", "claim_read", "claim_write", "claimed", "executing", "defer_read", "defer_write"}
        PROVE  AInv'
    <3>1. Aim(r)
      BY <2>1 DEF Aim, InTransition
    <3> QED BY <2>0, <2>1, <3>1, AimAt
  <2>2. CASE Finish(w)
    BY <2>0, <2>2, AimEnd
  <2>3. CASE ClaimPick(w)
    <3>1. PICK p : op' = [op EXCEPT ![w] = [Idle EXCEPT !.pc = "claim", !.path = p]]
      BY <2>3 DEF ClaimPick
    <3>2. [Idle EXCEPT !.pc = "claim", !.path = p].pc = "claim"
      BY DEF Idle
    <3> QED BY <2>1, <3>1, <3>2
  <2>4. CASE ClaimRename(w)
    <3>r. PICK r : r = [x EXCEPT !.pc = "claim_read", !.path = [x.path EXCEPT !.dir = "running"]]
      OBVIOUS
    <3>1. r.pc = "claim_read"
      BY <2>0, <3>r DEF Op
    <3> QED BY <2>1, <2>2, <2>4, <3>r, <3>1 DEF ClaimRename
  <2>5. CASE ClaimRead(w) \/ RetryRead(w)
    <3>1. PICK c \in {"claim_write", "defer_write"} :
            op' = [op EXCEPT ![w] = [x EXCEPT !.pc = c, !.mem = ReadPayload(x.path)]]
      BY <2>5 DEF ClaimRead, RetryRead
    <3>2. [x EXCEPT !.pc = c, !.mem = ReadPayload(x.path)].pc = c
      BY <2>0 DEF Op
    <3> QED BY <2>1, <3>1, <3>2
  <2>6. CASE ClaimWrite(w)
    <3>r. PICK r : r = [x EXCEPT !.pc = "claimed", !.mem = NoFile, !.lease = leases + 1,
                                 !.attempt = x.mem.attempt + 1]
      OBVIOUS
    <3>1. r.pc = "claimed"
      BY <2>0, <3>r DEF Op
    <3> QED BY <2>1, <2>6, <3>r, <3>1 DEF ClaimWrite
  <2>7. CASE BeginRun(w)
    <3>r. PICK r : r = [x EXCEPT !.pc = "executing"]
      OBVIOUS
    <3>1. r.pc = "executing"
      BY <2>0, <3>r DEF Op
    <3> QED BY <2>1, <2>7, <3>r, <3>1 DEF BeginRun, Step
  <2>8. CASE PauseRun(w) \/ SettleRun(w) \/ DeadLetter(w)
    <3>1. x.path.dir = "running"
      BY <2>0, <2>8 DEF PauseRun, SettleRun, DeadLetter, Joined, WorkerLocal
    <3>2. PICK d : StartTransition(w, x.path, d)
      BY <2>8 DEF PauseRun, SettleRun, DeadLetter
    <3> QED BY <2>0, <3>1, <3>2, AimFrom
  <2>9. CASE AbortOnStub(w)
    BY <2>2, <2>9 DEF AbortOnStub
  <2>10. CASE HeartbeatRead(w) \/ HeartbeatWrite(w)
    BY <1>1, <2>10 DEF HeartbeatRead, HeartbeatWrite
  <2>11. CASE FailAndRetry(w)
    <3>r. PICK r : r = [x EXCEPT !.pc = "read", !.goal = "failed", !.cont = "retry"]
      OBVIOUS
    <3>1. r.pc = "read" /\ r.path = x.path /\ op' = [op EXCEPT ![w] = r]
      BY <2>0, <2>11, <3>r DEF FailAndRetry, Op
    <3>2. x.path.dir = "running"
      BY <2>0, <2>11 DEF FailAndRetry, Joined, WorkerLocal
    <3>3. Aim(r)
      BY <3>1, <3>2 DEF Aim, InTransition
    <3> QED BY <2>0, <3>1, <3>3, AimAt
  <2>12. CASE RetryFind(w)
    <3>1. ASSUME NEW p, op' = [op EXCEPT ![w] = [x EXCEPT !.pc = "defer_read", !.path = p, !.cont = "idle"]]
          PROVE  AInv'
      <4>1. [x EXCEPT !.pc = "defer_read", !.path = p, !.cont = "idle"].pc = "defer_read"
        BY <2>0 DEF Op
      <4> QED BY <2>1, <3>1, <4>1
    <3> QED BY <2>2, <2>12, <3>1 DEF RetryFind
  <2>13. CASE RetryWrite(w)
    <3>r. PICK r : r = [x EXCEPT !.pc = "read", !.mem = NoFile, !.goal = "pending"]
      OBVIOUS
    <3>1. r.pc = "read" /\ r.path = x.path /\ r.goal = "pending" /\ op' = [op EXCEPT ![w] = r]
      BY <2>0, <2>13, <3>r DEF RetryWrite, Op
    <3>2. Aim(r)
      BY <3>1 DEF Aim, InTransition
    <3> QED BY <2>0, <3>1, <3>2, AimAt
  <2> QED BY <1>3, <2>3, <2>4, <2>5, <2>6, <2>7, <2>8, <2>9, <2>10, <2>11, <2>12, <2>13 DEF WorkerStep
<1>4. ASSUME NEW a \in Operators, OperatorStep(a) PROVE AInv'
  <2> DEFINE x == op[a]
  <2>0. a \in Actors /\ x \in Op /\ OperatorLocal(x) /\ Aim(x)
    BY Actor DEF Actors, AInv
  <2>1. ASSUME NEW r, op' = [op EXCEPT ![a] = r], r.pc \in {"enqueue", "put"},
               r.path.dir \in {"pending", "awaiting_approval"}
        PROVE  AInv'
    <3>1. Aim(r)
      BY <2>1 DEF Aim, InTransition
    <3> QED BY <2>0, <2>1, <3>1, AimAt
  <2>2. CASE Finish(a)
    BY <2>0, <2>2, AimEnd
  <2>3. CASE EnqueueStart(a)
    <3>1. PICK j \in Jobs, d \in {"pending", "awaiting_approval"} :
            op' = [op EXCEPT ![a] = [Idle EXCEPT !.pc = "enqueue", !.goal = d,
                                       !.path = JobPath(d, j), !.todo = STATE_ORDER]]
      BY <2>3 DEF EnqueueStart
    <3>r. PICK r : r = [Idle EXCEPT !.pc = "enqueue", !.goal = d, !.path = JobPath(d, j), !.todo = STATE_ORDER]
      OBVIOUS
    <3>2. r.pc = "enqueue" /\ r.path.dir = d
      BY <3>r DEF Idle, JobPath
    <3> QED BY <2>1, <3>1, <3>r, <3>2
  <2>4. CASE EnqueueScan(a)
    <3>0. x.pc = "enqueue" /\ x.path.dir \in {"pending", "awaiting_approval"}
      BY <2>0, <2>4 DEF EnqueueScan, Aim
    <3>1. CASE Step(a, "put")
      <4>r. PICK r : r = [x EXCEPT !.pc = "put"]
        OBVIOUS
      <4>1. r.pc = "put" /\ r.path = x.path /\ op' = [op EXCEPT ![a] = r]
        BY <2>0, <3>1, <4>r DEF Op, Step
      <4> QED BY <2>1, <3>0, <4>1
    <3>2. CASE op' = [op EXCEPT ![a].todo = Tail(@)]
      <4>r. PICK r : r = [x EXCEPT !.todo = Tail(@)]
        OBVIOUS
      <4>1. r.pc = x.pc /\ r.path = x.path /\ op' = [op EXCEPT ![a] = r]
        BY <2>0, <3>2, <4>r DEF Op
      <4> QED BY <2>1, <3>0, <4>1
    <3> QED BY <2>2, <2>4, <3>1, <3>2 DEF EnqueueScan
  <2>5. CASE EnqueuePut(a)
    BY <2>2, <2>5 DEF EnqueuePut
  <2>6. CASE Approve(a) \/ Reject(a)
    <3>1. PICK p \in Path, d \in {"pending", "failed"} : p.dir = "awaiting_approval" /\ StartTransition(a, p, d)
      BY <2>6 DEF Approve, Reject, FindJobFiles
    <3> QED BY <2>0, <3>1, AimFrom
  <2>7. CASE Unlock(a) \/ SearchStart(a)
    BY <2>7 DEF Unlock, SearchStart, Undisturbed
  <2>8. CASE SearchScan(a) \/ DropUnlink(a)
    BY <2>0, <2>8 DEF SearchScan, DropUnlink, OperatorLocal
  <2> QED BY <1>4, <2>3, <2>4, <2>5, <2>6, <2>7, <2>8 DEF OperatorStep
<1>5. ASSUME NEW a \in Actors, Reclaim(a) PROVE AInv'
  <2>1. PICK p, d : p.dir = "running" /\ StartTransition(a, p, d)
    BY <1>5 DEF Reclaim
  <2> QED BY <2>1, AimFrom
<1>6. ASSUME NEW a \in Actors, Crash(a) PROVE AInv'
  BY <1>6, AimEnd DEF Crash
<1>7. ASSUME NEW p \in Path, GrowsStale(p) \/ BackoffElapses(p) PROVE AInv'
  BY <1>1, <1>7 DEF GrowsStale, BackoffElapses
<1>8. CASE UNCHANGED vars
  BY <1>1, <1>8 DEF vars
<1> QED
  BY <1>2, <1>3, <1>4, <1>5, <1>6, <1>7, <1>8 DEF Next

\* The lifecycle's view of the queue.
Where == [j \in Jobs |-> {p.dir : p \in {q \in Path : q.job = j /\ disk[q] # NoFile}}]
Claimants == [j \in Jobs |-> {w \in Workers : Claiming(w) /\ op[w].path.job = j}]
Executors == [j \in Jobs |-> {w \in Workers : Executing(w) /\ op[w].path.job = j}]

LifeStep == [Lifecycle!Next]_(Lifecycle!lifecycle)

\* Its steps.
LEMMA LifeStutters ==
  ASSUME Where' = Where, Claimants' = Claimants, Executors' = Executors
  PROVE  LifeStep
  BY DEF LifeStep, Lifecycle!lifecycle, Where, Claimants, Executors

LEMMA LifeSubmits ==
  ASSUME NEW j \in Jobs, NEW d \in {"pending", "awaiting_approval"}, Where[j] = {},
         Where' = [Where EXCEPT ![j] = {d}], Claimants' = Claimants, Executors' = Executors
  PROVE  LifeStep
<1>1. Lifecycle!Submit(j)
  BY DEF Lifecycle!Submit, Where, Claimants, Executors
<1> QED BY <1>1 DEF LifeStep, Lifecycle!Next

LEMMA LifeClaims ==
  ASSUME NEW j \in Jobs, NEW w \in Workers, Where[j] = {"pending"}, Claimants[j] = {}, Executors[j] = {},
         Where' = [Where EXCEPT ![j] = {"running"}], Claimants' = [Claimants EXCEPT ![j] = {w}],
         Executors' = Executors
  PROVE  LifeStep
<1>1. Lifecycle!Claim(j, w)
  BY DEF Lifecycle!Claim, Lifecycle!Goes, Where, Claimants, Executors
<1> QED BY <1>1 DEF LifeStep, Lifecycle!Next

LEMMA LifeStarts ==
  ASSUME NEW j \in Jobs, NEW w \in Workers, Where[j] = {"running"}, Claimants[j] = {w}, Executors[j] = {},
         Where' = Where, Claimants' = [Claimants EXCEPT ![j] = {}], Executors' = [Executors EXCEPT ![j] = {w}]
  PROVE  LifeStep
<1>1. Lifecycle!Start(j, w)
  BY DEF Lifecycle!Start, Where, Claimants, Executors
<1> QED BY <1>1 DEF LifeStep, Lifecycle!Next

LEMMA LifeReleases ==
  ASSUME NEW j \in Jobs, Where' = Where, Claimants' = [Claimants EXCEPT ![j] = {}],
         Executors' = [Executors EXCEPT ![j] = {}]
  PROVE  LifeStep
<1>1. Lifecycle!Release(j)
  BY DEF Lifecycle!Release, Where, Claimants, Executors
<1> QED BY <1>1 DEF LifeStep, Lifecycle!Next

LEMMA LifeMoves ==
  ASSUME NEW j \in Jobs, NEW c, NEW d, Where[j] = {c}, Where' = [Where EXCEPT ![j] = {d}],
         Claimants' = Claimants, Executors' = Executors,
         \/ /\ c = "running" /\ Claimants[j] = {} /\ Executors[j] = {}
            /\ d \in {"done", "failed", "dead_letter", "awaiting_approval", "pending"}
         \/ c = "failed" /\ d = "pending"
         \/ c = "awaiting_approval" /\ d \in {"pending", "failed"}
  PROVE  LifeStep
<1>1. CASE c = "running"
  <2>1. Lifecycle!Settle(j)
    BY <1>1 DEF Lifecycle!Settle, Lifecycle!Goes, Where, Claimants, Executors
  <2> QED BY <2>1 DEF LifeStep, Lifecycle!Next
<1>2. CASE c = "failed"
  <2>1. Lifecycle!Retry(j)
    BY <1>2 DEF Lifecycle!Retry, Lifecycle!Goes, Where, Claimants, Executors
  <2> QED BY <2>1 DEF LifeStep, Lifecycle!Next
<1>3. CASE c = "awaiting_approval"
  <2>1. Lifecycle!Decide(j)
    BY <1>3 DEF Lifecycle!Decide, Lifecycle!Goes, Where, Claimants, Executors
  <2> QED BY <2>1 DEF LifeStep, Lifecycle!Next
<1> QED BY <1>1, <1>2, <1>3

\* What the view shows of the files.
LEMMA WhereKept ==
  ASSUME \A p \in Path : disk'[p] = NoFile <=> disk[p] = NoFile
  PROVE  Where' = Where
<1>1. ASSUME NEW j \in Jobs
      PROVE  {q \in Path : q.job = j /\ disk'[q] # NoFile} = {q \in Path : q.job = j /\ disk[q] # NoFile}
  OBVIOUS
<1> QED BY <1>1 DEF Where

LEMMA WhereOne ==
  ASSUME IInv, NEW p \in Path, disk[p] # NoFile
  PROVE  p.job \in Jobs /\ Where[p.job] = {p.dir}
<1>1. p.job \in Jobs
  BY DEF Path
<1>2. {q \in Path : q.job = p.job /\ disk[q] # NoFile} = {p}
  BY DEF IInv, OneFilePerJob
<1>3. Where[p.job] = {q.dir : q \in {p}}
  BY <1>1, <1>2 DEF Where
<1> QED BY <1>1, <1>3

LEMMA WhereNow ==
  ASSUME NEW p \in Path, disk'[p] # NoFile,
         \A q \in Path : q.job = p.job /\ disk'[q] # NoFile => q = p,
         \A q \in Path : q.job # p.job => disk'[q] = disk[q]
  PROVE  Where' = [Where EXCEPT ![p.job] = {p.dir}]
<1> DEFINE Now(j) == {q.dir : q \in {r \in Path : r.job = j /\ disk'[r] # NoFile}}
           Then(j) == {q.dir : q \in {r \in Path : r.job = j /\ disk[r] # NoFile}}
<1>1. Where' = [j \in Jobs |-> Now(j)] /\ Where = [j \in Jobs |-> Then(j)]
  BY DEF Where
<1>2. Now(p.job) = {p.dir}
  <2>1. {r \in Path : r.job = p.job /\ disk'[r] # NoFile} = {p}
    OBVIOUS
  <2> QED BY <2>1
<1>3. ASSUME NEW j \in Jobs, j # p.job PROVE Now(j) = Then(j)
  <2>1. {r \in Path : r.job = j /\ disk'[r] # NoFile} = {r \in Path : r.job = j /\ disk[r] # NoFile}
    BY <1>3
  <2> QED BY <2>1
<1> HIDE DEF Now, Then
<1> QED BY <1>1, <1>2, <1>3

\* What it shows of the processes.
Claims(r, j) == r.pc \in {"claim_read", "claim_write", "claimed"} /\ r.path.job = j
Executes(r, j) == r.pc = "executing" /\ r.path.job = j

LEMMA RolesKept ==
  ASSUME \A w \in Workers, j \in Jobs : /\ Claims(op'[w], j) <=> Claims(op[w], j)
                                        /\ Executes(op'[w], j) <=> Executes(op[w], j)
  PROVE  Claimants' = Claimants /\ Executors' = Executors
<1>1. ASSUME NEW j \in Jobs
      PROVE  /\ {w \in Workers : Claiming(w)' /\ op'[w].path.job = j} = {w \in Workers : Claiming(w) /\ op[w].path.job = j}
             /\ {w \in Workers : Executing(w)' /\ op'[w].path.job = j} = {w \in Workers : Executing(w) /\ op[w].path.job = j}
  BY DEF Claims, Executes, Claiming, Executing
<1> QED BY <1>1 DEF Claimants, Executors

\* A process keeps its role, or has none before and after its step.
LEMMA RoleKept ==
  ASSUME IInv, NEW a \in Actors, NEW r, op' = [op EXCEPT ![a] = r],
         a \in Workers => \A j \in Jobs : /\ Claims(r, j) <=> Claims(op[a], j)
                                          /\ Executes(r, j) <=> Executes(op[a], j)
  PROVE  Claimants' = Claimants /\ Executors' = Executors
<1>1. op'[a] = r /\ \A b \in Actors : b # a => op'[b] = op[b]
  BY DEF IInv, TInv, TypeOK
<1>2. \A w \in Workers : w \in Actors
  BY DEF Actors
<1> QED BY <1>1, <1>2, RolesKept

LEMMA RoleNow ==
  ASSUME IInv, NEW w \in Workers, NEW j \in Jobs, NEW r, op' = [op EXCEPT ![w] = r], Alone(w, j),
         \A i \in Jobs : i # j => ~Claims(r, i) /\ ~Executes(r, i) /\ ~Claims(op[w], i) /\ ~Executes(op[w], i)
  PROVE  /\ Claimants[j] = (IF Claims(op[w], j) THEN {w} ELSE {})
         /\ Executors[j] = (IF Executes(op[w], j) THEN {w} ELSE {})
         /\ Claimants' = [Claimants EXCEPT ![j] = IF Claims(r, j) THEN {w} ELSE {}]
         /\ Executors' = [Executors EXCEPT ![j] = IF Executes(r, j) THEN {w} ELSE {}]
<1>1. op'[w] = r /\ \A b \in Actors : b # w => op'[b] = op[b]
  BY DEF IInv, TInv, TypeOK, Actors
<1>2. \A v \in Workers : v \in Actors
  BY DEF Actors
<1>3. \A v \in Workers : v # w => /\ ~Claims(op[v], j) /\ ~Executes(op[v], j)
                                  /\ op'[v] = op[v]
  BY <1>1, <1>2 DEF Alone, Owns, Claims, Executes
<1> DEFINE C(i) == {v \in Workers : Claims(op[v], i)}
           E(i) == {v \in Workers : Executes(op[v], i)}
           CN(i) == {v \in Workers : Claims(op'[v], i)}
           EN(i) == {v \in Workers : Executes(op'[v], i)}
<1>4. /\ Claimants = [i \in Jobs |-> C(i)] /\ Claimants' = [i \in Jobs |-> CN(i)]
      /\ Executors = [i \in Jobs |-> E(i)] /\ Executors' = [i \in Jobs |-> EN(i)]
  BY DEF Claimants, Executors, Claims, Executes, Claiming, Executing
<1>5. /\ C(j) = (IF Claims(op[w], j) THEN {w} ELSE {}) /\ E(j) = (IF Executes(op[w], j) THEN {w} ELSE {})
      /\ CN(j) = (IF Claims(r, j) THEN {w} ELSE {}) /\ EN(j) = (IF Executes(r, j) THEN {w} ELSE {})
  BY <1>1, <1>3
<1>6. ASSUME NEW i \in Jobs, i # j PROVE C(i) = CN(i) /\ E(i) = EN(i)
  BY <1>1, <1>3, <1>6
<1> HIDE DEF C, E, CN, EN
<1> QED BY <1>4, <1>5, <1>6

\* The end of a worker's operation on its job, whatever has been reached.
LEMMA Releasing ==
  ASSUME IInv, NEW w \in Workers, Owns(op[w]), NEW r, op' = [op EXCEPT ![w] = r],
         r.pc \in {"idle", "read"}, disk' = disk
  PROVE  LifeStep
<1>1. PICK j \in Jobs : j = op[w].path.job /\ Alone(w, j)
  BY Owner DEF Actors
<1>2. \A i \in Jobs : i # j => ~Claims(r, i) /\ ~Executes(r, i) /\ ~Claims(op[w], i) /\ ~Executes(op[w], i)
  BY <1>1 DEF Claims, Executes
<1>3. IInv /\ w \in Workers /\ op' = [op EXCEPT ![w] = r] /\ Alone(w, j)
  BY <1>1
<1>4. ~Claims(r, j) /\ ~Executes(r, j)
  BY DEF Claims, Executes
<1>5. Claimants' = [Claimants EXCEPT ![j] = {}] /\ Executors' = [Executors EXCEPT ![j] = {}]
  BY <1>2, <1>3, <1>4, RoleNow
<1> QED
  BY <1>5, WhereKept, LifeReleases

LEMMA TransitionLives ==
  ASSUME AInv, IInv', NEW a \in Actors, TransitionStep(a)
  PROVE  LifeStep
<1> DEFINE x == op[a]
           path == x.path
           j == path.job
<1>0. /\ IInv /\ Owns(x) /\ InTransition(x) /\ x.pc # "retry" /\ x.pc \in {"read", "write", "pick", "move"}
  BY DEF TransitionStep, TransitionRead, TransitionWrite, PickTarget, Move, Owns, InTransition, AInv
<1>a. /\ x \in Op /\ LocalTyped(x) /\ path \in Path /\ j \in Jobs /\ disk[path] # NoFile /\ Alone(a, j)
      /\ x.goal # path.dir /\ x.goal \in Dirs
  BY <1>0, Actor, Owner DEF Held, Moving, Op
<1>1. ASSUME NEW r, op' = [op EXCEPT ![a] = r], r.pc \in {"write", "pick", "move", "retry", "idle"}
      PROVE  Claimants' = Claimants /\ Executors' = Executors
  BY <1>0, <1>1, RoleKept DEF Claims, Executes
<1>2. CASE TransitionRead(a)
  <2>1. [x EXCEPT !.pc = "write", !.mem = ReadPayload(path)].pc = "write"
    BY <1>a DEF Op
  <2> QED BY <1>1, <1>2, <2>1, WhereKept, LifeStutters DEF TransitionRead
<1>3. CASE TransitionWrite(a)
  <2>1. [x EXCEPT !.pc = "pick", !.mem = NoFile].pc = "pick"
    BY <1>a DEF Op
  <2>2. Transitioned(x.mem, x.goal) \in Payload
    BY <1>3, <1>a, TransitionedTyped DEF TransitionWrite, LocalTyped
  <2>3. \A p \in Path : disk'[p] = NoFile <=> disk[p] = NoFile
    BY <1>0, <1>3, <1>a, <2>2, Written DEF TransitionWrite
  <2> QED BY <1>1, <1>3, <2>1, <2>3, WhereKept, LifeStutters DEF TransitionWrite
<1>4. CASE PickTarget(a)
  <2>1. PICK t : op' = [op EXCEPT ![a] = [x EXCEPT !.pc = "move", !.dest = t]]
    BY <1>4 DEF PickTarget
  <2>2. [x EXCEPT !.pc = "move", !.dest = t].pc = "move"
    BY <1>a DEF Op
  <2> QED BY <1>1, <1>4, <2>1, <2>2, WhereKept, LifeStutters DEF PickTarget
<1>5. CASE Move(a)
  <2> DEFINE dest == x.dest
  <2>0. dest = [path EXCEPT !.dir = x.goal] /\ dest \in Path
    BY <1>0, <1>5, <1>a, Actor DEF Move, Moving, LocalTyped
  <2>1. dest # path /\ dest.job = j /\ dest.dir = x.goal
    BY <1>a, <2>0 DEF Path
  <2>2. disk' = Rename(path, dest)
    BY <1>a, <1>5 DEF Move
  <2>3. /\ disk'[path] = NoFile /\ disk'[dest] # NoFile
        /\ \A p \in Path : p # path /\ p # dest => disk'[p] = disk[p]
    BY <1>0, <1>a, <2>0, <2>1, <2>2, Typed DEF Rename, IInv, DiskTyped
  <2>4. Where[j] = {path.dir}
    BY <1>0, <1>a, WhereOne
  <2>5. \A q \in Path : q.job = dest.job /\ disk'[q] # NoFile => q = dest
    BY <1>0, <1>a, <2>1, <2>3 DEF IInv, OneFilePerJob
  <2>6. \A q \in Path : q.job # dest.job => disk'[q] = disk[q]
    BY <2>1, <2>3
  <2>7. Where' = [Where EXCEPT ![j] = {x.goal}]
    BY <2>0, <2>1, <2>3, <2>5, <2>6, WhereNow
  <2>8. Claimants' = Claimants /\ Executors' = Executors
    <3>1. [x EXCEPT !.pc = "retry", !.dest = NoPath].pc = "retry" /\ Idle.pc = "idle"
      BY <1>a DEF Op, Idle
    <3> QED BY <1>1, <1>5, <3>1 DEF Move, Finish
  <2>9. path.dir = "running" => Claimants[j] = {} /\ Executors[j] = {}
    <3>1. \A w \in Workers : ~Claims(op[w], j) /\ ~Executes(op[w], j)
      <4> SUFFICES ASSUME NEW w \in Workers, Claims(op[w], j) \/ Executes(op[w], j) PROVE FALSE
        OBVIOUS
      <4>1. w \in Actors /\ Owns(op[w]) /\ op[w].path.job = j
        BY DEF Actors, Owns, Claims, Executes
      <4>2. w = a
        BY <1>a, <4>1 DEF Alone
      <4> QED BY <1>0, <4>2 DEF Claims, Executes
    <3> QED BY <1>a, <3>1 DEF Claimants, Executors, Claims, Executes, Claiming, Executing
  <2>10. Aim(x)
    BY DEF AInv
  <2>11. path.dir \in {"running", "failed", "awaiting_approval"}
    <3>1. a \in Workers => WorkerLocal(x)
      BY <1>0, Actor
    <3>2. a \in Operators => OperatorLocal(x)
      BY <1>0, Actor
    <3> QED BY <1>0, <3>1, <3>2 DEF WorkerLocal, OperatorLocal, Actors
  <2>12. path.dir = "running" => x.goal \in {"done", "failed", "dead_letter", "awaiting_approval", "pending"}
    BY <1>a DEF Dirs
  <2> QED BY <1>0, <1>a, <2>4, <2>7, <2>8, <2>9, <2>10, <2>11, <2>12, LifeMoves DEF Aim
<1> QED
  BY <1>2, <1>3, <1>4, <1>5 DEF TransitionStep

LEMMA WorkerLives ==
  ASSUME AInv, IInv', NEW w \in Workers, WorkerStep(w)
  PROVE  LifeStep
<1> DEFINE x == op[w]
           path == x.path
           j == path.job
<1>0. IInv /\ w \in Actors /\ x \in Op /\ LocalTyped(x) /\ WorkerLocal(x) /\ BeatInHand(w)
  BY Actor DEF Actors, AInv
<1>a. ASSUME disk' = disk, Claimants' = Claimants, Executors' = Executors PROVE LifeStep
  BY <1>a, WhereKept, LifeStutters
<1>b. ASSUME NEW r, op' = [op EXCEPT ![w] = r],
             x.pc \notin {"claim_read", "claim_write", "claimed", "executing"},
             r.pc \notin {"claim_read", "claim_write", "claimed", "executing"}
      PROVE  Claimants' = Claimants /\ Executors' = Executors
  BY <1>0, <1>b, RoleKept DEF Claims, Executes
<1>c. ASSUME NEW r, op' = [op EXCEPT ![w] = r], r.path = path,
             x.pc \in {"claim_read", "claim_write"}, r.pc \in {"claim_write", "claimed"}
      PROVE  Claimants' = Claimants /\ Executors' = Executors
  BY <1>0, <1>c, RoleKept DEF Claims, Executes
<1>1. CASE ClaimPick(w)
  <2>1. PICK p : op' = [op EXCEPT ![w] = [Idle EXCEPT !.pc = "claim", !.path = p]]
    BY <1>1 DEF ClaimPick
  <2>2. [Idle EXCEPT !.pc = "claim", !.path = p].pc = "claim"
    BY DEF Idle
  <2> QED BY <1>1, <1>a, <1>b, <2>1, <2>2 DEF ClaimPick
<1>2. CASE ClaimRename(w)
  <2> DEFINE target == [path EXCEPT !.dir = "running"]
  <2>0. path \in Path /\ path.dir = "pending" /\ j \in Jobs /\ x.pc = "claim"
    BY <1>0, <1>2 DEF ClaimRename, LocalTyped, WorkerLocal, Path
  <2>1. CASE disk' = disk /\ Finish(w)
    <3>1. Idle.pc = "idle"
      BY DEF Idle
    <3> QED BY <1>a, <1>b, <2>0, <2>1, <3>1 DEF Finish
  <2>2. ASSUME NEW old \in BOOLEAN, disk[path] # NoFile,
               disk' = [Rename(path, target) EXCEPT ![target].stale = old],
               op' = [op EXCEPT ![w] = [@ EXCEPT !.pc = "claim_read", !.path = target]]
        PROVE  LifeStep
    <3>1. target \in Path /\ target # path /\ target.job = j /\ target.dir = "running"
      BY <2>0 DEF Path, Dirs
    <3>2. /\ disk'[path] = NoFile
          /\ disk'[target] = [disk[path] EXCEPT !.stale = old]
          /\ \A p \in Path : p # path /\ p # target => disk'[p] = disk[p]
      BY <1>0, <2>0, <2>2, <3>1, Typed DEF Rename, IInv, DiskTyped
    <3>3. disk'[target] # NoFile
      <4>1. disk[path] \in Payload
        BY <1>0, <2>0, <2>2, Typed DEF IInv, DiskTyped
      <4>2. [disk[path] EXCEPT !.stale = old] \in Payload
        BY <4>1 DEF Payload
      <4> QED BY <3>2, <4>2, SentinelAssumption
    <3>r. PICK r : r = [x EXCEPT !.pc = "claim_read", !.path = target]
      OBVIOUS
    <3>4. op' = [op EXCEPT ![w] = r] /\ r.pc = "claim_read" /\ r.path = target
      BY <1>0, <2>2, <3>r DEF Op
    <3>5. Where[j] = {"pending"}
      BY <1>0, <2>0, <2>2, WhereOne
    <3>6. \A q \in Path : q.job = target.job /\ disk'[q] # NoFile => q = target
      <4>1. \A q \in Path : q.job = j /\ disk[q] # NoFile => q = path
        BY <1>0, <2>0, <2>2 DEF IInv, OneFilePerJob
      <4> QED BY <3>1, <3>2, <4>1
    <3>7. \A q \in Path : q.job # target.job => disk'[q] = disk[q]
      BY <3>1, <3>2
    <3>8. Where' = [Where EXCEPT ![j] = {"running"}]
      BY <3>1, <3>3, <3>6, <3>7, WhereNow
    <3>9. Alone(w, j)
      BY <1>0, <2>0, <2>2, Unowned DEF Alone
    <3>10. \A i \in Jobs : i # j => ~Claims(r, i) /\ ~Executes(r, i) /\ ~Claims(x, i) /\ ~Executes(x, i)
      BY <2>0, <3>1, <3>4 DEF Claims, Executes
    <3>11. ~Claims(x, j) /\ ~Executes(x, j) /\ Claims(r, j) /\ ~Executes(r, j)
      BY <2>0, <3>1, <3>4 DEF Claims, Executes
    <3>12. /\ Claimants[j] = {} /\ Executors[j] = {}
           /\ Claimants' = [Claimants EXCEPT ![j] = {w}] /\ Executors' = [Executors EXCEPT ![j] = {}]
      BY <1>0, <2>0, <3>4, <3>9, <3>10, <3>11, RoleNow
    <3>13. Executors' = Executors
      BY <3>12 DEF Executors
    <3> QED BY <2>0, <3>5, <3>8, <3>12, <3>13, LifeClaims
  <2> QED BY <1>2, <2>1, <2>2 DEF ClaimRename
<1>3. CASE ClaimRead(w)
  <2>r. PICK r : r = [x EXCEPT !.pc = "claim_write", !.mem = ReadPayload(path)]
    OBVIOUS
  <2>1. op' = [op EXCEPT ![w] = r] /\ r.pc = "claim_write" /\ r.path = path
    BY <1>0, <1>3, <2>r DEF ClaimRead, Op
  <2> QED BY <1>3, <1>a, <1>c, <2>1 DEF ClaimRead
<1>4. CASE ClaimWrite(w)
  <2> DEFINE n == x.mem.attempt + 1
             payload == [x.mem EXCEPT !.attempt = n, !.lease = leases + 1, !.deferred = FALSE]
  <2>0. x.pc = "claim_write" /\ x.mem \in Payload /\ path \in Path /\ Write(path, payload)
        /\ leases + 1 \in 0 .. MaxLeases /\ disk[path] # NoFile
    BY <1>0, <1>4, Typed, InRunning, QueueAssumption DEF ClaimWrite, LocalTyped, IInv, CountsTyped
  <2>r. PICK r : r = [x EXCEPT !.pc = "claimed", !.mem = NoFile, !.lease = leases + 1, !.attempt = n]
    OBVIOUS
  <2>1. op' = [op EXCEPT ![w] = r] /\ r.pc = "claimed" /\ r.path = path
    BY <1>0, <1>4, <2>r DEF ClaimWrite, Op
  <2>2. n \in Nat
    BY <2>0 DEF Payload
  <2> HIDE DEF n
  <2>3. payload \in Payload
    BY <2>0, <2>2 DEF Payload
  <2>4. \A p \in Path : disk'[p] = NoFile <=> disk[p] = NoFile
    BY <1>0, <2>0, <2>3, Written
  <2> QED BY <1>c, <2>0, <2>1, <2>4, WhereKept, LifeStutters
<1>5. CASE BeginRun(w)
  <2>0. x.pc = "claimed" /\ Owns(x) /\ disk' = disk /\ path.dir = "running" /\ disk[path] # NoFile
    BY <1>0, <1>5, InRunning DEF BeginRun, Owns
  <2>1. path \in Path /\ j \in Jobs /\ Alone(w, j)
    BY <1>0, <2>0, Owner
  <2>r. PICK r : r = [x EXCEPT !.pc = "executing"]
    OBVIOUS
  <2>2. op' = [op EXCEPT ![w] = r] /\ r.pc = "executing" /\ r.path = path
    BY <1>0, <1>5, <2>r DEF BeginRun, Step, Op
  <2>3. \A i \in Jobs : i # j => ~Claims(r, i) /\ ~Executes(r, i) /\ ~Claims(x, i) /\ ~Executes(x, i)
    BY <2>2 DEF Claims, Executes
  <2>4. Claims(x, j) /\ ~Executes(x, j) /\ ~Claims(r, j) /\ Executes(r, j)
    BY <2>0, <2>2 DEF Claims, Executes
  <2>5. /\ Claimants[j] = {w} /\ Executors[j] = {}
        /\ Claimants' = [Claimants EXCEPT ![j] = {}] /\ Executors' = [Executors EXCEPT ![j] = {w}]
    BY <1>0, <2>1, <2>2, <2>3, <2>4, RoleNow
  <2>6. Where[j] = {"running"} /\ Where' = Where
    BY <1>0, <2>0, <2>1, WhereOne, WhereKept
  <2> QED BY <2>1, <2>5, <2>6, LifeStarts
<1>6. CASE PauseRun(w) \/ SettleRun(w) \/ DeadLetter(w)
  <2>1. PICK d : StartTransition(w, path, d)
    BY <1>6 DEF PauseRun, SettleRun, DeadLetter
  <2>r. PICK r : r = [x EXCEPT !.pc = "read", !.path = path, !.goal = d]
    OBVIOUS
  <2>2. op' = [op EXCEPT ![w] = r] /\ r.pc = "read"
    BY <1>0, <2>1, <2>r DEF StartTransition, Op
  <2>3. Owns(x) /\ disk' = disk
    BY <1>6 DEF PauseRun, SettleRun, DeadLetter, Joined, Owns
  <2> QED BY <1>0, <2>2, <2>3, Releasing
<1>7. CASE AbortOnStub(w)
  <2>1. Owns(x) /\ disk' = disk /\ op' = [op EXCEPT ![w] = Idle] /\ Idle.pc = "idle"
    BY <1>7 DEF AbortOnStub, Owns, Finish, Idle
  <2> QED BY <1>0, <2>1, Releasing
<1>8. CASE HeartbeatRead(w)
  BY <1>8, <1>a DEF HeartbeatRead, Claimants, Executors, Claiming, Executing
<1>9. CASE HeartbeatWrite(w)
  <2>0. /\ beat[w].mem \in Payload /\ beat[w].path = path /\ x.pc = "executing" /\ op' = op
        /\ Write(path, beat[w].mem)
    BY <1>0, <1>9, Typed DEF HeartbeatWrite, BeatInHand, IInv, BeatTyped, Beat
  <2>1. path \in Path /\ disk[path] # NoFile
    BY <1>0, <2>0, InRunning DEF LocalTyped
  <2>2. \A p \in Path : disk'[p] = NoFile <=> disk[p] = NoFile
    BY <1>0, <2>0, <2>1, Written
  <2>3. Claimants' = Claimants /\ Executors' = Executors
    BY <2>0 DEF Claimants, Executors, Claiming, Executing
  <2> QED BY <2>2, <2>3, WhereKept, LifeStutters
<1>10. CASE FailAndRetry(w)
  <2>r. PICK r : r = [x EXCEPT !.pc = "read", !.goal = "failed", !.cont = "retry"]
    OBVIOUS
  <2>1. op' = [op EXCEPT ![w] = r] /\ r.pc = "read" /\ Owns(x) /\ disk' = disk
    BY <1>0, <1>10, <2>r DEF FailAndRetry, Joined, Owns, Op
  <2> QED BY <1>0, <2>1, Releasing
<1>11. CASE RetryFind(w)
  <2>0. x.pc = "retry" /\ disk' = disk
    BY <1>11 DEF RetryFind
  <2>1. CASE Finish(w)
    <3>1. Idle.pc = "idle"
      BY DEF Idle
    <3> QED BY <1>a, <1>b, <2>0, <2>1, <3>1 DEF Finish
  <2>2. ASSUME NEW p, op' = [op EXCEPT ![w] = [x EXCEPT !.pc = "defer_read", !.path = p, !.cont = "idle"]]
        PROVE  LifeStep
    <3>1. [x EXCEPT !.pc = "defer_read", !.path = p, !.cont = "idle"].pc = "defer_read"
      BY <1>0 DEF Op
    <3> QED BY <1>a, <1>b, <2>0, <2>2, <3>1
  <2> QED BY <1>11, <2>1, <2>2 DEF RetryFind
<1>12. CASE RetryRead(w)
  <2>1. [x EXCEPT !.pc = "defer_write", !.mem = ReadPayload(path)].pc = "defer_write"
    BY <1>0 DEF Op
  <2> QED BY <1>12, <1>a, <1>b, <2>1 DEF RetryRead
<1>13. CASE RetryWrite(w)
  <2>0. x.pc = "defer_write" /\ Owns(x) /\ x.pc # "retry" /\ x.mem \in Payload
        /\ Write(path, [x.mem EXCEPT !.deferred = TRUE])
    BY <1>0, <1>13 DEF RetryWrite, Owns, LocalTyped
  <2>1. path \in Path /\ disk[path] # NoFile
    BY <1>0, <2>0, Actor DEF Held
  <2>2. [x.mem EXCEPT !.deferred = TRUE] \in Payload
    BY <2>0 DEF Payload
  <2>3. \A p \in Path : disk'[p] = NoFile <=> disk[p] = NoFile
    BY <1>0, <2>0, <2>1, <2>2, Written
  <2>r. PICK r : r = [x EXCEPT !.pc = "read", !.mem = NoFile, !.goal = "pending"]
    OBVIOUS
  <2>4. op' = [op EXCEPT ![w] = r] /\ r.pc = "read"
    BY <1>0, <1>13, <2>r DEF RetryWrite, Op
  <2> QED BY <1>b, <2>0, <2>3, <2>4, WhereKept, LifeStutters
<1> QED
  BY <1>1, <1>2, <1>3, <1>4, <1>5, <1>6, <1>7, <1>8, <1>9, <1>10, <1>11, <1>12, <1>13 DEF WorkerStep

LEMMA OperatorLives ==
  ASSUME AInv, IInv', Undisturbed, NEW a \in Operators, OperatorStep(a)
  PROVE  LifeStep
<1> DEFINE x == op[a]
           path == x.path
<1>0. IInv /\ a \in Actors /\ a \notin Workers /\ x \in Op /\ LocalTyped(x) /\ OperatorLocal(x) /\ Aim(x)
  BY Actor, QueueAssumption DEF Actors, AInv
<1>1. ASSUME NEW r, op' = [op EXCEPT ![a] = r] PROVE Claimants' = Claimants /\ Executors' = Executors
  BY <1>0, <1>1, RoleKept
<1>2. CASE EnqueuePut(a)
  <2>0. path \in Path /\ path.job \in Jobs /\ path.job \notin admitted /\ path.dir \in {"pending", "awaiting_approval"}
        /\ Finish(a) /\ Write(path, [Stub EXCEPT !.runnable = TRUE])
    BY <1>0, <1>2 DEF EnqueuePut, OperatorLocal, LocalTyped, Path, Aim
  <2>1. \A p \in Path : p.job = path.job => disk[p] = NoFile
    BY <1>0, <2>0 DEF IInv, FilesAdmitted
  <2>2. [Stub EXCEPT !.runnable = TRUE] \in Payload
    BY IdleTyped DEF Payload
  <2>3. disk'[path] # NoFile /\ \A p \in Path : p # path => disk'[p] = disk[p]
    BY <1>0, <2>0, <2>2, Written
  <2>4. Where[path.job] = {}
    BY <2>0, <2>1 DEF Where
  <2>5. Where' = [Where EXCEPT ![path.job] = {path.dir}]
    BY <2>0, <2>1, <2>3, WhereNow
  <2> QED BY <1>1, <2>0, <2>4, <2>5, LifeSubmits DEF Finish
<1>3. CASE EnqueueStart(a) \/ EnqueueScan(a) \/ Approve(a) \/ Reject(a)
  <2>1. disk' = disk
    BY <1>3 DEF EnqueueStart, EnqueueScan, Approve, Reject
  <2>2. \E r : op' = [op EXCEPT ![a] = r]
    <3>1. EnqueueStart(a) => \E r : op' = [op EXCEPT ![a] = r]
      BY DEF EnqueueStart
    <3>2. EnqueueScan(a) => \E r : op' = [op EXCEPT ![a] = r]
      BY DEF EnqueueScan, Step, Finish
    <3>3. Approve(a) \/ Reject(a) => \E r : op' = [op EXCEPT ![a] = r]
      BY DEF Approve, Reject, StartTransition
    <3> QED BY <1>3, <3>1, <3>2, <3>3
  <2> QED BY <1>1, <2>1, <2>2, WhereKept, LifeStutters
<1>4. CASE Unlock(a) \/ SearchStart(a)
  BY <1>4 DEF Unlock, SearchStart, Undisturbed
<1>5. CASE SearchScan(a) \/ DropUnlink(a)
  BY <1>0, <1>5 DEF SearchScan, DropUnlink, OperatorLocal
<1> QED
  BY <1>2, <1>3, <1>4, <1>5 DEF OperatorStep

LEMMA OtherLives ==
  ASSUME AInv, IInv', NEW a \in Actors, Reclaim(a) \/ Crash(a)
  PROVE  LifeStep
<1>0. IInv /\ op[a] \in Op /\ disk' = disk
  BY Actor DEF AInv, Reclaim, Crash
<1>1. CASE Reclaim(a)
  <2>1. PICK p, d : StartTransition(a, p, d)
    BY <1>1 DEF Reclaim
  <2>r. PICK r : r = [op[a] EXCEPT !.pc = "read", !.path = p, !.goal = d]
    OBVIOUS
  <2>2. op' = [op EXCEPT ![a] = r] /\ r.pc = "read" /\ op[a].pc = "idle"
    BY <1>0, <1>1, <2>1, <2>r DEF StartTransition, Op, Reclaim, Command
  <2> QED BY <1>0, <2>2, RoleKept, WhereKept, LifeStutters DEF Claims, Executes
<1>2. CASE Crash(a)
  <2>0. op' = [op EXCEPT ![a] = Idle] /\ Idle.pc = "idle"
    BY <1>2 DEF Crash, Finish, Idle
  <2>1. CASE a \in Workers /\ Owns(op[a])
    BY <1>0, <2>0, <2>1, Releasing
  <2>2. CASE ~(a \in Workers /\ Owns(op[a]))
    BY <1>0, <2>0, <2>2, RoleKept, WhereKept, LifeStutters DEF Claims, Executes, Owns
  <2> QED BY <2>1, <2>2
<1> QED
  BY <1>1, <1>2

LEMMA TimeLives ==
  ASSUME AInv, NEW p \in Path, GrowsStale(p) \/ BackoffElapses(p)
  PROVE  LifeStep
<1>1. disk[p] # NoFile /\ disk[p] \in Payload /\ DiskTyped
  BY Typed DEF GrowsStale, BackoffElapses, AInv, IInv, DiskTyped
<1>2. [disk[p] EXCEPT !.stale = TRUE] \in Payload /\ [disk[p] EXCEPT !.deferred = FALSE] \in Payload
  BY <1>1 DEF Payload
<1>3. \A q \in Path : disk'[q] = NoFile <=> disk[q] = NoFile
  BY <1>1, <1>2, SentinelAssumption DEF GrowsStale, BackoffElapses, DiskTyped
<1>4. Claimants' = Claimants /\ Executors' = Executors
  BY DEF GrowsStale, BackoffElapses, Claimants, Executors, Claiming, Executing
<1> QED
  BY <1>3, <1>4, WhereKept, LifeStutters

LEMMA InitLives == Init => Lifecycle!Init
<1> SUFFICES ASSUME Init PROVE Lifecycle!Init
  OBVIOUS
<1>1. \A p \in Path : disk[p] = NoFile
  BY DEF Init
<1>2. \A w \in Workers : op[w] = Idle
  BY DEF Init, Actors
<1>3. Idle.pc = "idle"
  BY DEF Idle
<1>4. Where = [j \in Jobs |-> {}]
  BY <1>1 DEF Where
<1>5. Claimants = [j \in Jobs |-> {}] /\ Executors = [j \in Jobs |-> {}]
  BY <1>2, <1>3 DEF Claimants, Executors, Claiming, Executing
<1> QED
  BY <1>4, <1>5 DEF Lifecycle!Init, Where, Claimants, Executors

\* Undisturbed, the queue implements the lifecycle: its reads, rewrites and renames, and
\* every crash between them, show as single moves of a job along the edges of
\* JobLifecycle, with one claimant and one executor at a time.
THEOREM Implements == ASSUME Undisturbed PROVE Spec => ImplementsLifecycle
<1>1. Init => AInv
  <2>1. Init => \A a \in Actors : Aim(op[a])
    BY DEF Init, Aim, Idle, InTransition
  <2> QED BY <2>1, InitIInv DEF AInv
<1>2. AInv /\ [Next]_vars => AInv'
  <2> SUFFICES ASSUME AInv, [Next]_vars PROVE AInv'
    OBVIOUS
  <2>1. IInv'
    BY Inductive DEF AInv
  <2> QED BY <2>1, AimStep
<1>3. AInv /\ [Next]_vars => [Lifecycle!Next]_(Lifecycle!lifecycle)
  <2> SUFFICES ASSUME AInv, [Next]_vars PROVE LifeStep
    BY DEF LifeStep
  <2>1. IInv'
    BY Inductive DEF AInv
  <2>2. CASE UNCHANGED vars
    <3>1. disk' = disk /\ op' = op
      BY <2>2 DEF vars
    <3>2. Claimants' = Claimants /\ Executors' = Executors
      BY <3>1 DEF Claimants, Executors, Claiming, Executing
    <3> QED BY <3>1, <3>2, WhereKept, LifeStutters
  <2> QED
    BY <2>1, <2>2, TransitionLives, WorkerLives, OperatorLives, OtherLives, TimeLives DEF Next
<1> QED
  BY <1>1, <1>2, <1>3, InitLives, PTL DEF Spec, ImplementsLifecycle, Lifecycle!Spec
==============================================================================
