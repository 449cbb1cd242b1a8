-------------------------- MODULE OrchestrationProofs --------------------------
(***************************************************************************)
(* Why the orchestrate loop keeps the order of the tasks, works on one at  *)
(* a time, has flagged runs reviewed and strands no task, for any numbers  *)
(* of processes, tasks, runs, batches, commands and kills.                 *)
(***************************************************************************)
EXTENDS Orchestration, FiniteSetTheorems, SequenceTheorems, WellFoundedInduction, TLAPS

------------------------------------------------------------------------------
(* What a process has in hand, where it is. *)

\* x is a process, R the runs there are and T the tasks.  It deals with a run of its
\* own that has succeeded.
Judging(x, R) == x.kind = "loop" /\ x.run \in R /\ x.ok

Shape(x, R, T) ==
  /\ x.run \in {0} \cup R
  /\ x.pc \in {"look", "start"} => x.kind = "loop" /\ x.run = 0
  /\ x.pc \in {"start", "build", "queue"} => x.task \in T
  /\ x.pc = "start" => x.then = "claim"
  /\ x.pc = "build" => \/ x.kind = "loop" /\ x.run = 0 /\ x.then = "claim"
                       \/ x.kind = "command" /\ x.run = 0 /\ x.then = "idle"
                       \/ Judging(x, R) /\ x.then = "accept"
  /\ x.pc = "claim" => x.kind \in {"loop", "worker"} /\ x.run = 0
  /\ x.pc \in {"execute", "trigger", "save", "review", "evaluate"} =>
       x.kind \in {"loop", "worker"} /\ x.run \in R
  /\ x.pc \in {"seq", "manifest", "stub"} =>
       /\ x.todo # <<>>
       /\ x.then = "idle" \/ (x.then = "save" /\ x.kind \in {"loop", "worker"} /\ x.run \in R)
  /\ x.pc \in {"manifest", "stub"} => x.seq \in Batches
  /\ x.pc = "evaluate" => x.kind = "loop"
  /\ x.pc \in {"accept", "queue"} => Judging(x, R)
  /\ x.pc \in {"number", "write"} => \/ Judging(x, R) /\ x.then = "queue"
                                     \/ x.kind = "command" /\ x.then = "idle" /\ x.task \in T
  /\ x.pc = "write" => x.seq \in Tasks
  /\ (x.kind = "loop" /\ x.pc \in {"number", "write", "queue"}) \/ (x.pc = "build" /\ x.then = "accept") =>
       x.how = "needs_follow_up"
  /\ x.kind = "loop" /\ x.pc \in {"look", "start", "claim", "execute"} => x.steps < MaxSteps
  /\ x.pc = "build" /\ x.then = "claim" => x.steps < MaxSteps

\* Runs are numbered as they are built, and what is said of a run or a task is said
\* of one that exists.
Referring ==
  /\ \E n \in 0 .. MaxRuns : RunIds = 1 .. n
  /\ \A r \in RunIds : run[r].task \in TaskIds
  /\ \A t \in TaskIds : task[t].source \in {0} \cup RunIds
  /\ \A a \in approvals : a.run \in RunIds
  /\ \A a \in accepted : a.run \in RunIds

TInv == TypeOK /\ Referring /\ \A p \in Procs : Shape(proc[p], RunIds, TaskIds)

------------------------------------------------------------------------------
(* Numbers. *)

\* A set of numbers has a least member, and one that has a bound a largest.
LEMMA Least ==
  ASSUME NEW T, T \subseteq Nat, T # {}
  PROVE  \E x \in T : \A y \in T : x <= y
<1>1. PICK x \in T : \A y \in T : ~ (<<y, x>> \in OpToRel(<, Nat))
  BY NatLessThanWellFounded, WFMin, Zenon
<1>2. \A y \in T : ~(y < x)
  BY <1>1 DEF OpToRel
<1> QED
  BY <1>2

LEMMA Greatest ==
  ASSUME NEW N \in Nat, NEW S, S \subseteq 1 .. N
  PROVE  Largest(S) \in 0 .. N /\ \A m \in S : m <= Largest(S)
<1>1. CASE S = {}
  BY <1>1 DEF Largest
<1>2. CASE S # {}
  <2> DEFINE T == {n \in Nat : \A m \in S : m <= n}
  <2>1. N \in T
    OBVIOUS
  <2>2. PICK x \in T : \A y \in T : x <= y
    BY <2>1, Least
  <2>3. x \in S
    <3>1. PICK m \in S : TRUE
      BY <1>2
    <3>2. x >= 1 /\ x - 1 \in Nat
      BY <3>1
    <3>3. x - 1 \notin T
      BY <2>2, <3>2
    <3>4. PICK k \in S : ~(k <= x - 1)
      BY <3>2, <3>3
    <3> QED
      BY <3>2, <3>4
  <2>4. \E n \in S \cup {0} : \A m \in S : m <= n
    BY <2>3
  <2>5. Largest(S) \in S \cup {0} /\ \A m \in S : m <= Largest(S)
    BY <2>4 DEF Largest
  <2> DEFINE g == Largest(S)
  <2>6. g \in S \cup {0} /\ \A m \in S : m <= g
    BY <2>5
  <2> HIDE DEF g
  <2>7. g \in 0 .. N
    BY <2>6
  <2> QED
    BY <2>6, <2>7 DEF g
<1> QED
  BY <1>1, <1>2

LEMMA ChunksTyped ==
  ASSUME NEW S \in SUBSET Runs
  PROVE  Chunks(S) \in Seq(SUBSET Runs)
<1>1. IsFiniteSet(S)
  <2>1. MaxRuns \in Int /\ 1 \in Int
    BY BoundAssumption
  <2>2. IsFiniteSet(1 .. MaxRuns)
    BY <2>1, FS_Interval
  <2> QED
    BY <2>2, FS_Subset DEF Runs
<1>2. Cardinality(S) \div Cadence \in Nat
  BY <1>1, FS_CardinalityType, BoundAssumption
<1> DEFINE n == Cardinality(S) \div Cadence
           B(r) == Cardinality({q \in S : q < r})
           C(i) == {r \in S : (i - 1) * Cadence <= B(r) /\ B(r) < i * Cadence}
<1>3. Chunks(S) = [i \in 1 .. n |-> C(i)]
  BY DEF Chunks
<1>4. \A i \in 1 .. n : C(i) \in SUBSET Runs
  OBVIOUS
<1> HIDE DEF n, C
<1> QED
  BY <1>2, <1>3, <1>4 DEF n

LEMMA DueTyped ==
  ASSUME TypeOK
  PROVE  DueBatches \in Seq(SUBSET Runs)
<1> DEFINE unseen == RunIds \ UNION {batch[b] : b \in Batches}
           now == {r \in unseen : Immediate(r)}
           later == {r \in unseen \ now : run[r].result = "success"}
<1>1. now \in SUBSET Runs /\ later \in SUBSET Runs
  BY DEF RunIds
<1>2. DueBatches = (IF now = {} THEN <<>> ELSE <<now>>) \o Chunks(later)
  BY DEF DueBatches
<1>3. Chunks(later) \in Seq(SUBSET Runs)
  BY <1>1, ChunksTyped
<1> HIDE DEF now, later
<1>4. <<>> \in Seq(SUBSET Runs) /\ <<now>> \in Seq(SUBSET Runs)
  BY <1>1
<1>5. DueBatches = <<>> \o Chunks(later) \/ DueBatches = <<now>> \o Chunks(later)
  BY <1>2
<1> QED
  BY <1>3, <1>4, <1>5, ConcatProperties

\* The next run directory has a number that is free.
LEMMA NextRun ==
  ASSUME NEW n \in 0 .. MaxRuns, RunIds = 1 .. n, RunIds # Runs
  PROVE  Cardinality(RunIds) + 1 = n + 1 /\ n + 1 \in Runs \ RunIds
<1>1. Cardinality(1 .. n) = n
  BY FS_Interval, BoundAssumption
<1> QED
  BY <1>1, BoundAssumption DEF Runs

------------------------------------------------------------------------------
(* Runs. *)

\* A process that has seen its run succeed and is not through with it.
Holding(x, R) ==
  x.ok /\ x.run \in R /\
    x.pc \in {"trigger", "seq", "manifest", "stub", "save", "review", "evaluate", "accept",
              "number", "write", "queue", "build"}

\* The process has written the follow-up of its run.
Followed(x) == x.pc \in {"queue", "build", "accept"}

\* A run that has succeeded is not executed again, and one process is through with it,
\* unless it was put back on the queue after its job had been dropped.
RInv ==
  /\ \A r \in RunIds \ again : run[r].result = "success" => run[r].at \in {"done", "none"}
  /\ \A p \in Procs : At(p, "execute") /\ proc[p].run \notin again =>
       run[proc[p].run].at \in {"running", "none"} /\ run[proc[p].run].result # "success"
  /\ \A p, q \in Procs :
       At(p, "execute") /\ At(q, "execute") /\ proc[p].run = proc[q].run /\ proc[p].run \notin again => p = q
  /\ \A p \in Procs :
       Holding(proc[p], RunIds) /\ proc[p].run \notin again => run[proc[p].run].result = "success"
  /\ \A p, q \in Procs :
       Holding(proc[p], RunIds) /\ Holding(proc[q], RunIds) /\ proc[p].run = proc[q].run
         /\ proc[p].run \notin again => p = q

\* Such a run is one of a task that is forced.
GInv == \A r \in again : r \in RunIds /\ run[r].task \in forced

------------------------------------------------------------------------------
(* Dependencies. *)

InOrder(t) == t \in forced \/ \A d \in task[t].deps : Satisfied(t, d)

\* A process that is about to build a run of its task.
Building(x) == x.pc \in {"start", "queue", "build"}

DInv ==
  /\ \A p \in Procs : Building(proc[p]) => InOrder(proc[p].task)
  /\ \A r \in RunIds : run[r].at \in Live \/ (\E p \in Procs : At(p, "execute") /\ proc[p].run = r)
       => InOrder(run[r].task)
  /\ \A t \in TaskIds : task[t].source # 0 => InOrder(t)

------------------------------------------------------------------------------
(* One task at a time. *)

\* A live run of a task that nobody has forced and that follows no other.
Clear(r) == r \in LiveRuns /\ run[r].task \notin forced /\ task[run[r].task].source = 0

OInv ==
  /\ \A r, s \in RunIds : Clear(r) /\ Clear(s) => r = s
  /\ \A p \in Procs : Starting(p) /\ proc[p].task \notin forced => \A r \in RunIds : ~Clear(r)
  /\ \A p, q \in Procs : Starting(p) /\ Starting(q) /\ p # q => proc[p].task \in forced
  /\ \A p \in Procs : At(p, "build") /\ ~Starting(p) =>
       proc[p].task \in forced \/ task[proc[p].task].source # 0
  /\ \A p \in Procs : At(p, "queue") => proc[p].task \in forced \/ task[proc[p].task].source # 0

------------------------------------------------------------------------------
(* Reviews. *)

Reviewed(r) == StubsOf(r) # {}

\* The run of the process will get a stub, or has one.
UnderReview(x) ==
  \/ Reviewed(x.run)
  \/ x.pc \in {"seq", "manifest", "stub"} /\ \E i \in DOMAIN x.todo : x.run \in x.todo[i]

Seen(p) ==
  (proc[p].pc \in {"save", "review", "evaluate"} \/ (Batching(p) /\ proc[p].then = "save"))
  => (run[proc[p].run].flagged /\ proc[p].run \notin unbatched => UnderReview(proc[p]))

FInv ==
  ~crowded =>
    /\ \A p, q \in Procs : Batching(p) /\ Batching(q) => p = q
    /\ \A b \in Batches : \A r \in batch[b] :
         Reviewed(r) \/ r \in unbatched \/ \E p \in Procs : At(p, "stub") /\ r \in Head(proc[p].todo)
    /\ \A p \in Procs : Seen(p)
    /\ \A p \in Procs : At(p, "accept") /\ proc[p].how = "unreviewed" /\ proc[p].run \notin unbatched =>
         ~run[proc[p].run].flagged
    /\ \A a \in accepted : run[a.run].flagged /\ a.run \notin unbatched => a.how # "unreviewed"

------------------------------------------------------------------------------
(* Follow-ups. *)

\* A task with a run does what the review of the run asks for.
HasFollowUp(r) == r \in again \/ \E t \in FollowUps(r) : RunsOf(t) # {}

UInv ==
  /\ \A t \in TaskIds : task[t].source # 0 /\ task[t].source \notin again =>
       /\ run[task[t].source].result = "success"
       /\ \A p \in Procs : Holding(proc[p], RunIds) /\ proc[p].run = task[t].source => Followed(proc[p])
  /\ \A p \in Procs : overwritten = {} /\ Judging(proc[p], RunIds) /\ proc[p].pc \in {"queue", "build"} =>
       task[proc[p].task].source = proc[p].run
  /\ \A p \in Procs : overwritten = {} /\ At(p, "accept") /\ proc[p].how = "needs_follow_up" =>
       proc[p].run \in again \/ \E t \in FollowUps(proc[p].run) : RunsOf(t) # {}
  /\ FollowUpKept

------------------------------------------------------------------------------
(* Stranded tasks. *)

\* Whose next steps keep track of the task.
Minds(p, t) ==
  LET x == proc[p] IN
  \/ x.pc \in {"build", "queue"} /\ x.task = t
  \/ /\ \/ x.pc \in {"trigger", "save", "review", "evaluate", "accept", "number", "write", "queue", "build"}
        \/ Batching(p) /\ x.then = "save"
     /\ x.run \in RunIds /\ run[x.run].task = t
     /\ x.kind = "loop" \/ (x.kind = "worker" /\ run[x.run].at \notin Live)

\* The job of the run waits or is being executed.
Proceeding(r) ==
  \/ run[r].at \in {"pending", "awaiting_approval"}
  \/ run[r].at = "running" /\ \E p \in Procs : At(p, "execute") /\ proc[p].run = r

\* A task that is to be looked after, and one that is.
Tracked(t) == t \in TaskIds \ (left \cup forced) /\ task[t].status \in Active
Cared(t) ==
  \/ \E p \in Procs : Minds(p, t)
  \/ \E r \in RunsOf(t) : Proceeding(r)
  \/ \E a \in approvals : run[a.run].task = t

SInv == \A t \in TaskIds : Tracked(t) => Cared(t)
------------------------------------------------------------------------------
(* Types. *)

Grows == RunIds \subseteq RunIds' /\ TaskIds \subseteq TaskIds'

BoardTyped ==
  /\ task \in [Tasks -> Task \cup {None}] /\ run \in [Runs -> Run \cup {None}]
  /\ approvals \subseteq Approval
  /\ Referring

OtherTyped ==
  /\ gate \in BOOLEAN /\ batch \in [Batches -> SUBSET Runs] /\ stubs \subseteq Stub /\ cadence \in Nat
  /\ commands \in 0 .. MaxCommands /\ crashes \in 0 .. MaxCrashes
  /\ forced \subseteq Tasks /\ overwritten \subseteq forced /\ left \subseteq Tasks
  /\ crowded \in BOOLEAN /\ unbatched \subseteq Runs /\ again \subseteq Runs

LEMMA IdleTyped == Idle \in Proc /\ \A R, T : Shape(Idle, R, T)
<1>1. <<>> \in Seq(SUBSET Runs)
  OBVIOUS
<1>2. Idle \in Proc
  BY <1>1, BoundAssumption DEF Idle, Proc, PCs
<1> QED
  BY <1>2 DEF Idle, Shape

LEMMA ShapeGrows ==
  ASSUME NEW x, NEW R, NEW T, Shape(x, R, T), NEW S, NEW U, R \subseteq S, T \subseteq U
  PROVE  Shape(x, S, U)
  BY DEF Shape, Judging

LEMMA Typing ==
  ASSUME TInv, NEW p \in Procs, NEW x, Set(p, x), x \in Proc, Shape(x, RunIds', TaskIds'),
         Grows, BoardTyped', OtherTyped'
  PROVE  TInv'
<1>1. proc' \in [Procs -> Proc] /\ \A q \in Procs : proc'[q] = IF q = p THEN x ELSE proc[q]
  BY DEF TInv, TypeOK, Set
<1>2. ASSUME NEW q \in Procs PROVE Shape(proc'[q], RunIds', TaskIds')
  <2>1. CASE q = p
    BY <1>1, <2>1
  <2>2. CASE q # p
    <3>1. Shape(proc[q], RunIds, TaskIds)
      BY DEF TInv
    <3>2. Shape(proc[q], RunIds', TaskIds')
      BY <3>1, ShapeGrows DEF Grows
    <3> QED
      BY <1>1, <2>2, <3>2
  <2> QED
    BY <2>1, <2>2
<1>3. \A q \in Procs : Shape(proc[q], RunIds, TaskIds)'
  BY <1>2
<1> QED
  BY <1>1, <1>3 DEF TInv, TypeOK, BoardTyped, OtherTyped, doubts

\* A step that leaves the board and the requests alone.
LEMMA Moved ==
  ASSUME TInv, NEW p \in Procs, NEW x, Set(p, x), x \in Proc, Shape(x, RunIds, TaskIds),
         UNCHANGED <<task, run, approvals, accepted>>, OtherTyped'
  PROVE  TInv'
<1>1. RunIds' = RunIds /\ TaskIds' = TaskIds
  BY DEF RunIds, TaskIds
<1>2. BoardTyped'
  BY <1>1 DEF TInv, TypeOK, BoardTyped, Referring
<1> QED
  BY <1>1, <1>2, Typing DEF Grows

LEMMA InHandTyped == ASSUME NEW p PROVE InHand(p) \subseteq Tasks
  BY DEF InHand, TaskIds

LEMMA TypingFacts ==
  ASSUME TInv
  PROVE  /\ OtherTyped /\ BoardTyped /\ RunIds \subseteq Runs /\ TaskIds \subseteq Tasks
         /\ \A p \in Procs : proc[p] \in Proc /\ Shape(proc[p], RunIds, TaskIds)
         /\ \A t \in TaskIds : task[t] \in Task
         /\ \A r \in RunIds : run[r] \in Run /\ run[r].task \in TaskIds
  BY DEF TInv, TypeOK, OtherTyped, doubts, BoardTyped, RunIds, TaskIds, Referring

LEMMA TurnTyped ==
  ASSUME NEW x \in Proc
  PROVE  NextTurn(x) \in Proc /\ \A R, T : Shape(NextTurn(x), R, T)
<1> DEFINE y == [Idle EXCEPT !.pc = "look", !.kind = "loop", !.steps = x.steps]
<1>1. y \in Proc
  <2>1. Idle \in Proc
    BY IdleTyped
  <2>2. x.steps \in 0 .. MaxSteps
    BY DEF Proc
  <2>3. "look" \in PCs
    BY DEF PCs
  <2> QED
    BY <2>1, <2>2, <2>3, Zenon DEF Proc
<1>2. x.steps < MaxSteps => \A R, T : Shape(y, R, T)
  BY DEF Shape, Idle
<1> QED
  BY <1>1, <1>2, IdleTyped DEF NextTurn

LEMMA ChoosesTyped ==
  ASSUME TInv, NEW p \in Procs, Orchestrate(p) \/ EndsEarly(p) \/ Worker(p) \/ NothingToDo(p)
  PROVE  TInv'
<1>1. UNCHANGED <<task, run, approvals, accepted>>
  BY DEF Orchestrate, EndsEarly, Worker, NothingToDo, board, ghosts, doubts, reviews
<1>2. OtherTyped'
  BY TypingFacts, BoundAssumption DEF Orchestrate, EndsEarly, Worker, NothingToDo, board, ghosts, doubts,
     reviews, bounds, OtherTyped, Begin
<1>3. CASE UNCHANGED proc
  BY <1>1, <1>2, <1>3 DEF TInv, TypeOK, OtherTyped, doubts, RunIds, TaskIds, Referring, Shape, Judging
<1>4. CASE Set(p, NextTurn(Idle))
  BY <1>1, <1>2, <1>4, IdleTyped, TurnTyped, Moved
<1>5. CASE Set(p, Idle)
  BY <1>1, <1>2, <1>5, IdleTyped, Moved
<1>6. CASE Set(p, [Idle EXCEPT !.pc = "claim", !.kind = "worker"])
  <2> DEFINE x == [Idle EXCEPT !.pc = "claim", !.kind = "worker"]
  <2>1. x \in Proc /\ Shape(x, RunIds, TaskIds)
    BY IdleTyped DEF Proc, PCs, Shape, Idle
  <2> QED
    BY <1>1, <1>2, <1>6, <2>1, Moved
<1> QED
  BY <1>3, <1>4, <1>5, <1>6 DEF Orchestrate, EndsEarly, Worker, NothingToDo, Ends

\* Of several tasks, those of the smallest rank have one of the smallest number.
LEMMA FirstChosen ==
  ASSUME TInv, NEW S, S \subseteq TaskIds, S # {}
  PROVE  First(S) \in S
<1>1. \A t \in S : t \in Nat /\ task[t].rank \in Nat
  BY TypingFacts DEF Task, Tasks
<1> DEFINE Ranks == {task[t].rank : t \in S}
<1>2. PICK k \in Ranks : \A m \in Ranks : k <= m
  BY <1>1, Least
<1> DEFINE Urgent == {t \in S : task[t].rank = k}
<1>3. PICK t \in Urgent : \A u \in Urgent : t <= u
  BY <1>1, Least
<1>4. \A u \in S : task[t].rank < task[u].rank \/ (task[t].rank = task[u].rank /\ t <= u)
  BY <1>1, <1>2, <1>3
<1> QED
  BY <1>3, <1>4 DEF First

LEMMA LookTyped == ASSUME TInv, NEW p \in Procs, Look(p) PROVE TInv'
<1>1. UNCHANGED <<task, run, approvals, accepted>>
  BY DEF Look, board
<1>2. OtherTyped'
  <2>1. \A q \in Procs : Starting(q) => proc[q].task \in Tasks
    BY TypingFacts DEF Starting, Shape
  <2>2. Selectable # {} => First(Selectable) \in Tasks
    BY FirstChosen, TypingFacts DEF Selectable
  <2>3. forced' \subseteq Tasks /\ forced \subseteq forced'
    BY <2>1, <2>2, TypingFacts DEF Look, OtherTyped, doubts
  <2> QED
    BY <2>3, TypingFacts DEF Look, OtherTyped, doubts, reviews, bounds
<1>3. CASE Set(p, Idle)
  BY <1>1, <1>2, <1>3, IdleTyped, Moved
<1>4. CASE Goes(p, "claim")
  <2> DEFINE x == [proc[p] EXCEPT !.pc = "claim"]
  <2>1. x \in Proc /\ Shape(x, RunIds, TaskIds)
    BY TypingFacts DEF Look, At, Proc, PCs, Shape
  <2> QED
    BY <1>1, <1>2, <1>4, <2>1, Moved DEF Goes
<1>5. CASE Selectable # {} /\ Set(p, [proc[p] EXCEPT !.pc = "start", !.then = "claim", !.task = First(Selectable)])
  <2> DEFINE x == [proc[p] EXCEPT !.pc = "start", !.then = "claim", !.task = First(Selectable)]
  <2>1. First(Selectable) \in TaskIds
    BY <1>5, FirstChosen DEF Selectable
  <2> DEFINE t == First(Selectable)
  <2>2. t \in TaskIds /\ t \in Tasks
    BY <2>1, TypingFacts
  <2>3. x = [proc[p] EXCEPT !.pc = "start", !.then = "claim", !.task = t]
    OBVIOUS
  <2> HIDE DEF t, x
  <2>4. x \in Proc
    <3>1. proc[p] \in Proc /\ "start" \in PCs /\ "claim" \in PCs /\ t \in {0} \cup Tasks
      BY <2>2, TypingFacts DEF PCs
    <3> QED
      BY <2>3, <3>1, Zenon DEF Proc
  <2>5. Shape(x, RunIds, TaskIds)
    BY <2>2, <2>3, TypingFacts DEF Look, At, Proc, Shape
  <2>6. Set(p, x)
    BY <1>5 DEF x, t
  <2> QED
    BY <1>1, <1>2, <2>4, <2>5, <2>6, Moved
<1> QED
  BY <1>3, <1>4, <1>5 DEF Look, Ends

\* A task that gets another status is the same task.
LEMMA Restated ==
  ASSUME TInv, NEW t \in TaskIds, NEW v, v \in {"todo", "done", "in_progress", "queued", "awaiting_approval", "blocked"},
         task' = [task EXCEPT ![t].status = v]
  PROVE  /\ task' \in [Tasks -> Task \cup {None}] /\ TaskIds' = TaskIds
         /\ \A u \in Tasks \ {t} : task'[u] = task[u]
         /\ task'[t].status = v
         /\ \A u \in TaskIds : /\ task'[u].deps = task[u].deps /\ task'[u].files = task[u].files
                               /\ task'[u].rank = task[u].rank /\ task'[u].source = task[u].source
                               /\ task'[u].flagged = task[u].flagged
<1> DEFINE y == [task[t] EXCEPT !.status = v]
<1>1. task \in [Tasks -> Task \cup {None}] /\ t \in Tasks /\ task[t] \in Task
  BY TypingFacts DEF BoardTyped
<1>2. v \in {"todo"} \cup Done \cup Active \cup Blocked
  BY DEF Done, Active, Blocked
<1>3. y \in Task
  BY <1>1, <1>2, Zenon DEF Task
<1>4. /\ y.status = v /\ y.deps = task[t].deps /\ y.files = task[t].files /\ y.rank = task[t].rank
      /\ y.flagged = task[t].flagged /\ y.source = task[t].source
  BY <1>1 DEF Task
<1>5. task' = [task EXCEPT ![t] = y]
  OBVIOUS
<1> HIDE DEF y
<1>6. task'[t] = y /\ \A u \in Tasks \ {t} : task'[u] = task[u]
  BY <1>1, <1>5
<1>7. task' \in [Tasks -> Task \cup {None}]
  BY <1>1, <1>3, <1>5
<1>8. TaskIds' = TaskIds
  BY <1>1, <1>3, <1>6, NoneAssumption DEF TaskIds
<1> QED
  BY <1>4, <1>6, <1>7, <1>8 DEF TaskIds

\* So is a run whose job moves or whose result comes in.
LEMMA Rerun ==
  ASSUME TInv, NEW r \in RunIds, NEW y \in Run, y.task = run[r].task, run' = [run EXCEPT ![r] = y]
  PROVE  /\ run' \in [Runs -> Run \cup {None}] /\ RunIds' = RunIds /\ run'[r] = y
         /\ \A q \in Runs \ {r} : run'[q] = run[q]
         /\ \A q \in RunIds : run'[q].task = run[q].task
<1>1. run \in [Runs -> Run \cup {None}] /\ r \in Runs
  BY TypingFacts DEF BoardTyped
<1>2. run'[r] = y /\ \A q \in Runs \ {r} : run'[q] = run[q]
  BY <1>1
<1>3. RunIds' = RunIds
  BY <1>1, <1>2, NoneAssumption DEF RunIds
<1> QED
  BY <1>1, <1>2, <1>3 DEF RunIds

LEMMA BoardKept ==
  ASSUME TInv, task' \in [Tasks -> Task \cup {None}], run' \in [Runs -> Run \cup {None}],
         RunIds' = RunIds, TaskIds' = TaskIds,
         \A r \in RunIds : run'[r].task = run[r].task,
         \A t \in TaskIds : task'[t].source = task[t].source,
         approvals' \subseteq Approval, \A a \in approvals' : a.run \in RunIds,
         \A a \in accepted' : a.run \in RunIds
  PROVE  BoardTyped' /\ Grows
BY DEF TInv, BoardTyped, Referring, Grows

\* A step that does no more to the board than to write a status.
LEMMA BoardStays ==
  ASSUME TInv, UNCHANGED run,
         \/ UNCHANGED task
         \/ \E t \in TaskIds, v \in {"todo", "done", "in_progress", "queued", "awaiting_approval", "blocked"} : task' = [task EXCEPT ![t].status = v],
         approvals' \subseteq Approval, \A a \in approvals' : a.run \in RunIds,
         \A a \in accepted' : a.run \in RunIds
  PROVE  BoardTyped' /\ Grows /\ RunIds' = RunIds /\ TaskIds' = TaskIds
<1>1. RunIds' = RunIds /\ run' \in [Runs -> Run \cup {None}]
  BY TypingFacts DEF RunIds, BoardTyped
<1>2. CASE UNCHANGED task
  <2>1. TaskIds' = TaskIds /\ task' \in [Tasks -> Task \cup {None}]
    BY <1>2, TypingFacts DEF TaskIds, BoardTyped
  <2> QED
    BY <1>1, <1>2, <2>1, BoardKept
<1>3. ASSUME NEW t \in TaskIds, NEW v \in {"todo", "done", "in_progress", "queued", "awaiting_approval", "blocked"},
             task' = [task EXCEPT ![t].status = v]
      PROVE  BoardTyped' /\ Grows /\ TaskIds' = TaskIds
  BY <1>1, <1>3, Restated, BoardKept
<1> QED
  BY <1>1, <1>2, <1>3

LEMMA ReopenedTyped == ASSUME NEW t PROVE Reopened(t) \subseteq Tasks
  BY DEF Reopened, IsDone, TaskIds

LEMMA StartTyped == ASSUME TInv, NEW p \in Procs, Start(p) PROVE TInv'
<1> DEFINE x == [proc[p] EXCEPT !.pc = "build"]
<1>1. proc[p] \in Proc /\ Shape(proc[p], RunIds, TaskIds) /\ proc[p].pc = "start"
  BY TypingFacts DEF Start, At
<1>2. proc[p].task \in TaskIds
  BY <1>1 DEF Shape
<1>3. BoardTyped' /\ Grows /\ RunIds' = RunIds /\ TaskIds' = TaskIds
  BY <1>2, BoardStays, TypingFacts DEF Start, BoardTyped, Referring
<1>4. OtherTyped'
  BY ReopenedTyped, TypingFacts DEF Start, OtherTyped, doubts, reviews, bounds
<1>5. x \in Proc
  BY <1>1 DEF Proc, PCs
<1>6. Shape(x, RunIds', TaskIds')
  BY <1>1, <1>3 DEF Shape, Proc
<1> QED
  BY <1>3, <1>4, <1>5, <1>6, Typing DEF Start, Goes

LEMMA BuildFailsTyped == ASSUME TInv, NEW p \in Procs, BuildFails(p) PROVE TInv'
<1>1. proc[p].task \in TaskIds
  BY TypingFacts DEF BuildFails, At, Shape
<1>2. BoardTyped' /\ Grows /\ RunIds' = RunIds /\ TaskIds' = TaskIds
  BY <1>1, BoardStays, TypingFacts DEF BuildFails, BoardTyped, Referring
<1>3. OtherTyped'
  BY ReopenedTyped, InHandTyped, TypingFacts DEF BuildFails, OtherTyped, doubts, reviews, bounds
<1> QED
  BY <1>2, <1>3, IdleTyped, Typing DEF BuildFails, Ends

LEMMA AcceptTyped == ASSUME TInv, NEW p \in Procs, Accept(p) PROVE TInv'
<1>1. proc[p].run \in RunIds /\ run[proc[p].run].task \in TaskIds /\ proc[p] \in Proc
  BY TypingFacts DEF Accept, At, Shape, Judging
<1>2. \A a \in accepted' : a.run \in RunIds
  BY <1>1, TypingFacts DEF Accept, BoardTyped, Referring
<1>3. BoardTyped' /\ Grows
  BY <1>1, <1>2, BoardStays, TypingFacts DEF Accept, BoardTyped, Referring
<1>4. OtherTyped'
  BY TypingFacts DEF Accept, OtherTyped, doubts, reviews, bounds
<1> QED
  BY <1>1, <1>3, <1>4, TurnTyped, Typing DEF Accept

LEMMA QueueFollowUpTyped == ASSUME TInv, NEW p \in Procs, QueueFollowUp(p) PROVE TInv'
<1> DEFINE x == [proc[p] EXCEPT !.pc = "build", !.then = "accept"]
<1>1. proc[p] \in Proc /\ Shape(proc[p], RunIds, TaskIds) /\ proc[p].pc = "queue"
  BY TypingFacts DEF QueueFollowUp, At
<1>2. proc[p].task \in TaskIds
  BY <1>1 DEF Shape
<1>3. BoardTyped' /\ Grows /\ RunIds' = RunIds /\ TaskIds' = TaskIds
  BY <1>2, BoardStays, TypingFacts DEF QueueFollowUp, BoardTyped, Referring
<1>4. OtherTyped'
  BY ReopenedTyped, TypingFacts DEF QueueFollowUp, OtherTyped, doubts, reviews, bounds
<1>5. x \in Proc
  BY <1>1 DEF Proc, PCs
<1>6. Shape(x, RunIds', TaskIds')
  BY <1>1, <1>3 DEF Shape, Proc, Judging
<1> QED
  BY <1>3, <1>4, <1>5, <1>6, Typing DEF QueueFollowUp

\* A run is built.
LEMMA Built ==
  ASSUME TInv, NEW p \in Procs, Build(p)
  PROVE  \E r \in Runs \ RunIds :
           /\ run' = [run EXCEPT ![r] = NewRun(proc[p].task)]
           /\ run' \in [Runs -> Run \cup {None}] /\ run'[r] = NewRun(proc[p].task)
           /\ RunIds' = RunIds \cup {r} /\ \A q \in RunIds : run'[q] = run[q]
           /\ TaskIds' = TaskIds /\ proc[p].task \in TaskIds
           /\ \E n \in 0 .. MaxRuns : RunIds' = 1 .. n
<1> DEFINE t == proc[p].task
           r == Cardinality(RunIds) + 1
<1>1. PICK n \in 0 .. MaxRuns : RunIds = 1 .. n
  BY DEF TInv, Referring
<1>2. r = n + 1 /\ r \in Runs \ RunIds
  BY <1>1, NextRun DEF Build
<1>3. t \in TaskIds /\ t \in Tasks /\ task[t] \in Task
  BY TypingFacts DEF Build, At, Shape
<1>4. NewRun(t) \in Run
  BY <1>3, BoundAssumption DEF NewRun, Run, QueueStates, Task
<1>5. run' = [run EXCEPT ![r] = NewRun(t)] /\ run \in [Runs -> Run \cup {None}]
  BY TypingFacts DEF Build, BoardTyped
<1> HIDE DEF r, t
<1>6. run' \in [Runs -> Run \cup {None}] /\ run'[r] = NewRun(t) /\ \A q \in Runs \ {r} : run'[q] = run[q]
  BY <1>2, <1>4, <1>5
<1>7. RunIds' = RunIds \cup {r}
  BY <1>2, <1>4, <1>6, NoneAssumption DEF RunIds
<1>8. RunIds' = 1 .. (n + 1) /\ n + 1 \in 0 .. MaxRuns
  BY <1>1, <1>2, <1>7, BoundAssumption DEF Runs
<1>9. TaskIds' = TaskIds
  BY DEF Build, TaskIds
<1> QED
  BY <1>2, <1>3, <1>5, <1>6, <1>7, <1>8, <1>9 DEF t, RunIds

LEMMA BuildTyped == ASSUME TInv, NEW p \in Procs, Build(p) PROVE TInv'
<1>1. PICK r \in Runs \ RunIds :
           /\ run' \in [Runs -> Run \cup {None}] /\ run'[r] = NewRun(proc[p].task)
           /\ RunIds' = RunIds \cup {r} /\ \A q \in RunIds : run'[q] = run[q]
           /\ TaskIds' = TaskIds /\ proc[p].task \in TaskIds
           /\ \E n \in 0 .. MaxRuns : RunIds' = 1 .. n
  BY Built
<1>2. proc[p] \in Proc /\ Shape(proc[p], RunIds, TaskIds) /\ proc[p].pc = "build"
  BY TypingFacts DEF Build, At
<1>3. BoardTyped'
  <2>1. run'[r].task \in TaskIds'
    BY <1>1 DEF NewRun
  <2>2. \A q \in RunIds' : run'[q].task \in TaskIds'
    BY <1>1, <2>1, TypingFacts
  <2>3. \A u \in TaskIds' : task'[u].source \in {0} \cup RunIds'
    BY <1>1, TypingFacts DEF BoardTyped, Referring, Build
  <2>4. UNCHANGED <<task, approvals, accepted>> /\ task \in [Tasks -> Task \cup {None}]
    BY TypingFacts DEF Build, ghosts, doubts, BoardTyped
  <2>5. approvals' \subseteq Approval /\ (\A a \in approvals' : a.run \in RunIds') /\ (\A a \in accepted' : a.run \in RunIds')
    BY <1>1, <2>4, TypingFacts DEF BoardTyped, Referring
  <2>6. Referring'
    BY <1>1, <2>2, <2>3, <2>5 DEF Referring
  <2> QED
    BY <1>1, <2>4, <2>5, <2>6 DEF BoardTyped
<1>4. OtherTyped'
  BY TypingFacts DEF Build, OtherTyped, reviews, bounds, ghosts, doubts
<1>5. Grows
  BY <1>1 DEF Grows
<1>6. CASE proc[p].then = "idle"
  BY <1>3, <1>4, <1>5, <1>6, IdleTyped, Typing DEF Build, Ends
<1>7. CASE proc[p].then # "idle"
  <2> DEFINE x == [proc[p] EXCEPT !.pc = proc[p].then, !.then = "idle", !.task = 0]
  <2>1. proc[p].then \in PCs /\ "idle" \in PCs /\ 0 \in {0} \cup Tasks
    BY <1>2 DEF Proc, PCs
  <2>2. x \in Proc
    BY <1>2, <2>1, Zenon DEF Proc
  <2>3. proc[p].then \in {"claim", "accept"} /\ Shape(x, RunIds, TaskIds)
    BY <1>2, <1>7 DEF Proc, Shape, Judging
  <2>4. Shape(x, RunIds', TaskIds')
    BY <1>5, <2>3, ShapeGrows DEF Grows
  <2> QED
    BY <1>3, <1>4, <1>5, <1>7, <2>2, <2>4, Typing DEF Build
<1> QED
  BY <1>6, <1>7

\* A step that does no more to the board than to move a job or to note a result.
LEMMA JobMoves ==
  ASSUME TInv, NEW r \in RunIds, NEW y \in Run, y.task = run[r].task, run' = [run EXCEPT ![r] = y],
         UNCHANGED <<task, accepted, approvals>>
  PROVE  BoardTyped' /\ Grows /\ RunIds' = RunIds /\ TaskIds' = TaskIds
<1>1. TaskIds' = TaskIds /\ task' \in [Tasks -> Task \cup {None}]
  BY TypingFacts DEF TaskIds, BoardTyped
<1> QED
  BY <1>1, Rerun, BoardKept, TypingFacts DEF BoardTyped, Referring

ClaimedRun(r) == [run[r] EXCEPT !.at = "running", !.attempts = IF @ < MaxAttempts THEN @ + 1 ELSE @]

LEMMA Claimed ==
  ASSUME TInv, NEW p \in Procs, NEW r \in Runs, Claim(p, r)
  PROVE  /\ r \in RunIds /\ run[r].at = "pending" /\ ClaimedRun(r) \in Run
         /\ run' = [run EXCEPT ![r] = ClaimedRun(r)]
         /\ ClaimedRun(r).task = run[r].task /\ ClaimedRun(r).at = "running"
         /\ ClaimedRun(r).result = run[r].result /\ ClaimedRun(r).flagged = run[r].flagged
<1>1. r \in RunIds /\ run[r].at = "pending" /\ run[r] \in Run
  BY TypingFacts DEF Claim, InState
<1> DEFINE a == IF run[r].attempts < MaxAttempts THEN run[r].attempts + 1 ELSE run[r].attempts
<1>2. a \in 0 .. MaxAttempts /\ "running" \in QueueStates
  BY <1>1, BoundAssumption DEF Run, QueueStates
<1>3. ClaimedRun(r) = [run[r] EXCEPT !.at = "running", !.attempts = a]
  BY <1>1 DEF ClaimedRun, Run
<1>4. run \in [Runs -> Run \cup {None}]
  BY TypingFacts DEF BoardTyped
<1>5. run' = [run EXCEPT ![r] = ClaimedRun(r)]
  BY <1>1, <1>4 DEF Claim, ClaimedRun, Run
<1> HIDE DEF a
<1>6. ClaimedRun(r) \in Run
  BY <1>1, <1>2, <1>3, Zenon DEF Run
<1> QED
  BY <1>1, <1>3, <1>5, <1>6 DEF Run

LEMMA ClaimTyped == ASSUME TInv, NEW p \in Procs, NEW r \in Runs, Claim(p, r) PROVE TInv'
<1> DEFINE x == [proc[p] EXCEPT !.pc = "execute", !.run = r]
<1>1. proc[p] \in Proc /\ Shape(proc[p], RunIds, TaskIds) /\ proc[p].pc = "claim"
  BY TypingFacts DEF Claim, At
<1>2. BoardTyped' /\ Grows /\ RunIds' = RunIds /\ TaskIds' = TaskIds
  <2> DEFINE y == ClaimedRun(r)
  <2>1. r \in RunIds /\ y \in Run /\ y.task = run[r].task /\ run' = [run EXCEPT ![r] = y]
    BY Claimed
  <2> HIDE DEF y
  <2> QED
    BY <2>1, JobMoves DEF Claim, ghosts, doubts
<1>3. OtherTyped'
  BY TypingFacts DEF Claim, OtherTyped, reviews, bounds, ghosts, doubts
<1>4. "execute" \in PCs /\ r \in {0} \cup Runs
  BY DEF PCs
<1>5. x \in Proc
  BY <1>1, <1>4, Zenon DEF Proc
<1>6. Shape(x, RunIds', TaskIds')
  BY <1>1, <1>2, Claimed DEF Shape, Proc
<1> QED
  BY <1>2, <1>3, <1>5, <1>6, Typing DEF Claim

RunWith(r, q, result) == [run[r] EXCEPT !.at = q, !.result = result]

LEMMA RunWithTyped ==
  ASSUME TInv, NEW r \in RunIds, NEW q \in QueueStates, NEW result \in {"none", "success", "failed"}
  PROVE  LET y == RunWith(r, q, result) IN
         /\ y \in Run /\ y.task = run[r].task /\ y.at = q /\ y.result = result /\ y.flagged = run[r].flagged
         /\ y.attempts = run[r].attempts
<1> DEFINE y == RunWith(r, q, result)
<1>1. run[r] \in Run
  BY TypingFacts
<1>2. y \in Run
  BY <1>1, Zenon DEF Run, RunWith
<1> QED
  BY <1>1, <1>2 DEF Run, RunWith

JobAt(r, q) == \E y \in Run : /\ run' = [run EXCEPT ![r] = y] /\ y.task = run[r].task /\ y.at = q
                              /\ y.result = run[r].result /\ y.flagged = run[r].flagged

\* A job moves and nothing else does.
LEMMA Rejob ==
  ASSUME TInv, NEW r \in RunIds, NEW q \in QueueStates, run' = [run EXCEPT ![r].at = q]
  PROVE  JobAt(r, q)
<1> DEFINE y == RunWith(r, q, run[r].result)
<1>1. run \in [Runs -> Run \cup {None}] /\ r \in Runs /\ run[r] \in Run
  BY TypingFacts DEF BoardTyped
<1>2. [run[r] EXCEPT !.at = q] = y
  BY <1>1 DEF Run, RunWith
<1>3. run' = [run EXCEPT ![r] = [run[r] EXCEPT !.at = q]]
  BY <1>1
<1>4. run[r].result \in {"none", "success", "failed"}
  BY <1>1 DEF Run
<1>5. y \in Run /\ y.task = run[r].task /\ y.at = q /\ y.result = run[r].result /\ y.flagged = run[r].flagged
  BY <1>4, RunWithTyped
<1> HIDE DEF y
<1> QED
  BY <1>2, <1>3, <1>5 DEF JobAt

LEMMA AfterRunTyped ==
  ASSUME TInv, NEW r \in RunIds, NEW outcome \in {"success", "failed", "paused"}
  PROVE  AfterRun(r, outcome) \in QueueStates
<1>1. run[r].at \in QueueStates
  BY TypingFacts DEF Run
<1> QED
  BY <1>1 DEF AfterRun, Settled, QueueStates, Live

LEMMA ExecuteTyped == ASSUME TInv, NEW p \in Procs, Execute(p) PROVE TInv'
<1> DEFINE r == proc[p].run
<1>1. proc[p] \in Proc /\ Shape(proc[p], RunIds, TaskIds) /\ proc[p].pc = "execute"
  BY TypingFacts DEF Execute, At
<1>2. r \in RunIds
  BY <1>1 DEF Shape
<1>3. PICK outcome \in {"success", "failed"} :
        /\ run' = [run EXCEPT ![r].at = AfterRun(r, outcome), ![r].result = outcome]
        /\ Set(p, [proc[p] EXCEPT !.pc = "trigger", !.ok = (outcome = "success"),
                     !.steps = IF proc[p].kind = "loop" THEN @ + 1 ELSE @])
  BY DEF Execute
<1> DEFINE n == IF proc[p].kind = "loop" THEN proc[p].steps + 1 ELSE proc[p].steps
           k == (outcome = "success")
           x == [proc[p] EXCEPT !.pc = "trigger", !.ok = k, !.steps = n]
           y == RunWith(r, AfterRun(r, outcome), outcome)
<1>4. run' = [run EXCEPT ![r] = y]
  BY <1>2, <1>3, TypingFacts DEF RunWith, Run, BoardTyped
<1>5. y \in Run /\ y.task = run[r].task
  BY <1>2, AfterRunTyped, RunWithTyped
<1>6. Set(p, x)
  BY <1>1, <1>3 DEF Proc
<1>7. n \in 0 .. MaxSteps /\ k \in BOOLEAN /\ "trigger" \in PCs
  BY <1>1, BoundAssumption DEF Shape, Proc, PCs
<1> HIDE DEF n, k, y
<1>8. x \in Proc
  BY <1>1, <1>7, Zenon DEF Proc
<1>9. BoardTyped' /\ Grows /\ RunIds' = RunIds /\ TaskIds' = TaskIds
  BY <1>2, <1>4, <1>5, JobMoves DEF Execute, ghosts, doubts
<1>10. OtherTyped'
  BY TypingFacts DEF Execute, OtherTyped, reviews, bounds, ghosts, doubts
<1>11. Shape(x, RunIds', TaskIds')
  BY <1>1, <1>9 DEF Shape, Proc
<1> QED
  BY <1>6, <1>8, <1>9, <1>10, <1>11, Typing

LEMMA PauseTyped == ASSUME TInv, NEW p \in Procs, Pause(p) PROVE TInv'
<1> DEFINE r == proc[p].run
           q == AfterRun(r, "paused")
<1>1. r \in RunIds
  BY TypingFacts DEF Pause, At, Shape
<1>2. q \in QueueStates
  BY <1>1, AfterRunTyped
<1>3. run' = [run EXCEPT ![r].at = q]
  BY DEF Pause
<1> HIDE DEF q
<1>4. PICK y \in Run : run' = [run EXCEPT ![r] = y] /\ y.task = run[r].task
  <2>1. JobAt(r, q)
    BY <1>1, <1>2, <1>3, Rejob
  <2> QED
    BY <2>1 DEF JobAt
<1>5. BoardTyped' /\ Grows
  BY <1>1, <1>4, JobMoves DEF Pause, ghosts, doubts
<1>6. OtherTyped'
  BY TypingFacts DEF Pause, OtherTyped, reviews, bounds, ghosts, doubts
<1> QED
  BY <1>5, <1>6, IdleTyped, Typing DEF Pause, Ends

\* A guardrail that stops a run writes to its task and asks.
LEMMA GuardedMoves ==
  ASSUME TInv, NEW p \in Procs, Guarded(p)
  PROVE  LET r == proc[p].run
             t == run[r].task
             q == AfterRun(r, "paused")
         IN  /\ r \in RunIds /\ t \in TaskIds /\ q \in QueueStates /\ run' = [run EXCEPT ![r].at = q]
             /\ task' = [task EXCEPT ![t].status = "awaiting_approval"]
             /\ approvals' = approvals \cup {[run |-> r, action |-> "run"]}
             /\ approvals' \subseteq Approval /\ \A a \in approvals' : a.run \in RunIds
<1> DEFINE r == proc[p].run
<1>1. r \in RunIds /\ run[r].task \in TaskIds
  BY TypingFacts DEF Guarded, At, Shape
<1>2. [run |-> r, action |-> "run"] \in Approval
  BY <1>1, TypingFacts DEF Approval
<1>3. approvals \subseteq Approval /\ \A a \in approvals : a.run \in RunIds
  BY TypingFacts DEF BoardTyped, Referring
<1> QED
  BY <1>1, <1>2, <1>3, AfterRunTyped DEF Guarded

LEMMA GuardedTyped == ASSUME TInv, NEW p \in Procs, Guarded(p) PROVE TInv'
<1> DEFINE r == proc[p].run
           t == run[r].task
           q == AfterRun(r, "paused")
<1>1. /\ r \in RunIds /\ t \in TaskIds /\ q \in QueueStates /\ run' = [run EXCEPT ![r].at = q]
      /\ task' = [task EXCEPT ![t].status = "awaiting_approval"]
      /\ approvals' \subseteq Approval /\ \A a \in approvals' : a.run \in RunIds
  BY GuardedMoves
<1> HIDE DEF q
<1>2. PICK y \in Run : run' = [run EXCEPT ![r] = y] /\ y.task = run[r].task
  <2>1. JobAt(r, q)
    BY <1>1, Rejob
  <2> QED
    BY <2>1 DEF JobAt
<1>3. OtherTyped'
  BY <1>1, ReopenedTyped, TypingFacts DEF Guarded, OtherTyped, doubts, reviews, bounds
<1>4. UNCHANGED accepted
  BY DEF Guarded
<1> HIDE DEF r, t
<1>5. run' \in [Runs -> Run \cup {None}] /\ RunIds' = RunIds /\ \A s \in RunIds : run'[s].task = run[s].task
  BY <1>1, <1>2, Rerun
<1>6. /\ task' \in [Tasks -> Task \cup {None}] /\ TaskIds' = TaskIds
      /\ \A u \in TaskIds : task'[u].source = task[u].source
  BY <1>1, Restated
<1>7. \A a \in accepted' : a.run \in RunIds
  BY <1>4, TypingFacts DEF BoardTyped, Referring
<1>8. BoardTyped' /\ Grows
  BY <1>1, <1>5, <1>6, <1>7, BoardKept
<1> QED
  BY <1>3, <1>8, IdleTyped, Typing DEF Guarded, Ends

\* A step that leaves the processes where they are.
LEMMA Staying ==
  ASSUME TInv, UNCHANGED proc, BoardTyped', Grows, OtherTyped'
  PROVE  TInv'
<1>1. \A q \in Procs : Shape(proc[q], RunIds', TaskIds')
  BY ShapeGrows DEF TInv, Grows
<1> QED
  BY <1>1 DEF TInv, TypeOK, BoardTyped, OtherTyped, doubts

LEMMA ReleaseTyped == ASSUME TInv, NEW r \in Runs, Release(r) PROVE TInv'
<1>1. r \in RunIds /\ "pending" \in QueueStates /\ run' = [run EXCEPT ![r].at = "pending"]
  BY DEF Release, InState, QueueStates
<1>2. PICK y \in Run : run' = [run EXCEPT ![r] = y] /\ y.task = run[r].task
  <2>1. JobAt(r, "pending")
    BY <1>1, Rejob
  <2> QED
    BY <2>1 DEF JobAt
<1>3. BoardTyped' /\ Grows
  BY <1>1, <1>2, JobMoves DEF Release, ghosts, doubts
<1>4. OtherTyped'
  BY TypingFacts DEF Release, OtherTyped, reviews, bounds, ghosts, doubts
<1> QED
  BY <1>3, <1>4, Staying DEF Release

\* What becomes of a job that is taken back.
Reclaimed(r) ==
  IF run[r].at = "stub" THEN "none" ELSE IF run[r].attempts < MaxAttempts THEN "pending" ELSE "failed"

LEMMA ReclaimMoves ==
  ASSUME TInv, NEW r \in Runs, Reclaim(r)
  PROVE  /\ r \in RunIds /\ run[r].at \in {"running", "stub"} /\ Reclaimed(r) \in QueueStates
         /\ run' = [run EXCEPT ![r].at = Reclaimed(r)]
         /\ run[r].at = "running" => \A p \in Procs : ~(At(p, "execute") /\ proc[p].run = r)
BY DEF Reclaim, InState, Reclaimed, QueueStates

LEMMA ReclaimTyped == ASSUME TInv, NEW r \in Runs, Reclaim(r) PROVE TInv'
<1> DEFINE q == Reclaimed(r)
<1>1. r \in RunIds /\ q \in QueueStates /\ run' = [run EXCEPT ![r].at = q]
  BY ReclaimMoves
<1> HIDE DEF q
<1>2. PICK y \in Run : run' = [run EXCEPT ![r] = y] /\ y.task = run[r].task
  <2>1. JobAt(r, q)
    BY <1>1, Rejob
  <2> QED
    BY <2>1 DEF JobAt
<1>3. BoardTyped' /\ Grows
  BY <1>1, <1>2, JobMoves DEF Reclaim, ghosts, doubts
<1>4. OtherTyped'
  BY TypingFacts DEF Reclaim, OtherTyped, reviews, bounds, ghosts, doubts
<1> QED
  BY <1>3, <1>4, Staying DEF Reclaim

LEMMA RetryTyped == ASSUME TInv, NEW a \in approvals, Retry(a) PROVE TInv'
<1> DEFINE r == a.run
           t == run[a.run].task
<1>1. r \in RunIds /\ t \in TaskIds
  BY TypingFacts DEF BoardTyped, Referring
<1>2. "none" \in QueueStates /\ run' = [run EXCEPT ![r].at = "none"]
  BY DEF Retry, QueueStates
<1>3. PICK y \in Run : run' = [run EXCEPT ![r] = y] /\ y.task = run[r].task
  <2>1. JobAt(r, "none")
    BY <1>1, <1>2, Rejob
  <2> QED
    BY <2>1 DEF JobAt
<1>4. task' = [task EXCEPT ![t].status = "todo"] /\ approvals' \subseteq approvals /\ UNCHANGED accepted
  BY DEF Retry, Resolves
<1> HIDE DEF r, t
<1>5. BoardTyped' /\ Grows
  BY <1>1, <1>3, <1>4, Rerun, Restated, BoardKept, TypingFacts DEF BoardTyped, Referring
<1>6. OtherTyped'
  BY ReopenedTyped, TypingFacts DEF Retry, OtherTyped, doubts, reviews, bounds
<1> QED
  BY <1>5, <1>6, Staying DEF Retry

LEMMA DismissTyped == ASSUME TInv, NEW a \in approvals, Dismiss(a) PROVE TInv'
<1>1. BoardTyped' /\ Grows
  BY BoardStays, TypingFacts DEF Dismiss, Resolves, board, BoardTyped, Referring
<1>2. run[a.run].task \in Tasks
  BY TypingFacts DEF BoardTyped, Referring
<1>3. OtherTyped'
  BY <1>2, TypingFacts DEF Dismiss, OtherTyped, doubts, reviews, bounds
<1> QED
  BY <1>1, <1>3, Staying DEF Dismiss

LEMMA AcceptAskedTyped == ASSUME TInv, NEW a \in approvals, AcceptAsked(a) PROVE TInv'
<1>1. run[a.run].task \in TaskIds
  BY TypingFacts DEF BoardTyped, Referring
<1>2. BoardTyped' /\ Grows
  BY <1>1, BoardStays, TypingFacts DEF AcceptAsked, Resolves, ghosts, BoardTyped, Referring
<1>3. OtherTyped'
  BY TypingFacts DEF AcceptAsked, OtherTyped, ghosts, doubts, reviews, bounds
<1> QED
  BY <1>2, <1>3, Staying DEF AcceptAsked

LEMMA BlockTyped == ASSUME TInv, NEW a \in approvals, Block(a) PROVE TInv'
<1>1. run[a.run].task \in TaskIds
  BY TypingFacts DEF BoardTyped, Referring
<1>2. BoardTyped' /\ Grows
  BY <1>1, BoardStays, TypingFacts DEF Block, Resolves, BoardTyped, Referring
<1>3. OtherTyped'
  BY ReopenedTyped, TypingFacts DEF Block, OtherTyped, doubts, reviews, bounds
<1> QED
  BY <1>2, <1>3, Staying DEF Block

\* The job of a request to run goes on, comes back with all its attempts, or stays
\* without a run.
Admitted(r) == IF run[r].at = "stub" THEN "stub" ELSE "pending"
AdmittedRun(r) ==
  [run[r] EXCEPT !.at = Admitted(r), !.attempts = IF run[r].at = "none" THEN 0 ELSE @]

LEMMA AdmitMoves ==
  ASSUME TInv, NEW a \in approvals, Admit(a)
  PROVE  LET r == a.run
             y == AdmittedRun(r)
         IN  /\ r \in RunIds /\ run[r].task \in TaskIds /\ y \in Run /\ run' = [run EXCEPT ![r] = y]
             /\ y.task = run[r].task /\ y.at = Admitted(r) /\ y.result = run[r].result
             /\ y.flagged = run[r].flagged /\ run[r].at \in {"awaiting_approval", "none", "stub"}
<1> DEFINE r == a.run
           n == IF run[r].at = "none" THEN 0 ELSE run[r].attempts
           q == Admitted(r)
           y == [run[r] EXCEPT !.at = q, !.attempts = n]
<1>1. r \in RunIds /\ run[r].task \in TaskIds
  BY TypingFacts DEF BoardTyped, Referring
<1>2. run[r] \in Run /\ run \in [Runs -> Run \cup {None}] /\ r \in Runs
  BY <1>1, TypingFacts DEF BoardTyped
<1>3. n \in 0 .. MaxAttempts /\ q \in QueueStates
  BY <1>2, BoundAssumption DEF Run, QueueStates, Admitted
<1>4. AdmittedRun(r) = y
  BY <1>2 DEF Run, AdmittedRun
<1>5. run' = [run EXCEPT ![r] = y]
  BY <1>2 DEF Admit, Run, Admitted
<1> HIDE DEF n, q
<1>6. y \in Run
  BY <1>2, <1>3, Zenon DEF Run
<1>7. y.task = run[r].task /\ y.at = q /\ y.result = run[r].result /\ y.flagged = run[r].flagged
  BY <1>2 DEF Run
<1> HIDE DEF y
<1>8. run[r].at \in {"awaiting_approval", "none", "stub"}
  BY DEF Admit
<1> QED
  BY <1>1, <1>4, <1>5, <1>6, <1>7, <1>8 DEF q

LEMMA AdmitTyped == ASSUME TInv, NEW a \in approvals, Admit(a) PROVE TInv'
<1> DEFINE r == a.run
           t == run[r].task
<1>1. r \in RunIds /\ t \in TaskIds /\ \E y \in Run : run' = [run EXCEPT ![r] = y] /\ y.task = t
  BY AdmitMoves
<1>2. task' = [task EXCEPT ![t].status = "queued"] /\ approvals' \subseteq approvals /\ UNCHANGED accepted
  BY DEF Admit, Resolves
<1>3. /\ forced' \subseteq forced \cup Reopened(t) \cup {t} /\ forced \subseteq forced'
      /\ again' \subseteq again \cup {r} /\ left' \subseteq left \cup {t}
  BY DEF Admit
<1>4. OtherTyped'
  BY <1>1, <1>3, ReopenedTyped, TypingFacts DEF Admit, OtherTyped, reviews, bounds
<1> HIDE DEF r, t
<1>5. PICK y \in Run : run' = [run EXCEPT ![r] = y] /\ y.task = run[r].task
  BY <1>1 DEF t
<1>6. BoardTyped' /\ Grows
  BY <1>1, <1>2, <1>5, Rerun, Restated, BoardKept, TypingFacts DEF BoardTyped, Referring
<1> QED
  BY <1>4, <1>6, Staying DEF Admit

LEMMA AskHumanTyped ==
  ASSUME TInv, NEW r \in Runs, NEW action \in Askable, AskHuman(r, action)
  PROVE  TInv'
<1>1. approvals' \subseteq Approval /\ \A a \in approvals' : a.run \in RunIds
  <2> DEFINE b == [run |-> r, action |-> action]
  <2>1. b \in Approval /\ b.run \in RunIds
    BY DEF Approval, AskHuman
  <2> QED
    BY <2>1, TypingFacts DEF AskHuman, BoardTyped, Referring
<1>2. BoardTyped' /\ Grows
  BY <1>1, BoardStays, TypingFacts DEF AskHuman, ghosts, board, BoardTyped, Referring
<1>3. OtherTyped'
  BY TypingFacts, BoundAssumption DEF AskHuman, OtherTyped, ghosts, doubts, reviews, bounds
<1> QED
  BY <1>2, <1>3, Staying DEF AskHuman

\* A checkpoint is rejected.
Rejected(r) == IF run[r].at = "stub" THEN "none" ELSE "failed"

LEMMA RejectMoves ==
  ASSUME TInv, NEW r \in Runs, Reject(r)
  PROVE  /\ r \in RunIds /\ run[r].at \in {"awaiting_approval", "stub"} /\ Rejected(r) \in QueueStates
         /\ run' = [run EXCEPT ![r].at = Rejected(r)]
BY DEF Reject, InState, Rejected, QueueStates

LEMMA RejectTyped == ASSUME TInv, NEW r \in Runs, Reject(r) PROVE TInv'
<1> DEFINE q == Rejected(r)
<1>1. r \in RunIds /\ q \in QueueStates /\ run' = [run EXCEPT ![r].at = q]
  BY RejectMoves
<1> HIDE DEF q
<1>2. PICK y \in Run : run' = [run EXCEPT ![r] = y] /\ y.task = run[r].task
  <2>1. JobAt(r, q)
    BY <1>1, Rejob
  <2> QED
    BY <2>1 DEF JobAt
<1>3. BoardTyped' /\ Grows
  BY <1>1, <1>2, JobMoves DEF Reject
<1>4. run[r].task \in Tasks
  BY <1>1, TypingFacts
<1>5. OtherTyped'
  BY <1>4, TypingFacts DEF Reject, OtherTyped, doubts, reviews, bounds
<1> QED
  BY <1>3, <1>5, Staying DEF Reject

LEMMA MarkDoneTyped == ASSUME TInv, NEW t \in Tasks, MarkDone(t) PROVE TInv'
<1>1. BoardTyped' /\ Grows
  BY BoardStays, TypingFacts DEF MarkDone, BoardTyped, Referring, ghosts, doubts
<1>2. OtherTyped'
  BY TypingFacts, BoundAssumption DEF MarkDone, OtherTyped, reviews, bounds, ghosts, doubts
<1> QED
  BY <1>1, <1>2, Staying DEF MarkDone

LEMMA DecidedTyped ==
  ASSUME stubs \subseteq Stub, NEW S, S \subseteq stubs, NEW v \in Verdicts
  PROVE  Decided(S, v) \subseteq Stub
<1>1. ASSUME NEW s \in S PROVE [s EXCEPT !.verdict = v] \in Stub
  BY DEF Stub, Verdicts
<1> QED
  BY <1>1 DEF Decided

LEMMA DecideTyped == ASSUME TInv, Decide PROVE TInv'
<1>1. BoardTyped' /\ Grows
  BY BoardStays, TypingFacts DEF Decide, BoardTyped, Referring, ghosts, doubts, board
<1>2. stubs' \subseteq Stub
  <2>1. PICK s \in PendingStubs(stubs), v \in Verdicts : stubs' = Decided({s}, v)
    BY DEF Decide
  <2>2. {s} \subseteq stubs /\ stubs \subseteq Stub
    BY TypingFacts DEF PendingStubs, OtherTyped, doubts
  <2> QED
    BY <2>1, <2>2, DecidedTyped
<1>3. commands' \in 0 .. MaxCommands
  BY TypingFacts, BoundAssumption DEF Decide, OtherTyped
<1>4. UNCHANGED <<gate, batch, cadence, crashes, ghosts>>
  BY DEF Decide
<1>5. OtherTyped'
  BY <1>2, <1>3, <1>4, TypingFacts DEF OtherTyped, ghosts, doubts
<1> QED
  BY <1>1, <1>5, Staying DEF Decide

LEMMA TriggerTyped == ASSUME TInv, NEW p \in Procs, Trigger(p) PROVE TInv'
<1> DEFINE r == proc[p].run
           count == IF ~Immediate(r) /\ proc[p].ok THEN cadence + 1 ELSE cadence
           asked == Immediate(r) \/ (proc[p].ok /\ count >= Cadence)
           due == IF asked THEN DueBatches ELSE <<>>
           periodic == \E i \in DOMAIN due : \A q \in due[i] : ~Immediate(q)
           c == IF periodic THEN 0 ELSE count
           pc == IF due = <<>> THEN "save" ELSE "seq"
           x == [proc[p] EXCEPT !.pc = pc, !.then = "save", !.todo = due, !.count = c]
<1>1. proc[p] \in Proc /\ Shape(proc[p], RunIds, TaskIds) /\ proc[p].pc = "trigger"
  BY TypingFacts DEF Trigger, At
<1>2. due \in Seq(SUBSET Runs)
  BY DueTyped DEF TInv
<1>3. c \in Nat
  BY TypingFacts DEF OtherTyped, doubts
<1>4. pc \in PCs /\ "save" \in PCs /\ (pc = "seq" => due # <<>>) /\ pc \in {"save", "seq"}
  BY DEF PCs
<1>5. Set(p, x)
  BY DEF Trigger
<1> HIDE DEF due, c, pc
<1>6. x \in Proc
  BY <1>1, <1>2, <1>3, <1>4, Zenon DEF Proc
<1>7. Shape(x, RunIds, TaskIds)
  BY <1>1, <1>4 DEF Shape, Proc
<1>8. OtherTyped'
  BY TypingFacts DEF Trigger, OtherTyped, doubts, reviews, bounds
<1> QED
  BY <1>5, <1>6, <1>7, <1>8, Moved DEF Trigger, board

LEMMA BatchNumberTyped == ASSUME TInv, NEW p \in Procs, BatchNumber(p) PROVE TInv'
<1> DEFINE S == {b \in Batches : batch[b] # {}}
           n == Largest(S) + 1
           x == [proc[p] EXCEPT !.pc = "manifest", !.seq = n]
<1>1. proc[p] \in Proc /\ Shape(proc[p], RunIds, TaskIds) /\ proc[p].pc = "seq"
  BY TypingFacts DEF BatchNumber, At
<1>2. n \in Batches
  <2>1. S \subseteq 1 .. MaxBatches
    BY DEF Batches
  <2>2. Largest(S) \in 0 .. MaxBatches /\ n <= MaxBatches
    BY <2>1, Greatest, BoundAssumption DEF BatchNumber
  <2> QED
    BY <2>2, BoundAssumption DEF Batches
<1>3. n \in Nat /\ "manifest" \in PCs
  BY <1>2 DEF Batches, PCs
<1>4. Set(p, x)
  BY DEF BatchNumber
<1> HIDE DEF n
<1>5. x \in Proc
  BY <1>1, <1>3, Zenon DEF Proc
<1>6. Shape(x, RunIds, TaskIds)
  BY <1>1, <1>2 DEF Shape, Proc
<1>7. OtherTyped'
  BY TypingFacts DEF BatchNumber, OtherTyped, reviews, bounds, ghosts, doubts
<1> QED
  BY <1>4, <1>5, <1>6, <1>7, Moved DEF BatchNumber, board, ghosts, doubts

LEMMA ManifestTyped == ASSUME TInv, NEW p \in Procs, Manifest(p) PROVE TInv'
<1> DEFINE x == [proc[p] EXCEPT !.pc = "stub"]
<1>1. proc[p] \in Proc /\ Shape(proc[p], RunIds, TaskIds) /\ proc[p].pc = "manifest"
  BY TypingFacts DEF Manifest, At
<1>2. proc[p].todo \in Seq(SUBSET Runs) /\ proc[p].todo # <<>>
  BY <1>1 DEF Shape, Proc
<1>3. Head(proc[p].todo) \in SUBSET Runs
  BY <1>2, HeadTailProperties
<1>4. x \in Proc
  BY <1>1 DEF Proc, PCs
<1>5. Shape(x, RunIds, TaskIds)
  BY <1>1 DEF Shape, Proc
<1>6. OtherTyped'
  BY <1>3, TypingFacts DEF Manifest, OtherTyped, bounds, ghosts, doubts
<1> QED
  BY <1>4, <1>5, <1>6, Moved DEF Manifest, board, ghosts, doubts, Goes

\* What a process has still to write stubs for are runs.
LEMMA UnmadeTyped ==
  ASSUME TInv, NEW p \in Procs
  PROVE  Unmade(p) \subseteq Runs /\ HalfMade(p) \subseteq Runs /\ HalfMade(p) \subseteq Unmade(p)
<1>1. proc[p] \in Proc /\ Shape(proc[p], RunIds, TaskIds)
  BY TypingFacts
<1>2. proc[p].todo \in Seq(SUBSET Runs)
  BY <1>1 DEF Proc
<1>3. \A i \in DOMAIN proc[p].todo : proc[p].todo[i] \subseteq Runs
  BY <1>2
<1>4. At(p, "stub") => 1 \in DOMAIN proc[p].todo /\ Head(proc[p].todo) = proc[p].todo[1]
  <2>1. At(p, "stub") => proc[p].todo # <<>>
    BY <1>1 DEF At, Shape
  <2> QED
    BY <1>2, <2>1
<1>5. Unmade(p) \subseteq Runs
  BY <1>1, <1>3, TypingFacts DEF Unmade, At, Shape
<1>6. HalfMade(p) \subseteq Unmade(p)
  BY <1>4 DEF HalfMade, Unmade, Batching, At
<1> QED
  BY <1>5, <1>6

LEMMA WithStubsTyped ==
  ASSUME stubs \subseteq Stub, NEW b \in Batches, NEW R, R \subseteq Runs
  PROVE  WithStubs(b, R) \subseteq Stub
<1>1. [batch : {b}, run : R, verdict : {"pending"}] \subseteq Stub
  BY DEF Stub
<1> QED
  BY <1>1 DEF WithStubs

LEMMA DecisionStubsTyped == ASSUME TInv, NEW p \in Procs, DecisionStubs(p) PROVE TInv'
<1> DEFINE y == proc[p]
<1>1. y \in Proc /\ Shape(y, RunIds, TaskIds) /\ y.pc = "stub"
  BY TypingFacts DEF DecisionStubs, At
<1>2. y.todo \in Seq(SUBSET Runs) /\ y.todo # <<>> /\ y.seq \in Batches
  BY <1>1 DEF Shape, Proc
<1>3. Head(y.todo) \in SUBSET Runs /\ Tail(y.todo) \in Seq(SUBSET Runs)
  BY <1>2, HeadTailProperties
<1>4. stubs' \subseteq Stub
  <2>1. stubs \subseteq Stub
    BY TypingFacts DEF OtherTyped
  <2> QED
    BY <1>2, <1>3, <2>1, WithStubsTyped DEF DecisionStubs
<1>5. OtherTyped'
  BY <1>4, TypingFacts DEF DecisionStubs, OtherTyped, bounds, ghosts, doubts
<1>6. AfterStubs(y) \in Proc /\ Shape(AfterStubs(y), RunIds, TaskIds)
  <2>1. CASE Len(y.todo) > 1
    <3> DEFINE rest == Tail(y.todo)
               x == [y EXCEPT !.pc = "seq", !.seq = 0, !.todo = rest]
    <3>1. AfterStubs(y) = x
      BY <1>1, <2>1 DEF AfterStubs, Proc
    <3>2. rest \in Seq(SUBSET Runs) /\ rest # <<>>
      <4>1. Len(rest) = Len(y.todo) - 1
        BY <1>2, HeadTailProperties
      <4>2. Len(y.todo) \in Nat
        BY <1>2
      <4>3. \A m, n \in Nat : n > 1 /\ m = n - 1 => m # 0
        OBVIOUS
      <4>4. rest \in Seq(SUBSET Runs) /\ Len(rest) \in Nat
        BY <1>3
      <4>5. Len(rest) # 0
        BY <2>1, <4>1, <4>2, <4>3, <4>4
      <4> QED
        BY <4>4, <4>5, EmptySeq
    <3>3. "seq" \in PCs /\ 0 \in Nat
      BY DEF PCs
    <3> HIDE DEF rest
    <3>4. x \in Proc
      BY <1>1, <3>2, <3>3, Zenon DEF Proc
    <3>5. Shape(x, RunIds, TaskIds)
      BY <1>1, <3>2 DEF Shape, Proc
    <3> QED
      BY <3>1, <3>4, <3>5
  <2>2. CASE ~(Len(y.todo) > 1) /\ y.then = "idle"
    BY <2>2, IdleTyped DEF AfterStubs
  <2>3. CASE ~(Len(y.todo) > 1) /\ y.then # "idle"
    <3> DEFINE x == [y EXCEPT !.pc = "save", !.then = "idle", !.seq = 0, !.todo = <<>>]
    <3>1. y.then = "save" /\ y.kind \in {"loop", "worker"} /\ y.run \in RunIds
      BY <1>1, <2>3 DEF Shape
    <3>2. AfterStubs(y) = x
      BY <2>3, <3>1 DEF AfterStubs
    <3>3. "save" \in PCs /\ "idle" \in PCs /\ 0 \in Nat /\ <<>> \in Seq(SUBSET Runs)
      BY DEF PCs
    <3>4. x \in Proc
      BY <1>1, <3>3, Zenon DEF Proc
    <3>5. Shape(x, RunIds, TaskIds)
      BY <1>1, <3>1 DEF Shape, Proc
    <3> QED
      BY <3>2, <3>4, <3>5
  <2> QED
    BY <2>1, <2>2, <2>3
<1> QED
  BY <1>5, <1>6, Moved DEF DecisionStubs, board, ghosts, doubts

LEMMA SaveCadenceTyped == ASSUME TInv, NEW p \in Procs, SaveCadence(p) PROVE TInv'
<1> DEFINE x == [proc[p] EXCEPT !.pc = "review", !.count = 0]
<1>1. proc[p] \in Proc /\ Shape(proc[p], RunIds, TaskIds) /\ proc[p].pc = "save"
  BY TypingFacts DEF SaveCadence, At
<1>2. x \in Proc
  <2>1. "review" \in PCs /\ 0 \in Nat
    BY DEF PCs
  <2> QED
    BY <1>1, <2>1, Zenon DEF Proc
<1>3. Shape(x, RunIds, TaskIds)
  BY <1>1 DEF Shape, Proc
<1>4. OtherTyped'
  BY <1>1, TypingFacts DEF SaveCadence, OtherTyped, bounds, ghosts, doubts, Proc
<1> QED
  BY <1>2, <1>3, <1>4, Moved DEF SaveCadence, board, ghosts, doubts

\* A worker that is through with its run goes on to judge it, or ends.
LEMMA WorkedTyped ==
  ASSUME TInv, NEW p \in Procs, At(p, "trigger") \/ At(p, "review"), Worked(p),
         UNCHANGED <<task, run, approvals, accepted>>, left' \subseteq Tasks => OtherTyped'
  PROVE  TInv'
<1> DEFINE x == [proc[p] EXCEPT !.pc = "evaluate"]
<1>1. proc[p] \in Proc /\ Shape(proc[p], RunIds, TaskIds) /\ proc[p].pc \in {"trigger", "review"}
  BY TypingFacts DEF At
<1>2. left' \subseteq Tasks
  BY InHandTyped, TypingFacts DEF Worked, OtherTyped
<1>3. OtherTyped'
  BY <1>2
<1>4. CASE Set(p, Idle)
  BY <1>3, <1>4, IdleTyped, Moved
<1>5. CASE proc[p].kind = "loop" /\ Goes(p, "evaluate")
  <2>1. x \in Proc
    BY <1>1 DEF Proc, PCs
  <2>2. Shape(x, RunIds, TaskIds)
    BY <1>1, <1>5 DEF Shape, Proc
  <2> QED
    BY <1>3, <1>5, <2>1, <2>2, Moved DEF Goes
<1> QED
  BY <1>4, <1>5 DEF Worked, Ends

LEMMA ReviewTyped == ASSUME TInv, NEW p \in Procs, Review(p) PROVE TInv'
<1>1. stubs' \subseteq Stub
  <2>1. PendingStubs(stubs) \subseteq stubs /\ stubs \subseteq Stub
    BY TypingFacts DEF PendingStubs, OtherTyped
  <2> QED
    BY <2>1, DecidedTyped DEF Review
<1>2. left' \subseteq Tasks => OtherTyped'
  BY <1>1, TypingFacts DEF Review, OtherTyped, doubts, bounds
<1> QED
  BY <1>2, WorkedTyped DEF Review, board

LEMMA SkipReviewTyped == ASSUME TInv, NEW p \in Procs, SkipReview(p) PROVE TInv'
<1>1. proc[p].run \in Runs
  BY TypingFacts DEF SkipReview, At, Shape
<1>2. left' \subseteq Tasks => OtherTyped'
  BY <1>1, TypingFacts DEF SkipReview, OtherTyped, reviews, bounds
<1> QED
  BY <1>2, WorkedTyped DEF SkipReview, board

LEMMA ReviewFailsTyped == ASSUME TInv, NEW p \in Procs, ReviewFails(p) PROVE TInv'
<1>1. proc[p] \in Proc /\ Shape(proc[p], RunIds, TaskIds)
  BY TypingFacts
<1>2. PICK R \in SUBSET HalfMade(p) :
        stubs' = WithStubs(proc[p].seq, R) /\ unbatched' = unbatched \cup (Unmade(p) \ R)
  BY DEF ReviewFails
<1>3. stubs \subseteq Stub
  BY TypingFacts DEF OtherTyped
<1>4. stubs' \subseteq Stub
  <2>1. CASE At(p, "stub")
    <3>1. proc[p].seq \in Batches /\ R \subseteq Runs
      BY <1>1, <2>1, UnmadeTyped DEF Shape, At
    <3> QED
      BY <1>2, <1>3, <3>1, WithStubsTyped
  <2>2. CASE ~At(p, "stub")
    <3>1. R = {}
      BY <2>2 DEF HalfMade
    <3>2. [batch : {proc[p].seq}, run : {}, verdict : {"pending"}] = {}
      OBVIOUS
    <3> QED
      BY <1>2, <1>3, <3>1, <3>2 DEF WithStubs
  <2> QED
    BY <2>1, <2>2
<1>5. OtherTyped'
  BY <1>2, <1>4, UnmadeTyped, TypingFacts DEF ReviewFails, OtherTyped, bounds
<1>6. CASE Set(p, Idle)
  BY <1>5, <1>6, IdleTyped, Moved DEF ReviewFails, board
<1>7. CASE ~(Batching(p) /\ proc[p].then = "idle")
  <2> DEFINE x == [proc[p] EXCEPT !.pc = "review", !.then = "idle", !.todo = <<>>, !.seq = 0, !.count = 0]
  <2>1. "review" \in PCs /\ "idle" \in PCs /\ 0 \in Nat /\ <<>> \in Seq(SUBSET Runs)
    BY DEF PCs
  <2>2. x \in Proc
    BY <1>1, <2>1, Zenon DEF Proc
  <2>3. proc[p].kind \in {"loop", "worker"} /\ proc[p].run \in RunIds
    BY <1>1, <1>7 DEF ReviewFails, Batching, Shape
  <2>4. Shape(x, RunIds, TaskIds)
    BY <1>1, <2>3 DEF Shape, Proc
  <2> QED
    BY <1>5, <1>7, <2>2, <2>4, Moved DEF ReviewFails, board
<1> QED
  BY <1>6, <1>7 DEF ReviewFails, Ends

\* What the loop asks about is the run in its hands.
LEMMA AsksTyped ==
  ASSUME TInv, NEW p \in Procs, NEW action \in {"retry", "follow_up"}, Asks(p, action),
         At(p, "evaluate"), UNCHANGED <<board, accepted>>, OtherTyped'
  PROVE  TInv'
<1>1. proc[p].run \in RunIds
  BY TypingFacts DEF At, Shape
<1>2. approvals' \subseteq Approval /\ \A a \in approvals' : a.run \in RunIds
  <2> DEFINE b == [run |-> proc[p].run, action |-> action]
  <2>1. b \in Approval /\ b.run \in RunIds
    BY <1>1, TypingFacts DEF Approval, Askable
  <2> QED
    BY <2>1, TypingFacts DEF Asks, BoardTyped, Referring
<1>3. BoardTyped' /\ Grows
  BY <1>2, BoardStays, TypingFacts DEF board, BoardTyped, Referring
<1> QED
  BY <1>3, IdleTyped, Typing DEF Asks, Ends

LEMMA EvaluateFailedTyped == ASSUME TInv, NEW p \in Procs, EvaluateFailed(p) PROVE TInv'
<1>1. OtherTyped'
  BY TypingFacts DEF EvaluateFailed, Asks, OtherTyped, doubts, reviews, bounds
<1> QED
  BY <1>1, AsksTyped DEF EvaluateFailed

LEMMA EvaluateWaitsTyped == ASSUME TInv, NEW p \in Procs, EvaluateWaits(p) PROVE TInv'
<1> DEFINE r == proc[p].run
           x == [proc[p] EXCEPT !.pc = "seq", !.then = "idle", !.todo = <<{r}>>]
<1>1. proc[p] \in Proc /\ Shape(proc[p], RunIds, TaskIds) /\ proc[p].pc = "evaluate"
  BY TypingFacts DEF EvaluateWaits, At
<1>2. OtherTyped'
  BY InHandTyped, TypingFacts DEF EvaluateWaits, OtherTyped, doubts, reviews, bounds
<1>3. CASE Set(p, Idle)
  BY <1>2, <1>3, IdleTyped, Moved DEF EvaluateWaits, board
<1>4. CASE Set(p, x)
  <2> DEFINE s == <<{r}>>
  <2>1. {r} \in SUBSET Runs
    BY <1>1, TypingFacts DEF Shape
  <2>2. s \in Seq(SUBSET Runs) /\ s # <<>> /\ "seq" \in PCs /\ "idle" \in PCs
    BY <2>1 DEF PCs
  <2> HIDE DEF s
  <2>3. x = [proc[p] EXCEPT !.pc = "seq", !.then = "idle", !.todo = s]
    BY DEF s
  <2> HIDE DEF x
  <2>4. x \in Proc
    BY <1>1, <2>2, <2>3, Zenon DEF Proc
  <2>5. Shape(x, RunIds, TaskIds)
    BY <1>1, <2>2, <2>3 DEF Shape, Proc
  <2> QED
    BY <1>2, <1>4, <2>4, <2>5, Moved DEF EvaluateWaits, board
<1> QED
  BY <1>3, <1>4 DEF EvaluateWaits, Ends

\* The loop takes the decision of a stub.
LEMMA JudgedTyped ==
  ASSUME TInv, NEW p \in Procs, At(p, "evaluate"), proc[p].ok,
         NEW how \in {"unreviewed", "approved", "needs_follow_up"},
         \/ Set(p, [proc[p] EXCEPT !.pc = "accept", !.how = how])
         \/ how = "needs_follow_up" /\ Set(p, [proc[p] EXCEPT !.pc = "number", !.then = "queue", !.how = how])
         \/ how = "needs_follow_up" /\ \E t \in FollowUps(proc[p].run) :
              Set(p, [proc[p] EXCEPT !.pc = "queue", !.task = t, !.how = how]),
         UNCHANGED <<board, approvals, accepted>>, OtherTyped'
  PROVE  TInv'
<1>1. proc[p] \in Proc /\ Shape(proc[p], RunIds, TaskIds) /\ proc[p].pc = "evaluate"
  BY TypingFacts DEF At
<1>2. how \in {"none", "unreviewed", "approved", "needs_follow_up"}
      /\ "accept" \in PCs /\ "number" \in PCs /\ "queue" \in PCs
  BY DEF PCs
<1>3. Judging(proc[p], RunIds)
  BY <1>1 DEF Shape, Judging
<1>4. CASE Set(p, [proc[p] EXCEPT !.pc = "accept", !.how = how])
  <2> DEFINE x == [proc[p] EXCEPT !.pc = "accept", !.how = how]
  <2>1. x \in Proc
    BY <1>1, <1>2, Zenon DEF Proc
  <2>2. Shape(x, RunIds, TaskIds)
    BY <1>1, <1>3 DEF Shape, Proc, Judging
  <2> QED
    BY <1>4, <2>1, <2>2, Moved DEF board
<1>5. CASE how = "needs_follow_up" /\ Set(p, [proc[p] EXCEPT !.pc = "number", !.then = "queue", !.how = how])
  <2> DEFINE x == [proc[p] EXCEPT !.pc = "number", !.then = "queue", !.how = how]
  <2>1. x \in Proc
    BY <1>1, <1>2, Zenon DEF Proc
  <2>2. Shape(x, RunIds, TaskIds)
    BY <1>1, <1>3, <1>5 DEF Shape, Proc, Judging
  <2> QED
    BY <1>5, <2>1, <2>2, Moved DEF board
<1>6. ASSUME how = "needs_follow_up", NEW t \in FollowUps(proc[p].run),
             Set(p, [proc[p] EXCEPT !.pc = "queue", !.task = t, !.how = how])
      PROVE  TInv'
  <2> DEFINE x == [proc[p] EXCEPT !.pc = "queue", !.task = t, !.how = how]
  <2>1. t \in TaskIds /\ t \in {0} \cup Tasks
    BY <1>6 DEF FollowUps, TaskIds
  <2>2. x \in Proc
    BY <1>1, <1>2, <2>1, Zenon DEF Proc
  <2>3. Shape(x, RunIds, TaskIds)
    BY <1>1, <1>3, <1>6, <2>1 DEF Shape, Proc, Judging
  <2> QED
    BY <1>6, <2>2, <2>3, Moved DEF board
<1> QED
  BY <1>4, <1>5, <1>6

LEMMA EvaluateReviewedTyped == ASSUME TInv, NEW p \in Procs, EvaluateReviewed(p) PROVE TInv'
<1>1. OtherTyped'
  BY TypingFacts DEF EvaluateReviewed, Asks, OtherTyped, doubts, reviews, bounds
<1>2. UNCHANGED <<board, accepted>> /\ At(p, "evaluate") /\ proc[p].ok
  BY DEF EvaluateReviewed
<1>3. CASE \E action \in {"retry", "follow_up"} : Asks(p, action)
  BY <1>1, <1>2, <1>3, AsksTyped
<1>4. CASE \E how \in {"unreviewed", "approved", "needs_follow_up"} :
             /\ \/ Set(p, [proc[p] EXCEPT !.pc = "accept", !.how = how])
                \/ how = "needs_follow_up" /\ Set(p, [proc[p] EXCEPT !.pc = "number", !.then = "queue", !.how = how])
                \/ how = "needs_follow_up" /\ \E t \in FollowUps(proc[p].run) :
                     Set(p, [proc[p] EXCEPT !.pc = "queue", !.task = t, !.how = how])
             /\ UNCHANGED approvals
  BY <1>1, <1>2, <1>4, JudgedTyped
<1> QED
  BY <1>3, <1>4 DEF EvaluateReviewed

LEMMA EvaluateUnreviewedTyped == ASSUME TInv, NEW p \in Procs, EvaluateUnreviewed(p) PROVE TInv'
<1>1. OtherTyped'
  BY TypingFacts DEF EvaluateUnreviewed, OtherTyped, reviews, bounds, ghosts, doubts
<1> QED
  BY <1>1, JudgedTyped DEF EvaluateUnreviewed, ghosts, doubts

LEMMA TaskNumberTyped == ASSUME TInv, NEW p \in Procs, TaskNumber(p) PROVE TInv'
<1> DEFINE n == Largest(TaskIds) + 1
           x == [proc[p] EXCEPT !.pc = "write", !.seq = n]
<1>1. proc[p] \in Proc /\ Shape(proc[p], RunIds, TaskIds) /\ proc[p].pc = "number"
  BY TypingFacts DEF TaskNumber, At
<1>2. n \in Tasks
  <2>1. TaskIds \subseteq 1 .. MaxTasks
    BY DEF TaskIds, Tasks
  <2>2. Largest(TaskIds) \in 0 .. MaxTasks /\ n <= MaxTasks
    BY <2>1, Greatest, BoundAssumption DEF TaskNumber
  <2> QED
    BY <2>2, BoundAssumption DEF Tasks
<1>3. n \in Nat /\ "write" \in PCs
  BY <1>2 DEF Tasks, PCs
<1>4. Set(p, x)
  BY DEF TaskNumber
<1> HIDE DEF n
<1>5. x \in Proc
  BY <1>1, <1>3, Zenon DEF Proc
<1>6. Shape(x, RunIds, TaskIds)
  BY <1>1, <1>2 DEF Shape, Proc, Judging
<1>7. OtherTyped'
  BY TypingFacts DEF TaskNumber, OtherTyped, reviews, bounds, ghosts, doubts
<1> QED
  BY <1>4, <1>5, <1>6, <1>7, Moved DEF TaskNumber, board, ghosts, doubts

\* A task is written, over another one or not.
LEMMA Written ==
  ASSUME TInv, NEW p \in Procs, WriteTask(p)
  PROVE  LET x == proc[p]
             n == x.seq
         IN  /\ n \in Tasks /\ TaskIds' = TaskIds \cup {n} /\ task' \in [Tasks -> Task \cup {None}]
             /\ \A u \in Tasks \ {n} : task'[u] = task[u]
             /\ n \in TaskIds => n \in forced' /\ n \in overwritten'
             /\ task'[n].status = "todo"
             /\ \/ /\ x.kind = "loop" /\ x.then = "queue" /\ Judging(x, RunIds)
                   /\ task'[n].source = x.run /\ task'[n].deps = {run[x.run].task}
                \/ /\ x.kind = "command" /\ x.then = "idle" /\ task'[n].source = 0 /\ task'[n].deps = {}
<1> DEFINE x == proc[p]
           n == x.seq
           y == NewTask(x)
<1>1. x \in Proc /\ Shape(x, RunIds, TaskIds) /\ x.pc = "write"
  BY TypingFacts DEF WriteTask, At
<1>2. n \in Tasks
  BY <1>1 DEF Shape
<1>3. task' = [task EXCEPT ![n] = y] /\ task \in [Tasks -> Task \cup {None}]
  BY TypingFacts DEF WriteTask, BoardTyped
<1>4. /\ y \in Task /\ y.status = "todo"
      /\ \/ x.kind = "loop" /\ x.then = "queue" /\ Judging(x, RunIds) /\ y.source = x.run /\ y.deps = {run[x.run].task}
         \/ x.kind = "command" /\ x.then = "idle" /\ y.source = 0 /\ y.deps = {}
  <2>1. CASE x.kind = "loop"
    <3> DEFINE t == run[x.run].task
    <3>1. x.then = "queue" /\ Judging(x, RunIds)
      BY <1>1, <2>1 DEF Shape
    <3>2. x.run \in Runs /\ t \in TaskIds /\ t \in Nat /\ task[t] \in Task
      BY <3>1, TypingFacts DEF Judging, Tasks
    <3>3. y = [status |-> "todo", deps |-> {t}, files |-> task[t].files, rank |-> task[t].rank,
               flagged |-> FALSE, source |-> x.run]
      BY <2>1 DEF NewTask
    <3>4. y \in Task
      BY <3>2, <3>3 DEF Task
    <3> QED
      BY <2>1, <3>1, <3>3, <3>4
  <2>2. CASE x.kind # "loop"
    <3> DEFINE b == task[x.task]
    <3>1. x.kind = "command" /\ x.then = "idle" /\ x.task \in TaskIds /\ b \in Task
      BY <1>1, <2>2, TypingFacts DEF Shape, Judging
    <3>2. y = [b EXCEPT !.status = "todo", !.deps = {}, !.source = 0]
      BY <2>2 DEF NewTask
    <3> HIDE DEF y, b
    <3>3. y \in Task
      <4>1. "todo" \in {"todo"} \cup Done \cup Active \cup Blocked /\ {} \in SUBSET Nat /\ 0 \in {0} \cup Runs
        OBVIOUS
      <4> QED
        BY <3>1, <3>2, <4>1, Zenon DEF Task
    <3>4. y.status = "todo" /\ y.source = 0 /\ y.deps = {}
      BY <3>1, <3>2 DEF Task
    <3> QED
      BY <3>1, <3>3, <3>4
  <2> QED
    BY <2>1, <2>2
<1> HIDE DEF y
<1>5. task'[n] = y /\ task' \in [Tasks -> Task \cup {None}] /\ \A u \in Tasks \ {n} : task'[u] = task[u]
  BY <1>2, <1>3, <1>4
<1>6. TaskIds' = TaskIds \cup {n}
  BY <1>2, <1>4, <1>5, NoneAssumption DEF TaskIds
<1>7. n \in TaskIds => n \in forced' /\ n \in overwritten'
  BY DEF WriteTask, TaskIds
<1> QED
  BY <1>2, <1>4, <1>5, <1>6, <1>7

LEMMA WriteTaskTyped == ASSUME TInv, NEW p \in Procs, WriteTask(p) PROVE TInv'
<1> DEFINE n == proc[p].seq
           x == [proc[p] EXCEPT !.pc = "queue", !.then = "idle", !.task = n, !.seq = 0]
<1>1. /\ n \in Tasks /\ TaskIds' = TaskIds \cup {n} /\ task' \in [Tasks -> Task \cup {None}]
      /\ \A u \in Tasks \ {n} : task'[u] = task[u]
      /\ \/ proc[p].then = "queue" /\ Judging(proc[p], RunIds) /\ task'[n].source = proc[p].run
         \/ proc[p].then = "idle" /\ task'[n].source = 0
  BY Written, Zenon
<1>2. proc[p] \in Proc
  BY TypingFacts
<1>3. UNCHANGED <<run, approvals, accepted>> /\ RunIds' = RunIds
  BY DEF WriteTask, RunIds
<1>4. BoardTyped'
  <2>1. \A u \in TaskIds' : task'[u].source \in {0} \cup RunIds'
    BY <1>1, <1>3, TypingFacts DEF BoardTyped, Referring, Judging
  <2> QED
    BY <1>1, <1>3, <2>1, TypingFacts DEF BoardTyped, Referring
<1>5. Grows
  BY <1>1, <1>3 DEF Grows
<1>6. OtherTyped'
  <2>1. {proc[p].seq} \subseteq Tasks
    BY <1>1
  <2> QED
    BY <2>1, TypingFacts DEF WriteTask, OtherTyped, doubts, reviews, bounds
<1>7. CASE proc[p].then = "idle"
  BY <1>4, <1>5, <1>6, <1>7, IdleTyped, Typing DEF WriteTask, Ends
<1>8. CASE proc[p].then # "idle"
  <2>1. n \in {0} \cup Tasks /\ 0 \in Nat /\ "queue" \in PCs /\ "idle" \in PCs
    BY <1>1 DEF PCs
  <2>2. x \in Proc
    BY <1>2, <2>1, Zenon DEF Proc
  <2>3. Judging(proc[p], RunIds') /\ proc[p].how = "needs_follow_up"
    BY <1>1, <1>3, <1>8, TypingFacts DEF Shape, Judging, WriteTask, At
  <2>4. Shape(x, RunIds', TaskIds')
    BY <1>1, <1>2, <2>3 DEF Shape, Proc, Judging
  <2>5. Set(p, x)
    BY <1>8 DEF WriteTask
  <2> QED
    BY <1>4, <1>5, <1>6, <2>2, <2>4, <2>5, Typing
<1> QED
  BY <1>7, <1>8

LEMMA DelegateTyped == ASSUME TInv, NEW p \in Procs, NEW t \in Tasks, Delegate(p, t) PROVE TInv'
<1> DEFINE x == [Idle EXCEPT !.pc = "number", !.task = t]
<1>1. "number" \in PCs /\ t \in {0} \cup Tasks /\ t \in TaskIds /\ Idle \in Proc
  BY IdleTyped DEF PCs, Delegate
<1>2. x \in Proc
  BY <1>1, Zenon DEF Proc
<1>3. Shape(x, RunIds, TaskIds)
  BY <1>1 DEF Shape, Idle
<1>4. OtherTyped'
  BY TypingFacts, BoundAssumption DEF Delegate, Begin, OtherTyped, reviews, bounds, ghosts, doubts
<1> QED
  BY <1>2, <1>3, <1>4, Moved DEF Delegate, board, ghosts, doubts

LEMMA EnqueueTyped == ASSUME TInv, NEW p \in Procs, NEW t \in Tasks, Enqueue(p, t) PROVE TInv'
<1> DEFINE x == [Idle EXCEPT !.pc = "build", !.task = t]
<1>1. "build" \in PCs /\ t \in {0} \cup Tasks /\ t \in TaskIds /\ Idle \in Proc
  BY IdleTyped DEF PCs, Enqueue
<1>2. x \in Proc
  BY <1>1, Zenon DEF Proc
<1>3. Shape(x, RunIds, TaskIds)
  BY <1>1 DEF Shape, Idle
<1>4. OtherTyped'
  BY TypingFacts, BoundAssumption DEF Enqueue, Begin, OtherTyped, doubts, reviews, bounds
<1> QED
  BY <1>2, <1>3, <1>4, Moved DEF Enqueue, board

LEMMA ReviewGateTyped == ASSUME TInv, NEW p \in Procs, NEW r \in Runs, ReviewGate(p, r) PROVE TInv'
<1> DEFINE s == <<{r}>>
           x == [Idle EXCEPT !.pc = "seq", !.todo = s]
<1>1. "seq" \in PCs /\ s \in Seq(SUBSET Runs) /\ s # <<>> /\ Idle \in Proc
  BY IdleTyped DEF PCs
<1>2. Set(p, x)
  BY DEF ReviewGate
<1> HIDE DEF s
<1>3. x \in Proc
  BY <1>1, Zenon DEF Proc
<1>4. Shape(x, RunIds, TaskIds)
  BY <1>1 DEF Shape, Idle
<1>5. OtherTyped'
  BY TypingFacts, BoundAssumption DEF ReviewGate, Begin, OtherTyped, doubts, reviews, bounds
<1> QED
  BY <1>2, <1>3, <1>4, <1>5, Moved DEF ReviewGate, board

LEMMA OrphanTyped == ASSUME TInv, NEW p \in Procs, Orphan(p) PROVE TInv'
<1> DEFINE x == [proc[p] EXCEPT !.kind = "worker", !.steps = 0]
<1>1. proc[p] \in Proc /\ Shape(proc[p], RunIds, TaskIds)
  BY TypingFacts
<1>2. 0 \in 0 .. MaxSteps
  BY BoundAssumption
<1>3. x \in Proc
  BY <1>1, <1>2, Zenon DEF Proc
<1>4. Shape(x, RunIds, TaskIds)
  BY <1>1 DEF Shape, Proc, Orphan, Batching
<1>5. OtherTyped'
  BY InHandTyped, TypingFacts, BoundAssumption DEF Orphan, OtherTyped, doubts, reviews, bounds
<1> QED
  BY <1>3, <1>4, <1>5, Moved DEF Orphan, board

LEMMA CrashTyped == ASSUME TInv, NEW p \in Procs, Crash(p) PROVE TInv'
<1>1. OtherTyped'
  BY InHandTyped, UnmadeTyped, TypingFacts, BoundAssumption DEF Crash, OtherTyped, reviews, bounds
<1> QED
  BY <1>1, IdleTyped, Moved DEF Crash, board, Ends

LEMMA TypedInit == Init => TInv
<1> SUFFICES ASSUME Init PROVE TInv
  OBVIOUS
<1>1. PICK x \in Projects : gate = x.gate /\ task = x.board
  BY DEF Init, BoardInit
<1>2. /\ gate \in BOOLEAN /\ task \in [Tasks -> Task \cup {None}]
      /\ \A t \in TaskIds : task[t].source = 0
  BY <1>1, ProjectAssumption DEF TaskIds
<1>3. RunIds = {} /\ run \in [Runs -> Run \cup {None}]
  BY DEF Init, BoardInit, RunIds
<1>4. RunIds = 1 .. 0 /\ 0 \in 0 .. MaxRuns
  BY <1>3, BoundAssumption
<1>5. Referring
  BY <1>2, <1>3, <1>4 DEF Init, BoardInit, Referring
<1>6. TypeOK
  <2>1. 0 \in 0 .. MaxCommands /\ 0 \in 0 .. MaxCrashes
    BY BoundAssumption
  <2> QED
    BY <1>2, <1>3, <2>1, IdleTyped DEF Init, BoardInit, TypeOK
<1> QED
  BY <1>5, <1>6, IdleTyped DEF TInv, Init

LEMMA TypedStep == ASSUME TInv, [Next]_vars PROVE TInv'
<1>1. CASE Next
  BY <1>1, LookTyped, ChoosesTyped, StartTyped, BuildTyped, BuildFailsTyped, ExecuteTyped, PauseTyped,
     TriggerTyped, BatchNumberTyped, ManifestTyped, DecisionStubsTyped, SaveCadenceTyped, ReviewTyped,
     EvaluateFailedTyped, EvaluateWaitsTyped, EvaluateReviewedTyped, EvaluateUnreviewedTyped, AcceptTyped,
     TaskNumberTyped, WriteTaskTyped, QueueFollowUpTyped, ClaimTyped, DelegateTyped, EnqueueTyped,
     ReviewGateTyped, DecideTyped, MarkDoneTyped, RetryTyped, DismissTyped, ReleaseTyped, ReclaimTyped,
     GuardedTyped, SkipReviewTyped, ReviewFailsTyped, AskHumanTyped, AcceptAskedTyped, AdmitTyped,
     BlockTyped, RejectTyped, OrphanTyped, CrashTyped
     DEF Next, Step, Command, People
<1>2. CASE UNCHANGED vars
  <2>1. RunIds' = RunIds /\ TaskIds' = TaskIds
    BY <1>2 DEF vars, board, RunIds, TaskIds
  <2>2. BoardTyped' /\ OtherTyped' /\ Grows
    BY <1>2, <2>1, TypingFacts DEF vars, board, bounds, reviews, ghosts, doubts, BoardTyped, OtherTyped, Referring, Grows
  <2> QED
    BY <1>2, <2>2, Staying DEF vars
<1> QED
  BY <1>1, <1>2

\* The types, and what a process has in hand where it is: its run and its task exist
\* and fit, and a worker that goes through batches has those left to write
\* (cmd_orchestrate, cmd_worker, generate_batches).
THEOREM Typed == Spec => []TInv
<1> QED
  BY TypedInit, TypedStep, PTL DEF Spec

\* Every variable keeps to its type, for every number of processes, tasks, runs and
\* batches (enqueue_task_path, write_batch, create_follow_up_task).
THEOREM TypeCorrect == Spec => []TypeOK
<1>1. TInv => TypeOK
  BY DEF TInv
<1> QED
  BY <1>1, Typed, PTL

------------------------------------------------------------------------------
(* Steps that neither choose, build, execute nor write. *)

LEMMA NotHolding ==
  /\ \A R : ~Holding(Idle, R) /\ Idle.pc # "execute"
  /\ \A x, R : ~Holding(NextTurn(x), R) /\ NextTurn(x).pc # "execute"
BY DEF Holding, Idle, NextTurn

\* Nothing is chosen, built, executed or written.
Quiet ==
  /\ UNCHANGED <<task, run, forced, accepted, overwritten, again>>
  /\ \A q \in Procs : /\ proc'[q].pc \in {"start", "build", "queue"} => proc'[q] = proc[q]
                      /\ proc'[q].pc = "execute" => At(q, "execute") /\ proc'[q].run = proc[q].run
                      /\ Holding(proc'[q], RunIds) => /\ Holding(proc[q], RunIds) /\ proc'[q].run = proc[q].run
                                                      /\ Followed(proc[q]) => proc'[q] = proc[q]
                      /\ proc'[q].pc = "accept" =>
                           \/ proc'[q] = proc[q]
                           \/ /\ At(q, "evaluate") /\ proc[q].ok /\ proc'[q].run = proc[q].run
                              /\ proc'[q].how = "needs_follow_up" => FollowUps(proc[q].run) # {}

\* The follow-up there is has to be queued.
Requeues(p) ==
  /\ EvaluateReviewed(p)
  /\ \E t \in FollowUps(proc[p].run) :
       /\ task[t].status \notin Done \cup Active
       /\ Set(p, [proc[p] EXCEPT !.pc = "queue", !.task = t, !.how = "needs_follow_up"])
  /\ UNCHANGED <<approvals, left>>

QuietAction(p) ==
  \/ Orchestrate(p) \/ Worker(p) \/ EndsEarly(p) \/ NothingToDo(p) \/ Trigger(p) \/ SkipReview(p)
  \/ BatchNumber(p) \/ Manifest(p) \/ DecisionStubs(p) \/ ReviewFails(p) \/ SaveCadence(p) \/ Review(p)
  \/ EvaluateFailed(p) \/ EvaluateWaits(p) \/ (EvaluateReviewed(p) /\ ~Requeues(p))
  \/ EvaluateUnreviewed(p) \/ TaskNumber(p) \/ Crash(p) \/ Orphan(p)
  \/ (\E t \in Tasks : Delegate(p, t)) \/ (\E r \in Runs : ReviewGate(p, r))

\* A process that does not start, build or execute anything.
LEMMA QuietSteps ==
  ASSUME TInv, NEW p \in Procs, QuietAction(p)
  PROVE  Quiet
<1>1. UNCHANGED <<task, run, forced, accepted, overwritten, again>>
  BY DEF QuietAction, Orchestrate, Worker, EndsEarly, NothingToDo, Trigger, SkipReview, BatchNumber, Manifest,
     DecisionStubs, ReviewFails, SaveCadence, Review, EvaluateFailed, EvaluateWaits, EvaluateReviewed, EvaluateUnreviewed, TaskNumber, Crash,
     Orphan, Delegate, ReviewGate, board, ghosts, doubts
<1> DEFINE Aside(x) == /\ x.pc \notin {"start", "build", "queue"}
                       /\ x.pc = "execute" => At(p, "execute") /\ x.run = proc[p].run
                       /\ Holding(x, RunIds) => Holding(proc[p], RunIds) /\ x.run = proc[p].run /\ ~Followed(proc[p])
                       /\ x.pc = "accept" => /\ At(p, "evaluate") /\ proc[p].ok /\ x.run = proc[p].run
                                             /\ x.how = "needs_follow_up" => FollowUps(proc[p].run) # {}
<1>2. ASSUME NEW x, Set(p, x), Aside(x) PROVE Quiet
  <2>1. proc'[p] = x /\ \A q \in Procs \ {p} : proc'[q] = proc[q]
    BY <1>2 DEF Set, TInv, TypeOK
  <2> QED
    BY <1>1, <1>2, <2>1 DEF Quiet, At
<1>3. CASE UNCHANGED proc
  BY <1>1, <1>3 DEF Quiet, At
<1>4. Aside(Idle)
  BY NotHolding DEF Idle
<1>5. \A x : Aside(NextTurn(x))
  BY NotHolding DEF Idle, NextTurn
<1>6. proc[p] \in Proc /\ Shape(proc[p], RunIds, TaskIds)
  BY TypingFacts
<1>7. CASE Set(p, Idle) \/ \E x : Set(p, NextTurn(x))
  BY <1>2, <1>4, <1>5, <1>7
<1>8. CASE Orchestrate(p) \/ EndsEarly(p) \/ NothingToDo(p) \/ EvaluateFailed(p) \/ Crash(p)
  BY <1>3, <1>7, <1>8 DEF Orchestrate, EndsEarly, NothingToDo, EvaluateFailed, Asks, Crash, Ends
<1>9. CASE Worker(p)
  <2>1. Aside([Idle EXCEPT !.pc = "claim", !.kind = "worker"])
    BY DEF Idle, Holding
  <2> QED
    BY <1>2, <1>9, <2>1 DEF Worker
<1>10. CASE \E t \in Tasks : Delegate(p, t)
  <2>1. PICK t \in Tasks : Set(p, [Idle EXCEPT !.pc = "number", !.task = t])
    BY <1>10 DEF Delegate
  <2>2. Aside([Idle EXCEPT !.pc = "number", !.task = t])
    BY DEF Idle, Holding
  <2> QED
    BY <1>2, <2>1, <2>2
<1>11. CASE \E r \in Runs : ReviewGate(p, r)
  <2>1. PICK r \in Runs : Set(p, [Idle EXCEPT !.pc = "seq", !.todo = <<{r}>>])
    BY <1>11 DEF ReviewGate
  <2>2. Aside([Idle EXCEPT !.pc = "seq", !.todo = <<{r}>>])
    BY DEF Idle, Holding
  <2> QED
    BY <1>2, <2>1, <2>2
<1>12. CASE Trigger(p)
  <2>1. PICK pc \in {"save", "seq"} :
          \E due, c : Set(p, [proc[p] EXCEPT !.pc = pc, !.then = "save", !.todo = due, !.count = c])
    BY <1>12 DEF Trigger
  <2>1a. PICK due, c : Set(p, [proc[p] EXCEPT !.pc = pc, !.then = "save", !.todo = due, !.count = c])
    BY <2>1
  <2>2. Aside([proc[p] EXCEPT !.pc = pc, !.then = "save", !.todo = due, !.count = c])
    BY <1>6, <1>12 DEF Trigger, At, Holding, Followed, Proc
  <2> QED
    BY <1>2, <2>1a, <2>2
<1>13. CASE BatchNumber(p)
  <2>1. PICK n : Set(p, [proc[p] EXCEPT !.pc = "manifest", !.seq = n])
    BY <1>13 DEF BatchNumber
  <2>2. Aside([proc[p] EXCEPT !.pc = "manifest", !.seq = n])
    BY <1>6, <1>13 DEF BatchNumber, At, Holding, Followed, Proc
  <2> QED
    BY <1>2, <2>1, <2>2
<1>14. CASE Manifest(p)
  <2>1. Aside([proc[p] EXCEPT !.pc = "stub"])
    BY <1>6, <1>14 DEF Manifest, At, Holding, Followed, Proc
  <2> QED
    BY <1>2, <1>14, <2>1 DEF Manifest, Goes
<1>15. CASE DecisionStubs(p)
  <2>1. Aside(AfterStubs(proc[p]))
    BY <1>4, <1>6, <1>15 DEF DecisionStubs, At, AfterStubs, Holding, Followed, Proc, Shape
  <2> QED
    BY <1>2, <1>15, <2>1 DEF DecisionStubs
<1>16. CASE SaveCadence(p)
  <2>1. Aside([proc[p] EXCEPT !.pc = "review", !.count = 0])
    BY <1>6, <1>16 DEF SaveCadence, At, Holding, Followed, Proc
  <2> QED
    BY <1>2, <1>16, <2>1 DEF SaveCadence
<1>17. CASE Review(p)
  <2>1. Aside([proc[p] EXCEPT !.pc = "evaluate"])
    BY <1>6, <1>17 DEF Review, At, Holding, Followed, Proc
  <2> QED
    BY <1>2, <1>7, <1>17, <2>1 DEF Review, Worked, Goes, Ends
<1>18. CASE EvaluateWaits(p)
  <2>1. Aside([proc[p] EXCEPT !.pc = "seq", !.then = "idle", !.todo = <<{proc[p].run}>>])
    BY <1>6, <1>18 DEF EvaluateWaits, At, Holding, Followed, Proc
  <2> QED
    BY <1>2, <1>7, <1>18, <2>1 DEF EvaluateWaits, Ends
<1>19. CASE (EvaluateReviewed(p) /\ ~Requeues(p)) \/ EvaluateUnreviewed(p)
  <2>1. At(p, "evaluate") /\ proc[p].ok
    BY <1>19 DEF EvaluateReviewed, EvaluateUnreviewed
  <2>2. ASSUME NEW how, how = "needs_follow_up" => FollowUps(proc[p].run) # {}
        PROVE  Aside([proc[p] EXCEPT !.pc = "accept", !.how = how])
    BY <1>6, <2>1, <2>2 DEF At, Holding, Followed, Proc
  <2>3. \A how : Aside([proc[p] EXCEPT !.pc = "number", !.then = "queue", !.how = how])
    BY <1>6, <2>1 DEF At, Holding, Followed, Proc
  <2>4. \/ Set(p, Idle)
        \/ \E how : /\ how = "needs_follow_up" => FollowUps(proc[p].run) # {}
                    /\ Set(p, [proc[p] EXCEPT !.pc = "accept", !.how = how])
        \/ \E how : Set(p, [proc[p] EXCEPT !.pc = "number", !.then = "queue", !.how = how])
    BY <1>19 DEF EvaluateReviewed, EvaluateUnreviewed, Requeues, AtWork, Asks, Ends
  <2> QED
    BY <1>2, <1>7, <2>2, <2>3, <2>4
<1>20. CASE TaskNumber(p)
  <2>1. PICK n : Set(p, [proc[p] EXCEPT !.pc = "write", !.seq = n])
    BY <1>20 DEF TaskNumber
  <2>2. Aside([proc[p] EXCEPT !.pc = "write", !.seq = n])
    BY <1>6, <1>20 DEF TaskNumber, At, Holding, Followed, Proc
  <2> QED
    BY <1>2, <2>1, <2>2
<1>21. CASE Orphan(p)
  <2>1. Aside([proc[p] EXCEPT !.kind = "worker", !.steps = 0])
    BY <1>6, <1>21 DEF Proc, Orphan, At, Holding, Followed
  <2> QED
    BY <1>2, <1>21, <2>1 DEF Orphan
<1>22. CASE SkipReview(p)
  <2>1. Aside([proc[p] EXCEPT !.pc = "evaluate"])
    BY <1>6, <1>22 DEF SkipReview, At, Holding, Followed, Proc
  <2> QED
    BY <1>2, <1>7, <1>22, <2>1 DEF SkipReview, Worked, Goes, Ends
<1>23. CASE ReviewFails(p)
  <2>1. Aside([proc[p] EXCEPT !.pc = "review", !.then = "idle", !.todo = <<>>, !.seq = 0, !.count = 0])
    BY <1>6, <1>23 DEF ReviewFails, Batching, At, Holding, Followed, Proc
  <2> QED
    BY <1>2, <1>7, <1>23, <2>1 DEF ReviewFails, Ends
<1> QED
  BY <1>8, <1>9, <1>10, <1>11, <1>12, <1>13, <1>14, <1>15, <1>16, <1>17, <1>18, <1>19, <1>20, <1>21, <1>22, <1>23
     DEF QuietAction

------------------------------------------------------------------------------
(* Runs are executed by one process, and succeed once. *)

LEMMA RMoves ==
  ASSUME TInv, RInv, NEW p \in Procs, NEW x, Set(p, x), UNCHANGED <<run, again>>,
         x.pc = "execute" => At(p, "execute") /\ x.run = proc[p].run,
         Holding(x, RunIds) => Holding(proc[p], RunIds) /\ x.run = proc[p].run
  PROVE  RInv'
<1>1. proc'[p] = x /\ \A q \in Procs \ {p} : proc'[q] = proc[q]
  BY DEF Set, TInv, TypeOK
<1>2. RunIds' = RunIds
  BY DEF RunIds
<1>3. \A q \in Procs : At(q, "execute")' => At(q, "execute") /\ proc'[q].run = proc[q].run
  BY <1>1 DEF At
<1>4. \A q \in Procs : Holding(proc'[q], RunIds) => Holding(proc[q], RunIds) /\ proc'[q].run = proc[q].run
  BY <1>1
<1> QED
  BY <1>2, <1>3, <1>4 DEF RInv

LEMMA RStays ==
  ASSUME RInv, UNCHANGED <<run, proc, again>>
  PROVE  RInv'
BY DEF RInv, RunIds, At, Holding

LEMMA RQuiet == ASSUME TInv, RInv, Quiet PROVE RInv'
<1>1. RunIds' = RunIds
  BY DEF Quiet, RunIds
<1>2. \A q \in Procs : At(q, "execute")' => At(q, "execute") /\ proc'[q].run = proc[q].run
  BY DEF Quiet, At
<1>3. \A q \in Procs : Holding(proc'[q], RunIds) => Holding(proc[q], RunIds) /\ proc'[q].run = proc[q].run
  BY DEF Quiet
<1> QED
  BY <1>1, <1>2, <1>3 DEF Quiet, RInv

LEMMA RWrites ==
  ASSUME TInv, RInv, NEW p \in Procs,
         \/ Look(p) \/ Start(p) \/ BuildFails(p) \/ Accept(p) \/ WriteTask(p) \/ QueueFollowUp(p)
         \/ Requeues(p) \/ \E t \in Tasks : Enqueue(p, t)
  PROVE  RInv'
<1>1. UNCHANGED <<run, again>>
  BY DEF Look, Start, BuildFails, Accept, WriteTask, QueueFollowUp, Enqueue, Requeues, EvaluateReviewed,
     board, doubts
<1>2. proc[p] \in Proc /\ Shape(proc[p], RunIds, TaskIds)
  BY TypingFacts
<1>3. CASE Set(p, Idle)
  BY <1>1, <1>3, NotHolding, RMoves
<1> DEFINE Moving(x) == Set(p, x) /\ (x.pc = "execute" => At(p, "execute") /\ x.run = proc[p].run)
                        /\ (Holding(x, RunIds) => Holding(proc[p], RunIds) /\ x.run = proc[p].run)
<1>4. ASSUME NEW x, Moving(x) PROVE RInv'
  BY <1>1, <1>4, RMoves
<1> HIDE DEF Moving
<1>5. CASE Look(p)
  <2>1. CASE Goes(p, "claim")
    <3>1. Moving([proc[p] EXCEPT !.pc = "claim"])
      BY <1>2, <2>1 DEF Goes, Moving, Holding, Proc
    <3> QED
      BY <1>4, <3>1
  <2>2. ASSUME NEW t, Set(p, [proc[p] EXCEPT !.pc = "start", !.then = "claim", !.task = t]) PROVE RInv'
    <3>1. Moving([proc[p] EXCEPT !.pc = "start", !.then = "claim", !.task = t])
      BY <1>2, <2>2 DEF Moving, Holding, Proc
    <3> QED
      BY <1>4, <3>1
  <2> QED
    BY <1>3, <1>5, <2>1, <2>2 DEF Look, Ends
<1>6. CASE Start(p)
  <2>1. Moving([proc[p] EXCEPT !.pc = "build"])
    <3>1. proc[p].run = 0 /\ 0 \notin RunIds
      BY <1>2, <1>6 DEF Start, At, Shape, RunIds, Runs
    <3> QED
      BY <1>2, <1>6, <3>1 DEF Start, Goes, Moving, Holding, Proc
  <2> QED
    BY <1>4, <2>1
<1>7. CASE WriteTask(p)
  <2>1. CASE Set(p, [proc[p] EXCEPT !.pc = "queue", !.then = "idle", !.task = proc[p].seq, !.seq = 0])
    <3>1. Moving([proc[p] EXCEPT !.pc = "queue", !.then = "idle", !.task = proc[p].seq, !.seq = 0])
      BY <1>2, <1>7, <2>1 DEF WriteTask, At, Moving, Holding, Proc
    <3> QED
      BY <1>4, <3>1
  <2> QED
    BY <1>3, <1>7, <2>1 DEF WriteTask, Ends
<1>8. CASE QueueFollowUp(p)
  <2>1. Moving([proc[p] EXCEPT !.pc = "build", !.then = "accept"])
    BY <1>2, <1>8 DEF QueueFollowUp, At, Moving, Holding, Proc
  <2> QED
    BY <1>4, <2>1
<1>9. CASE Accept(p)
  <2>1. Moving(NextTurn(proc[p]))
    BY <1>9, NotHolding DEF Accept, Moving
  <2> QED
    BY <1>4, <2>1
<1>10. ASSUME NEW t \in Tasks, Enqueue(p, t) PROVE RInv'
  <2>1. Moving([Idle EXCEPT !.pc = "build", !.task = t])
    BY <1>10 DEF Enqueue, Moving, Holding, Idle
  <2> QED
    BY <1>4, <2>1
<1>11. CASE Requeues(p)
  <2>1. PICK t : Set(p, [proc[p] EXCEPT !.pc = "queue", !.task = t, !.how = "needs_follow_up"])
    BY <1>11 DEF Requeues
  <2>2. Moving([proc[p] EXCEPT !.pc = "queue", !.task = t, !.how = "needs_follow_up"])
    BY <1>2, <1>11, <2>1 DEF Requeues, EvaluateReviewed, At, Moving, Holding, Proc
  <2> QED
    BY <1>4, <2>2
<1> QED
  BY <1>3, <1>5, <1>6, <1>7, <1>8, <1>9, <1>10, <1>11 DEF BuildFails, Ends

LEMMA RBuild == ASSUME TInv, RInv, NEW p \in Procs, Build(p) PROVE RInv'
<1>1. PICK r \in Runs \ RunIds :
           /\ run'[r] = NewRun(proc[p].task)
           /\ RunIds' = RunIds \cup {r} /\ \A q \in RunIds : run'[q] = run[q]
  BY Built
<1>2. proc[p] \in Proc /\ Shape(proc[p], RunIds, TaskIds) /\ proc[p].pc = "build"
  BY TypingFacts DEF Build, At
<1> DEFINE y == [proc[p] EXCEPT !.pc = proc[p].then, !.then = "idle", !.task = 0]
<1>3. PICK x : Set(p, x) /\ (x = Idle \/ (x = y /\ proc[p].then # "idle"))
  BY DEF Build, Ends
<1>4. x.pc # "execute" /\ \A R : Holding(x, R) => x.run = proc[p].run /\ Holding(proc[p], RunIds)
  <2>1. CASE x = Idle
    BY <2>1, NotHolding
  <2>2. CASE x = y /\ proc[p].then # "idle"
    BY <1>2, <2>2 DEF Holding, Proc, Shape, Judging
  <2> QED
    BY <1>3, <2>1, <2>2
<1> HIDE DEF y
<1>5. proc'[p] = x /\ \A q \in Procs \ {p} : proc'[q] = proc[q]
  BY <1>3 DEF Set, TInv, TypeOK
<1>6. \A q \in Procs : At(q, "execute")' => At(q, "execute") /\ proc'[q].run = proc[q].run
  BY <1>4, <1>5 DEF At
<1>7. \A q \in Procs : Holding(proc'[q], RunIds') => Holding(proc[q], RunIds) /\ proc'[q].run = proc[q].run
  <2>1. 0 \notin RunIds'
    BY DEF RunIds, Runs
  <2>2. \A q \in Procs : proc[q].run \in {0} \cup RunIds
    BY TypingFacts DEF Shape
  <2> QED
    BY <1>4, <1>5, <2>1, <2>2 DEF Holding
<1>8. \A q \in Procs : At(q, "execute") => proc[q].run \in RunIds
  BY TypingFacts DEF At, Shape
<1>9. run'[r].result = "none" /\ run'[r].at = "pending"
  BY <1>1 DEF NewRun
<1>10. \A q \in Procs : Holding(proc[q], RunIds) => proc[q].run \in RunIds
  BY DEF Holding
<1>11. UNCHANGED again
  BY DEF Build, ghosts, doubts
<1>12. /\ \A q \in RunIds' \ again : run'[q].result = "success" => run'[q].at \in {"done", "none"}
       /\ \A q \in Procs : At(q, "execute")' /\ proc'[q].run \notin again =>
            run'[proc'[q].run].at \in {"running", "none"} /\ run'[proc'[q].run].result # "success"
  BY <1>1, <1>6, <1>8, <1>9 DEF RInv
<1>13. \A q, s \in Procs : At(q, "execute")' /\ At(s, "execute")' /\ proc'[q].run = proc'[s].run
                            /\ proc'[q].run \notin again => q = s
  BY <1>6 DEF RInv
<1>14. \A q \in Procs : Holding(proc'[q], RunIds') /\ proc'[q].run \notin again =>
         run'[proc'[q].run].result = "success"
  BY <1>1, <1>7, <1>10 DEF RInv
<1>15. \A q, s \in Procs : Holding(proc'[q], RunIds') /\ Holding(proc'[s], RunIds') /\ proc'[q].run = proc'[s].run
                            /\ proc'[q].run \notin again => q = s
  BY <1>7 DEF RInv
<1> QED
  BY <1>11, <1>12, <1>13, <1>14, <1>15 DEF RInv

\* A job that moves under nobody's hands, its result unchanged.
LEMMA RJob ==
  ASSUME TInv, RInv, UNCHANGED proc, NEW r \in RunIds, NEW y \in Run, y.result = run[r].result,
         y.task = run[r].task, run' = [run EXCEPT ![r] = y], again \subseteq again',
         run[r].result = "success" /\ r \notin again' => y.at \in {"done", "none"},
         \A p \in Procs : At(p, "execute") /\ proc[p].run = r /\ r \notin again' => y.at \in {"running", "none"}
  PROVE  RInv'
<1>1. RunIds' = RunIds /\ run'[r] = y /\ \A q \in RunIds \ {r} : run'[q] = run[q]
  BY Rerun, TypingFacts
<1>2. \A q \in Procs : At(q, "execute")' => At(q, "execute") /\ proc'[q].run = proc[q].run
  BY DEF At
<1>3. \A q \in Procs : Holding(proc'[q], RunIds) => Holding(proc[q], RunIds) /\ proc'[q].run = proc[q].run
  OBVIOUS
<1>4. \A q \in Procs : At(q, "execute") => proc[q].run \in RunIds
  BY TypingFacts DEF At, Shape
<1>5. \A q \in Procs : Holding(proc[q], RunIds) => proc[q].run \in RunIds
  BY DEF Holding
<1>6. \A q \in Procs : At(q, "execute")' /\ proc'[q].run \notin again' =>
        run'[proc'[q].run].at \in {"running", "none"} /\ run'[proc'[q].run].result # "success"
  BY <1>1, <1>2, <1>4 DEF RInv
<1> QED
  BY <1>1, <1>2, <1>3, <1>4, <1>5, <1>6 DEF RInv

LEMMA RJobAt ==
  ASSUME TInv, RInv, UNCHANGED <<proc, again>>, NEW r \in RunIds, NEW q \in QueueStates,
         run' = [run EXCEPT ![r].at = q],
         run[r].result = "success" /\ r \notin again => q \in {"done", "none"},
         \A p \in Procs : At(p, "execute") /\ proc[p].run = r /\ r \notin again => q \in {"running", "none"}
  PROVE  RInv'
<1>1. JobAt(r, q)
  BY Rejob
<1>2. PICK y \in Run : /\ run' = [run EXCEPT ![r] = y] /\ y.task = run[r].task /\ y.at = q
                       /\ y.result = run[r].result /\ y.flagged = run[r].flagged
  BY <1>1 DEF JobAt
<1> QED
  BY <1>2, RJob

LEMMA RPeople == ASSUME TInv, RInv, People PROVE RInv'
<1>1. UNCHANGED proc
  BY DEF People, Decide, MarkDone, AskHuman, Retry, AcceptAsked, Admit, Block, Dismiss, Release, Reject, Reclaim
<1>2. CASE UNCHANGED <<run, again>>
  BY <1>1, <1>2, RStays
<1>3. ASSUME NEW a \in approvals, Retry(a) PROVE RInv'
  <2>1. a.run \in RunIds /\ "none" \in QueueStates /\ run' = [run EXCEPT ![a.run].at = "none"] /\ UNCHANGED again
    BY <1>3, TypingFacts DEF Retry, QueueStates, BoardTyped, Referring, doubts
  <2> QED
    BY <1>1, <2>1, RJobAt
<1>4. ASSUME NEW a \in approvals, Admit(a) PROVE RInv'
  <2> DEFINE r == a.run
             y == AdmittedRun(r)
  <2>1. /\ r \in RunIds /\ y \in Run /\ run' = [run EXCEPT ![r] = y] /\ y.task = run[r].task
        /\ y.result = run[r].result /\ run[r].at \in {"awaiting_approval", "none", "stub"}
    BY <1>4, AdmitMoves
  <2>2. again \subseteq again' /\ (run[r].at = "none" => r \in again')
    BY <1>4 DEF Admit
  <2> HIDE DEF y
  <2>3. r \notin again' => /\ run[r].result # "success"
                           /\ \A p \in Procs : ~(At(p, "execute") /\ proc[p].run = r)
    BY <2>1, <2>2 DEF RInv
  <2> QED
    BY <1>1, <2>1, <2>2, <2>3, RJob
<1>5. ASSUME NEW r \in Runs, Release(r) \/ Reject(r) \/ Reclaim(r) PROVE RInv'
  <2>1. PICK q \in QueueStates : /\ r \in RunIds /\ run' = [run EXCEPT ![r].at = q]
                                 /\ run[r].at \in {"awaiting_approval", "stub", "running"}
                                 /\ run[r].at = "running" =>
                                      \A p \in Procs : ~(At(p, "execute") /\ proc[p].run = r)
    <3>1. CASE Release(r)
      BY <3>1 DEF Release, InState, QueueStates
    <3>2. CASE Reject(r)
      BY <3>2, RejectMoves
    <3>3. CASE Reclaim(r)
      BY <3>3, ReclaimMoves
    <3> QED
      BY <1>5, <3>1, <3>2, <3>3
  <2>2. UNCHANGED again
    BY <1>5 DEF Release, Reject, Reclaim, ghosts, doubts
  <2>3. r \notin again => /\ run[r].result # "success"
                          /\ \A p \in Procs : ~(At(p, "execute") /\ proc[p].run = r)
    BY <2>1 DEF RInv
  <2> QED
    BY <1>1, <2>1, <2>2, <2>3, RJobAt
<1> QED
  BY <1>2, <1>3, <1>4, <1>5 DEF People, Decide, MarkDone, AskHuman, AcceptAsked, Block, Dismiss, ghosts, doubts, board

LEMMA RClaim == ASSUME TInv, RInv, NEW p \in Procs, NEW r \in Runs, Claim(p, r) PROVE RInv'
<1> DEFINE y == ClaimedRun(r)
           x == [proc[p] EXCEPT !.pc = "execute", !.run = r]
<1>1. /\ r \in RunIds /\ run[r].at = "pending" /\ y \in Run /\ run' = [run EXCEPT ![r] = y]
      /\ y.task = run[r].task /\ y.at = "running" /\ y.result = run[r].result
  BY Claimed
<1> HIDE DEF y
<1>2. RunIds' = RunIds /\ run'[r] = y /\ \A q \in RunIds \ {r} : run'[q] = run[q]
  BY <1>1, Rerun, TypingFacts
<1>3. proc'[p] = x /\ (\A q \in Procs \ {p} : proc'[q] = proc[q]) /\ x.pc = "execute" /\ x.run = r
  BY TypingFacts DEF Claim, Set, TInv, TypeOK, Proc
<1> HIDE DEF x
<1>4. \A q \in Procs : At(q, "execute")' => q = p \/ (At(q, "execute") /\ proc'[q].run = proc[q].run)
  BY <1>3 DEF At
<1>5. \A q \in Procs : Holding(proc'[q], RunIds) => Holding(proc[q], RunIds) /\ proc'[q].run = proc[q].run
  BY <1>3 DEF Holding
<1>6. \A q \in Procs : At(q, "execute") => proc[q].run \in RunIds /\ (r \notin again => proc[q].run # r)
  BY <1>1, TypingFacts DEF At, Shape, RInv
<1>7. \A q \in Procs : Holding(proc[q], RunIds) => proc[q].run \in RunIds /\ (r \notin again => proc[q].run # r)
  BY <1>1 DEF Holding, RInv
<1>8. r \notin again => run[r].result # "success"
  BY <1>1 DEF RInv
<1>9. UNCHANGED again
  BY DEF Claim, ghosts, doubts
<1> QED
  BY <1>1, <1>2, <1>3, <1>4, <1>5, <1>6, <1>7, <1>8, <1>9 DEF RInv

\* What a run that ends leaves behind.
LEMMA Executed ==
  ASSUME TInv, NEW p \in Procs, Execute(p)
  PROVE  \E outcome \in {"success", "failed"}, x \in Proc, y \in Run :
           LET r == proc[p].run IN
           /\ r \in RunIds /\ run' = [run EXCEPT ![r] = y] /\ y.task = run[r].task /\ y.flagged = run[r].flagged
           /\ y.at = AfterRun(r, outcome) /\ y.result = outcome
           /\ Set(p, x) /\ x.pc = "trigger" /\ x.ok = (outcome = "success") /\ x.run = r /\ x.kind = proc[p].kind
           /\ x.task = proc[p].task /\ x.then = proc[p].then /\ proc[p].kind \in {"loop", "worker"}
           /\ x.steps = IF proc[p].kind = "loop" THEN proc[p].steps + 1 ELSE proc[p].steps
<1> DEFINE r == proc[p].run
<1>1. proc[p] \in Proc /\ Shape(proc[p], RunIds, TaskIds) /\ proc[p].pc = "execute"
  BY TypingFacts DEF Execute, At
<1>2. r \in RunIds
  BY <1>1 DEF Shape
<1>3. PICK outcome \in {"success", "failed"} :
        /\ run' = [run EXCEPT ![r].at = AfterRun(r, outcome), ![r].result = outcome]
        /\ Set(p, [proc[p] EXCEPT !.pc = "trigger", !.ok = (outcome = "success"),
                     !.steps = IF proc[p].kind = "loop" THEN @ + 1 ELSE @])
  BY DEF Execute
<1> DEFINE n == IF proc[p].kind = "loop" THEN proc[p].steps + 1 ELSE proc[p].steps
           k == (outcome = "success")
           x == [proc[p] EXCEPT !.pc = "trigger", !.ok = k, !.steps = n]
           y == RunWith(r, AfterRun(r, outcome), outcome)
<1>4. run' = [run EXCEPT ![r] = y]
  BY <1>2, <1>3, TypingFacts DEF RunWith, Run, BoardTyped
<1>5. y \in Run /\ y.task = run[r].task /\ y.flagged = run[r].flagged /\ y.at = AfterRun(r, outcome) /\ y.result = outcome
  BY <1>2, AfterRunTyped, RunWithTyped
<1>6. Set(p, x)
  BY <1>1, <1>3 DEF Proc
<1>7. n \in 0 .. MaxSteps /\ k \in BOOLEAN /\ "trigger" \in PCs
  BY <1>1, BoundAssumption DEF Shape, Proc, PCs
<1> HIDE DEF y
<1>8. x \in Proc
  <2> HIDE DEF n, k
  <2> QED
    BY <1>1, <1>7, Zenon DEF Proc
<1>9. /\ x.pc = "trigger" /\ x.ok = k /\ x.run = r /\ x.kind = proc[p].kind /\ x.steps = n
      /\ x.task = proc[p].task /\ x.then = proc[p].then
  <2> HIDE DEF n, k
  <2> QED
    BY <1>1 DEF Proc
<1>10. proc[p].kind \in {"loop", "worker"}
  BY <1>1 DEF Shape
<1> HIDE DEF x
<1> QED
  BY <1>2, <1>4, <1>5, <1>6, <1>8, <1>9, <1>10

LEMMA RExecute == ASSUME TInv, RInv, NEW p \in Procs, Execute(p) PROVE RInv'
<1> DEFINE r == proc[p].run
<1>1. PICK outcome \in {"success", "failed"}, x \in Proc, y \in Run :
           /\ r \in RunIds /\ run' = [run EXCEPT ![r] = y] /\ y.task = run[r].task
           /\ y.at = AfterRun(r, outcome) /\ y.result = outcome
           /\ Set(p, x) /\ x.pc = "trigger" /\ x.ok = (outcome = "success") /\ x.run = r
  BY Executed
<1>2. RunIds' = RunIds /\ run'[r] = y /\ \A q \in RunIds \ {r} : run'[q] = run[q]
  BY <1>1, Rerun, TypingFacts
<1>3. proc'[p] = x /\ \A q \in Procs \ {p} : proc'[q] = proc[q]
  BY <1>1 DEF Set, TInv, TypeOK
<1>4. At(p, "execute") /\ (r \notin again => run[r].at \in {"running", "none"} /\ run[r].result # "success")
  BY DEF Execute, RInv
<1>5. outcome = "success" /\ r \notin again => y.at \in {"done", "none"}
  BY <1>1, <1>4 DEF AfterRun, Settled, Live
<1>6. \A q \in Procs : At(q, "execute")' => q # p /\ At(q, "execute") /\ proc'[q].run = proc[q].run
  BY <1>1, <1>3 DEF At
<1>7. \A q \in Procs : At(q, "execute") => proc[q].run \in RunIds /\ (q # p /\ r \notin again => proc[q].run # r)
  BY <1>4, TypingFacts DEF At, Shape, RInv
<1>8. \A q \in Procs : Holding(proc'[q], RunIds) =>
        \/ q = p /\ outcome = "success" /\ proc'[q].run = r
        \/ q # p /\ Holding(proc[q], RunIds) /\ proc'[q].run = proc[q].run
  BY <1>1, <1>3 DEF Holding
<1>9. \A q \in Procs : Holding(proc[q], RunIds) => proc[q].run \in RunIds /\ (r \notin again => proc[q].run # r)
  BY <1>4 DEF Holding, RInv
<1>10. UNCHANGED again
  BY DEF Execute, ghosts, doubts
<1> QED
  BY <1>1, <1>2, <1>5, <1>6, <1>7, <1>8, <1>9, <1>10 DEF RInv

LEMMA RPause == ASSUME TInv, RInv, NEW p \in Procs, Pause(p) \/ Guarded(p) PROVE RInv'
<1> DEFINE r == proc[p].run
           a == AfterRun(r, "paused")
<1>1. r \in RunIds /\ At(p, "execute")
  BY TypingFacts DEF Pause, Guarded, At, Shape
<1>2. a \in QueueStates /\ run' = [run EXCEPT ![r].at = a]
  BY <1>1, AfterRunTyped DEF Pause, Guarded
<1> HIDE DEF a
<1>3. PICK y \in Run : run' = [run EXCEPT ![r] = y] /\ y.task = run[r].task /\ y.at = a
                        /\ y.result = run[r].result /\ y.flagged = run[r].flagged
  <2>1. JobAt(r, a)
    BY <1>1, <1>2, Rejob
  <2> QED
    BY <2>1 DEF JobAt
<1>4. RunIds' = RunIds /\ run'[r] = y /\ \A q \in RunIds \ {r} : run'[q] = run[q]
  BY <1>1, <1>3, Rerun, TypingFacts
<1>5. proc'[p] = Idle /\ \A q \in Procs \ {p} : proc'[q] = proc[q]
  BY DEF Pause, Guarded, Ends, Set, TInv, TypeOK
<1>6. \A q \in Procs : At(q, "execute")' => q # p /\ At(q, "execute") /\ proc'[q].run = proc[q].run
  BY <1>5 DEF At, Idle
<1>7. \A q \in Procs : At(q, "execute") => proc[q].run \in RunIds /\ (q # p /\ r \notin again => proc[q].run # r)
  BY <1>1, TypingFacts DEF At, Shape, RInv
<1>8. \A q \in Procs : Holding(proc'[q], RunIds) => Holding(proc[q], RunIds) /\ proc'[q].run = proc[q].run
  BY <1>5, NotHolding
<1>9. \A q \in Procs : Holding(proc[q], RunIds) => proc[q].run \in RunIds /\ (r \notin again => proc[q].run # r)
  BY <1>1 DEF Holding, RInv
<1>10. r \notin again => run[r].result # "success"
  BY <1>1 DEF RInv
<1>11. UNCHANGED again
  BY DEF Pause, Guarded, ghosts, doubts
<1> QED
  BY <1>3, <1>4, <1>6, <1>7, <1>8, <1>9, <1>10, <1>11 DEF RInv

LEMMA ExecutedOnceStep == ASSUME TInv, RInv, [Next]_vars PROVE RInv'
<1>1. ASSUME NEW p \in Procs, Step(p) \/ Command(p) \/ Crash(p) \/ Orphan(p) PROVE RInv'
  <2>1. CASE QuietAction(p)
    BY <2>1, QuietSteps, RQuiet
  <2> QED
    BY <1>1, <2>1, RBuild, RClaim, RExecute, RPause, RWrites DEF Step, Command, QuietAction
<1>2. CASE People
  BY <1>2, RPeople
<1>3. CASE UNCHANGED vars
  BY <1>3, RStays DEF vars, board, ghosts, doubts
<1> QED
  BY <1>1, <1>2, <1>3 DEF Next

LEMMA ExecutedOnceInit == Init => RInv
BY NotHolding DEF Init, BoardInit, RInv, RunIds, At, Idle, Holding

\* A run is executed by one process at a time and seen through after its success by
\* one, and a run that has succeeded is not on the queue again (claim, cmd_worker,
\* evaluate_run_decision), unless a request to run it is approved after its job has been
\* dropped (resolve_approval_request).
THEOREM ExecutedOnce == Spec => []RInv
<1> QED
  BY Typed, ExecutedOnceInit, ExecutedOnceStep, PTL DEF Spec

------------------------------------------------------------------------------
(* What every step keeps. *)

TasksKept ==
  /\ TaskIds \subseteq TaskIds' /\ forced \subseteq forced'
  /\ \A t \in TaskIds \ forced' : /\ task'[t].deps = task[t].deps /\ task'[t].source = task[t].source
                                  /\ task[t].status \in Done => task'[t].status \in Done

RunsKept ==
  /\ RunIds \subseteq RunIds' /\ again \subseteq again'
  /\ \A r \in RunIds : /\ run'[r].task = run[r].task /\ run'[r].flagged = run[r].flagged
                       /\ run[r].result = "success" => run'[r].result = "success" \/ r \in again

\* A task that is done and gets another status is one that is forced.
LEMMA RestatedKept ==
  ASSUME TInv, NEW t \in TaskIds, NEW v, v \in {"todo", "done", "in_progress", "queued", "awaiting_approval", "blocked"},
         task' = [task EXCEPT ![t].status = v],
         \/ v = "done" /\ UNCHANGED forced
         \/ forced' = forced \cup Reopened(t)
  PROVE  TasksKept
<1>1. /\ TaskIds' = TaskIds /\ (\A u \in Tasks \ {t} : task'[u] = task[u]) /\ task'[t].status = v
      /\ \A u \in TaskIds : task'[u].deps = task[u].deps /\ task'[u].source = task[u].source
  BY Restated
<1>2. ASSUME NEW u \in TaskIds \ forced', task[u].status \in Done PROVE task'[u].status \in Done
  BY <1>1, <1>2 DEF Reopened, IsDone, TaskIds, Done
<1> QED
  BY <1>1, <1>2 DEF TasksKept

LEMMA TasksKeptStep == ASSUME TInv, [Next]_vars PROVE TasksKept
<1>1. CASE UNCHANGED task /\ forced \subseteq forced'
  BY <1>1 DEF TasksKept, TaskIds
<1>2. ASSUME NEW p \in Procs, Start(p) PROVE TasksKept
  <2>1. proc[p].task \in TaskIds
    BY <1>2, TypingFacts DEF Start, At, Shape
  <2> QED
    BY <1>2, <2>1, RestatedKept DEF Start
<1>3. ASSUME NEW p \in Procs, BuildFails(p) PROVE TasksKept
  <2>1. proc[p].task \in TaskIds
    BY <1>3, TypingFacts DEF BuildFails, At, Shape
  <2> QED
    BY <1>1, <1>3, <2>1, RestatedKept DEF BuildFails
<1>4. ASSUME NEW p \in Procs, Accept(p) PROVE TasksKept
  <2>1. run[proc[p].run].task \in TaskIds
    BY <1>4, TypingFacts DEF Accept, At, Shape, Judging
  <2> QED
    BY <1>4, <2>1, RestatedKept DEF Accept
<1>5. ASSUME NEW p \in Procs, QueueFollowUp(p) PROVE TasksKept
  <2>1. proc[p].task \in TaskIds
    BY <1>5, TypingFacts DEF QueueFollowUp, At, Shape
  <2> QED
    BY <1>5, <2>1, RestatedKept DEF QueueFollowUp
<1>6. ASSUME NEW t \in Tasks, MarkDone(t) PROVE TasksKept
  BY <1>6, RestatedKept DEF MarkDone, ghosts, doubts
<1>7. ASSUME NEW a \in approvals, Retry(a) PROVE TasksKept
  <2>1. run[a.run].task \in TaskIds
    BY TypingFacts DEF BoardTyped, Referring
  <2> QED
    BY <1>7, <2>1, RestatedKept DEF Retry
<1>8. ASSUME NEW a \in approvals, AcceptAsked(a) \/ Block(a) PROVE TasksKept
  <2>1. run[a.run].task \in TaskIds
    BY TypingFacts DEF BoardTyped, Referring
  <2> QED
    BY <1>8, <2>1, RestatedKept DEF AcceptAsked, Block, ghosts
<1>9. ASSUME NEW t \in TaskIds, NEW v \in {"queued", "awaiting_approval"},
              task' = [task EXCEPT ![t].status = v], forced \cup Reopened(t) \subseteq forced'
       PROVE  TasksKept
  <2>1. /\ TaskIds' = TaskIds /\ (\A u \in Tasks \ {t} : task'[u] = task[u]) /\ task'[t].status = v
        /\ \A u \in TaskIds : task'[u].deps = task[u].deps /\ task'[u].source = task[u].source
    BY <1>9, Restated
  <2>2. ASSUME NEW u \in TaskIds \ forced', task[u].status \in Done PROVE task'[u].status \in Done
    BY <1>9, <2>1, <2>2 DEF Reopened, IsDone, TaskIds, Done
  <2> QED
    BY <1>9, <2>1, <2>2 DEF TasksKept
<1>10. ASSUME NEW a \in approvals, Admit(a) PROVE TasksKept
  <2>1. run[a.run].task \in TaskIds
    BY TypingFacts DEF BoardTyped, Referring
  <2> QED
    BY <1>9, <1>10, <2>1 DEF Admit
<1>11. ASSUME NEW p \in Procs, Guarded(p) PROVE TasksKept
  <2>1. run[proc[p].run].task \in TaskIds
    BY <1>11, GuardedMoves
  <2> QED
    BY <1>9, <1>11, <2>1 DEF Guarded
<1>12. ASSUME NEW p \in Procs, WriteTask(p) PROVE TasksKept
  <2>1. LET n == proc[p].seq
        IN  /\ TaskIds' = TaskIds \cup {n} /\ (\A u \in Tasks \ {n} : task'[u] = task[u])
            /\ n \in TaskIds => n \in forced'
    BY <1>12, Written, Zenon
  <2>2. forced \subseteq forced'
    BY <1>12 DEF WriteTask
  <2> QED
    BY <2>1, <2>2 DEF TasksKept, TaskIds
<1>13. CASE UNCHANGED vars
  BY <1>1, <1>13 DEF vars, board, ghosts, doubts
<1>14. ASSUME NEW p \in Procs, Step(p) \/ Command(p) \/ Crash(p) \/ Orphan(p) PROVE TasksKept
  <2>1. CASE \/ Look(p) \/ EndsEarly(p) \/ Build(p) \/ NothingToDo(p) \/ Execute(p) \/ Pause(p)
             \/ SkipReview(p) \/ ReviewFails(p) \/ Trigger(p) \/ BatchNumber(p) \/ Manifest(p) \/ DecisionStubs(p) \/ SaveCadence(p) \/ Review(p)
             \/ EvaluateFailed(p) \/ EvaluateWaits(p) \/ EvaluateReviewed(p) \/ EvaluateUnreviewed(p)
             \/ TaskNumber(p) \/ (\E r \in Runs : Claim(p, r)) \/ Command(p) \/ Crash(p) \/ Orphan(p)
    <3>1. UNCHANGED task /\ forced \subseteq forced'
      BY <2>1 DEF Look, EndsEarly, Build, NothingToDo, Execute, Pause, SkipReview, ReviewFails, Trigger, BatchNumber, Manifest,
         DecisionStubs, SaveCadence, Review, EvaluateFailed, EvaluateWaits, EvaluateReviewed,
         EvaluateUnreviewed, TaskNumber, Claim, Command, Orchestrate, Worker, Delegate, Enqueue, ReviewGate,
         Crash, Orphan, board, ghosts, doubts
    <3> QED
      BY <1>1, <3>1
  <2> QED
    BY <1>2, <1>3, <1>4, <1>5, <1>11, <1>12, <1>14, <2>1 DEF Step
<1>15. CASE People
  BY <1>1, <1>6, <1>7, <1>8, <1>10, <1>15 DEF People, Decide, AskHuman, Dismiss, Release, Reject, Reclaim, board,
     ghosts
<1> QED
  BY <1>13, <1>14, <1>15 DEF Next

LEMMA JobKept ==
  ASSUME TInv, NEW r \in RunIds, NEW q, JobAt(r, q), UNCHANGED again
  PROVE  RunsKept
<1>1. PICK y \in Run : /\ run' = [run EXCEPT ![r] = y] /\ y.task = run[r].task
                       /\ y.result = run[r].result /\ y.flagged = run[r].flagged
  BY DEF JobAt
<1>2. RunIds' = RunIds /\ run'[r] = y /\ \A s \in Runs \ {r} : run'[s] = run[s]
  BY <1>1, Rerun
<1> QED
  BY <1>1, <1>2 DEF RunsKept, RunIds

LEMMA RunsKeptStep == ASSUME TInv, RInv, [Next]_vars PROVE RunsKept
<1>1. CASE UNCHANGED <<run, again>>
  BY <1>1 DEF RunsKept, RunIds
<1>2. ASSUME NEW p \in Procs, Build(p) PROVE RunsKept
  <2>1. PICK r \in Runs \ RunIds : RunIds' = RunIds \cup {r} /\ \A q \in RunIds : run'[q] = run[q]
    BY <1>2, Built
  <2>2. UNCHANGED again
    BY <1>2 DEF Build, ghosts, doubts
  <2> QED
    BY <2>1, <2>2 DEF RunsKept
<1>3. ASSUME NEW p \in Procs, NEW r \in Runs, Claim(p, r) PROVE RunsKept
  <2> DEFINE y == ClaimedRun(r)
  <2>1. /\ r \in RunIds /\ y \in Run /\ run' = [run EXCEPT ![r] = y]
        /\ y.task = run[r].task /\ y.result = run[r].result /\ y.flagged = run[r].flagged
    BY <1>3, Claimed
  <2> HIDE DEF y
  <2>2. RunIds' = RunIds /\ run'[r] = y /\ \A s \in Runs \ {r} : run'[s] = run[s]
    BY <2>1, Rerun
  <2> QED
    BY <1>3, <2>1, <2>2 DEF RunsKept, RunIds, Claim, ghosts, doubts
<1>4. ASSUME NEW p \in Procs, Execute(p) PROVE RunsKept
  <2> DEFINE r == proc[p].run
  <2>1. PICK y \in Run : /\ r \in RunIds /\ run' = [run EXCEPT ![r] = y] /\ y.task = run[r].task
                         /\ y.flagged = run[r].flagged
    BY <1>4, Executed
  <2>2. RunIds' = RunIds /\ run'[r] = y /\ \A s \in Runs \ {r} : run'[s] = run[s]
    BY <2>1, Rerun
  <2>3. (r \notin again => run[r].result # "success") /\ UNCHANGED again
    BY <1>4 DEF Execute, RInv, ghosts, doubts
  <2> QED
    BY <2>1, <2>2, <2>3 DEF RunsKept, RunIds
<1>5. ASSUME NEW p \in Procs, Pause(p) \/ Guarded(p) PROVE RunsKept
  <2> DEFINE r == proc[p].run
             q == AfterRun(r, "paused")
  <2>1. r \in RunIds /\ q \in QueueStates /\ run' = [run EXCEPT ![r].at = q]
    BY <1>5, AfterRunTyped, TypingFacts DEF Pause, Guarded, At, Shape
  <2> HIDE DEF q
  <2> QED
    BY <1>5, <2>1, Rejob, JobKept DEF Pause, Guarded, ghosts, doubts
<1>6. ASSUME NEW a \in approvals, Retry(a) PROVE RunsKept
  <2>1. a.run \in RunIds /\ "none" \in QueueStates /\ run' = [run EXCEPT ![a.run].at = "none"]
    BY <1>6, TypingFacts DEF Retry, QueueStates, BoardTyped, Referring
  <2> QED
    BY <1>6, <2>1, Rejob, JobKept DEF Retry, doubts
<1>7. ASSUME NEW r \in Runs, Release(r) PROVE RunsKept
  <2>1. r \in RunIds /\ "pending" \in QueueStates /\ run' = [run EXCEPT ![r].at = "pending"]
    BY <1>7 DEF Release, InState, QueueStates
  <2> QED
    BY <1>7, <2>1, Rejob, JobKept DEF Release, ghosts, doubts
<1>8. ASSUME NEW r \in Runs, Reclaim(r) PROVE RunsKept
  <2> DEFINE q == Reclaimed(r)
  <2>1. r \in RunIds /\ q \in QueueStates /\ run' = [run EXCEPT ![r].at = q]
    BY <1>8, ReclaimMoves
  <2> HIDE DEF q
  <2> QED
    BY <1>8, <2>1, Rejob, JobKept DEF Reclaim, ghosts, doubts
<1>9. ASSUME NEW r \in Runs, Reject(r) PROVE RunsKept
  <2> DEFINE q == Rejected(r)
  <2>1. r \in RunIds /\ q \in QueueStates /\ run' = [run EXCEPT ![r].at = q]
    BY <1>9, RejectMoves
  <2> HIDE DEF q
  <2> QED
    BY <1>9, <2>1, Rejob, JobKept DEF Reject, doubts
<1>10. ASSUME NEW a \in approvals, Admit(a) PROVE RunsKept
  <2> DEFINE r == a.run
             y == AdmittedRun(r)
  <2>1. /\ r \in RunIds /\ y \in Run /\ run' = [run EXCEPT ![r] = y]
        /\ y.task = run[r].task /\ y.result = run[r].result /\ y.flagged = run[r].flagged
    BY <1>10, AdmitMoves
  <2> HIDE DEF y
  <2>2. RunIds' = RunIds /\ run'[r] = y /\ \A s \in Runs \ {r} : run'[s] = run[s]
    BY <2>1, Rerun
  <2>3. again \subseteq again'
    BY <1>10 DEF Admit
  <2> QED
    BY <2>1, <2>2, <2>3 DEF RunsKept, RunIds
<1>11. CASE UNCHANGED vars
  BY <1>1, <1>11 DEF vars, board, ghosts, doubts
<1>12. ASSUME NEW p \in Procs, Step(p) \/ Command(p) \/ Crash(p) \/ Orphan(p) PROVE RunsKept
  <2>1. CASE \/ Look(p) \/ EndsEarly(p) \/ Start(p) \/ BuildFails(p) \/ NothingToDo(p)
             \/ SkipReview(p) \/ ReviewFails(p) \/ Trigger(p) \/ BatchNumber(p) \/ Manifest(p) \/ DecisionStubs(p) \/ SaveCadence(p) \/ Review(p)
             \/ EvaluateFailed(p) \/ EvaluateWaits(p) \/ EvaluateReviewed(p) \/ EvaluateUnreviewed(p)
             \/ Accept(p) \/ TaskNumber(p) \/ WriteTask(p) \/ QueueFollowUp(p) \/ Command(p) \/ Crash(p) \/ Orphan(p)
    <3>1. UNCHANGED <<run, again>>
      BY <2>1 DEF Look, EndsEarly, Start, BuildFails, NothingToDo, SkipReview, ReviewFails, Trigger, BatchNumber, Manifest,
         DecisionStubs, SaveCadence, Review, EvaluateFailed, EvaluateWaits, EvaluateReviewed, EvaluateUnreviewed,
         Accept, TaskNumber, WriteTask, QueueFollowUp, Command, Orchestrate, Worker, Delegate, Enqueue,
         ReviewGate, Crash, Orphan, board, ghosts, doubts
    <3> QED
      BY <1>1, <3>1
  <2> QED
    BY <1>2, <1>3, <1>4, <1>5, <1>12, <2>1 DEF Step
<1>13. CASE People
  BY <1>1, <1>6, <1>7, <1>8, <1>9, <1>10, <1>13 DEF People, Decide, MarkDone, AskHuman, AcceptAsked, Block, Dismiss,
     board, ghosts, doubts
<1> QED
  BY <1>11, <1>12, <1>13 DEF Next


SameSources ==
  /\ TaskIds' = TaskIds /\ \A t \in TaskIds : task'[t].source = task[t].source
  /\ UNCHANGED overwritten

\* Only a new task has another source than the one of its number had.
LEMMA SourcesStep ==
  ASSUME TInv, [Next]_vars, \A p \in Procs : ~WriteTask(p)
  PROVE  SameSources
<1>1. CASE UNCHANGED <<task, overwritten>>
  BY <1>1 DEF SameSources, TaskIds
<1>2. ASSUME UNCHANGED overwritten, NEW t \in TaskIds, NEW v \in {"todo", "done", "in_progress", "queued", "awaiting_approval", "blocked"},
             task' = [task EXCEPT ![t].status = v]
      PROVE  SameSources
  BY <1>2, Restated DEF SameSources
<1>3. ASSUME NEW p \in Procs, Start(p) \/ BuildFails(p) \/ Accept(p) \/ QueueFollowUp(p) \/ Guarded(p)
      PROVE  SameSources
  <2>1. /\ Start(p) \/ BuildFails(p) \/ QueueFollowUp(p) => proc[p].task \in TaskIds
        /\ Accept(p) \/ Guarded(p) => run[proc[p].run].task \in TaskIds
    BY TypingFacts DEF Start, BuildFails, Accept, QueueFollowUp, Guarded, At, Shape, Judging
  <2> QED
    BY <1>1, <1>2, <1>3, <2>1 DEF Start, BuildFails, Accept, QueueFollowUp, Guarded
<1>4. ASSUME NEW p \in Procs, Step(p) \/ Command(p) \/ Crash(p) \/ Orphan(p), ~WriteTask(p) PROVE SameSources
  <2>1. CASE QuietAction(p)
    BY <1>1, <2>1, QuietSteps DEF Quiet
  <2>2. CASE \/ Look(p) \/ Build(p) \/ Execute(p) \/ Pause(p) \/ Requeues(p)
             \/ (\E r \in Runs : Claim(p, r)) \/ \E t \in Tasks : Enqueue(p, t)
    BY <1>1, <2>2 DEF Look, Build, Execute, Pause, Requeues, EvaluateReviewed, Claim, Enqueue, board, ghosts
  <2> QED
    BY <1>3, <1>4, <2>1, <2>2 DEF Step, Command, QuietAction
<1>5. CASE People
  <2>1. ASSUME NEW a \in approvals, Retry(a) \/ AcceptAsked(a) \/ Admit(a) \/ Block(a) PROVE SameSources
    <3>1. run[a.run].task \in TaskIds
      BY TypingFacts DEF BoardTyped, Referring
    <3> QED
      BY <1>2, <2>1, <3>1 DEF Retry, AcceptAsked, Admit, Block, ghosts
  <2>2. ASSUME NEW t \in Tasks, MarkDone(t) PROVE SameSources
    BY <1>2, <2>2 DEF MarkDone, ghosts, doubts
  <2> QED
    BY <1>1, <1>5, <2>1, <2>2 DEF People, Decide, AskHuman, Dismiss, Release, Reject, Reclaim, board, ghosts
<1> QED
  BY <1>1, <1>4, <1>5 DEF Next, vars, board, ghosts, doubts

\* What was put back on the queue is of a task that is forced, and stays so.
LEMMA GStep == ASSUME TInv, GInv, TasksKept, RunsKept, [Next]_vars PROVE GInv'
<1>1. CASE UNCHANGED again
  BY <1>1 DEF GInv, TasksKept, RunsKept
<1>2. ASSUME NEW a \in approvals, Admit(a) PROVE GInv'
  <2>1. a.run \in RunIds
    BY TypingFacts DEF BoardTyped, Referring
  <2>2. again' \subseteq again \cup {a.run} /\ (a.run \in again' => a.run \in again \/ run[a.run].task \in forced')
    BY <1>2 DEF Admit
  <2> QED
    BY <2>1, <2>2 DEF GInv, TasksKept, RunsKept
<1>3. CASE UNCHANGED vars
  BY <1>1, <1>3 DEF vars, ghosts, doubts
<1>4. ASSUME NEW p \in Procs, Step(p) \/ Command(p) \/ Crash(p) \/ Orphan(p) PROVE GInv'
  <2>1. UNCHANGED again
    <3>1. CASE QuietAction(p)
      BY <3>1, QuietSteps DEF Quiet
    <3>2. CASE ~QuietAction(p)
      BY <1>4, <3>2 DEF Step, Command, QuietAction, Look, Start, Build, BuildFails, Execute, Pause, Guarded,
         Requeues, EvaluateReviewed, Accept, WriteTask, QueueFollowUp, Claim, Enqueue, ghosts, doubts
    <3> QED
      BY <3>1, <3>2
  <2> QED
    BY <1>1, <2>1
<1>5. CASE People
  BY <1>1, <1>2, <1>5 DEF People, Decide, MarkDone, AskHuman, Retry, AcceptAsked, Block, Dismiss, Release, Reject,
     Reclaim, ghosts, doubts
<1> QED
  BY <1>3, <1>4, <1>5 DEF Next

\* Only a task that is forced has a run that was put back on the queue after its job
\* had been dropped (resolve_approval_request).
THEOREM ForcedAgain == Spec => []GInv
<1>1. Init => GInv
  BY DEF Init, GInv
<1>2. TInv /\ RInv /\ GInv /\ [Next]_vars => GInv'
  BY GStep, TasksKeptStep, RunsKeptStep
<1> QED
  BY <1>1, <1>2, Typed, ExecutedOnce, PTL DEF Spec

------------------------------------------------------------------------------
(* The order of the tasks. *)

\* A task whose turn has come keeps it.
LEMMA OrderKept ==
  ASSUME TInv, GInv, TasksKept, RunsKept, NEW t \in TaskIds, InOrder(t)
  PROVE  InOrder(t)'
<1>1. CASE t \in forced'
  BY <1>1 DEF InOrder
<1>2. CASE t \notin forced'
  <2>1. t \notin forced /\ task'[t].deps = task[t].deps /\ task'[t].source = task[t].source
    BY <1>2 DEF TasksKept
  <2>2. ASSUME NEW d \in task[t].deps PROVE Satisfied(t, d)'
    <3>1. Satisfied(t, d)
      BY <2>1 DEF InOrder
    <3>2. CASE IsDone(d)
      BY <3>2 DEF IsDone, Satisfied, TasksKept
    <3>3. CASE d \in forced
      BY <3>3 DEF Satisfied, TasksKept
    <3>4. CASE task[t].source \in RunIds /\ run[task[t].source].task = d /\ run[task[t].source].result = "success"
      <4>1. CASE task[t].source \in again
        BY <3>4, <4>1 DEF GInv, Satisfied, TasksKept
      <4>2. CASE task[t].source \notin again
        BY <2>1, <3>4, <4>2 DEF Satisfied, RunsKept
      <4> QED
        BY <4>1, <4>2
    <3> QED
      BY <3>1, <3>2, <3>3, <3>4 DEF Satisfied
  <2> QED
    BY <2>1, <2>2 DEF InOrder
<1> QED
  BY <1>1, <1>2

\* A run on the queue or in somebody's hands.
Engaged(r) == run[r].at \in Live \/ \E p \in Procs : At(p, "execute") /\ proc[p].run = r

\* A follow-up was one before, or comes when its turn has come.
FollowsKept ==
  \A t \in TaskIds' : task'[t].source # 0 => (t \in TaskIds /\ task[t].source # 0) \/ InOrder(t)'

LEMMA DKept ==
  ASSUME TInv, GInv, DInv, TasksKept, RunsKept, FollowsKept,
         \A q \in Procs : Building(proc[q])' =>
           \/ Building(proc[q]) /\ proc'[q].task = proc[q].task
           \/ InOrder(proc[q].task)',
         \A r \in RunIds' : Engaged(r)' => (r \in RunIds /\ Engaged(r)) \/ InOrder(run[r].task)'
  PROVE  DInv'
<1>1. ASSUME NEW q \in Procs, Building(proc[q])' PROVE InOrder(proc[q].task)'
  <2>1. CASE Building(proc[q]) /\ proc'[q].task = proc[q].task
    <3>1. proc[q].task \in TaskIds /\ InOrder(proc[q].task)
      BY <2>1, TypingFacts DEF DInv, Building, Shape
    <3>2. PICK t \in TaskIds : t = proc[q].task /\ t = proc'[q].task
      BY <2>1, <3>1
    <3>3. InOrder(t)
      BY <3>1, <3>2
    <3>4. InOrder(t)'
      BY <3>3, OrderKept
    <3> QED
      BY <3>2, <3>4 DEF InOrder, Satisfied
  <2> QED
    BY <1>1, <2>1
<1>2. ASSUME NEW r \in RunIds', Engaged(r)' PROVE InOrder(run[r].task)'
  <2>1. CASE r \in RunIds /\ Engaged(r)
    <3>1. run[r].task \in TaskIds /\ InOrder(run[r].task) /\ run[r].task = run'[r].task
      BY <2>1, TypingFacts DEF DInv, Engaged, RunsKept
    <3>2. PICK t \in TaskIds : t = run[r].task /\ t = run'[r].task
      BY <3>1
    <3>3. InOrder(t)
      BY <3>1, <3>2
    <3>4. InOrder(t)'
      BY <3>3, OrderKept
    <3> QED
      BY <3>2, <3>4 DEF InOrder, Satisfied
  <2> QED
    BY <1>2, <2>1
<1>3. ASSUME NEW t \in TaskIds', task'[t].source # 0 PROVE InOrder(t)'
  <2>1. CASE t \in TaskIds /\ task[t].source # 0
    BY <2>1, OrderKept DEF DInv
  <2> QED
    BY <1>3, <2>1 DEF FollowsKept
<1> QED
  BY <1>1, <1>2, <1>3 DEF DInv, Engaged

\* A step after which nothing more is engaged than before.
LEMMA DMoves ==
  ASSUME TInv, GInv, DInv, TasksKept, RunsKept, FollowsKept, NEW p \in Procs, NEW x, Set(p, x), UNCHANGED run,
         x.pc # "execute",
         Building(x) => (Building(proc[p]) /\ x.task = proc[p].task) \/ InOrder(proc[p].task)'
  PROVE  DInv'
<1>1. proc'[p] = x /\ \A q \in Procs \ {p} : proc'[q] = proc[q]
  BY DEF Set, TInv, TypeOK
<1>2. \A q \in Procs : Building(proc[q])' =>
        (Building(proc[q]) /\ proc'[q].task = proc[q].task) \/ InOrder(proc[q].task)'
  BY <1>1 DEF Building
<1>3. \A r \in RunIds' : Engaged(r)' => r \in RunIds /\ Engaged(r)
  BY <1>1 DEF Engaged, At, RunIds
<1> QED
  BY <1>2, <1>3, DKept

LEMMA DQuiet == ASSUME TInv, GInv, DInv, TasksKept, RunsKept, FollowsKept, Quiet PROVE DInv'
<1>1. \A q \in Procs : Building(proc[q])' => Building(proc[q]) /\ proc'[q].task = proc[q].task
  BY DEF Quiet, Building
<1>2. \A r \in RunIds' : Engaged(r)' => r \in RunIds /\ Engaged(r)
  BY DEF Quiet, Engaged, At, RunIds
<1> QED
  BY <1>1, <1>2, DKept

LEMMA DLook == ASSUME TInv, GInv, DInv, TasksKept, RunsKept, FollowsKept, NEW p \in Procs, Look(p) PROVE DInv'
<1>1. UNCHANGED <<run, task>> /\ proc[p] \in Proc
  BY TypingFacts DEF Look, board
<1>2. CASE Set(p, Idle)
  BY <1>1, <1>2, DMoves DEF Building, Idle
<1>3. CASE Goes(p, "claim")
  <2> DEFINE x == [proc[p] EXCEPT !.pc = "claim"]
  <2>1. Set(p, x) /\ x.pc # "execute" /\ ~Building(x)
    BY <1>1, <1>3 DEF Goes, Building, Proc
  <2> QED
    BY <1>1, <2>1, DMoves
<1>4. CASE Selectable # {} /\ Set(p, [proc[p] EXCEPT !.pc = "start", !.then = "claim", !.task = First(Selectable)])
  <2>1. First(Selectable) \in Selectable
    BY <1>4, FirstChosen DEF Selectable
  <2>2. PICK t \in TaskIds : t = First(Selectable) /\ Ready(t)
    BY <2>1 DEF Selectable
  <2> DEFINE x == [proc[p] EXCEPT !.pc = "start", !.then = "claim", !.task = t]
  <2>3. Set(p, x) /\ x.pc # "execute" /\ x.task = t
    BY <1>1, <1>4, <2>2 DEF Proc
  <2> HIDE DEF x
  <2>4. proc'[p].task = t
    BY <2>3 DEF Set, TInv, TypeOK
  <2>5. InOrder(proc[p].task)'
    BY <1>1, <2>2, <2>4 DEF InOrder, Satisfied, Ready, IsDone, TaskIds
  <2> QED
    BY <1>1, <2>3, <2>5, DMoves
<1> QED
  BY <1>2, <1>3, <1>4 DEF Look, Ends

LEMMA DBuild == ASSUME TInv, GInv, DInv, TasksKept, RunsKept, FollowsKept, NEW p \in Procs, Build(p) PROVE DInv'
<1>1. PICK r \in Runs \ RunIds :
           /\ run'[r] = NewRun(proc[p].task)
           /\ RunIds' = RunIds \cup {r} /\ \A q \in RunIds : run'[q] = run[q]
  BY Built
<1>2. proc[p] \in Proc /\ Shape(proc[p], RunIds, TaskIds) /\ At(p, "build")
  BY TypingFacts DEF Build
<1>3. PICK x : Set(p, x) /\ x.pc \notin {"execute", "start", "build", "queue"}
  <2>1. CASE proc[p].then = "idle"
    BY <2>1 DEF Build, Ends, Idle
  <2>2. CASE proc[p].then # "idle"
    <3> DEFINE x == [proc[p] EXCEPT !.pc = proc[p].then, !.then = "idle", !.task = 0]
    <3>1. Set(p, x) /\ x.pc \notin {"execute", "start", "build", "queue"}
      BY <1>2, <2>2 DEF Build, Proc, Shape, At
    <3> QED
      BY <3>1
  <2> QED
    BY <2>1, <2>2
<1>4. proc'[p] = x /\ \A q \in Procs \ {p} : proc'[q] = proc[q]
  BY <1>3 DEF Set, TInv, TypeOK
<1>5. \A q \in Procs : Building(proc[q])' => Building(proc[q]) /\ proc'[q].task = proc[q].task
  BY <1>3, <1>4 DEF Building
<1>6. InOrder(run[r].task)'
  <2>1. proc[p].task \in TaskIds /\ InOrder(proc[p].task) /\ run'[r].task = proc[p].task
    BY <1>1, <1>2, Built DEF DInv, Building, At, NewRun
  <2>2. PICK t \in TaskIds : t = proc[p].task /\ InOrder(t)
    BY <2>1
  <2>3. InOrder(t)'
    BY <2>2, OrderKept
  <2> QED
    BY <2>1, <2>2, <2>3 DEF InOrder, Satisfied
<1>7. ASSUME NEW q \in RunIds', Engaged(q)', q # r PROVE q \in RunIds /\ Engaged(q)
  BY <1>1, <1>3, <1>4, <1>7 DEF Engaged, At
<1>8. \A q \in RunIds' : Engaged(q)' => (q \in RunIds /\ Engaged(q)) \/ InOrder(run[q].task)'
  BY <1>6, <1>7
<1> QED
  BY <1>5, <1>8, DKept

\* A step that moves a job: the one that is engaged afterwards was so before.
LEMMA DJob ==
  ASSUME TInv, GInv, DInv, TasksKept, RunsKept, FollowsKept, NEW r \in RunIds, NEW y \in Run, run' = [run EXCEPT ![r] = y],
         y.task = run[r].task,
         y.at \in Live => Engaged(r) \/ run[r].task \in forced',
         \A q \in Procs : proc'[q] = proc[q] \/ (~Building(proc'[q]) /\ (proc'[q].pc = "execute" => proc'[q].run = r /\ Engaged(r)))
  PROVE  DInv'
<1>1. RunIds' = RunIds /\ run'[r] = y /\ \A q \in Runs \ {r} : run'[q] = run[q]
  BY Rerun
<1>2. \A q \in Procs : Building(proc[q])' => Building(proc[q]) /\ proc'[q].task = proc[q].task
  OBVIOUS
<1>3. \A q \in RunIds' : Engaged(q)' => (q \in RunIds /\ Engaged(q)) \/ (q = r /\ run[r].task \in forced')
  BY <1>1 DEF Engaged, At, RunIds
<1>4. run[r].task \in forced' => InOrder(run[r].task)'
  BY <1>1 DEF InOrder
<1> QED
  BY <1>2, <1>3, <1>4, DKept

LEMMA DJobAt ==
  ASSUME TInv, GInv, DInv, TasksKept, RunsKept, FollowsKept, NEW r \in RunIds, NEW a, JobAt(r, a), a \in Live => Engaged(r),
         \A q \in Procs : proc'[q] = proc[q] \/ (~Building(proc'[q]) /\ proc'[q].pc # "execute")
  PROVE  DInv'
<1>1. PICK y \in Run : run' = [run EXCEPT ![r] = y] /\ y.task = run[r].task /\ y.at = a
  BY DEF JobAt
<1> QED
  BY <1>1, DJob

LEMMA DWorker ==
  ASSUME TInv, GInv, DInv, TasksKept, RunsKept, FollowsKept, NEW p \in Procs,
         Execute(p) \/ Pause(p) \/ Guarded(p) \/ \E r \in Runs : Claim(p, r)
  PROVE  DInv'
<1>1. proc[p] \in Proc /\ Shape(proc[p], RunIds, TaskIds)
  BY TypingFacts
<1>2. CASE Execute(p)
  <2>1. PICK outcome \in {"success", "failed"}, x \in Proc, y \in Run :
           LET r == proc[p].run IN
           /\ r \in RunIds /\ run' = [run EXCEPT ![r] = y] /\ y.task = run[r].task
           /\ Set(p, x) /\ x.pc = "trigger"
    BY <1>2, Executed
  <2>2. Engaged(proc[p].run)
    BY <1>2 DEF Execute, Engaged
  <2>3. \A q \in Procs : proc'[q] = proc[q] \/ (~Building(proc'[q]) /\ proc'[q].pc # "execute")
    BY <2>1 DEF Set, TInv, TypeOK, Building
  <2> QED
    BY <2>1, <2>2, <2>3, DJob
<1>3. CASE Pause(p) \/ Guarded(p)
  <2> DEFINE r == proc[p].run
             a == AfterRun(r, "paused")
  <2>1. r \in RunIds /\ a \in QueueStates /\ run' = [run EXCEPT ![r].at = a]
    BY <1>1, <1>3, AfterRunTyped DEF Pause, Guarded, At, Shape
  <2> HIDE DEF a
  <2>2. JobAt(r, a)
    BY <2>1, Rejob
  <2>3. Engaged(r)
    BY <1>3 DEF Pause, Guarded, Engaged
  <2>4. \A q \in Procs : proc'[q] = proc[q] \/ (~Building(proc'[q]) /\ proc'[q].pc # "execute")
    BY <1>3 DEF Pause, Guarded, Ends, Idle, Set, TInv, TypeOK, Building
  <2> QED
    BY <2>1, <2>2, <2>3, <2>4, DJobAt
<1>4. ASSUME NEW r \in Runs, Claim(p, r) PROVE DInv'
  <2> DEFINE y == ClaimedRun(r)
             x == [proc[p] EXCEPT !.pc = "execute", !.run = r]
  <2>1. r \in RunIds /\ run[r].at = "pending" /\ y \in Run /\ run' = [run EXCEPT ![r] = y] /\ y.task = run[r].task
    BY <1>4, Claimed
  <2> HIDE DEF y
  <2>2. Engaged(r)
    BY <2>1 DEF Engaged, Live
  <2>3. x.pc = "execute" /\ x.run = r /\ Set(p, x)
    BY <1>1, <1>4 DEF Claim, Proc
  <2> HIDE DEF x
  <2>4. \A q \in Procs : proc'[q] = proc[q] \/ (~Building(proc'[q]) /\ proc'[q].run = r)
    BY <2>3 DEF Set, TInv, TypeOK, Building
  <2> QED
    BY <2>1, <2>2, <2>4, DJob
<1> QED
  BY <1>2, <1>3, <1>4

LEMMA DPeople ==
  ASSUME TInv, GInv, DInv, TasksKept, RunsKept, FollowsKept, People
  PROVE  DInv'
<1>1. UNCHANGED proc
  BY DEF People, Decide, MarkDone, AskHuman, Retry, AcceptAsked, Admit, Block, Dismiss, Release, Reject, Reclaim
<1>2. CASE UNCHANGED run
  <2>1. \A q \in Procs : Building(proc[q])' => Building(proc[q]) /\ proc'[q].task = proc[q].task
    BY <1>1
  <2>2. \A r \in RunIds' : Engaged(r)' => r \in RunIds /\ Engaged(r)
    BY <1>1, <1>2 DEF Engaged, At, RunIds
  <2> QED
    BY <2>1, <2>2, DKept
<1>3. ASSUME NEW a \in approvals, Retry(a) PROVE DInv'
  <2>1. a.run \in RunIds /\ "none" \in QueueStates /\ run' = [run EXCEPT ![a.run].at = "none"]
    BY <1>3, TypingFacts DEF Retry, QueueStates, BoardTyped, Referring
  <2>2. JobAt(a.run, "none")
    BY <2>1, Rejob
  <2> QED
    BY <1>1, <2>1, <2>2, DJobAt DEF Live
<1>4. ASSUME NEW r \in Runs, Release(r) PROVE DInv'
  <2>1. r \in RunIds /\ "pending" \in QueueStates /\ run' = [run EXCEPT ![r].at = "pending"]
    BY <1>4 DEF Release, InState, QueueStates
  <2>2. JobAt(r, "pending")
    BY <2>1, Rejob
  <2>3. Engaged(r)
    BY <1>4 DEF Release, InState, Engaged, Live
  <2> QED
    BY <1>1, <2>1, <2>2, <2>3, DJobAt
<1>5. ASSUME NEW r \in Runs, Reclaim(r) PROVE DInv'
  <2> DEFINE q == Reclaimed(r)
  <2>1. r \in RunIds /\ q \in QueueStates /\ run' = [run EXCEPT ![r].at = q]
    BY <1>5, ReclaimMoves
  <2>2. q \in Live => Engaged(r)
    BY <1>5, ReclaimMoves DEF Reclaimed, Engaged, Live
  <2> HIDE DEF q
  <2>3. JobAt(r, q)
    BY <2>1, Rejob
  <2> QED
    BY <1>1, <2>1, <2>2, <2>3, DJobAt
<1>6. ASSUME NEW r \in Runs, Reject(r) PROVE DInv'
  <2> DEFINE q == Rejected(r)
  <2>1. r \in RunIds /\ q \in QueueStates /\ run' = [run EXCEPT ![r].at = q] /\ q \notin Live
    BY <1>6, RejectMoves DEF Rejected, Live
  <2> HIDE DEF q
  <2>2. JobAt(r, q)
    BY <2>1, Rejob
  <2> QED
    BY <1>1, <2>1, <2>2, DJobAt
<1>7. ASSUME NEW a \in approvals, Admit(a) PROVE DInv'
  <2> DEFINE r == a.run
             y == AdmittedRun(r)
  <2>1. /\ r \in RunIds /\ y \in Run /\ run' = [run EXCEPT ![r] = y] /\ y.task = run[r].task
        /\ y.at = Admitted(r) /\ run[r].at \in {"awaiting_approval", "none", "stub"}
    BY <1>7, AdmitMoves
  <2> HIDE DEF y
  <2>2. run[r].at = "none" => run[r].task \in forced'
    BY <1>7 DEF Admit
  <2>3. y.at \in Live => Engaged(r) \/ run[r].task \in forced'
    BY <2>1, <2>2 DEF Admitted, Engaged, Live
  <2> QED
    BY <1>1, <2>1, <2>3, DJob
<1> QED
  BY <1>2, <1>3, <1>4, <1>5, <1>6, <1>7 DEF People, Decide, MarkDone, AskHuman, AcceptAsked, Block, Dismiss, ghosts,
     board

LEMMA DWrites ==
  ASSUME TInv, RInv, GInv, DInv, TasksKept, RunsKept, FollowsKept, NEW p \in Procs,
         \/ Start(p) \/ BuildFails(p) \/ Accept(p) \/ WriteTask(p) \/ QueueFollowUp(p) \/ Requeues(p)
         \/ \E t \in Tasks : Enqueue(p, t)
  PROVE  DInv'
<1>1. proc[p] \in Proc /\ Shape(proc[p], RunIds, TaskIds)
  BY TypingFacts
<1>2. UNCHANGED run
  BY DEF Start, BuildFails, Accept, WriteTask, QueueFollowUp, Requeues, EvaluateReviewed, Enqueue, board
<1>3. CASE Set(p, Idle)
  BY <1>2, <1>3, DMoves DEF Building, Idle
<1>4. CASE Start(p)
  <2> DEFINE x == [proc[p] EXCEPT !.pc = "build"]
  <2>1. Set(p, x) /\ x.pc # "execute" /\ x.task = proc[p].task /\ Building(proc[p])
    BY <1>1, <1>4 DEF Start, Goes, At, Building, Proc
  <2> QED
    BY <1>2, <2>1, DMoves
<1>5. CASE QueueFollowUp(p)
  <2> DEFINE x == [proc[p] EXCEPT !.pc = "build", !.then = "accept"]
  <2>1. Set(p, x) /\ x.pc # "execute" /\ x.task = proc[p].task /\ Building(proc[p])
    BY <1>1, <1>5 DEF QueueFollowUp, At, Building, Proc
  <2> QED
    BY <1>2, <2>1, DMoves
<1>6. CASE Accept(p)
  <2>1. Set(p, NextTurn(proc[p])) /\ NextTurn(proc[p]).pc \in {"look", "idle"}
    BY <1>6 DEF Accept, NextTurn, Idle
  <2> QED
    BY <1>2, <2>1, DMoves DEF Building
<1>7. ASSUME NEW t \in Tasks, Enqueue(p, t) PROVE DInv'
  <2> DEFINE x == [Idle EXCEPT !.pc = "build", !.task = t]
  <2>1. Set(p, x) /\ x.pc # "execute" /\ x.task = t
    BY <1>7 DEF Enqueue, Idle
  <2>2. proc'[p].task = t /\ t \in forced'
    BY <1>7, <2>1 DEF Set, TInv, TypeOK, Enqueue
  <2>3. InOrder(proc[p].task)'
    BY <2>2 DEF InOrder
  <2> QED
    BY <1>2, <2>1, <2>3, DMoves
<1>8. CASE WriteTask(p) /\ proc[p].then # "idle"
  <2> DEFINE x == [proc[p] EXCEPT !.pc = "queue", !.then = "idle", !.task = proc[p].seq, !.seq = 0]
  <2>0. PICK n \in Tasks : n = proc[p].seq
    BY <1>1, <1>8 DEF WriteTask, At, Shape
  <2>1. /\ n \in TaskIds' /\ Judging(proc[p], RunIds) /\ task'[n].source = proc[p].run
        /\ n \in TaskIds => n \in forced'
    BY <1>8, <2>0, Written, Zenon
  <2>2. Set(p, x) /\ x.pc # "execute" /\ x.task = n
    BY <1>1, <1>8, <2>0 DEF WriteTask, Proc
  <2> HIDE DEF x
  <2>3. proc'[p].task = n
    BY <2>2 DEF Set, TInv, TypeOK
  <2>4. proc[p].run # 0
    BY <2>1 DEF Judging, RunIds, Runs
  <2>5. InOrder(n)'
    BY <2>1, <2>4 DEF FollowsKept, InOrder
  <2>6. InOrder(proc[p].task)'
    BY <2>3, <2>5 DEF InOrder, Satisfied
  <2> QED
    BY <1>2, <2>2, <2>6, DMoves
<1>9. CASE Requeues(p)
  <2>1. PICK t \in FollowUps(proc[p].run) :
          Set(p, [proc[p] EXCEPT !.pc = "queue", !.task = t, !.how = "needs_follow_up"])
    BY <1>9 DEF Requeues
  <2> DEFINE x == [proc[p] EXCEPT !.pc = "queue", !.task = t, !.how = "needs_follow_up"]
  <2>2. Set(p, x) /\ x.pc # "execute" /\ x.task = t
    BY <1>1, <2>1 DEF Proc
  <2> HIDE DEF x
  <2>3. proc'[p].task = t
    BY <2>2 DEF Set, TInv, TypeOK
  <2>4. t \in TaskIds /\ task[t].source # 0
    <3>1. At(p, "evaluate")
      BY <1>9 DEF Requeues, EvaluateReviewed
    <3>2. proc[p].run \in RunIds
      BY <1>1, <3>1 DEF At, Shape
    <3>3. proc[p].run # 0
      BY <3>2 DEF RunIds, Runs
    <3> QED
      BY <2>1, <3>3 DEF FollowUps
  <2>5. InOrder(t)'
    BY <2>4, OrderKept DEF DInv
  <2>6. InOrder(proc[p].task)'
    BY <2>3, <2>5 DEF InOrder, Satisfied
  <2> QED
    BY <1>2, <2>2, <2>6, DMoves
<1> QED
  BY <1>3, <1>4, <1>5, <1>6, <1>7, <1>8, <1>9 DEF BuildFails, WriteTask, Ends

\* What a follow-up waits for is the task of a run that has succeeded, or is forced.
LEMMA DFollows == ASSUME TInv, RInv, GInv, TasksKept, [Next]_vars PROVE FollowsKept
<1>1. CASE \A p \in Procs : ~WriteTask(p)
  BY <1>1, SourcesStep DEF SameSources, FollowsKept
<1>2. ASSUME NEW p \in Procs, WriteTask(p) PROVE FollowsKept
  <2>0. PICK n, r : n = proc[p].seq /\ r = proc[p].run
    OBVIOUS
  <2>1. /\ n \in Tasks /\ TaskIds' = TaskIds \cup {n} /\ \A u \in Tasks \ {n} : task'[u] = task[u]
        /\ \/ Judging(proc[p], RunIds) /\ task'[n].source = r /\ task'[n].deps = {run[r].task}
           \/ task'[n].source = 0
    BY <1>2, <2>0, Written, Zenon
  <2>2. ASSUME task'[n].source # 0 PROVE InOrder(n)'
    <3>1. Judging(proc[p], RunIds) /\ task'[n].source = r /\ task'[n].deps = {run[r].task}
      BY <2>1, <2>2
    <3>2. UNCHANGED run /\ r \in RunIds /\ r \in RunIds' /\ run'[r].task = run[r].task
      BY <1>2, <2>0, <3>1 DEF WriteTask, Judging, RunIds
    <3>3. Holding(proc[p], RunIds)
      BY <1>2, <3>1 DEF WriteTask, At, Holding, Judging
    <3>4. run[r].task \in forced' \/ run'[r].result = "success"
      BY <2>0, <3>2, <3>3 DEF RInv, GInv, TasksKept
    <3> QED
      BY <3>1, <3>2, <3>4 DEF InOrder, Satisfied
  <2>3. \A t \in TaskIds : t # n => t \in Tasks \ {n}
    BY DEF TaskIds
  <2> QED
    BY <2>1, <2>2, <2>3 DEF FollowsKept
<1> QED
  BY <1>1, <1>2

LEMMA OrderedStep == ASSUME TInv, RInv, GInv, DInv, [Next]_vars PROVE DInv'
<1>1. TasksKept /\ RunsKept /\ FollowsKept
  BY TasksKeptStep, RunsKeptStep, DFollows
<1>2. ASSUME NEW p \in Procs, Step(p) \/ Command(p) \/ Crash(p) \/ Orphan(p) PROVE DInv'
  <2>1. CASE QuietAction(p)
    BY <1>1, <2>1, QuietSteps, DQuiet
  <2> QED
    BY <1>1, <1>2, <2>1, DLook, DBuild, DWorker, DWrites DEF Step, Command, QuietAction
<1>3. CASE People
  BY <1>1, <1>3, DPeople
<1>4. CASE UNCHANGED vars
  <2>1. Quiet
    BY <1>4 DEF vars, board, ghosts, doubts, Quiet, At
  <2> QED
    BY <1>1, <2>1, DQuiet
<1> QED
  BY <1>2, <1>3, <1>4 DEF Next

LEMMA OrderedInit == Init => DInv
<1> SUFFICES ASSUME Init PROVE DInv
  OBVIOUS
<1>1. PICK x \in Projects : task = x.board
  BY DEF Init, BoardInit
<1>2. \A t \in TaskIds : task[t].source = 0
  BY <1>1, ProjectAssumption DEF TaskIds
<1> QED
  BY <1>2 DEF Init, BoardInit, DInv, RunIds, Building, Idle

\* The dependencies of a task are satisfied from the moment it is chosen until its run
\* has ended, whoever holds it meanwhile (select_ready_tasks, enqueue_task_path,
\* retries of the queue).
THEOREM Ordered == Spec => []DInv
<1> QED
  BY Typed, ExecutedOnce, ForcedAgain, OrderedInit, OrderedStep, PTL DEF Spec

\* No agent is at work on a task whose dependencies are not done, unless a person or
\* a second loop has interfered; whatever fails, is killed or is retried
\* (collect_task_records, select_ready_tasks, materialize_follow_up_tasks).
THEOREM DependenciesComeFirst == Spec => []DependenciesFirst
<1>1. TInv /\ DInv => DependenciesFirst
  <2> SUFFICES ASSUME TInv, DInv, NEW p \in Procs, At(p, "execute") PROVE InOrder(run[proc[p].run].task)
    BY DEF DependenciesFirst, InOrder
  <2>1. proc[p].run \in RunIds
    BY TypingFacts DEF At, Shape
  <2> QED
    BY <2>1 DEF DInv
<1> QED
  BY <1>1, Typed, Ordered, PTL

------------------------------------------------------------------------------
(* One task at a time. *)

\* A run that is on the queue was so before, or its task is forced.
LiveKept ==
  \A r \in RunIds' : run'[r].at \in Live =>
    r \in RunIds /\ (run[r].at \in Live \/ run[r].task \in forced')

\* Who is about to build a run was about to build it before.
BuildsKept ==
  \A q \in Procs : Building(proc[q])' =>
    /\ Building(proc[q]) /\ proc'[q].task = proc[q].task
    /\ Starting(q)' <=> Starting(q)

LEMMA ClearKept ==
  ASSUME TInv, TasksKept, RunsKept, NEW r \in RunIds,
         run'[r].at \in Live => run[r].at \in Live \/ run[r].task \in forced', Clear(r)'
  PROVE  Clear(r)
<1>1. run[r].task \in TaskIds /\ run'[r].task = run[r].task
  BY TypingFacts DEF RunsKept
<1>2. run[r].task \notin forced' /\ task'[run[r].task].source = 0 /\ run'[r].at \in Live
  BY <1>1 DEF Clear, LiveRuns
<1> QED
  BY <1>1, <1>2 DEF Clear, LiveRuns, TasksKept

LEMMA OKept == ASSUME TInv, OInv, TasksKept, RunsKept, LiveKept, BuildsKept PROVE OInv'
<1>1. \A r \in RunIds' : Clear(r)' => r \in RunIds /\ Clear(r)
  <2> SUFFICES ASSUME NEW r \in RunIds', Clear(r)' PROVE r \in RunIds /\ Clear(r)
    OBVIOUS
  <2>1. r \in RunIds /\ (run[r].at \in Live \/ run[r].task \in forced')
    BY DEF Clear, LiveRuns, LiveKept
  <2> QED
    BY <2>1, ClearKept
<1>2. \A p \in Procs : Building(proc[p]) => proc[p].task \in TaskIds
  BY TypingFacts DEF Building, Shape
<1>3. \A t \in TaskIds : t \in forced \/ task[t].source # 0 => t \in forced' \/ task'[t].source # 0
  BY DEF TasksKept
<1>4. \A r, s \in RunIds' : Clear(r)' /\ Clear(s)' => r = s
  BY <1>1 DEF OInv
<1>5. \A p \in Procs : Starting(p)' => Building(proc[p])'
  BY DEF Starting, Building
<1>6. ASSUME NEW p \in Procs, Starting(p)', proc'[p].task \notin forced', NEW r \in RunIds' PROVE ~Clear(r)'
  <2>1. Starting(p) /\ proc[p].task \notin forced
    BY <1>5, <1>6 DEF BuildsKept, TasksKept
  <2> QED
    BY <1>1, <2>1 DEF OInv
<1>7. ASSUME NEW p \in Procs, NEW q \in Procs, Starting(p)', Starting(q)', p # q PROVE proc'[p].task \in forced'
  BY <1>5, <1>7 DEF BuildsKept, TasksKept, OInv
<1>8. ASSUME NEW p \in Procs, At(p, "build")', ~Starting(p)'
      PROVE  proc'[p].task \in forced' \/ task'[proc'[p].task].source # 0
  <2>1. Building(proc[p]) /\ proc'[p].task = proc[p].task /\ ~Starting(p)
    BY <1>8 DEF BuildsKept, At, Building
  <2>2. At(p, "build") \/ At(p, "queue")
    BY <2>1, TypingFacts DEF Building, Starting, At, Shape
  <2> QED
    BY <1>2, <1>3, <2>1, <2>2 DEF OInv
<1>9. ASSUME NEW p \in Procs, At(p, "queue")'
      PROVE  proc'[p].task \in forced' \/ task'[proc'[p].task].source # 0
  <2>1. Building(proc[p]) /\ proc'[p].task = proc[p].task /\ ~Starting(p)
    BY <1>9 DEF BuildsKept, At, Building, Starting
  <2>2. At(p, "build") \/ At(p, "queue")
    BY <2>1, TypingFacts DEF Building, Starting, At, Shape
  <2> QED
    BY <1>2, <1>3, <2>1, <2>2 DEF OInv
<1> QED
  BY <1>4, <1>6, <1>7, <1>8, <1>9 DEF OInv

LEMMA OQuiet == ASSUME TInv, OInv, TasksKept, RunsKept, Quiet PROVE OInv'
<1>1. LiveKept
  BY DEF Quiet, LiveKept, RunIds
<1>2. BuildsKept
  BY DEF Quiet, BuildsKept, Building, Starting
<1> QED
  BY <1>1, <1>2, OKept

LEMMA OLook == ASSUME TInv, OInv, TasksKept, RunsKept, NEW p \in Procs, Look(p) PROVE OInv'
<1>1. UNCHANGED <<run, task>> /\ proc[p] \in Proc
  BY TypingFacts DEF Look, board
<1>2. LiveKept
  BY <1>1 DEF LiveKept, RunIds
<1>3. ASSUME NEW x, Set(p, x), x.pc \in {"idle", "claim"} PROVE OInv'
  <2>1. proc'[p] = x /\ \A q \in Procs \ {p} : proc'[q] = proc[q]
    BY <1>3 DEF Set, TInv, TypeOK
  <2>2. BuildsKept
    BY <1>3, <2>1 DEF BuildsKept, Building, Starting
  <2> QED
    BY <1>2, <2>2, OKept
<1>4. CASE Set(p, Idle)
  BY <1>3, <1>4 DEF Idle
<1>5. CASE Goes(p, "claim")
  <2>1. [proc[p] EXCEPT !.pc = "claim"].pc = "claim"
    BY <1>1 DEF Proc
  <2> QED
    BY <1>3, <1>5, <2>1 DEF Goes
<1>6. CASE ~Set(p, Idle) /\ ~Goes(p, "claim")
  <2>1. InState("awaiting_approval") = {} /\ InState("pending") \cup InState("running") \cup InState("stub") = {}
    BY <1>6 DEF Look, Ends
  <2>2. \A r \in RunIds : ~Clear(r) /\ ~Clear(r)'
    <3>1. \A r \in RunIds : run[r].at \notin Live /\ run'[r].at \notin Live
      BY <1>1, <2>1 DEF InState, Live
    <3> QED
      BY <3>1 DEF Clear, LiveRuns
  <2>3. PICK t : /\ Set(p, [proc[p] EXCEPT !.pc = "start", !.then = "claim", !.task = t])
                 /\ forced' = forced \cup
                      (IF \E q \in Procs : Starting(q) THEN {t} \cup {proc[q].task : q \in {q \in Procs : Starting(q)}} ELSE {})
    BY <1>6 DEF Look, Ends
  <2> DEFINE x == [proc[p] EXCEPT !.pc = "start", !.then = "claim", !.task = t]
  <2>4. x.pc = "start" /\ x.task = t
    BY <1>1 DEF Proc
  <2>5. proc'[p] = x /\ \A q \in Procs \ {p} : proc'[q] = proc[q]
    BY <2>3 DEF Set, TInv, TypeOK
  <2> HIDE DEF x
  <2>6. RunIds' = RunIds
    BY <1>1 DEF RunIds
  <2>7. \A q \in Procs \ {p} : /\ Starting(q)' <=> Starting(q)
                               /\ Starting(q)' => proc'[p].task \in forced' /\ proc'[q].task \in forced'
    BY <2>3, <2>4, <2>5 DEF Starting
  <2>8. \A q, s \in Procs : Starting(q)' /\ Starting(s)' /\ q # s => proc'[q].task \in forced'
    BY <2>7
  <2>9. \A q \in Procs : At(q, "build")' \/ At(q, "queue")' => q # p
    BY <2>4, <2>5 DEF At
  <2>10. \A q \in Procs : proc'[q].task \in forced => proc'[q].task \in forced'
    BY DEF TasksKept
  <2>11. \A q \in Procs : At(q, "build")' /\ ~Starting(q)' => proc'[q].task \in forced' \/ task'[proc'[q].task].source # 0
    BY <1>1, <2>5, <2>7, <2>9, <2>10 DEF OInv, At
  <2>12. \A q \in Procs : At(q, "queue")' => proc'[q].task \in forced' \/ task'[proc'[q].task].source # 0
    BY <1>1, <2>5, <2>9, <2>10 DEF OInv, At
  <2> QED
    BY <2>2, <2>6, <2>8, <2>11, <2>12 DEF OInv
<1> QED
  BY <1>4, <1>5, <1>6

LEMMA OBuild == ASSUME TInv, OInv, TasksKept, RunsKept, NEW p \in Procs, Build(p) PROVE OInv'
<1>1. PICK r \in Runs \ RunIds :
           /\ run'[r] = NewRun(proc[p].task)
           /\ RunIds' = RunIds \cup {r} /\ \A q \in RunIds : run'[q] = run[q]
  BY Built
<1>2. proc[p] \in Proc /\ Shape(proc[p], RunIds, TaskIds) /\ At(p, "build") /\ UNCHANGED <<task, forced>>
  BY TypingFacts DEF Build, ghosts, doubts
<1>3. PICK x : Set(p, x) /\ x.pc \notin {"execute", "start", "build", "queue"}
  <2>1. CASE proc[p].then = "idle"
    BY <2>1 DEF Build, Ends, Idle
  <2>2. CASE proc[p].then # "idle"
    <3> DEFINE x == [proc[p] EXCEPT !.pc = proc[p].then, !.then = "idle", !.task = 0]
    <3>1. Set(p, x) /\ x.pc \notin {"execute", "start", "build", "queue"}
      BY <1>2, <2>2 DEF Build, Proc, Shape, At
    <3> QED
      BY <3>1
  <2> QED
    BY <2>1, <2>2
<1>4. proc'[p] = x /\ \A q \in Procs \ {p} : proc'[q] = proc[q]
  BY <1>3 DEF Set, TInv, TypeOK
<1>5. \A s \in RunIds : Clear(s)' => Clear(s)
  BY <1>1, ClearKept
<1>6. Clear(r)' => Starting(p) /\ proc[p].task \notin forced
  <2>1. run'[r].task = proc[p].task
    BY <1>1 DEF NewRun
  <2> QED
    BY <1>2, <2>1 DEF Clear, OInv
<1>7. \A q \in Procs : Building(proc[q])' => q # p /\ proc'[q] = proc[q]
  BY <1>3, <1>4 DEF Building
<1>8. \A s, u \in RunIds' : Clear(s)' /\ Clear(u)' => s = u
  BY <1>1, <1>5, <1>6 DEF OInv
<1>9. ASSUME NEW q \in Procs, Starting(q)', proc'[q].task \notin forced', NEW s \in RunIds' PROVE ~Clear(s)'
  <2>1. q # p /\ proc'[q] = proc[q] /\ Starting(q)
    BY <1>7, <1>9 DEF Building, Starting
  <2>2. proc[q].task \notin forced
    BY <1>2, <1>9, <2>1
  <2>3. ~Starting(p) \/ proc[p].task \in forced
    BY <2>1, <2>2 DEF OInv
  <2> QED
    BY <1>1, <1>5, <1>6, <2>1, <2>2, <2>3 DEF OInv
<1>10. \A q, s \in Procs : Starting(q)' /\ Starting(s)' /\ q # s => proc'[q].task \in forced'
  BY <1>2, <1>7 DEF Building, Starting, OInv
<1>11. \A q \in Procs : At(q, "build")' /\ ~Starting(q)' => proc'[q].task \in forced' \/ task'[proc'[q].task].source # 0
  BY <1>2, <1>7 DEF Building, Starting, At, OInv
<1>12. \A q \in Procs : At(q, "queue")' => proc'[q].task \in forced' \/ task'[proc'[q].task].source # 0
  BY <1>2, <1>7 DEF Building, At, OInv
<1> QED
  BY <1>8, <1>9, <1>10, <1>11, <1>12 DEF OInv

LEMMA OJob ==
  ASSUME TInv, OInv, TasksKept, RunsKept, NEW r \in RunIds, NEW y \in Run, run' = [run EXCEPT ![r] = y],
         y.task = run[r].task,
         y.at \in Live => run[r].at \in Live \/ run[r].task \in forced',
         \A q \in Procs : proc'[q] = proc[q] \/ ~Building(proc'[q])
  PROVE  OInv'
<1>1. RunIds' = RunIds /\ run'[r] = y /\ \A q \in Runs \ {r} : run'[q] = run[q]
  BY Rerun
<1>2. LiveKept
  BY <1>1 DEF LiveKept, RunIds
<1>3. BuildsKept
  BY DEF BuildsKept, Building, Starting
<1> QED
  BY <1>2, <1>3, OKept

LEMMA OJobAt ==
  ASSUME TInv, OInv, TasksKept, RunsKept, NEW r \in RunIds, NEW a, JobAt(r, a), a \in Live => run[r].at \in Live,
         \A q \in Procs : proc'[q] = proc[q] \/ ~Building(proc'[q])
  PROVE  OInv'
<1>1. PICK y \in Run : run' = [run EXCEPT ![r] = y] /\ y.task = run[r].task /\ y.at = a
  BY DEF JobAt
<1> QED
  BY <1>1, OJob

LEMMA OWorker ==
  ASSUME TInv, OInv, TasksKept, RunsKept, NEW p \in Procs,
         Execute(p) \/ Pause(p) \/ Guarded(p) \/ \E r \in Runs : Claim(p, r)
  PROVE  OInv'
<1>1. proc[p] \in Proc /\ Shape(proc[p], RunIds, TaskIds)
  BY TypingFacts
<1>2. CASE Execute(p)
  <2>1. PICK outcome \in {"success", "failed"}, x \in Proc, y \in Run :
           LET r == proc[p].run IN
           /\ r \in RunIds /\ run' = [run EXCEPT ![r] = y] /\ y.task = run[r].task
           /\ Set(p, x) /\ x.pc = "trigger" /\ y.at = AfterRun(r, outcome)
    BY <1>2, Executed
  <2>2. y.at \in Live => run[proc[p].run].at \in Live
    BY <2>1 DEF AfterRun, Live
  <2>3. \A q \in Procs : proc'[q] = proc[q] \/ ~Building(proc'[q])
    BY <2>1 DEF Set, TInv, TypeOK, Building
  <2> QED
    BY <2>1, <2>2, <2>3, OJob
<1>3. CASE Pause(p) \/ Guarded(p)
  <2> DEFINE r == proc[p].run
             a == AfterRun(r, "paused")
  <2>1. r \in RunIds /\ a \in QueueStates /\ run' = [run EXCEPT ![r].at = a]
    BY <1>1, <1>3, AfterRunTyped DEF Pause, Guarded, At, Shape
  <2>2. a \in Live => run[r].at \in Live
    BY DEF AfterRun, Live
  <2> HIDE DEF a
  <2>3. JobAt(r, a)
    BY <2>1, Rejob
  <2>4. \A q \in Procs : proc'[q] = proc[q] \/ ~Building(proc'[q])
    BY <1>3 DEF Pause, Guarded, Ends, Idle, Set, TInv, TypeOK, Building
  <2> QED
    BY <2>1, <2>2, <2>3, <2>4, OJobAt
<1>4. ASSUME NEW r \in Runs, Claim(p, r) PROVE OInv'
  <2> DEFINE y == ClaimedRun(r)
             x == [proc[p] EXCEPT !.pc = "execute", !.run = r]
  <2>1. r \in RunIds /\ run[r].at = "pending" /\ y \in Run /\ run' = [run EXCEPT ![r] = y] /\ y.task = run[r].task
    BY <1>4, Claimed
  <2> HIDE DEF y
  <2>2. run[r].at \in Live
    BY <2>1 DEF Live
  <2>3. x.pc = "execute" /\ Set(p, x)
    BY <1>1, <1>4 DEF Claim, Proc
  <2> HIDE DEF x
  <2>4. \A q \in Procs : proc'[q] = proc[q] \/ ~Building(proc'[q])
    BY <2>3 DEF Set, TInv, TypeOK, Building
  <2> QED
    BY <2>1, <2>2, <2>4, OJob
<1> QED
  BY <1>2, <1>3, <1>4

LEMMA OPeople ==
  ASSUME TInv, OInv, TasksKept, RunsKept, People
  PROVE  OInv'
<1>1. UNCHANGED proc
  BY DEF People, Decide, MarkDone, AskHuman, Retry, AcceptAsked, Admit, Block, Dismiss, Release, Reject, Reclaim
<1>2. CASE UNCHANGED run
  <2>1. LiveKept /\ BuildsKept
    BY <1>1, <1>2 DEF LiveKept, BuildsKept, RunIds, Building, Starting
  <2> QED
    BY <2>1, OKept
<1>3. ASSUME NEW a \in approvals, Retry(a) PROVE OInv'
  <2>1. a.run \in RunIds /\ "none" \in QueueStates /\ run' = [run EXCEPT ![a.run].at = "none"]
    BY <1>3, TypingFacts DEF Retry, QueueStates, BoardTyped, Referring
  <2>2. JobAt(a.run, "none")
    BY <2>1, Rejob
  <2> QED
    BY <1>1, <2>1, <2>2, OJobAt DEF Live
<1>4. ASSUME NEW r \in Runs, Release(r) PROVE OInv'
  <2>1. r \in RunIds /\ "pending" \in QueueStates /\ run' = [run EXCEPT ![r].at = "pending"]
    BY <1>4 DEF Release, InState, QueueStates
  <2>2. JobAt(r, "pending")
    BY <2>1, Rejob
  <2>3. run[r].at \in Live
    BY <1>4 DEF Release, InState, Live
  <2> QED
    BY <1>1, <2>1, <2>2, <2>3, OJobAt
<1>5. ASSUME NEW r \in Runs, Reclaim(r) PROVE OInv'
  <2> DEFINE q == Reclaimed(r)
  <2>1. r \in RunIds /\ q \in QueueStates /\ run' = [run EXCEPT ![r].at = q]
    BY <1>5, ReclaimMoves
  <2>2. q \in Live => run[r].at \in Live
    BY <1>5, ReclaimMoves DEF Reclaimed, Live
  <2> HIDE DEF q
  <2>3. JobAt(r, q)
    BY <2>1, Rejob
  <2> QED
    BY <1>1, <2>1, <2>2, <2>3, OJobAt
<1>6. ASSUME NEW r \in Runs, Reject(r) PROVE OInv'
  <2> DEFINE q == Rejected(r)
  <2>1. r \in RunIds /\ q \in QueueStates /\ run' = [run EXCEPT ![r].at = q] /\ q \notin Live
    BY <1>6, RejectMoves DEF Rejected, Live
  <2> HIDE DEF q
  <2>2. JobAt(r, q)
    BY <2>1, Rejob
  <2> QED
    BY <1>1, <2>1, <2>2, OJobAt
<1>7. ASSUME NEW a \in approvals, Admit(a) PROVE OInv'
  <2> DEFINE r == a.run
             y == AdmittedRun(r)
  <2>1. /\ r \in RunIds /\ y \in Run /\ run' = [run EXCEPT ![r] = y] /\ y.task = run[r].task
        /\ y.at = Admitted(r) /\ run[r].at \in {"awaiting_approval", "none", "stub"}
    BY <1>7, AdmitMoves
  <2> HIDE DEF y
  <2>2. run[r].at = "none" => run[r].task \in forced'
    BY <1>7 DEF Admit
  <2>3. y.at \in Live => run[r].at \in Live \/ run[r].task \in forced'
    BY <2>1, <2>2 DEF Admitted, Live
  <2> QED
    BY <1>1, <2>1, <2>3, OJob
<1> QED
  BY <1>2, <1>3, <1>4, <1>5, <1>6, <1>7 DEF People, Decide, MarkDone, AskHuman, AcceptAsked, Block, Dismiss, ghosts,
     board

LEMMA OWrites ==
  ASSUME TInv, OInv, TasksKept, RunsKept, NEW p \in Procs,
         \/ Start(p) \/ BuildFails(p) \/ Accept(p) \/ WriteTask(p) \/ QueueFollowUp(p) \/ Requeues(p)
         \/ \E t \in Tasks : Enqueue(p, t)
  PROVE  OInv'
<1>1. proc[p] \in Proc /\ Shape(proc[p], RunIds, TaskIds)
  BY TypingFacts
<1>2. UNCHANGED run
  BY DEF Start, BuildFails, Accept, WriteTask, QueueFollowUp, Requeues, EvaluateReviewed, Enqueue, board
<1>3. LiveKept
  BY <1>2 DEF LiveKept, RunIds
<1>4. ASSUME NEW x, Set(p, x),
             Building(x) => /\ Building(proc[p]) /\ x.task = proc[p].task
                            /\ x.kind = "loop" /\ x.pc \in {"start", "build"} /\ x.run = 0 <=> Starting(p)
      PROVE  OInv'
  <2>1. proc'[p] = x /\ \A q \in Procs \ {p} : proc'[q] = proc[q]
    BY <1>4 DEF Set, TInv, TypeOK
  <2>2. BuildsKept
    BY <1>4, <2>1 DEF BuildsKept, Building, Starting
  <2> QED
    BY <1>3, <2>2, OKept
<1>5. CASE Set(p, Idle)
  BY <1>4, <1>5 DEF Building, Idle
<1>6. CASE Start(p)
  <2> DEFINE x == [proc[p] EXCEPT !.pc = "build"]
  <2>1. /\ Set(p, x) /\ x.task = proc[p].task /\ Building(proc[p])
        /\ x.kind = "loop" /\ x.pc \in {"start", "build"} /\ x.run = 0 /\ Starting(p)
    BY <1>1, <1>6 DEF Start, Goes, At, Building, Proc, Starting, Shape
  <2> QED
    BY <1>4, <2>1
<1>7. CASE QueueFollowUp(p)
  <2> DEFINE x == [proc[p] EXCEPT !.pc = "build", !.then = "accept"]
  <2>1. /\ Set(p, x) /\ x.task = proc[p].task /\ Building(proc[p]) /\ x.run = proc[p].run
        /\ proc[p].run \in RunIds /\ ~Starting(p)
    BY <1>1, <1>7 DEF QueueFollowUp, At, Building, Proc, Starting, Shape, Judging
  <2>2. x.run # 0
    BY <2>1 DEF RunIds, Runs
  <2> QED
    BY <1>4, <2>1, <2>2
<1>8. CASE Accept(p)
  <2>1. Set(p, NextTurn(proc[p])) /\ ~Building(NextTurn(proc[p]))
    BY <1>8 DEF Accept, NextTurn, Idle, Building
  <2> QED
    BY <1>4, <2>1
<1>9. ASSUME NEW x, Set(p, x), x.pc \in {"build", "queue"}, ~(x.kind = "loop" /\ x.run = 0),
             proc'[p].task \in forced' \/ task'[proc'[p].task].source # 0
      PROVE  OInv'
  <2>1. proc'[p] = x /\ \A q \in Procs \ {p} : proc'[q] = proc[q]
    BY <1>9 DEF Set, TInv, TypeOK
  <2>2. RunIds' = RunIds
    BY <1>2 DEF RunIds
  <2>3. \A r \in RunIds : Clear(r)' => Clear(r)
    BY <1>2, ClearKept
  <2>4. \A q \in Procs : Starting(q)' => q # p /\ proc'[q] = proc[q] /\ Starting(q)
    BY <1>9, <2>1 DEF Starting
  <2>5. \A q \in Procs : Building(proc[q]) => proc[q].task \in TaskIds
    BY TypingFacts DEF Building, Shape
  <2>6. \A t \in TaskIds : t \in forced \/ task[t].source # 0 => t \in forced' \/ task'[t].source # 0
    BY DEF TasksKept
  <2>7. ASSUME NEW q \in Procs, q # p, (At(q, "build")' /\ ~Starting(q)') \/ At(q, "queue")'
        PROVE  proc'[q].task \in forced' \/ task'[proc'[q].task].source # 0
    <3>1. proc'[q] = proc[q] /\ ((At(q, "build") /\ ~Starting(q)) \/ At(q, "queue"))
      BY <2>1, <2>7 DEF At, Starting
    <3> QED
      BY <2>5, <2>6, <3>1 DEF OInv, At, Building
  <2>8. \A r, s \in RunIds : Clear(r)' /\ Clear(s)' => r = s
    BY <2>3 DEF OInv
  <2>9. \A q \in Procs : Starting(q)' /\ proc'[q].task \notin forced' => \A r \in RunIds : ~Clear(r)'
    BY <2>3, <2>4 DEF OInv, TasksKept
  <2>10. \A q, s \in Procs : Starting(q)' /\ Starting(s)' /\ q # s => proc'[q].task \in forced'
    BY <2>4 DEF OInv, TasksKept
  <2> QED
    BY <1>9, <2>2, <2>7, <2>8, <2>9, <2>10 DEF OInv
<1>10. ASSUME NEW t \in Tasks, Enqueue(p, t) PROVE OInv'
  <2> DEFINE x == [Idle EXCEPT !.pc = "build", !.task = t]
  <2>1. Set(p, x) /\ x.pc = "build" /\ x.kind = "command" /\ x.task = t
    BY <1>10 DEF Enqueue, Idle
  <2>2. proc'[p].task \in forced'
    BY <1>10, <2>1 DEF Set, TInv, TypeOK, Enqueue
  <2> QED
    BY <1>9, <2>1, <2>2
<1>11. CASE WriteTask(p) /\ proc[p].then # "idle"
  <2> DEFINE x == [proc[p] EXCEPT !.pc = "queue", !.then = "idle", !.task = proc[p].seq, !.seq = 0]
  <2>1. Judging(proc[p], RunIds) /\ task'[proc[p].seq].source = proc[p].run
    BY <1>11, Written, Zenon
  <2>2. Set(p, x) /\ x.pc = "queue" /\ x.task = proc[p].seq /\ x.run = proc[p].run
    BY <1>1, <1>11 DEF WriteTask, Proc
  <2> HIDE DEF x
  <2>3. proc'[p].task = proc[p].seq
    BY <2>2 DEF Set, TInv, TypeOK
  <2>4. proc[p].run # 0
    BY <2>1 DEF Judging, RunIds, Runs
  <2> QED
    BY <1>9, <2>1, <2>2, <2>3, <2>4
<1>12. CASE Requeues(p)
  <2>0. PICK r : r = proc[p].run
    OBVIOUS
  <2>1. PICK t \in FollowUps(r) : Set(p, [proc[p] EXCEPT !.pc = "queue", !.task = t, !.how = "needs_follow_up"])
    BY <1>12, <2>0 DEF Requeues
  <2> DEFINE x == [proc[p] EXCEPT !.pc = "queue", !.task = t, !.how = "needs_follow_up"]
  <2>2. Set(p, x) /\ x.pc = "queue" /\ x.task = t /\ x.run = r
    BY <1>1, <2>0, <2>1 DEF Proc
  <2> HIDE DEF x
  <2>3. r # 0 /\ UNCHANGED task
    <3>1. At(p, "evaluate") /\ UNCHANGED task
      BY <1>12 DEF Requeues, EvaluateReviewed, board
    <3>2. r \in RunIds
      BY <1>1, <2>0, <3>1 DEF At, Shape
    <3> QED
      BY <3>1, <3>2 DEF RunIds, Runs
  <2>4. proc'[p].task = t
    BY <2>2 DEF Set, TInv, TypeOK
  <2>5. task'[t].source # 0
    BY <2>1, <2>3 DEF FollowUps
  <2> QED
    BY <1>9, <2>2, <2>3, <2>4, <2>5
<1> QED
  BY <1>5, <1>6, <1>7, <1>8, <1>10, <1>11, <1>12 DEF BuildFails, WriteTask, Ends

LEMMA SingleStep == ASSUME TInv, RInv, OInv, [Next]_vars PROVE OInv'
<1>1. TasksKept /\ RunsKept
  BY TasksKeptStep, RunsKeptStep
<1>2. ASSUME NEW p \in Procs, Step(p) \/ Command(p) \/ Crash(p) \/ Orphan(p) PROVE OInv'
  <2>1. CASE QuietAction(p)
    BY <1>1, <2>1, QuietSteps, OQuiet
  <2> QED
    BY <1>1, <1>2, <2>1, OLook, OBuild, OWorker, OWrites DEF Step, Command, QuietAction
<1>3. CASE People
  BY <1>1, <1>3, OPeople
<1>4. CASE UNCHANGED vars
  <2>1. Quiet
    BY <1>4 DEF vars, board, ghosts, doubts, Quiet, At
  <2> QED
    BY <1>1, <2>1, OQuiet
<1> QED
  BY <1>2, <1>3, <1>4 DEF Next

LEMMA SingleInit == Init => OInv
BY DEF Init, BoardInit, OInv, RunIds, Starting, At, Idle

\* Of two runs on the queue one is that of a follow-up or has been forced there, by
\* a person or by two loops that selected at the same moment, for any number of
\* loops, workers and kills (cmd_orchestrate, select_ready_tasks).
THEOREM Single == Spec => []OneTaskAtATime
<1>1. Spec => []OInv
  BY Typed, ExecutedOnce, SingleInit, SingleStep, PTL DEF Spec
<1>2. TInv /\ OInv => OneTaskAtATime
  <2> SUFFICES ASSUME TInv, OInv, NEW r \in LiveRuns, NEW s \in LiveRuns, r # s
               PROVE  {run[r].task, run[s].task} \cap forced # {} \/ \E q \in {r, s} : task[run[q].task].source # 0
    BY DEF OneTaskAtATime
  <2>1. r \in RunIds /\ s \in RunIds /\ ~(Clear(r) /\ Clear(s))
    BY DEF OInv, LiveRuns
  <2> QED
    BY <2>1 DEF Clear
<1> QED
  BY <1>1, <1>2, Typed, PTL

------------------------------------------------------------------------------
(* The follow-ups that reviews ask for. *)

LEMMA FollowUpStays ==
  ASSUME TInv, RunsKept, NEW s, HasFollowUp(s), TaskIds \subseteq TaskIds',
         \A t \in TaskIds : task'[t].source = task[t].source
  PROVE  HasFollowUp(s)'
<1> SUFFICES ASSUME s \notin again PROVE HasFollowUp(s)'
  BY DEF RunsKept, HasFollowUp
<1>1. PICK t \in TaskIds, r \in RunIds : task[t].source = s /\ run[r].task = t
  BY DEF HasFollowUp, FollowUps, RunsOf
<1>2. t \in TaskIds' /\ task'[t].source = s /\ r \in RunIds' /\ run'[r].task = t
  BY <1>1 DEF RunsKept
<1> QED
  BY <1>2 DEF HasFollowUp, FollowUps, RunsOf

LEMMA UKept ==
  ASSUME TInv, RInv, UInv, RunsKept, SameSources,
         \A q \in Procs : Holding(proc'[q], RunIds') =>
           \/ /\ Holding(proc[q], RunIds) /\ proc'[q].run = proc[q].run
              /\ Followed(proc[q]) => Followed(proc'[q])
           \/ proc'[q].run \in again'
           \/ proc'[q].run \in RunIds /\ run[proc'[q].run].result # "success",
         \A q \in Procs : Judging(proc'[q], RunIds') /\ proc'[q].pc \in {"queue", "build"} =>
           \/ /\ Judging(proc[q], RunIds) /\ proc[q].pc \in {"queue", "build"}
              /\ proc'[q].task = proc[q].task /\ proc'[q].run = proc[q].run
           \/ proc'[q].task \in TaskIds /\ task[proc'[q].task].source = proc'[q].run,
         \A q \in Procs : At(q, "accept")' /\ proc'[q].how = "needs_follow_up" /\ overwritten' = {} =>
           (At(q, "accept") /\ proc'[q] = proc[q]) \/ HasFollowUp(proc[q].run)',
         \A a \in accepted' : a.how = "needs_follow_up" /\ overwritten' = {} => a \in accepted \/ HasFollowUp(a.run)'
  PROVE  UInv'
<1>1. \A s : HasFollowUp(s) => HasFollowUp(s)'
  BY FollowUpStays DEF SameSources
<1>2. ASSUME NEW t \in TaskIds', task'[t].source # 0, task'[t].source \notin again'
      PROVE  /\ run'[task'[t].source].result = "success"
             /\ \A p \in Procs : Holding(proc'[p], RunIds') /\ proc'[p].run = task'[t].source => Followed(proc'[p])
  <2>1. /\ t \in TaskIds /\ task'[t].source = task[t].source /\ task[t].source # 0
        /\ task[t].source \notin again'
    BY <1>2 DEF SameSources
  <2>2. task[t].source \in RunIds /\ run[task[t].source].result = "success"
    BY <2>1, TypingFacts DEF UInv, BoardTyped, Referring, RunsKept
  <2>3. run'[task[t].source].result = "success"
    BY <2>1, <2>2 DEF RunsKept
  <2>4. ASSUME NEW p \in Procs, Holding(proc'[p], RunIds'), proc'[p].run = task[t].source PROVE Followed(proc'[p])
    <3>1. Holding(proc[p], RunIds) /\ proc[p].run = task[t].source /\ (Followed(proc[p]) => Followed(proc'[p]))
      BY <2>1, <2>2, <2>4
    <3> QED
      BY <2>1, <3>1 DEF UInv, RunsKept
  <2> QED
    BY <2>1, <2>3, <2>4
<1>3. ASSUME NEW p \in Procs, overwritten' = {}, Judging(proc'[p], RunIds'), proc'[p].pc \in {"queue", "build"}
      PROVE  task'[proc'[p].task].source = proc'[p].run
  <2>1. proc'[p].task \in TaskIds /\ task[proc'[p].task].source = proc'[p].run
    <3>1. CASE /\ Judging(proc[p], RunIds) /\ proc[p].pc \in {"queue", "build"}
               /\ proc'[p].task = proc[p].task /\ proc'[p].run = proc[p].run
      <4>1. overwritten = {} /\ proc[p].task \in TaskIds
        BY <1>3, <3>1, TypingFacts DEF Shape, SameSources
      <4> QED
        BY <3>1, <4>1 DEF UInv
    <3> QED
      BY <1>3, <3>1
  <2> QED
    BY <2>1 DEF SameSources
<1>4. ASSUME NEW p \in Procs, overwritten' = {}, At(p, "accept")', proc'[p].how = "needs_follow_up"
      PROVE  HasFollowUp(proc[p].run)'
  <2>1. CASE At(p, "accept") /\ proc'[p] = proc[p]
    <3>1. HasFollowUp(proc[p].run)
      BY <1>4, <2>1 DEF UInv, HasFollowUp, SameSources
    <3>2. PICK s : s = proc[p].run /\ s = proc'[p].run
      BY <2>1
    <3>3. HasFollowUp(s)
      BY <3>1, <3>2
    <3>4. HasFollowUp(s)'
      BY <1>1, <3>3
    <3> QED
      BY <3>2, <3>4 DEF HasFollowUp, FollowUps
  <2> QED
    BY <1>4, <2>1
<1>5. ASSUME NEW a \in accepted', a.how = "needs_follow_up", overwritten' = {} PROVE HasFollowUp(a.run)'
  <2>1. CASE a \in accepted
    <3>1. HasFollowUp(a.run)
      BY <1>5, <2>1 DEF UInv, FollowUpKept, HasFollowUp, SameSources
    <3> QED
      BY <1>1, <3>1
  <2> QED
    BY <1>5, <2>1
<1>6. FollowUpKept'
  BY <1>5 DEF FollowUpKept, HasFollowUp
<1>7. \A p \in Procs : (overwritten = {} /\ At(p, "accept") /\ proc[p].how = "needs_follow_up" =>
         proc[p].run \in again \/ \E t \in FollowUps(proc[p].run) : RunsOf(t) # {})'
  BY <1>4 DEF HasFollowUp
<1> QED
  BY <1>2, <1>3, <1>6, <1>7 DEF UInv
\* One process moves.
LEMMA UMoves ==
  ASSUME TInv, RInv, UInv, RunsKept, SameSources, NEW p \in Procs, NEW x, Set(p, x),
         Holding(x, RunIds') =>
           \/ /\ Holding(proc[p], RunIds) /\ x.run = proc[p].run
              /\ Followed(proc[p]) => Followed(x)
           \/ x.run \in again'
           \/ x.run \in RunIds /\ run[x.run].result # "success",
         Judging(x, RunIds') /\ x.pc \in {"queue", "build"} =>
           \/ /\ Judging(proc[p], RunIds) /\ proc[p].pc \in {"queue", "build"}
              /\ x.task = proc[p].task /\ x.run = proc[p].run
           \/ x.task \in TaskIds /\ task[x.task].source = x.run,
         x.pc = "accept" /\ x.how = "needs_follow_up" /\ overwritten' = {} => HasFollowUp(proc[p].run)',
         \A a \in accepted' : a.how = "needs_follow_up" /\ overwritten' = {} => a \in accepted \/ HasFollowUp(a.run)'
  PROVE  UInv'
<1>1. proc'[p] = x /\ \A q \in Procs \ {p} : proc'[q] = proc[q]
  BY DEF Set, TInv, TypeOK
<1>2. 0 \notin RunIds' /\ \A q \in Procs : proc[q].run \in {0} \cup RunIds
  <2>1. 0 \notin RunIds'
    BY DEF RunIds, Runs
  <2> QED
    BY <2>1, TypingFacts DEF Shape
<1>3. \A q \in Procs \ {p} : /\ Holding(proc[q], RunIds') => Holding(proc[q], RunIds)
                             /\ Judging(proc[q], RunIds') => Judging(proc[q], RunIds)
  BY <1>2 DEF Holding, Judging
<1>4. \A q \in Procs : Holding(proc'[q], RunIds') =>
        \/ /\ Holding(proc[q], RunIds) /\ proc'[q].run = proc[q].run
           /\ Followed(proc[q]) => Followed(proc'[q])
        \/ proc'[q].run \in again'
        \/ proc'[q].run \in RunIds /\ run[proc'[q].run].result # "success"
  BY <1>1, <1>3
<1>5. \A q \in Procs : Judging(proc'[q], RunIds') /\ proc'[q].pc \in {"queue", "build"} =>
        \/ /\ Judging(proc[q], RunIds) /\ proc[q].pc \in {"queue", "build"}
           /\ proc'[q].task = proc[q].task /\ proc'[q].run = proc[q].run
        \/ proc'[q].task \in TaskIds /\ task[proc'[q].task].source = proc'[q].run
  BY <1>1, <1>3
<1>6. \A q \in Procs : At(q, "accept")' /\ proc'[q].how = "needs_follow_up" /\ overwritten' = {} =>
        (At(q, "accept") /\ proc'[q] = proc[q]) \/ HasFollowUp(proc[q].run)'
  BY <1>1 DEF At
<1> QED
  BY <1>4, <1>5, <1>6, UKept

LEMMA UQuiet == ASSUME TInv, RInv, UInv, RunsKept, SameSources, Quiet PROVE UInv'
<1>1. RunIds' = RunIds /\ UNCHANGED <<run, accepted, overwritten, again>>
  BY DEF Quiet, RunIds
<1>2. \A q \in Procs : Holding(proc'[q], RunIds') => /\ Holding(proc[q], RunIds) /\ proc'[q].run = proc[q].run
                                                     /\ Followed(proc[q]) => Followed(proc'[q])
  BY <1>1 DEF Quiet
<1>3. \A q \in Procs : Judging(proc'[q], RunIds') /\ proc'[q].pc \in {"queue", "build"} =>
        /\ Judging(proc[q], RunIds) /\ proc[q].pc \in {"queue", "build"}
        /\ proc'[q].task = proc[q].task /\ proc'[q].run = proc[q].run
  BY <1>1 DEF Quiet
<1>4. ASSUME NEW q \in Procs, At(q, "evaluate"), proc[q].ok, FollowUps(proc[q].run) # {} PROVE proc[q].run \in again
  <2>1. Holding(proc[q], RunIds) /\ ~Followed(proc[q])
    BY <1>4, TypingFacts DEF At, Shape, Holding, Followed
  <2>2. 0 \notin RunIds
    BY DEF RunIds, Runs
  <2> QED
    BY <1>4, <2>1, <2>2 DEF FollowUps, UInv, Holding
<1>5. \A q \in Procs : At(q, "accept")' /\ proc'[q].how = "needs_follow_up" =>
        (At(q, "accept") /\ proc'[q] = proc[q]) \/ HasFollowUp(proc[q].run)'
  BY <1>1, <1>4 DEF Quiet, At, HasFollowUp
<1> QED
  BY <1>1, <1>2, <1>3, <1>5, UKept
\* A process that turns to another run, starts one or builds one.
LEMMA USteps ==
  ASSUME TInv, RInv, UInv, RunsKept, SameSources, NEW p \in Procs,
         \/ Look(p) \/ Start(p) \/ BuildFails(p) \/ QueueFollowUp(p) \/ Accept(p) \/ Build(p)
         \/ Execute(p) \/ Pause(p) \/ Guarded(p) \/ Requeues(p)
         \/ (\E r \in Runs : Claim(p, r)) \/ \E t \in Tasks : Enqueue(p, t)
  PROVE  UInv'
<1>1. proc[p] \in Proc /\ Shape(proc[p], RunIds, TaskIds)
  BY TypingFacts
<1>2. 0 \notin RunIds'
  BY DEF RunIds, Runs
<1>3. ASSUME NEW x, Set(p, x), UNCHANGED accepted, ~Holding(x, RunIds'), x.pc # "accept",
             ~(Judging(x, RunIds') /\ x.pc \in {"queue", "build"})
      PROVE  UInv'
  BY <1>3, UMoves
<1>4. CASE Set(p, Idle) /\ UNCHANGED accepted
  BY <1>3, <1>4 DEF Idle, Holding, Judging
<1>5. CASE Look(p)
  <2>1. CASE Goes(p, "claim")
    <3> DEFINE x == [proc[p] EXCEPT !.pc = "claim"]
    <3>1. Set(p, x) /\ x.pc = "claim" /\ UNCHANGED accepted
      BY <1>1, <1>5, <2>1 DEF Goes, Look, Proc
    <3> QED
      BY <1>3, <3>1 DEF Holding
  <2>2. ASSUME NEW t, Set(p, [proc[p] EXCEPT !.pc = "start", !.then = "claim", !.task = t]) PROVE UInv'
    <3> DEFINE x == [proc[p] EXCEPT !.pc = "start", !.then = "claim", !.task = t]
    <3>1. Set(p, x) /\ x.pc = "start" /\ UNCHANGED accepted
      BY <1>1, <1>5, <2>2 DEF Look, Proc
    <3> QED
      BY <1>3, <3>1 DEF Holding
  <2> QED
    BY <1>4, <1>5, <2>1, <2>2 DEF Look, Ends
<1>6. CASE Start(p)
  <2> DEFINE x == [proc[p] EXCEPT !.pc = "build"]
  <2>1. Set(p, x) /\ x.pc = "build" /\ x.run = 0 /\ UNCHANGED accepted
    BY <1>1, <1>6 DEF Goes, Start, Proc, At, Shape
  <2> QED
    BY <1>2, <1>3, <2>1 DEF Holding, Judging
<1>7. CASE QueueFollowUp(p)
  <2> DEFINE x == [proc[p] EXCEPT !.pc = "build", !.then = "accept"]
  <2>1. /\ Set(p, x) /\ x.pc = "build" /\ x.run = proc[p].run /\ x.task = proc[p].task /\ UNCHANGED accepted
        /\ At(p, "queue") /\ Judging(proc[p], RunIds)
    BY <1>1, <1>7 DEF QueueFollowUp, Proc, At, Shape
  <2> QED
    BY <2>1, UMoves DEF Holding, Followed, Judging, At
<1>8. CASE Accept(p)
  <2> DEFINE x == NextTurn(proc[p])
  <2>1. Set(p, x) /\ x.pc \in {"look", "idle"}
    BY <1>8 DEF Accept, NextTurn, Idle
  <2> HIDE DEF x
  <2>2. PICK s, how : s = proc[p].run /\ how = proc[p].how
    OBVIOUS
  <2>3. accepted' = accepted \cup {[run |-> s, how |-> how]}
    BY <1>8, <2>2 DEF Accept
  <2>4. how = "needs_follow_up" /\ overwritten = {} => HasFollowUp(s)
    BY <1>8, <2>2 DEF Accept, UInv, At, HasFollowUp
  <2>5. \A a \in accepted' : a.how = "needs_follow_up" /\ overwritten' = {} => a \in accepted \/ HasFollowUp(a.run)'
    <3> SUFFICES ASSUME NEW a \in accepted', a.how = "needs_follow_up", overwritten' = {}, a \notin accepted
                 PROVE  HasFollowUp(a.run)'
      OBVIOUS
    <3>1. a = [run |-> s, how |-> how]
      BY <2>3
    <3>2. a.run = s /\ a.how = how
      BY <3>1
    <3>3. HasFollowUp(a.run)
      BY <2>4, <3>2 DEF SameSources
    <3> QED
      BY <3>3, FollowUpStays DEF SameSources
  <2> QED
    BY <2>1, <2>5, UMoves DEF Holding
<1>9. CASE Build(p)
  <2>1. PICK r \in Runs \ RunIds : /\ run'[r] = NewRun(proc[p].task) /\ RunIds' = RunIds \cup {r}
                                   /\ proc[p].task \in TaskIds
    BY <1>9, Built
  <2>2. UNCHANGED accepted /\ At(p, "build")
    BY <1>9 DEF Build, ghosts, doubts
  <2>3. CASE proc[p].then = "accept"
    <3> DEFINE x == [proc[p] EXCEPT !.pc = "accept", !.then = "idle", !.task = 0]
    <3>1. Set(p, x) /\ x.pc = "accept" /\ x.run = proc[p].run /\ x.ok = proc[p].ok
      BY <1>1, <1>9, <2>3 DEF Build, Proc
    <3> HIDE DEF x
    <3>2. Judging(proc[p], RunIds)
      BY <1>1, <2>2, <2>3 DEF Shape, At
    <3>3. Holding(proc[p], RunIds)
      BY <2>2, <3>2 DEF Holding, Judging, At
    <3>4. PICK s : s = proc[p].run /\ s = proc'[p].run
      BY <3>1 DEF Set, TInv, TypeOK
    <3>5. overwritten = {} => proc[p].task \in TaskIds /\ task[proc[p].task].source = s
      BY <2>1, <2>2, <3>2, <3>4 DEF UInv, At
    <3>6. overwritten' = {} => HasFollowUp(s)'
      <4>1. run'[r].task = proc[p].task
        BY <2>1 DEF NewRun
      <4> QED
        BY <2>1, <3>5, <4>1 DEF SameSources, HasFollowUp, FollowUps, RunsOf
    <3>7. overwritten' = {} => HasFollowUp(proc[p].run)'
      BY <3>4, <3>6 DEF HasFollowUp, FollowUps
    <3> QED
      BY <2>2, <3>1, <3>3, <3>7, UMoves DEF Followed
  <2>4. CASE proc[p].then = "claim"
    <3> DEFINE x == [proc[p] EXCEPT !.pc = "claim", !.then = "idle", !.task = 0]
    <3>1. Set(p, x) /\ x.pc = "claim"
      BY <1>1, <1>9, <2>4 DEF Build, Proc
    <3> QED
      BY <1>3, <2>2, <3>1 DEF Holding
  <2>5. CASE proc[p].then = "idle"
    BY <1>4, <1>9, <2>2, <2>5 DEF Build, Ends
  <2> QED
    BY <1>1, <2>2, <2>3, <2>4, <2>5 DEF Shape, At
<1>10. CASE Execute(p)
  <2>1. PICK x \in Proc : /\ Set(p, x) /\ x.pc = "trigger" /\ x.run = proc[p].run /\ proc[p].run \in RunIds
    BY <1>10, Executed
  <2>2. UNCHANGED <<accepted, again>> /\ (proc[p].run \in again \/ run[proc[p].run].result # "success")
    BY <1>10 DEF Execute, RInv, ghosts, doubts
  <2> QED
    BY <2>1, <2>2, UMoves
<1>11. CASE Pause(p) \/ Guarded(p) \/ BuildFails(p)
  BY <1>4, <1>11 DEF Pause, Guarded, BuildFails, Ends, ghosts, doubts
<1>12. ASSUME NEW r \in Runs, Claim(p, r) PROVE UInv'
  <2> DEFINE x == [proc[p] EXCEPT !.pc = "execute", !.run = r]
  <2>1. Set(p, x) /\ x.pc = "execute" /\ UNCHANGED accepted
    BY <1>1, <1>12 DEF Claim, Proc, ghosts, doubts
  <2> QED
    BY <1>3, <2>1 DEF Holding
<1>13. ASSUME NEW t \in Tasks, Enqueue(p, t) PROVE UInv'
  <2> DEFINE x == [Idle EXCEPT !.pc = "build", !.task = t]
  <2>1. Set(p, x) /\ x.pc = "build" /\ x.run = 0 /\ UNCHANGED accepted
    BY <1>13 DEF Enqueue, Idle
  <2> QED
    BY <1>2, <1>3, <2>1 DEF Holding, Judging
<1>14. CASE Requeues(p)
  <2>0. PICK r : r = proc[p].run
    OBVIOUS
  <2>1. PICK t \in FollowUps(r) : Set(p, [proc[p] EXCEPT !.pc = "queue", !.task = t, !.how = "needs_follow_up"])
    BY <1>14, <2>0 DEF Requeues
  <2> DEFINE x == [proc[p] EXCEPT !.pc = "queue", !.task = t, !.how = "needs_follow_up"]
  <2>2. Set(p, x) /\ x.pc = "queue" /\ x.task = t /\ x.run = r
    BY <1>1, <2>0, <2>1 DEF Proc
  <2> HIDE DEF x
  <2>3. UNCHANGED accepted /\ Holding(proc[p], RunIds) /\ ~Followed(proc[p])
    BY <1>1, <1>14 DEF Requeues, EvaluateReviewed, At, Shape, Holding, Followed
  <2> QED
    BY <2>0, <2>1, <2>2, <2>3, UMoves DEF FollowUps
<1> QED
  BY <1>5, <1>6, <1>7, <1>8, <1>9, <1>10, <1>11, <1>12, <1>13, <1>14

LEMMA UPeople == ASSUME TInv, RInv, UInv, RunsKept, SameSources, People PROVE UInv'
<1>1. UNCHANGED <<proc, accepted>>
  BY DEF People, Decide, MarkDone, AskHuman, Retry, AcceptAsked, Admit, Block, Dismiss, Release, Reject, Reclaim,
     ghosts, doubts
<1>2. RunIds' = RunIds
  <2>1. CASE UNCHANGED run
    BY <2>1 DEF RunIds
  <2>2. ASSUME NEW r \in RunIds, NEW q \in QueueStates, run' = [run EXCEPT ![r].at = q] PROVE RunIds' = RunIds
    <3>1. PICK y \in Run : run' = [run EXCEPT ![r] = y] /\ y.task = run[r].task
      BY <2>2, Rejob DEF JobAt
    <3> QED
      BY <3>1, Rerun
  <2>3. ASSUME NEW a \in approvals, Retry(a) PROVE RunIds' = RunIds
    BY <2>2, <2>3, TypingFacts DEF Retry, QueueStates, BoardTyped, Referring
  <2>4. ASSUME NEW r \in Runs, Release(r) PROVE RunIds' = RunIds
    BY <2>2, <2>4 DEF Release, InState, QueueStates
  <2>5. ASSUME NEW r \in Runs, Reclaim(r) PROVE RunIds' = RunIds
    BY <2>2, <2>5, ReclaimMoves
  <2>6. ASSUME NEW r \in Runs, Reject(r) PROVE RunIds' = RunIds
    BY <2>2, <2>6, RejectMoves
  <2>7. ASSUME NEW a \in approvals, Admit(a) PROVE RunIds' = RunIds
    <3>1. /\ a.run \in RunIds /\ AdmittedRun(a.run) \in Run /\ run' = [run EXCEPT ![a.run] = AdmittedRun(a.run)]
          /\ AdmittedRun(a.run).task = run[a.run].task
      BY <2>7, AdmitMoves
    <3> QED
      BY <3>1, Rerun
  <2> QED
    BY <2>1, <2>3, <2>4, <2>5, <2>6, <2>7
       DEF People, Decide, MarkDone, AskHuman, AcceptAsked, Block, Dismiss, board, ghosts
<1> QED
  BY <1>1, <1>2, UKept DEF At
LEMMA UWrite == ASSUME TInv, RInv, UInv, NEW p \in Procs, WriteTask(p) PROVE UInv'
<1>1. proc[p] \in Proc /\ Shape(proc[p], RunIds, TaskIds) /\ At(p, "write")
  BY TypingFacts DEF WriteTask
<1>2. PICK n, s : n = proc[p].seq /\ s = proc[p].run
  OBVIOUS
<1>3. /\ n \in Tasks /\ TaskIds' = TaskIds \cup {n} /\ (\A u \in Tasks \ {n} : task'[u] = task[u])
      /\ n \in TaskIds => n \in overwritten'
      /\ \/ proc[p].then = "queue" /\ Judging(proc[p], RunIds) /\ task'[n].source = s
         \/ proc[p].then = "idle" /\ task'[n].source = 0
  BY <1>2, Written, Zenon
<1>4. UNCHANGED <<run, accepted, again>> /\ overwritten \subseteq overwritten'
  BY DEF WriteTask, doubts
<1>5. RunIds' = RunIds
  BY <1>4 DEF RunIds
<1>6. \A q \in Procs \ {p} : proc'[q] = proc[q]
  BY DEF WriteTask, Ends, Set, TInv, TypeOK
<1>7. proc[p].then = "queue" => proc'[p].pc = "queue" /\ proc'[p].task = n /\ proc'[p].run = s
  <2> DEFINE x == [proc[p] EXCEPT !.pc = "queue", !.then = "idle", !.task = proc[p].seq, !.seq = 0]
  <2>1. x.pc = "queue" /\ x.task = n /\ x.run = s
    BY <1>1, <1>2 DEF Proc
  <2>2. proc[p].then = "queue" => proc'[p] = x
    BY DEF WriteTask, Set, TInv, TypeOK
  <2> QED
    BY <2>1, <2>2
<1>8. proc[p].then = "idle" => proc'[p] = Idle
  BY DEF WriteTask, Ends, Set, TInv, TypeOK
<1>9. proc[p].then = "queue" => /\ Holding(proc[p], RunIds) /\ ~Followed(proc[p])
                                /\ s \in again \/ run[s].result = "success"
  BY <1>1, <1>2, <1>3 DEF Holding, Judging, Followed, At, RInv
<1>10. ASSUME NEW t \in TaskIds', task'[t].source # 0, task'[t].source \notin again
       PROVE  /\ run'[task'[t].source].result = "success"
              /\ \A q \in Procs : Holding(proc'[q], RunIds') /\ proc'[q].run = task'[t].source => Followed(proc'[q])
  <2>1. CASE t = n
    <3>1. proc[p].then = "queue" /\ task'[t].source = s /\ run'[s].result = "success"
      BY <1>3, <1>4, <1>9, <1>10, <2>1
    <3>2. ASSUME NEW q \in Procs, Holding(proc'[q], RunIds'), proc'[q].run = s PROVE Followed(proc'[q])
      <4>1. q = p
        BY <1>2, <1>5, <1>6, <1>9, <1>10, <3>1, <3>2 DEF RInv
      <4> QED
        BY <1>7, <3>1, <4>1 DEF Followed
    <3> QED
      BY <3>1, <3>2
  <2>2. CASE t # n
    <3>1. t \in TaskIds /\ task'[t] = task[t] /\ task[t].source # 0 /\ task[t].source \notin again
      BY <1>3, <1>10, <2>2 DEF TaskIds
    <3>2. ASSUME NEW q \in Procs, Holding(proc'[q], RunIds'), proc'[q].run = task[t].source PROVE Followed(proc'[q])
      <4>1. CASE q = p
        BY <1>3, <1>7, <1>8, <3>2, <4>1, NotHolding DEF Followed
      <4>2. CASE q # p
        BY <1>5, <1>6, <3>1, <3>2, <4>2 DEF UInv
      <4> QED
        BY <4>1, <4>2
    <3> QED
      BY <1>4, <3>1, <3>2 DEF UInv
  <2> QED
    BY <2>1, <2>2
<1>11. ASSUME NEW q \in Procs, overwritten' = {}, Judging(proc'[q], RunIds'), proc'[q].pc \in {"queue", "build"}
       PROVE  task'[proc'[q].task].source = proc'[q].run
  <2>1. CASE q = p
    BY <1>3, <1>7, <1>8, <1>11, <2>1 DEF Idle
  <2>2. CASE q # p
    <3>1. proc'[q] = proc[q] /\ Judging(proc[q], RunIds) /\ overwritten = {}
      BY <1>4, <1>5, <1>6, <1>11, <2>2
    <3>2. proc[q].task \in TaskIds /\ n \notin TaskIds
      BY <1>3, <1>11, <3>1, TypingFacts DEF Shape
    <3>3. task'[proc[q].task] = task[proc[q].task]
      BY <1>3, <3>2 DEF TaskIds
    <3> QED
      BY <1>11, <3>1, <3>3 DEF UInv
  <2> QED
    BY <2>1, <2>2
<1>12. ASSUME NEW r, overwritten' = {}, HasFollowUp(r) PROVE HasFollowUp(r)'
  <2> SUFFICES ASSUME r \notin again PROVE HasFollowUp(r)'
    BY <1>4 DEF HasFollowUp
  <2>1. PICK t \in TaskIds, u \in RunIds : task[t].source = r /\ run[u].task = t
    BY <1>12 DEF HasFollowUp, FollowUps, RunsOf
  <2>2. t # n /\ task'[t] = task[t] /\ t \in TaskIds'
    BY <1>3, <1>12, <2>1 DEF TaskIds
  <2> QED
    BY <1>4, <1>5, <2>1, <2>2 DEF HasFollowUp, FollowUps, RunsOf
<1>13. ASSUME NEW q \in Procs, overwritten' = {}, At(q, "accept")', proc'[q].how = "needs_follow_up"
       PROVE  HasFollowUp(proc[q].run)'
  <2>1. q # p /\ proc'[q] = proc[q] /\ At(q, "accept") /\ overwritten = {}
    BY <1>3, <1>4, <1>6, <1>7, <1>8, <1>13 DEF At, Idle
  <2>2. PICK r : r = proc[q].run /\ r = proc'[q].run
    BY <2>1
  <2>3. HasFollowUp(r)
    BY <1>13, <2>1, <2>2 DEF UInv, HasFollowUp
  <2>4. HasFollowUp(r)'
    BY <1>12, <1>13, <2>3
  <2> QED
    BY <2>2, <2>4 DEF HasFollowUp, FollowUps
<1>14. ASSUME NEW a \in accepted', a.how = "needs_follow_up", overwritten' = {} PROVE HasFollowUp(a.run)'
  <2>1. HasFollowUp(a.run)
    BY <1>4, <1>14 DEF UInv, FollowUpKept, HasFollowUp
  <2> QED
    BY <1>12, <1>14, <2>1
<1>15. FollowUpKept'
  BY <1>14 DEF FollowUpKept, HasFollowUp
<1>16. \A q \in Procs : (overwritten = {} /\ At(q, "accept") /\ proc[q].how = "needs_follow_up" =>
          proc[q].run \in again \/ \E t \in FollowUps(proc[q].run) : RunsOf(t) # {})'
  BY <1>13 DEF HasFollowUp
<1> QED
  BY <1>4, <1>10, <1>11, <1>15, <1>16 DEF UInv

LEMMA FollowedUpStep == ASSUME TInv, RInv, UInv, [Next]_vars PROVE UInv'
<1>1. RunsKept /\ ((\A p \in Procs : ~WriteTask(p)) => SameSources)
  BY RunsKeptStep, SourcesStep
<1>2. ASSUME NEW p \in Procs, WriteTask(p) PROVE UInv'
  BY <1>2, UWrite
<1> SUFFICES ASSUME \A p \in Procs : ~WriteTask(p) PROVE UInv'
  BY <1>2
<1>3. ASSUME NEW p \in Procs, Step(p) \/ Command(p) \/ Crash(p) \/ Orphan(p) PROVE UInv'
  <2>1. CASE QuietAction(p)
    BY <1>1, <2>1, QuietSteps, UQuiet
  <2> QED
    BY <1>1, <1>3, <2>1, USteps DEF Step, Command, QuietAction
<1>4. CASE People
  BY <1>1, <1>4, UPeople
<1>5. CASE UNCHANGED vars
  <2>1. Quiet
    BY <1>5 DEF vars, board, ghosts, doubts, Quiet, At
  <2> QED
    BY <1>1, <2>1, UQuiet
<1> QED
  BY <1>3, <1>4, <1>5 DEF Next

LEMMA FollowedUpInit == Init => UInv
<1> SUFFICES ASSUME Init PROVE UInv
  OBVIOUS
<1>1. \A t \in TaskIds : task[t].source = 0
  BY ProjectAssumption DEF Init, BoardInit, TaskIds
<1>2. \A p \in Procs : proc[p].pc = "idle"
  BY DEF Init, Idle
<1>3. accepted = {}
  BY DEF Init
<1> QED
  BY <1>1, <1>2, <1>3 DEF UInv, At, FollowUpKept

\* When the loop accepts a run whose review asked for more, the task that does more
\* is on the board and has a run, however many loops, reviewers and kills there are,
\* as long as no new task was written over another and the run was not put back on the
\* queue after its job had been dropped (materialize_follow_up_tasks,
\* evaluate_run_decision, resolve_approval_request).
THEOREM FollowUpsAreKept == Spec => []FollowUpKept
<1>1. Spec => []UInv
  BY Typed, ExecutedOnce, FollowedUpInit, FollowedUpStep, PTL DEF Spec
<1>2. UInv => FollowUpKept
  BY DEF UInv
<1> QED
  BY <1>1, <1>2, PTL

------------------------------------------------------------------------------
(* The reviews of flagged runs. *)

ReviewedKept == \A r : Reviewed(r) => Reviewed(r)'

\* What has to hold of a process that moves.
Heeds(q) ==
  /\ At(q, "stub") => \/ At(q, "stub")' /\ proc'[q].todo = proc[q].todo
                      \/ \A r \in Head(proc[q].todo) : Reviewed(r)' \/ r \in unbatched'
  /\ Seen(q)'
  /\ At(q, "accept")' /\ proc'[q].how = "unreviewed" /\ proc'[q].run \notin unbatched' =>
       ~run'[proc'[q].run].flagged

LEMMA FKept ==
  ASSUME TInv, FInv, RunsKept, ReviewedKept, UNCHANGED batch, crowded => crowded',
         unbatched \subseteq unbatched',
         ~crowded' => \A q \in Procs : proc'[q] = proc[q] \/ Heeds(q),
         ~crowded' => \A p, q \in Procs : Batching(p)' /\ Batching(q)' => p = q,
         ~crowded' => \A a \in accepted' : a \in accepted \/ (run'[a.run].flagged /\ a.run \notin unbatched' => a.how # "unreviewed")
  PROVE  FInv'
<1> SUFFICES ASSUME ~crowded' PROVE FInv'
  BY DEF FInv
<1>1. ASSUME NEW b \in Batches, NEW r \in batch'[b]
      PROVE  Reviewed(r)' \/ r \in unbatched' \/ \E p \in Procs : At(p, "stub")' /\ r \in Head(proc'[p].todo)
  <2>1. Reviewed(r) \/ r \in unbatched \/ \E p \in Procs : At(p, "stub") /\ r \in Head(proc[p].todo)
    BY <1>1 DEF FInv
  <2>2. \A p \in Procs : At(p, "stub") => \/ At(p, "stub")' /\ proc'[p].todo = proc[p].todo
                                          \/ \A q \in Head(proc[p].todo) : Reviewed(q)' \/ q \in unbatched'
    BY DEF Heeds, At
  <2> QED
    BY <2>1, <2>2 DEF ReviewedKept
<1>2. ASSUME NEW q \in Procs PROVE Seen(q)'
  <2>1. CASE proc'[q] = proc[q]
    <3>1. PICK x, r : x = proc[q] /\ x = proc'[q] /\ r = x.run
      BY <2>1
    <3>2. Seen(q)
      BY DEF FInv
    <3>3. UnderReview(x) => UnderReview(x)'
      BY DEF UnderReview, ReviewedKept
    <3>4. x.pc \in {"save", "review", "evaluate"} \/ (x.pc \in {"seq", "manifest", "stub"} /\ x.then = "save") => r \in RunIds
      BY <3>1, TypingFacts DEF Shape
    <3>5. UnderReview(proc[q]) => UnderReview(proc[q])'
      BY <3>1, <3>3 DEF UnderReview, Reviewed, StubsOf
    <3> QED
      BY <3>1, <3>2, <3>4, <3>5 DEF Seen, Batching, RunsKept
  <2> QED
    BY <2>1 DEF Heeds
<1>3. ASSUME NEW q \in Procs, At(q, "accept")', proc'[q].how = "unreviewed", proc'[q].run \notin unbatched'
      PROVE  ~run'[proc'[q].run].flagged
  <2>1. CASE proc'[q] = proc[q]
    <3>1. proc[q].run \in RunIds /\ At(q, "accept") /\ ~run[proc[q].run].flagged
      BY <1>3, <2>1, TypingFacts DEF FInv, At, Shape, Judging
    <3> QED
      BY <2>1, <3>1 DEF RunsKept
  <2> QED
    BY <1>3, <2>1 DEF Heeds
<1>4. ASSUME NEW a \in accepted', run'[a.run].flagged, a.run \notin unbatched' PROVE a.how # "unreviewed"
  <2>1. CASE a \in accepted
    <3>1. a.run \in RunIds
      BY <2>1, TypingFacts DEF BoardTyped, Referring
    <3> QED
      BY <1>4, <2>1, <3>1 DEF RunsKept, FInv
  <2> QED
    BY <1>4, <2>1
<1> QED
  BY <1>1, <1>2, <1>3, <1>4 DEF FInv

\* A step of one process.
LEMMA FMoves ==
  ASSUME TInv, FInv, RunsKept, ReviewedKept, UNCHANGED <<batch, accepted>>, crowded => crowded',
         unbatched \subseteq unbatched',
         NEW p \in Procs, \A q \in Procs \ {p} : proc'[q] = proc[q],
         ~crowded' => /\ Heeds(p)
                      /\ Batching(p)' => Batching(p) \/ \A q \in Procs : ~Batching(q)
  PROVE  FInv'
<1>1. \A q \in Procs \ {p} : Batching(q)' => Batching(q)
  BY DEF Batching
<1>2. ~crowded' => \A q, s \in Procs : Batching(q)' /\ Batching(s)' => q = s
  BY <1>1 DEF FInv
<1> QED
  BY <1>2, FKept

LEMMA FAside ==
  ASSUME TInv, FInv, RunsKept, ReviewedKept, UNCHANGED <<batch, accepted>>, crowded => crowded',
         unbatched \subseteq unbatched',
         NEW p \in Procs, \A q \in Procs \ {p} : proc'[q] = proc[q],
         At(p, "stub") => Head(proc[p].todo) \subseteq unbatched',
         proc'[p].pc \notin {"seq", "manifest", "stub", "save", "review", "evaluate"},
         proc'[p].pc = "accept" => proc'[p].how # "unreviewed"
  PROVE  FInv'
<1>1. ~crowded' => Heeds(p) /\ ~Batching(p)'
  BY DEF Heeds, Seen, Batching, At
<1> QED
  BY <1>1, FMoves
LEMMA DecidedKeeps ==
  ASSUME NEW S, NEW v, S \subseteq stubs, stubs' = Decided(S, v)
  PROVE  ReviewedKept
<1> SUFFICES ASSUME NEW r, Reviewed(r) PROVE Reviewed(r)'
  BY DEF ReviewedKept
<1>1. PICK s \in stubs : s.run = r
  BY DEF Reviewed, StubsOf
<1>2. CASE s \in S
  <2>1. [s EXCEPT !.verdict = v] \in stubs' /\ [s EXCEPT !.verdict = v].run = s.run
    BY <1>2 DEF Decided
  <2> QED
    BY <1>1, <2>1 DEF Reviewed, StubsOf
<1>3. CASE s \notin S
  <2>1. s \in stubs'
    BY <1>3 DEF Decided
  <2> QED
    BY <1>1, <2>1 DEF Reviewed, StubsOf
<1> QED
  BY <1>2, <1>3

LEMMA StubbedKeeps ==
  ASSUME NEW b, NEW R, stubs' = WithStubs(b, R)
  PROVE  ReviewedKept /\ \A r \in R : Reviewed(r)'
<1>1. ASSUME NEW r \in R PROVE Reviewed(r)'
  <2>1. [batch |-> b, run |-> r, verdict |-> "pending"] \in stubs'
    BY DEF WithStubs
  <2> QED
    BY <2>1 DEF Reviewed, StubsOf
<1>2. ASSUME NEW r, Reviewed(r), r \notin R PROVE Reviewed(r)'
  <2>1. PICK s \in stubs : s.run = r
    BY <1>2 DEF Reviewed, StubsOf
  <2>2. s \in stubs'
    BY <1>2, <2>1 DEF WithStubs
  <2> QED
    BY <2>1, <2>2 DEF Reviewed, StubsOf
<1> QED
  BY <1>1, <1>2 DEF ReviewedKept

LEMMA ReviewedStays == ASSUME UNCHANGED stubs PROVE ReviewedKept
  BY DEF ReviewedKept, Reviewed, StubsOf

\* Nobody's review depends on these steps.
LEMMA FSteps ==
  ASSUME TInv, FInv, RunsKept, NEW p \in Procs,
         \/ Orchestrate(p) \/ Worker(p) \/ Look(p) \/ EndsEarly(p) \/ Start(p) \/ Build(p) \/ BuildFails(p)
         \/ NothingToDo(p) \/ Execute(p) \/ Pause(p) \/ Guarded(p) \/ EvaluateFailed(p) \/ EvaluateReviewed(p)
         \/ TaskNumber(p) \/ WriteTask(p) \/ QueueFollowUp(p) \/ Crash(p)
         \/ (\E r \in Runs : Claim(p, r)) \/ \E t \in Tasks : Delegate(p, t) \/ Enqueue(p, t)
  PROVE  FInv'
<1>1. proc[p] \in Proc /\ Shape(proc[p], RunIds, TaskIds) /\ DOMAIN proc = Procs
  BY TypingFacts DEF TInv, TypeOK
<1>2. UNCHANGED <<batch, stubs, accepted>> /\ (crowded => crowded') /\ unbatched \subseteq unbatched'
  <2>1. CASE Orchestrate(p) \/ Worker(p) \/ Look(p) \/ EndsEarly(p) \/ Start(p) \/ Build(p) \/ BuildFails(p)
                \/ NothingToDo(p) \/ Execute(p) \/ Pause(p) \/ Guarded(p)
    <3>1. ASSUME Orchestrate(p) \/ Worker(p) \/ Look(p) \/ EndsEarly(p) PROVE UNCHANGED <<batch, stubs, accepted, crowded, unbatched>>
      BY <3>1 DEF Orchestrate, Worker, Look, EndsEarly, reviews, ghosts, doubts
    <3>2. ASSUME Start(p) \/ Build(p) \/ BuildFails(p) PROVE UNCHANGED <<batch, stubs, accepted, crowded, unbatched>>
      <4>1. Start(p) => UNCHANGED <<batch, stubs, accepted, crowded, unbatched>>
        BY DEF Start, reviews, doubts
      <4>2. Build(p) => UNCHANGED <<batch, stubs, accepted, crowded, unbatched>>
        BY DEF Build, reviews, ghosts, doubts
      <4>3. BuildFails(p) => UNCHANGED <<batch, stubs, accepted, crowded, unbatched>>
        BY DEF BuildFails, reviews, doubts
      <4> QED
        BY <3>2, <4>1, <4>2, <4>3
    <3>3. ASSUME NothingToDo(p) \/ Execute(p) \/ Pause(p) \/ Guarded(p) PROVE UNCHANGED <<batch, stubs, accepted, crowded, unbatched>>
      BY <3>3 DEF NothingToDo, Execute, Pause, Guarded, reviews, ghosts, doubts
    <3> QED
      BY <2>1, <3>1, <3>2, <3>3
  <2>2. CASE EvaluateFailed(p) \/ EvaluateReviewed(p) \/ TaskNumber(p) \/ WriteTask(p) \/ QueueFollowUp(p)
    <3>1. UNCHANGED <<batch, stubs, accepted, crowded, unbatched>>
      BY <2>2 DEF EvaluateFailed, EvaluateReviewed, TaskNumber, WriteTask, QueueFollowUp, reviews, ghosts, doubts
    <3> QED
      BY <3>1
  <2>3. CASE Crash(p)
    BY <2>3 DEF Crash, reviews
  <2>4. ASSUME NEW r \in Runs, Claim(p, r) PROVE UNCHANGED <<batch, stubs, accepted, crowded, unbatched>>
    BY <2>4 DEF Claim, reviews, ghosts, doubts
  <2>5. ASSUME NEW t \in Tasks, Delegate(p, t) \/ Enqueue(p, t) PROVE UNCHANGED <<batch, stubs, accepted, crowded, unbatched>>
    BY <2>5 DEF Delegate, Enqueue, reviews, ghosts, doubts
  <2> QED
    BY <2>1, <2>2, <2>3, <2>4, <2>5
<1>3. At(p, "stub") => Head(proc[p].todo) \subseteq unbatched'
  BY DEF Orchestrate, Worker, Look, EndsEarly, Start, Build, BuildFails, NothingToDo, Execute, Pause, Guarded,
     EvaluateFailed, EvaluateReviewed, TaskNumber, WriteTask, QueueFollowUp, Crash, Claim, Delegate,
     Enqueue, At, Begin, HalfMade
<1>4. \A q \in Procs \ {p} : proc'[q] = proc[q]
  <2>1. UNCHANGED proc \/ \E x : Set(p, x)
    BY DEF Orchestrate, Worker, Look, EndsEarly, Start, Build, BuildFails, NothingToDo, Execute, Pause, Guarded,
       EvaluateFailed, EvaluateReviewed, TaskNumber, WriteTask, QueueFollowUp, Crash, Claim, Delegate,
       Enqueue, Ends, Goes, Asks
  <2> QED
    BY <1>1, <2>1 DEF Set
<1> DEFINE Apart(x) == /\ x.pc \notin {"seq", "manifest", "stub", "save", "review", "evaluate"}
                       /\ x.pc = "accept" => x.how # "unreviewed"
<1> SUFFICES Apart(proc'[p])
  BY <1>2, <1>3, <1>4, FAside, ReviewedStays
<1>5. ASSUME NEW x, Set(p, x), Apart(x) PROVE Apart(proc'[p])
  BY <1>1, <1>5 DEF Set
<1>6. CASE Set(p, Idle) \/ \E x : Set(p, NextTurn(x))
  <2>1. Apart(Idle) /\ \A x : Apart(NextTurn(x))
    BY DEF Idle, NextTurn
  <2> HIDE DEF Apart
  <2> QED
    BY <1>5, <1>6, <2>1
<1>7. CASE Orchestrate(p) /\ UNCHANGED proc
  BY <1>7 DEF Orchestrate, Begin, At
<1>8. CASE Worker(p) \/ (\E t \in Tasks : Delegate(p, t) \/ Enqueue(p, t))
  <2>1. \/ Set(p, [Idle EXCEPT !.pc = "claim", !.kind = "worker"])
        \/ \E t : Set(p, [Idle EXCEPT !.pc = "number", !.task = t])
        \/ \E t : Set(p, [Idle EXCEPT !.pc = "build", !.task = t])
    BY <1>8 DEF Worker, Delegate, Enqueue
  <2> QED
    BY <1>5, <2>1 DEF Idle
<1>9. ASSUME Set(p, [proc[p] EXCEPT !.pc = "claim"]) PROVE Apart(proc'[p])
  <2>1. Apart([proc[p] EXCEPT !.pc = "claim"])
    BY <1>1 DEF Proc
  <2> QED
    BY <1>5, <1>9, <2>1
<1>10. CASE Look(p)
  <2>1. ASSUME NEW t PROVE Apart([proc[p] EXCEPT !.pc = "start", !.then = "claim", !.task = t])
    BY <1>1 DEF Proc
  <2> HIDE DEF Apart
  <2> QED
    BY <1>5, <1>6, <1>9, <1>10, <2>1 DEF Look, Goes, Ends
<1>11. CASE Start(p)
  <2>1. Apart([proc[p] EXCEPT !.pc = "build"])
    BY <1>1 DEF Proc
  <2> QED
    BY <1>5, <1>11, <2>1 DEF Start, Goes
<1>12. CASE Build(p)
  <2>1. CASE proc[p].then = "idle"
    BY <1>6, <1>12, <2>1 DEF Build, Ends
  <2>2. CASE proc[p].then # "idle"
    <3>1. Apart([proc[p] EXCEPT !.pc = proc[p].then, !.then = "idle", !.task = 0])
      BY <1>1, <1>12, <2>2 DEF Build, At, Shape, Proc
    <3> QED
      BY <1>5, <1>12, <2>2, <3>1 DEF Build
  <2> QED
    BY <2>1, <2>2
<1>13. CASE Execute(p)
  <2>1. PICK x : Set(p, x) /\ x.pc = "trigger"
    BY <1>13, Executed
  <2> QED
    BY <1>5, <2>1
<1>14. CASE EvaluateReviewed(p)
  <2>1. \A how : Apart([proc[p] EXCEPT !.pc = "number", !.then = "queue", !.how = how])
    BY <1>1 DEF Proc
  <2>2. ASSUME NEW how, how \in {"approved", "needs_follow_up"} PROVE Apart([proc[p] EXCEPT !.pc = "accept", !.how = how])
    BY <1>1, <2>2 DEF Proc
  <2>3. \/ Set(p, Idle)
        \/ \E how : how \in {"approved", "needs_follow_up"} /\ Set(p, [proc[p] EXCEPT !.pc = "accept", !.how = how])
        \/ \E how : Set(p, [proc[p] EXCEPT !.pc = "number", !.then = "queue", !.how = how])
        \/ \E t, how : Set(p, [proc[p] EXCEPT !.pc = "queue", !.task = t, !.how = how])
    BY <1>14 DEF EvaluateReviewed, Asks, Ends
  <2>4. \A t, how : Apart([proc[p] EXCEPT !.pc = "queue", !.task = t, !.how = how])
    BY <1>1 DEF Proc
  <2> HIDE DEF Apart
  <2> QED
    BY <1>5, <1>6, <2>1, <2>2, <2>3, <2>4
<1>15. CASE TaskNumber(p)
  <2>1. PICK n : Set(p, [proc[p] EXCEPT !.pc = "write", !.seq = n])
    BY <1>15 DEF TaskNumber
  <2>2. Apart([proc[p] EXCEPT !.pc = "write", !.seq = n])
    BY <1>1 DEF Proc
  <2> QED
    BY <1>5, <2>1, <2>2
<1>16. CASE WriteTask(p)
  <2>1. \A n : Apart([proc[p] EXCEPT !.pc = "queue", !.then = "idle", !.task = n, !.seq = 0])
    BY <1>1 DEF Proc
  <2> HIDE DEF Apart
  <2> QED
    BY <1>5, <1>6, <1>16, <2>1 DEF WriteTask, Ends
<1>17. CASE QueueFollowUp(p)
  <2>1. Apart([proc[p] EXCEPT !.pc = "build", !.then = "accept"])
    BY <1>1 DEF Proc
  <2> QED
    BY <1>5, <1>17, <2>1 DEF QueueFollowUp
<1>18. ASSUME NEW r \in Runs, Claim(p, r) PROVE Apart(proc'[p])
  <2>1. Apart([proc[p] EXCEPT !.pc = "execute", !.run = r])
    BY <1>1 DEF Proc
  <2> QED
    BY <1>5, <1>18, <2>1 DEF Claim
<1>19. CASE Orchestrate(p) \/ EndsEarly(p) \/ NothingToDo(p) \/ EvaluateFailed(p) \/ Crash(p) \/ Pause(p)
               \/ Guarded(p) \/ BuildFails(p)
  BY <1>6, <1>7, <1>19 DEF Orchestrate, EndsEarly, NothingToDo, EvaluateFailed, Asks, Crash, Pause, Guarded,
     BuildFails, Ends
<1> HIDE DEF Apart
<1> QED
  BY <1>8, <1>10, <1>11, <1>12, <1>13, <1>14, <1>15, <1>16, <1>17, <1>18, <1>19

\* The worker that triggers batches sees that a flagged run is in one.
LEMMA FTrigger == ASSUME TInv, FInv, RunsKept, NEW p \in Procs, Trigger(p) PROVE FInv'
<1> DEFINE r == proc[p].run
           count == IF ~Immediate(r) /\ proc[p].ok THEN cadence + 1 ELSE cadence
           asked == Immediate(r) \/ (proc[p].ok /\ count >= Cadence)
           due == IF asked THEN DueBatches ELSE <<>>
           periodic == \E i \in DOMAIN due : \A q \in due[i] : ~Immediate(q)
           c == IF periodic THEN 0 ELSE count
           pc == IF due = <<>> THEN "save" ELSE "seq"
           x == [proc[p] EXCEPT !.pc = pc, !.then = "save", !.todo = due, !.count = c]
<1>1. proc[p] \in Proc /\ Shape(proc[p], RunIds, TaskIds) /\ At(p, "trigger")
  BY TypingFacts DEF Trigger
<1>2. Set(p, x) /\ UNCHANGED <<batch, stubs, accepted, run, unbatched>> /\ crowded' = (crowded \/ \E q \in Procs : Batching(q))
  BY DEF Trigger, board, reviews, doubts
<1>3. r \in RunIds
  BY <1>1 DEF At, Shape
<1>4. ASSUME ~crowded', run[r].flagged, r \notin unbatched
      PROVE  Reviewed(r) \/ (pc = "seq" /\ \E i \in DOMAIN due : r \in due[i])
  <2>1. due = DueBatches
    BY <1>4 DEF Immediate
  <2>2. CASE \E b \in Batches : r \in batch[b]
    <3>1. ~crowded /\ \A q \in Procs : ~At(q, "stub")
      BY <1>2, <1>4 DEF Batching, At
    <3>2. Reviewed(r)
      BY <1>4, <2>2, <3>1 DEF FInv
    <3> QED
      BY <3>2
  <2>3. CASE \A b \in Batches : r \notin batch[b]
    <3> DEFINE unseen == RunIds \ UNION {batch[b] : b \in Batches}
               now == {q \in unseen : Immediate(q)}
               later == {q \in unseen \ now : run[q].result = "success"}
    <3>1. r \in now
      BY <1>3, <1>4, <2>3 DEF Immediate
    <3>2. DueBatches = (IF now = {} THEN <<>> ELSE <<now>>) \o Chunks(later)
      BY DEF DueBatches
    <3>3. Chunks(later) \in Seq(SUBSET Runs) /\ now \in SUBSET Runs
      BY ChunksTyped DEF RunIds
    <3> HIDE DEF now, later
    <3>4. DueBatches = <<now>> \o Chunks(later)
      BY <3>1, <3>2
    <3>5. <<now>> \in Seq(SUBSET Runs) /\ Len(<<now>>) = 1 /\ <<now>>[1] = now
      BY <3>3
    <3>6. 1 \in DOMAIN DueBatches /\ DueBatches[1] = now
      BY <3>3, <3>4, <3>5, ConcatProperties
    <3>7. DueBatches # <<>>
      BY <3>6
    <3> QED
      BY <2>1, <3>1, <3>6, <3>7
  <2> QED
    BY <2>2, <2>3
<1>5. pc \in {"save", "seq"}
  OBVIOUS
<1> HIDE DEF due, c, pc
<1>6. x.pc = pc /\ x.run = r /\ x.todo = due
  BY <1>1 DEF Proc
<1>7. proc'[p] = x /\ \A q \in Procs \ {p} : proc'[q] = proc[q]
  BY <1>2 DEF Set, TInv, TypeOK
<1> HIDE DEF x
<1>8. PICK s : s = r /\ s = proc'[p].run
  BY <1>6, <1>7
<1>9. Reviewed(s) => Reviewed(s)'
  BY <1>2 DEF Reviewed, StubsOf
<1>10. ~crowded' /\ run'[s].flagged /\ s \notin unbatched' => UnderReview(proc[p])'
  <2> SUFFICES ASSUME ~crowded', run[s].flagged, s \notin unbatched PROVE UnderReview(proc[p])'
    BY <1>2
  <2>1. Reviewed(s)' => Reviewed(proc[p].run)'
    BY <1>8 DEF Reviewed, StubsOf
  <2> QED
    BY <1>4, <1>6, <1>7, <1>8, <1>9, <2>1 DEF UnderReview
<1>11. ~crowded' => Heeds(p)
  BY <1>1, <1>5, <1>6, <1>7, <1>8, <1>10 DEF Heeds, Seen, At
<1>12. ~crowded' => \A q \in Procs : ~Batching(q)
  BY <1>2
<1>13. ReviewedKept /\ (crowded => crowded')
  BY <1>2, ReviewedStays
<1> QED
  BY <1>2, <1>7, <1>11, <1>12, <1>13, FMoves

\* The worker goes on with its batches, or on from them.
LEMMA FGoesOn ==
  ASSUME TInv, FInv, RunsKept, NEW p \in Procs, BatchNumber(p) \/ SaveCadence(p) \/ Review(p) \/ Orphan(p)
  PROVE  FInv'
<1>1. proc[p] \in Proc /\ Shape(proc[p], RunIds, TaskIds)
  BY TypingFacts
<1>2. UNCHANGED <<batch, accepted, run, crowded, unbatched>>
  BY DEF BatchNumber, SaveCadence, Review, Worked, Orphan, board, reviews, ghosts, doubts
<1>3. ReviewedKept
  <2>1. CASE UNCHANGED stubs
    BY <2>1, ReviewedStays
  <2>2. PendingStubs(stubs) \subseteq stubs
    BY DEF PendingStubs
  <2> QED
    BY <2>1, <2>2, DecidedKeeps DEF BatchNumber, SaveCadence, Review, Orphan, reviews
<1>4. ASSUME NEW x, Set(p, x), x.run = proc[p].run,
             At(p, "stub") => x.pc = "stub" /\ x.todo = proc[p].todo,
             x.pc \in {"seq", "manifest", "stub"} => Batching(p) /\ x.todo = proc[p].todo /\ x.then = proc[p].then,
             x.pc \in {"save", "review", "evaluate"} => proc[p].pc \in {"save", "review", "evaluate"},
             x.pc # "accept"
      PROVE  FInv'
  <2>1. proc'[p] = x /\ \A q \in Procs \ {p} : proc'[q] = proc[q]
    BY <1>4 DEF Set, TInv, TypeOK
  <2>2. PICK s : s = proc[p].run /\ s = proc'[p].run
    BY <1>4, <2>1
  <2>3. Reviewed(s) => Reviewed(s)'
    BY <1>3 DEF ReviewedKept
  <2>4. Reviewed(proc[p].run) => Reviewed(proc[p].run)'
    BY <2>2, <2>3 DEF Reviewed, StubsOf
  <2>5. Batching(p)' => Batching(p)
    BY <1>4, <2>1 DEF Batching
  <2>6. ~crowded' => Seen(p)
    BY <1>2 DEF FInv
  <2>7. ~crowded' => Seen(p)'
    <3>1. Batching(p)' => x.pc \in {"seq", "manifest", "stub"}
      BY <2>1 DEF Batching
    <3>2. x.pc \in {"seq", "manifest", "stub"} => ~(proc[p].pc \in {"save", "review", "evaluate"})
      BY <1>4 DEF Batching
    <3> SUFFICES ASSUME ~crowded', run[s].flagged, s \notin unbatched,
                        x.pc \in {"save", "review", "evaluate"} \/ (x.pc \in {"seq", "manifest", "stub"} /\ x.then = "save")
                 PROVE  UnderReview(proc[p])'
      BY <1>2, <2>1, <2>2, <3>1 DEF Seen
    <3>3. UnderReview(proc[p])
      BY <1>2, <1>4, <2>2, <2>6 DEF Seen
    <3>4. CASE Reviewed(proc[p].run)
      BY <2>4, <3>4 DEF UnderReview
    <3>5. CASE ~Reviewed(proc[p].run)
      <4>1. proc[p].pc \in {"seq", "manifest", "stub"} /\ \E i \in DOMAIN proc[p].todo : proc[p].run \in proc[p].todo[i]
        BY <3>3, <3>5 DEF UnderReview
      <4>2. x.pc \in {"seq", "manifest", "stub"}
        BY <1>4, <4>1
      <4> QED
        BY <1>4, <2>1, <4>1, <4>2 DEF UnderReview
    <3> QED
      BY <3>4, <3>5
  <2>8. ~crowded' => Heeds(p)
    BY <1>4, <2>1, <2>7 DEF Heeds, At
  <2> QED
    BY <1>2, <1>3, <2>1, <2>5, <2>8, FMoves
<1>5. CASE BatchNumber(p)
  <2>1. PICK n : Set(p, [proc[p] EXCEPT !.pc = "manifest", !.seq = n])
    BY <1>5 DEF BatchNumber
  <2> DEFINE x == [proc[p] EXCEPT !.pc = "manifest", !.seq = n]
  <2>2. x.pc = "manifest" /\ x.todo = proc[p].todo /\ x.then = proc[p].then /\ x.run = proc[p].run /\ At(p, "seq")
    BY <1>1, <1>5 DEF BatchNumber, Proc
  <2> HIDE DEF x
  <2> QED
    BY <1>4, <2>1, <2>2 DEF x, Batching, At
<1>6. CASE SaveCadence(p)
  <2> DEFINE x == [proc[p] EXCEPT !.pc = "review", !.count = 0]
  <2>1. Set(p, x) /\ x.pc = "review" /\ x.run = proc[p].run /\ At(p, "save")
    BY <1>1, <1>6 DEF SaveCadence, Proc
  <2> HIDE DEF x
  <2> QED
    BY <1>4, <2>1 DEF At
<1>7. CASE Review(p)
  <2>1. CASE Set(p, Idle)
    <3>1. \A q \in Procs \ {p} : proc'[q] = proc[q]
      BY <2>1 DEF Set, TInv, TypeOK
    <3>2. proc'[p].pc = "idle" /\ At(p, "review")
      BY <1>7, <2>1 DEF Set, TInv, TypeOK, Idle, Review
    <3> QED
      BY <1>2, <1>3, <3>1, <3>2, FAside DEF At
  <2>2. CASE Goes(p, "evaluate")
    <3> DEFINE x == [proc[p] EXCEPT !.pc = "evaluate"]
    <3>1. Set(p, x) /\ x.pc = "evaluate" /\ x.run = proc[p].run /\ At(p, "review")
      BY <1>1, <1>7, <2>2 DEF Review, Goes, Proc
    <3> HIDE DEF x
    <3> QED
      BY <1>4, <3>1 DEF At
  <2> QED
    BY <1>7, <2>1, <2>2 DEF Review, Worked, Ends
<1>8. CASE Orphan(p)
  <2> DEFINE x == [proc[p] EXCEPT !.kind = "worker", !.steps = 0]
  <2>1. /\ Set(p, x) /\ x.pc = proc[p].pc /\ x.run = proc[p].run /\ x.todo = proc[p].todo /\ x.then = proc[p].then
        /\ proc[p].pc # "accept"
    BY <1>1, <1>8 DEF Orphan, Proc
  <2> HIDE DEF x
  <2> QED
    BY <1>4, <2>1 DEF Batching, At
<1> QED
  BY <1>5, <1>6, <1>7, <1>8

\* The review gate makes a batch of its own.
LEMMA FGate ==
  ASSUME TInv, FInv, RunsKept, NEW p \in Procs, EvaluateWaits(p) \/ \E r \in Runs : ReviewGate(p, r)
  PROVE  FInv'
<1>1. proc[p] \in Proc
  BY TypingFacts
<1>2. /\ UNCHANGED <<batch, accepted, stubs, unbatched>>
      /\ crowded' = (crowded \/ \E q \in Procs : Batching(q))
      /\ proc[p].pc \in {"evaluate", "idle"}
  BY DEF EvaluateWaits, ReviewGate, reviews, doubts, Begin, At
<1>3. ReviewedKept /\ (crowded => crowded')
  BY <1>2, ReviewedStays
<1> DEFINE Gone == \E x : Set(p, x) /\ (x.pc = "idle" \/ (x.pc = "seq" /\ x.then = "idle"))
<1>4. Gone
  <2>1. CASE Set(p, Idle)
    BY <2>1 DEF Idle
  <2>2. ASSUME NEW todo, Set(p, [proc[p] EXCEPT !.pc = "seq", !.then = "idle", !.todo = todo]) PROVE Gone
    <3> DEFINE x == [proc[p] EXCEPT !.pc = "seq", !.then = "idle", !.todo = todo]
    <3>1. Set(p, x) /\ x.pc = "seq" /\ x.then = "idle"
      BY <1>1, <2>2 DEF Proc
    <3> QED
      BY <3>1
  <2>3. ASSUME NEW todo, Set(p, [Idle EXCEPT !.pc = "seq", !.todo = todo]) PROVE Gone
    <3> DEFINE x == [Idle EXCEPT !.pc = "seq", !.todo = todo]
    <3>1. Set(p, x) /\ x.pc = "seq" /\ x.then = "idle"
      BY <2>3 DEF Idle
    <3> QED
      BY <3>1
  <2> QED
    BY <2>1, <2>2, <2>3 DEF EvaluateWaits, ReviewGate, Ends
<1>5. PICK x : Set(p, x) /\ (x.pc = "idle" \/ (x.pc = "seq" /\ x.then = "idle"))
  BY <1>4
<1>6. proc'[p] = x /\ \A q \in Procs \ {p} : proc'[q] = proc[q]
  BY <1>5 DEF Set, TInv, TypeOK
<1>7. Heeds(p)
  BY <1>2, <1>5, <1>6 DEF Heeds, Seen, Batching, At
<1> QED
  BY <1>2, <1>3, <1>6, <1>7, FMoves

\* A run without a review that the loop means to accept is not flagged.
LEMMA FUnreviewed == ASSUME TInv, FInv, RunsKept, NEW p \in Procs, EvaluateUnreviewed(p) PROVE FInv'
<1>1. proc[p] \in Proc /\ Shape(proc[p], RunIds, TaskIds)
  BY TypingFacts
<1> DEFINE x == [proc[p] EXCEPT !.pc = "accept", !.how = "unreviewed"]
<1>2. Set(p, x) /\ x.pc = "accept" /\ x.run = proc[p].run /\ At(p, "evaluate") /\ ~Reviewed(proc[p].run)
  BY <1>1 DEF EvaluateUnreviewed, Proc, Reviewed
<1>3. UNCHANGED <<batch, accepted, stubs, run, crowded, unbatched>>
  BY DEF EvaluateUnreviewed, reviews, board, ghosts, doubts
<1> HIDE DEF x
<1>4. proc'[p] = x /\ \A q \in Procs \ {p} : proc'[q] = proc[q]
  BY <1>2 DEF Set, TInv, TypeOK
<1>5. ~crowded /\ proc[p].run \notin unbatched => ~run[proc[p].run].flagged
  BY <1>2 DEF FInv, Seen, UnderReview, At
<1>6. ~crowded' => Heeds(p) /\ ~Batching(p)'
  BY <1>2, <1>3, <1>4, <1>5 DEF Heeds, Seen, Batching, At
<1> QED
  BY <1>3, <1>4, <1>6, FMoves, ReviewedStays

LEMMA FAccept == ASSUME TInv, FInv, RunsKept, NEW p \in Procs, Accept(p) PROVE FInv'
<1>1. UNCHANGED <<batch, stubs, run, crowded, unbatched>> /\ At(p, "accept")
  BY DEF Accept, reviews, doubts
<1>2. proc'[p] = NextTurn(proc[p]) /\ \A q \in Procs \ {p} : proc'[q] = proc[q]
  BY DEF Accept, Set, TInv, TypeOK
<1>3. proc'[p].pc \in {"look", "idle"}
  BY <1>2 DEF NextTurn, Idle
<1>4. Heeds(p) /\ ~Batching(p)'
  BY <1>1, <1>3 DEF Heeds, Seen, Batching, At
<1>5. ~crowded' => \A q, s \in Procs : Batching(q)' /\ Batching(s)' => q = s
  BY <1>1, <1>2, <1>4 DEF FInv, Batching
<1>6. PICK s, how : s = proc[p].run /\ how = proc[p].how
  OBVIOUS
<1>7. accepted' = accepted \cup {[run |-> s, how |-> how]}
  BY <1>6 DEF Accept
<1>8. ~crowded /\ how = "unreviewed" /\ s \notin unbatched => ~run[s].flagged
  BY <1>1, <1>6 DEF FInv
<1>9. ASSUME ~crowded', NEW a \in accepted', a \notin accepted, run'[a.run].flagged, a.run \notin unbatched'
      PROVE  a.how # "unreviewed"
  <2>1. a.run = s /\ a.how = how
    BY <1>7, <1>9
  <2> QED
    BY <1>1, <1>8, <1>9, <2>1
<1> QED
  BY <1>1, <1>2, <1>4, <1>5, <1>9, FKept, ReviewedStays

\* The runs of a manifest are those that will get their stubs next.
LEMMA FManifest == ASSUME TInv, FInv, RunsKept, NEW p \in Procs, Manifest(p) PROVE FInv'
<1>1. proc[p] \in Proc /\ Shape(proc[p], RunIds, TaskIds) /\ At(p, "manifest")
  BY TypingFacts DEF Manifest
<1> SUFFICES ASSUME ~crowded' PROVE FInv'
  BY DEF FInv
<1>2. ~crowded /\ UNCHANGED <<stubs, accepted, run, unbatched>>
  BY DEF Manifest, ghosts, doubts, board
<1> DEFINE x == [proc[p] EXCEPT !.pc = "stub"]
<1>3. Set(p, x) /\ x.pc = "stub" /\ x.todo = proc[p].todo /\ x.then = proc[p].then /\ x.run = proc[p].run
  BY <1>1 DEF Manifest, Goes, Proc
<1> HIDE DEF x
<1>4. proc'[p] = x /\ \A q \in Procs \ {p} : proc'[q] = proc[q]
  BY <1>3 DEF Set, TInv, TypeOK
<1>5. batch' = [batch EXCEPT ![proc[p].seq] = Head(proc[p].todo)] /\ batch \in [Batches -> SUBSET Runs]
  BY TypingFacts DEF Manifest, OtherTyped, doubts
<1>6. ASSUME NEW b \in Batches, NEW r \in batch'[b]
      PROVE  Reviewed(r)' \/ r \in unbatched' \/ \E q \in Procs : At(q, "stub")' /\ r \in Head(proc'[q].todo)
  <2>1. CASE b = proc[p].seq
    <3>1. r \in Head(proc'[p].todo) /\ At(p, "stub")'
      BY <1>3, <1>4, <1>5, <1>6, <2>1 DEF At
    <3> QED
      BY <3>1
  <2>2. CASE b # proc[p].seq
    <3>1. r \in batch[b]
      BY <1>5, <1>6, <2>2
    <3>2. CASE Reviewed(r)
      BY <1>2, <3>2 DEF Reviewed, StubsOf
    <3>3. CASE ~Reviewed(r) /\ r \notin unbatched
      <4>1. PICK q \in Procs : At(q, "stub") /\ r \in Head(proc[q].todo)
        BY <1>2, <3>1, <3>3 DEF FInv
      <4>2. q # p
        BY <1>1, <4>1 DEF At
      <4> QED
        BY <1>4, <4>1, <4>2 DEF At
    <3> QED
      BY <1>2, <3>2, <3>3
  <2> QED
    BY <2>1, <2>2
<1>7. Seen(p)'
  <2>1. PICK s, y : s = proc[p].run /\ y = proc[p].todo
    OBVIOUS
  <2>2. proc'[p].run = s /\ proc'[p].todo = y /\ proc'[p].pc = "stub" /\ proc'[p].then = proc[p].then
    BY <1>3, <1>4, <2>1
  <2>3. proc[p].then = "save" /\ run[s].flagged /\ s \notin unbatched => Reviewed(s) \/ \E i \in DOMAIN y : s \in y[i]
    BY <1>1, <1>2, <2>1 DEF FInv, Seen, Batching, At, UnderReview
  <2>4. Reviewed(s) => Reviewed(proc[p].run)'
    BY <1>2, <2>2 DEF Reviewed, StubsOf
  <2> QED
    BY <1>2, <2>2, <2>3, <2>4 DEF Seen, UnderReview
<1>8. ASSUME NEW q \in Procs \ {p} PROVE Seen(q)' /\ (At(q, "accept")' /\ proc'[q].how = "unreviewed" /\ proc'[q].run \notin unbatched' => ~run'[proc'[q].run].flagged)
  <2>1. Seen(q) /\ (At(q, "accept") /\ proc[q].how = "unreviewed" /\ proc[q].run \notin unbatched => ~run[proc[q].run].flagged)
    BY <1>2 DEF FInv
  <2> QED
    BY <1>2, <1>4, <2>1 DEF Seen, At, Batching, UnderReview, Reviewed, StubsOf
<1>9. ~At(p, "accept")'
  BY <1>3, <1>4 DEF At
<1>10. \A q, s \in Procs : Batching(q)' /\ Batching(s)' => q = s
  BY <1>1, <1>2, <1>4 DEF FInv, Batching, At
<1>11. \A a \in accepted' : run'[a.run].flagged /\ a.run \notin unbatched' => a.how # "unreviewed"
  BY <1>2 DEF FInv
<1> QED
  BY <1>6, <1>7, <1>8, <1>9, <1>10, <1>11 DEF FInv

\* The runs of a batch get their stubs; those of the next batches are still to come.
LEMMA FStubs == ASSUME TInv, FInv, RunsKept, NEW p \in Procs, DecisionStubs(p) PROVE FInv'
<1>1. proc[p] \in Proc /\ Shape(proc[p], RunIds, TaskIds) /\ At(p, "stub")
  BY TypingFacts DEF DecisionStubs
<1> SUFFICES ASSUME ~crowded' PROVE FInv'
  BY DEF FInv
<1>2. ~crowded /\ UNCHANGED <<batch, accepted, run, unbatched>>
  BY DEF DecisionStubs, ghosts, doubts, board
<1>3. proc'[p] = AfterStubs(proc[p]) /\ \A q \in Procs \ {p} : proc'[q] = proc[q]
  BY DEF DecisionStubs, Set, TInv, TypeOK
<1>4. ReviewedKept /\ \A r \in Head(proc[p].todo) : Reviewed(r)'
  BY StubbedKeeps DEF DecisionStubs
<1>5. PICK y, s : y = proc[p].todo /\ s = proc[p].run
  OBVIOUS
<1>6. y \in Seq(SUBSET Runs) /\ y # <<>>
  BY <1>1, <1>5 DEF At, Shape, Proc
<1>7. /\ Len(y) > 1 => proc'[p].pc = "seq" /\ proc'[p].todo = Tail(y) /\ proc'[p].run = s /\ proc'[p].then = proc[p].then
      /\ ~(Len(y) > 1) /\ proc[p].then = "idle" => proc'[p].pc = "idle"
      /\ ~(Len(y) > 1) /\ proc[p].then = "save" => proc'[p].pc = "save" /\ proc'[p].run = s
  BY <1>1, <1>3, <1>5 DEF AfterStubs, Proc, Idle
<1>8. proc[p].then \in {"idle", "save"}
  BY <1>1 DEF At, Shape
<1>9. \A q \in Procs \ {p} : ~Batching(q) /\ ~Batching(q)'
  BY <1>1, <1>2, <1>3 DEF FInv, Batching, At
<1>10. ASSUME NEW b \in Batches, NEW r \in batch'[b] PROVE Reviewed(r)' \/ r \in unbatched'
  <2>1. Reviewed(r) \/ r \in unbatched \/ \E q \in Procs : At(q, "stub") /\ r \in Head(proc[q].todo)
    BY <1>2, <1>10 DEF FInv
  <2>2. \A q \in Procs : At(q, "stub") => q = p
    BY <1>9 DEF Batching, At
  <2> QED
    BY <1>2, <1>4, <2>1, <2>2 DEF ReviewedKept
<1>11. Seen(p)'
  <2> SUFFICES ASSUME run[s].flagged, s \notin unbatched, proc[p].then = "save", proc'[p].run = s PROVE UnderReview(proc[p])'
    BY <1>2, <1>7, <1>8 DEF Seen, Batching
  <2>1. Reviewed(s) \/ \E i \in DOMAIN y : s \in y[i]
    BY <1>1, <1>2, <1>5 DEF FInv, Seen, Batching, At, UnderReview
  <2>2. CASE Reviewed(s)'
    BY <2>2 DEF UnderReview, Reviewed, StubsOf
  <2>3. CASE ~Reviewed(s)'
    <3>1. PICK i \in DOMAIN y : s \in y[i]
      BY <1>4, <2>1, <2>3 DEF ReviewedKept
    <3>2. Head(y) = y[1] /\ i \in 1 .. Len(y) /\ Len(y) \in Nat
      BY <1>6
    <3>3. i # 1
      BY <1>4, <1>5, <2>3, <3>1, <3>2
    <3>4. Len(y) > 1 /\ i - 1 \in 1 .. Len(y) - 1
      BY <3>2, <3>3
    <3>5. Len(Tail(y)) = Len(y) - 1 /\ \A j \in 1 .. Len(y) - 1 : Tail(y)[j] = y[j + 1]
      BY <1>6, HeadTailProperties
    <3>6. Tail(y) \in Seq(SUBSET Runs)
      BY <1>6, HeadTailProperties
    <3>7. i - 1 \in DOMAIN Tail(y) /\ Tail(y)[i - 1] = y[i]
      <4>1. DOMAIN Tail(y) = 1 .. Len(Tail(y))
        BY <3>6
      <4> QED
        BY <3>2, <3>4, <3>5, <4>1
    <3> QED
      BY <1>7, <3>1, <3>4, <3>7 DEF UnderReview
  <2> QED
    BY <2>2, <2>3
<1>12. ASSUME NEW q \in Procs \ {p} PROVE Seen(q)' /\ (At(q, "accept")' /\ proc'[q].how = "unreviewed" /\ proc'[q].run \notin unbatched' => ~run'[proc'[q].run].flagged)
  <2>1. Seen(q) /\ (At(q, "accept") /\ proc[q].how = "unreviewed" /\ proc[q].run \notin unbatched => ~run[proc[q].run].flagged)
    BY <1>2 DEF FInv
  <2>2. UnderReview(proc[q]) /\ ~Batching(q) => Reviewed(proc[q].run)
    BY DEF UnderReview, Batching
  <2>3. PICK r : r = proc[q].run /\ r = proc'[q].run
    BY <1>3
  <2>4. Reviewed(proc[q].run) => Reviewed(proc[q].run)'
    BY <1>4, <2>3 DEF ReviewedKept, Reviewed, StubsOf
  <2> QED
    BY <1>2, <1>3, <1>9, <2>1, <2>2, <2>4 DEF Seen, At, Batching, UnderReview
<1>13. ~At(p, "accept")'
  BY <1>7, <1>8 DEF At
<1>14. \A q, r \in Procs : Batching(q)' /\ Batching(r)' => q = r
  BY <1>9
<1>15. \A a \in accepted' : run'[a.run].flagged /\ a.run \notin unbatched' => a.how # "unreviewed"
  BY <1>2 DEF FInv
<1> QED
  BY <1>10, <1>11, <1>12, <1>13, <1>14, <1>15 DEF FInv

\* The worker goes on without a batch.
LEMMA FSkips == ASSUME TInv, FInv, RunsKept, NEW p \in Procs, SkipReview(p) \/ ReviewFails(p) PROVE FInv'
<1>1. proc[p] \in Proc /\ Shape(proc[p], RunIds, TaskIds)
  BY TypingFacts
<1>2. UNCHANGED <<batch, accepted, run, crowded>> /\ unbatched \subseteq unbatched'
  BY DEF SkipReview, ReviewFails, board, reviews
<1>3. PICK y, s : y = proc[p].todo /\ s = proc[p].run
  OBVIOUS
<1>4. ReviewedKept /\ \A r \in Unmade(p) : Reviewed(r)' \/ r \in unbatched'
  <2>1. CASE SkipReview(p)
    BY <2>1, ReviewedStays DEF SkipReview, reviews, Unmade
  <2>2. CASE ReviewFails(p)
    <3>1. PICK R : stubs' = WithStubs(proc[p].seq, R) /\ unbatched' = unbatched \cup (Unmade(p) \ R)
      BY <2>2 DEF ReviewFails
    <3> QED
      BY <3>1, StubbedKeeps
  <2> QED
    BY <2>1, <2>2
<1>5. At(p, "stub") => \A r \in Head(proc[p].todo) : Reviewed(r)' \/ r \in unbatched'
  <2> SUFFICES ASSUME At(p, "stub"), NEW r \in Head(y) PROVE r \in Unmade(p)
    BY <1>3, <1>4
  <2>1. 1 \in DOMAIN y /\ Head(y) = y[1]
    BY <1>1, <1>3 DEF At, Shape, Proc
  <2> QED
    BY <1>3, <2>1 DEF Unmade, Batching, At
<1>6. proc'[p].pc \in {"idle", "review", "evaluate"} /\ (proc'[p].pc # "idle" => proc'[p].run = s)
  <2> DEFINE x == [proc[p] EXCEPT !.pc = "evaluate"]
             z == [proc[p] EXCEPT !.pc = "review", !.then = "idle", !.todo = <<>>, !.seq = 0, !.count = 0]
  <2>1. x.pc = "evaluate" /\ x.run = s /\ z.pc = "review" /\ z.run = s /\ Idle.pc = "idle"
    BY <1>1, <1>3 DEF Proc, Idle
  <2>2. Set(p, x) \/ Set(p, z) \/ Set(p, Idle)
    BY DEF SkipReview, ReviewFails, Worked, Goes, Ends
  <2> HIDE DEF x, z
  <2> QED
    BY <2>1, <2>2 DEF Set, TInv, TypeOK
<1>7. \A q \in Procs \ {p} : proc'[q] = proc[q]
  BY DEF SkipReview, ReviewFails, Worked, Goes, Ends, Set, TInv, TypeOK
<1>8. ~crowded' => Seen(p)'
  <2> SUFFICES ASSUME ~crowded', run[s].flagged, s \notin unbatched', proc'[p].pc # "idle" PROVE Reviewed(s)'
    <3>1. Reviewed(s)' /\ proc'[p].run = s => UnderReview(proc[p])'
      BY DEF UnderReview, Reviewed, StubsOf
    <3> QED
      BY <1>2, <1>6, <3>1 DEF Seen, Batching
  <2>2. CASE s \in Unmade(p)
    BY <1>4, <2>2
  <2>3. CASE s \notin Unmade(p)
    <3>1. At(p, "save") \/ (Batching(p) /\ proc[p].then = "save")
      <4>1. ~At(p, "trigger")
        BY <1>3, <2>3 DEF Unmade
      <4>2. ReviewFails(p) /\ ~(Batching(p) /\ proc[p].then = "idle")
        <5>1. CASE Set(p, Idle)
          BY <5>1 DEF Set, TInv, TypeOK, Idle
        <5> QED
          BY <4>1, <5>1 DEF SkipReview, ReviewFails, Ends
      <4> QED
        BY <1>1, <4>1, <4>2 DEF ReviewFails, Batching, At, Shape
    <3>2. UnderReview(proc[p])
      BY <1>2, <1>3, <3>1 DEF FInv, Seen, At
    <3>3. Reviewed(s)
      BY <1>3, <2>3, <3>2 DEF UnderReview, Unmade, Batching, At
    <3> QED
      BY <1>4, <3>3 DEF ReviewedKept
  <2> QED
    BY <2>2, <2>3
<1>9. ~crowded' => Heeds(p) /\ ~Batching(p)'
  BY <1>5, <1>6, <1>8 DEF Heeds, Batching, At
<1> QED
  BY <1>2, <1>4, <1>7, <1>9, FMoves

LEMMA FStays == ASSUME TInv, FInv, RunsKept, ReviewedKept, UNCHANGED <<batch, accepted, crowded, unbatched, proc>>
             PROVE  FInv'
<1>1. ~crowded' => \A p, q \in Procs : Batching(p)' /\ Batching(q)' => p = q
  BY DEF FInv, Batching
<1> QED
  BY <1>1, FKept

LEMMA FPeople == ASSUME TInv, FInv, RunsKept, People PROVE FInv'
<1>1. CASE Decide
  <2>1. PICK s, v : s \in stubs /\ stubs' = Decided({s}, v)
    BY <1>1 DEF Decide, PendingStubs
  <2>2. ReviewedKept
    BY <2>1, DecidedKeeps
  <2> QED
    BY <1>1, <2>2, FStays DEF Decide, ghosts, doubts
<1>2. CASE ~Decide
  <2>1. UNCHANGED <<batch, stubs, accepted, crowded, unbatched, proc>>
    BY <1>2 DEF People, MarkDone, AskHuman, Retry, AcceptAsked, Admit, Block, Dismiss, Release, Reject, Reclaim,
       reviews, ghosts, doubts
  <2> QED
    BY <2>1, ReviewedStays, FStays
<1> QED
  BY <1>1, <1>2

LEMMA FlaggedSeenStep == ASSUME TInv, RInv, FInv, [Next]_vars PROVE FInv'
<1>1. RunsKept
  BY RunsKeptStep
<1>2. ASSUME NEW p \in Procs, Step(p) \/ Command(p) \/ Crash(p) \/ Orphan(p) PROVE FInv'
  BY <1>1, <1>2, FSteps, FTrigger, FGoesOn, FGate, FUnreviewed, FAccept, FManifest, FStubs, FSkips DEF Step, Command
<1>3. CASE UNCHANGED vars
  BY <1>1, <1>3, ReviewedStays, FStays DEF vars, board, reviews, ghosts, doubts
<1> QED
  BY <1>1, <1>2, <1>3, FPeople DEF Next

LEMMA FlaggedSeenInit == Init => FInv
<1> SUFFICES ASSUME Init PROVE FInv
  OBVIOUS
<1>1. accepted = {} /\ \A b \in Batches : batch[b] = {}
  BY DEF Init, BoardInit
<1>2. \A p \in Procs : proc[p].pc = "idle"
  BY DEF Init, Idle
<1> QED
  BY <1>1, <1>2 DEF FInv, Seen, Batching, At

\* A flagged run that the loop accepts has been decided upon by a reviewer, unless a
\* worker made no batch for it or its batch was left half written, as long as the
\* batches are written one at a time; whoever executes, fails, is killed and decides in
\* between (maybe_trigger_review, generate_batches, evaluate_run_decision).
THEOREM FlaggedAreReviewed == Spec => []FlaggedReviewed
<1>1. Spec => []FInv
  BY Typed, ExecutedOnce, FlaggedSeenInit, FlaggedSeenStep, PTL DEF Spec
<1>2. FInv => FlaggedReviewed
  BY DEF FInv, FlaggedReviewed
<1> QED
  BY <1>1, <1>2, PTL

------------------------------------------------------------------------------
(* No task is stranded. *)

LEMMA MindsInHand == ASSUME NEW p, NEW t \in TaskIds, Minds(p, t) PROVE t \in InHand(p)
BY DEF Minds, InHand, Batching

LEMMA SKept ==
  ASSUME TInv, SInv, RunsKept,
         \A t \in TaskIds' : Tracked(t)' => Tracked(t) \/ Cared(t)',
         \A r \in RunIds : run'[r].at \in Live => run[r].at \in Live \/ run[r].task \in forced',
         \A q \in Procs, t \in TaskIds : Minds(q, t) /\ Tracked(t)' => proc'[q] = proc[q] \/ Cared(t)',
         \A r \in RunIds, t \in TaskIds : run[r].task = t /\ Proceeding(r) /\ Tracked(t)' => Proceeding(r)' \/ Cared(t)',
         \A a \in approvals : \A t \in TaskIds : run[a.run].task = t /\ Tracked(t)' => a \in approvals' \/ Cared(t)'
  PROVE  SInv'
<1> SUFFICES ASSUME NEW t \in TaskIds', Tracked(t)', ~Cared(t)' PROVE FALSE
  BY DEF SInv
<1>1. Tracked(t) /\ t \in TaskIds /\ Cared(t)
  BY DEF Tracked, SInv
<1>2. CASE \E p \in Procs : Minds(p, t)
  <2>1. PICK p \in Procs : Minds(p, t)
    BY <1>2
  <2>2. proc'[p] = proc[p]
    BY <1>1, <2>1
  <2>3. PICK x : x = proc[p] /\ x = proc'[p]
    BY <2>2
  <2>4. x.run \in RunIds => /\ x.run \in RunIds' /\ run'[x.run].task = run[x.run].task
                            /\ run[x.run].task = t /\ run[x.run].at \notin Live => run'[x.run].at \notin Live
    BY DEF RunsKept, Tracked
  <2>5. Minds(p, t)'
    BY <2>1, <2>3, <2>4 DEF Minds, Batching
  <2> QED
    BY <2>5 DEF Cared
<1>3. CASE \E r \in RunsOf(t) : Proceeding(r)
  <2>1. PICK r \in RunIds : run[r].task = t /\ Proceeding(r)
    BY <1>3 DEF RunsOf
  <2>2. Proceeding(r)' /\ r \in RunIds' /\ run'[r].task = t
    BY <1>1, <2>1 DEF RunsKept
  <2> QED
    BY <2>2 DEF Cared, RunsOf
<1>4. CASE \E a \in approvals : run[a.run].task = t
  <2>1. PICK a \in approvals : run[a.run].task = t
    BY <1>4
  <2>2. a \in approvals' /\ a.run \in RunIds
    BY <1>1, <2>1, TypingFacts DEF BoardTyped, Referring
  <2>3. run'[a.run].task = t
    BY <2>1, <2>2 DEF RunsKept
  <2> QED
    BY <2>2, <2>3 DEF Cared
<1> QED
  BY <1>1, <1>2, <1>3, <1>4 DEF Cared

\* A process moves, and the board stays as it is.
LEMMA SMoves ==
  ASSUME TInv, SInv, RunsKept, UNCHANGED <<task, run>>,
         left \subseteq left', forced \subseteq forced', approvals \subseteq approvals',
         NEW p \in Procs, \A q \in Procs \ {p} : proc'[q] = proc[q],
         \A t \in TaskIds : Minds(p, t) /\ t \notin left' => Cared(t)',
         At(p, "execute") => (At(p, "execute")' /\ proc'[p].run = proc[p].run) \/ run[proc[p].run].task \in left'
  PROVE  SInv'
<1>1. \A t \in TaskIds' : Tracked(t)' => Tracked(t) /\ t \notin left'
  BY DEF Tracked, TaskIds
<1>2. \A r \in RunIds : run'[r].at \in Live => run[r].at \in Live
  OBVIOUS
<1>3. \A q \in Procs, t \in TaskIds : Minds(q, t) /\ Tracked(t)' => proc'[q] = proc[q] \/ Cared(t)'
  BY <1>1 DEF TaskIds
<1>4. ASSUME NEW r \in RunIds, NEW t \in TaskIds, run[r].task = t, Proceeding(r), Tracked(t)' PROVE Proceeding(r)'
  <2>1. t \notin left'
    BY <1>1, <1>4 DEF TaskIds
  <2>2. CASE run[r].at = "running" /\ \E q \in Procs : At(q, "execute") /\ proc[q].run = r
    <3>1. PICK q \in Procs : At(q, "execute") /\ proc[q].run = r
      BY <2>2
    <3>2. At(q, "execute")' /\ proc'[q].run = r
      BY <1>4, <2>1, <3>1 DEF At
    <3> QED
      BY <2>2, <3>2 DEF Proceeding
  <2> QED
    BY <1>4, <2>2 DEF Proceeding
<1> QED
  BY <1>1, <1>2, <1>3, <1>4, SKept

\* Whoever holds none keeps none in mind.
LEMMA SIdle ==
  ASSUME TInv, SInv, RunsKept, NEW p \in Procs,
         \/ Orchestrate(p) \/ Worker(p) \/ Look(p) \/ EndsEarly(p) \/ NothingToDo(p)
         \/ (\E t \in Tasks : Delegate(p, t) \/ Enqueue(p, t)) \/ (\E r \in Runs : ReviewGate(p, r))
  PROVE  SInv'
<1>1. proc[p].pc \in {"idle", "look", "claim"}
  BY DEF Orchestrate, Worker, Look, EndsEarly, NothingToDo, Delegate, Enqueue, ReviewGate, Begin, At
<1>2. UNCHANGED <<task, run, left, approvals>> /\ forced \subseteq forced'
  BY DEF Orchestrate, Worker, Look, EndsEarly, NothingToDo, Delegate, Enqueue, ReviewGate, board, ghosts, doubts
<1>3. \A q \in Procs \ {p} : proc'[q] = proc[q]
  <2>1. UNCHANGED proc \/ \E x : Set(p, x)
    BY DEF Orchestrate, Worker, Look, EndsEarly, NothingToDo, Delegate, Enqueue, ReviewGate, Ends, Goes
  <2> QED
    BY <2>1 DEF Set, TInv, TypeOK
<1>4. \A t \in TaskIds : ~Minds(p, t)
  BY <1>1 DEF Minds, Batching
<1> QED
  BY <1>1, <1>2, <1>3, <1>4, SMoves DEF At

\* What it held is left to a person.
LEMMA SLeaves ==
  ASSUME TInv, SInv, RunsKept, NEW p \in Procs,
         Crash(p) \/ Orphan(p) \/ EvaluateWaits(p) \/ ((Review(p) \/ SkipReview(p)) /\ proc[p].kind # "loop")
  PROVE  SInv'
<1>1. UNCHANGED <<task, run, forced, approvals>> /\ left \subseteq left'
  BY DEF Crash, Orphan, EvaluateWaits, Review, SkipReview, Worked, board
<1>2. \A q \in Procs \ {p} : proc'[q] = proc[q]
  BY DEF Crash, Orphan, EvaluateWaits, Review, SkipReview, Worked, Goes, Ends, Set, TInv, TypeOK
<1>3. ASSUME NEW t \in TaskIds, Minds(p, t) PROVE t \in left'
  <2>1. t \in InHand(p)
    BY <1>3, MindsInHand
  <2>2. (Review(p) \/ SkipReview(p)) /\ proc[p].kind # "loop" => run[proc[p].run].at \notin Live
    BY <1>3 DEF Review, SkipReview, Minds, At
  <2> QED
    BY <2>1, <2>2 DEF Crash, Orphan, EvaluateWaits, Review, SkipReview, Worked
<1>4. ASSUME At(p, "execute") PROVE run[proc[p].run].task \in left'
  <2>1. proc[p].run \in RunIds /\ run[proc[p].run].task \in TaskIds
    BY <1>4, TypingFacts DEF At, Shape
  <2>2. run[proc[p].run].task \in InHand(p)
    BY <1>4, <2>1 DEF InHand, At
  <2>3. ~Review(p) /\ ~SkipReview(p) /\ ~EvaluateWaits(p)
    BY <1>4 DEF Review, SkipReview, EvaluateWaits, At
  <2> QED
    BY <2>2, <2>3 DEF Crash, Orphan
<1> QED
  BY <1>1, <1>2, <1>3, <1>4, SMoves

\* A request about its run waits for a person.
LEMMA SAsks ==
  ASSUME TInv, SInv, RunsKept, NEW p \in Procs, At(p, "evaluate"), NEW action, Asks(p, action),
         UNCHANGED <<task, run, forced>>
  PROVE  SInv'
<1>1. UNCHANGED left /\ approvals' = approvals \cup {[run |-> proc[p].run, action |-> action]}
  BY DEF Asks
<1>2. \A q \in Procs \ {p} : proc'[q] = proc[q]
  BY DEF Asks, Ends, Set, TInv, TypeOK
<1>3. ASSUME NEW t \in TaskIds, Minds(p, t) PROVE Cared(t)'
  <2>1. run[proc[p].run].task = t
    BY <1>3 DEF Minds, At
  <2>2. PICK a \in approvals' : a.run = proc[p].run
    <3>1. [run |-> proc[p].run, action |-> action] \in approvals'
      BY <1>1
    <3> QED
      BY <3>1
  <2>3. run'[a.run].task = t
    BY <2>1, <2>2
  <2> QED
    BY <2>2, <2>3 DEF Cared
<1>4. ~At(p, "execute")
  BY DEF At
<1> QED
  BY <1>1, <1>2, <1>3, <1>4, SMoves

Mindful(x) ==
  \/ x.pc \in {"trigger", "save", "review", "evaluate", "accept", "number", "write", "queue"}
  \/ x.pc \in {"seq", "manifest", "stub"} /\ x.then = "save"

LEMMA SGoesOn ==
  ASSUME TInv, SInv, RunsKept, NEW p \in Procs, NEW x, Set(p, x), x.run = proc[p].run, x.kind = proc[p].kind,
         proc[p].pc \notin {"build", "queue", "execute"}, Mindful(proc[p]) => Mindful(x),
         UNCHANGED <<task, run, forced, left, approvals>>
  PROVE  SInv'
<1>1. proc'[p] = x /\ \A q \in Procs \ {p} : proc'[q] = proc[q]
  BY DEF Set, TInv, TypeOK
<1>2. ASSUME NEW t \in TaskIds, Minds(p, t) PROVE Cared(t)'
  <2>1. RunIds' = RunIds
    BY DEF RunIds
  <2>2. Mindful(proc[p])
    BY <1>2 DEF Minds, Mindful, Batching
  <2>3. Minds(p, t)'
    BY <1>1, <1>2, <2>1, <2>2 DEF Minds, Mindful, Batching
  <2> QED
    BY <2>3 DEF Cared
<1>3. ~At(p, "execute")
  BY DEF At
<1> QED
  BY <1>1, <1>2, <1>3, SMoves

LEMMA SGoes ==
  ASSUME TInv, SInv, RunsKept, NEW p \in Procs,
         \/ Trigger(p) \/ BatchNumber(p) \/ Manifest(p) \/ DecisionStubs(p) \/ SaveCadence(p)
         \/ ((Review(p) \/ SkipReview(p)) /\ proc[p].kind = "loop") \/ ReviewFails(p)
         \/ EvaluateFailed(p) \/ EvaluateReviewed(p) \/ EvaluateUnreviewed(p) \/ TaskNumber(p)
  PROVE  SInv'
<1>1. proc[p] \in Proc /\ Shape(proc[p], RunIds, TaskIds)
  BY TypingFacts
<1>2. UNCHANGED <<task, run, forced>>
  BY DEF Trigger, BatchNumber, Manifest, DecisionStubs, SaveCadence, Review, SkipReview, ReviewFails,
     EvaluateFailed, EvaluateReviewed, EvaluateUnreviewed, TaskNumber, board, ghosts, doubts
<1>3. CASE EvaluateFailed(p)
  BY <1>2, <1>3, SAsks DEF EvaluateFailed
<1> DEFINE Carries(x) == /\ Set(p, x) /\ x.run = proc[p].run /\ x.kind = proc[p].kind
                       /\ proc[p].pc \notin {"build", "queue", "execute"} /\ (Mindful(proc[p]) => Mindful(x))
                       /\ UNCHANGED <<left, approvals>>
<1>4. ASSUME NEW x, Carries(x) PROVE SInv'
  BY <1>2, <1>4, SGoesOn
<1> HIDE DEF Carries
<1>5. CASE Trigger(p)
  <2>1. PICK pc \in {"save", "seq"} :
          \E due, c : Set(p, [proc[p] EXCEPT !.pc = pc, !.then = "save", !.todo = due, !.count = c])
    BY <1>5 DEF Trigger
  <2>1a. PICK due, c : Set(p, [proc[p] EXCEPT !.pc = pc, !.then = "save", !.todo = due, !.count = c])
    BY <2>1
  <2> DEFINE x == [proc[p] EXCEPT !.pc = pc, !.then = "save", !.todo = due, !.count = c]
  <2>2. x.pc = pc /\ x.then = "save" /\ x.run = proc[p].run /\ x.kind = proc[p].kind /\ Set(p, x)
    BY <1>1, <2>1a DEF Proc
  <2> HIDE DEF x
  <2>3. Carries(x)
    BY <1>5, <2>2 DEF Carries, Mindful, Trigger, At, reviews
  <2> QED
    BY <1>4, <2>3
<1>6. CASE BatchNumber(p)
  <2>1. PICK n : Set(p, [proc[p] EXCEPT !.pc = "manifest", !.seq = n])
    BY <1>6 DEF BatchNumber
  <2> DEFINE x == [proc[p] EXCEPT !.pc = "manifest", !.seq = n]
  <2>2. x.pc = "manifest" /\ x.then = proc[p].then /\ x.run = proc[p].run /\ x.kind = proc[p].kind /\ Set(p, x)
    BY <1>1, <2>1 DEF Proc
  <2> HIDE DEF x
  <2>3. Carries(x)
    BY <1>6, <2>2 DEF Carries, Mindful, BatchNumber, At, ghosts, doubts
  <2> QED
    BY <1>4, <2>3
<1>7. CASE Manifest(p)
  <2> DEFINE x == [proc[p] EXCEPT !.pc = "stub"]
  <2>1. x.pc = "stub" /\ x.then = proc[p].then /\ x.run = proc[p].run /\ x.kind = proc[p].kind /\ Set(p, x)
    BY <1>1, <1>7 DEF Proc, Manifest, Goes
  <2> HIDE DEF x
  <2>2. Carries(x)
    BY <1>7, <2>1 DEF Carries, Mindful, Manifest, At, ghosts, doubts
  <2> QED
    BY <1>4, <2>2
<1>8. CASE DecisionStubs(p)
  <2>1. UNCHANGED <<left, approvals>> /\ At(p, "stub") /\ Set(p, AfterStubs(proc[p]))
    BY <1>8 DEF DecisionStubs, ghosts, doubts
  <2>2. CASE AfterStubs(proc[p]) = Idle /\ proc[p].then = "idle"
    <3>1. \A q \in Procs \ {p} : proc'[q] = proc[q]
      BY <2>1 DEF Set, TInv, TypeOK
    <3>2. \A t : ~Minds(p, t)
      BY <2>1, <2>2 DEF Minds, At, Batching
    <3>3. ~At(p, "execute")
      BY <2>1 DEF At
    <3> QED
      BY <1>2, <2>1, <3>1, <3>2, <3>3, SMoves
  <2>3. CASE ~(AfterStubs(proc[p]) = Idle /\ proc[p].then = "idle")
    <3> DEFINE x == AfterStubs(proc[p])
    <3>1. \/ x.pc = "seq" /\ x.then = proc[p].then
          \/ proc[p].then = "save" /\ x.pc = "save"
      BY <1>1, <2>1, <2>3 DEF AfterStubs, Proc, Shape, At
    <3>2. x.run = proc[p].run /\ x.kind = proc[p].kind
      BY <1>1, <2>1, <2>3 DEF AfterStubs, Proc, Shape, At
    <3> HIDE DEF x
    <3>3. Carries(x)
      BY <2>1, <3>1, <3>2 DEF Carries, Mindful, At, x
    <3> QED
      BY <1>4, <3>3
  <2> QED
    BY <2>2, <2>3
<1>9. CASE SaveCadence(p)
  <2> DEFINE x == [proc[p] EXCEPT !.pc = "review", !.count = 0]
  <2>1. x.pc = "review" /\ x.run = proc[p].run /\ x.kind = proc[p].kind /\ Set(p, x)
    BY <1>1, <1>9 DEF Proc, SaveCadence
  <2> HIDE DEF x
  <2>2. Carries(x)
    BY <1>9, <2>1 DEF Carries, Mindful, SaveCadence, At, ghosts, doubts
  <2> QED
    BY <1>4, <2>2
<1>10. CASE (Review(p) \/ SkipReview(p)) /\ proc[p].kind = "loop"
  <2> DEFINE x == [proc[p] EXCEPT !.pc = "evaluate"]
  <2>1. x.pc = "evaluate" /\ x.run = proc[p].run /\ x.kind = proc[p].kind /\ Set(p, x)
    BY <1>1, <1>10 DEF Proc, Review, SkipReview, Worked, Goes
  <2> HIDE DEF x
  <2>2. Carries(x)
    BY <1>10, <2>1 DEF Carries, Mindful, Review, SkipReview, Worked, At
  <2> QED
    BY <1>4, <2>2
<1>11. ASSUME NEW how, Set(p, [proc[p] EXCEPT !.pc = "accept", !.how = how]), At(p, "evaluate"), UNCHANGED <<left, approvals>>
       PROVE  SInv'
  <2> DEFINE x == [proc[p] EXCEPT !.pc = "accept", !.how = how]
  <2>1. x.pc = "accept" /\ x.run = proc[p].run /\ x.kind = proc[p].kind /\ Set(p, x)
    BY <1>1, <1>11 DEF Proc
  <2> HIDE DEF x
  <2>2. Carries(x)
    BY <1>11, <2>1 DEF Carries, Mindful, At
  <2> QED
    BY <1>4, <2>2
<1>12. CASE EvaluateReviewed(p)
  <2>1. ASSUME NEW how, Set(p, [proc[p] EXCEPT !.pc = "number", !.then = "queue", !.how = how]), UNCHANGED <<left, approvals>>
        PROVE  SInv'
    <3> DEFINE x == [proc[p] EXCEPT !.pc = "number", !.then = "queue", !.how = how]
    <3>1. x.pc = "number" /\ x.run = proc[p].run /\ x.kind = proc[p].kind /\ Set(p, x)
      BY <1>1, <2>1 DEF Proc
    <3> HIDE DEF x
    <3>2. Carries(x)
      BY <1>12, <2>1, <3>1 DEF Carries, Mindful, At, EvaluateReviewed
    <3> QED
      BY <1>4, <3>2
  <2>1a. ASSUME NEW t, NEW how, Set(p, [proc[p] EXCEPT !.pc = "queue", !.task = t, !.how = how]),
                UNCHANGED <<left, approvals>>
         PROVE  SInv'
    <3> DEFINE x == [proc[p] EXCEPT !.pc = "queue", !.task = t, !.how = how]
    <3>1. x.pc = "queue" /\ x.run = proc[p].run /\ x.kind = proc[p].kind /\ Set(p, x)
      BY <1>1, <2>1a DEF Proc
    <3> HIDE DEF x
    <3>2. Carries(x)
      BY <1>12, <2>1a, <3>1 DEF Carries, Mindful, At, EvaluateReviewed
    <3> QED
      BY <1>4, <3>2
  <2>2. \/ \E action : Asks(p, action)
        \/ UNCHANGED <<left, approvals>> /\ \E how : Set(p, [proc[p] EXCEPT !.pc = "accept", !.how = how])
        \/ UNCHANGED <<left, approvals>> /\ \E how : Set(p, [proc[p] EXCEPT !.pc = "number", !.then = "queue", !.how = how])
        \/ UNCHANGED <<left, approvals>> /\ \E t, how : Set(p, [proc[p] EXCEPT !.pc = "queue", !.task = t, !.how = how])
    BY <1>12 DEF EvaluateReviewed
  <2>3. At(p, "evaluate")
    BY <1>12 DEF EvaluateReviewed
  <2> QED
    BY <1>2, <1>11, <2>1, <2>1a, <2>2, <2>3, SAsks
<1>13. CASE EvaluateUnreviewed(p)
  BY <1>11, <1>13 DEF EvaluateUnreviewed, ghosts, doubts
<1>14. CASE TaskNumber(p)
  <2>1. PICK n : Set(p, [proc[p] EXCEPT !.pc = "write", !.seq = n])
    BY <1>14 DEF TaskNumber
  <2> DEFINE x == [proc[p] EXCEPT !.pc = "write", !.seq = n]
  <2>2. x.pc = "write" /\ x.run = proc[p].run /\ x.kind = proc[p].kind /\ Set(p, x)
    BY <1>1, <2>1 DEF Proc
  <2> HIDE DEF x
  <2>3. Carries(x)
    BY <1>14, <2>2 DEF Carries, Mindful, TaskNumber, At, ghosts, doubts
  <2> QED
    BY <1>4, <2>3
<1>15. CASE ReviewFails(p)
  <2>1. UNCHANGED <<left, approvals>> /\ (Batching(p) \/ proc[p].pc \in {"trigger", "save"})
    BY <1>15 DEF ReviewFails
  <2>2. CASE Batching(p) /\ proc[p].then = "idle"
    <3>1. \A q \in Procs \ {p} : proc'[q] = proc[q]
      BY <1>15, <2>2 DEF ReviewFails, Ends, Set, TInv, TypeOK
    <3>2. (\A t : ~Minds(p, t)) /\ ~At(p, "execute")
      BY <2>2 DEF Minds, At, Batching
    <3> QED
      BY <1>2, <2>1, <3>1, <3>2, SMoves
  <2>3. CASE ~(Batching(p) /\ proc[p].then = "idle")
    <3> DEFINE x == [proc[p] EXCEPT !.pc = "review", !.then = "idle", !.todo = <<>>, !.seq = 0, !.count = 0]
    <3>1. x.pc = "review" /\ x.run = proc[p].run /\ x.kind = proc[p].kind /\ Set(p, x)
      BY <1>1, <1>15, <2>3 DEF ReviewFails, Proc
    <3> HIDE DEF x
    <3>2. Carries(x)
      BY <2>1, <3>1 DEF Carries, Mindful, Batching
    <3> QED
      BY <1>4, <3>2
  <2> QED
    BY <2>2, <2>3
<1> QED
  BY <1>3, <1>5, <1>6, <1>7, <1>8, <1>9, <1>10, <1>12, <1>13, <1>14, <1>15

\* A task gets another status.
LEMMA SRestated ==
  ASSUME TInv, SInv, RunsKept, NEW t \in TaskIds, NEW v \in {"todo", "done", "in_progress", "queued", "awaiting_approval", "blocked"},
         task' = [task EXCEPT ![t].status = v], UNCHANGED run,
         left \ {t} \subseteq left', forced \subseteq forced',
         v \in Active => Cared(t)',
         \A q \in Procs, u \in TaskIds : Minds(q, u) /\ u # t /\ u \notin left' => proc'[q] = proc[q] \/ Minds(q, u)',
         \A q \in Procs : At(q, "execute") => proc'[q] = proc[q],
         \A a \in approvals : run[a.run].task # t => a \in approvals'
  PROVE  SInv'
<1>1. /\ TaskIds' = TaskIds /\ (\A u \in Tasks \ {t} : task'[u] = task[u]) /\ task'[t].status = v
  BY Restated
<1>2. ASSUME NEW u \in TaskIds', Tracked(u)' PROVE (u # t /\ Tracked(u) /\ u \notin left') \/ (u = t /\ Cared(t)')
  <2>1. CASE u = t
    BY <1>1, <1>2, <2>1 DEF Tracked
  <2>2. CASE u # t
    BY <1>1, <1>2, <2>2 DEF Tracked, TaskIds
  <2> QED
    BY <2>1, <2>2
<1>3. \A r \in RunIds : run'[r].at \in Live => run[r].at \in Live
  OBVIOUS
<1>4. ASSUME NEW r \in RunIds, Proceeding(r) PROVE Proceeding(r)'
  BY <1>4 DEF Proceeding, At
<1>5. \A q \in Procs, u \in TaskIds : Minds(q, u) /\ Tracked(u)' => proc'[q] = proc[q] \/ Cared(u)'
  BY <1>1, <1>2 DEF Cared
<1>6. \A a \in approvals : \A u \in TaskIds : run[a.run].task = u /\ Tracked(u)' => a \in approvals' \/ Cared(u)'
  BY <1>1, <1>2
<1> QED
  BY <1>2, <1>3, <1>4, <1>5, <1>6, SKept

LEMMA SWrites ==
  ASSUME TInv, SInv, RunsKept, NEW p \in Procs, Start(p) \/ BuildFails(p) \/ Accept(p) \/ QueueFollowUp(p)
  PROVE  SInv'
<1>1. proc[p] \in Proc /\ Shape(proc[p], RunIds, TaskIds)
  BY TypingFacts
<1>2. UNCHANGED <<run, approvals>> /\ forced \subseteq forced' /\ RunIds' = RunIds
  BY DEF Start, BuildFails, Accept, QueueFollowUp, RunIds
<1>3. proc[p].pc \in {"start", "build", "accept", "queue"}
  BY DEF Start, BuildFails, Accept, QueueFollowUp, At
<1>4. \A q \in Procs \ {p} : proc'[q] = proc[q]
  BY DEF Start, BuildFails, Accept, QueueFollowUp, Goes, Ends, Set, TInv, TypeOK
<1>5. \A q \in Procs : At(q, "execute") => proc'[q] = proc[q]
  BY <1>3, <1>4 DEF At
<1>6. CASE Start(p)
  <2> DEFINE t == proc[p].task
             x == [proc[p] EXCEPT !.pc = "build"]
  <2>1. t \in TaskIds
    BY <1>1, <1>6 DEF Start, At, Shape
  <2>2. x.pc = "build" /\ x.task = t /\ proc'[p] = x
    BY <1>1, <1>6 DEF Start, Goes, Proc, Set, TInv, TypeOK
  <2> HIDE DEF x
  <2>3. PICK u : u = t /\ u = proc'[p].task
    BY <2>2
  <2>4. Minds(p, u)'
    BY <2>2, <2>3 DEF Minds
  <2>5. Cared(u)'
    BY <2>4 DEF Cared
  <2>6. \A w : ~Minds(p, w)
    BY <1>6 DEF Start, At, Minds, Batching
  <2>7. task' = [task EXCEPT ![u].status = "in_progress"] /\ left' = left \ {u} /\ u \in TaskIds
    BY <1>6, <2>1, <2>3 DEF Start
  <2> QED
    BY <1>2, <1>4, <1>5, <2>5, <2>6, <2>7, SRestated
<1>7. CASE QueueFollowUp(p)
  <2> DEFINE t == proc[p].task
             x == [proc[p] EXCEPT !.pc = "build", !.then = "accept"]
  <2>1. t \in TaskIds
    BY <1>1, <1>7 DEF QueueFollowUp, At, Shape
  <2>2. x.pc = "build" /\ x.task = t /\ x.run = proc[p].run /\ x.kind = proc[p].kind /\ proc'[p] = x
    BY <1>1, <1>7 DEF QueueFollowUp, Proc, Set, TInv, TypeOK
  <2> HIDE DEF x
  <2>3. PICK u : u = t /\ u = proc'[p].task
    BY <2>2
  <2>4. \A w : w = u \/ Minds(p, w) => Minds(p, w)'
    BY <1>2, <1>7, <2>2, <2>3 DEF Minds, QueueFollowUp, At, Batching
  <2>5. Cared(u)'
    BY <2>4 DEF Cared
  <2>6. task' = [task EXCEPT ![u].status = "queued"] /\ UNCHANGED left /\ u \in TaskIds
    BY <1>7, <2>1, <2>3 DEF QueueFollowUp
  <2> QED
    BY <1>2, <1>4, <1>5, <2>4, <2>5, <2>6, SRestated
<1>8. CASE Accept(p)
  <2>1. PICK t : t = run[proc[p].run].task
    OBVIOUS
  <2>2. proc[p].run \in RunIds /\ t \in TaskIds
    BY <1>1, <1>8, <2>1, TypingFacts DEF Accept, At, Shape, Judging
  <2>3. \A w : Minds(p, w) => w = t
    BY <1>8, <2>1 DEF Accept, At, Minds, Batching
  <2>4. task' = [task EXCEPT ![t].status = "done"] /\ UNCHANGED left
    BY <1>8, <2>1 DEF Accept
  <2> QED
    BY <1>2, <1>4, <1>5, <2>2, <2>3, <2>4, SRestated DEF Active
<1>9. CASE BuildFails(p)
  <2>1. \A w \in TaskIds : Minds(p, w) => w \in left'
    BY <1>9, MindsInHand DEF BuildFails
  <2>2. left \subseteq left'
    BY <1>9 DEF BuildFails
  <2>3. CASE UNCHANGED task
    <3>1. ~At(p, "execute")
      BY <1>3 DEF At
    <3> QED
      BY <1>2, <1>4, <2>1, <2>2, <2>3, <3>1, SMoves
  <2>4. CASE task' = [task EXCEPT ![proc[p].task].status = "todo"]
    <3>1. proc[p].task \in TaskIds
      BY <1>1, <1>9 DEF BuildFails, At, Shape
    <3> QED
      BY <1>2, <1>4, <1>5, <2>1, <2>2, <2>4, <3>1, SRestated DEF Active
  <2> QED
    BY <1>9, <2>3, <2>4 DEF BuildFails
<1> QED
  BY <1>6, <1>7, <1>8, <1>9

LEMMA SWriteTask == ASSUME TInv, SInv, RunsKept, NEW p \in Procs, WriteTask(p) PROVE SInv'
<1>1. proc[p] \in Proc /\ Shape(proc[p], RunIds, TaskIds) /\ At(p, "write")
  BY TypingFacts DEF WriteTask
<1>2. PICK n : n = proc[p].seq
  OBVIOUS
<1>3. /\ n \in Tasks /\ TaskIds' = TaskIds \cup {n} /\ (\A u \in Tasks \ {n} : task'[u] = task[u])
      /\ task'[n].status = "todo"
      /\ \/ proc[p].then = "queue" /\ Judging(proc[p], RunIds)
         \/ proc[p].kind = "command" /\ proc[p].then = "idle"
  BY <1>2, Written, Zenon
<1>4. UNCHANGED <<run, left, approvals>> /\ forced \subseteq forced' /\ RunIds' = RunIds
  BY DEF WriteTask, RunIds
<1>5. \A q \in Procs \ {p} : proc'[q] = proc[q]
  BY DEF WriteTask, Ends, Set, TInv, TypeOK
<1>6. ASSUME NEW t \in TaskIds', Tracked(t)' PROVE Tracked(t)
  <2>1. t # n
    BY <1>3, <1>6 DEF Tracked, Active
  <2> QED
    BY <1>3, <1>4, <1>6, <2>1 DEF Tracked, TaskIds
<1>7. ASSUME NEW t \in TaskIds, Minds(p, t) PROVE Cared(t)'
  <2> DEFINE x == [proc[p] EXCEPT !.pc = "queue", !.then = "idle", !.task = proc[p].seq, !.seq = 0]
  <2>1. proc[p].kind = "loop"
    BY <1>1, <1>3, <1>7 DEF Minds, At, Judging
  <2>2. x.pc = "queue" /\ x.run = proc[p].run /\ x.kind = "loop"
    BY <1>1, <2>1 DEF Proc
  <2>3. proc'[p] = x
    BY <1>3, <2>1 DEF WriteTask, Set, TInv, TypeOK
  <2> HIDE DEF x
  <2>4. Minds(p, t)'
    BY <1>1, <1>4, <1>7, <2>2, <2>3 DEF Minds, At, Batching
  <2> QED
    BY <2>4 DEF Cared
<1>8. \A q \in Procs, t \in TaskIds : Minds(q, t) /\ Tracked(t)' => proc'[q] = proc[q] \/ Cared(t)'
  BY <1>5, <1>7
<1>9. ASSUME NEW r \in RunIds, Proceeding(r) PROVE Proceeding(r)'
  BY <1>1, <1>4, <1>5, <1>9 DEF Proceeding, At
<1> QED
  BY <1>4, <1>6, <1>8, <1>9, SKept

LEMMA SBuild == ASSUME TInv, SInv, RunsKept, NEW p \in Procs, Build(p) PROVE SInv'
<1>1. PICK r \in Runs \ RunIds :
           /\ run'[r] = NewRun(proc[p].task)
           /\ RunIds' = RunIds \cup {r} /\ \A q \in RunIds : run'[q] = run[q]
  BY Built
<1>2. proc[p] \in Proc /\ Shape(proc[p], RunIds, TaskIds) /\ At(p, "build")
  BY TypingFacts DEF Build
<1>3. UNCHANGED <<task, left, forced, approvals>>
  BY DEF Build, ghosts, doubts
<1>4. \A q \in Procs \ {p} : proc'[q] = proc[q]
  BY DEF Build, Ends, Set, TInv, TypeOK
<1>5. ASSUME NEW t \in TaskIds, Minds(p, t) PROVE Cared(t)'
  <2>1. CASE proc[p].task = t
    <3>1. run'[r].task = t /\ run'[r].at = "pending" /\ r \in RunIds'
      BY <1>1, <2>1 DEF NewRun
    <3> QED
      BY <3>1 DEF Cared, RunsOf, Proceeding
  <2>2. CASE proc[p].task # t
    <3> DEFINE x == [proc[p] EXCEPT !.pc = "accept", !.then = "idle", !.task = 0]
    <3>1. proc[p].run \in RunIds /\ run[proc[p].run].task = t
      BY <1>5, <2>2 DEF Minds
    <3>2. 0 \notin RunIds
      BY DEF RunIds, Runs
    <3>3. proc[p].then = "accept" /\ proc[p].kind = "loop"
      BY <1>2, <3>1, <3>2 DEF Shape, At, Judging
    <3>4. x.pc = "accept" /\ x.run = proc[p].run /\ x.kind = "loop"
      BY <1>2, <3>3 DEF Proc
    <3>5. proc'[p] = x
      BY <3>3 DEF Build, Set, TInv, TypeOK
    <3> HIDE DEF x
    <3>6. Minds(p, t)'
      BY <1>1, <3>1, <3>4, <3>5 DEF Minds
    <3> QED
      BY <3>6 DEF Cared
  <2> QED
    BY <2>1, <2>2
<1>6. \A t \in TaskIds' : Tracked(t)' => Tracked(t)
  BY <1>3 DEF Tracked, TaskIds
<1>7. \A q \in Procs, t \in TaskIds : Minds(q, t) /\ Tracked(t)' => proc'[q] = proc[q] \/ Cared(t)'
  BY <1>4, <1>5
<1>8. ASSUME NEW s \in RunIds, Proceeding(s) PROVE Proceeding(s)'
  BY <1>1, <1>2, <1>4, <1>8 DEF Proceeding, At
<1> QED
  BY <1>1, <1>3, <1>6, <1>7, <1>8, SKept

\* The job of a run moves.
LEMMA SJob ==
  ASSUME TInv, SInv, RunsKept, NEW r \in RunIds, NEW y \in Run, run' = [run EXCEPT ![r] = y], y.task = run[r].task,
         y.at \in Live => run[r].at \in Live,
         UNCHANGED <<task, approvals>>, left \subseteq left', forced \subseteq forced',
         \A q \in Procs, t \in TaskIds : Minds(q, t) => proc'[q] = proc[q],
         \A q \in Procs : At(q, "execute") /\ proc[q].run # r => proc'[q] = proc[q],
         Proceeding(r) => Proceeding(r)' \/ Cared(y.task)' \/ y.task \in left' \cup forced'
  PROVE  SInv'
<1>1. RunIds' = RunIds /\ run'[r] = y /\ \A q \in Runs \ {r} : run'[q] = run[q]
  BY Rerun
<1>2. \A t \in TaskIds' : Tracked(t)' => Tracked(t)
  BY DEF Tracked, TaskIds
<1>3. \A q \in RunIds : run'[q].at \in Live => run[q].at \in Live
  BY <1>1 DEF RunIds
<1>4. ASSUME NEW q \in RunIds, q # r, Proceeding(q) PROVE Proceeding(q)'
  <2>1. run'[q] = run[q]
    BY <1>1, <1>4 DEF RunIds
  <2> QED
    BY <1>4, <2>1 DEF Proceeding, At
<1>5. \A q \in RunIds, t \in TaskIds : run[q].task = t /\ Proceeding(q) /\ Tracked(t)' => Proceeding(q)' \/ Cared(t)'
  BY <1>4 DEF Tracked
<1> QED
  BY <1>2, <1>3, <1>5, SKept

\* The job of a run moves, and its task gets another status.
LEMMA SRejob ==
  ASSUME TInv, SInv, RunsKept, NEW r \in RunIds, NEW y \in Run, run' = [run EXCEPT ![r] = y], y.task = run[r].task,
         NEW t \in TaskIds, t = run[r].task, NEW v \in {"todo", "queued", "awaiting_approval"},
         task' = [task EXCEPT ![t].status = v], left \ {t} \subseteq left', forced \subseteq forced',
         v \in Active => Cared(t)' \/ t \in left' \cup forced',
         y.at \in Live => run[r].at \in Live \/ t \in forced',
         \A q \in Procs, u \in TaskIds : Minds(q, u) => proc'[q] = proc[q],
         \A q \in Procs : At(q, "execute") /\ proc[q].run # r => proc'[q] = proc[q],
         \A a \in approvals : run[a.run].task # t => a \in approvals'
  PROVE  SInv'
<1>1. TaskIds' = TaskIds /\ (\A u \in Tasks \ {t} : task'[u] = task[u]) /\ task'[t].status = v
  BY Restated
<1>2. RunIds' = RunIds /\ run'[r] = y /\ \A q \in Runs \ {r} : run'[q] = run[q]
  BY Rerun
<1>3. ASSUME NEW u \in TaskIds', Tracked(u)' PROVE (u # t /\ Tracked(u)) \/ (u = t /\ Cared(t)')
  BY <1>1, <1>3 DEF Tracked, TaskIds
<1>4. \A q \in RunIds : run'[q].at \in Live => run[q].at \in Live \/ run[q].task \in forced'
  BY <1>2 DEF RunIds
<1>5. ASSUME NEW q \in RunIds, q # r, Proceeding(q) PROVE Proceeding(q)'
  <2>1. run'[q] = run[q]
    BY <1>2, <1>5 DEF RunIds
  <2> QED
    BY <1>5, <2>1 DEF Proceeding, At
<1>6. \A q \in RunIds, u \in TaskIds : run[q].task = u /\ Proceeding(q) /\ Tracked(u)' => Proceeding(q)' \/ Cared(u)'
  BY <1>1, <1>3, <1>5
<1>7. \A a \in approvals : \A u \in TaskIds : run[a.run].task = u /\ Tracked(u)' => a \in approvals' \/ Cared(u)'
  BY <1>1, <1>3
<1> QED
  BY <1>3, <1>4, <1>6, <1>7, SKept

LEMMA SClaim == ASSUME TInv, SInv, RunsKept, NEW p \in Procs, NEW r \in Runs, Claim(p, r) PROVE SInv'
<1> DEFINE x == [proc[p] EXCEPT !.pc = "execute", !.run = r]
<1>1. PICK y \in Run : /\ r \in RunIds /\ run[r].at = "pending" /\ run' = [run EXCEPT ![r] = y] /\ y.task = run[r].task
                        /\ y.at = "running"
  BY Claimed
<1>2. run'[r] = y
  BY <1>1, Rerun
<1>3. proc'[p] = x /\ (\A q \in Procs \ {p} : proc'[q] = proc[q]) /\ x.pc = "execute" /\ x.run = r /\ At(p, "claim")
  BY TypingFacts DEF Claim, Set, TInv, TypeOK, Proc
<1> HIDE DEF x
<1>4. Proceeding(r)'
  BY <1>1, <1>2, <1>3 DEF Proceeding, At
<1>5. \A t \in TaskIds : ~Minds(p, t)
  BY <1>3 DEF Minds, At, Batching
<1>6. \A q \in Procs, t \in TaskIds : Minds(q, t) => proc'[q] = proc[q]
  BY <1>3, <1>5
<1>7. \A q \in Procs : At(q, "execute") => proc'[q] = proc[q]
  BY <1>3 DEF At
<1>8. run[r].at \in Live /\ UNCHANGED <<task, left, forced, approvals>>
  BY <1>1 DEF Claim, ghosts, doubts, Live
<1> QED
  BY <1>1, <1>4, <1>6, <1>7, <1>8, SJob

LEMMA SExecute == ASSUME TInv, RInv, GInv, SInv, RunsKept, NEW p \in Procs, Execute(p) PROVE SInv'
<1>1. PICK outcome \in {"success", "failed"}, x \in Proc, y \in Run :
           LET r == proc[p].run IN
           /\ r \in RunIds /\ run' = [run EXCEPT ![r] = y] /\ y.task = run[r].task
           /\ y.at = AfterRun(r, outcome)
           /\ Set(p, x) /\ x.pc = "trigger" /\ x.run = r /\ x.kind = proc[p].kind /\ proc[p].kind \in {"loop", "worker"}
  BY Executed
<1>2. PICK r \in RunIds : r = proc[p].run
  BY <1>1
<1>3. proc'[p] = x /\ \A q \in Procs \ {p} : proc'[q] = proc[q]
  BY <1>1 DEF Set, TInv, TypeOK
<1>4. At(p, "execute") /\ UNCHANGED <<task, left, forced, approvals>>
  BY DEF Execute, ghosts, doubts
<1>5. run[r].at \in {"running", "none"} \/ run[r].task \in forced'
  BY <1>2, <1>4 DEF RInv, GInv
<1>6. run[r].at = "running" => y.at \in {"done", "pending", "failed"}
  BY <1>1, <1>2 DEF AfterRun, Settled
<1>7. RunIds' = RunIds /\ run'[r] = y
  BY <1>1, <1>2, Rerun
<1>8. ASSUME Proceeding(r), run[r].task \notin forced' PROVE Proceeding(r)' \/ Cared(y.task)'
  <2>1. run[r].at = "running"
    BY <1>5, <1>8 DEF Proceeding
  <2>2. CASE y.at = "pending"
    BY <1>7, <2>2 DEF Proceeding
  <2>3. CASE y.at \notin Live
    <3>1. Minds(p, y.task)'
      BY <1>1, <1>2, <1>3, <1>7, <2>3 DEF Minds
    <3> QED
      BY <3>1 DEF Cared
  <2> QED
    BY <1>6, <2>1, <2>2, <2>3 DEF Live
<1>9. y.at \in Live => run[r].at \in Live
  BY <1>1, <1>2 DEF AfterRun, Live
<1>10. \A t \in TaskIds : ~Minds(p, t)
  BY <1>4 DEF Minds, At, Batching
<1>11. \A q \in Procs, t \in TaskIds : Minds(q, t) => proc'[q] = proc[q]
  BY <1>3, <1>10
<1>12. \A q \in Procs : At(q, "execute") /\ proc[q].run # r => proc'[q] = proc[q]
  BY <1>2, <1>3
<1>13. run' = [run EXCEPT ![r] = y] /\ y.task = run[r].task
  BY <1>1, <1>2
<1> QED
  BY <1>4, <1>8, <1>9, <1>11, <1>12, <1>13, SJob

LEMMA SPause == ASSUME TInv, RInv, GInv, SInv, RunsKept, NEW p \in Procs, Pause(p) \/ Guarded(p) PROVE SInv'
<1>1. PICK r, t : r = proc[p].run /\ t = run[r].task
  OBVIOUS
<1> DEFINE a == AfterRun(r, "paused")
<1>2. r \in RunIds /\ t \in TaskIds /\ At(p, "execute")
  BY <1>1, TypingFacts DEF Pause, Guarded, At, Shape
<1>3. a \in QueueStates /\ run' = [run EXCEPT ![r].at = a]
  BY <1>1, <1>2, AfterRunTyped DEF Pause, Guarded
<1>4. (a \in Live => run[r].at \in Live) /\ (run[r].at = "running" => a = "awaiting_approval")
  BY DEF AfterRun, Live, Settled
<1> HIDE DEF a
<1>5. PICK y \in Run : run' = [run EXCEPT ![r] = y] /\ y.task = run[r].task /\ y.at = a
  <2>1. JobAt(r, a)
    BY <1>2, <1>3, Rejob
  <2> QED
    BY <2>1 DEF JobAt
<1>6. run'[r] = y /\ y.task = t
  BY <1>1, <1>2, <1>5, Rerun
<1>7. \A q \in Procs \ {p} : proc'[q] = proc[q]
  BY DEF Pause, Guarded, Ends, Set, TInv, TypeOK
<1>8. \A u \in TaskIds : ~Minds(p, u)
  BY <1>2 DEF Minds, At, Batching
<1>9. \A q \in Procs, u \in TaskIds : Minds(q, u) => proc'[q] = proc[q]
  BY <1>7, <1>8
<1>10. \A q \in Procs : At(q, "execute") /\ proc[q].run # r => proc'[q] = proc[q]
  BY <1>1, <1>7
<1>11. CASE Pause(p)
  <2>1. UNCHANGED <<task, left, forced, approvals>>
    BY <1>11 DEF Pause, ghosts, doubts
  <2>2. run[r].at \in {"running", "none"} \/ t \in forced'
    BY <1>1, <1>2, <2>1 DEF RInv, GInv
  <2>3. Proceeding(r) => Proceeding(r)' \/ t \in forced'
    BY <1>4, <1>5, <1>6, <2>2 DEF Proceeding
  <2> QED
    BY <1>1, <1>2, <1>4, <1>5, <1>9, <1>10, <2>1, <2>3, SJob
<1>12. CASE Guarded(p)
  <2>1. /\ task' = [task EXCEPT ![t].status = "awaiting_approval"]
        /\ approvals' = approvals \cup {[run |-> r, action |-> "run"]}
        /\ forced \subseteq forced' /\ left' = left \ {t}
    BY <1>1, <1>12 DEF Guarded
  <2>2. Cared(t)'
    <3>1. PICK b \in approvals' : b.run = r
      <4>1. [run |-> r, action |-> "run"] \in approvals'
        BY <2>1
      <4> QED
        BY <4>1
    <3> QED
      BY <1>5, <1>6, <3>1 DEF Cared
  <2> QED
    BY <1>1, <1>2, <1>4, <1>5, <1>9, <1>10, <2>1, <2>2, SRejob
<1> QED
  BY <1>11, <1>12

LEMMA SPeople == ASSUME TInv, SInv, RunsKept, People PROVE SInv'
<1>1. UNCHANGED proc
  BY DEF People, Decide, MarkDone, AskHuman, Retry, AcceptAsked, Admit, Block, Dismiss, Release, Reject, Reclaim
<1>2. \A q \in Procs, t \in TaskIds : Minds(q, t) => proc'[q] = proc[q]
  BY <1>1
<1>3. CASE Decide \/ \E r \in Runs, action \in Askable : AskHuman(r, action)
  <2>1. \A t \in TaskIds' : Tracked(t)' => Tracked(t)
    BY <1>3 DEF Decide, AskHuman, Tracked, TaskIds, board, ghosts, doubts
  <2>2. \A r \in RunIds : (run'[r].at \in Live => run[r].at \in Live) /\ (Proceeding(r) => Proceeding(r)')
    BY <1>1, <1>3 DEF Decide, AskHuman, Proceeding, board, At
  <2> QED
    BY <1>2, <1>3, <2>1, <2>2, SKept DEF Decide, AskHuman
<1>4. ASSUME NEW t \in Tasks, MarkDone(t) PROVE SInv'
  <2>1. t \in TaskIds /\ task' = [task EXCEPT ![t].status = "done"] /\ UNCHANGED <<run, left, forced, approvals>>
    BY <1>4 DEF MarkDone, ghosts, doubts
  <2> QED
    BY <1>1, <2>1, SRestated DEF Active
<1>5. ASSUME NEW a \in approvals, Retry(a) PROVE SInv'
  <2>1. PICK t, r : r = a.run /\ t = run[r].task
    OBVIOUS
  <2>2. r \in RunIds /\ t \in TaskIds /\ "none" \in QueueStates
    BY <2>1, TypingFacts DEF BoardTyped, Referring, QueueStates
  <2>3. /\ task' = [task EXCEPT ![t].status = "todo"] /\ run' = [run EXCEPT ![r].at = "none"]
        /\ approvals' = approvals \ {a} /\ UNCHANGED left /\ forced \subseteq forced'
    BY <1>5, <2>1 DEF Retry, Resolves
  <2>4. PICK y \in Run : run' = [run EXCEPT ![r] = y] /\ y.task = run[r].task /\ y.at = "none"
    BY <2>2, <2>3, Rejob DEF JobAt
  <2> QED
    BY <1>1, <2>1, <2>2, <2>3, <2>4, SRejob DEF Active, Live
<1>6. ASSUME NEW a \in approvals, Dismiss(a) PROVE SInv'
  <2>1. /\ UNCHANGED <<task, run, forced>> /\ left' = left \cup {run[a.run].task} /\ approvals' = approvals \ {a}
    BY <1>6 DEF Dismiss, Resolves, board
  <2>2. ASSUME NEW t \in TaskIds', Tracked(t)' PROVE Tracked(t) /\ t # run[a.run].task
    BY <2>1, <2>2 DEF Tracked, TaskIds
  <2>3. \A r \in RunIds : (run'[r].at \in Live => run[r].at \in Live) /\ (Proceeding(r) => Proceeding(r)')
    BY <1>1, <2>1 DEF Proceeding, At
  <2>4. \A b \in approvals : \A t \in TaskIds : run[b.run].task = t /\ Tracked(t)' => b \in approvals' \/ Cared(t)'
    BY <2>1, <2>2 DEF TaskIds
  <2> QED
    BY <1>2, <2>2, <2>3, <2>4, SKept
<1>7. ASSUME NEW r \in Runs, Release(r) PROVE SInv'
  <2>1. /\ r \in RunIds /\ run[r].at = "awaiting_approval" /\ "pending" \in QueueStates
        /\ run' = [run EXCEPT ![r].at = "pending"] /\ UNCHANGED <<task, left, forced, approvals>>
    BY <1>7 DEF Release, InState, QueueStates, ghosts, doubts
  <2>2. PICK y \in Run : run' = [run EXCEPT ![r] = y] /\ y.task = run[r].task /\ y.at = "pending"
    BY <2>1, Rejob DEF JobAt
  <2>3. run'[r] = y
    BY <2>1, <2>2, Rerun
  <2>4. Proceeding(r)'
    BY <2>2, <2>3 DEF Proceeding
  <2> QED
    BY <1>1, <1>2, <2>1, <2>2, <2>4, SJob DEF Live
<1>8. ASSUME NEW r \in Runs, Reclaim(r) PROVE SInv'
  <2> DEFINE q == Reclaimed(r)
  <2>1. /\ r \in RunIds /\ q \in QueueStates /\ run' = [run EXCEPT ![r].at = q] /\ run[r].at \in {"running", "stub"}
        /\ run[r].at = "running" => \A p \in Procs : ~(At(p, "execute") /\ proc[p].run = r)
        /\ run[r].at = "stub" => q = "none"
        /\ UNCHANGED <<task, left, forced, approvals>>
    BY <1>8, ReclaimMoves DEF Reclaimed, Reclaim, ghosts, doubts
  <2> HIDE DEF q
  <2>0. JobAt(r, q)
    BY <1>1, <2>1, Rejob
  <2>2. PICK y \in Run : run' = [run EXCEPT ![r] = y] /\ y.task = run[r].task /\ y.at = q
    BY <2>0 DEF JobAt
  <2>3. ~Proceeding(r)
    BY <2>1 DEF Proceeding
  <2>4. y.at \in Live => run[r].at \in Live
    BY <2>1, <2>2 DEF Live
  <2> QED
    BY <1>1, <1>2, <2>1, <2>2, <2>3, <2>4, SJob
<1>9. ASSUME NEW a \in approvals, AcceptAsked(a) \/ Block(a) PROVE SInv'
  <2>1. PICK t : t = run[a.run].task
    OBVIOUS
  <2>2. t \in TaskIds
    BY <2>1, TypingFacts DEF BoardTyped, Referring
  <2>3. /\ approvals' = approvals \ {a} /\ UNCHANGED <<run, left>> /\ forced \subseteq forced'
        /\ \E v \in {"done", "blocked"} : task' = [task EXCEPT ![t].status = v]
    BY <1>9, <2>1 DEF AcceptAsked, Block, Resolves, ghosts
  <2> QED
    BY <1>1, <2>1, <2>2, <2>3, SRestated DEF Active
<1>10. ASSUME NEW a \in approvals, Admit(a) PROVE SInv'
  <2>1. PICK r, t : r = a.run /\ t = run[r].task
    OBVIOUS
  <2>2. PICK y \in Run : /\ r \in RunIds /\ t \in TaskIds /\ run' = [run EXCEPT ![r] = y] /\ y.task = t
                         /\ y.at = Admitted(r) /\ run[r].at \in {"awaiting_approval", "none", "stub"}
    BY <1>10, <2>1, AdmitMoves
  <2>3. run'[r] = y /\ r \in RunIds'
    <3>1. y.task = run[r].task
      BY <2>1, <2>2
    <3> QED
      BY <1>1, <2>2, <3>1, Rerun
  <2>4. /\ task' = [task EXCEPT ![t].status = "queued"] /\ approvals' = approvals \ {a}
        /\ forced \subseteq forced' /\ left \ {t} \subseteq left'
        /\ run[r].at = "none" => t \in forced'
        /\ run[r].at = "stub" => t \in left'
    BY <1>10, <2>1 DEF Admit, Resolves
  <2>5. CASE run[r].at = "awaiting_approval"
    <3>1. y.at = "pending"
      BY <2>2, <2>5 DEF Admitted
    <3>2. Proceeding(r)'
      BY <2>3, <3>1 DEF Proceeding
    <3>3. r \in RunsOf(t)'
      BY <2>2, <2>3 DEF RunsOf
    <3>4. Cared(t)'
      BY <3>2, <3>3 DEF Cared
    <3> QED
      BY <1>1, <2>1, <2>2, <2>4, <2>5, <3>4, SRejob DEF Live
  <2>6. CASE run[r].at # "awaiting_approval"
    <3>1. y.at \in Live => t \in forced'
      BY <2>2, <2>4, <2>6 DEF Admitted, Live
    <3> QED
      BY <1>1, <2>1, <2>2, <2>4, <2>6, <3>1, SRejob
  <2> QED
    BY <2>5, <2>6
<1>11. ASSUME NEW r \in Runs, Reject(r) PROVE SInv'
  <2> DEFINE q == Rejected(r)
  <2>1. /\ r \in RunIds /\ q \in QueueStates /\ run' = [run EXCEPT ![r].at = q] /\ q \notin Live
        /\ UNCHANGED <<task, forced, approvals>> /\ left' = left \cup {run[r].task}
    BY <1>11, RejectMoves DEF Reject, Rejected, Live
  <2> HIDE DEF q
  <2>2. JobAt(r, q)
    BY <2>1, Rejob
  <2>3. PICK y \in Run : run' = [run EXCEPT ![r] = y] /\ y.task = run[r].task /\ y.at = q
    BY <2>2 DEF JobAt
  <2> QED
    BY <1>1, <1>2, <2>1, <2>3, SJob
<1> QED
  BY <1>3, <1>4, <1>5, <1>6, <1>7, <1>8, <1>9, <1>10, <1>11 DEF People

LEMMA NotStrandedStep == ASSUME TInv, RInv, GInv, SInv, [Next]_vars PROVE SInv'
<1>1. RunsKept
  BY RunsKeptStep
<1>2. ASSUME NEW p \in Procs, Step(p) \/ Command(p) \/ Crash(p) \/ Orphan(p) PROVE SInv'
  <2>1. CASE Step(p)
    BY <1>1, <2>1, SIdle, SLeaves, SGoes, SWrites, SWriteTask, SBuild, SClaim, SExecute, SPause DEF Step
  <2> QED
    BY <1>1, <1>2, <2>1, SIdle, SLeaves DEF Command
<1>3. CASE UNCHANGED vars
  <2>1. \A t \in TaskIds' : Tracked(t)' => Tracked(t)
    BY <1>3 DEF vars, board, ghosts, doubts, Tracked, TaskIds
  <2>2. \A r \in RunIds : (run'[r].at \in Live => run[r].at \in Live) /\ (Proceeding(r) => Proceeding(r)')
    BY <1>3 DEF vars, board, Proceeding, At
  <2> QED
    BY <1>1, <1>3, <2>1, <2>2, SKept DEF vars
<1> QED
  BY <1>1, <1>2, <1>3, SPeople DEF Next

LEMMA NotStrandedInit == Init => SInv
<1> SUFFICES ASSUME Init PROVE SInv
  OBVIOUS
<1>1. \A t \in TaskIds : task[t].status \notin Active
  BY ProjectAssumption DEF Init, BoardInit, TaskIds
<1> QED
  BY <1>1 DEF SInv, Tracked

\* A task that says it is being worked on, or waits for an approval, is in somebody's
\* hands, on the queue or before a person, whatever fails, whoever is killed and
\* whatever is approved and rejected, but for those that "left" collects
\* (cmd_orchestrate, evaluate_run_decision, pause_run_for_guardrail,
\* resolve_approval_request, cmd_resolve_checkpoint).
THEOREM NobodyIsStranded == Spec => []NoTaskStranded
<1>1. Spec => []SInv
  BY Typed, ExecutedOnce, ForcedAgain, NotStrandedInit, NotStrandedStep, PTL DEF Spec
<1>2. SInv => NoTaskStranded
  <2> SUFFICES ASSUME SInv, NEW t \in TaskIds \ (left \cup forced), task[t].status \in Active
               PROVE  \/ \E p \in Procs : t \in InHand(p)
                      \/ OnQueue(t)
                      \/ \E a \in approvals : run[a.run].task = t
    BY DEF NoTaskStranded
  <2>1. Cared(t)
    BY DEF SInv, Tracked
  <2>2. ASSUME NEW r \in RunsOf(t), Proceeding(r) PROVE OnQueue(t)
    BY <2>2 DEF RunsOf, Proceeding, OnQueue, LiveRuns, Live
  <2> QED
    BY <2>1, <2>2, MindsInHand DEF Cared
<1> QED
  BY <1>1, <1>2, PTL
===============================================================================
