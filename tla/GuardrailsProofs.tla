--------------------------- MODULE GuardrailsProofs ---------------------------
(***************************************************************************)
(* No agent is started for a run the governance rules guard before a       *)
(* person has approved it, what is charged without approval stays below    *)
(* the limit, what is approved is not paused again, what waits can be      *)
(* approved, and the items move as the queue promises: for any policy, any *)
(* numbers of runs, workers, operators and requests, and whichever         *)
(* processes are killed.                                                   *)
(***************************************************************************)
EXTENDS Guardrails, FiniteSetTheorems, TLAPS

(* What a process has in hand, where it is. *)

Executor(x) == x.cmd \in {"worker", "direct"}
Refreshing(x) == x.pc \in {"collect", "publish"}

\* A process that resolves a request, and one that asks for one.
Resolving(x) == x.pc \in {"drop", "release", "status", "record", "unlink"}
Asking(x) == x.pc \in {"scan", "create"}

\* A process that will start an agent, if only after it has refreshed the budget, one
\* that will pause its run.
Cleared(x) == x.pc = "execute" \/ (Refreshing(x) /\ x.then = "execute")
Pausing(x) == x.pc = "mark" \/ (Refreshing(x) /\ x.then = "mark")

Shape(x) ==
  /\ x.pc = "idle" => x = Idle
  /\ x.pc # "idle" /\ x.cmd # "dashboard" => x.run \in Runs
  /\ x.cmd = "dashboard" => x.pc \in {"collect", "publish"} /\ x.then = "idle" /\ x.run = None
  /\ Refreshing(x) => /\ Executor(x) \/ x.cmd = "dashboard"
                      /\ x.then \in {"idle", "load", "mark", "execute", "settle"}
                      /\ x.then = "settle" => x.cmd = "worker"
  /\ x.pc \in {"load", "evaluate", "mark", "execute"} => Executor(x)
  /\ x.pc \in {"park", "settle"} => x.cmd = "worker"
  /\ Asking(x) => /\ Executor(x) \/ x.cmd = "ask"
                  /\ x.request \in Requests /\ x.request.run = x.run /\ x.request.id = 1
                  /\ Executor(x) => x.request.action = "run" /\ x.request.source = "guardrail"
  /\ Resolving(x) => /\ x.cmd = "resolve" /\ x.status # "awaiting_approval"
                     /\ x.request \in Requests /\ x.request.run = x.run

\* The units that have been charged, one by one.
Bill(f, S) == UNION {{x} \X (1 .. f[x]) : x \in S}

TInv ==
  /\ TypeOK /\ (\A p \in Procs : Shape(proc[p])) /\ IsFiniteSet(Bill(charges, Runs))
  /\ \A p \in Procs : Cleared(proc[p]) => snap[proc[p].run] # None

------------------------------------------------------------------------------
(* Governance. *)

GInv ==
  /\ \A b \in resolved :
       b.request \in GuardrailRequests /\ b.decision = "approved" => b.request.run \in granted
  /\ \A p \in Procs : Cleared(proc[p]) /\ Governed(proc[p].run) => proc[p].run \in granted

------------------------------------------------------------------------------
(* References. *)

\* Items, processes and requests are about runs that have been built, and the number of
\* a request has been given out.
LInv ==
  /\ \A r \in Runs : queue[r] # "none" => r \in used
  /\ \A p \in Procs : proc[p].run \in used \cup {None}
  /\ \A a \in pending : a.run \in used /\ a.id <= issued
  /\ \A b \in resolved : b.request.id <= issued
  /\ \A p \in Procs : Resolving(proc[p]) => proc[p].request.id <= issued

------------------------------------------------------------------------------
(* Approvals. *)

\* As long as nobody interferes with it, a run is executed or resolved by one process.
\* A request that is being resolved is pending and has not been resolved before, and
\* nobody pauses a run that has been granted.
Alone(r) == \A p, q \in WorkingOn(r) : p = q \/ proc[p].cmd = "ask" \/ proc[q].cmd = "ask"
ResolvedOnce(r) ==
  /\ \A a \in pending, b \in resolved : a.run = r /\ b.request = a =>
       \E p \in WorkingOn(r) : At(p, "unlink") /\ proc[p].request = a
  /\ \A p \in WorkingOn(r) : Resolving(proc[p]) => proc[p].request \in pending
Granted(r) == r \in granted => Override(r) /\ \A p \in WorkingOn(r) : ~Pausing(proc[p])

NInv == \A r \in Runs \ disturbed : Alone(r) /\ ResolvedOnce(r) /\ Granted(r)

------------------------------------------------------------------------------
(* What waits. *)

Waits(r) ==
  task[r] = "awaiting_approval" =>
    /\ \/ \E a \in pending \cap GuardrailRequests : a.run = r
       \/ \E p \in WorkingOn(r) : Asking(proc[p]) /\ Executor(proc[p])
    /\ \A p \in WorkingOn(r) :
         proc[p].pc \in {"record", "unlink"} => proc[p].request.action # "run"

WInv == \A r \in Runs \ disturbed : Waits(r)

------------------------------------------------------------------------------
(* The budget. *)

Within(n) == HardLimit > 0 => Sum(charges, Unapproved) + n < HardLimit

\* An agent that is about to start has room for its units.
Room(r) == snap[r] # None /\ (snap[r].override \/ (snap[r].consumed = 0 /\ Within(snap[r].units)))

\* What a process that alone counts has read is so.
Reads(x) ==
  /\ x.pc = "publish" /\ x.then = "load" => x.seen = Consumed
  /\ x.pc = "load" => total = Consumed
  /\ x.pc = "evaluate" => x.seen = Consumed
  /\ Cleared(x) => Room(x.run)

BInv ==
  ~crowded =>
    /\ \A p, q \in Procs : Counting(p) /\ Counting(q) => p = q
    /\ \A p \in Procs : Reads(proc[p])
    /\ Within(0)

------------------------------------------------------------------------------
(* Sums. *)

\* One member may be added and have up to n; the others have what they had.
LEMMA SumChanges ==
  ASSUME NEW S, NEW T, NEW f, NEW g, NEW x, NEW n \in Nat, IsFiniteSet(Bill(f, S)),
         \A y \in T : y # x => y \in S /\ g[y] = f[y],
         x \in T => g[x] \in Nat /\ g[x] <= n
  PROVE  /\ IsFiniteSet(Bill(g, T)) /\ Sum(f, S) \in Nat /\ Sum(g, T) \in Nat
         /\ Sum(g, T) <= Sum(f, S) + n
<1> DEFINE A == Bill(f, S)
           B == {x} \X (1 .. n)
<1>1. IsFiniteSet(B) /\ Cardinality(B) = n
  <2>1. IsFiniteSet(1 .. n) /\ Cardinality(1 .. n) = n
    BY FS_Interval
  <2>2. IsFiniteSet({x}) /\ Cardinality({x}) = 1
    BY FS_Singleton
  <2>3. IsFiniteSet(B) /\ Cardinality(B) = Cardinality({x}) * Cardinality(1 .. n)
    BY <2>1, <2>2, FS_Product
  <2> QED
    BY <2>1, <2>2, <2>3
<1>2. Bill(g, T) \subseteq A \cup B
  <2>1. ASSUME NEW y \in T, NEW e \in {y} \X (1 .. g[y]) PROVE e \in A \cup B
    <3>1. CASE y = x
      <4>1. 1 .. g[x] \subseteq 1 .. n
        BY <3>1
      <4> QED
        BY <2>1, <3>1, <4>1
    <3>2. CASE y # x
      BY <2>1, <3>2 DEF Bill
    <3> QED
      BY <3>1, <3>2
  <2> QED
    BY <2>1 DEF Bill
<1> HIDE DEF A, B
<1>3. /\ IsFiniteSet(A \cup B) /\ Cardinality(A) \in Nat /\ Cardinality(B) \in Nat
      /\ Cardinality(A \cup B) = Cardinality(A) + Cardinality(B) - Cardinality(A \cap B)
      /\ Cardinality(A \cap B) \in Nat
  <2>1. IsFiniteSet(A)
    BY DEF A
  <2>2. IsFiniteSet(A \cap B)
    BY <2>1, FS_Intersection
  <2> QED
    BY <1>1, <2>1, <2>2, FS_Union, FS_CardinalityType
<1>4. IsFiniteSet(Bill(g, T)) /\ Cardinality(Bill(g, T)) <= Cardinality(A \cup B)
  BY <1>2, <1>3, FS_Subset
<1>5. Cardinality(Bill(g, T)) \in Nat
  BY <1>4, FS_CardinalityType
<1>6. Sum(f, S) = Cardinality(A) /\ Sum(g, T) = Cardinality(Bill(g, T))
  BY DEF Sum, Bill, A
<1> QED
  BY <1>1, <1>3, <1>4, <1>5, <1>6

\* The units of a run are a number: what its agent, mode and flags cost.
LEMMA UnitsCounted == ASSUME asks \in Tasks, NEW r \in Runs PROVE Units(r) \in Nat
<1> DEFINE S == asks[r].flags
           f == [x \in S |-> {x} \X (1 .. FlagCost[x])]
           T == {f[x] : x \in S}
<1>1. IsFiniteSet(S) /\ \A x \in S : FlagCost[x] \in Nat
  BY PolicyAssumption
<1>2. IsFiniteSet(T)
  <2>1. f \in Surjection(S, T)
    BY DEF Surjection
  <2> QED
    BY <1>1, <2>1, FS_Surjection
<1>3. ASSUME NEW x \in S PROVE IsFiniteSet(f[x])
  <2>1. 1 \in Int /\ FlagCost[x] \in Int
    BY <1>1
  <2>2. IsFiniteSet(1 .. FlagCost[x])
    BY <2>1, FS_Interval
  <2>3. IsFiniteSet({x})
    BY FS_Singleton
  <2> QED
    BY <2>2, <2>3, FS_Product
<1>4. IsFiniteSet(UNION T)
  BY <1>2, <1>3, FS_UNION
<1>5. UNION T = UNION {{x} \X (1 .. FlagCost[x]) : x \in S}
  OBVIOUS
<1>6. Sum(FlagCost, S) \in Nat
  BY <1>4, <1>5, FS_CardinalityType DEF Sum
<1> QED
  BY <1>6, PolicyAssumption DEF Units, Larger

------------------------------------------------------------------------------
(* Steps of one process. *)

LEMMA IdleShape == Idle \in Proc /\ Shape(Idle)
  BY DEF Idle, Proc, Shape, PCs, TaskStatuses, Decisions, Refreshing, Asking, Resolving, Executor

\* A process takes a step, and goes on with its run or is through.
Tame(p, x) == Set(p, x) /\ x \in Proc /\ Shape(x) /\ (x = Idle \/ (x.run = proc[p].run /\ x.cmd = proc[p].cmd))

LEMMA HandTyped == ASSUME TInv, NEW p \in Procs PROVE proc[p] \in Proc /\ Shape(proc[p])
  BY DEF TInv, TypeOK

LEMMA CollectMoves ==
  ASSUME TInv, NEW p \in Procs, Collect(p)
  PROVE  \E x : Tame(p, x) /\ x.pc = "publish" /\ x.then = proc[p].then /\ x.seen = Consumed
<1> DEFINE x == [proc[p] EXCEPT !.pc = "publish", !.seen = Consumed]
<1>1. Consumed \in Nat
  BY FS_CardinalityType DEF TInv, Consumed, Sum, Bill
<1>2. proc[p] \in Proc /\ Shape(proc[p])
  BY HandTyped
<1>3. x \in Proc /\ x.pc = "publish" /\ x.then = proc[p].then /\ x.seen = Consumed /\ x.run = proc[p].run /\ x.cmd = proc[p].cmd
  BY <1>1, <1>2 DEF Proc, PCs
<1>4. Set(p, x) /\ proc[p].pc = "collect"
  BY DEF Collect, At
<1> HIDE DEF x
<1>5. Shape(x)
  BY <1>2, <1>3, <1>4 DEF Shape, Refreshing, Asking, Resolving, Executor
<1> QED
  BY <1>3, <1>4, <1>5 DEF Tame

LEMMA PublishMoves ==
  ASSUME TInv, NEW p \in Procs, Publish(p)
  PROVE  \E x : Tame(p, x) /\ proc[p].pc = "publish" /\ (x = Idle \/ (x.pc = proc[p].then /\ x.then = "idle" /\ x.pc # "idle"))
<1>1. proc[p] \in Proc /\ Shape(proc[p]) /\ proc[p].pc = "publish"
  BY HandTyped DEF Publish, At
<1>2. CASE proc[p].then = "idle"
  BY <1>1, <1>2, IdleShape DEF Publish, Ends, Tame
<1>3. CASE proc[p].then # "idle"
  <2> DEFINE x == [proc[p] EXCEPT !.pc = proc[p].then, !.then = "idle", !.seen = 0]
  <2>1. x \in Proc /\ x.pc = proc[p].then /\ x.then = "idle" /\ x.run = proc[p].run /\ x.cmd = proc[p].cmd
    BY <1>1 DEF Proc, PCs
  <2>2. Set(p, x)
    BY <1>3 DEF Publish
  <2> HIDE DEF x
  <2>3. Shape(x)
    BY <1>1, <1>3, <2>1 DEF Shape, Refreshing, Asking, Resolving, Executor
  <2> QED
    BY <1>1, <1>3, <2>1, <2>2, <2>3 DEF Tame
<1> QED
  BY <1>2, <1>3

LEMMA LoadMoves ==
  ASSUME TInv, NEW p \in Procs, Load(p)
  PROVE  \E x : Tame(p, x) /\ proc[p].pc = "load" /\ x.pc = "evaluate" /\ x.seen = total
<1> DEFINE x == [proc[p] EXCEPT !.pc = "evaluate", !.seen = total]
<1>1. proc[p] \in Proc /\ Shape(proc[p]) /\ proc[p].pc = "load" /\ total \in Nat
  BY HandTyped DEF Load, At, TInv, TypeOK
<1>2. x \in Proc /\ x.pc = "evaluate" /\ x.seen = total /\ x.run = proc[p].run /\ x.cmd = proc[p].cmd
  BY <1>1 DEF Proc, PCs
<1>3. Set(p, x)
  BY DEF Load
<1> HIDE DEF x
<1>4. Shape(x)
  BY <1>1, <1>2 DEF Shape, Refreshing, Asking, Resolving, Executor
<1> QED
  BY <1>1, <1>2, <1>3, <1>4 DEF Tame

\* The snapshot that Evaluate writes.
New(p) == Evaluation(proc[p].run, proc[p].seen, Override(proc[p].run))

LEMMA EvaluateMoves ==
  ASSUME TInv, NEW p \in Procs, Evaluate(p)
  PROVE  \E x : /\ Tame(p, x) /\ proc[p].pc = "evaluate" /\ x.pc = "collect" /\ Executor(x)
                /\ x.then = IF New(p).decision = "pause" THEN "mark" ELSE "execute"
<1> DEFINE x == Refresh([proc[p] EXCEPT !.seen = 0], IF New(p).decision = "pause" THEN "mark" ELSE "execute")
<1>1. proc[p] \in Proc /\ Shape(proc[p]) /\ proc[p].pc = "evaluate"
  BY HandTyped DEF Evaluate, At
<1>2. /\ x \in Proc /\ x.pc = "collect" /\ x.run = proc[p].run /\ x.cmd = proc[p].cmd
      /\ x.then = IF New(p).decision = "pause" THEN "mark" ELSE "execute"
  BY <1>1 DEF Proc, PCs, Refresh
<1>3. Set(p, x)
  BY DEF Evaluate, New
<1> HIDE DEF x
<1>4. Shape(x) /\ Executor(x)
  BY <1>1, <1>2 DEF Shape, Refreshing, Asking, Resolving, Executor
<1> QED
  BY <1>1, <1>2, <1>3, <1>4 DEF Tame

\* The request of a guardrail.
GuardrailsRequest(r) == [id |-> 1, run |-> r, action |-> "run", source |-> "guardrail"]

LEMMA MarkMoves ==
  ASSUME TInv, NEW p \in Procs, Mark(p)
  PROVE  \E x : Tame(p, x) /\ proc[p].pc = "mark" /\ x.pc = "scan" /\ Executor(x)
<1> DEFINE x == [proc[p] EXCEPT !.pc = "scan", !.request = GuardrailsRequest(proc[p].run)]
           q == GuardrailsRequest(proc[p].run)
<1>1. proc[p] \in Proc /\ Shape(proc[p]) /\ proc[p].pc = "mark" /\ proc[p].run \in Runs
  BY HandTyped DEF Mark, At, Shape, Executor
<1>2. q \in Requests /\ q.run = proc[p].run /\ q.id = 1 /\ q.action = "run" /\ q.source = "guardrail"
  BY <1>1, BoundAssumption DEF GuardrailsRequest, Requests, Actions, Sources
<1>3. Set(p, x)
  BY DEF Mark, GuardrailsRequest
<1> HIDE DEF q
<1>4. x \in Proc /\ x.pc = "scan" /\ x.run = proc[p].run /\ x.cmd = proc[p].cmd /\ x.request = q
  BY <1>1, <1>2 DEF Proc, PCs, q
<1> HIDE DEF x
<1>5. Shape(x) /\ Executor(x)
  BY <1>1, <1>2, <1>4 DEF Shape, Refreshing, Asking, Resolving, Executor
<1> QED
  BY <1>1, <1>3, <1>4, <1>5 DEF Tame

\* After its request a worker parks the item, a direct execution refreshes the budget.
LEMMA AskedMoves ==
  ASSUME TInv, NEW p \in Procs, Asking(proc[p]), Set(p, AfterAsking(proc[p]))
  PROVE  \E x : Tame(p, x) /\ (x.pc \in {"idle", "park"} \/ (x.pc = "collect" /\ x.then = "idle"))
<1>1. proc[p] \in Proc /\ Shape(proc[p])
  BY HandTyped
<1>2. CASE proc[p].cmd = "worker"
  <2> DEFINE x == [proc[p] EXCEPT !.pc = "park", !.request = None]
  <2>1. x \in Proc /\ x.pc = "park" /\ x.run = proc[p].run /\ x.cmd = proc[p].cmd
    BY <1>1 DEF Proc, PCs
  <2>2. Set(p, x)
    BY <1>2 DEF AfterAsking
  <2> HIDE DEF x
  <2>3. Shape(x)
    BY <1>1, <1>2, <2>1 DEF Shape, Refreshing, Asking, Resolving, Executor
  <2> QED
    BY <2>1, <2>2, <2>3 DEF Tame
<1>3. CASE proc[p].cmd = "direct"
  <2> DEFINE x == Refresh([proc[p] EXCEPT !.request = None], "idle")
  <2>1. x \in Proc /\ x.pc = "collect" /\ x.then = "idle" /\ x.run = proc[p].run /\ x.cmd = proc[p].cmd
    BY <1>1 DEF Proc, PCs, Refresh
  <2>2. Set(p, x)
    BY <1>3 DEF AfterAsking
  <2> HIDE DEF x
  <2>3. Shape(x)
    BY <1>1, <1>3, <2>1 DEF Shape, Refreshing, Asking, Resolving, Executor
  <2> QED
    BY <2>1, <2>2, <2>3 DEF Tame
<1>4. CASE proc[p].cmd \notin {"worker", "direct"}
  <2>1. Set(p, Idle) /\ Idle.pc = "idle"
    BY <1>4 DEF AfterAsking, Idle
  <2> QED
    BY <2>1, IdleShape DEF Tame
<1> QED
  BY <1>2, <1>3, <1>4

LEMMA ScanMoves ==
  ASSUME TInv, NEW p \in Procs, Scan(p)
  PROVE  /\ proc[p].pc = "scan"
         /\ \E x : /\ Tame(p, x)
                   /\ \/ /\ \E a \in pending : [a EXCEPT !.id = 1] = proc[p].request
                         /\ x.pc \in {"idle", "park"} \/ (x.pc = "collect" /\ x.then = "idle")
                      \/ x.pc = "create"
<1>1. proc[p] \in Proc /\ Shape(proc[p]) /\ proc[p].pc = "scan" /\ Asking(proc[p])
  BY HandTyped DEF Scan, At, Asking
<1>2. CASE (\E a \in pending : [a EXCEPT !.id = 1] = proc[p].request) /\ Set(p, AfterAsking(proc[p]))
  BY <1>1, <1>2, AskedMoves
<1>3. CASE Goes(p, "create")
  <2> DEFINE x == [proc[p] EXCEPT !.pc = "create"]
  <2>1. x \in Proc /\ x.pc = "create" /\ x.run = proc[p].run /\ x.cmd = proc[p].cmd /\ x.request = proc[p].request
    BY <1>1 DEF Proc, PCs
  <2>2. Set(p, x)
    BY <1>3 DEF Goes
  <2> HIDE DEF x
  <2>3. Shape(x)
    BY <1>1, <2>1 DEF Shape, Refreshing, Asking, Resolving, Executor
  <2> QED
    BY <1>1, <2>1, <2>2, <2>3 DEF Tame
<1> QED
  BY <1>2, <1>3 DEF Scan

LEMMA CreateMoves ==
  ASSUME TInv, NEW p \in Procs, Create(p)
  PROVE  /\ proc[p].pc = "create"
         /\ \E x : Tame(p, x) /\ (x.pc \in {"idle", "park"} \/ (x.pc = "collect" /\ x.then = "idle"))
         /\ \E a \in Requests : /\ pending' = pending \cup {a} /\ a.id = issued + 1 /\ a.run = proc[p].run
                                /\ Executor(proc[p]) => a \in GuardrailRequests
<1>1. proc[p] \in Proc /\ Shape(proc[p]) /\ proc[p].pc = "create" /\ Asking(proc[p])
  BY HandTyped DEF Create, At, Asking
<1>2. Set(p, AfterAsking(proc[p]))
  BY DEF Create
<1> DEFINE q == proc[p].request
           a == [q EXCEPT !.id = issued + 1]
<1>3. /\ q \in Requests /\ q.run = proc[p].run /\ (Executor(proc[p]) => q.action = "run" /\ q.source = "guardrail")
      /\ issued + 1 \in 1 .. MaxRequests
  BY <1>1, BoundAssumption DEF Shape, Create, TInv, TypeOK
<1>4. pending' = pending \cup {a}
  BY DEF Create
<1> HIDE DEF q
<1>5. a \in Requests /\ a.id = issued + 1 /\ a.run = q.run /\ a.action = q.action /\ a.source = q.source
  BY <1>3 DEF Requests
<1> HIDE DEF a
<1>6. Executor(proc[p]) => a \in GuardrailRequests
  BY <1>3, <1>5 DEF GuardrailRequests
<1> QED
  BY <1>1, <1>2, <1>3, <1>4, <1>5, <1>6, AskedMoves

LEMMA ParkMoves ==
  ASSUME TInv, NEW p \in Procs, Park(p)
  PROVE  proc[p].pc = "park" /\ \E x : Tame(p, x) /\ x.pc = "collect" /\ x.then = "idle"
<1> DEFINE x == Refresh(proc[p], "idle")
<1>1. proc[p] \in Proc /\ Shape(proc[p]) /\ proc[p].pc = "park"
  BY HandTyped DEF Park, At
<1>2. x \in Proc /\ x.pc = "collect" /\ x.then = "idle" /\ x.run = proc[p].run /\ x.cmd = proc[p].cmd
  BY <1>1 DEF Proc, PCs, Refresh
<1>3. Set(p, x)
  BY DEF Park
<1> HIDE DEF x
<1>4. Shape(x)
  BY <1>1, <1>2 DEF Shape, Refreshing, Asking, Resolving, Executor
<1> QED
  BY <1>1, <1>2, <1>3, <1>4 DEF Tame

LEMMA ExecuteMoves ==
  ASSUME TInv, NEW p \in Procs, Execute(p)
  PROVE  /\ proc[p].pc = "execute"
         /\ \E x : Tame(p, x) /\ x.pc = "collect" /\ x.then \in {"settle", "idle"}
         /\ \E code \in 0 .. 2 : snap' = [snap EXCEPT ![proc[p].run] = Charged(@, code)]
<1>1. proc[p] \in Proc /\ Shape(proc[p]) /\ proc[p].pc = "execute"
  BY HandTyped DEF Execute, At
<1>2. PICK code \in 0 .. 2 :
        /\ snap' = [snap EXCEPT ![proc[p].run] = Charged(@, code)]
        /\ Set(p, IF proc[p].cmd = "worker" THEN Refresh([proc[p] EXCEPT !.code = code], "settle")
                                            ELSE Refresh(proc[p], "idle"))
  BY DEF Execute
<1>3. CASE proc[p].cmd = "worker"
  <2> DEFINE x == Refresh([proc[p] EXCEPT !.code = code], "settle")
  <2>1. x \in Proc /\ x.pc = "collect" /\ x.then = "settle" /\ x.run = proc[p].run /\ x.cmd = proc[p].cmd
    BY <1>1 DEF Proc, PCs, Refresh
  <2>2. Set(p, x)
    BY <1>2, <1>3
  <2> HIDE DEF x
  <2>3. Shape(x)
    BY <1>1, <1>3, <2>1 DEF Shape, Refreshing, Asking, Resolving, Executor
  <2> QED
    BY <1>1, <1>2, <2>1, <2>2, <2>3 DEF Tame
<1>4. CASE proc[p].cmd # "worker"
  <2> DEFINE x == Refresh(proc[p], "idle")
  <2>1. x \in Proc /\ x.pc = "collect" /\ x.then = "idle" /\ x.run = proc[p].run /\ x.cmd = proc[p].cmd
    BY <1>1 DEF Proc, PCs, Refresh
  <2>2. Set(p, x)
    BY <1>2, <1>4
  <2> HIDE DEF x
  <2>3. Shape(x)
    BY <1>1, <2>1 DEF Shape, Refreshing, Asking, Resolving, Executor
  <2> QED
    BY <1>1, <1>2, <2>1, <2>2, <2>3 DEF Tame
<1> QED
  BY <1>3, <1>4

\* Whoever resolves a request goes on with it, or is through with it.
LEMMA ResolverMoves ==
  ASSUME TInv, NEW p \in Procs, Resolving(proc[p]), NEW pc \in {"status", "record", "unlink"}, Goes(p, pc)
  PROVE  \E x : Tame(p, x) /\ x.pc = pc /\ x.request = proc[p].request
<1> DEFINE x == [proc[p] EXCEPT !.pc = pc]
<1>1. proc[p] \in Proc /\ Shape(proc[p])
  BY HandTyped
<1>2. /\ x \in Proc /\ x.pc = pc /\ x.run = proc[p].run /\ x.cmd = proc[p].cmd
      /\ x.request = proc[p].request /\ x.status = proc[p].status
  BY <1>1 DEF Proc, PCs
<1>3. Set(p, x)
  BY DEF Goes
<1> HIDE DEF x
<1>4. Shape(x)
  BY <1>1, <1>2 DEF Shape, Refreshing, Asking, Resolving, Executor
<1> QED
  BY <1>1, <1>2, <1>3, <1>4 DEF Tame

LEMMA EndMoves == ASSUME NEW p \in Procs, Ends(p) PROVE Tame(p, Idle)
  BY IdleShape DEF Ends, Tame

\* A step brings nobody closer to an agent or to a pause, unless it evaluates a run, and
\* leaves a request to the one who resolves it.
LEMMA StepMoves ==
  ASSUME TInv, NEW p \in Procs, Step(p) \/ Crash(p)
  PROVE  \E x : /\ Tame(p, x)
                /\ Resolving(x) => Resolving(proc[p]) /\ x.request = proc[p].request
                /\ ~Evaluate(p) => (Cleared(x) => Cleared(proc[p])) /\ (Pausing(x) => Pausing(proc[p]))
<1>1. CASE Collect(p)
  BY <1>1, CollectMoves DEF Collect, At, Cleared, Pausing, Refreshing, Resolving
<1>2. CASE Publish(p)
  BY <1>2, PublishMoves, HandTyped DEF Cleared, Pausing, Refreshing, Resolving, Shape, Idle
<1>3. CASE Load(p) \/ Evaluate(p) \/ Mark(p)
  BY <1>3, LoadMoves, EvaluateMoves, MarkMoves DEF Cleared, Pausing, Refreshing, Resolving
<1>4. CASE Scan(p) \/ Create(p)
  BY <1>4, ScanMoves, CreateMoves DEF Cleared, Pausing, Refreshing, Resolving
<1>5. CASE Park(p) \/ Execute(p)
  BY <1>5, ParkMoves, ExecuteMoves DEF Cleared, Pausing, Refreshing, Resolving
<1>6. CASE Settle(p) \/ Unlink(p) \/ Crash(p)
  BY <1>6, EndMoves DEF Settle, Unlink, Crash, Cleared, Pausing, Refreshing, Resolving, Idle
<1>7. CASE Drop(p) \/ Status(p) \/ Record(p)
  BY <1>7, ResolverMoves DEF Drop, Status, Record, At, Cleared, Pausing, Refreshing, Resolving
<1>8. CASE Release(p)
  <2>1. Goes(p, "status") \/ Ends(p)
    BY <1>8 DEF Release
  <2> QED
    BY <1>8, <2>1, EndMoves, ResolverMoves DEF Release, At, Cleared, Pausing, Refreshing, Resolving, Idle
<1> QED
  BY <1>1, <1>2, <1>3, <1>4, <1>5, <1>6, <1>7, <1>8 DEF Step

\* Executions begin with a refresh of the budget ...
LEMMA ExecutionBegins ==
  ASSUME NEW r \in Runs, NEW cmd \in {"worker", "direct"}
  PROVE  LET x == Refresh([Idle EXCEPT !.cmd = cmd, !.run = r], "load")
         IN  x \in Proc /\ Shape(x) /\ x.pc = "collect" /\ x.then = "load" /\ x.run = r /\ x.cmd = cmd
<1> DEFINE x == Refresh([Idle EXCEPT !.cmd = cmd, !.run = r], "load")
<1>1. x \in Proc /\ x.pc = "collect" /\ x.then = "load" /\ x.run = r /\ x.cmd = cmd
  BY IdleShape DEF Proc, PCs, Refresh
<1> HIDE DEF x
<1>2. Shape(x)
  BY <1>1 DEF Shape, Refreshing, Asking, Resolving, Executor
<1> QED
  BY <1>1, <1>2 DEF x

LEMMA DashboardBegins ==
  LET x == Refresh([Idle EXCEPT !.cmd = "dashboard"], "idle")
  IN  x \in Proc /\ Shape(x) /\ x.pc = "collect" /\ x.then = "idle" /\ x.run = None /\ x.cmd = "dashboard"
<1> DEFINE x == Refresh([Idle EXCEPT !.cmd = "dashboard"], "idle")
<1>1. x \in Proc /\ x.pc = "collect" /\ x.then = "idle" /\ x.run = None /\ x.cmd = "dashboard"
  BY IdleShape DEF Proc, PCs, Refresh, Idle
<1> HIDE DEF x
<1>2. Shape(x)
  BY <1>1 DEF Shape, Refreshing, Asking, Resolving, Executor
<1> QED
  BY <1>1, <1>2 DEF x

\* ... a person who asks looks for the request first ...
LEMMA AskBegins ==
  ASSUME NEW p, NEW r \in Runs, AskHuman(p, r)
  PROVE  \E x : Set(p, x) /\ x \in Proc /\ Shape(x) /\ x.pc = "scan" /\ x.run = r /\ x.cmd = "ask"
<1>1. PICK action \in Actions :
        Set(p, [Idle EXCEPT !.pc = "scan", !.cmd = "ask", !.run = r,
                  !.request = [id |-> 1, run |-> r, action |-> action, source |-> "human"]])
  BY DEF AskHuman
<1> DEFINE q == [id |-> 1, run |-> r, action |-> action, source |-> "human"]
           x == [Idle EXCEPT !.pc = "scan", !.cmd = "ask", !.run = r, !.request = q]
<1>2. q \in Requests /\ q.run = r /\ q.id = 1
  BY BoundAssumption DEF Requests, Sources
<1>3. Set(p, x)
  BY <1>1
<1> HIDE DEF q
<1>4. x \in Proc /\ x.pc = "scan" /\ x.run = r /\ x.cmd = "ask" /\ x.request = q
  BY <1>2, IdleShape DEF Proc, PCs
<1> HIDE DEF x
<1>5. Shape(x)
  BY <1>2, <1>4 DEF Shape, Refreshing, Asking, Resolving, Executor
<1> QED
  BY <1>3, <1>4, <1>5

\* ... and one who decides has read a pending request.
LEMMA ResolveBegins ==
  ASSUME TInv, NEW p, Resolve(p)
  PROVE  \E a \in pending : \E x :
           /\ Set(p, x) /\ x \in Proc /\ Shape(x) /\ Resolving(x) /\ x.run = a.run /\ x.request = a /\ x.cmd = "resolve"
           /\ x.pc \in {"record", "unlink"} => a.action # "run"
           /\ Meets(p, a.run)
<1> DEFINE first(a, d) == CASE a.action = "retry" /\ d = "approved" -> <<"drop", "todo">>
                            [] a.action = "accept" /\ d = "approved" -> <<"status", "done">>
                            [] a.action = "run" /\ d = "approved" -> <<"release", "queued">>
                            [] a.action = "run" /\ d = "rejected" -> <<"status", "blocked">>
                            [] OTHER -> <<"record", "todo">>
<1>1. PICK a \in pending, d \in Decisions :
        /\ Set(p, [Idle EXCEPT !.pc = first(a, d)[1], !.cmd = "resolve", !.run = a.run,
                     !.request = a, !.decision = d, !.status = first(a, d)[2]])
        /\ Meets(p, a.run)
  BY DEF Resolve
<1>2. PICK pc, status : /\ pc = first(a, d)[1] /\ status = first(a, d)[2]
                        /\ pc \in {"drop", "release", "status", "record"}
                        /\ status \in TaskStatuses /\ status # "awaiting_approval"
                        /\ pc = "record" => a.action # "run"
  BY DEF TaskStatuses, Decisions
<1>3. a \in Requests /\ a.run \in Runs
  BY DEF TInv, TypeOK, Requests
<1> HIDE DEF first
<1> DEFINE x == [Idle EXCEPT !.pc = pc, !.cmd = "resolve", !.run = a.run, !.request = a, !.decision = d, !.status = status]
<1>4. /\ x \in Proc /\ x.pc = pc /\ x.run = a.run /\ x.cmd = "resolve" /\ x.request = a /\ x.status = status
  BY <1>2, <1>3, IdleShape DEF Proc, PCs
<1>5. Set(p, x)
  BY <1>1, <1>2
<1> HIDE DEF x
<1>6. Shape(x) /\ Resolving(x)
  BY <1>2, <1>3, <1>4 DEF Shape, Refreshing, Asking, Resolving, Executor
<1> QED
  BY <1>1, <1>2, <1>4, <1>5, <1>6

------------------------------------------------------------------------------
(* Types. *)

\* Everything but what the processes have in hand.
Board ==
  /\ asks \in Tasks
  /\ queue \in [Runs -> QueueStates] /\ attempts \in [Runs -> Nat]
  /\ used \subseteq Runs /\ snap \in [Runs -> Snapshot \cup {None}] /\ total \in Nat
  /\ pending \subseteq Requests /\ resolved \subseteq Resolutions
  /\ task \in [Runs -> TaskStatuses]
  /\ issued \in 0 .. MaxRequests /\ commands \in 0 .. MaxCommands /\ crashes \in 0 .. MaxCrashes
  /\ crowded \in BOOLEAN /\ granted \subseteq Runs /\ disturbed \subseteq Runs
  /\ IsFiniteSet(Bill(charges, Runs))

LEMMA BoardTyped ==
  TInv <=> /\ Board /\ proc \in [Procs -> Proc] /\ \A p \in Procs : Shape(proc[p])
           /\ \A p \in Procs : Cleared(proc[p]) => snap[proc[p].run] # None
  BY DEF TInv, TypeOK, Board

LEMMA HandsTyped ==
  ASSUME TInv, NEW p, NEW x \in Proc, Shape(x), Set(p, x)
  PROVE  proc' \in [Procs -> Proc] /\ (\A q \in Procs : Shape(proc'[q])) /\ \A q \in Procs : proc'[q] = IF q = p THEN x ELSE proc[q]
<1>1. proc \in [Procs -> Proc] /\ \A q \in Procs : Shape(proc[q])
  BY DEF TInv, TypeOK
<1>2. \A q \in Procs : proc'[q] = IF q = p THEN x ELSE proc[q]
  BY <1>1 DEF Set
<1>3. proc' \in [Procs -> Proc]
  BY <1>1 DEF Set
<1> QED
  BY <1>1, <1>2, <1>3

LEMMA QueueTyped ==
  ASSUME Board, NEW r \in Runs, NEW s \in QueueStates
  PROVE  [queue EXCEPT ![r] = s] \in [Runs -> QueueStates]
  BY DEF Board

LEMMA MoveTyped ==
  ASSUME Board, NEW r \in Runs, NEW s \in QueueStates, Moves(r, s)
  PROVE  queue' \in [Runs -> QueueStates]
<1>1. PICK q \in QueueStates : queue' = [queue EXCEPT ![r] = q]
  <2>1. (CASE queue[r] = "running" -> s [] queue[r] = "none" -> "stub" [] OTHER -> queue[r]) \in QueueStates
    BY DEF Board, QueueStates
  <2> QED
    BY <2>1 DEF Moves
<1> QED
  BY <1>1, QueueTyped

\* The snapshot of one run is written.
LEMMA SnapTyped ==
  ASSUME Board, NEW r \in Runs, NEW s \in Snapshot, snap' = [snap EXCEPT ![r] = s]
  PROVE  /\ snap' \in [Runs -> Snapshot \cup {None}] /\ IsFiniteSet(Bill(charges, Runs))'
         /\ \A q \in Runs : charges'[q] = IF q = r THEN s.consumed ELSE charges[q]
<1>1. snap' \in [Runs -> Snapshot \cup {None}]
  BY DEF Board
<1>2. s # None /\ s.consumed \in Nat
  BY NoneAssumption DEF Snapshot
<1>3. \A q \in Runs : charges'[q] = IF q = r THEN s.consumed ELSE charges[q]
  BY <1>2 DEF charges, Board
<1>4. PICK f, g : f = charges /\ g = charges'
  OBVIOUS
<1>5. IsFiniteSet(Bill(f, Runs)) /\ \A y \in Runs : y # r => y \in Runs /\ g[y] = f[y]
  BY <1>3, <1>4 DEF Board
<1>6. r \in Runs => g[r] \in Nat /\ g[r] <= s.consumed
  BY <1>2, <1>3, <1>4
<1>7. IsFiniteSet(Bill(g, Runs))
  BY <1>2, <1>5, <1>6, SumChanges
<1> QED
  BY <1>1, <1>3, <1>4, <1>7 DEF Bill

LEMMA EvaluationTyped ==
  ASSUME asks \in Tasks, NEW r \in Runs, NEW c, NEW o \in BOOLEAN
  PROVE  LET s == Evaluation(r, c, o)
         IN  s \in Snapshot /\ s.units = Units(r) /\ s.consumed = 0 /\ s.override = o
<1> DEFINE s == Evaluation(r, c, o)
<1>1. Units(r) \in Nat
  BY UnitsCounted
<1>2. PICK d : s = [decision |-> d, units |-> Units(r), consumed |-> 0, override |-> o] /\ d \in {"allow", "warn", "pause"}
  BY DEF Evaluation
<1> QED
  BY <1>1, <1>2 DEF Snapshot

LEMMA ChargedTyped ==
  ASSUME NEW s \in Snapshot, NEW code
  PROVE  LET t == Charged(s, code)
         IN  /\ t \in Snapshot /\ t.units = s.units /\ t.override = s.override
             /\ t.consumed \in {s.consumed, s.units}
  BY DEF Charged, Snapshot

LEMMA BoardStep == ASSUME TInv, NEW p \in Procs, Step(p) \/ Crash(p) PROVE Board'
<1>1. Board /\ proc[p] \in Proc /\ Shape(proc[p])
  BY BoardTyped, HandTyped
<1>2. ASSUME UNCHANGED snap, IsFiniteSet(Bill(charges, Runs)) PROVE IsFiniteSet(Bill(charges, Runs))'
  BY <1>2 DEF charges, Bill
<1>3. CASE Collect(p) \/ Load(p) \/ Scan(p)
  BY <1>1, <1>2, <1>3 DEF Board, Collect, Load, Scan, files, ghosts
<1>4. CASE Publish(p)
  BY <1>1, <1>2, <1>4 DEF Board, Publish, ghosts, Proc
<1>5. CASE Evaluate(p)
  <2>1. PICK r, s : r = proc[p].run /\ s = New(p)
    OBVIOUS
  <2>2. r \in Runs /\ s \in Snapshot /\ snap' = [snap EXCEPT ![r] = s]
    <3>1. asks \in Tasks /\ r \in Runs /\ Override(r) \in BOOLEAN
      BY <1>1, <1>5, <2>1 DEF Board, Evaluate, At, Shape, Executor, Override
    <3>2. s \in Snapshot
      BY <2>1, <3>1, EvaluationTyped DEF New
    <3> QED
      BY <1>5, <2>1, <3>1, <3>2 DEF Evaluate, New
  <2>3. snap' \in [Runs -> Snapshot \cup {None}] /\ IsFiniteSet(Bill(charges, Runs))'
    BY <1>1, <2>2, SnapTyped
  <2> QED
    BY <1>1, <1>5, <2>3 DEF Board, Evaluate, ghosts
<1>6. CASE Mark(p)
  BY <1>1, <1>2, <1>6 DEF Board, Mark, At, Shape, Executor, ghosts, TaskStatuses
<1>7. CASE Create(p)
  <2>1. \E a \in Requests : pending' = pending \cup {a}
    BY <1>7, CreateMoves
  <2>2. issued' \in 0 .. MaxRequests
    BY <1>1, <1>7, BoundAssumption DEF Board, Create
  <2> QED
    BY <1>1, <1>2, <1>7, <2>1, <2>2 DEF Board, Create, ghosts
<1>8. CASE Park(p)
  <2>1. proc[p].run \in Runs /\ "awaiting_approval" \in QueueStates /\ Moves(proc[p].run, "awaiting_approval")
    BY <1>1, <1>8 DEF Park, At, Shape, QueueStates
  <2>2. queue' \in [Runs -> QueueStates]
    BY <1>1, <2>1, MoveTyped
  <2> QED
    BY <1>1, <1>2, <1>8, <2>2 DEF Board, Park, files, ghosts
<1>9. CASE Execute(p)
  <2>1. PICK r, code : r = proc[p].run /\ snap' = [snap EXCEPT ![r] = Charged(@, code)]
    BY <1>9, ExecuteMoves
  <2>2. r \in Runs /\ snap[r] \in Snapshot
    BY <1>1, <1>9, <2>1, BoardTyped DEF Board, Execute, At, Cleared, Shape, Executor
  <2>3. PICK s : s = Charged(snap[r], code) /\ s \in Snapshot
    BY <2>2, ChargedTyped
  <2>4. snap' = [snap EXCEPT ![r] = s]
    BY <2>1, <2>3
  <2>5. snap' \in [Runs -> Snapshot \cup {None}] /\ IsFiniteSet(Bill(charges, Runs))'
    BY <1>1, <2>2, <2>3, <2>4, SnapTyped
  <2> QED
    BY <1>1, <1>9, <2>5 DEF Board, Execute, ghosts
<1>10. CASE Settle(p)
  <2>1. PICK r, s : r = proc[p].run /\ s \in {"done", "awaiting_approval", "pending", "failed"} /\ Moves(r, s)
    BY <1>10 DEF Settle
  <2>2. r \in Runs /\ s \in QueueStates
    BY <1>1, <1>10, <2>1 DEF Settle, At, Shape, QueueStates
  <2>3. queue' \in [Runs -> QueueStates]
    BY <1>1, <2>1, <2>2, MoveTyped
  <2> QED
    BY <1>1, <1>2, <1>10, <2>3 DEF Board, Settle, files, ghosts
<1>11. CASE Drop(p)
  <2>1. proc[p].run \in Runs /\ "none" \in QueueStates
    BY <1>1, <1>11 DEF Drop, At, Shape, Resolving, QueueStates
  <2>2. queue' \in [Runs -> QueueStates]
    BY <1>1, <1>11, <2>1, QueueTyped DEF Drop
  <2> QED
    BY <1>1, <1>2, <1>11, <2>2 DEF Board, Drop, files, ghosts
<1>12. CASE Release(p)
  <2>1. proc[p].run \in Runs /\ "pending" \in QueueStates
    BY <1>1, <1>12 DEF Release, At, Shape, Resolving, QueueStates
  <2>2. queue' \in [Runs -> QueueStates] /\ attempts' \in [Runs -> Nat]
    <3>1. CASE UNCHANGED <<asks, queue, attempts>>
      BY <1>1, <3>1 DEF Board
    <3>2. CASE ~UNCHANGED <<asks, queue, attempts>>
      <4>1. PICK r, n : /\ r = proc[p].run /\ n = IF queue[r] = "none" THEN 0 ELSE attempts[r]
                        /\ queue' = [queue EXCEPT ![r] = "pending"] /\ attempts' = [attempts EXCEPT ![r] = n]
        BY <1>12, <3>2 DEF Release
      <4>2. n \in Nat
        BY <1>1, <2>1, <4>1 DEF Board
      <4>3. queue' \in [Runs -> QueueStates]
        BY <1>1, <2>1, <4>1, QueueTyped
      <4>4. attempts' \in [Runs -> Nat]
        BY <1>1, <2>1, <4>1, <4>2 DEF Board
      <4> QED
        BY <4>3, <4>4
    <3> QED
      BY <3>1, <3>2
  <2> QED
    BY <1>1, <1>2, <1>12, <2>2 DEF Board, Release, files, ghosts
<1>13. CASE Status(p)
  <2>1. proc[p].run \in Runs /\ proc[p].status \in TaskStatuses
    BY <1>1, <1>13 DEF Status, At, Shape, Resolving, Proc
  <2> QED
    BY <1>1, <1>2, <1>13, <2>1 DEF Board, Status, ghosts
<1>14. CASE Record(p)
  <2>1. proc[p].run \in Runs /\ proc[p].request \in Requests /\ proc[p].decision \in Decisions
    BY <1>1, <1>14 DEF Record, At, Shape, Resolving, Proc
  <2>2. resolved' \subseteq Resolutions /\ granted' \subseteq Runs
    BY <1>1, <1>14, <2>1 DEF Board, Record, Resolutions
  <2> QED
    BY <1>1, <1>2, <1>14, <2>2 DEF Board, Record
<1>15. CASE Unlink(p)
  BY <1>1, <1>2, <1>15 DEF Board, Unlink, ghosts
<1>16. CASE Crash(p)
  <2>1. proc[p].run \in Runs \cup {None} /\ crashes' \in 0 .. MaxCrashes
    BY <1>1, <1>16, BoundAssumption DEF Board, Crash, Proc
  <2> QED
    BY <1>1, <1>2, <1>16, <2>1 DEF Board, Crash, files
<1> QED
  BY <1>3, <1>4, <1>5, <1>6, <1>7, <1>8, <1>9, <1>10, <1>11, <1>12, <1>13, <1>14, <1>15, <1>16 DEF Step

\* Who has evaluated a run has left its snapshot.
LEMMA SnappedKept ==
  ASSUME TInv, Board', NEW p \in Procs, NEW x, Tame(p, x), Cleared(x) => Cleared(proc[p]),
         \A r \in Runs : snap[r] # None => snap'[r] # None
  PROVE  TInv'
<1>1. /\ proc' \in [Procs -> Proc] /\ \A q \in Procs : Shape(proc'[q])
      /\ \A q \in Procs : proc'[q] = IF q = p THEN x ELSE proc[q]
  BY HandsTyped DEF Tame
<1>2. ASSUME NEW q \in Procs, Cleared(proc'[q]) PROVE snap'[proc'[q].run] # None
  <2>1. Cleared(proc[q]) /\ proc'[q].run = proc[q].run
    BY <1>1, <1>2 DEF Tame, Idle, Cleared, Refreshing
  <2>2. proc[q].run \in Runs /\ snap[proc[q].run] # None
    BY <2>1, HandTyped, BoardTyped DEF Cleared, Refreshing, Shape
  <2> QED
    BY <2>1, <2>2
<1>3. \A q \in Procs : Shape(proc[q])'
  BY <1>1 DEF Shape
<1> QED
  BY <1>1, <1>2, <1>3 DEF TInv, TypeOK, Board, Cleared, Refreshing

\* Snapshots stay, and a run that is evaluated gets one.
LEMMA SnapsKept ==
  ASSUME TInv, NEW p \in Procs, Step(p) \/ Crash(p)
  PROVE  /\ \A r \in Runs : snap[r] # None => snap'[r] # None
         /\ Evaluate(p) => snap' = [snap EXCEPT ![proc[p].run] = New(p)] /\ New(p) \in Snapshot /\ New(p) # None
<1>1. Board /\ proc[p] \in Proc /\ Shape(proc[p])
  BY BoardTyped, HandTyped
<1>2. CASE Evaluate(p)
  <2>1. proc[p].run \in Runs /\ asks \in Tasks /\ Override(proc[p].run) \in BOOLEAN
    BY <1>1, <1>2 DEF Board, Evaluate, At, Shape, Executor, Override
  <2>2. New(p) \in Snapshot /\ New(p) # None
    BY <2>1, EvaluationTyped, NoneAssumption DEF New
  <2>3. snap' = [snap EXCEPT ![proc[p].run] = New(p)]
    BY <1>2 DEF Evaluate, New
  <2> QED
    BY <1>1, <2>1, <2>2, <2>3 DEF Board
<1>3. CASE Execute(p)
  <2>1. PICK r, code : r = proc[p].run /\ snap' = [snap EXCEPT ![r] = Charged(@, code)]
    BY <1>3, ExecuteMoves
  <2>2. r \in Runs /\ snap[r] \in Snapshot
    BY <1>1, <1>3, <2>1, BoardTyped DEF Board, Execute, At, Cleared, Shape, Executor
  <2>3. Charged(snap[r], code) # None
    BY <2>2, ChargedTyped, NoneAssumption
  <2>4. ~Evaluate(p)
    BY <1>3 DEF Execute, Evaluate, At
  <2> QED
    BY <1>1, <2>1, <2>2, <2>3, <2>4 DEF Board
<1>4. CASE ~Evaluate(p) /\ ~Execute(p)
  <2>1. UNCHANGED snap
    BY <1>4 DEF Step, Collect, Publish, Load, Mark, Scan, Create, Park, Settle, Drop, Release, Status, Record, Unlink,
       Crash, files
  <2> QED
    BY <1>4, <2>1
<1> QED
  BY <1>2, <1>3, <1>4

LEMMA TypedMoves == ASSUME TInv, NEW p \in Procs, Step(p) \/ Crash(p) PROVE TInv'
<1>1. Board' /\ \A r \in Runs : snap[r] # None => snap'[r] # None
  BY BoardStep, SnapsKept
<1>2. CASE Evaluate(p)
  <2>1. PICK x : Tame(p, x) /\ x.pc = "collect" /\ Executor(x)
    BY <1>2, EvaluateMoves
  <2>2. /\ proc' \in [Procs -> Proc] /\ \A q \in Procs : Shape(proc'[q])
        /\ \A q \in Procs : proc'[q] = IF q = p THEN x ELSE proc[q]
    BY <2>1, HandsTyped DEF Tame
  <2>3. x.run = proc[p].run /\ x.run \in Runs
    BY <2>1 DEF Tame, Idle, Shape, Executor
  <2>4. snap'[x.run] # None
    BY <1>2, <2>3, SnapsKept, BoardTyped DEF Board
  <2>5. ASSUME NEW q \in Procs, Cleared(proc'[q]) PROVE snap'[proc'[q].run] # None
    <3>1. CASE q = p
      BY <2>2, <2>4, <3>1
    <3>2. CASE q # p
      <4>1. proc'[q] = proc[q] /\ snap[proc[q].run] # None /\ proc[q].run \in Runs
        BY <2>2, <2>5, <3>2, HandTyped, BoardTyped DEF Cleared, Refreshing, Shape
      <4> QED
        BY <1>1, <4>1
    <3> QED
      BY <3>1, <3>2
  <2>6. \A q \in Procs : Shape(proc[q])'
    BY <2>2 DEF Shape
  <2> QED
    BY <1>1, <2>2, <2>5, <2>6 DEF TInv, TypeOK, Board, Cleared, Refreshing
<1>3. CASE ~Evaluate(p)
  <2>1. \E x : Tame(p, x) /\ (Cleared(x) => Cleared(proc[p]))
    BY <1>3, StepMoves
  <2> QED
    BY <1>1, <2>1, SnappedKept
<1> QED
  BY <1>2, <1>3

\* A process begins.
LEMMA Begun ==
  ASSUME TInv, Board', NEW p \in Procs, NEW x \in Proc, Shape(x), Set(p, x), ~Cleared(x), UNCHANGED snap
  PROVE  TInv'
<1>1. /\ proc' \in [Procs -> Proc] /\ \A q \in Procs : Shape(proc'[q])
      /\ \A q \in Procs : proc'[q] = IF q = p THEN x ELSE proc[q]
  BY HandsTyped
<1>2. \A q \in Procs : Cleared(proc'[q]) => snap'[proc'[q].run] # None
  BY <1>1, BoardTyped
<1>3. \A q \in Procs : Shape(proc[q])'
  BY <1>1 DEF Shape
<1> QED
  BY <1>1, <1>2, <1>3 DEF TInv, TypeOK, Board, Cleared, Refreshing

LEMMA TypedBegins ==
  ASSUME TInv, NEW p \in Procs,
         Dashboard(p) \/ Resolve(p)
           \/ \E r \in Runs : Claim(p, r) \/ Direct(p, r) \/ Enqueue(p, r) \/ AskHuman(p, r)
  PROVE  TInv'
<1>1. Board
  BY BoardTyped
<1>2. ASSUME UNCHANGED snap, IsFiniteSet(Bill(charges, Runs)) PROVE IsFiniteSet(Bill(charges, Runs))'
  BY <1>2 DEF charges, Bill
<1>0. ASSUME Command(p) PROVE commands' \in 0 .. MaxCommands
  BY <1>0, <1>1, BoundAssumption DEF Board, Command
<1>3. CASE Dashboard(p)
  <2>1. Board' /\ UNCHANGED snap
    BY <1>1, <1>2, <1>3, BoundAssumption DEF Board, Dashboard, Command, Crowds, files
  <2> QED
    BY <1>3, <2>1, DashboardBegins, Begun DEF Dashboard, Cleared, Refreshing
<1>4. CASE Resolve(p)
  <2>1. PICK a \in pending : \E x : /\ Set(p, x) /\ x \in Proc /\ Shape(x) /\ Resolving(x) /\ Meets(p, a.run)
    BY <1>4, ResolveBegins
  <2>2. disturbed' \subseteq Runs
    BY <1>1, <2>1 DEF Board, Requests, Meets
  <2>3. commands' \in 0 .. MaxCommands
    BY <1>0, <1>4 DEF Resolve
  <2>4. Board' /\ UNCHANGED snap
    BY <1>1, <1>2, <1>4, <2>2, <2>3 DEF Board, Resolve, files
  <2> QED
    BY <2>1, <2>4, Begun DEF Cleared, Refreshing, Resolving
<1>5. ASSUME NEW r \in Runs, Claim(p, r) PROVE TInv'
  <2>1. "running" \in QueueStates /\ queue' = [queue EXCEPT ![r] = "running"]
    BY <1>5 DEF QueueStates, Claim
  <2>2. queue' \in [Runs -> QueueStates] /\ attempts' \in [Runs -> Nat] /\ disturbed' \subseteq Runs /\ crowded' \in BOOLEAN
    <3>1. queue' \in [Runs -> QueueStates]
      BY <1>1, <2>1, QueueTyped
    <3>2. attempts' \in [Runs -> Nat]
      <4>1. attempts' = [attempts EXCEPT ![r] = attempts[r] + 1]
        BY <1>5 DEF Claim
      <4>2. attempts \in [Runs -> Nat] /\ attempts[r] + 1 \in Nat
        BY <1>1 DEF Board
      <4> QED
        BY <4>1, <4>2
    <3>3. disturbed' \subseteq Runs /\ crowded' \in BOOLEAN
      BY <1>1, <1>5 DEF Board, Claim, Meets, Crowds
    <3> QED
      BY <3>1, <3>2, <3>3
  <2>3. Board' /\ UNCHANGED snap
    BY <1>1, <1>2, <1>5, <2>2 DEF Board, Claim, files
  <2> QED
    BY <1>5, <2>3, ExecutionBegins, Begun DEF Claim, Cleared, Refreshing
<1>6. ASSUME NEW r \in Runs, Direct(p, r) PROVE TInv'
  <2>1. Board' /\ UNCHANGED snap
    BY <1>1, <1>2, <1>6 DEF Board, Direct, Crowds, files
  <2> QED
    BY <1>6, <2>1, ExecutionBegins, Begun DEF Direct, Cleared, Refreshing
<1>7. ASSUME NEW r \in Runs, Enqueue(p, r) PROVE TInv'
  <2>1. queue' \in [Runs -> QueueStates]
    <3>1. PICK state \in {"pending", "awaiting_approval"} : queue' = [queue EXCEPT ![r] = state]
      BY <1>7 DEF Enqueue
    <3>2. state \in QueueStates
      BY DEF QueueStates
    <3> QED
      BY <1>1, <3>1, <3>2, QueueTyped
  <2>2. Board' /\ UNCHANGED <<snap, proc>>
    BY <1>1, <1>2, <1>7, <2>1 DEF Board, Enqueue, files, ghosts
  <2> QED
    BY <2>2 DEF TInv, TypeOK, Board, Shape, Cleared, Refreshing
<1>8. ASSUME NEW r \in Runs, AskHuman(p, r) PROVE TInv'
  <2>2. commands' \in 0 .. MaxCommands
    BY <1>0, <1>8 DEF AskHuman
  <2>1. Board' /\ UNCHANGED snap
    BY <1>1, <1>2, <1>8, <2>2 DEF Board, AskHuman, files, ghosts
  <2> QED
    BY <1>8, <2>1, AskBegins, Begun DEF Cleared, Refreshing
<1> QED
  BY <1>3, <1>4, <1>5, <1>6, <1>7, <1>8

LEMMA TypedOthers == ASSUME TInv, (\E r \in Runs : ApproveItem(r) \/ Reclaim(r)) \/ UNCHANGED vars PROVE TInv'
<1>1. Board
  BY BoardTyped
<1>2. ASSUME UNCHANGED snap, IsFiniteSet(Bill(charges, Runs)) PROVE IsFiniteSet(Bill(charges, Runs))'
  BY <1>2 DEF charges, Bill
<1>3. ASSUME Board', UNCHANGED <<snap, proc>> PROVE TInv'
  BY <1>3 DEF TInv, TypeOK, Board, Shape, Cleared, Refreshing
<1>4. ASSUME NEW r \in Runs, ApproveItem(r) PROVE TInv'
  <2>1. "pending" \in QueueStates /\ queue' = [queue EXCEPT ![r] = "pending"]
    BY <1>4 DEF QueueStates, ApproveItem
  <2>2. queue' \in [Runs -> QueueStates] /\ disturbed' \subseteq Runs
    BY <1>1, <1>4, <2>1, QueueTyped DEF Board, ApproveItem, Meets
  <2> QED
    BY <1>1, <1>2, <1>3, <1>4, <2>2, BoundAssumption DEF Board, ApproveItem, files
<1>5. ASSUME NEW r \in Runs, Reclaim(r) PROVE TInv'
  <2>1. PICK s \in {"pending", "failed"} : queue' = [queue EXCEPT ![r] = s]
    BY <1>5 DEF Reclaim
  <2>2. s \in QueueStates
    BY DEF QueueStates
  <2>3. queue' \in [Runs -> QueueStates]
    BY <1>1, <2>1, <2>2, QueueTyped
  <2> QED
    BY <1>1, <1>2, <1>3, <1>5, <2>3 DEF Board, Reclaim, files, ghosts
<1>6. CASE UNCHANGED vars
  BY <1>1, <1>2, <1>3, <1>6 DEF Board, vars, files, ghosts
<1> QED
  BY <1>4, <1>5, <1>6

LEMMA TypedStep == ASSUME TInv, [Next]_vars PROVE TInv'
BY TypedMoves, TypedBegins, TypedOthers DEF Next, Begin, Procs

LEMMA TypedInit == Init => TInv
<1> SUFFICES ASSUME Init PROVE TInv
  OBVIOUS
<1>1. Bill(charges, Runs) = {}
  BY DEF Init, charges, Bill
<1>2. IsFiniteSet(Bill(charges, Runs))
  BY <1>1, FS_EmptySet
<1>5. queue \in [Runs -> QueueStates] /\ task \in [Runs -> TaskStatuses]
  BY DEF Init, QueueStates, TaskStatuses
<1>6. snap \in [Runs -> Snapshot \cup {None}] /\ attempts \in [Runs -> Nat]
  BY DEF Init
<1>7. issued \in 0 .. MaxRequests /\ commands \in 0 .. MaxCommands /\ crashes \in 0 .. MaxCrashes /\ total \in Nat
  BY BoundAssumption DEF Init
<1>3. Board
  BY <1>2, <1>5, <1>6, <1>7 DEF Init, Board
<1>4. \A p \in Procs : Shape(proc[p]) /\ proc[p] \in Proc /\ ~Cleared(proc[p])
  BY IdleShape DEF Init, Cleared, Refreshing, Idle
<1> QED
  BY <1>3, <1>4, BoardTyped DEF Init

\* Every variable keeps to its type, for any policy and any numbers of processes: what a
\* process has in hand is what the file it will write may hold (preflight_guardrails,
\* create_approval_request).
THEOREM TypeCorrect == Spec => []TypeOK
<1>1. TInv => TypeOK
  BY DEF TInv
<1> QED
  BY TypedInit, TypedStep, <1>1, PTL DEF Spec

------------------------------------------------------------------------------
(* Governance. *)

\* Which steps touch the requests.
LEMMA Requesting ==
  ASSUME NEW p \in Procs, Step(p) \/ Crash(p)
  PROVE  /\ asks' = asks /\ granted \subseteq granted' /\ disturbed \subseteq disturbed'
         /\ ~Record(p) => UNCHANGED <<resolved, granted>>
         /\ ~Create(p) /\ ~Unlink(p) => UNCHANGED pending
         /\ ~Crash(p) => UNCHANGED disturbed
<1>1. CASE Collect(p) \/ Publish(p) \/ Load(p) \/ Evaluate(p) \/ Mark(p)
  BY <1>1 DEF Collect, Publish, Load, Evaluate, Mark, files, ghosts
<1>2. CASE Scan(p) \/ Park(p) \/ Execute(p) \/ Settle(p)
  BY <1>2 DEF Scan, Park, Execute, Settle, files, ghosts
<1>3. CASE Create(p) \/ Unlink(p)
  BY <1>3 DEF Create, Unlink, ghosts
<1>4. CASE Drop(p) \/ Status(p) \/ Crash(p)
  BY <1>4 DEF Drop, Status, Crash, files, ghosts
<1>5. CASE Release(p)
  <2>1. UNCHANGED <<files, ghosts>> /\ asks' = asks
    BY <1>5 DEF Release
  <2> QED
    BY <2>1 DEF files, ghosts
<1>6. CASE Record(p)
  BY <1>6 DEF Record
<1> QED
  BY <1>1, <1>2, <1>3, <1>4, <1>5, <1>6 DEF Step

\* The governance rules stop a run that nobody has approved, and what has been approved
\* nobody stops.
LEMMA GovernedStopped ==
  ASSUME NEW r, NEW c, NEW o \in BOOLEAN
  PROVE  /\ Governed(r) /\ Evaluation(r, c, o).decision # "pause" => o
         /\ Evaluation(r, c, o).decision = "pause" => ~o
<1> DEFINE stopped == (HardLimit > 0 /\ c + Units(r) >= HardLimit) \/ Governed(r)
           warned == WarningLimit > 0 /\ c + Units(r) >= WarningLimit
<1>1. Evaluation(r, c, o).decision =
        IF stopped /\ o THEN "allow" ELSE IF stopped THEN "pause" ELSE IF warned THEN "warn" ELSE "allow"
  BY DEF Evaluation
<1>2. Governed(r) => stopped
  OBVIOUS
<1> HIDE DEF stopped, warned
<1> QED
  BY <1>1, <1>2

LEMMA GovernedMoves == ASSUME TInv, GInv, NEW p \in Procs, Step(p) \/ Crash(p) PROVE GInv'
<1>1. /\ asks' = asks /\ granted \subseteq granted' /\ (~Record(p) => UNCHANGED <<resolved, granted>>)
  BY Requesting
<1>2. PICK x : Tame(p, x) /\ (~Evaluate(p) => (Cleared(x) => Cleared(proc[p])))
  BY StepMoves
<1>3. \A q \in Procs : proc'[q] = IF q = p THEN x ELSE proc[q]
  BY <1>2, HandsTyped DEF Tame
<1>5. \A b \in resolved' :
        b.request \in GuardrailRequests /\ b.decision = "approved" => b.request.run \in granted'
  <2>1. CASE Record(p)
    <3>1. proc[p].run = proc[p].request.run
      BY <2>1, HandTyped DEF Record, At, Shape, Resolving
    <3>2. PICK b0 : /\ b0 = [request |-> proc[p].request, decision |-> proc[p].decision]
                    /\ resolved' \subseteq resolved \cup {b0}
      BY <2>1 DEF Record
    <3>3. b0.request \in GuardrailRequests /\ b0.decision = "approved" => b0.request.run \in granted'
      BY <2>1, <3>1, <3>2 DEF Record
    <3> QED
      BY <1>1, <3>2, <3>3 DEF GInv
  <2> QED
    BY <1>1, <2>1 DEF GInv
<1>6. ASSUME NEW q \in Procs, Cleared(proc'[q]), Governed(proc'[q].run) PROVE proc'[q].run \in granted'
  <2>1. CASE q # p
    BY <1>1, <1>3, <1>6, <2>1 DEF GInv
  <2>2. CASE q = p /\ ~Evaluate(p)
    <3>1. Cleared(proc[p]) /\ proc'[p].run = proc[p].run
      BY <1>2, <1>3, <1>6, <2>2 DEF Tame, Idle, Cleared, Refreshing
    <3> QED
      BY <1>1, <1>6, <2>2, <3>1 DEF GInv
  <2>3. CASE q = p /\ Evaluate(p)
    <3>1. PICK y : Tame(p, y) /\ y.pc = "collect" /\ Executor(y) /\ y.then = IF New(p).decision = "pause" THEN "mark" ELSE "execute"
      BY <2>3, EvaluateMoves
    <3>2. proc'[p] = y /\ y.run = proc[p].run
      BY <3>1, HandsTyped DEF Tame, Idle, Executor
    <3>3. New(p).decision # "pause" /\ Governed(proc[p].run)
      BY <1>6, <2>3, <3>1, <3>2 DEF Cleared, Refreshing
    <3>4. Override(proc[p].run)
      <4>1. Override(proc[p].run) \in BOOLEAN
        BY DEF Override
      <4> QED
        BY <3>3, <4>1, GovernedStopped DEF New
    <3>5. proc[p].run \in granted
      BY <3>4 DEF Override, GInv
    <3> QED
      BY <1>1, <2>3, <3>2, <3>5
  <2> QED
    BY <2>1, <2>2, <2>3
<1>7. \A q \in Procs : (Cleared(proc[q]) /\ Governed(proc[q].run) => proc[q].run \in granted)'
  <2>1. ASSUME NEW q \in Procs, Cleared(proc[q])', Governed(proc[q].run)' PROVE (proc[q].run \in granted)'
    <3>1. Governed(proc'[q].run) /\ Cleared(proc'[q])
      BY <1>1, <2>1 DEF Governed, Cleared, Refreshing
    <3> QED
      BY <1>6, <3>1
  <2> QED
    BY <2>1
<1> QED
  BY <1>5, <1>7 DEF GInv

LEMMA GovernedBegins ==
  ASSUME TInv, GInv, NEW p \in Procs,
         Dashboard(p) \/ Resolve(p)
           \/ \E r \in Runs : Claim(p, r) \/ Direct(p, r) \/ Enqueue(p, r) \/ AskHuman(p, r)
  PROVE  GInv'
<1>1. UNCHANGED <<asks, resolved, granted>>
  BY DEF Dashboard, Resolve, Claim, Direct, Enqueue, AskHuman, files, ghosts
<1>2. \A q \in Procs : Cleared(proc'[q]) => proc'[q] = proc[q]
  <2>1. CASE UNCHANGED proc
    BY <2>1
  <2>2. CASE \E x \in Proc : Shape(x) /\ Set(p, x) /\ ~Cleared(x)
    BY <2>2, HandsTyped
  <2>3. CASE Dashboard(p)
    BY <2>2, <2>3, DashboardBegins DEF Dashboard, Cleared, Refreshing
  <2>4. CASE Resolve(p)
    BY <2>2, <2>4, ResolveBegins DEF Resolving, Cleared, Refreshing
  <2>5. ASSUME NEW r \in Runs, Claim(p, r) \/ Direct(p, r) PROVE \E x \in Proc : Shape(x) /\ Set(p, x) /\ ~Cleared(x)
    BY <2>5, ExecutionBegins DEF Claim, Direct, Cleared, Refreshing
  <2>6. ASSUME NEW r \in Runs, AskHuman(p, r) PROVE \E x \in Proc : Shape(x) /\ Set(p, x) /\ ~Cleared(x)
    BY <2>6, AskBegins DEF Cleared, Refreshing
  <2>7. ASSUME NEW r \in Runs, Enqueue(p, r) PROVE UNCHANGED proc
    BY <2>7 DEF Enqueue
  <2> QED
    BY <2>1, <2>2, <2>3, <2>4, <2>5, <2>6, <2>7
<1>3. ASSUME NEW q \in Procs, Cleared(proc[q])', Governed(proc[q].run)' PROVE (proc[q].run \in granted)'
  BY <1>1, <1>2, <1>3 DEF GInv, Cleared, Refreshing, Governed
<1>4. (\A b \in resolved :
         b.request \in GuardrailRequests /\ b.decision = "approved" => b.request.run \in granted)'
  BY <1>1 DEF GInv
<1> QED
  BY <1>3, <1>4 DEF GInv

LEMMA GovernedStep == ASSUME TInv, GInv, [Next]_vars PROVE GInv'
<1>1. CASE (\E r \in Runs : ApproveItem(r) \/ Reclaim(r)) \/ UNCHANGED vars
  <2>1. UNCHANGED <<asks, resolved, granted, proc>>
    BY <1>1 DEF ApproveItem, Reclaim, vars, files, ghosts
  <2> QED
    BY <2>1 DEF GInv, Cleared, Refreshing, Governed
<1> QED
  BY <1>1, GovernedMoves, GovernedBegins DEF Next, Begin, Procs

LEMMA GovernedInit == Init => GInv
  BY DEF Init, GInv, Cleared, Refreshing, Idle

\* No agent is started for a run the governance rules guard before a person has
\* approved the guardrail's request for this run (preflight_guardrails before both
\* executions).
THEOREM GovernedApproved == Spec => []GovernedRunsApproved
<1>1. GInv => GovernedRunsApproved
  BY DEF GInv, Cleared, GovernedRunsApproved, Executing, WorkingOn
<1> QED
  BY TypedInit, TypedStep, GovernedInit, GovernedStep, <1>1, PTL DEF Spec

------------------------------------------------------------------------------
(* References. *)

LEMMA QueueMoves ==
  ASSUME TInv, NEW p \in Procs, Step(p) \/ Crash(p)
  PROVE  /\ used' = used /\ \A r \in Runs : queue'[r] # "none" => queue[r] # "none" \/ r = proc[p].run
         /\ issued' = IF Create(p) THEN issued + 1 ELSE issued
<1>1. CASE Collect(p) \/ Publish(p) \/ Load(p) \/ Evaluate(p) \/ Mark(p) \/ Scan(p)
  BY <1>1 DEF Collect, Publish, Load, Evaluate, Mark, Scan, Create, At
<1>2. CASE Create(p) \/ Execute(p) \/ Crash(p)
  BY <1>2 DEF Create, Execute, Crash, At, Idle, Ends, Set
<1>3. CASE Status(p) \/ Record(p) \/ Unlink(p)
  BY <1>3 DEF Status, Record, Unlink, Create, At
<1>4. CASE Park(p) \/ Settle(p)
  <2>1. used' = used /\ issued' = issued /\ ~Create(p)
    BY <1>4 DEF Park, Settle, Create, At
  <2>2. PICK s : Moves(proc[p].run, s)
    BY <1>4 DEF Park, Settle
  <2>3. \A r \in Runs : r # proc[p].run => queue'[r] = queue[r]
    BY <2>2 DEF Moves, TInv, TypeOK
  <2> QED
    BY <2>1, <2>3
<1>5. CASE Drop(p) \/ Release(p)
  <2>1. used' = used /\ issued' = issued /\ ~Create(p)
    BY <1>5 DEF Drop, Release, Create, At
  <2>2. UNCHANGED queue \/ \E s : queue' = [queue EXCEPT ![proc[p].run] = s]
    BY <1>5 DEF Drop, Release
  <2>3. \A r \in Runs : r # proc[p].run => queue'[r] = queue[r]
    BY <2>2 DEF TInv, TypeOK
  <2> QED
    BY <2>1, <2>3
<1> QED
  BY <1>1, <1>2, <1>3, <1>4, <1>5 DEF Step

LEMMA LinkedMoves == ASSUME TInv, LInv, NEW p \in Procs, Step(p) \/ Crash(p) PROVE LInv'
<1>1. /\ used' = used /\ \A r \in Runs : queue'[r] # "none" => queue[r] # "none" \/ r = proc[p].run
      /\ issued' = IF Create(p) THEN issued + 1 ELSE issued
  BY QueueMoves
<1>2. issued \in Nat /\ issued' \in Nat /\ issued <= issued'
  BY <1>1 DEF TInv, TypeOK
<1>3. PICK x : Tame(p, x) /\ (Resolving(x) => Resolving(proc[p]) /\ x.request = proc[p].request)
  BY StepMoves
<1>4. \A q \in Procs : proc'[q] = IF q = p THEN x ELSE proc[q]
  BY <1>3, HandsTyped DEF Tame
<1>5. pending \subseteq Requests /\ resolved \subseteq Resolutions /\ \A a \in Requests : a.id \in Nat
  BY BoundAssumption DEF TInv, TypeOK, Requests
<1>6. \A r \in Runs : queue'[r] # "none" => r \in used'
  BY <1>1, NoneAssumption DEF LInv
<1>7. \A q \in Procs : proc'[q].run \in used' \cup {None}
  BY <1>1, <1>3, <1>4 DEF LInv, Tame, Idle
<1>8. \A a \in pending' : a.run \in used' /\ a.id <= issued'
  <2>1. CASE Create(p)
    <3>1. PICK a \in Requests : pending' = pending \cup {a} /\ a.id = issued + 1 /\ a.run = proc[p].run
      BY <2>1, CreateMoves
    <3>2. a.run \in used
      BY <3>1, NoneAssumption DEF LInv, Requests
    <3> QED
      BY <1>1, <1>2, <1>5, <2>1, <3>1, <3>2 DEF LInv
  <2>2. CASE ~Create(p)
    <3>1. pending' \subseteq pending
      BY <2>2, Requesting DEF Unlink
    <3> QED
      BY <1>1, <2>2, <3>1 DEF LInv
  <2> QED
    BY <2>1, <2>2
<1>9. \A q \in Procs : Resolving(proc'[q]) => proc'[q].request.id <= issued'
  <2>1. ASSUME NEW q \in Procs, Resolving(proc'[q]) PROVE proc'[q].request.id <= issued'
    <3>1. Resolving(proc[q]) /\ proc'[q].request = proc[q].request
      BY <1>3, <1>4, <2>1
    <3>2. proc[q].request \in Requests /\ proc[q].request.id <= issued
      BY <3>1, HandTyped DEF LInv, Shape
    <3> QED
      BY <1>2, <1>5, <3>1, <3>2
  <2> QED
    BY <2>1
<1>10. \A b \in resolved' : b.request.id <= issued'
  <2>1. CASE Record(p)
    <3>1. Resolving(proc[p]) /\ ~Create(p)
      BY <2>1 DEF Record, Create, At, Resolving
    <3> QED
      BY <1>1, <2>1, <3>1 DEF LInv, Record
  <2>2. CASE ~Record(p)
    <3>1. resolved' = resolved /\ \A b \in resolved : b.request \in Requests
      BY <1>5, <2>2, Requesting DEF Resolutions
    <3> QED
      BY <1>2, <1>5, <3>1 DEF LInv
  <2> QED
    BY <2>1, <2>2
<1> QED
  BY <1>6, <1>7, <1>8, <1>9, <1>10 DEF LInv, Resolving

LEMMA LinkedBegins ==
  ASSUME TInv, LInv, NEW p \in Procs,
         Dashboard(p) \/ Resolve(p)
           \/ \E r \in Runs : Claim(p, r) \/ Direct(p, r) \/ Enqueue(p, r) \/ AskHuman(p, r)
  PROVE  LInv'
<1>1. UNCHANGED <<pending, resolved, issued>>
  BY DEF Dashboard, Resolve, Claim, Direct, Enqueue, AskHuman, files
<1>2. ASSUME NEW x \in Proc, Shape(x), Set(p, x), x.run \in used' \cup {None}, used \subseteq used',
             \A r \in Runs : queue'[r] # "none" => r \in used', Resolving(x) => x.request \in pending
      PROVE  LInv'
  <2>1. \A q \in Procs : proc'[q] = IF q = p THEN x ELSE proc[q]
    BY <1>2, HandsTyped
  <2>2. \A q \in Procs : Resolving(proc'[q]) => proc'[q].request.id <= issued
    BY <1>2, <2>1 DEF LInv
  <2> QED
    BY <1>1, <1>2, <2>1, <2>2 DEF LInv, Resolving
<1>3. CASE Dashboard(p)
  <2>1. UNCHANGED <<queue, used>>
    BY <1>3 DEF Dashboard
  <2> QED
    BY <1>2, <1>3, <2>1, DashboardBegins DEF LInv, Dashboard, Resolving
<1>4. CASE Resolve(p)
  <2>1. UNCHANGED <<queue, used>>
    BY <1>4 DEF Resolve
  <2> QED
    BY <1>2, <1>4, <2>1, ResolveBegins DEF LInv
<1>5. ASSUME NEW r \in Runs, Claim(p, r) PROVE LInv'
  <2>1. used' = used /\ r \in used /\ \A q \in Runs : queue'[q] # "none" => q \in used
    BY <1>5 DEF Claim, LInv, TInv, TypeOK
  <2>2. PICK x : x = Refresh([Idle EXCEPT !.cmd = "worker", !.run = r], "load")
    OBVIOUS
  <2>3. x \in Proc /\ Shape(x) /\ x.pc = "collect" /\ x.run = r
    BY <2>2, ExecutionBegins
  <2>4. Set(p, x)
    BY <1>5, <2>2 DEF Claim
  <2>5. ~Resolving(x) /\ x.run \in used' \cup {None} /\ used \subseteq used'
    BY <2>1, <2>3 DEF Resolving
  <2> QED
    BY <1>2, <2>1, <2>3, <2>4, <2>5
<1>6. ASSUME NEW r \in Runs, Direct(p, r) PROVE LInv'
  <2>1. used' = used \cup {r} /\ \A q \in Runs : queue'[q] # "none" => q \in used
    BY <1>6 DEF Direct, LInv
  <2>2. PICK x : x = Refresh([Idle EXCEPT !.cmd = "direct", !.run = r], "load")
    OBVIOUS
  <2>3. x \in Proc /\ Shape(x) /\ x.pc = "collect" /\ x.run = r
    BY <2>2, ExecutionBegins
  <2>4. Set(p, x)
    BY <1>6, <2>2 DEF Direct
  <2>5. ~Resolving(x) /\ x.run \in used' \cup {None} /\ used \subseteq used'
    BY <2>1, <2>3 DEF Resolving
  <2> QED
    BY <1>2, <2>1, <2>3, <2>4, <2>5
<1>7. ASSUME NEW r \in Runs, Enqueue(p, r) PROVE LInv'
  <2>1. used' = used \cup {r} /\ proc' = proc /\ \A q \in Runs : queue'[q] # "none" => q \in used'
    BY <1>7 DEF Enqueue, LInv, TInv, TypeOK
  <2> QED
    BY <1>1, <2>1 DEF LInv, Resolving
<1>8. ASSUME NEW r \in Runs, AskHuman(p, r) PROVE LInv'
  <2>1. UNCHANGED <<queue, used>> /\ r \in used
    BY <1>8 DEF AskHuman
  <2> QED
    BY <1>2, <1>8, <2>1, AskBegins DEF LInv, Resolving
<1> QED
  BY <1>3, <1>4, <1>5, <1>6, <1>7, <1>8

LEMMA LinkedStep == ASSUME TInv, LInv, [Next]_vars PROVE LInv'
<1>1. ASSUME NEW r \in Runs, ApproveItem(r) \/ Reclaim(r) PROVE LInv'
  <2>1. UNCHANGED <<used, proc, pending, resolved, issued>> /\ \A q \in Runs : queue'[q] # "none" => queue[q] # "none"
    BY <1>1 DEF ApproveItem, Reclaim, files, TInv, TypeOK
  <2> QED
    BY <2>1 DEF LInv, Resolving
<1>2. CASE UNCHANGED vars
  BY <1>2 DEF LInv, Resolving, vars, files
<1> QED
  BY <1>1, <1>2, LinkedMoves, LinkedBegins DEF Next, Begin, Procs

LEMMA LinkedInit == Init => LInv
  BY DEF Init, LInv, Resolving, Idle

------------------------------------------------------------------------------
(* Approvals. *)

LEMMA Active == ASSUME NEW p \in Procs, Step(p) \/ Crash(p) PROVE proc[p].pc # "idle"
  BY DEF Step, Collect, Publish, Load, Evaluate, Mark, Scan, Create, Park, Execute, Settle, Drop, Release, Status,
     Record, Unlink, Crash, At

\* Who works on a run has done so before the step, under the same command.
LEMMA WorkingMoves ==
  ASSUME TInv, NEW p \in Procs, proc[p].pc # "idle", NEW x, Tame(p, x), NEW r \in Runs
  PROVE  /\ \A q \in Procs : proc'[q] = IF q = p THEN x ELSE proc[q]
         /\ \A q \in WorkingOn(r)' : q \in WorkingOn(r) /\ proc'[q].cmd = proc[q].cmd
         /\ \A q \in WorkingOn(r) : q # p => q \in WorkingOn(r)'
         /\ p \in WorkingOn(r)' <=> x.pc # "idle" /\ x.run = r
<1>1. \A q \in Procs : proc'[q] = IF q = p THEN x ELSE proc[q]
  BY HandsTyped DEF Tame
<1> QED
  BY <1>1 DEF WorkingOn, Tame, Idle

\* Two who resolve a request of a run, or one who does and another who executes it, would
\* not be alone.
LEMMA OneResolver ==
  ASSUME TInv, NEW r, Alone(r), NEW p \in WorkingOn(r), NEW q \in WorkingOn(r), Resolving(proc[p]),
         Resolving(proc[q]) \/ Pausing(proc[q]) \/ Executor(proc[q])
  PROVE  p = q
<1>1. p \in Procs /\ q \in Procs
  BY DEF WorkingOn
<1>2. Shape(proc[p]) /\ Shape(proc[q])
  BY <1>1, HandTyped
<1>3. proc[p].cmd # "ask" /\ proc[q].cmd # "ask"
  BY <1>2 DEF Shape, Resolving, Pausing, Refreshing, Executor
<1> QED
  BY <1>3 DEF Alone

LEMMA ResolvedMoves ==
  ASSUME TInv, LInv, NEW p \in Procs, Step(p) \/ Crash(p), NEW r \in Runs \ disturbed', Alone(r), ResolvedOnce(r)
  PROVE  ResolvedOnce(r)'
<1>1. PICK x : Tame(p, x) /\ (Resolving(x) => Resolving(proc[p]) /\ x.request = proc[p].request)
  BY StepMoves
<1>2. /\ \A q \in Procs : proc'[q] = IF q = p THEN x ELSE proc[q]
      /\ \A q \in WorkingOn(r)' : q \in WorkingOn(r) /\ proc'[q].cmd = proc[q].cmd
      /\ \A q \in WorkingOn(r) : q # p => q \in WorkingOn(r)'
      /\ p \in WorkingOn(r)' <=> x.pc # "idle" /\ x.run = r
  BY <1>1, Active, WorkingMoves
<1>3. /\ ~Record(p) => UNCHANGED resolved
      /\ ~Create(p) /\ ~Unlink(p) => UNCHANGED pending
  BY Requesting
<1>4. issued \in Nat /\ \A a \in Requests : a.id \in Nat
  BY BoundAssumption DEF TInv, TypeOK, Requests
<1>5. ASSUME NEW a \in pending', NEW b \in resolved', a.run = r, b.request = a
      PROVE  \E q \in WorkingOn(r)' : proc'[q].pc = "unlink" /\ proc'[q].request = a
  <2>1. CASE a \in pending /\ b \in resolved
    <3>1. PICK q \in WorkingOn(r) : At(q, "unlink") /\ proc[q].request = a
      BY <1>5, <2>1 DEF ResolvedOnce
    <3>2. CASE q # p
      <4>1. q \in Procs /\ q \in WorkingOn(r)' /\ proc'[q] = proc[q]
        BY <1>2, <3>1, <3>2 DEF WorkingOn
      <4> QED
        BY <3>1, <4>1 DEF At
    <3>3. CASE q = p
      <4>1. ~Crash(p)
        BY <3>3, NoneAssumption DEF Crash, WorkingOn
      <4>2. Unlink(p)
        BY <3>1, <3>3, <4>1 DEF Step, Collect, Publish, Load, Evaluate, Mark, Scan, Create, Park, Execute, Settle, Drop,
           Release, Status, Record, At
      <4> QED
        BY <1>5, <3>1, <3>3, <4>2 DEF Unlink
    <3> QED
      BY <3>2, <3>3
  <2>2. CASE a \notin pending
    <3>1. Create(p) /\ ~Record(p)
      BY <1>3, <1>5, <2>2 DEF Unlink, Create, Record, At
    <3>2. a.id = issued + 1
      BY <1>5, <2>2, <3>1, CreateMoves
    <3>3. b \in resolved /\ b.request.id <= issued
      BY <1>3, <1>5, <3>1 DEF LInv
    <3> QED
      BY <1>4, <1>5, <3>2, <3>3
  <2>3. CASE b \notin resolved
    <3>1. Record(p)
      BY <1>3, <1>5, <2>3
    <3>2. Resolving(proc[p]) /\ Goes(p, "unlink")
      BY <3>1 DEF Record, At, Resolving
    <3>3. PICK y : Tame(p, y) /\ y.pc = "unlink" /\ y.request = proc[p].request
      BY <3>2, ResolverMoves
    <3>4. y = x
      BY <1>1, <3>3, HandsTyped DEF Tame
    <3>5. proc[p].request = a /\ proc[p].run = r
      <4>1. proc[p].request = a
        BY <1>5, <2>3, <3>1 DEF Record
      <4> QED
        BY <1>5, <3>2, <4>1, HandTyped DEF Shape
    <3>6. x.pc # "idle" /\ x.run = r
      BY <3>3, <3>4, <3>5 DEF Tame, Idle
    <3> QED
      BY <1>2, <3>3, <3>4, <3>5, <3>6
  <2> QED
    BY <2>1, <2>2, <2>3
<1>6. ASSUME NEW q \in WorkingOn(r)', Resolving(proc'[q]) PROVE proc'[q].request \in pending'
  <2>1. q \in Procs /\ q \in WorkingOn(r) /\ Resolving(proc[q]) /\ proc'[q].request = proc[q].request
    BY <1>1, <1>2, <1>6 DEF WorkingOn
  <2>2. proc[q].request \in pending
    BY <2>1 DEF ResolvedOnce
  <2>3. CASE ~Unlink(p)
    BY <1>3, <2>1, <2>2, <2>3 DEF Create
  <2>4. CASE Unlink(p)
    <3>1. x = Idle /\ pending' = pending \ {proc[p].request} /\ Resolving(proc[p])
      BY <1>1, <2>4, HandsTyped, EndMoves DEF Unlink, At, Resolving, Tame
    <3>2. q # p
      BY <1>2, <1>6, <3>1 DEF Idle, Resolving
    <3>3. proc[p].request # proc[q].request
      <4>1. SUFFICES ASSUME proc[p].request = proc[q].request PROVE FALSE
        OBVIOUS
      <4>2. proc[p].run = r
        BY <2>1, <3>1, <4>1, HandTyped DEF Shape, WorkingOn
      <4>3. p \in WorkingOn(r)
        BY <4>2, Active DEF WorkingOn
      <4> QED
        BY <2>1, <3>1, <3>2, <4>3, OneResolver
    <3> QED
      BY <2>1, <2>2, <3>1, <3>3
  <2> QED
    BY <2>3, <2>4
<1> QED
  BY <1>5, <1>6 DEF ResolvedOnce, At, Resolving

\* A request that is recorded has not been resolved before, so that no approval is lost,
\* and nobody pauses a run while its request is resolved.
LEMMA GrantedMoves ==
  ASSUME TInv, NEW p \in Procs, Step(p) \/ Crash(p), NEW r \in Runs \ disturbed',
         Alone(r), ResolvedOnce(r), Granted(r)
  PROVE  Granted(r)'
<1>1. PICK x : Tame(p, x) /\ (~Evaluate(p) => (Pausing(x) => Pausing(proc[p])))
  BY StepMoves
<1>2. /\ \A q \in Procs : proc'[q] = IF q = p THEN x ELSE proc[q]
      /\ \A q \in WorkingOn(r)' : q \in WorkingOn(r) /\ proc'[q].cmd = proc[q].cmd
  BY <1>1, Active, WorkingMoves
<1>3. ~Record(p) => UNCHANGED <<resolved, granted>>
  BY Requesting
<1>4. ASSUME r \in granted PROVE Override(r)'
  <2>1. PICK b \in resolved : b.request \in GuardrailRequests /\ b.request.run = r /\ b.decision = "approved"
    BY <1>4 DEF Granted, Override
  <2>2. CASE ~Record(p)
    BY <1>3, <2>1, <2>2 DEF Override
  <2>3. CASE Record(p)
    <3>1. Resolving(proc[p]) /\ ~At(p, "unlink")
      BY <2>3 DEF Record, At, Resolving
    <3>2. b.request # proc[p].request
      <4>1. SUFFICES ASSUME b.request = proc[p].request PROVE FALSE
        OBVIOUS
      <4>2. p \in WorkingOn(r)
        BY <2>1, <3>1, <4>1, HandTyped, Active DEF Shape, WorkingOn
      <4>3. b.request \in pending
        BY <3>1, <4>1, <4>2 DEF ResolvedOnce
      <4>4. PICK q \in WorkingOn(r) : At(q, "unlink")
        BY <2>1, <4>3 DEF ResolvedOnce
      <4>5. p = q
        BY <3>1, <4>2, <4>4, OneResolver DEF Resolving, At
      <4> QED
        BY <3>1, <4>4, <4>5
    <3>3. b \in resolved'
      BY <2>1, <2>3, <3>2 DEF Record
    <3> QED
      BY <2>1, <3>3 DEF Override
  <2> QED
    BY <2>2, <2>3
<1>5. ASSUME r \in granted, NEW q \in WorkingOn(r)' PROVE ~Pausing(proc'[q])
  <2>1. q \in Procs /\ q \in WorkingOn(r) /\ ~Pausing(proc[q])
    BY <1>2, <1>5 DEF Granted, WorkingOn
  <2>2. CASE q # p \/ ~Evaluate(p)
    BY <1>1, <1>2, <2>1, <2>2
  <2>3. CASE q = p /\ Evaluate(p)
    <3>1. PICK y : Tame(p, y) /\ y.pc = "collect" /\ y.then = IF New(p).decision = "pause" THEN "mark" ELSE "execute"
      BY <2>3, EvaluateMoves
    <3>2. proc'[p] = y
      BY <3>1, HandsTyped DEF Tame
    <3>3. Override(proc[p].run)
      BY <1>5, <2>1, <2>3 DEF Granted, WorkingOn
    <3>4. New(p).decision # "pause"
      BY <3>3, GovernedStopped DEF New
    <3> QED
      BY <2>3, <3>1, <3>2, <3>4 DEF Pausing, Refreshing
  <2> QED
    BY <2>2, <2>3
<1>6. ASSUME r \notin granted, r \in granted' PROVE Override(r)' /\ \A q \in WorkingOn(r)' : ~Pausing(proc'[q])
  <2>1. Record(p) /\ Resolving(proc[p]) /\ Goes(p, "unlink")
    BY <1>3, <1>6 DEF Record, At, Resolving
  <2>2. proc[p].run = r /\ proc[p].request \in GuardrailRequests /\ proc[p].decision = "approved"
    BY <1>6, <2>1 DEF Record
  <2>3. proc[p].request.run = r /\ p \in WorkingOn(r)
    BY <2>1, <2>2, HandTyped, Active DEF Shape, WorkingOn
  <2>4. Override(r)'
    <3>1. PICK b : b = [request |-> proc[p].request, decision |-> proc[p].decision]
      OBVIOUS
    <3>2. b \in resolved'
      BY <2>1, <3>1 DEF Record
    <3> QED
      BY <2>2, <2>3, <3>1, <3>2 DEF Override
  <2>5. ASSUME NEW q \in WorkingOn(r)' PROVE ~Pausing(proc'[q])
    <3>1. q \in Procs /\ q \in WorkingOn(r)
      BY <1>2, <2>5 DEF WorkingOn
    <3>2. CASE q = p
      <4>1. PICK y : Tame(p, y) /\ y.pc = "unlink"
        BY <2>1, ResolverMoves
      <4>2. proc'[p] = y
        BY <4>1, HandsTyped DEF Tame
      <4> QED
        BY <3>2, <4>1, <4>2 DEF Pausing, Refreshing
    <3>3. CASE q # p
      <4>1. ~Pausing(proc[q])
        BY <2>1, <2>3, <3>1, <3>3, OneResolver
      <4> QED
        BY <1>2, <3>1, <3>3, <4>1
    <3> QED
      BY <3>2, <3>3
  <2> QED
    BY <2>4, <2>5
<1> QED
  BY <1>4, <1>5, <1>6 DEF Granted, Pausing, Refreshing

LEMMA ApprovedMoves == ASSUME TInv, LInv, NInv, NEW p \in Procs, Step(p) \/ Crash(p) PROVE NInv'
<1> SUFFICES ASSUME NEW r \in Runs \ disturbed' PROVE Alone(r)' /\ ResolvedOnce(r)' /\ Granted(r)'
  BY DEF NInv
<1>1. Alone(r) /\ ResolvedOnce(r) /\ Granted(r)
  BY Requesting DEF NInv
<1>2. PICK x : Tame(p, x)
  BY StepMoves
<1>3. \A q \in WorkingOn(r)' : q \in WorkingOn(r) /\ proc'[q].cmd = proc[q].cmd
  BY <1>2, Active, WorkingMoves
<1>4. Alone(r)'
  BY <1>1, <1>3 DEF Alone
<1> QED
  BY <1>1, <1>4, ResolvedMoves, GrantedMoves

\* Whoever begins to work on a run is alone with it, or disturbs it, or only asks.
LEMMA Joins ==
  ASSUME TInv, NInv, NEW p \in Procs, At(p, "idle"), NEW x \in Proc, Shape(x), Set(p, x),
         UNCHANGED <<pending, resolved, granted>>, disturbed \subseteq disturbed',
         ~Pausing(x), Resolving(x) => x.request \in pending,
         x.cmd = "ask" \/ x.run = None \/ x.run \in disturbed' \/ WorkingOn(x.run) = {}
  PROVE  NInv'
<1> SUFFICES ASSUME NEW r \in Runs \ disturbed' PROVE Alone(r)' /\ ResolvedOnce(r)' /\ Granted(r)'
  BY DEF NInv
<1>1. Alone(r) /\ ResolvedOnce(r) /\ Granted(r)
  BY DEF NInv
<1>2. \A q \in Procs : proc'[q] = IF q = p THEN x ELSE proc[q]
  BY HandsTyped
<1>3. p \notin WorkingOn(r)
  BY DEF WorkingOn, At
<1>4. /\ \A q \in WorkingOn(r) : q \in Procs /\ q # p /\ q \in WorkingOn(r)' /\ proc'[q] = proc[q]
      /\ \A q \in WorkingOn(r)' : q \in Procs /\ (q # p => q \in WorkingOn(r) /\ proc'[q] = proc[q])
  BY <1>2, <1>3 DEF WorkingOn
<1>5. p \in WorkingOn(r)' => x.run = r /\ (x.cmd = "ask" \/ WorkingOn(r) = {})
  BY <1>2, NoneAssumption DEF WorkingOn
<1>6. Alone(r)'
  <2>1. ASSUME NEW q \in WorkingOn(r)', NEW s \in WorkingOn(r)'
        PROVE  q = s \/ proc'[q].cmd = "ask" \/ proc'[s].cmd = "ask"
    <3>1. CASE q # p /\ s # p
      BY <1>1, <1>4, <3>1 DEF Alone
    <3>2. CASE q = p \/ s = p
      BY <1>2, <1>4, <1>5, <3>2
    <3> QED
      BY <3>1, <3>2
  <2> QED
    BY <2>1 DEF Alone
<1>7. ResolvedOnce(r)'
  <2>1. ASSUME NEW a \in pending, NEW b \in resolved, a.run = r, b.request = a
        PROVE  \E q \in WorkingOn(r)' : proc'[q].pc = "unlink" /\ proc'[q].request = a
    BY <1>1, <1>4, <2>1 DEF ResolvedOnce, At
  <2>2. ASSUME NEW q \in WorkingOn(r)', Resolving(proc'[q]) PROVE proc'[q].request \in pending
    <3>1. CASE q = p
      BY <1>2, <2>2, <3>1
    <3>2. CASE q # p
      BY <1>1, <1>4, <2>2, <3>2 DEF ResolvedOnce
    <3> QED
      BY <3>1, <3>2
  <2> QED
    BY <2>1, <2>2 DEF ResolvedOnce, At, Resolving
<1>8. Granted(r)'
  <2>1. ASSUME r \in granted, NEW q \in WorkingOn(r)' PROVE ~Pausing(proc'[q])
    <3>1. CASE q = p
      BY <1>2, <3>1
    <3>2. CASE q # p
      BY <1>1, <1>4, <2>1, <3>2 DEF Granted
    <3> QED
      BY <3>1, <3>2
  <2>2. r \in granted => Override(r)'
    BY <1>1 DEF Granted, Override
  <2> QED
    BY <2>1, <2>2 DEF Granted, Pausing, Refreshing
<1> QED
  BY <1>6, <1>7, <1>8

LEMMA MeetsNobody == ASSUME NEW p, NEW r \in Runs, At(p, "idle"), Meets(p, r) PROVE r \in disturbed' \/ WorkingOn(r) = {}
  BY DEF Meets, WorkingOn, At

LEMMA ApprovedBegins ==
  ASSUME TInv, LInv, NInv, NEW p \in Procs,
         Dashboard(p) \/ Resolve(p)
           \/ \E r \in Runs : Claim(p, r) \/ Direct(p, r) \/ Enqueue(p, r) \/ AskHuman(p, r)
  PROVE  NInv'
<1>1. UNCHANGED <<pending, resolved, granted>>
  BY DEF Dashboard, Resolve, Claim, Direct, Enqueue, AskHuman, files, ghosts
<1>2. At(p, "idle") /\ disturbed \subseteq disturbed'
  BY DEF Dashboard, Resolve, Claim, Direct, Enqueue, AskHuman, Command, Meets, ghosts
<1>3. CASE Dashboard(p)
  BY <1>1, <1>2, <1>3, DashboardBegins, Joins DEF Dashboard, Pausing, Refreshing, Resolving
<1>4. CASE Resolve(p)
  <2>1. PICK a \in pending : \E x :
          /\ Set(p, x) /\ x \in Proc /\ Shape(x) /\ Resolving(x) /\ x.run = a.run /\ x.request = a /\ Meets(p, a.run)
    BY <1>4, ResolveBegins
  <2>2. a.run \in Runs
    BY DEF TInv, TypeOK, Requests
  <2>3. a.run \in disturbed' \/ WorkingOn(a.run) = {}
    BY <1>2, <2>1, <2>2, MeetsNobody
  <2> QED
    BY <1>1, <1>2, <2>1, <2>3, Joins DEF Pausing, Refreshing, Resolving
<1>5. ASSUME NEW r \in Runs, Claim(p, r) PROVE NInv'
  <2>1. PICK x : x = Refresh([Idle EXCEPT !.cmd = "worker", !.run = r], "load")
    OBVIOUS
  <2>2. x \in Proc /\ Shape(x) /\ x.pc = "collect" /\ x.then = "load" /\ x.run = r
    BY <2>1, ExecutionBegins
  <2>3. Set(p, x) /\ (r \in disturbed' \/ WorkingOn(r) = {})
    BY <1>2, <1>5, <2>1, MeetsNobody DEF Claim
  <2>4. ~Pausing(x) /\ ~Resolving(x)
    BY <2>2 DEF Pausing, Refreshing, Resolving
  <2> QED
    BY <1>1, <1>2, <2>2, <2>3, <2>4, Joins
<1>6. ASSUME NEW r \in Runs, Direct(p, r) PROVE NInv'
  <2>1. PICK x : x = Refresh([Idle EXCEPT !.cmd = "direct", !.run = r], "load")
    OBVIOUS
  <2>2. x \in Proc /\ Shape(x) /\ x.pc = "collect" /\ x.then = "load" /\ x.run = r
    BY <2>1, ExecutionBegins
  <2>3. Set(p, x) /\ r \notin used
    BY <1>6, <2>1 DEF Direct
  <2>4. WorkingOn(r) = {}
    BY <2>3, NoneAssumption DEF LInv, WorkingOn
  <2>5. ~Pausing(x) /\ ~Resolving(x)
    BY <2>2 DEF Pausing, Refreshing, Resolving
  <2> QED
    BY <1>1, <1>2, <2>2, <2>3, <2>4, <2>5, Joins
<1>7. ASSUME NEW r \in Runs, Enqueue(p, r) PROVE NInv'
  <2>1. UNCHANGED <<proc, disturbed>>
    BY <1>7 DEF Enqueue, ghosts
  <2> QED
    BY <1>1, <2>1 DEF NInv, Alone, ResolvedOnce, Granted, Override, WorkingOn, At, Resolving, Pausing, Refreshing
<1>8. ASSUME NEW r \in Runs, AskHuman(p, r) PROVE NInv'
  <2>1. PICK x : Set(p, x) /\ x \in Proc /\ Shape(x) /\ x.pc = "scan" /\ x.run = r /\ x.cmd = "ask"
    BY <1>8, AskBegins
  <2>2. ~Pausing(x) /\ ~Resolving(x)
    BY <2>1 DEF Pausing, Refreshing, Resolving
  <2> QED
    BY <1>1, <1>2, <2>1, <2>2, Joins
<1> QED
  BY <1>3, <1>4, <1>5, <1>6, <1>7, <1>8

LEMMA ApprovedStep == ASSUME TInv, LInv, NInv, [Next]_vars PROVE NInv'
<1>1. CASE (\E r \in Runs : ApproveItem(r) \/ Reclaim(r)) \/ UNCHANGED vars
  <2>1. UNCHANGED <<proc, pending, resolved, granted>> /\ disturbed \subseteq disturbed'
    BY <1>1 DEF ApproveItem, Reclaim, Meets, vars, files, ghosts
  <2> SUFFICES ASSUME NEW r \in Runs \ disturbed' PROVE Alone(r)' /\ ResolvedOnce(r)' /\ Granted(r)'
    BY DEF NInv
  <2>2. Alone(r) /\ ResolvedOnce(r) /\ Granted(r)
    BY <2>1 DEF NInv
  <2> QED
    BY <2>1, <2>2 DEF Alone, ResolvedOnce, Granted, Override, WorkingOn, At, Resolving, Pausing, Refreshing
<1> QED
  BY <1>1, ApprovedMoves, ApprovedBegins DEF Next, Begin, Procs

LEMMA ApprovedInit == Init => NInv
  BY DEF Init, NInv, Alone, ResolvedOnce, Granted, WorkingOn, Idle

\* A run whose approval has been recorded is not paused again, be it by the budget or by
\* the governance rules (load_resolved_guardrail_override, evaluate_guardrails), for any
\* number of requests and processes: no second resolver takes the approval back.
THEOREM NeverPausedAgain == Spec => []NotPausedAgain
<1>1. TInv /\ NInv => NotPausedAgain
  <2> SUFFICES ASSUME TInv, NInv, NEW p \in Procs, At(p, "mark") PROVE proc[p].run \notin granted \ disturbed
    BY DEF NotPausedAgain
  <2>1. proc[p].run \in Runs /\ p \in WorkingOn(proc[p].run)
    BY HandTyped DEF Shape, Executor, At, WorkingOn
  <2> QED
    BY <2>1 DEF NInv, Granted, Pausing, At
<1> QED
  BY TypedInit, TypedStep, LinkedInit, LinkedStep, ApprovedInit, ApprovedStep, <1>1, PTL DEF Spec

------------------------------------------------------------------------------
(* What waits. *)

LEMMA HandOf == ASSUME TInv, NEW p \in Procs, NEW x, Tame(p, x) PROVE proc'[p] = x
  BY HandsTyped DEF Tame

\* Only who has written the status of the task records a decision.
LEMMA RecordingMoves ==
  ASSUME TInv, NEW p \in Procs, Step(p) \/ Crash(p), proc'[p].pc \in {"record", "unlink"}
  PROVE  Status(p) \/ Record(p)
<1>1. \A x : Tame(p, x) => x.pc \in {"record", "unlink"}
  BY HandOf
<1>2. CASE Collect(p) \/ Load(p)
  BY <1>1, <1>2, CollectMoves, LoadMoves
<1>3. CASE Publish(p)
  <2>1. PICK x : Tame(p, x) /\ proc[p].pc = "publish" /\ (x = Idle \/ x.pc = proc[p].then)
    BY <1>3, PublishMoves
  <2>2. proc[p].then \in {"idle", "load", "mark", "execute", "settle"}
    BY <2>1, HandTyped DEF Shape, Refreshing
  <2> QED
    BY <1>1, <2>1, <2>2 DEF Idle
<1>4. CASE Evaluate(p) \/ Mark(p)
  BY <1>1, <1>4, EvaluateMoves, MarkMoves
<1>5. CASE Scan(p) \/ Create(p)
  BY <1>1, <1>5, ScanMoves, CreateMoves
<1>6. CASE Park(p) \/ Execute(p)
  BY <1>1, <1>6, ParkMoves, ExecuteMoves
<1>7. CASE Settle(p) \/ Unlink(p) \/ Crash(p)
  BY <1>1, <1>7, EndMoves DEF Settle, Unlink, Crash, Idle
<1>8. CASE Drop(p)
  BY <1>1, <1>8, ResolverMoves DEF Drop, At, Resolving
<1>9. CASE Release(p)
  <2>1. Goes(p, "status") \/ Ends(p)
    BY <1>9 DEF Release
  <2> QED
    BY <1>1, <1>9, <2>1, EndMoves, ResolverMoves DEF Release, At, Resolving, Idle
<1> QED
  BY <1>2, <1>3, <1>4, <1>5, <1>6, <1>7, <1>8, <1>9 DEF Step

\* Which steps write the status of a task.
LEMMA TaskMoves ==
  ASSUME TInv, NEW p \in Procs, Step(p) \/ Crash(p), NEW r \in Runs, task'[r] = "awaiting_approval"
  PROVE  /\ task[r] = "awaiting_approval" \/ (Mark(p) /\ proc[p].run = r)
         /\ Status(p) => proc[p].run # r
<1>1. task \in [Runs -> TaskStatuses]
  BY DEF TInv, TypeOK
<1>2. CASE Mark(p)
  BY <1>1, <1>2 DEF Mark, Status, At
<1>3. CASE Status(p)
  <2>1. proc[p].status # "awaiting_approval"
    BY <1>3, HandTyped DEF Status, At, Shape, Resolving
  <2> QED
    BY <1>1, <1>3, <2>1 DEF Status
<1>4. CASE ~Mark(p) /\ ~Status(p)
  <2>1. UNCHANGED task
    BY <1>4 DEF Step, Collect, Publish, Load, Evaluate, Scan, Create, Park, Execute, Settle, Drop, Release, Record, Unlink,
       Crash, files
  <2> QED
    BY <1>4, <2>1
<1> QED
  BY <1>2, <1>3, <1>4

\* Who asks for a run leaves a request, or is still at it.
LEMMA AskingMoves ==
  ASSUME TInv, NEW p \in Procs, Step(p), NEW r \in Runs, proc[p].run = r, Asking(proc[p]), Executor(proc[p])
  PROVE  \/ \E a \in pending' \cap GuardrailRequests : a.run = r
         \/ proc'[p].pc # "idle" /\ proc'[p].run = r /\ Asking(proc'[p]) /\ Executor(proc'[p])
<1>1. Scan(p) \/ Create(p)
  BY DEF Step, Collect, Publish, Load, Evaluate, Mark, Park, Execute, Settle, Drop, Release, Status, Record, Unlink, At,
     Asking
<1>2. /\ proc[p].request.action = "run" /\ proc[p].request.source = "guardrail" /\ proc[p].request.run = r
      /\ pending \subseteq Requests
  BY HandTyped DEF Shape, TInv, TypeOK
<1>3. CASE Scan(p)
  <2>1. pending' = pending
    BY <1>3 DEF Scan, files
  <2>2. ASSUME NEW a \in pending, [a EXCEPT !.id = 1] = proc[p].request
        PROVE  a \in pending' \cap GuardrailRequests /\ a.run = r
    <3>1. a \in Requests
      BY <1>2
    <3>2. a.run = proc[p].request.run /\ a.action = proc[p].request.action /\ a.source = proc[p].request.source
      BY <2>2, <3>1 DEF Requests
    <3> QED
      BY <1>2, <2>1, <3>1, <3>2 DEF GuardrailRequests
  <2>3. CASE \E a \in pending : [a EXCEPT !.id = 1] = proc[p].request
    BY <2>2, <2>3
  <2>4. CASE ~\E a \in pending : [a EXCEPT !.id = 1] = proc[p].request
    <3>1. PICK x : Tame(p, x) /\ x.pc = "create"
      BY <1>3, <2>4, ScanMoves
    <3> QED
      BY <3>1, HandOf DEF Tame, Idle, Asking, Executor
  <2> QED
    BY <2>3, <2>4
<1>4. CASE Create(p)
  BY <1>4, CreateMoves
<1> QED
  BY <1>1, <1>3, <1>4

LEMMA WaitingMoves == ASSUME TInv, NInv, WInv, NEW p \in Procs, Step(p) \/ Crash(p) PROVE WInv'
<1> SUFFICES ASSUME NEW r \in Runs \ disturbed', task'[r] = "awaiting_approval"
             PROVE  /\ \/ \E a \in pending' \cap GuardrailRequests : a.run = r
                       \/ \E q \in WorkingOn(r)' : Asking(proc'[q]) /\ Executor(proc'[q])
                    /\ \A q \in WorkingOn(r)' : proc'[q].pc \in {"record", "unlink"} => proc'[q].request.action # "run"
  BY DEF WInv, Waits, Asking, Executor
<1>1. Alone(r) /\ Waits(r)
  BY Requesting DEF NInv, WInv
<1>2. PICK x : Tame(p, x) /\ (Resolving(x) => Resolving(proc[p]) /\ x.request = proc[p].request)
  BY StepMoves
<1>3. /\ \A q \in Procs : proc'[q] = IF q = p THEN x ELSE proc[q]
      /\ \A q \in WorkingOn(r)' : q \in Procs /\ q \in WorkingOn(r) /\ proc'[q].cmd = proc[q].cmd
      /\ \A q \in WorkingOn(r) : q \in Procs /\ (q # p => q \in WorkingOn(r)')
      /\ p \in WorkingOn(r)' <=> x.pc # "idle" /\ x.run = r
  BY <1>2, Active, WorkingMoves DEF WorkingOn
<1>4. CASE Mark(p) /\ proc[p].run = r
  <2>1. PICK y : Tame(p, y) /\ y.pc = "scan" /\ Executor(y)
    BY <1>4, MarkMoves
  <2>2. proc'[p] = y /\ x = y /\ y.run = r
    BY <1>2, <1>4, <2>1, HandOf DEF Tame, Idle
  <2>3. p \in WorkingOn(r)' /\ p \in WorkingOn(r) /\ Executor(proc[p])
    BY <1>3, <2>1, <2>2 DEF Executor
  <2>4. ASSUME NEW q \in WorkingOn(r)', proc'[q].pc \in {"record", "unlink"} PROVE FALSE
    <3>1. q # p /\ proc'[q] = proc[q] /\ q \in WorkingOn(r)
      BY <1>3, <2>1, <2>2, <2>4
    <3> QED
      BY <1>1, <2>3, <2>4, <3>1, OneResolver DEF Resolving
  <2> QED
    BY <2>1, <2>2, <2>3, <2>4 DEF Asking
<1>5. CASE task[r] = "awaiting_approval"
  <2>1. ASSUME NEW q \in WorkingOn(r)', proc'[q].pc \in {"record", "unlink"} PROVE proc'[q].request.action # "run"
    <3>1. CASE q # p
      BY <1>1, <1>3, <1>5, <2>1, <3>1 DEF Waits
    <3>2. CASE q = p
      <4>1. Status(p) \/ Record(p)
        BY <2>1, <3>2, RecordingMoves
      <4>2. Record(p)
        BY <1>3, <2>1, <3>2, <4>1, TaskMoves DEF WorkingOn
      <4>3. proc[p].request.action # "run"
        BY <1>1, <1>3, <1>5, <2>1, <3>2, <4>2 DEF Waits, Record, At
      <4>4. proc'[p].request = proc[p].request
        BY <1>2, <1>3, <2>1, <3>2 DEF Resolving
      <4> QED
        BY <3>2, <4>3, <4>4
    <3> QED
      BY <3>1, <3>2
  <2>2. CASE \E a \in pending \cap GuardrailRequests : a.run = r
    <3>1. PICK a \in pending \cap GuardrailRequests : a.run = r
      BY <2>2
    <3>2. a \in pending'
      <4>1. CASE ~Unlink(p)
        BY <3>1, <4>1, Requesting DEF Create
      <4>2. CASE Unlink(p)
        <5>1. SUFFICES ASSUME a = proc[p].request PROVE FALSE
          BY <3>1, <4>2 DEF Unlink
        <5>2. proc[p].pc = "unlink" /\ proc[p].run = r /\ a.action = "run"
          BY <3>1, <4>2, <5>1, HandTyped DEF Unlink, At, Shape, Resolving, GuardrailRequests
        <5>3. p \in WorkingOn(r)
          BY <5>2 DEF WorkingOn
        <5> QED
          BY <1>1, <1>5, <5>1, <5>2, <5>3 DEF Waits
      <4> QED
        BY <4>1, <4>2
    <3> QED
      BY <2>1, <3>1, <3>2
  <2>3. CASE \E q \in WorkingOn(r) : Asking(proc[q]) /\ Executor(proc[q])
    <3>1. PICK q \in WorkingOn(r) : Asking(proc[q]) /\ Executor(proc[q])
      BY <2>3
    <3>2. CASE q # p
      BY <1>3, <2>1, <3>1, <3>2
    <3>3. CASE q = p
      <4>1. Step(p) /\ proc[p].run = r
        BY <3>1, <3>3, NoneAssumption DEF Crash, WorkingOn
      <4>2. \/ \E a \in pending' \cap GuardrailRequests : a.run = r
            \/ proc'[p].pc # "idle" /\ proc'[p].run = r /\ Asking(proc'[p]) /\ Executor(proc'[p])
        BY <3>1, <3>3, <4>1, AskingMoves
      <4> QED
        BY <1>3, <2>1, <4>2
    <3> QED
      BY <3>2, <3>3
  <2> QED
    BY <1>1, <1>5, <2>2, <2>3 DEF Waits
<1> QED
  BY <1>4, <1>5, TaskMoves

LEMMA WaitingBegins ==
  ASSUME TInv, WInv, NEW p \in Procs,
         Dashboard(p) \/ Resolve(p)
           \/ \E r \in Runs : Claim(p, r) \/ Direct(p, r) \/ Enqueue(p, r) \/ AskHuman(p, r)
  PROVE  WInv'
<1>1. UNCHANGED <<pending, task>> /\ disturbed \subseteq disturbed' /\ At(p, "idle")
  BY DEF Dashboard, Resolve, Claim, Direct, Enqueue, AskHuman, Command, Meets, files, ghosts
<1>2. ASSUME NEW x \in Proc, Shape(x), Set(p, x), x.pc \in {"record", "unlink"} => x.request.action # "run" PROVE WInv'
  <2> SUFFICES ASSUME NEW r \in Runs \ disturbed', task[r] = "awaiting_approval"
               PROVE  /\ \/ \E a \in pending \cap GuardrailRequests : a.run = r
                         \/ \E q \in WorkingOn(r)' : Asking(proc'[q]) /\ Executor(proc'[q])
                      /\ \A q \in WorkingOn(r)' : proc'[q].pc \in {"record", "unlink"} => proc'[q].request.action # "run"
    BY <1>1 DEF WInv, Waits, Asking, Executor
  <2>1. \A q \in Procs : proc'[q] = IF q = p THEN x ELSE proc[q]
    BY <1>2, HandsTyped
  <2>2. /\ \A q \in WorkingOn(r) : q \in WorkingOn(r)' /\ proc'[q] = proc[q]
        /\ \A q \in WorkingOn(r)' : q = p \/ (q \in WorkingOn(r) /\ proc'[q] = proc[q])
    BY <1>1, <2>1 DEF WorkingOn, At
  <2>3. Waits(r)
    BY <1>1 DEF WInv
  <2> QED
    BY <1>1, <1>2, <2>1, <2>2, <2>3 DEF Waits, WorkingOn
<1>3. CASE UNCHANGED proc
  BY <1>1, <1>3 DEF WInv, Waits, WorkingOn, Asking, Executor
<1>4. CASE Dashboard(p)
  BY <1>2, <1>4, DashboardBegins DEF Dashboard
<1>5. CASE Resolve(p)
  BY <1>2, <1>5, ResolveBegins
<1>6. ASSUME NEW r \in Runs, Claim(p, r) \/ Direct(p, r) PROVE WInv'
  <2>1. PICK cmd \in {"worker", "direct"} : Set(p, Refresh([Idle EXCEPT !.cmd = cmd, !.run = r], "load"))
    BY <1>6 DEF Claim, Direct
  <2>2. PICK x : x = Refresh([Idle EXCEPT !.cmd = cmd, !.run = r], "load")
    OBVIOUS
  <2>3. x \in Proc /\ Shape(x) /\ x.pc = "collect"
    BY <2>2, ExecutionBegins
  <2> QED
    BY <1>2, <2>1, <2>2, <2>3
<1>7. ASSUME NEW r \in Runs, AskHuman(p, r) PROVE WInv'
  BY <1>2, <1>7, AskBegins
<1>8. ASSUME NEW r \in Runs, Enqueue(p, r) PROVE UNCHANGED proc
  BY <1>8 DEF Enqueue
<1> QED
  BY <1>3, <1>4, <1>5, <1>6, <1>7, <1>8

LEMMA WaitingStep == ASSUME TInv, NInv, WInv, [Next]_vars PROVE WInv'
<1>1. CASE (\E r \in Runs : ApproveItem(r) \/ Reclaim(r)) \/ UNCHANGED vars
  <2>1. UNCHANGED <<proc, pending, task>> /\ disturbed \subseteq disturbed'
    BY <1>1 DEF ApproveItem, Reclaim, Meets, vars, files, ghosts
  <2> QED
    BY <2>1 DEF WInv, Waits, WorkingOn, Asking, Executor
<1> QED
  BY <1>1, WaitingMoves, WaitingBegins DEF Next, Begin, Procs

LEMMA WaitingInit == Init => WInv
  BY DEF Init, WInv, Waits

\* A task that says awaiting_approval, and on whose run nobody is at work, has a pending
\* request that asks to run it, for any number of processes and requests
\* (pause_run_for_guardrail, resolve_approval_request).
THEOREM WaitersHaveRequest == Spec => []WaitingHasRequest
<1>1. WInv => WaitingHasRequest
  BY DEF WInv, Waits, WaitingHasRequest
<1> QED
  BY TypedInit, TypedStep, LinkedInit, LinkedStep, ApprovedInit, ApprovedStep, WaitingInit, WaitingStep, <1>1, PTL DEF Spec

------------------------------------------------------------------------------
(* The budget. *)

Counts(x) == x.pc # "idle" /\ x.cmd \in {"worker", "direct", "dashboard"}

\* What the process has in hand says nothing about the budget.
Silent(x) == ~(x.pc = "publish" /\ x.then = "load") /\ x.pc \notin {"load", "evaluate"} /\ ~Cleared(x)

LEMMA OthersSilent == ASSUME NEW x, Shape(x), ~Counts(x) PROVE Silent(x)
  BY DEF Shape, Counts, Silent, Cleared, Refreshing, Executor

LEMMA SilentReads == ASSUME NEW x, Silent(x) PROVE Reads(x) /\ Reads(x)'
  BY DEF Silent, Reads

\* With the snapshots and the budget as they were, everything is as it was read.
LEMMA ReadsKept ==
  ASSUME UNCHANGED <<snap, total>>
  PROVE  /\ Consumed' = Consumed /\ (Within(0) => Within(0)')
         /\ \A r : Room(r) => Room(r)'
         /\ \A x : Reads(x) => Reads(x)'
<1>1. charges' = charges /\ Unapproved' = Unapproved
  BY DEF charges, Unapproved
<1>2. Consumed' = Consumed /\ \A n : Within(n) => Within(n)'
  BY <1>1 DEF Consumed, Within
<1>3. \A r : Room(r) => Room(r)'
  BY <1>2 DEF Room
<1> QED
  BY <1>2, <1>3 DEF Reads

\* What is to be shown of a step of one process.
LEMMA BudgetChanges ==
  ASSUME TInv, NEW p \in Procs, NEW x \in Proc, Shape(x), Set(p, x),
         ~crowded' => /\ Reads(x)' /\ Within(0)'
                      /\ \A q \in Procs \ {p} :
                           Counting(q) => /\ ~Counts(x) /\ UNCHANGED <<snap, total>> /\ Reads(proc[q])
                                          /\ \A s \in Procs \ {p} : Counting(s) => s = q
  PROVE  BInv'
<1> SUFFICES ASSUME ~crowded'
             PROVE  /\ \A q, s \in Procs : Counts(proc'[q]) /\ Counts(proc'[s]) => q = s
                    /\ \A q \in Procs : Reads(proc[q])'
                    /\ Within(0)'
  BY DEF BInv, Counts, Counting
<1>1. \A q \in Procs : Shape(proc[q]) /\ proc'[q] = IF q = p THEN x ELSE proc[q]
  BY HandsTyped, HandTyped
<1>2. \A q \in Procs : Counts(proc[q]) <=> Counting(q)
  BY DEF Counts, Counting
<1>3. \A q, s \in Procs : Counts(proc'[q]) /\ Counts(proc'[s]) => q = s
  BY <1>1, <1>2
<1>4. ASSUME NEW q \in Procs PROVE Reads(proc[q])'
  <2>1. PICK y : y = proc'[q]
    OBVIOUS
  <2>2. Reads(y)'
    <3>1. CASE q = p
      BY <1>1, <2>1, <3>1
    <3>2. CASE q # p /\ ~Counting(q)
      BY <1>1, <1>2, <2>1, <3>2, OthersSilent, SilentReads
    <3>3. CASE q # p /\ Counting(q)
      BY <1>1, <2>1, <3>3, ReadsKept
    <3> QED
      BY <3>1, <3>2, <3>3
  <2> QED
    BY <2>1, <2>2 DEF Reads, Room, Cleared, Refreshing
<1> QED
  BY <1>3, <1>4

\* The charge of one run changes, by up to n.
LEMMA ChargeChanges ==
  ASSUME TInv, NEW r \in Runs, NEW s \in Snapshot, snap' = [snap EXCEPT ![r] = s], NEW n \in Nat,
         s.override \/ s.consumed <= n, NEW S, Unapproved' \subseteq S \cup {r}, S \subseteq Runs
  PROVE  /\ Sum(charges, S) \in Nat /\ Sum(charges, Unapproved)' \in Nat
         /\ Sum(charges, Unapproved)' <= Sum(charges, S) + n
<1>1. /\ \A q \in Runs : charges'[q] = IF q = r THEN s.consumed ELSE charges[q]
      /\ IsFiniteSet(Bill(charges, Runs)) /\ IsFiniteSet(Bill(charges, Runs))' /\ s.consumed \in Nat
  <2>1. Board
    BY BoardTyped
  <2>2. /\ \A q \in Runs : charges'[q] = IF q = r THEN s.consumed ELSE charges[q]
        /\ IsFiniteSet(Bill(charges, Runs))'
    BY <2>1, SnapTyped
  <2> QED
    BY <2>1, <2>2 DEF Board, Snapshot
<1>2. r \in Unapproved' => s.consumed <= n
  BY DEF Unapproved, TInv, TypeOK
<1>3. PICK f, g, T : f = charges /\ g = charges' /\ T = Unapproved'
  OBVIOUS
<1>4. IsFiniteSet(Bill(f, S))
  <2>1. Bill(f, S) \subseteq Bill(f, Runs)
    BY DEF Bill
  <2> QED
    BY <1>1, <1>3, <2>1, FS_Subset
<1>5. \A y \in T : y # r => y \in S /\ g[y] = f[y]
  BY <1>1, <1>3
<1>6. r \in T => g[r] \in Nat /\ g[r] <= n
  BY <1>1, <1>2, <1>3
<1>7. Sum(f, S) \in Nat /\ Sum(g, T) \in Nat /\ Sum(g, T) <= Sum(f, S) + n
  <2>1. IsFiniteSet(Bill(g, T))
    <3>1. IsFiniteSet(Bill(g, Runs))
      BY <1>1, <1>3 DEF Bill
    <3>2. Bill(g, T) \subseteq Bill(g, Runs)
      BY <1>3 DEF Bill, Unapproved
    <3> QED
      BY <3>1, <3>2, FS_Subset
  <2>2. Sum(f, S) \in Nat /\ Sum(g, T) \in Nat
    BY <1>4, <2>1, FS_CardinalityType DEF Sum, Bill
  <2>3. Sum(g, T) <= Sum(f, S) + n
    BY <1>4, <1>5, <1>6, SumChanges
  <2> QED
    BY <2>2, <2>3
<1> QED
  BY <1>3, <1>7

\* What is neither approved nor stopped fits in.
LEMMA RoomLeft ==
  ASSUME asks \in Tasks, NEW r \in Runs, NEW c \in Nat, NEW o \in BOOLEAN, ~o, Evaluation(r, c, o).decision # "pause"
  PROVE  HardLimit > 0 => c + Units(r) < HardLimit
<1> DEFINE over == HardLimit > 0 /\ c + Units(r) >= HardLimit
           stopped == over \/ Governed(r)
           warned == WarningLimit > 0 /\ c + Units(r) >= WarningLimit
<1>1. Evaluation(r, c, o).decision =
        IF stopped /\ o THEN "allow" ELSE IF stopped THEN "pause" ELSE IF warned THEN "warn" ELSE "allow"
  BY DEF Evaluation
<1>2. Units(r) \in Nat /\ HardLimit \in Nat
  BY UnitsCounted, PolicyAssumption
<1>3. over => stopped
  OBVIOUS
<1> HIDE DEF stopped, warned, over
<1>4. ~over
  BY <1>1, <1>3
<1> QED
  BY <1>2, <1>4 DEF over

LEMMA AloneCounts == ASSUME BInv, ~crowded, NEW p \in Procs, Counting(p) PROVE \A q \in Procs \ {p} : ~Counting(q)
  BY DEF BInv

LEMMA BudgetEvaluates == ASSUME TInv, BInv, NEW p \in Procs, Evaluate(p) PROVE BInv'
<1>1. PICK x : /\ Tame(p, x) /\ proc[p].pc = "evaluate" /\ x.pc = "collect" /\ Executor(x)
               /\ x.then = IF New(p).decision = "pause" THEN "mark" ELSE "execute"
  BY EvaluateMoves
<1>2. PICK r, s, o : r = proc[p].run /\ s = New(p) /\ o = Override(r)
  OBVIOUS
<1>3. /\ proc[p] \in Proc /\ r \in Runs /\ Counting(p) /\ x.run = r /\ asks \in Tasks
  <2>1. proc[p] \in Proc /\ Shape(proc[p]) /\ asks \in Tasks
    BY HandTyped, BoardTyped DEF Board
  <2> QED
    BY <1>1, <1>2, <2>1 DEF Shape, Executor, Counting, Tame, Idle
<1>4. /\ s \in Snapshot /\ s = Evaluation(r, proc[p].seen, o) /\ s.units = Units(r) /\ s.consumed = 0 /\ s.override = o
      /\ o \in BOOLEAN /\ snap' = [snap EXCEPT ![r] = s]
  <2>1. o \in BOOLEAN
    BY <1>2 DEF Override
  <2>2. snap' = [snap EXCEPT ![r] = s] /\ s \in Snapshot /\ s = Evaluation(r, proc[p].seen, o)
    BY <1>2, SnapsKept DEF Step, New
  <2> QED
    BY <1>3, <2>1, <2>2, EvaluationTyped
<1>5. crowded' = crowded
  BY DEF Evaluate, ghosts
<1>6. snap \in [Runs -> Snapshot \cup {None}] /\ s # None
  BY <1>4, BoardTyped, NoneAssumption DEF Board
<1>7. Unapproved' \subseteq Unapproved \cup {r} /\ Unapproved \subseteq Runs /\ Unapproved' \subseteq Runs /\ snap'[r] = s
  BY <1>3, <1>4, <1>6 DEF Unapproved
<1> SUFFICES ASSUME ~crowded PROVE Within(0)' /\ Reads(x)'
  <2>1. ~crowded => \A q \in Procs \ {p} : ~Counting(q)
    BY <1>3, AloneCounts
  <2> QED
    BY <1>1, <1>5, <2>1, BudgetChanges DEF Tame
<1>8. Within(0) /\ proc[p].seen = Consumed /\ HardLimit \in Nat
  BY <1>1, PolicyAssumption DEF BInv, Reads
<1>0. 0 \in Nat /\ s.consumed <= 0
  BY <1>4
<1>9. Within(0)'
  <2>1. /\ Sum(charges, Unapproved) \in Nat /\ Sum(charges, Unapproved)' \in Nat
        /\ Sum(charges, Unapproved)' <= Sum(charges, Unapproved) + 0
    BY <1>0, <1>3, <1>4, <1>7, ChargeChanges
  <2> QED
    BY <1>8, <2>1 DEF Within
<1>10. ASSUME Cleared(x), ~o PROVE Within(s.units)'
  <2>1. s.decision # "pause"
    BY <1>1, <1>2, <1>10 DEF Cleared, Refreshing
  <2>2. proc[p].seen \in Nat /\ s.units \in Nat
    BY <1>3, <1>4 DEF Proc, Snapshot
  <2>3. HardLimit > 0 => Consumed + s.units < HardLimit
    BY <1>3, <1>4, <1>8, <1>10, <2>1, <2>2, RoomLeft
  <2>4. /\ Sum(charges, Runs) \in Nat /\ Sum(charges, Unapproved)' \in Nat
        /\ Sum(charges, Unapproved)' <= Sum(charges, Runs) + 0
    BY <1>0, <1>3, <1>4, <1>7, ChargeChanges
  <2> QED
    BY <1>8, <2>2, <2>3, <2>4 DEF Within, Consumed
<1>11. Cleared(x) => Room(x.run)'
  BY <1>3, <1>4, <1>6, <1>7, <1>10 DEF Room
<1> QED
  BY <1>1, <1>9, <1>11 DEF Reads

LEMMA BudgetCharges == ASSUME TInv, BInv, NEW p \in Procs, Execute(p) PROVE BInv'
<1>1. PICK x : Tame(p, x) /\ x.pc = "collect" /\ x.then \in {"settle", "idle"}
  BY ExecuteMoves
<1>2. PICK r, code, s : r = proc[p].run /\ s = Charged(snap[r], code) /\ snap' = [snap EXCEPT ![r] = s]
  BY ExecuteMoves
<1>3. proc[p].pc = "execute" /\ r \in Runs /\ Counting(p) /\ snap[r] \in Snapshot
  <2>1. Shape(proc[p]) /\ proc[p].pc = "execute"
    BY HandTyped DEF Execute, At
  <2> QED
    BY <1>2, <2>1, BoardTyped DEF Board, Shape, Executor, Counting, Cleared
<1>4. s \in Snapshot /\ s.override = snap[r].override /\ s.consumed \in {snap[r].consumed, snap[r].units}
  BY <1>2, <1>3, ChargedTyped
<1>5. crowded' = crowded
  BY DEF Execute, ghosts
<1>6. Unapproved' \subseteq Unapproved /\ Unapproved \subseteq Runs
  BY <1>2, <1>3, <1>4, BoardTyped, NoneAssumption DEF Unapproved, Board
<1> SUFFICES ASSUME ~crowded PROVE Within(0)'
  <2>1. ~crowded => \A q \in Procs \ {p} : ~Counting(q)
    BY <1>3, AloneCounts
  <2>2. Reads(x)'
    BY <1>1 DEF Reads, Cleared, Refreshing
  <2> QED
    BY <1>1, <1>5, <2>1, <2>2, BudgetChanges DEF Tame
<1>7. Within(0) /\ Room(r) /\ HardLimit \in Nat
  BY <1>2, <1>3, PolicyAssumption DEF BInv, Reads, Cleared
<1>8. CASE snap[r].override
  <2>1. /\ Sum(charges, Unapproved) \in Nat /\ Sum(charges, Unapproved)' \in Nat
        /\ Sum(charges, Unapproved)' <= Sum(charges, Unapproved) + 0
    BY <1>2, <1>3, <1>4, <1>6, <1>8, ChargeChanges
  <2> QED
    BY <1>7, <2>1 DEF Within
<1>9. CASE ~snap[r].override
  <2>1. PICK n \in Nat : n = snap[r].units
    BY <1>3 DEF Snapshot
  <2>2. s.consumed <= n /\ Within(n)
    BY <1>4, <1>7, <1>9, <2>1 DEF Room
  <2>3. /\ Sum(charges, Unapproved) \in Nat /\ Sum(charges, Unapproved)' \in Nat
        /\ Sum(charges, Unapproved)' <= Sum(charges, Unapproved) + n
    BY <1>2, <1>3, <1>4, <1>6, <2>2, ChargeChanges
  <2> QED
    BY <1>7, <2>2, <2>3 DEF Within
<1> QED
  BY <1>8, <1>9

LEMMA BudgetMoves == ASSUME TInv, BInv, NEW p \in Procs, Step(p) \/ Crash(p) PROVE BInv'
<1>1. PICK x : Tame(p, x) /\ (~Evaluate(p) => (Cleared(x) => Cleared(proc[p])))
  BY StepMoves
<1>2. \A y : Tame(p, y) => y = x
  BY <1>1, HandOf
<1>3. Cleared(x) => x.run = proc[p].run
  BY <1>1 DEF Tame, Cleared, Refreshing, Idle
<1>4. Counts(x) => Counting(p)
  BY <1>1, Active DEF Tame, Counts, Counting, Idle
<1>5. CASE Publish(p)
  <2>1. PICK y : Tame(p, y) /\ proc[p].pc = "publish" /\ (y = Idle \/ (y.pc = proc[p].then /\ y.then = "idle"))
    BY <1>5, PublishMoves
  <2>2. total' = proc[p].seen /\ UNCHANGED <<snap, crowded>>
    BY <1>5 DEF Publish, ghosts
  <2>3. Counting(p) /\ proc[p].then \in {"idle", "load", "mark", "execute", "settle"}
    BY <2>1, HandTyped DEF Shape, Refreshing, Executor, Counting
  <2>4. charges' = charges /\ Unapproved' = Unapproved
    BY <2>2 DEF charges, Unapproved
  <2>5. Consumed' = Consumed /\ \A n : Within(n) => Within(n)'
    BY <2>4 DEF Consumed, Within
  <2>6. ASSUME ~crowded PROVE Reads(x)' /\ Within(0)'
    <3>1. Reads(proc[p]) /\ Within(0)
      BY <2>6 DEF BInv
    <3>2. x.pc = "load" => total' = Consumed'
      BY <1>2, <2>1, <2>2, <2>5, <3>1 DEF Reads, Idle
    <3>3. x.pc \notin {"publish", "evaluate"}
      BY <1>2, <2>1, <2>3 DEF Idle
    <3>4. Cleared(x) => Room(x.run)'
      <4>1. ~Evaluate(p)
        BY <2>1 DEF Evaluate, At
      <4> QED
        BY <1>1, <1>3, <2>2, <2>5, <3>1, <4>1 DEF Reads, Room
    <3> QED
      BY <2>5, <3>1, <3>2, <3>3, <3>4 DEF Reads
  <2>7. ~crowded => \A q \in Procs \ {p} : ~Counting(q)
    BY <2>3, AloneCounts
  <2> QED
    BY <1>1, <2>2, <2>6, <2>7, BudgetChanges DEF Tame
<1>6. ASSUME UNCHANGED <<snap, total, crowded>>, ~Evaluate(p),
             x.pc \in {"publish", "load", "evaluate"} => Collect(p) \/ Load(p)
      PROVE  BInv'
  <2>1. ASSUME ~crowded PROVE Reads(x)' /\ Within(0)'
    <3>1. Reads(proc[p]) /\ Within(0)
      BY <2>1 DEF BInv
    <3>2. CASE Collect(p)
      <4>1. PICK y : Tame(p, y) /\ y.pc = "publish" /\ y.then = proc[p].then /\ y.seen = Consumed
        BY <3>2, CollectMoves
      <4>2. Reads(x)
        BY <1>1, <1>2, <1>3, <1>6, <3>1, <4>1 DEF Reads
      <4> QED
        BY <1>6, <3>1, <4>2, ReadsKept
    <3>3. CASE Load(p)
      <4>1. PICK y : Tame(p, y) /\ proc[p].pc = "load" /\ y.pc = "evaluate" /\ y.seen = total
        BY <3>3, LoadMoves
      <4>2. Reads(x)
        BY <1>2, <3>1, <4>1 DEF Reads, Cleared, Refreshing
      <4> QED
        BY <1>6, <3>1, <4>2, ReadsKept
    <3>4. CASE x.pc \notin {"publish", "load", "evaluate"}
      <4>1. Reads(x)
        BY <1>1, <1>3, <1>6, <3>1, <3>4 DEF Reads
      <4> QED
        BY <1>6, <3>1, <4>1, ReadsKept
    <3> QED
      BY <1>6, <3>2, <3>3, <3>4
  <2>2. ASSUME ~crowded, NEW q \in Procs \ {p}, Counting(q)
        PROVE  ~Counts(x) /\ Reads(proc[q]) /\ \A s \in Procs \ {p} : Counting(s) => s = q
    BY <1>4, <2>2 DEF BInv
  <2> QED
    BY <1>1, <1>6, <2>1, <2>2, BudgetChanges DEF Tame
<1>7. CASE Collect(p) \/ Load(p)
  <2>1. UNCHANGED <<snap, total, crowded>> /\ ~Evaluate(p)
    BY <1>7 DEF Collect, Load, Evaluate, At, files, ghosts
  <2> QED
    BY <1>6, <1>7, <2>1
<1>8. CASE Mark(p) \/ Scan(p) \/ Create(p) \/ Park(p)
  <2>1. UNCHANGED <<snap, total, crowded>> /\ ~Evaluate(p)
    BY <1>8 DEF Mark, Scan, Create, Park, Evaluate, At, files, ghosts
  <2>2. x.pc \notin {"publish", "load", "evaluate"}
    BY <1>2, <1>8, MarkMoves, ScanMoves, CreateMoves, ParkMoves
  <2> QED
    BY <1>6, <2>1, <2>2
<1>9. CASE Settle(p) \/ Unlink(p) \/ Crash(p)
  <2>1. UNCHANGED <<snap, total, crowded>>
    BY <1>9 DEF Settle, Unlink, Crash, files, ghosts
  <2>2. x = Idle
    BY <1>2, <1>9, EndMoves DEF Settle, Unlink, Crash
  <2>3. ~Cleared(x)
    BY <2>2 DEF Cleared, Refreshing, Idle
  <2>4. ASSUME ~crowded PROVE Reads(x)' /\ Within(0)'
    <3>1. Reads(x) /\ Within(0)
      BY <2>2, <2>3, <2>4 DEF BInv, Reads, Idle
    <3> QED
      BY <2>1, <3>1, ReadsKept
  <2>5. ASSUME ~crowded, NEW q \in Procs \ {p}, Counting(q)
        PROVE  ~Counts(x) /\ Reads(proc[q]) /\ \A s \in Procs \ {p} : Counting(s) => s = q
    BY <1>4, <2>5 DEF BInv
  <2> QED
    BY <1>1, <2>1, <2>4, <2>5, BudgetChanges DEF Tame
<1>10. CASE Drop(p) \/ Release(p) \/ Status(p) \/ Record(p)
  <2>1. UNCHANGED <<snap, total, crowded>> /\ ~Evaluate(p) /\ Resolving(proc[p])
    <3>1. CASE Release(p)
      <4>1. UNCHANGED <<files, ghosts>> /\ At(p, "release")
        BY <3>1 DEF Release
      <4> QED
        BY <4>1 DEF Evaluate, At, Resolving, files, ghosts
    <3> QED
      BY <1>10, <3>1 DEF Drop, Status, Record, Evaluate, At, Resolving, files, ghosts
  <2>2. (\E pc \in {"status", "record", "unlink"} : Goes(p, pc)) \/ Ends(p)
    BY <1>10 DEF Drop, Release, Status, Record
  <2>3. x.pc \notin {"publish", "load", "evaluate"}
    BY <1>2, <2>1, <2>2, ResolverMoves, EndMoves DEF Idle
  <2> QED
    BY <1>6, <2>1, <2>3
<1> QED
  BY <1>5, <1>7, <1>8, <1>9, <1>10, BudgetEvaluates, BudgetCharges DEF Step

LEMMA BudgetBegins ==
  ASSUME TInv, BInv, NEW p \in Procs,
         Dashboard(p) \/ Resolve(p)
           \/ \E r \in Runs : Claim(p, r) \/ Direct(p, r) \/ Enqueue(p, r) \/ AskHuman(p, r)
  PROVE  BInv'
<1>1. UNCHANGED <<snap, total>>
  BY DEF Dashboard, Resolve, Claim, Direct, Enqueue, AskHuman, files
<1>2. ASSUME NEW x \in Proc, Shape(x), Set(p, x), Silent(x), crowded' = crowded, ~Counts(x) PROVE BInv'
  <2>1. ASSUME ~crowded PROVE Reads(x)' /\ Within(0)'
    BY <1>1, <1>2, <2>1, SilentReads, ReadsKept DEF BInv
  <2>2. ASSUME ~crowded, NEW q \in Procs \ {p}, Counting(q)
        PROVE  Reads(proc[q]) /\ \A s \in Procs \ {p} : Counting(s) => s = q
    BY <2>2 DEF BInv
  <2> QED
    BY <1>1, <1>2, <2>1, <2>2, BudgetChanges
<1>3. ASSUME NEW x \in Proc, Shape(x), Set(p, x), Silent(x), Crowds(p) PROVE BInv'
  <2>1. ~crowded' => ~crowded /\ \A q \in Procs \ {p} : ~Counting(q)
    BY <1>3 DEF Crowds
  <2>2. ASSUME ~crowded PROVE Reads(x)' /\ Within(0)'
    BY <1>1, <1>3, <2>2, SilentReads, ReadsKept DEF BInv
  <2> QED
    BY <1>3, <2>1, <2>2, BudgetChanges
<1>4. CASE Dashboard(p)
  BY <1>3, <1>4, DashboardBegins DEF Dashboard, Silent, Cleared, Refreshing
<1>5. CASE Resolve(p)
  <2>1. crowded' = crowded
    BY <1>5 DEF Resolve
  <2>2. \E x : Set(p, x) /\ x \in Proc /\ Shape(x) /\ Resolving(x) /\ x.cmd = "resolve"
    BY <1>5, ResolveBegins
  <2> QED
    BY <1>2, <2>1, <2>2 DEF Silent, Cleared, Refreshing, Resolving, Counts
<1>6. ASSUME NEW r \in Runs, Claim(p, r) \/ Direct(p, r) PROVE BInv'
  <2>1. PICK cmd \in {"worker", "direct"} : Set(p, Refresh([Idle EXCEPT !.cmd = cmd, !.run = r], "load")) /\ Crowds(p)
    BY <1>6 DEF Claim, Direct
  <2>2. PICK x : x = Refresh([Idle EXCEPT !.cmd = cmd, !.run = r], "load")
    OBVIOUS
  <2>3. x \in Proc /\ Shape(x) /\ x.pc = "collect" /\ x.then = "load"
    <3>1. x \in Proc /\ Shape(x) /\ x.pc = "collect"
      BY <2>2, ExecutionBegins
    <3>2. x.then = "load"
      BY <2>2, ExecutionBegins
    <3> QED
      BY <3>1, <3>2
  <2>4. Silent(x)
    BY <2>3 DEF Silent, Cleared, Refreshing
  <2> QED
    BY <1>3, <2>1, <2>2, <2>3, <2>4
<1>7. ASSUME NEW r \in Runs, AskHuman(p, r) PROVE BInv'
  <2>1. crowded' = crowded
    BY <1>7 DEF AskHuman, ghosts
  <2> QED
    BY <1>2, <1>7, <2>1, AskBegins DEF Silent, Cleared, Refreshing, Counts
<1>8. ASSUME NEW r \in Runs, Enqueue(p, r) PROVE BInv'
  <2>1. UNCHANGED <<proc, snap, total, crowded>>
    BY <1>8 DEF Enqueue, files, ghosts
  <2>2. charges' = charges /\ Unapproved' = Unapproved
    BY <2>1 DEF charges, Unapproved
  <2> QED
    BY <2>1, <2>2 DEF BInv, Reads, Room, Within, Consumed, Counting, Cleared, Refreshing
<1> QED
  BY <1>4, <1>5, <1>6, <1>7, <1>8

LEMMA BudgetStep == ASSUME TInv, BInv, [Next]_vars PROVE BInv'
<1>1. CASE (\E r \in Runs : ApproveItem(r) \/ Reclaim(r)) \/ UNCHANGED vars
  <2>1. UNCHANGED <<proc, snap, total, crowded>>
    BY <1>1 DEF ApproveItem, Reclaim, vars, files, ghosts
  <2>2. charges' = charges /\ Unapproved' = Unapproved
    BY <2>1 DEF charges, Unapproved
  <2> QED
    BY <2>1, <2>2 DEF BInv, Reads, Room, Within, Consumed, Counting, Cleared, Refreshing
<1> QED
  BY <1>1, BudgetMoves, BudgetBegins DEF Next, Begin, Procs

LEMMA BudgetInit == Init => BInv
<1> SUFFICES ASSUME Init PROVE BInv
  OBVIOUS
<1>1. \A p \in Procs : ~Counting(p) /\ Reads(proc[p])
  BY DEF Init, Counting, Reads, Cleared, Refreshing, Idle
<1>2. Unapproved = {}
  BY DEF Init, Unapproved
<1>3. Sum(charges, Unapproved) = 0
  <2>1. UNION {{x} \X (1 .. charges[x]) : x \in Unapproved} = {}
    BY <1>2
  <2> QED
    BY <2>1, FS_EmptySet DEF Sum
<1>4. Within(0)
  BY <1>3, PolicyAssumption DEF Within
<1> QED
  BY <1>1, <1>4 DEF BInv

\* As long as executions and refreshes come one at a time, the units charged for runs
\* nobody approved stay below the hard limit, for any policy with one, through any number
\* of retries, checkpoints and kills (preflight_guardrails, finalize_guardrails).
THEOREM BudgetIsHeld == Spec => []BudgetHeld
<1>1. TInv /\ BInv => BudgetHeld
  <2> SUFFICES ASSUME TInv, BInv, HardLimit > 0, ~crowded PROVE Sum(charges, Unapproved) < HardLimit
    BY DEF BudgetHeld
  <2>1. Bill(charges, Unapproved) \subseteq Bill(charges, Runs)
    BY DEF Bill, Unapproved
  <2>2. Sum(charges, Unapproved) \in Nat
    BY <2>1, FS_Subset, FS_CardinalityType DEF TInv, Sum, Bill
  <2> QED
    BY <2>2, PolicyAssumption DEF BInv, Within
<1> QED
  BY TypedInit, TypedStep, BudgetInit, BudgetStep, <1>1, PTL DEF Spec

------------------------------------------------------------------------------
(* The items move as the queue promises. *)

\* What the record of a worker shows of the item of a run.
HasItem(x, r) ==
  x.cmd = "worker" /\ x.pc # "idle" /\ x.run = r /\ ~(Refreshing(x) /\ x.then = "idle")
Readies(x, r) ==
  /\ HasItem(x, r)
  /\ x.pc \in {"load", "evaluate"} \/ (Refreshing(x) /\ x.then \in {"load", "execute"})
Executes(x, r) == HasItem(x, r) /\ x.pc = "execute"

\* The lifecycle's view of the item of a run.
Item(r) == [j \in {r} |-> {queue[j]} \ {"none", "stub"}]
Preparers(r) == [j \in {r} |-> {w \in Workers : Preparing(w, j)}]
Executors(r) == [j \in {r} |-> {w \in Workers : Holds(w, j) /\ proc[w].pc = "execute"}]

LifeStep(r) == UNCHANGED Lifecycle(r)!lifecycle \/ Lifecycle(r)!Next
Follows(r) == Intact(r)' /\ LifeStep(r)

\* Only workers execute for the queue.
PInv == \A p \in Procs : proc[p].cmd = "worker" => p \in Workers

LEMMA LifeStutters ==
  ASSUME NEW r \in Runs, Item(r)' = Item(r), Preparers(r)' = Preparers(r), Executors(r)' = Executors(r)
  PROVE  LifeStep(r)
  BY DEF LifeStep, Lifecycle!lifecycle, Item, Preparers, Executors

LEMMA LifeSubmits ==
  ASSUME NEW r \in Runs, queue[r] = "none", queue'[r] \in {"pending", "awaiting_approval"},
         Preparers(r)' = Preparers(r), Executors(r)' = Executors(r)
  PROVE  LifeStep(r)
<1>1. PICK d \in {"pending", "awaiting_approval"} : d = queue'[r]
  OBVIOUS
<1>2. Item(r)[r] = {} /\ Item(r)' = [Item(r) EXCEPT ![r] = {d}]
  BY <1>1 DEF Item
<1>3. Lifecycle(r)!Submit(r)
  BY <1>2 DEF Lifecycle!Submit, Item, Preparers, Executors
<1> QED
  BY <1>3 DEF LifeStep, Lifecycle!Next

LEMMA LifeClaims ==
  ASSUME NEW r \in Runs, NEW w \in Workers, queue[r] = "pending", queue'[r] = "running",
         Preparers(r)[r] = {}, Executors(r)[r] = {},
         Preparers(r)' = [Preparers(r) EXCEPT ![r] = {w}], Executors(r)' = Executors(r)
  PROVE  LifeStep(r)
<1>1. Item(r)[r] = {"pending"} /\ Item(r)' = [Item(r) EXCEPT ![r] = {"running"}]
  BY DEF Item
<1>2. Lifecycle(r)!Claim(r, w)
  BY <1>1 DEF Lifecycle!Claim, Lifecycle!Goes, Item, Preparers, Executors
<1> QED
  BY <1>2 DEF LifeStep, Lifecycle!Next

LEMMA LifeStarts ==
  ASSUME NEW r \in Runs, NEW w \in Workers, queue[r] = "running", queue'[r] = queue[r],
         Preparers(r)[r] = {w}, Executors(r)[r] = {},
         Preparers(r)' = [Preparers(r) EXCEPT ![r] = {}], Executors(r)' = [Executors(r) EXCEPT ![r] = {w}]
  PROVE  LifeStep(r)
<1>1. Item(r)[r] = {"running"} /\ Item(r)' = Item(r)
  BY DEF Item
<1>2. Lifecycle(r)!Start(r, w)
  BY <1>1 DEF Lifecycle!Start, Item, Preparers, Executors
<1> QED
  BY <1>2 DEF LifeStep, Lifecycle!Next

LEMMA LifeReleases ==
  ASSUME NEW r \in Runs, queue'[r] = queue[r],
         Preparers(r)' = [Preparers(r) EXCEPT ![r] = {}], Executors(r)' = [Executors(r) EXCEPT ![r] = {}]
  PROVE  LifeStep(r)
<1>1. Item(r)' = Item(r)
  BY DEF Item
<1>2. Lifecycle(r)!Release(r)
  BY <1>1 DEF Lifecycle!Release, Item, Preparers, Executors
<1> QED
  BY <1>2 DEF LifeStep, Lifecycle!Next

LEMMA LifeSettles ==
  ASSUME NEW r \in Runs, queue[r] = "running", Preparers(r)[r] = {}, Executors(r)[r] = {},
         Preparers(r)' = Preparers(r), Executors(r)' = Executors(r),
         queue'[r] \in {"done", "failed", "awaiting_approval", "pending"}
  PROVE  LifeStep(r)
<1>1. PICK d \in {"done", "failed", "dead_letter", "awaiting_approval", "pending"} :
        d = queue'[r] /\ d \notin {"none", "stub"}
  OBVIOUS
<1>2. Item(r)[r] = {"running"} /\ Item(r)' = [Item(r) EXCEPT ![r] = {d}]
  BY <1>1 DEF Item
<1>3. Lifecycle(r)!Settle(r)
  BY <1>2 DEF Lifecycle!Settle, Lifecycle!Goes, Item, Preparers, Executors
<1> QED
  BY <1>3 DEF LifeStep, Lifecycle!Next

LEMMA LifeDecides ==
  ASSUME NEW r \in Runs, queue[r] = "awaiting_approval", queue'[r] = "pending",
         Preparers(r)' = Preparers(r), Executors(r)' = Executors(r)
  PROVE  LifeStep(r)
<1>1. Item(r)[r] = {"awaiting_approval"} /\ Item(r)' = [Item(r) EXCEPT ![r] = {"pending"}]
  BY DEF Item
<1>2. Lifecycle(r)!Decide(r)
  BY <1>1 DEF Lifecycle!Decide, Lifecycle!Goes, Item, Preparers, Executors
<1> QED
  BY <1>2 DEF LifeStep, Lifecycle!Next

LEMMA LifeDrops ==
  ASSUME NEW r \in Runs, queue[r] \notin {"none", "stub"}, queue'[r] = "none",
         Preparers(r)' = Preparers(r), Executors(r)' = Executors(r)
  PROVE  Lifecycle(r)!Drop(r)
<1>1. Item(r)[r] # {} /\ Item(r)' = [Item(r) EXCEPT ![r] = {}]
  BY DEF Item
<1> QED
  BY <1>1 DEF Lifecycle!Drop, Item, Preparers, Executors

\* The view is that of the records of the workers.
LEMMA HandsShown ==
  ASSUME NEW r \in Runs
  PROVE  /\ \A w \in Workers : Holds(w, r) <=> HasItem(proc[w], r)
         /\ Preparers(r) = [j \in {r} |-> {w \in Workers : Readies(proc[w], r)}]
         /\ Executors(r) = [j \in {r} |-> {w \in Workers : Executes(proc[w], r)}]
<1>1. \A w \in Workers : Holds(w, r) <=> HasItem(proc[w], r)
  BY DEF Holds, HasItem, Refreshing
<1>2. \A w \in Workers : Preparing(w, r) <=> Readies(proc[w], r)
  BY <1>1 DEF Preparing, Readies, Refreshing
<1>3. /\ {w \in Workers : Preparing(w, r)} = {w \in Workers : Readies(proc[w], r)}
      /\ {w \in Workers : Holds(w, r) /\ proc[w].pc = "execute"} = {w \in Workers : Executes(proc[w], r)}
  BY <1>1, <1>2 DEF Executes
<1> QED
  BY <1>1, <1>3 DEF Preparers, Executors

\* ... and so it is after a step.
LEMMA HandsShownNext ==
  ASSUME NEW r \in Runs
  PROVE  /\ \A w \in Workers : Holds(w, r)' <=> HasItem(proc'[w], r)
         /\ Preparers(r)' = [j \in {r} |-> {w \in Workers : Readies(proc'[w], r)}]
         /\ Executors(r)' = [j \in {r} |-> {w \in Workers : Executes(proc'[w], r)}]
<1>1. \A w \in Workers : Holds(w, r)' <=> HasItem(proc'[w], r)
  BY DEF Holds, HasItem, Refreshing
<1>2. \A w \in Workers : Preparing(w, r)' <=> Readies(proc'[w], r)
  BY <1>1 DEF Preparing, Readies, Refreshing
<1>3. /\ {w \in Workers : Preparing(w, r)'} = {w \in Workers : Readies(proc'[w], r)}
      /\ {w \in Workers : Holds(w, r)' /\ proc'[w].pc = "execute"} = {w \in Workers : Executes(proc'[w], r)}
  BY <1>1, <1>2 DEF Executes
<1> QED
  BY <1>1, <1>3 DEF Preparers, Executors

\* Nobody takes the item or leaves it.
LEMMA RoleKept ==
  ASSUME TInv, NEW r \in Runs, Intact(r), NEW p, NEW x \in Proc, Shape(x), Set(p, x), queue'[r] = queue[r],
         p \in Workers => /\ HasItem(x, r) => HasItem(proc[p], r)
                          /\ Readies(x, r) <=> Readies(proc[p], r)
                          /\ Executes(x, r) <=> Executes(proc[p], r)
  PROVE  Follows(r)
<1>1. \A w \in Workers : proc'[w] = IF w = p THEN x ELSE proc[w]
  BY HandsTyped DEF Procs
<1>2. \A w \in Workers : /\ HasItem(proc'[w], r) => HasItem(proc[w], r)
                         /\ Readies(proc'[w], r) <=> Readies(proc[w], r)
                         /\ Executes(proc'[w], r) <=> Executes(proc[w], r)
  BY <1>1
<1>3. Preparers(r)' = Preparers(r) /\ Executors(r)' = Executors(r)
  <2>1. /\ {w \in Workers : Readies(proc'[w], r)} = {w \in Workers : Readies(proc[w], r)}
        /\ {w \in Workers : Executes(proc'[w], r)} = {w \in Workers : Executes(proc[w], r)}
    BY <1>2
  <2>2. /\ Preparers(r) = [j \in {r} |-> {w \in Workers : Readies(proc[w], r)}]
        /\ Preparers(r)' = [j \in {r} |-> {w \in Workers : Readies(proc'[w], r)}]
    BY HandsShown, HandsShownNext
  <2>3. /\ Executors(r) = [j \in {r} |-> {w \in Workers : Executes(proc[w], r)}]
        /\ Executors(r)' = [j \in {r} |-> {w \in Workers : Executes(proc'[w], r)}]
    BY HandsShown, HandsShownNext
  <2> QED
    BY <2>1, <2>2, <2>3
<1>4. Item(r)' = Item(r)
  BY DEF Item
<1>5. Intact(r)'
  BY <1>2, HandsShown, HandsShownNext DEF Intact
<1> QED
  BY <1>3, <1>4, <1>5, LifeStutters DEF Follows

\* A process that is no worker with the item becomes none.
LEMMA Elsewhere ==
  ASSUME TInv, NEW r \in Runs, Intact(r), NEW p, NEW x \in Proc, Shape(x), Set(p, x), queue'[r] = queue[r],
         p \in Workers => ~HasItem(proc[p], r) /\ ~HasItem(x, r)
  PROVE  Follows(r)
  BY RoleKept DEF Readies, Executes

\* The view before and after a step of the worker that has the item: nobody else is in it.
LEMMA HolderSeen ==
  ASSUME TInv, NEW r \in Runs, Intact(r), NEW w \in Workers, HasItem(proc[w], r),
         NEW x \in Proc, Shape(x), Set(w, x)
  PROVE  /\ queue[r] = "running"
         /\ \A v \in Workers : Holds(v, r)' <=> v = w /\ HasItem(x, r)
         /\ Preparers(r) = [j \in {r} |-> IF Readies(proc[w], r) THEN {w} ELSE {}]
         /\ Executors(r) = [j \in {r} |-> IF Executes(proc[w], r) THEN {w} ELSE {}]
         /\ Preparers(r)' = [j \in {r} |-> IF Readies(x, r) THEN {w} ELSE {}]
         /\ Executors(r)' = [j \in {r} |-> IF Executes(x, r) THEN {w} ELSE {}]
<1>1. \A v \in Workers : proc'[v] = IF v = w THEN x ELSE proc[v]
  BY HandsTyped DEF Procs
<1>2. queue[r] = "running" /\ \A v \in Workers : HasItem(proc[v], r) => v = w
  BY HandsShown DEF Intact
<1>3. \A v \in Workers : v # w => /\ ~Readies(proc[v], r) /\ ~Executes(proc[v], r)
                                  /\ ~HasItem(proc'[v], r) /\ ~Readies(proc'[v], r) /\ ~Executes(proc'[v], r)
  BY <1>1, <1>2 DEF Readies, Executes
<1>4. /\ {v \in Workers : Readies(proc[v], r)} = (IF Readies(proc[w], r) THEN {w} ELSE {})
      /\ {v \in Workers : Executes(proc[v], r)} = (IF Executes(proc[w], r) THEN {w} ELSE {})
  BY <1>3
<1>5. /\ {v \in Workers : Readies(proc'[v], r)} = (IF Readies(x, r) THEN {w} ELSE {})
      /\ {v \in Workers : Executes(proc'[v], r)} = (IF Executes(x, r) THEN {w} ELSE {})
  BY <1>1, <1>3
<1> QED
  BY <1>1, <1>2, <1>3, <1>4, <1>5, HandsShown, HandsShownNext

\* The worker that has the item stops preparing or executing.
LEMMA HolderReleases ==
  ASSUME TInv, NEW r \in Runs, Intact(r), NEW w \in Workers, HasItem(proc[w], r),
         NEW x \in Proc, Shape(x), Set(w, x), queue'[r] = queue[r], ~Readies(x, r), ~Executes(x, r)
  PROVE  Follows(r)
<1>1. Preparers(r)' = [Preparers(r) EXCEPT ![r] = {}] /\ Executors(r)' = [Executors(r) EXCEPT ![r] = {}]
  <2>1. /\ Preparers(r) = [j \in {r} |-> IF Readies(proc[w], r) THEN {w} ELSE {}]
        /\ Executors(r) = [j \in {r} |-> IF Executes(proc[w], r) THEN {w} ELSE {}]
        /\ Preparers(r)' = [j \in {r} |-> {}] /\ Executors(r)' = [j \in {r} |-> {}]
    BY HolderSeen
  <2> QED
    BY <2>1
<1>2. Intact(r)'
  BY HolderSeen DEF Intact
<1> QED
  BY <1>1, <1>2, LifeReleases DEF Follows

LEMMA HolderStarts ==
  ASSUME TInv, NEW r \in Runs, Intact(r), NEW w \in Workers, Readies(proc[w], r),
         NEW x \in Proc, Shape(x), Set(w, x), queue'[r] = queue[r], Executes(x, r)
  PROVE  Follows(r)
<1>1. HasItem(proc[w], r) /\ ~Executes(proc[w], r) /\ ~Readies(x, r)
  BY DEF Readies, Executes, Refreshing
<1>2. /\ Preparers(r) = [j \in {r} |-> {w}] /\ Executors(r) = [j \in {r} |-> {}]
      /\ Preparers(r)' = [j \in {r} |-> {}] /\ Executors(r)' = [j \in {r} |-> {w}]
  BY <1>1, HolderSeen
<1>3. /\ queue[r] = "running" /\ Preparers(r)[r] = {w} /\ Executors(r)[r] = {}
      /\ Preparers(r)' = [Preparers(r) EXCEPT ![r] = {}] /\ Executors(r)' = [Executors(r) EXCEPT ![r] = {w}]
  BY <1>1, <1>2, HolderSeen
<1>4. Intact(r)'
  BY <1>1, HolderSeen DEF Intact
<1> QED
  BY <1>3, <1>4, LifeStarts DEF Follows

\* The worker that has the item moves it on.
LEMMA HolderSettles ==
  ASSUME TInv, NEW r \in Runs, Intact(r), NEW w \in Workers, HasItem(proc[w], r),
         ~Readies(proc[w], r), ~Executes(proc[w], r), NEW x \in Proc, Shape(x), Set(w, x), ~HasItem(x, r),
         NEW s \in {"done", "failed", "awaiting_approval", "pending"}, Moves(r, s)
  PROVE  Follows(r)
<1>1. ~Readies(x, r) /\ ~Executes(x, r)
  BY DEF Readies, Executes
<1>2. /\ queue[r] = "running" /\ Preparers(r)[r] = {} /\ Executors(r)[r] = {}
      /\ Preparers(r)' = Preparers(r) /\ Executors(r)' = Executors(r)
  <2>1. /\ Preparers(r) = [j \in {r} |-> {}] /\ Executors(r) = [j \in {r} |-> {}]
        /\ Preparers(r)' = [j \in {r} |-> {}] /\ Executors(r)' = [j \in {r} |-> {}]
    BY <1>1, HolderSeen
  <2> QED
    BY <2>1, HolderSeen
<1>3. queue'[r] = s
  BY <1>2 DEF Moves, TInv, TypeOK
<1>4. Intact(r)'
  BY HolderSeen DEF Intact
<1> QED
  BY <1>2, <1>3, <1>4, LifeSettles DEF Follows

\* As long as nobody has the item, the view is of nobody.
LEMMA NobodySeen ==
  ASSUME NEW r \in Runs, \A w \in Workers : ~HasItem(proc[w], r) /\ ~HasItem(proc'[w], r)
  PROVE  /\ Preparers(r)[r] = {} /\ Executors(r)[r] = {}
         /\ Preparers(r)' = Preparers(r) /\ Executors(r)' = Executors(r) /\ Intact(r)'
<1>1. /\ {w \in Workers : Readies(proc[w], r)} = {} /\ {w \in Workers : Executes(proc[w], r)} = {}
      /\ {w \in Workers : Readies(proc'[w], r)} = {} /\ {w \in Workers : Executes(proc'[w], r)} = {}
  BY DEF Readies, Executes
<1>2. /\ Preparers(r) = [j \in {r} |-> {}] /\ Executors(r) = [j \in {r} |-> {}]
      /\ Preparers(r)' = [j \in {r} |-> {}] /\ Executors(r)' = [j \in {r} |-> {}]
  BY <1>1, HandsShown, HandsShownNext
<1>3. Intact(r)'
  BY HandsShownNext DEF Intact
<1> QED
  BY <1>2, <1>3

\* Nobody has an item that is not running.
LEMMA NotRunning ==
  ASSUME NEW r \in Runs, Intact(r), queue[r] # "running"
  PROVE  \A w \in Workers : ~HasItem(proc[w], r)
  BY HandsShown DEF Intact

\* A step moves no item but that of the run its process is about.
LEMMA OtherItemsStay ==
  ASSUME TInv, NEW p \in Procs, Step(p) \/ Crash(p), NEW r \in Runs, r # proc[p].run
  PROVE  queue'[r] = queue[r]
<1>1. CASE Park(p) \/ Settle(p)
  <2>1. PICK s : Moves(proc[p].run, s)
    BY <1>1 DEF Park, Settle
  <2> QED
    BY <2>1 DEF Moves, TInv, TypeOK
<1>2. CASE Drop(p) \/ Release(p)
  <2>1. UNCHANGED queue \/ \E s : queue' = [queue EXCEPT ![proc[p].run] = s]
    BY <1>2 DEF Drop, Release
  <2> QED
    BY <2>1 DEF TInv, TypeOK
<1>3. CASE ~(Park(p) \/ Settle(p) \/ Drop(p) \/ Release(p))
  BY <1>3 DEF Step, Collect, Publish, Load, Evaluate, Mark, Scan, Create, Execute, Status, Record, Unlink, Crash
<1> QED
  BY <1>1, <1>2, <1>3

\* What a process does about one run is nothing to another, and what a command does to
\* the worker that has the item only goes through the item.
LEMMA BystandersFollow ==
  ASSUME TInv, PInv, NEW r \in Runs, Intact(r), NEW p \in Procs, Step(p) \/ Crash(p),
         r # proc[p].run \/ (proc[p].cmd # "worker" /\ queue'[r] = queue[r])
  PROVE  Follows(r)
<1>1. PICK x : Tame(p, x)
  BY StepMoves
<1>2. ~HasItem(proc[p], r) /\ ~HasItem(x, r)
  BY <1>1 DEF HasItem, Tame, Idle
<1>3. queue'[r] = queue[r]
  BY OtherItemsStay
<1> QED
  BY <1>1, <1>2, <1>3, Elsewhere DEF Tame

\* The worker and its own run.
AtWork(p, r) == TInv /\ Intact(r) /\ p \in Workers /\ r \in Runs /\ proc[p].cmd = "worker" /\ proc[p].run = r

LEMMA PreparationFollows ==
  ASSUME NEW p \in Procs, NEW r, AtWork(p, r), Collect(p) \/ Load(p) \/ Evaluate(p)
  PROVE  Follows(r)
<1>1. queue'[r] = queue[r] /\ r \in Runs /\ TInv /\ Intact(r) /\ p \in Workers /\ proc[p].run = r /\ proc[p].cmd = "worker"
  BY DEF AtWork, Collect, Load, Evaluate
<1>2. CASE Collect(p)
  <2>1. PICK x : Tame(p, x) /\ x.pc = "publish" /\ x.then = proc[p].then
    BY <1>1, <1>2, CollectMoves
  <2>2. x.run = r /\ x.cmd = "worker" /\ proc[p].pc = "collect"
    BY <1>1, <1>2, <2>1 DEF Tame, Idle, Collect, At
  <2>3. /\ HasItem(x, r) <=> HasItem(proc[p], r)
        /\ Readies(x, r) <=> Readies(proc[p], r)
        /\ ~Executes(x, r) /\ ~Executes(proc[p], r)
    BY <1>1, <2>1, <2>2 DEF HasItem, Readies, Executes, Refreshing
  <2> QED
    BY <1>1, <2>1, <2>3, RoleKept DEF Tame
<1>3. CASE Load(p)
  <2>1. PICK x : Tame(p, x) /\ proc[p].pc = "load" /\ x.pc = "evaluate"
    BY <1>1, <1>3, LoadMoves
  <2>2. x.run = r /\ x.cmd = "worker"
    BY <1>1, <2>1 DEF Tame, Idle
  <2>3. /\ HasItem(proc[p], r) /\ Readies(x, r) /\ Readies(proc[p], r)
        /\ ~Executes(x, r) /\ ~Executes(proc[p], r)
    BY <1>1, <2>1, <2>2 DEF HasItem, Readies, Executes, Refreshing
  <2> QED
    BY <1>1, <2>1, <2>3, RoleKept DEF Tame
<1>4. CASE Evaluate(p)
  <2>1. PICK x : Tame(p, x) /\ proc[p].pc = "evaluate" /\ x.pc = "collect" /\ x.then \in {"mark", "execute"}
    BY <1>1, <1>4, EvaluateMoves
  <2>2. x.run = r /\ x.cmd = "worker"
    BY <1>1, <2>1 DEF Tame, Idle
  <2>3. /\ HasItem(proc[p], r) /\ Readies(proc[p], r) /\ ~Executes(x, r) /\ ~Executes(proc[p], r)
        /\ Readies(x, r) <=> x.then = "execute"
    BY <1>1, <2>1, <2>2 DEF HasItem, Readies, Executes, Refreshing
  <2>4. CASE x.then = "execute"
    BY <1>1, <2>1, <2>3, <2>4, RoleKept DEF Tame
  <2>5. CASE x.then = "mark"
    BY <1>1, <2>1, <2>3, <2>5, HolderReleases DEF Tame
  <2> QED
    BY <2>1, <2>4, <2>5
<1> QED
  BY <1>2, <1>3, <1>4

LEMMA PublicationFollows ==
  ASSUME NEW p \in Procs, NEW r, AtWork(p, r), Publish(p)
  PROVE  Follows(r)
<1>1. queue'[r] = queue[r] /\ r \in Runs /\ TInv /\ Intact(r) /\ p \in Workers /\ proc[p].run = r /\ proc[p].cmd = "worker"
  BY DEF AtWork, Publish
<1>2. PICK x : /\ Tame(p, x) /\ proc[p].pc = "publish"
               /\ x = Idle \/ (x.pc = proc[p].then /\ x.then = "idle" /\ x.pc # "idle")
  BY <1>1, PublishMoves
<1>3. ~Executes(proc[p], r)
  BY <1>2 DEF Executes
<1>4. CASE x = Idle
  <2>1. ~HasItem(x, r) /\ ~Readies(x, r) /\ ~Executes(x, r)
    BY <1>4 DEF HasItem, Readies, Executes, Idle
  <2> QED
    BY <1>1, <1>2, <2>1, Elsewhere, HolderReleases DEF Tame
<1>5. CASE x # Idle
  <2>1. /\ x.run = r /\ x.cmd = "worker" /\ x.pc = proc[p].then /\ x.pc # "idle"
        /\ x.pc \in {"load", "mark", "execute", "settle"}
    BY <1>1, <1>2, <1>5, HandTyped DEF Tame, Shape, Refreshing
  <2>2. /\ HasItem(proc[p], r)
        /\ Readies(proc[p], r) <=> x.pc \in {"load", "execute"}
        /\ Readies(x, r) <=> x.pc = "load"
        /\ Executes(x, r) <=> x.pc = "execute"
    BY <1>1, <1>2, <2>1 DEF HasItem, Readies, Executes, Refreshing
  <2>3. CASE x.pc = "execute"
    BY <1>1, <1>2, <2>2, <2>3, HolderStarts DEF Tame
  <2>4. CASE x.pc # "execute"
    BY <1>1, <1>2, <1>3, <2>1, <2>2, <2>4, RoleKept DEF Tame
  <2> QED
    BY <2>3, <2>4
<1> QED
  BY <1>4, <1>5

LEMMA PauseFollows ==
  ASSUME NEW p \in Procs, NEW r, AtWork(p, r), Mark(p) \/ Scan(p) \/ Create(p)
  PROVE  Follows(r)
<1>1. queue'[r] = queue[r] /\ r \in Runs /\ TInv /\ Intact(r) /\ p \in Workers /\ proc[p].run = r /\ proc[p].cmd = "worker"
  BY DEF AtWork, Mark, Scan, Create
<1>2. PICK x : /\ Tame(p, x) /\ proc[p].pc \in {"mark", "scan", "create"}
               /\ x.pc \in {"idle", "park", "scan", "create"} \/ (x.pc = "collect" /\ x.then = "idle")
  BY <1>1, MarkMoves, ScanMoves, CreateMoves
<1>3. HasItem(proc[p], r) /\ ~Readies(proc[p], r) /\ ~Executes(proc[p], r) /\ ~Readies(x, r) /\ ~Executes(x, r)
  BY <1>1, <1>2 DEF HasItem, Readies, Executes, Refreshing
<1> QED
  BY <1>1, <1>2, <1>3, RoleKept DEF Tame

LEMMA EndingFollows ==
  ASSUME NEW p \in Procs, NEW r, AtWork(p, r), Execute(p) \/ Crash(p)
  PROVE  Follows(r)
<1>1. queue'[r] = queue[r] /\ r \in Runs /\ TInv /\ Intact(r) /\ p \in Workers /\ proc[p].run = r /\ proc[p].cmd = "worker"
  BY DEF AtWork, Execute, Crash
<1>2. PICK x : /\ Tame(p, x)
               /\ x = Idle \/ (x.pc = "collect" /\ x.then \in {"settle", "idle"} /\ proc[p].pc = "execute")
  BY <1>1, ExecuteMoves, EndMoves DEF Crash
<1>3. ~Readies(x, r) /\ ~Executes(x, r) /\ (HasItem(x, r) => HasItem(proc[p], r))
  BY <1>1, <1>2 DEF HasItem, Readies, Executes, Refreshing, Idle
<1> QED
  BY <1>1, <1>2, <1>3, Elsewhere, HolderReleases DEF Tame

LEMMA SettlementFollows ==
  ASSUME NEW p \in Procs, NEW r, AtWork(p, r), Park(p) \/ Settle(p)
  PROVE  Follows(r)
<1>1. r \in Runs /\ TInv /\ Intact(r) /\ p \in Workers /\ proc[p].run = r /\ proc[p].cmd = "worker"
  BY DEF AtWork
<1>2. proc[p].pc \in {"park", "settle"}
  BY DEF Park, Settle, At
<1>3. HasItem(proc[p], r) /\ ~Readies(proc[p], r) /\ ~Executes(proc[p], r)
  BY <1>1, <1>2 DEF HasItem, Readies, Executes, Refreshing
<1>4. PICK x : Tame(p, x) /\ (x = Idle \/ (x.pc = "collect" /\ x.then = "idle"))
  BY <1>1, ParkMoves, EndMoves DEF Settle
<1>5. ~HasItem(x, r)
  BY <1>4 DEF HasItem, Refreshing, Idle
<1>6. PICK s \in {"done", "failed", "awaiting_approval", "pending"} : Moves(r, s)
  BY <1>1 DEF Park, Settle
<1> QED
  BY <1>1, <1>3, <1>4, <1>5, <1>6, HolderSettles DEF Tame

\* An item that nobody has is moved by a command.
LEMMA FreeItemFollows ==
  ASSUME TInv, NEW r \in Runs, Intact(r), queue[r] # "running", NEW p, NEW x \in Proc, Shape(x), Set(p, x),
         x.cmd # "worker",
         \/ queue[r] = "none" /\ queue'[r] \in {"pending", "awaiting_approval"}
         \/ queue[r] = "awaiting_approval" /\ queue'[r] = "pending"
         \/ {queue'[r]} \ {"none", "stub"} = {queue[r]} \ {"none", "stub"}
  PROVE  Follows(r)
<1>1. \A w \in Workers : ~HasItem(proc[w], r) /\ ~HasItem(proc'[w], r)
  <2>1. \A w \in Workers : proc'[w] = IF w = p THEN x ELSE proc[w]
    BY HandsTyped DEF Procs
  <2> QED
    BY <2>1, NotRunning DEF HasItem
<1>2. Preparers(r)' = Preparers(r) /\ Executors(r)' = Executors(r) /\ Intact(r)'
  BY <1>1, NobodySeen
<1>3. CASE {queue'[r]} \ {"none", "stub"} = {queue[r]} \ {"none", "stub"}
  <2>1. Item(r)' = Item(r)
    BY <1>3 DEF Item
  <2> QED
    BY <1>2, <2>1, LifeStutters DEF Follows
<1> QED
  BY <1>2, <1>3, LifeSubmits, LifeDecides DEF Follows

LEMMA DropFollows ==
  ASSUME TInv, NEW p \in Procs, NEW r \in Runs, proc[p].run = r, Intact(r), Drop(p)
  PROVE  Follows(r) \/ Lifecycle(r)!Drop(r)
<1>1. queue'[r] = "none" /\ proc[p].cmd = "resolve" /\ Goes(p, "status") /\ Resolving(proc[p])
  BY HandTyped DEF Drop, At, Shape, Resolving, TInv, TypeOK
<1>2. PICK x : Tame(p, x) /\ x.pc = "status"
  BY <1>1, ResolverMoves
<1>3. x \in Proc /\ Shape(x) /\ Set(p, x) /\ x.cmd # "worker"
  BY <1>1, <1>2 DEF Tame, Idle
<1>4. CASE queue[r] \in {"none", "stub"}
  <2>1. {queue'[r]} \ {"none", "stub"} = {queue[r]} \ {"none", "stub"} /\ queue[r] # "running"
    BY <1>1, <1>4
  <2> QED
    BY <1>3, <2>1, FreeItemFollows
<1>5. CASE queue[r] \notin {"none", "stub"}
  <2>1. \A q \in Procs : proc'[q] = IF q = p THEN x ELSE proc[q]
    BY <1>3, HandsTyped
  <2>2. \A w \in Workers : /\ Readies(proc'[w], r) <=> Readies(proc[w], r)
                           /\ Executes(proc'[w], r) <=> Executes(proc[w], r)
    BY <1>1, <1>3, <2>1 DEF Readies, Executes, HasItem, Procs
  <2>3. /\ {w \in Workers : Readies(proc'[w], r)} = {w \in Workers : Readies(proc[w], r)}
        /\ {w \in Workers : Executes(proc'[w], r)} = {w \in Workers : Executes(proc[w], r)}
    BY <2>2
  <2>4. /\ Preparers(r) = [j \in {r} |-> {w \in Workers : Readies(proc[w], r)}]
        /\ Preparers(r)' = [j \in {r} |-> {w \in Workers : Readies(proc'[w], r)}]
    BY HandsShown, HandsShownNext
  <2>5. /\ Executors(r) = [j \in {r} |-> {w \in Workers : Executes(proc[w], r)}]
        /\ Executors(r)' = [j \in {r} |-> {w \in Workers : Executes(proc'[w], r)}]
    BY HandsShown, HandsShownNext
  <2>6. Preparers(r)' = Preparers(r) /\ Executors(r)' = Executors(r)
    BY <2>3, <2>4, <2>5
  <2> QED
    BY <1>1, <1>5, <2>6, LifeDrops
<1> QED
  BY <1>4, <1>5

LEMMA ReleaseFollows ==
  ASSUME TInv, PInv, NEW p \in Procs, NEW r \in Runs, proc[p].run = r, Intact(r), Release(p)
  PROVE  Follows(r)
<1>1. proc[p].cmd = "resolve" /\ Resolving(proc[p])
  BY HandTyped DEF Release, At, Shape, Resolving
<1>2. PICK x : Tame(p, x)
  BY StepMoves DEF Step
<1>3. x \in Proc /\ Shape(x) /\ Set(p, x) /\ x.cmd # "worker"
  BY <1>1, <1>2 DEF Tame, Idle
<1>4. CASE queue[r] \in {"awaiting_approval", "none"}
  <2>1. queue'[r] = "pending" /\ queue[r] # "running"
    BY <1>4 DEF Release, TInv, TypeOK
  <2> QED
    BY <1>3, <1>4, <2>1, FreeItemFollows
<1>5. CASE queue[r] \notin {"awaiting_approval", "none"}
  <2>1. queue'[r] = queue[r]
    BY <1>5 DEF Release
  <2> QED
    BY <1>1, <2>1, BystandersFollow DEF Step
<1> QED
  BY <1>4, <1>5

LEMMA StepFollows ==
  ASSUME TInv, PInv, NEW r \in Runs, Intact(r), NEW p \in Procs, Step(p) \/ Crash(p)
  PROVE  Follows(r) \/ (Lifecycle(r)!Drop(r) /\ Drop(p) /\ proc[p].run = r)
<1>1. CASE r # proc[p].run
  BY <1>1, BystandersFollow
<1>2. CASE r = proc[p].run /\ (Drop(p) \/ Release(p))
  BY <1>2, DropFollows, ReleaseFollows
<1>3. CASE r = proc[p].run /\ ~(Drop(p) \/ Release(p)) /\ proc[p].cmd # "worker"
  <2>1. ~Park(p) /\ ~Settle(p)
    BY <1>3, HandTyped DEF Park, Settle, At, Shape
  <2>2. queue'[r] = queue[r]
    BY <1>3, <2>1 DEF Step, Collect, Publish, Load, Evaluate, Mark, Scan, Create, Execute, Status, Record, Unlink, Crash
  <2> QED
    BY <1>3, <2>2, BystandersFollow
<1>4. CASE r = proc[p].run /\ proc[p].cmd = "worker"
  <2>1. AtWork(p, r)
    BY <1>4 DEF AtWork, PInv
  <2>2. ~(Status(p) \/ Record(p) \/ Unlink(p) \/ Drop(p) \/ Release(p))
    BY <1>4, HandTyped DEF Status, Record, Unlink, Drop, Release, At, Shape, Resolving
  <2> QED
    BY <2>1, <2>2, PreparationFollows, PublicationFollows, PauseFollows, EndingFollows, SettlementFollows DEF Step
<1> QED
  BY <1>1, <1>2, <1>3, <1>4

\* A process that is idle has no item, and one that begins about a run has none but this.
LEMMA BeginFollows ==
  ASSUME TInv, LInv, NEW r \in Runs, Intact(r), NEW p \in Procs,
         Dashboard(p) \/ Resolve(p) \/ \E q \in Runs : Direct(p, q) \/ Enqueue(p, q) \/ AskHuman(p, q)
  PROVE  Follows(r)
<1>1. proc[p] \in Proc /\ Shape(proc[p]) /\ proc[p].pc = "idle"
  BY HandTyped DEF Dashboard, Resolve, Direct, Enqueue, AskHuman, Command, At
<1>2. ~HasItem(proc[p], r) /\ proc[p].cmd # "worker"
  BY <1>1 DEF HasItem, Shape, Idle
<1>3. ASSUME NEW x \in Proc, Shape(x), Set(p, x), x.cmd # "worker", queue' = queue PROVE Follows(r)
  <2>1. ~HasItem(x, r)
    BY <1>3 DEF HasItem
  <2> QED
    BY <1>2, <1>3, <2>1, Elsewhere
<1>4. CASE Dashboard(p)
  <2>1. PICK x : x = Refresh([Idle EXCEPT !.cmd = "dashboard"], "idle")
    OBVIOUS
  <2>2. x \in Proc /\ Shape(x) /\ x.cmd = "dashboard"
    BY <2>1, DashboardBegins
  <2>3. Set(p, x) /\ queue' = queue
    BY <1>4, <2>1 DEF Dashboard
  <2> QED
    BY <1>3, <2>2, <2>3
<1>5. CASE Resolve(p)
  BY <1>3, <1>5, ResolveBegins DEF Resolve
<1>6. ASSUME NEW q \in Runs, Direct(p, q) PROVE Follows(r)
  <2>1. PICK x : x = Refresh([Idle EXCEPT !.cmd = "direct", !.run = q], "load")
    OBVIOUS
  <2>2. x \in Proc /\ Shape(x) /\ x.cmd = "direct"
    BY <2>1, ExecutionBegins
  <2>3. Set(p, x) /\ queue' = queue
    BY <1>6, <2>1 DEF Direct
  <2> QED
    BY <1>3, <2>2, <2>3
<1>7. ASSUME NEW q \in Runs, AskHuman(p, q) PROVE Follows(r)
  BY <1>3, <1>7, AskBegins DEF AskHuman
<1>8. ASSUME NEW q \in Runs, Enqueue(p, q) PROVE Follows(r)
  <2>1. proc' = proc /\ q \notin used /\ \E s \in {"pending", "awaiting_approval"} : queue' = [queue EXCEPT ![q] = s]
    BY <1>8 DEF Enqueue
  <2>2. Set(p, proc[p])
    BY <2>1 DEF Set, TInv, TypeOK
  <2>3. CASE r = q
    <3>1. queue[r] = "none" /\ queue'[r] \in {"pending", "awaiting_approval"}
      BY <2>1, <2>3 DEF LInv, TInv, TypeOK
    <3> QED
      BY <1>1, <1>2, <2>2, <3>1, FreeItemFollows
  <2>4. CASE r # q
    <3>1. queue'[r] = queue[r]
      BY <2>1, <2>4 DEF TInv, TypeOK
    <3> QED
      BY <1>1, <1>2, <2>2, <3>1, Elsewhere
  <2> QED
    BY <2>3, <2>4
<1> QED
  BY <1>4, <1>5, <1>6, <1>7, <1>8

LEMMA ClaimFollows ==
  ASSUME TInv, NEW r \in Runs, Intact(r), NEW w \in Workers, NEW q \in Runs, Claim(w, q)
  PROVE  Follows(r)
<1>1. PICK x : x = Refresh([Idle EXCEPT !.cmd = "worker", !.run = q], "load")
  OBVIOUS
<1>2. x \in Proc /\ Shape(x) /\ x.cmd = "worker" /\ x.run = q /\ x.pc = "collect" /\ x.then = "load"
  BY <1>1, ExecutionBegins
<1>3. Set(w, x) /\ proc[w].pc = "idle" /\ queue[q] = "pending" /\ queue' = [queue EXCEPT ![q] = "running"]
  BY <1>1 DEF Claim, At
<1>4. CASE r # q
  <2>1. ~HasItem(proc[w], r) /\ ~HasItem(x, r) /\ queue'[r] = queue[r]
    BY <1>2, <1>3, <1>4 DEF HasItem, TInv, TypeOK
  <2> QED
    BY <1>2, <1>3, <2>1, Elsewhere
<1>5. CASE r = q
  <2>1. HasItem(x, r) /\ Readies(x, r) /\ ~Executes(x, r) /\ queue[r] = "pending" /\ queue'[r] = "running"
    BY <1>2, <1>3, <1>5 DEF HasItem, Readies, Executes, Refreshing, TInv, TypeOK
  <2>2. \A v \in Workers : proc'[v] = IF v = w THEN x ELSE proc[v]
    BY <1>2, <1>3, HandsTyped DEF Procs
  <2>3. \A v \in Workers : ~HasItem(proc[v], r) /\ (HasItem(proc'[v], r) <=> v = w)
    BY <2>1, <2>2, NotRunning
  <2>4. /\ {v \in Workers : Readies(proc[v], r)} = {} /\ {v \in Workers : Executes(proc[v], r)} = {}
        /\ {v \in Workers : Readies(proc'[v], r)} = {w} /\ {v \in Workers : Executes(proc'[v], r)} = {}
    BY <2>1, <2>2, <2>3 DEF Readies, Executes
  <2>5. /\ Preparers(r) = [j \in {r} |-> {}] /\ Preparers(r)' = [j \in {r} |-> {w}]
        /\ Executors(r) = [j \in {r} |-> {}] /\ Executors(r)' = [j \in {r} |-> {}]
    <3>1. /\ Preparers(r) = [j \in {r} |-> {v \in Workers : Readies(proc[v], r)}]
          /\ Executors(r) = [j \in {r} |-> {v \in Workers : Executes(proc[v], r)}]
      BY HandsShown
    <3>2. /\ Preparers(r)' = [j \in {r} |-> {v \in Workers : Readies(proc'[v], r)}]
          /\ Executors(r)' = [j \in {r} |-> {v \in Workers : Executes(proc'[v], r)}]
      BY HandsShownNext
    <3> QED
      BY <2>4, <3>1, <3>2
  <2>6. /\ Preparers(r)[r] = {} /\ Executors(r)[r] = {}
        /\ Preparers(r)' = [Preparers(r) EXCEPT ![r] = {w}] /\ Executors(r)' = Executors(r)
    BY <2>5
  <2>7. Intact(r)'
    BY <2>1, <2>3, HandsShownNext DEF Intact
  <2> QED
    BY <2>1, <2>6, <2>7, LifeClaims DEF Follows
<1> QED
  BY <1>4, <1>5

\* The item itself is released or reclaimed, and no process takes a step.
LEMMA ItemMovesFollow ==
  ASSUME TInv, NEW r \in Runs, Intact(r), NEW q \in Runs, ApproveItem(q) \/ Reclaim(q)
  PROVE  Follows(r)
<1>1. proc' = proc
  BY DEF ApproveItem, Reclaim
<1>2. CASE r # q
  <2>1. queue'[r] = queue[r]
    BY <1>2 DEF ApproveItem, Reclaim, TInv, TypeOK
  <2>2. Item(r)' = Item(r) /\ Preparers(r)' = Preparers(r) /\ Executors(r)' = Executors(r)
    BY <1>1, <2>1 DEF Item, Preparers, Executors, Preparing, Holds
  <2>3. Intact(r)'
    BY <1>1, <2>1 DEF Intact, Holds
  <2> QED
    BY <2>2, <2>3, LifeStutters DEF Follows
<1>3. CASE r = q
  <2>1. \A w \in Workers : ~HasItem(proc[w], r) /\ ~HasItem(proc'[w], r)
    BY <1>1, <1>3, NotRunning DEF ApproveItem, Reclaim, HasItem
  <2>2. /\ Preparers(r)[r] = {} /\ Executors(r)[r] = {}
        /\ Preparers(r)' = Preparers(r) /\ Executors(r)' = Executors(r) /\ Intact(r)'
    BY <2>1, NobodySeen
  <2>3. \/ queue[r] = "awaiting_approval" /\ queue'[r] = "pending"
        \/ queue[r] = "running" /\ queue'[r] \in {"pending", "failed"}
    BY <1>3 DEF ApproveItem, Reclaim, TInv, TypeOK
  <2> QED
    BY <2>2, <2>3, LifeDecides, LifeSettles DEF Follows
<1> QED
  BY <1>2, <1>3

LEMMA WorkersOnlyStep == ASSUME TInv, PInv, [Next]_vars PROVE PInv'
<1>1. ASSUME NEW p \in Procs, NEW x \in Proc, Shape(x), Set(p, x), x.cmd = "worker" => p \in Workers PROVE PInv'
  <2>1. \A q \in Procs : proc'[q] = IF q = p THEN x ELSE proc[q]
    BY <1>1, HandsTyped
  <2> QED
    BY <1>1, <2>1 DEF PInv
<1>2. ASSUME NEW p \in Procs, Step(p) \/ Crash(p) PROVE PInv'
  <2>1. PICK x : Tame(p, x)
    BY <1>2, StepMoves
  <2> QED
    BY <1>1, <2>1 DEF Tame, Idle, PInv
<1>3. ASSUME NEW w \in Workers, NEW r \in Runs, Claim(w, r) PROVE PInv'
  <2>1. w \in Procs
    BY DEF Procs
  <2>2. PICK x : x = Refresh([Idle EXCEPT !.cmd = "worker", !.run = r], "load")
    OBVIOUS
  <2>3. x \in Proc /\ Shape(x) /\ Set(w, x)
    BY <1>3, <2>2, ExecutionBegins DEF Claim
  <2> QED
    BY <1>1, <2>1, <2>3
<1>4. ASSUME NEW p \in Operators, Begin(p) PROVE PInv'
  <2>1. p \in Procs
    BY DEF Procs
  <2>2. CASE Dashboard(p)
    <3>1. PICK x : x = Refresh([Idle EXCEPT !.cmd = "dashboard"], "idle")
      OBVIOUS
    <3>2. x \in Proc /\ Shape(x) /\ Set(p, x) /\ x.cmd # "worker"
      BY <2>2, <3>1, DashboardBegins DEF Dashboard
    <3> QED
      BY <1>1, <2>1, <3>2
  <2>3. CASE Resolve(p)
    BY <1>1, <2>1, <2>3, ResolveBegins
  <2>4. ASSUME NEW r \in Runs, Direct(p, r) PROVE PInv'
    <3>1. PICK x : x = Refresh([Idle EXCEPT !.cmd = "direct", !.run = r], "load")
      OBVIOUS
    <3>2. x \in Proc /\ Shape(x) /\ Set(p, x) /\ x.cmd # "worker"
      BY <2>4, <3>1, ExecutionBegins DEF Direct
    <3> QED
      BY <1>1, <2>1, <3>2
  <2>5. ASSUME NEW r \in Runs, AskHuman(p, r) PROVE PInv'
    BY <1>1, <2>1, <2>5, AskBegins
  <2>6. ASSUME NEW r \in Runs, Enqueue(p, r) PROVE PInv'
    BY <2>6 DEF Enqueue, PInv
  <2> QED
    BY <1>4, <2>2, <2>3, <2>4, <2>5, <2>6 DEF Begin
<1>5. ASSUME NEW r \in Runs, ApproveItem(r) \/ Reclaim(r) PROVE PInv'
  BY <1>5 DEF ApproveItem, Reclaim, PInv
<1>6. CASE UNCHANGED vars
  BY <1>6 DEF vars, PInv
<1> QED
  BY <1>2, <1>3, <1>4, <1>5, <1>6 DEF Next

\* A run that nobody interferes with is dropped only when no worker has its item.
LEMMA DroppedAlone ==
  ASSUME TInv, PInv, NInv, NEW r \in Runs \ disturbed, NEW p \in Procs, Drop(p), proc[p].run = r
  PROVE  Intact(r)'
<1>1. proc[p].pc = "drop" /\ proc[p].cmd = "resolve" /\ Resolving(proc[p]) /\ Goes(p, "status")
  BY HandTyped DEF Drop, At, Shape, Resolving
<1>2. PICK x : Tame(p, x) /\ x.pc = "status"
  BY <1>1, ResolverMoves
<1>3. x \in Proc /\ Shape(x) /\ Set(p, x) /\ x.cmd # "worker"
  BY <1>1, <1>2 DEF Tame, Idle
<1>4. \A q \in Procs : proc'[q] = IF q = p THEN x ELSE proc[q]
  BY <1>3, HandsTyped
<1>5. ASSUME NEW w \in Workers PROVE ~HasItem(proc[w], r)
  <2>1. SUFFICES ASSUME HasItem(proc[w], r) PROVE FALSE
    OBVIOUS
  <2>2. w \in WorkingOn(r) /\ p \in WorkingOn(r) /\ proc[w].cmd = "worker"
    BY <1>1, <2>1 DEF HasItem, WorkingOn, Procs
  <2> QED
    BY <1>1, <2>2 DEF NInv, Alone
<1>6. \A w \in Workers : ~HasItem(proc[w], r) /\ ~HasItem(proc'[w], r)
  BY <1>3, <1>4, <1>5 DEF HasItem, Procs
<1> QED
  BY <1>6, NobodySeen

\* As long as nobody interferes with a run, one worker has its item and finds it running.
JInv == \A r \in Runs \ disturbed : Intact(r)

LEMMA NextFollows ==
  ASSUME TInv, LInv, PInv, [Next]_vars, NEW r \in Runs, Intact(r)
  PROVE  \/ Follows(r)
         \/ Lifecycle(r)!Drop(r) /\ \E p \in Procs : Drop(p) /\ proc[p].run = r
<1>1. CASE UNCHANGED vars
  <2>1. proc' = proc /\ queue' = queue
    BY <1>1 DEF vars
  <2>2. Item(r)' = Item(r) /\ Preparers(r)' = Preparers(r) /\ Executors(r)' = Executors(r)
    BY <2>1 DEF Item, Preparers, Executors, Preparing, Holds
  <2>3. Intact(r)'
    BY <2>1 DEF Intact, Holds
  <2> QED
    BY <2>2, <2>3, LifeStutters DEF Follows
<1> QED
  BY <1>1, StepFollows, BeginFollows, ClaimFollows, ItemMovesFollow DEF Next, Begin, Procs

LEMMA DisturbedGrows == ASSUME [Next]_vars PROVE disturbed \subseteq disturbed'
<1>1. ASSUME NEW p, Step(p) \/ Crash(p) PROVE disturbed \subseteq disturbed'
  BY <1>1 DEF Step, Collect, Publish, Load, Evaluate, Mark, Scan, Create, Park, Execute, Settle, Drop, Release,
              Status, Record, Unlink, Crash, ghosts
<1>2. ASSUME NEW p, Begin(p) PROVE disturbed \subseteq disturbed'
  BY <1>2 DEF Begin, Dashboard, Resolve, Direct, Enqueue, AskHuman, Meets, ghosts
<1>3. ASSUME NEW w, NEW r, Claim(w, r) PROVE disturbed \subseteq disturbed'
  BY <1>3 DEF Claim, Meets
<1>4. ASSUME NEW r, ApproveItem(r) \/ Reclaim(r) PROVE disturbed \subseteq disturbed'
  BY <1>4 DEF ApproveItem, Reclaim, Meets, ghosts
<1>5. CASE UNCHANGED vars
  BY <1>5 DEF vars, ghosts
<1> QED
  BY <1>1, <1>2, <1>3, <1>4, <1>5 DEF Next

LEMMA IntactStep == ASSUME TInv, LInv, PInv, NInv, JInv, [Next]_vars PROVE JInv'
<1>1. ASSUME NEW r \in Runs, r \notin disturbed' PROVE Intact(r)'
  <2>1. r \in Runs \ disturbed /\ Intact(r)
    BY <1>1, DisturbedGrows DEF JInv
  <2> QED
    BY <2>1, NextFollows, DroppedAlone DEF Follows
<1> QED
  BY <1>1 DEF JInv

LEMMA IntactInit == Init => PInv /\ JInv
<1> SUFFICES ASSUME Init PROVE PInv /\ JInv
  OBVIOUS
<1>1. \A p \in Procs : proc[p] = Idle
  BY DEF Init
<1> QED
  BY <1>1 DEF PInv, JInv, Intact, Holds, Idle, Procs

\* Guardrails, approvals, kills and reclaims move the item of a run as the queue promises,
\* and leave a worker that has it alone with it, for any policy, any numbers of runs,
\* workers, operators and requests: unless the run is resolved while somebody works on it,
\* and not before an approved retry then drops the item (cmd_worker,
\* pause_run_for_guardrail, resolve_approval_request).
THEOREM ItemsFollow == Spec => FollowsLifecycle
<1>1. ASSUME TInv, LInv, PInv, JInv, [Next]_vars, NEW r \in Runs, r \notin disturbed \/ Intact(r)
      PROVE  (Intact(r)' /\ LifeStep(r)) \/ Lifecycle(r)!Drop(r)
  <2>1. Intact(r)
    BY <1>1 DEF JInv
  <2> QED
    BY <1>1, <2>1, NextFollows DEF Follows
<1>2. TInv /\ LInv /\ PInv /\ JInv /\ [Next]_vars =>
        [\A r \in Runs : r \notin disturbed \/ Intact(r) =>
           \/ Intact(r)' /\ (UNCHANGED Lifecycle(r)!lifecycle \/ Lifecycle(r)!Next)
           \/ Lifecycle(r)!Drop(r)]_vars
  BY <1>1 DEF LifeStep
<1> QED
  BY TypedInit, TypedStep, LinkedInit, LinkedStep, ApprovedInit, ApprovedStep, IntactInit, IntactStep,
     WorkersOnlyStep, <1>2, PTL DEF Spec, FollowsLifecycle
=============================================================================
