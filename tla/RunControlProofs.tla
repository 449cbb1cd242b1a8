--------------------------- MODULE RunControlProofs ---------------------------
(***************************************************************************)
(* The variables of RunControl keep to their types, no process of an agent *)
(* outlives its execution, the operator job and the entry of the task      *)
(* follow the queue, a stop ends the execution it was meant for and no     *)
(* other, and the item moves as the queue promises: for any number of      *)
(* workers, commands, attempts and executions.                             *)
(***************************************************************************)
EXTENDS RunControl, TLAPS

------------------------------------------------------------------------------
(* Types *)

\* While an agent is prepared, run or written down.
Executing == {"spawn", "record_read", "record_write", "wait", "drain", "check", "end_read",
              "end_write", "reread"}
Shown == {"queued", "running", "completed", "failed", "cancelled"}

\* What a worker has in its hands when it is about to use it.
WorkerGood(r) ==
  /\ r \in Worker
  /\ r.pc \in {"load", "save"} => r.status \in TaskStatuses
  /\ r.pc = "put" => r.status \in Shown
  /\ r.pc \in {"record_write", "end_write"} => r.control # None

\* And what a command has.
StopperGood(r) ==
  /\ r \in Stopper
  /\ r.pc \in {"mark_write", "signal", "fin_write"} => r.control # None
  /\ r.pc \in {"fin_read", "fin_write"} => r.res \in Outcomes
  /\ r.pc = "sync_write" => r.entry # None

QueueTyped == /\ queue \in {"pending", "running", "awaiting_approval", "done", "failed", "dead_letter"}
              /\ attempt \in 0 .. MaxRuns
              /\ checkpoint \in {"absent", "pending", "accept", "reject"}
FilesTyped == /\ control \in Control \cup {None}
              /\ result \in Result
              /\ entry \in Entry \cup {None}
              /\ record \in Shown \cup {"cancelling"}
AgentsTyped == agent \in [Runs -> Agent]
HistoryTyped == /\ kind \in {"local_agent", "remote_agent"}
                /\ stops \in 0 .. MaxStops
                /\ asked \in BOOLEAN /\ signalled \in BOOLEAN /\ accepted \in BOOLEAN
StateTyped == QueueTyped /\ FilesTyped /\ AgentsTyped /\ HistoryTyped
WorkTyped == work \in [Workers -> Worker] /\ \A w \in Workers : WorkerGood(work[w])
StopTyped == stop \in [Stoppers -> Stopper] /\ \A s \in Stoppers : StopperGood(stop[s])

\* Whoever works on an execution finds its control file, and there is one.
Prepared ==
  /\ \A w \in Workers : /\ work[w].pc # "idle" => attempt # 0
                        /\ work[w].pc \in Executing => control # None
  /\ \A s \in Stoppers : stop[s].pc \in {"mark_write", "signal", "fin_read", "fin_write"} => control # None

TInv == StateTyped /\ WorkTyped /\ StopTyped /\ Prepared

LEMMA Atoms ==
  /\ {"idle", "feed", "put", "load", "save", "begin", "pause", "init", "spawn", "record_read",
      "record_write", "wait", "drain", "check", "end_read", "end_write", "reread", "verdict",
      "settle"} \subseteq WorkerPCs
  /\ {"idle", "where", "withdraw", "void_load", "void_save", "void_put", "look", "mark_read",
      "mark_write", "signal", "fin_read", "fin_write", "reload", "sync_read", "sync_write",
      "update"} \subseteq StopperPCs
  /\ None \in Outcomes
  /\ Fresh \in Control
  /\ TaskStatuses \subseteq TaskStatuses \cup {"queued", "cancelled"}
  /\ Shown \subseteq TaskStatuses \cup {"queued", "cancelled"}
  /\ Fresh # None
<1>1. Fresh \in Control
  BY RunAssumption DEF Fresh, Control, Outcomes
<1>2. Fresh # None
  BY <1>1, NoneAssumption
<1> QED
  BY <1>1, <1>2 DEF WorkerPCs, StopperPCs, Outcomes, Shown, TaskStatuses

\* The steps of one worker, and of one command.
LEMMA WorkerMove ==
  ASSUME TInv, NEW w \in Workers, NEW r, Work(w, r), WorkerGood(r), UNCHANGED stop, StateTyped',
         attempt # 0 => attempt' # 0, control # None => control' # None,
         r.pc # "idle" => attempt' # 0, r.pc \in Executing => control' # None
  PROVE  TInv'
<1>1. work' = [work EXCEPT ![w] = r] /\ work \in [Workers -> Worker] /\ r \in Worker
  BY DEF TInv, WorkTyped, WorkerGood, Work
<1>2. WorkTyped'
  BY <1>1 DEF TInv, WorkTyped
<1>3. StopTyped'
  BY DEF TInv, StopTyped
<1>4. Prepared'
  <2>1. ASSUME NEW v \in Workers
        PROVE  (work'[v].pc # "idle" => attempt' # 0) /\ (work'[v].pc \in Executing => control' # None)
    <3>1. CASE v = w
      BY <1>1, <3>1
    <3>2. CASE v # w
      <4>1. work'[v] = work[v]
        BY <1>1, <3>2
      <4>2. (work[v].pc # "idle" => attempt # 0) /\ (work[v].pc \in Executing => control # None)
        BY DEF TInv, Prepared
      <4> QED
        BY <4>1, <4>2
    <3> QED
      BY <3>1, <3>2
  <2>2. ASSUME NEW s \in Stoppers, stop'[s].pc \in {"mark_write", "signal", "fin_read", "fin_write"}
        PROVE  control' # None
    BY <2>2 DEF TInv, Prepared
  <2> QED
    BY <2>1, <2>2 DEF Prepared
<1> QED
  BY <1>2, <1>3, <1>4 DEF TInv

LEMMA StopperMove ==
  ASSUME TInv, NEW s \in Stoppers, NEW r, Stop(s, r), StopperGood(r), UNCHANGED work, StateTyped',
         attempt' = attempt, control # None => control' # None,
         r.pc \in {"mark_write", "signal", "fin_read", "fin_write"} => control' # None
  PROVE  TInv'
<1>1. stop' = [stop EXCEPT ![s] = r] /\ stop \in [Stoppers -> Stopper] /\ r \in Stopper
  BY DEF TInv, StopTyped, StopperGood, Stop
<1>2. StopTyped'
  BY <1>1 DEF TInv, StopTyped
<1>3. WorkTyped'
  BY DEF TInv, WorkTyped
<1>4. Prepared'
  BY <1>1 DEF TInv, Prepared
<1> QED
  BY <1>2, <1>3, <1>4 DEF TInv

LEMMA AtRestGood == WorkerGood(AtRest) /\ \A st \in TaskStatuses :
                      WorkerGood([AtRest EXCEPT !.pc = "load", !.phase = "finished", !.status = st])
<1>1. AtRest \in Worker
  BY Atoms DEF AtRest, Worker, TaskStatuses
<1>2. WorkerGood(AtRest)
  BY <1>1 DEF WorkerGood, AtRest
<1>3. ASSUME NEW st \in TaskStatuses
      PROVE  WorkerGood([AtRest EXCEPT !.pc = "load", !.phase = "finished", !.status = st])
  <2> DEFINE r == [AtRest EXCEPT !.pc = "load", !.phase = "finished", !.status = st]
  <2>1. r \in Worker
    BY <1>1, Atoms DEF Worker
  <2>2. r.pc = "load" /\ r.status = st
    BY <1>1 DEF Worker
  <2> QED
    BY <2>1, <2>2 DEF WorkerGood
<1> QED
  BY <1>2, <1>3

LEMMA NoCommandGood == StopperGood(NoCommand)
  BY Atoms DEF StopperGood, NoCommand, Stopper

\* A worker goes on to another place without anything in its hands.
LEMMA GoesOn ==
  ASSUME NEW r, WorkerGood(r),
         NEW x \in {"begin", "init", "feed", "pause", "spawn", "record_read", "wait", "drain", "check",
                    "end_read", "reread", "verdict", "settle"}
  PROVE  /\ WorkerGood([r EXCEPT !.pc = x])
         /\ WorkerGood([r EXCEPT !.pc = x, !.control = None])
         /\ \A c \in 0 .. 2 : WorkerGood([r EXCEPT !.pc = x, !.code = c])
<1>1. r \in Worker /\ x \in WorkerPCs
  BY Atoms DEF WorkerGood
<1>2. [r EXCEPT !.pc = x] \in Worker
  BY <1>1 DEF Worker
<1>3. [r EXCEPT !.pc = x, !.control = None] \in Worker
  BY <1>1 DEF Worker
<1>4. ASSUME NEW c \in 0 .. 2 PROVE [r EXCEPT !.pc = x, !.code = c] \in Worker
  BY <1>1 DEF Worker
<1>5. \A y \in Worker : y.pc = x => WorkerGood(y)
  BY DEF WorkerGood
<1>6. /\ [r EXCEPT !.pc = x].pc = x /\ [r EXCEPT !.pc = x, !.control = None].pc = x
      /\ \A c \in 0 .. 2 : [r EXCEPT !.pc = x, !.code = c].pc = x
  BY <1>1 DEF Worker
<1> QED
  BY <1>2, <1>3, <1>4, <1>5, <1>6

\* The results of the functions that decide.
LEMMA Decisions ==
  ASSUME TInv
  PROVE  /\ Effective \in {None, "running", "success", "failed", "created", "cancelled", "cancel_requested"}
         /\ \A v : Derived(queue, v) \in Shown
         /\ \A r : Destination(r) \in {"pending", "running", "awaiting_approval", "done", "failed", "dead_letter"}
         /\ \A r, d : Settled(r, d) \in TaskStatuses
<1>1. result.status \in {"created", "running", "success", "failed"}
  BY DEF TInv, StateTyped, FilesTyped, Result
<1>2. Effective \in {None, "running", "success", "failed", "created", "cancelled", "cancel_requested"}
  BY <1>1 DEF Effective
<1>3. \A v : Derived(queue, v) \in Shown
  BY DEF Derived, Shown
<1>4. \A r : Destination(r) \in {"pending", "running", "awaiting_approval", "done", "failed", "dead_letter"}
  BY DEF Destination
<1>5. \A r, d : Settled(r, d) \in TaskStatuses
  BY DEF Settled, TaskStatuses
<1> QED
  BY <1>2, <1>3, <1>4, <1>5

LEMMA PersistedTyped ==
  ASSUME NEW e \in Entry \cup {None}, NEW st \in TaskStatuses, NEW n \in BOOLEAN
  PROVE  Persisted(e, st, n) \in Entry
<1>1. CASE e = None
  <2>1. Persisted(e, st, n) = [status |-> st, notified |-> n, req |-> FALSE, out |-> None]
    BY <1>1 DEF Persisted
  <2> QED
    BY <2>1, Atoms DEF Entry
<1>2. CASE e # None
  <2>1. e \in Entry
    BY <1>2
  <2>2. e.req \in BOOLEAN /\ e.out \in Outcomes
    BY <2>1 DEF Entry
  <2>3. Persisted(e, st, n) = [status |-> st, notified |-> n, req |-> e.req, out |-> e.out]
    BY <1>2, <2>2 DEF Persisted
  <2> QED
    BY <2>2, <2>3 DEF Entry
<1> QED
  BY <1>1, <1>2

LEMMA InHand ==
  ASSUME TInv, NEW w \in Workers
  PROVE  /\ WorkerGood(work[w])
         /\ work[w].pc # "idle" => attempt \in Runs
         /\ work[w].pc \in Executing => control \in Control
  BY RunAssumption DEF TInv, WorkTyped, Prepared, StateTyped, QueueTyped, FilesTyped, Runs

\* The worker's own steps.
LEMMA ClaimTyped == ASSUME TInv, NEW w \in Workers, Claim(w) PROVE TInv'
<1> DEFINE r == [AtRest EXCEPT !.pc = "feed"]
<1>1. WorkerGood(r) /\ r.pc = "feed"
  BY AtRestGood, GoesOn DEF AtRest
<1>2. StateTyped'
  <2>1. attempt \in 0 .. MaxRuns /\ attempt < MaxRuns /\ attempt' = attempt + 1 /\ MaxRuns \in Nat
    BY RunAssumption DEF Claim, TInv, StateTyped, QueueTyped
  <2>2. attempt' \in 0 .. MaxRuns
    BY <2>1
  <2> QED
    BY <2>2 DEF Claim, TInv, StateTyped, QueueTyped, FilesTyped, AgentsTyped, HistoryTyped, files
<1>3. attempt' # 0
  BY DEF Claim, TInv, StateTyped, QueueTyped
<1>4. Work(w, r) /\ UNCHANGED stop /\ control' = control
  BY DEF Claim, files
<1> HIDE DEF r
<1> QED
  BY <1>1, <1>2, <1>3, <1>4, WorkerMove DEF Executing

\* A step of a worker that goes somewhere outside of an execution.
LEMMA StaysOut ==
  ASSUME TInv, NEW w \in Workers, NEW r, Work(w, r), WorkerGood(r), StateTyped', work[w].pc # "idle",
         attempt' = attempt, UNCHANGED stop, control' = control,
         r.pc \in Executing => work[w].pc \in Executing
  PROVE  TInv'
<1>1. attempt # 0 /\ (work[w].pc \in Executing => control # None)
  BY DEF TInv, Prepared
<1> QED
  BY <1>1, WorkerMove

LEMMA FeedTyped == ASSUME TInv, NEW w \in Workers, Feed(w) PROVE TInv'
<1> DEFINE r == [work[w] EXCEPT !.pc = "put", !.status = Derived(queue, Effective)]
<1>1. Derived(queue, Effective) \in Shown
  BY Decisions
<1>2. WorkerGood(r) /\ r.pc = "put"
  <2>1. work[w] \in Worker
    BY InHand DEF WorkerGood
  <2>2. r \in Worker /\ r.pc = "put" /\ r.status = Derived(queue, Effective)
    BY <1>1, <2>1, Atoms DEF Worker
  <2> QED
    BY <1>1, <2>2 DEF WorkerGood
<1>3. StateTyped'
  BY DEF Feed, TInv, StateTyped, QueueTyped, FilesTyped, AgentsTyped, HistoryTyped, files, QueueVars, WorkerOnly, ghosts
<1>4. Work(w, r) /\ UNCHANGED <<stop, attempt, control>> /\ work[w].pc = "feed"
  BY DEF Feed, files, QueueVars, WorkerOnly
<1> HIDE DEF r
<1> QED
  BY <1>2, <1>3, <1>4, StaysOut DEF Executing

LEMMA PutTyped == ASSUME TInv, NEW w \in Workers, Put(w) PROVE TInv'
<1>1. WorkerGood(work[w]) /\ work[w].pc = "put" /\ work[w].status \in Shown
  BY InHand DEF Put, WorkerGood
<1>2. PICK r : Work(w, r) /\ r \in {[work[w] EXCEPT !.pc = "begin"], [work[w] EXCEPT !.pc = "init"], AtRest}
  BY DEF Put
<1>3. WorkerGood(r) /\ r.pc \in {"begin", "init", "idle"}
  <2>1. CASE r = AtRest
    BY <2>1, AtRestGood DEF AtRest
  <2>2. ASSUME NEW x \in {"begin", "init"}, r = [work[w] EXCEPT !.pc = x]
        PROVE  WorkerGood(r) /\ r.pc = x
    <3>1. WorkerGood(r)
      BY <1>1, <2>2, GoesOn
    <3>2. r.pc = x
      BY <1>1, <2>2 DEF WorkerGood, Worker
    <3> QED
      BY <3>1, <3>2
  <2> QED
    BY <1>2, <2>1, <2>2
<1>4. StateTyped'
  BY <1>1 DEF Put, TInv, StateTyped, QueueTyped, FilesTyped, AgentsTyped, HistoryTyped, files, QueueVars, WorkerOnly, ghosts
<1>5. UNCHANGED <<stop, attempt, control>>
  BY DEF Put, QueueVars, WorkerOnly
<1> QED
  BY <1>1, <1>2, <1>3, <1>4, <1>5, StaysOut DEF Executing

LEMMA BeginTyped == ASSUME TInv, NEW w \in Workers, Begin(w) PROVE TInv'
<1>1. work[w] \in Worker /\ work[w].pc = "begin"
  BY InHand DEF Begin, WorkerGood
<1>2. PICK r : Work(w, r) /\ r \in {[work[w] EXCEPT !.pc = "load", !.phase = "started", !.status = "running"],
                                    [work[w] EXCEPT !.pc = "load", !.phase = "paused", !.status = "pending"]}
  BY DEF Begin
<1>3. WorkerGood(r) /\ r.pc = "load"
  BY <1>1, <1>2, Atoms DEF WorkerGood, Worker, TaskStatuses
<1>4. StateTyped'
  BY DEF Begin, TInv, StateTyped, QueueTyped, FilesTyped, AgentsTyped, HistoryTyped, files, QueueVars, WorkerOnly, ghosts
<1>5. UNCHANGED <<stop, attempt, control>>
  BY DEF Begin, files, QueueVars, WorkerOnly
<1> QED
  BY <1>1, <1>2, <1>3, <1>4, <1>5, StaysOut DEF Executing

LEMMA LoadTyped == ASSUME TInv, NEW w \in Workers, Load(w) PROVE TInv'
<1> DEFINE r == [work[w] EXCEPT !.pc = "save", !.entry = entry]
<1>1. WorkerGood(work[w]) /\ work[w].pc = "load" /\ entry \in Entry \cup {None}
  BY InHand DEF Load, TInv, StateTyped, FilesTyped
<1>2. WorkerGood(r) /\ r.pc = "save"
  <2>1. work[w] \in Worker /\ work[w].status \in TaskStatuses
    BY <1>1 DEF WorkerGood
  <2>2. r \in Worker /\ r.pc = "save" /\ r.status = work[w].status
    BY <1>1, <2>1, Atoms DEF Worker
  <2> QED
    BY <2>1, <2>2 DEF WorkerGood
<1>3. StateTyped'
  BY DEF Load, TInv, StateTyped, QueueTyped, FilesTyped, AgentsTyped, HistoryTyped, files, QueueVars, WorkerOnly, ghosts
<1>4. Work(w, r) /\ UNCHANGED <<stop, attempt, control>>
  BY DEF Load, files, QueueVars, WorkerOnly
<1> HIDE DEF r
<1> QED
  BY <1>1, <1>2, <1>3, <1>4, StaysOut DEF Executing

LEMMA SaveTyped == ASSUME TInv, NEW w \in Workers, Save(w) PROVE TInv'
<1>1. WorkerGood(work[w]) /\ work[w].pc = "save"
  BY InHand DEF Save
<1>2. work[w] \in Worker /\ work[w].status \in TaskStatuses /\ work[w].entry \in Entry \cup {None}
  BY <1>1 DEF WorkerGood, Worker
<1>3. PICK r : Work(w, r) /\ r \in {[work[w] EXCEPT !.entry = None, !.pc = "pause"],
                                    [work[w] EXCEPT !.entry = None, !.pc = "feed"]}
  BY DEF Save
<1>4. WorkerGood(r) /\ r.pc \in {"pause", "feed"}
  <2>1. r \in Worker
    BY <1>2, <1>3, Atoms DEF Worker
  <2>2. r.pc \in {"pause", "feed"}
    BY <1>2, <1>3 DEF Worker
  <2> QED
    BY <2>1, <2>2 DEF WorkerGood
<1>5. entry' \in Entry
  <2> DEFINE told == work[w].status \in {"completed", "failed"}
  <2>1. told \in BOOLEAN
    OBVIOUS
  <2>2. entry' = Persisted(work[w].entry, work[w].status, told)
    BY DEF Save
  <2> HIDE DEF told
  <2> QED
    BY <1>2, <2>1, <2>2, PersistedTyped
<1>6. StateTyped'
  BY <1>5 DEF Save, TInv, StateTyped, QueueTyped, FilesTyped, AgentsTyped, HistoryTyped, QueueVars, WorkerOnly, ghosts
<1>7. UNCHANGED <<stop, attempt, control>>
  BY DEF Save, QueueVars, WorkerOnly
<1> QED
  BY <1>1, <1>3, <1>4, <1>6, <1>7, StaysOut DEF Executing

LEMMA PauseTyped == ASSUME TInv, NEW w \in Workers, Pause(w) PROVE TInv'
<1>1. WorkerGood(work[w]) /\ work[w].pc = "pause"
  BY InHand DEF Pause
<1>2. WorkerGood([work[w] EXCEPT !.pc = "feed"]) /\ [work[w] EXCEPT !.pc = "feed"].pc = "feed"
  <2>1. WorkerGood([work[w] EXCEPT !.pc = "feed"])
    BY <1>1, GoesOn
  <2>2. [work[w] EXCEPT !.pc = "feed"].pc = "feed"
    BY <1>1 DEF WorkerGood, Worker
  <2> QED
    BY <2>1, <2>2
<1>3. StateTyped'
  BY DEF Pause, TInv, StateTyped, QueueTyped, FilesTyped, AgentsTyped, HistoryTyped, files, WorkerOnly, ghosts
<1>4. Work(w, [work[w] EXCEPT !.pc = "feed"]) /\ UNCHANGED <<stop, attempt, control>>
  BY DEF Pause, files, WorkerOnly
<1> QED
  BY <1>1, <1>2, <1>3, <1>4, StaysOut DEF Executing

LEMMA JudgeTyped == ASSUME TInv, NEW w \in Workers, Judge(w) PROVE TInv'
<1> DEFINE r == [work[w] EXCEPT !.pc = "settle", !.verdict = Effective]
<1>1. work[w] \in Worker /\ work[w].pc = "verdict"
  BY InHand DEF Judge, WorkerGood
<1>2. WorkerGood(r) /\ r.pc = "settle"
  <2>1. r \in Worker /\ r.pc = "settle"
    BY <1>1, Decisions, Atoms DEF Worker
  <2> QED
    BY <2>1 DEF WorkerGood
<1>3. StateTyped'
  BY DEF Judge, TInv, StateTyped, QueueTyped, FilesTyped, AgentsTyped, HistoryTyped, files, QueueVars, WorkerOnly, ghosts
<1>4. Work(w, r) /\ UNCHANGED <<stop, attempt, control>>
  BY DEF Judge, files, QueueVars, WorkerOnly
<1> HIDE DEF r
<1> QED
  BY <1>1, <1>2, <1>3, <1>4, StaysOut DEF Executing

LEMMA SettleTyped == ASSUME TInv, NEW w \in Workers, Settle(w) PROVE TInv'
<1> DEFINE st == Settled(work[w], Destination(work[w]))
           r == [AtRest EXCEPT !.pc = "load", !.phase = "finished", !.status = st]
<1>1. st \in TaskStatuses /\ Destination(work[w]) \in {"pending", "running", "awaiting_approval", "done", "failed", "dead_letter"}
  BY Decisions
<1>2. Work(w, r) /\ UNCHANGED <<stop, attempt, control, checkpoint, files, agent, kind, stops, ghosts>>
      /\ queue' = Destination(work[w]) /\ work[w].pc = "settle"
  BY DEF Settle, files, WorkerOnly
<1>3. StateTyped'
  BY <1>1, <1>2 DEF TInv, StateTyped, QueueTyped, FilesTyped, AgentsTyped, HistoryTyped, files, ghosts
<1>4. WorkerGood(r) /\ r.pc = "load"
  BY <1>1, AtRestGood DEF AtRest
<1> HIDE DEF r
<1> QED
  BY <1>2, <1>3, <1>4, StaysOut DEF Executing

\* The steps of an execution.
LEMMA StaysIn ==
  ASSUME TInv, NEW w \in Workers, NEW r, Work(w, r), WorkerGood(r), StateTyped', work[w].pc # "idle",
         attempt' = attempt, UNCHANGED stop, control' \in Control
  PROVE  TInv'
<1>1. attempt # 0 /\ control' # None
  BY NoneAssumption DEF TInv, Prepared
<1> QED
  BY <1>1, WorkerMove

LEMMA InitializeTyped == ASSUME TInv, NEW w \in Workers, Initialize(w) PROVE TInv'
<1>1. WorkerGood([work[w] EXCEPT !.pc = "spawn"]) /\ work[w].pc = "init"
  BY InHand, GoesOn DEF Initialize
<1>2. result' \in Result
  BY Atoms DEF Initialize, TInv, StateTyped, FilesTyped, Result
<1>3. control' \in Control
  BY Atoms DEF Initialize
<1>4. StateTyped'
  BY <1>2, <1>3 DEF Initialize, TInv, StateTyped, QueueTyped, FilesTyped, AgentsTyped, HistoryTyped, QueueVars, WorkerOnly, ghosts
<1>5. Work(w, [work[w] EXCEPT !.pc = "spawn"]) /\ UNCHANGED <<stop, attempt>>
  BY DEF Initialize, QueueVars, WorkerOnly
<1> QED
  BY <1>1, <1>3, <1>4, <1>5, StaysIn

LEMMA RefuseTyped == ASSUME TInv, NEW w \in Workers, Refuse(w) PROVE TInv'
<1>1. work[w] \in Worker /\ work[w].pc = "init"
  BY InHand DEF Refuse, WorkerGood
<1> PICK c \in 0 .. 2 : c = 1
  OBVIOUS
<1> DEFINE r == [work[w] EXCEPT !.pc = "verdict", !.code = c]
<1>2. WorkerGood(r) /\ r.pc = "verdict"
  <2>1. r \in Worker /\ r.pc = "verdict"
    BY <1>1, Atoms DEF Worker
  <2> QED
    BY <2>1 DEF WorkerGood
<1>3. StateTyped'
  BY DEF Refuse, TInv, StateTyped, QueueTyped, FilesTyped, AgentsTyped, HistoryTyped, files, QueueVars, WorkerOnly, ghosts
<1>4. Work(w, r) /\ UNCHANGED <<stop, attempt, control>>
  BY DEF Refuse, files, QueueVars, WorkerOnly
<1> HIDE DEF r
<1> QED
  BY <1>1, <1>2, <1>3, <1>4, StaysOut DEF Executing

LEMMA AgentSet ==
  ASSUME TInv, NEW a \in Runs, NEW g \in Agent, agent' = [agent EXCEPT ![a] = g],
         UNCHANGED <<kind, queue, attempt, checkpoint, control, result, entry, record, stops>>,
         asked' = asked, signalled' \in BOOLEAN, accepted' = accepted
  PROVE  StateTyped'
<1>1. agent' \in [Runs -> Agent]
  BY DEF TInv, StateTyped, AgentsTyped
<1> QED
  BY <1>1 DEF TInv, StateTyped, QueueTyped, FilesTyped, AgentsTyped, HistoryTyped

\* What becomes of an agent is an agent.
LEMMA Turned ==
  ASSUME NEW g \in Agent, NEW l \in {"none", "up", "zombie", "gone", "lost"}, NEW c \in 0 .. 2
  PROVE  [g EXCEPT !.leader = l, !.code = c] \in Agent
  BY DEF Agent

LEMMA Reaped ==
  ASSUME NEW g \in Agent
  PROVE  /\ [g EXCEPT !.leader = "gone", !.code = 0] \in Agent
         /\ [g EXCEPT !.leader = "zombie", !.code = 1] \in Agent
<1>1. PICK y \in 0 .. 2 : y = 0
  OBVIOUS
<1>2. PICK z \in 0 .. 2 : z = 1
  OBVIOUS
<1>3. [g EXCEPT !.leader = "gone", !.code = y] \in Agent /\ [g EXCEPT !.leader = "zombie", !.code = z] \in Agent
  BY Turned
<1> QED
  BY <1>1, <1>2, <1>3

LEMMA AgentForms ==
  ASSUME TInv, NEW a \in Runs
  PROVE  /\ agent[a] \in Agent
         /\ \A l \in {"none", "up", "zombie", "gone", "lost"} :
              /\ [agent[a] EXCEPT !.leader = l] \in Agent
              /\ [agent[a] EXCEPT !.leader = l, !.helper = "none"] \in Agent
         /\ \A h \in {"none", "sharing", "detached"} : [agent[a] EXCEPT !.helper = h] \in Agent
         /\ Killed(agent[a]) \in Agent
<1>1. agent[a] \in Agent
  BY DEF TInv, StateTyped, AgentsTyped
<1>2. \A l \in {"none", "up", "zombie", "gone", "lost"} :
         /\ [agent[a] EXCEPT !.leader = l] \in Agent
         /\ [agent[a] EXCEPT !.leader = l, !.helper = "none"] \in Agent
  BY <1>1 DEF Agent
<1>4. \A h \in {"none", "sharing", "detached"} : [agent[a] EXCEPT !.helper = h] \in Agent
  BY <1>1 DEF Agent
<1>5. Killed(agent[a]) \in Agent
  <2> DEFINE g == agent[a]
             l == IF g.leader = "up" THEN "zombie" ELSE IF g.leader = "lost" THEN "gone" ELSE g.leader
             c == IF g.leader = "up" THEN 1 ELSE g.code
  <2>1. g.leader \in {"none", "up", "zombie", "gone", "lost"} /\ g.code \in 0 .. 2 /\ 1 \in 0 .. 2
    BY <1>1 DEF Agent
  <2>2. l \in {"none", "up", "zombie", "gone", "lost"} /\ c \in 0 .. 2
    BY <2>1
  <2>3. Killed(g) = [g EXCEPT !.helper = "none", !.leader = l, !.code = c]
    BY DEF Killed
  <2> HIDE DEF l, c
  <2>4. [g EXCEPT !.helper = "none", !.leader = l, !.code = c] \in Agent
    BY <1>1, <2>2 DEF Agent
  <2> QED
    BY <2>3, <2>4
<1> QED
  BY <1>1, <1>2, <1>4, <1>5

LEMMA SpawnTyped == ASSUME TInv, NEW w \in Workers, Spawn(w) PROVE TInv'
<1>1. work[w].pc = "spawn" /\ attempt \in Runs /\ control \in Control
  BY InHand DEF Spawn, Executing
<1>2. PICK x \in {"record_read", "check"} : Work(w, [work[w] EXCEPT !.pc = x])
  BY DEF Spawn
<1>3. WorkerGood([work[w] EXCEPT !.pc = x])
  BY InHand, GoesOn
<1>4. UNCHANGED <<QueueVars, files, WorkerOnly>>
  BY DEF Spawn
<1>5. StateTyped'
  <2>1. CASE UNCHANGED agent
    BY <1>4, <2>1 DEF TInv, StateTyped, QueueTyped, FilesTyped, AgentsTyped, HistoryTyped, files, QueueVars, WorkerOnly, ghosts
  <2>2. CASE agent' = [agent EXCEPT ![attempt].leader = "up"]
    <3> DEFINE g == [agent[attempt] EXCEPT !.leader = "up"]
    <3>1. g \in Agent
      BY <1>1, AgentForms
    <3>2. agent' = [agent EXCEPT ![attempt] = g]
      BY <2>2
    <3> HIDE DEF g
    <3>3. signalled \in BOOLEAN
      BY DEF TInv, StateTyped, HistoryTyped
    <3> QED
      BY <1>1, <1>4, <3>1, <3>2, <3>3, AgentSet DEF files, QueueVars, WorkerOnly, ghosts
  <2> QED
    BY <2>1, <2>2 DEF Spawn
<1> QED
  BY <1>1, <1>2, <1>3, <1>4, <1>5, StaysIn DEF files, QueueVars, WorkerOnly

\* A step of an execution that changes neither files nor agents.
LEMMA OnlyWork ==
  ASSUME TInv, NEW w \in Workers, NEW r, Work(w, r), WorkerGood(r), work[w].pc \in Executing,
         UNCHANGED <<QueueVars, files, agent, WorkerOnly>>
  PROVE  TInv'
<1>1. StateTyped'
  BY DEF TInv, StateTyped, QueueTyped, FilesTyped, AgentsTyped, HistoryTyped, files, QueueVars, WorkerOnly, ghosts
<1>2. control \in Control /\ work[w].pc # "idle"
  BY InHand DEF Executing
<1> QED
  BY <1>1, <1>2, StaysIn DEF files, QueueVars, WorkerOnly

\* A worker takes a copy of the control file, to write it back changed.
LEMMA CopyGood ==
  ASSUME NEW r, WorkerGood(r), control \in Control, NEW x \in {"record_write", "end_write"}
  PROVE  WorkerGood([r EXCEPT !.pc = x, !.control = control])
<1> DEFINE q == [r EXCEPT !.pc = x, !.control = control]
<1>1. r \in Worker /\ control # None
  BY NoneAssumption DEF WorkerGood
<1>2. q \in Worker /\ q.pc = x /\ q.control = control
  BY <1>1, Atoms DEF Worker
<1> HIDE DEF q
<1>3. WorkerGood(q)
  BY <1>1, <1>2 DEF WorkerGood
<1> QED
  BY <1>3 DEF q

LEMMA RecordReadTyped == ASSUME TInv, NEW w \in Workers, RecordRead(w) PROVE TInv'
<1>1. work[w].pc = "record_read" /\ work[w].pc \in Executing
  BY DEF RecordRead, Executing
<1>2. WorkerGood([work[w] EXCEPT !.pc = "record_write", !.control = control])
  BY <1>1, InHand, CopyGood
<1> QED
  BY <1>1, <1>2, OnlyWork DEF RecordRead

LEMMA EndReadTyped == ASSUME TInv, NEW w \in Workers, EndRead(w) PROVE TInv'
<1>1. work[w].pc = "end_read" /\ work[w].pc \in Executing
  BY DEF EndRead, Executing
<1>2. WorkerGood([work[w] EXCEPT !.pc = "end_write", !.control = control])
  BY <1>1, InHand, CopyGood
<1> QED
  BY <1>1, <1>2, OnlyWork DEF EndRead

\* The control file is replaced by the copy.
LEMMA WriteBack ==
  ASSUME TInv, NEW w \in Workers, NEW x \in {"wait", "reread"}, work[w].pc \in Executing,
         Work(w, [work[w] EXCEPT !.pc = x, !.control = None]), control' \in Control,
         UNCHANGED <<QueueVars, result, entry, record, agent, WorkerOnly>>
  PROVE  TInv'
<1>1. WorkerGood([work[w] EXCEPT !.pc = x, !.control = None]) /\ work[w].pc # "idle"
  BY InHand, GoesOn DEF Executing
<1>2. StateTyped'
  BY DEF TInv, StateTyped, QueueTyped, FilesTyped, AgentsTyped, HistoryTyped, QueueVars, WorkerOnly, ghosts
<1> QED
  BY <1>1, <1>2, StaysIn DEF QueueVars, WorkerOnly

LEMMA RecordWriteTyped == ASSUME TInv, NEW w \in Workers, RecordWrite(w) PROVE TInv'
<1>1. work[w].pc = "record_write" /\ work[w].pc \in Executing /\ attempt \in 0 .. MaxRuns
  BY DEF RecordWrite, Executing, TInv, StateTyped, QueueTyped
<1>2. work[w].control \in Control
  BY <1>1, InHand DEF WorkerGood, Worker
<1>3. control' \in Control
  BY <1>1, <1>2 DEF RecordWrite, Control
<1> QED
  BY <1>1, <1>3, WriteBack DEF RecordWrite

LEMMA EndWriteTyped == ASSUME TInv, NEW w \in Workers, EndWrite(w) PROVE TInv'
<1>1. work[w].pc = "end_write" /\ work[w].pc \in Executing
  BY DEF EndWrite, Executing
<1>2. work[w].control \in Control
  BY <1>1, InHand DEF WorkerGood, Worker
<1>3. control' \in Control
  BY <1>2 DEF EndWrite, Control, Outcomes
<1> QED
  BY <1>1, <1>3, WriteBack DEF EndWrite

\* The agent of this execution comes to an end in the eyes of its worker.
LEMMA AgentTurns ==
  ASSUME TInv, NEW w \in Workers, NEW r, Work(w, r), WorkerGood(r), work[w].pc \in Executing,
         NEW g \in Agent, agent' = [agent EXCEPT ![attempt] = g],
         UNCHANGED <<QueueVars, files, WorkerOnly>>
  PROVE  TInv'
<1>1. attempt \in Runs /\ control \in Control /\ work[w].pc # "idle"
  BY InHand DEF Executing
<1>2. signalled \in BOOLEAN
  BY DEF TInv, StateTyped, HistoryTyped
<1>3. StateTyped'
  BY <1>1, <1>2, AgentSet DEF files, QueueVars, WorkerOnly, ghosts
<1> QED
  BY <1>1, <1>3, StaysIn DEF files, QueueVars, WorkerOnly

LEMMA RecordFailsTyped == ASSUME TInv, NEW w \in Workers, RecordFails(w) PROVE TInv'
<1> DEFINE l == IF agent[attempt].leader = "up" \/ agent[attempt].helper = "sharing" THEN "lost" ELSE "gone"
           g == [agent[attempt] EXCEPT !.leader = l]
<1>1. work[w].pc \in Executing /\ attempt \in Runs
  BY InHand DEF RecordFails, Executing
<1>2. l \in {"lost", "gone"} /\ g \in Agent
  BY <1>1, AgentForms
<1>3. agent' = [agent EXCEPT ![attempt] = g]
  BY DEF RecordFails
<1>4. WorkerGood([work[w] EXCEPT !.pc = "check", !.control = None])
  BY InHand, GoesOn
<1> HIDE DEF g
<1> QED
  BY <1>1, <1>2, <1>3, <1>4, AgentTurns DEF RecordFails

LEMMA ReapTyped == ASSUME TInv, NEW w \in Workers, Reap(w) PROVE TInv'
<1> DEFINE g == [agent[attempt] EXCEPT !.leader = "gone", !.code = 0]
<1>1. work[w].pc \in Executing /\ attempt \in Runs
  BY InHand DEF Reap, Executing
<1>2. g \in Agent /\ agent[attempt].code \in 0 .. 2
  <2>1. agent[attempt] \in Agent
    BY <1>1, AgentForms
  <2>2. agent[attempt].code \in 0 .. 2
    BY <2>1 DEF Agent
  <2>3. g \in Agent
    BY <2>1, Reaped
  <2> QED
    BY <2>2, <2>3
<1>3. agent' = [agent EXCEPT ![attempt] = g]
  BY DEF Reap
<1>4. WorkerGood([work[w] EXCEPT !.pc = "drain", !.code = agent[attempt].code])
  BY <1>2, InHand, GoesOn
<1> HIDE DEF g
<1> QED
  BY <1>1, <1>2, <1>3, <1>4, AgentTurns DEF Reap

LEMMA ExpireTyped == ASSUME TInv, NEW w \in Workers, Expire(w) PROVE TInv'
<1> DEFINE g == [agent[attempt] EXCEPT !.leader = "zombie", !.code = 1]
<1>1. work[w].pc \in Executing /\ attempt \in Runs
  BY InHand DEF Expire, Executing
<1>2. g \in Agent /\ 1 \in 0 .. 2
  <2>1. agent[attempt] \in Agent
    BY <1>1, AgentForms
  <2>2. g \in Agent
    BY <2>1, Reaped
  <2>3. 1 \in 0 .. 2
    OBVIOUS
  <2> QED
    BY <2>2, <2>3
<1>3. agent' = [agent EXCEPT ![attempt] = g]
  BY DEF Expire
<1>4. WorkerGood([work[w] EXCEPT !.pc = "drain", !.code = 1])
  BY <1>2, InHand, GoesOn
<1> HIDE DEF g
<1> QED
  BY <1>1, <1>2, <1>3, <1>4, AgentTurns DEF Expire

LEMMA DrainTyped == ASSUME TInv, NEW w \in Workers, Drain(w) PROVE TInv'
<1>1. work[w].pc \in Executing /\ WorkerGood([work[w] EXCEPT !.pc = "check"])
  BY InHand, GoesOn DEF Drain, Executing
<1> QED
  BY <1>1, OnlyWork DEF Drain

LEMMA FinishedTyped ==
  ASSUME TInv, NEW w \in Workers, NEW c \in 0 .. 2, NEW o \in Outcomes, work[w].pc \in Executing,
         Finished(w, c, o), UNCHANGED <<QueueVars, control, entry, record, WorkerOnly>>
  PROVE  TInv'
<1>1. attempt \in Runs /\ control \in Control /\ work[w].pc # "idle"
  BY InHand DEF Executing
<1>2. WorkerGood([work[w] EXCEPT !.pc = "verdict", !.code = c])
  BY InHand, GoesOn
<1>3. result' \in Result
  BY DEF Finished, Result
<1>4. agent' \in [Runs -> Agent]
  <2>1. CASE agent[attempt].leader # "zombie"
    BY <2>1 DEF Finished, TInv, StateTyped, AgentsTyped
  <2>2. CASE agent[attempt].leader = "zombie"
    <3> DEFINE g == [agent[attempt] EXCEPT !.leader = "gone", !.code = 0]
    <3>1. agent' = [agent EXCEPT ![attempt] = g]
      BY <2>2 DEF Finished
    <3>2. agent[attempt] \in Agent
      BY <1>1, AgentForms
    <3>3. g \in Agent
      BY <3>2, Reaped
    <3> HIDE DEF g
    <3> QED
      BY <3>1, <3>3 DEF TInv, StateTyped, AgentsTyped
  <2> QED
    BY <2>1, <2>2
<1>5. StateTyped'
  BY <1>3, <1>4 DEF TInv, StateTyped, QueueTyped, FilesTyped, AgentsTyped, HistoryTyped, QueueVars, WorkerOnly, ghosts
<1> QED
  BY <1>1, <1>2, <1>5, StaysIn DEF Finished, QueueVars, WorkerOnly

LEMMA CheckTyped == ASSUME TInv, NEW w \in Workers, Check(w) PROVE TInv'
<1> DEFINE code == IF work[w].code = 0 /\ checkpoint = "pending" THEN 2 ELSE work[w].code
<1>1. work[w].pc \in Executing /\ control \in Control /\ WorkerGood(work[w])
  BY InHand DEF Check, Executing
<1>2. code \in 0 .. 2 /\ control.out \in Outcomes
  BY <1>1 DEF WorkerGood, Worker, Control
<1>3. CASE control.req
  <2>1. Work(w, [work[w] EXCEPT !.pc = "end_read", !.code = code])
    BY <1>3 DEF Check
  <2>2. UNCHANGED <<QueueVars, files, agent, WorkerOnly>>
    BY <1>3 DEF Check, files
  <2> HIDE DEF code
  <2>3. WorkerGood([work[w] EXCEPT !.pc = "end_read", !.code = code])
    BY <1>1, <1>2, GoesOn
  <2> QED
    BY <1>1, <2>1, <2>2, <2>3, OnlyWork
<1>4. CASE ~control.req
  <2>1. Finished(w, code, control.out) /\ UNCHANGED <<QueueVars, control, entry, record, WorkerOnly>>
    BY <1>4 DEF Check
  <2> HIDE DEF code
  <2> QED
    BY <1>1, <1>2, <2>1, FinishedTyped
<1> QED
  BY <1>3, <1>4

LEMMA RereadTyped == ASSUME TInv, NEW w \in Workers, Reread(w) PROVE TInv'
<1>1. work[w].pc \in Executing /\ control \in Control /\ WorkerGood(work[w])
  BY InHand DEF Reread, Executing
<1>2. work[w].code \in 0 .. 2 /\ control.out \in Outcomes
  BY <1>1 DEF WorkerGood, Worker, Control
<1> QED
  BY <1>1, <1>2, FinishedTyped DEF Reread

LEMMA WorkerTyped == ASSUME TInv, NEW w \in Workers, WorkerStep(w) PROVE TInv'
<1>1. CASE ExecutorStep(w)
  BY <1>1, InitializeTyped, RefuseTyped, SpawnTyped, RecordReadTyped, RecordWriteTyped, RecordFailsTyped,
     ReapTyped, ExpireTyped, DrainTyped, CheckTyped, EndReadTyped, EndWriteTyped, RereadTyped
     DEF ExecutorStep
<1>2. CASE ~ExecutorStep(w)
  BY <1>2, ClaimTyped, FeedTyped, PutTyped, BeginTyped, LoadTyped, SaveTyped, PauseTyped,
     JudgeTyped, SettleTyped DEF WorkerStep
<1> QED
  BY <1>1, <1>2

\* Agents, approvals and eviction leave workers and commands alone.
LEMMA OthersMove ==
  ASSUME TInv, UNCHANGED <<work, stop, attempt, control>>, StateTyped'
  PROVE  TInv'
<1>1. WorkTyped' /\ StopTyped'
  BY DEF TInv, WorkTyped, StopTyped
<1>2. Prepared'
  BY DEF TInv, Prepared
<1> QED
  BY <1>1, <1>2 DEF TInv

LEMMA AgentTyped == ASSUME TInv, NEW a \in Runs, AgentStep(a) PROVE TInv'
<1> USE DEF AgentStep
<1>1. UNCHANGED <<kind, queue, attempt, files, work, stop, stops, ghosts>>
  OBVIOUS
<1>2. checkpoint' \in {"absent", "pending", "accept", "reject"}
  BY DEF TInv, StateTyped, QueueTyped
<1>3. agent' \in [Runs -> Agent]
  <2>1. agent[a] \in Agent /\ agent \in [Runs -> Agent]
    BY AgentForms DEF TInv, StateTyped, AgentsTyped
  <2>2. \E g \in Agent : agent' = [agent EXCEPT ![a] = g] \/ agent' = agent
    <3>1. CASE UNCHANGED agent
      BY <2>1, <3>1
    <3>2. CASE \E h \in {"none", "sharing", "detached"} : agent' = [agent EXCEPT ![a].helper = h]
      BY <3>2, AgentForms
    <3>4. CASE agent' = [agent EXCEPT ![a] = [@ EXCEPT !.leader = "gone", !.helper = "none"]]
      BY <3>4, AgentForms
    <3>5. ASSUME NEW c \in 0 .. 2, agent' = [agent EXCEPT ![a] = [@ EXCEPT !.leader = "zombie", !.code = c]]
          PROVE  \E g \in Agent : agent' = [agent EXCEPT ![a] = g]
      <4>1. [agent[a] EXCEPT !.leader = "zombie", !.code = c] \in Agent
        BY <2>1, Turned
      <4> QED
        BY <3>5, <4>1
    <3> QED
      BY <3>1, <3>2, <3>4, <3>5
  <2> QED
    BY <2>1, <2>2
<1>4. StateTyped'
  BY <1>1, <1>2, <1>3 DEF TInv, StateTyped, QueueTyped, FilesTyped, AgentsTyped, HistoryTyped, files, ghosts
<1> QED
  BY <1>1, <1>4, OthersMove DEF files

LEMMA OtherTyped == ASSUME TInv, Approve \/ Resolve \/ Evict PROVE TInv'
<1>1. UNCHANGED <<work, stop, attempt, control, result, record, agent, kind, stops, ghosts>>
  BY DEF Approve, Resolve, Evict, files
<1>2. QueueTyped'
  BY DEF Approve, Resolve, Evict, TInv, StateTyped, QueueTyped
<1>3. entry' \in Entry \cup {None}
  BY DEF Approve, Resolve, Evict, TInv, StateTyped, FilesTyped, files
<1>4. StateTyped'
  BY <1>1, <1>2, <1>3 DEF TInv, StateTyped, FilesTyped, AgentsTyped, HistoryTyped, ghosts
<1> QED
  BY <1>1, <1>4, OthersMove

\* The steps of a command.
LEMMA Commanding ==
  ASSUME TInv, NEW s \in Stoppers
  PROVE  /\ StopperGood(stop[s])
         /\ stop[s].pc \in {"mark_write", "signal", "fin_read", "fin_write"} => control \in Control
  BY DEF TInv, StopTyped, Prepared, StateTyped, FilesTyped

\* A command that changes nothing but itself goes to a place where it needs
\* nothing, or has what it needs.
LEMMA OnlyStop ==
  ASSUME TInv, NEW s \in Stoppers, NEW r, Stop(s, r), StopperGood(r),
         UNCHANGED <<StopperOnly, queue, control, entry, record, agent, ghosts>>,
         stops' \in 0 .. MaxStops,
         r.pc \in {"mark_write", "signal", "fin_read", "fin_write"} => control # None
  PROVE  TInv'
<1>1. StateTyped'
  BY DEF TInv, StateTyped, QueueTyped, FilesTyped, AgentsTyped, HistoryTyped, StopperOnly, ghosts
<1> QED
  BY <1>1, StopperMove DEF StopperOnly

Free == {"where", "withdraw", "void_load", "void_save", "void_put", "look", "mark_read", "reload",
         "sync_read", "update"}
LEMMA StopGoesOn ==
  ASSUME NEW r, StopperGood(r), NEW x \in Free
  PROVE  /\ StopperGood([r EXCEPT !.pc = x])
         /\ \A e \in Entry \cup {None} : StopperGood([r EXCEPT !.pc = x, !.entry = e])
         /\ \A c \in Control \cup {None} : StopperGood([r EXCEPT !.pc = x, !.control = c])
         /\ \A v \in Outcomes \cup {"missing_control"} : StopperGood([r EXCEPT !.pc = x, !.res = v])
         /\ [r EXCEPT !.pc = x].pc = x
<1>1. r \in Stopper /\ x \in StopperPCs
  BY Atoms DEF StopperGood, Free
<1>2. \A y \in Stopper : y.pc = x => StopperGood(y)
  BY DEF StopperGood, Free
<1>3. [r EXCEPT !.pc = x] \in Stopper /\ [r EXCEPT !.pc = x].pc = x
  BY <1>1 DEF Stopper
<1>4. ASSUME NEW e \in Entry \cup {None} PROVE StopperGood([r EXCEPT !.pc = x, !.entry = e])
  <2>1. [r EXCEPT !.pc = x, !.entry = e] \in Stopper /\ [r EXCEPT !.pc = x, !.entry = e].pc = x
    BY <1>1 DEF Stopper
  <2> QED
    BY <1>2, <2>1
<1>5. ASSUME NEW c \in Control \cup {None} PROVE StopperGood([r EXCEPT !.pc = x, !.control = c])
  <2>1. [r EXCEPT !.pc = x, !.control = c] \in Stopper /\ [r EXCEPT !.pc = x, !.control = c].pc = x
    BY <1>1 DEF Stopper
  <2> QED
    BY <1>2, <2>1
<1>6. ASSUME NEW v \in Outcomes \cup {"missing_control"} PROVE StopperGood([r EXCEPT !.pc = x, !.res = v])
  <2>1. [r EXCEPT !.pc = x, !.res = v] \in Stopper /\ [r EXCEPT !.pc = x, !.res = v].pc = x
    BY <1>1 DEF Stopper
  <2> QED
    BY <1>2, <2>1
<1> QED
  BY <1>2, <1>3, <1>4, <1>5, <1>6

\* It goes on where nothing is needed, or ends.
LEMMA EasyMove ==
  ASSUME TInv, NEW s \in Stoppers, NEW r, Stop(s, r),
         r = NoCommand \/ \E x \in Free : r = [stop[s] EXCEPT !.pc = x],
         UNCHANGED <<StopperOnly, queue, control, entry, record, agent, ghosts>>, stops' \in 0 .. MaxStops
  PROVE  TInv'
<1>1. CASE r = NoCommand
  BY <1>1, NoCommandGood, OnlyStop DEF NoCommand
<1>2. ASSUME NEW x \in Free, r = [stop[s] EXCEPT !.pc = x]
      PROVE  StopperGood(r) /\ r.pc = x
  BY <1>2, Commanding, StopGoesOn
<1> QED
  BY <1>1, <1>2, OnlyStop DEF Free

LEMMA StopsTyped == TInv => stops \in 0 .. MaxStops
  BY DEF TInv, StateTyped, HistoryTyped

LEMMA CommandTyped == ASSUME TInv, NEW s \in Stoppers, Command(s) PROVE TInv'
<1>1. PICK r : Stop(s, r) /\ \/ \E f \in BOOLEAN : r = [NoCommand EXCEPT !.pc = "look", !.force = f]
                             \/ r = [NoCommand EXCEPT !.pc = "where", !.cmd = "cancel"]
  BY DEF Command
<1>2. NoCommand \in Stopper
  BY NoCommandGood DEF StopperGood
<1>3. r \in Stopper /\ r.pc \in {"look", "where"}
  BY <1>1, <1>2, Atoms DEF Stopper
<1>4. StopperGood(r)
  BY <1>3 DEF StopperGood
<1>5. stops' \in 0 .. MaxStops
  <2>1. stops < MaxStops /\ stops' = stops + 1
    BY DEF Command
  <2>2. stops \in 0 .. MaxStops /\ MaxStops \in Nat
    BY StopsTyped, RunAssumption
  <2> QED
    BY <2>1, <2>2
<1> QED
  BY <1>1, <1>3, <1>4, <1>5, OnlyStop DEF Command

LEMMA WhereTyped == ASSUME TInv, NEW s \in Stoppers, Where(s) PROVE TInv'
<1>1. PICK r : Stop(s, r) /\ (r = NoCommand \/ \E x \in Free : r = [stop[s] EXCEPT !.pc = x])
  BY DEF Where, Free
<1> QED
  BY <1>1, EasyMove, StopsTyped DEF Where

LEMMA WithdrawTyped == ASSUME TInv, NEW s \in Stoppers, Withdraw(s) PROVE TInv'
<1> DEFINE r == [stop[s] EXCEPT !.pc = "void_load"]
<1>1. StopperGood(r) /\ r.pc = "void_load"
  BY Commanding, StopGoesOn DEF Free
<1>2. StateTyped'
  BY DEF Withdraw, TInv, StateTyped, QueueTyped, FilesTyped, AgentsTyped, HistoryTyped, StopperOnly, ghosts
<1>3. Stop(s, r) /\ UNCHANGED <<work, attempt, control>>
  BY DEF Withdraw, StopperOnly
<1> HIDE DEF r
<1> QED
  BY <1>1, <1>2, <1>3, StopperMove

LEMMA VoidLoadTyped == ASSUME TInv, NEW s \in Stoppers, VoidLoad(s) PROVE TInv'
<1> DEFINE r == [stop[s] EXCEPT !.pc = "void_save", !.entry = entry]
<1>1. entry \in Entry \cup {None} /\ stop[s] \in Stopper
  BY Commanding DEF TInv, StateTyped, FilesTyped, StopperGood
<1>2. StopperGood(r) /\ r.pc = "void_save"
  <2>1. StopperGood(r)
    BY <1>1, Commanding, StopGoesOn DEF Free
  <2>2. r.pc = "void_save"
    BY <1>1 DEF Stopper
  <2> QED
    BY <2>1, <2>2
<1>3. Stop(s, r) /\ UNCHANGED <<StopperOnly, queue, control, entry, record, agent, ghosts>> /\ stops' = stops
  BY DEF VoidLoad
<1> HIDE DEF r
<1> QED
  BY <1>2, <1>3, OnlyStop, StopsTyped

LEMMA VoidSaveTyped == ASSUME TInv, NEW s \in Stoppers, VoidSave(s) PROVE TInv'
<1> DEFINE r == [stop[s] EXCEPT !.pc = "void_put", !.entry = None]
<1>1. stop[s] \in Stopper /\ stop[s].entry \in Entry \cup {None}
  BY Commanding DEF StopperGood, Stopper
<1>2. StopperGood(r) /\ r.pc = "void_put"
  <2>1. StopperGood(r)
    BY Commanding, StopGoesOn DEF Free
  <2>2. r.pc = "void_put"
    BY <1>1 DEF Stopper
  <2> QED
    BY <2>1, <2>2
<1>3. entry' \in Entry
  BY <1>1, PersistedTyped DEF VoidSave, TaskStatuses
<1>4. StateTyped'
  BY <1>3 DEF VoidSave, TInv, StateTyped, QueueTyped, FilesTyped, AgentsTyped, HistoryTyped, StopperOnly, ghosts
<1>5. Stop(s, r) /\ UNCHANGED <<work, attempt, control>>
  BY DEF VoidSave, StopperOnly
<1> HIDE DEF r
<1> QED
  BY <1>2, <1>4, <1>5, StopperMove

\* The steps that end a command with a word in the operator job.
LEMMA EndTyped == ASSUME TInv, NEW s \in Stoppers, VoidPut(s) \/ Update(s) PROVE TInv'
<1>1. Stop(s, NoCommand) /\ UNCHANGED <<StopperOnly, queue, control, entry, agent, stops, asked, signalled>>
  BY DEF VoidPut, Update, ghosts
<1>2. record' \in Shown \cup {"cancelling"}
  BY DEF VoidPut, Update, Shown
<1>3. accepted' \in BOOLEAN
  BY DEF VoidPut, Update, TInv, StateTyped, HistoryTyped, ghosts
<1>4. StateTyped'
  BY <1>1, <1>2, <1>3 DEF TInv, StateTyped, QueueTyped, FilesTyped, AgentsTyped, HistoryTyped, StopperOnly
<1> QED
  BY <1>1, <1>4, NoCommandGood, StopperMove DEF StopperOnly, NoCommand

LEMMA LookTyped == ASSUME TInv, NEW s \in Stoppers, Look(s) PROVE TInv'
<1> DEFINE c == [Fresh EXCEPT !.req = TRUE, !.out = "unsupported"]
           u == [stop[s] EXCEPT !.pc = "sync_read", !.res = "unsupported", !.control = c]
<1>1. PICK r : Stop(s, r) /\ (r = NoCommand \/ (\E x \in Free : r = [stop[s] EXCEPT !.pc = x]) \/ r = u)
  BY DEF Look, Free
<1>2. UNCHANGED <<StopperOnly, queue, control, entry, record, agent, stops, ghosts>>
  BY DEF Look
<1>3. StopperGood(u) /\ u.pc = "sync_read"
  <2>1. c \in Control
    BY Atoms DEF Control, Outcomes
  <2>2. stop[s] \in Stopper
    BY Commanding DEF StopperGood
  <2> HIDE DEF c
  <2>3. u \in Stopper /\ u.pc = "sync_read"
    BY <2>1, <2>2, Atoms DEF Stopper, Outcomes
  <2> QED
    BY <2>3 DEF StopperGood
<1>4. CASE r = u
  <2> HIDE DEF u
  <2> QED
    BY <1>1, <1>2, <1>3, <1>4, OnlyStop, StopsTyped
<1>5. CASE r # u
  <2> HIDE DEF u
  <2> QED
    BY <1>1, <1>2, <1>5, EasyMove, StopsTyped
<1> QED
  BY <1>4, <1>5

\* A command takes a copy of the control file, to write it back changed.
LEMMA StopCopies ==
  ASSUME NEW r, StopperGood(r), control \in Control
  PROVE  /\ StopperGood([r EXCEPT !.pc = "mark_write", !.control = control])
         /\ r.pc = "fin_read" => StopperGood([r EXCEPT !.pc = "fin_write", !.control = control])
<1>1. r \in Stopper /\ control # None
  BY NoneAssumption DEF StopperGood
<1>2. StopperGood([r EXCEPT !.pc = "mark_write", !.control = control])
  <2> DEFINE q == [r EXCEPT !.pc = "mark_write", !.control = control]
  <2>1. q \in Stopper /\ q.pc = "mark_write" /\ q.control = control
    BY <1>1, Atoms DEF Stopper
  <2> HIDE DEF q
  <2>2. StopperGood(q)
    BY <1>1, <2>1 DEF StopperGood
  <2> QED
    BY <2>2 DEF q
<1>3. ASSUME r.pc = "fin_read" PROVE StopperGood([r EXCEPT !.pc = "fin_write", !.control = control])
  <2> DEFINE q == [r EXCEPT !.pc = "fin_write", !.control = control]
  <2>1. q \in Stopper /\ q.pc = "fin_write" /\ q.control = control /\ q.res = r.res
    BY <1>1, Atoms DEF Stopper
  <2>2. r.res \in Outcomes
    BY <1>3 DEF StopperGood
  <2> HIDE DEF q
  <2>3. StopperGood(q)
    BY <1>1, <2>1, <2>2 DEF StopperGood
  <2> QED
    BY <2>3 DEF q
<1> QED
  BY <1>2, <1>3

LEMMA MarkReadTyped == ASSUME TInv, NEW s \in Stoppers, MarkRead(s) PROVE TInv'
<1>1. UNCHANGED <<StopperOnly, queue, control, entry, record, agent, stops, ghosts>> /\ stop[s] \in Stopper
  BY Commanding DEF MarkRead, StopperGood
<1>2. CASE control = None
  <2> DEFINE r == [stop[s] EXCEPT !.pc = "reload", !.res = "missing_control"]
  <2>1. StopperGood(r) /\ r.pc = "reload"
    <3>1. StopperGood(r)
      BY Commanding, StopGoesOn DEF Free
    <3>2. r.pc = "reload"
      BY <1>1 DEF Stopper
    <3> QED
      BY <3>1, <3>2
  <2>2. Stop(s, r)
    BY <1>2 DEF MarkRead
  <2> HIDE DEF r
  <2> QED
    BY <1>1, <2>1, <2>2, OnlyStop, StopsTyped
<1>3. CASE control # None
  <2> DEFINE r == [stop[s] EXCEPT !.pc = "mark_write", !.control = control]
  <2>1. control \in Control
    BY <1>3 DEF TInv, StateTyped, FilesTyped
  <2>2. StopperGood(r)
    BY <2>1, Commanding, StopCopies
  <2>3. Stop(s, r)
    BY <1>3 DEF MarkRead
  <2> HIDE DEF r
  <2> QED
    BY <1>1, <1>3, <2>2, <2>3, OnlyStop, StopsTyped
<1> QED
  BY <1>2, <1>3

LEMMA FinReadTyped == ASSUME TInv, NEW s \in Stoppers, FinRead(s) PROVE TInv'
<1> DEFINE r == [stop[s] EXCEPT !.pc = "fin_write", !.control = control]
<1>1. UNCHANGED <<StopperOnly, queue, control, entry, record, agent, stops, ghosts>> /\ stop[s].pc = "fin_read"
      /\ Stop(s, r)
  BY DEF FinRead
<1>2. control \in Control /\ control # None
  BY <1>1, Commanding, NoneAssumption
<1>3. StopperGood(r)
  BY <1>1, <1>2, Commanding, StopCopies
<1> HIDE DEF r
<1> QED
  BY <1>1, <1>2, <1>3, OnlyStop, StopsTyped

LEMMA MarkWriteTyped == ASSUME TInv, NEW s \in Stoppers, MarkWrite(s) PROVE TInv'
<1> DEFINE c == [stop[s].control EXCEPT !.req = TRUE]
           r == [stop[s] EXCEPT !.pc = "signal", !.control = c]
<1>1. stop[s] \in Stopper /\ stop[s].control \in Control
  BY Commanding DEF MarkWrite, StopperGood, Stopper
<1>2. c \in Control /\ c # None
  <2>1. c \in Control
    BY <1>1 DEF Control
  <2> QED
    BY <2>1, NoneAssumption
<1>3. control' = c /\ Stop(s, r) /\ asked' = TRUE
      /\ UNCHANGED <<StopperOnly, queue, entry, record, agent, stops, signalled, accepted>>
  BY DEF MarkWrite
<1> HIDE DEF c
<1>4. r \in Stopper /\ r.pc = "signal" /\ r.control = c
  BY <1>1, <1>2, Atoms DEF Stopper
<1> HIDE DEF r
<1>5. StopperGood(r)
  BY <1>2, <1>4 DEF StopperGood
<1>6. StateTyped'
  BY <1>2, <1>3 DEF TInv, StateTyped, QueueTyped, FilesTyped, AgentsTyped, HistoryTyped, StopperOnly
<1> QED
  BY <1>2, <1>3, <1>5, <1>6, StopperMove DEF StopperOnly

LEMMA SignalTyped == ASSUME TInv, NEW s \in Stoppers, Signal(s) PROVE TInv'
<1> DEFINE a == stop[s].control.pid
<1>1. stop[s].pc = "signal" /\ stop[s] \in Stopper /\ stop[s].control \in Control /\ control \in Control
  BY Commanding DEF Signal, StopperGood, Stopper
<1>2. a \in 0 .. MaxRuns /\ (a # 0 => a \in Runs)
  <2>1. a \in 0 .. MaxRuns
    BY <1>1 DEF Control
  <2> HIDE DEF a
  <2> QED
    BY <2>1, RunAssumption DEF Runs
<1>3. PICK v \in {"requested", "not_running"} : Stop(s, [stop[s] EXCEPT !.pc = "fin_read", !.force = FALSE, !.res = v])
  BY DEF Signal
<1>4. UNCHANGED <<StopperOnly, queue, control, entry, record, stops, asked, accepted>>
  BY DEF Signal
<1> DEFINE r == [stop[s] EXCEPT !.pc = "fin_read", !.force = FALSE, !.res = v]
<1>5. StopperGood(r) /\ r.pc = "fin_read"
  <2>1. v \in Outcomes
    BY DEF Outcomes
  <2>2. r \in Stopper /\ r.pc = "fin_read" /\ r.res = v
    BY <1>1, <2>1, Atoms DEF Stopper
  <2> QED
    BY <2>1, <2>2 DEF StopperGood
<1>6. signalled' \in BOOLEAN
  BY DEF Signal, TInv, StateTyped, HistoryTyped
<1>7. StateTyped'
  <2>1. CASE UNCHANGED agent
    BY <1>4, <1>6, <2>1 DEF TInv, StateTyped, QueueTyped, FilesTyped, AgentsTyped, HistoryTyped, StopperOnly
  <2>2. CASE a # 0 /\ agent' = [agent EXCEPT ![a] = Killed(agent[a])]
    <3>1. a \in Runs /\ Killed(agent[a]) \in Agent
      BY <1>2, <2>2, AgentForms
    <3> HIDE DEF a
    <3> QED
      BY <1>4, <1>6, <2>2, <3>1, AgentSet DEF StopperOnly
  <2>3. UNCHANGED agent \/ (a # 0 /\ agent' = [agent EXCEPT ![a] = Killed(agent[a])])
    BY DEF Signal
  <2> QED
    BY <2>1, <2>2, <2>3
<1>8. control # None
  BY <1>1, NoneAssumption
<1> HIDE DEF r
<1> QED
  BY <1>3, <1>4, <1>5, <1>7, <1>8, StopperMove DEF StopperOnly, r

LEMMA FinWriteTyped == ASSUME TInv, NEW s \in Stoppers, FinWrite(s) PROVE TInv'
<1>1. stop[s].pc = "fin_write" /\ stop[s] \in Stopper /\ stop[s].control \in Control /\ stop[s].res \in Outcomes
  BY Commanding DEF FinWrite, StopperGood, Stopper
<1>2. control' \in Control /\ control' # None
  <2>1. control' \in Control
    BY <1>1 DEF FinWrite, Control
  <2> QED
    BY <2>1, NoneAssumption
<1>3. StopperGood([stop[s] EXCEPT !.pc = "reload"]) /\ [stop[s] EXCEPT !.pc = "reload"].pc = "reload"
  BY Commanding, StopGoesOn DEF Free
<1>4. Stop(s, [stop[s] EXCEPT !.pc = "reload"])
      /\ UNCHANGED <<StopperOnly, queue, entry, record, agent, stops, ghosts>>
  BY DEF FinWrite
<1>5. StateTyped'
  BY <1>2, <1>4 DEF TInv, StateTyped, QueueTyped, FilesTyped, AgentsTyped, HistoryTyped, StopperOnly, ghosts
<1> QED
  BY <1>2, <1>3, <1>4, <1>5, StopperMove DEF StopperOnly

LEMMA ReloadTyped == ASSUME TInv, NEW s \in Stoppers, Reload(s) PROVE TInv'
<1> DEFINE r == [stop[s] EXCEPT !.pc = "sync_read", !.control = control]
<1>1. control \in Control \cup {None} /\ stop[s] \in Stopper
  BY Commanding DEF TInv, StateTyped, FilesTyped, StopperGood
<1>2. StopperGood(r) /\ r.pc = "sync_read"
  <2>1. StopperGood(r)
    BY <1>1, Commanding, StopGoesOn DEF Free
  <2>2. r.pc = "sync_read"
    BY <1>1 DEF Stopper
  <2> QED
    BY <2>1, <2>2
<1>3. Stop(s, r) /\ UNCHANGED <<StopperOnly, queue, control, entry, record, agent, stops, ghosts>>
  BY DEF Reload
<1> HIDE DEF r
<1> QED
  BY <1>2, <1>3, OnlyStop, StopsTyped

LEMMA AfterSyncGood ==
  ASSUME NEW r, StopperGood(r)
  PROVE  StopperGood(AfterSync(r)) /\ AfterSync(r).pc \in {"update", "idle"}
<1> DEFINE q == [r EXCEPT !.pc = "update", !.control = None, !.entry = None]
<1>1. r \in Stopper
  BY DEF StopperGood
<1>2. q \in Stopper /\ q.pc = "update"
  BY <1>1, Atoms DEF Stopper
<1>3. StopperGood(q)
  BY <1>2 DEF StopperGood
<1>4. AfterSync(r) = q \/ AfterSync(r) = NoCommand
  BY DEF AfterSync
<1> HIDE DEF q
<1>5. NoCommand.pc = "idle"
  BY DEF NoCommand
<1> QED
  BY <1>2, <1>3, <1>4, <1>5, NoCommandGood

LEMMA SyncReadTyped == ASSUME TInv, NEW s \in Stoppers, SyncRead(s) PROVE TInv'
<1>1. UNCHANGED <<StopperOnly, queue, control, entry, record, agent, stops, ghosts>>
      /\ StopperGood(stop[s]) /\ stop[s] \in Stopper /\ entry \in Entry \cup {None}
  BY Commanding DEF SyncRead, StopperGood, TInv, StateTyped, FilesTyped
<1>2. CASE entry = None
  BY <1>1, <1>2, AfterSyncGood, OnlyStop, StopsTyped DEF SyncRead
<1>3. CASE entry # None
  <2> DEFINE r == [stop[s] EXCEPT !.pc = "sync_write", !.entry = entry]
  <2>1. r \in Stopper /\ r.pc = "sync_write" /\ r.entry = entry
    BY <1>1, Atoms DEF Stopper
  <2>2. Stop(s, r)
    BY <1>3 DEF SyncRead
  <2> HIDE DEF r
  <2>3. StopperGood(r)
    BY <1>3, <2>1 DEF StopperGood
  <2> QED
    BY <1>1, <2>1, <2>2, <2>3, OnlyStop, StopsTyped
<1> QED
  BY <1>2, <1>3

LEMMA SyncWriteTyped == ASSUME TInv, NEW s \in Stoppers, SyncWrite(s) PROVE TInv'
<1>1. StopperGood(stop[s]) /\ stop[s].entry \in Entry /\ stop[s].control \in Control \cup {None}
  BY Commanding DEF SyncWrite, StopperGood, Stopper
<1>2. entry' \in Entry
  <2>1. CASE stop[s].control = None
    BY <1>1, <2>1 DEF SyncWrite, Synced
  <2>2. CASE stop[s].control # None
    <3>1. stop[s].control.req \in BOOLEAN /\ stop[s].control.out \in Outcomes
      BY <1>1, <2>2 DEF Control
    <3>2. entry' = [stop[s].entry EXCEPT !.req = stop[s].control.req, !.out = stop[s].control.out]
      BY <2>2 DEF SyncWrite, Synced
    <3> QED
      BY <1>1, <3>1, <3>2 DEF Entry
  <2> QED
    BY <2>1, <2>2
<1>3. Stop(s, AfterSync(stop[s])) /\ UNCHANGED <<StopperOnly, queue, control, record, agent, stops, ghosts>>
  BY DEF SyncWrite
<1>4. StateTyped'
  BY <1>2, <1>3 DEF TInv, StateTyped, QueueTyped, FilesTyped, AgentsTyped, HistoryTyped, StopperOnly, ghosts
<1> QED
  BY <1>1, <1>3, <1>4, AfterSyncGood, StopperMove DEF StopperOnly

LEMMA StopperTyped == ASSUME TInv, NEW s \in Stoppers, StopperStep(s) PROVE TInv'
  BY CommandTyped, WhereTyped, WithdrawTyped, VoidLoadTyped, VoidSaveTyped, EndTyped, LookTyped,
     MarkReadTyped, MarkWriteTyped, SignalTyped, FinReadTyped, FinWriteTyped, ReloadTyped,
     SyncReadTyped, SyncWriteTyped DEF StopperStep

LEMMA InitTyped == Init => TInv
<1> SUFFICES ASSUME Init PROVE TInv
  OBVIOUS
<1>1. QueueTyped /\ HistoryTyped
  <2>1. 0 \in 0 .. MaxRuns /\ 0 \in 0 .. MaxStops
    BY RunAssumption
  <2>2. QueueTyped
    BY <2>1 DEF Init, QueueTyped
  <2>3. HistoryTyped
    BY <2>1 DEF Init, HistoryTyped
  <2> QED
    BY <2>2, <2>3
<1>2. FilesTyped
  BY Atoms DEF Init, FilesTyped, Result, Entry, TaskStatuses, Shown
<1>3. AgentsTyped
  <2> DEFINE g == [leader |-> "none", helper |-> "none", code |-> 0]
  <2>1. g \in Agent
    <3>1. 0 \in 0 .. 2
      OBVIOUS
    <3> QED
      BY <3>1 DEF Agent
  <2>2. agent = [a \in Runs |-> g]
    BY DEF Init
  <2> HIDE DEF g
  <2> QED
    BY <2>1, <2>2 DEF AgentsTyped
<1>4. WorkTyped
  BY AtRestGood DEF Init, WorkTyped, WorkerGood
<1>5. StopTyped
  BY NoCommandGood DEF Init, StopTyped, StopperGood
<1>6. Prepared
  BY DEF Init, Prepared, AtRest, NoCommand, Executing
<1> QED
  BY <1>1, <1>2, <1>3, <1>4, <1>5, <1>6 DEF TInv, StateTyped

LEMMA StepTyped == TInv /\ [Next]_vars => TInv'
<1> SUFFICES ASSUME TInv, [Next]_vars PROVE TInv'
  OBVIOUS
<1>1. CASE UNCHANGED vars
  <2>1. UNCHANGED <<work, stop, attempt, control>> /\ StateTyped'
    BY <1>1 DEF vars, files, ghosts, TInv, StateTyped, QueueTyped, FilesTyped, AgentsTyped, HistoryTyped
  <2> QED
    BY <2>1, OthersMove
<1>2. CASE Next
  <2>1. CASE Act
    BY <2>1, WorkerTyped, StopperTyped, AgentTyped, OtherTyped DEF Act
  <2>2. CASE Approve \/ Resolve
    BY <2>2, OtherTyped
  <2> QED
    BY <1>2, <2>1, <2>2 DEF Next
<1> QED
  BY <1>1, <1>2

\* For every instance of the model each variable keeps to its type.
THEOREM TypeCorrect == Spec => []TypeOK
<1>1. Init => TInv /\ overlap \in BOOLEAN
  BY InitTyped DEF Init
<1>2. TInv /\ overlap \in BOOLEAN /\ [Next]_vars => (TInv /\ overlap \in BOOLEAN)'
  <2>1. ASSUME overlap \in BOOLEAN, [Next]_vars PROVE overlap' \in BOOLEAN
    BY <2>1 DEF Next, vars
  <2> QED
    BY <2>1, StepTyped
<1>3. TInv /\ overlap \in BOOLEAN => TypeOK
  BY DEF TInv, StateTyped, QueueTyped, FilesTyped, AgentsTyped, HistoryTyped, WorkTyped, StopTyped,
         TypeOK, Shown
<1> QED
  BY <1>1, <1>2, <1>3, PTL DEF Spec

------------------------------------------------------------------------------
(* One worker has the run *)

\* The item is in the hands of this worker: it has claimed it and neither
\* paused nor settled it yet.
Owns(r) == r.pc # "idle" /\ r.phase # "finished" /\ ~(r.phase = "paused" /\ r.pc \in {"feed", "put"})

PhaseRight(r) ==
  /\ r.pc = "begin" => r.phase = "claimed"
  /\ r.pc \in Executing \cup {"init", "verdict", "settle"} => r.phase = "started"
  /\ r.pc = "pause" => r.phase = "paused"
  /\ r.pc \in {"load", "save"} => r.phase # "claimed"

\* The agent has not ended, or a process that shares its output has not.
Alive(g) == g.leader \in {"up", "zombie"} \/ (g.helper = "sharing" /\ g.leader # "lost")

Phased == \A w \in Workers : PhaseRight(work[w])
OneOwner ==
  /\ \A w \in Workers : Owns(work[w]) => queue = "running"
  /\ \A v, w \in Workers : Owns(work[v]) /\ Owns(work[w]) => v = w

\* An agent that lives is that of the execution some worker is at, and goes as
\* the worker goes on.
AgentPlaced ==
  \A a \in Runs : Alive(agent[a]) =>
    a = attempt /\ \E w \in Workers : work[w].pc \in Executing \ {"spawn"}
AgentEnds ==
  \A w \in Workers :
    /\ work[w].pc = "drain" => agent[attempt].leader \in {"zombie", "gone"}
    /\ work[w].pc \in {"check", "end_read", "end_write", "reread"} =>
         agent[attempt].leader # "up" /\ (agent[attempt].helper = "sharing" => agent[attempt].leader = "lost")

OInv == Phased /\ OneOwner /\ AgentPlaced /\ AgentEnds

\* Where an agent may be alive.
Running == Executing \ {"spawn"}
Past == {"check", "end_read", "end_write", "reread"}
Harmless(g) == g.leader # "up" /\ (g.helper = "sharing" => g.leader = "lost")

LEMMA OwnerAlone ==
  ASSUME OInv, NEW v \in Workers, NEW w \in Workers, Owns(work[w]), v # w
  PROVE  ~Owns(work[v]) /\ work[v].pc \notin Executing \cup {"init", "verdict", "settle"}
<1>1. ~Owns(work[v])
  BY DEF OInv, OneOwner
<1>2. ASSUME work[v].pc \in Executing \cup {"init", "verdict", "settle"} PROVE FALSE
  <2>1. work[v].phase = "started" /\ work[v].pc # "idle"
    BY <1>2 DEF OInv, Phased, PhaseRight, Executing
  <2> QED
    BY <1>1, <2>1 DEF Owns
<1> QED
  BY <1>1, <1>2

\* While the owner of a run is not at its agent, nothing of any agent is alive.
LEMMA NoneAlive ==
  ASSUME OInv, NEW w \in Workers, Owns(work[w]), work[w].pc \notin Running
  PROVE  \A a \in Runs : ~Alive(agent[a])
<1> SUFFICES ASSUME NEW a \in Runs, Alive(agent[a]) PROVE FALSE
  OBVIOUS
<1>1. PICK v \in Workers : work[v].pc \in Running
  BY DEF OInv, AgentPlaced, Running
<1>2. v # w
  BY <1>1
<1> QED
  BY <1>1, <1>2, OwnerAlone DEF Running

\* A worker that does not go near an agent.
LEMMA Elsewhere ==
  ASSUME TInv, OInv, NEW w \in Workers, NEW r, Work(w, r), UNCHANGED <<agent, attempt, queue>>,
         PhaseRight(r), Owns(r) => Owns(work[w]), work[w].pc \notin Running, r.pc \notin Running
  PROVE  OInv'
<1>1. /\ \A v \in Workers : v # w => work'[v] = work[v]
      /\ work'[w] = r
  BY DEF Work, TInv, WorkTyped
<1>2. Phased'
  BY <1>1 DEF OInv, Phased, PhaseRight, Executing
<1>3. OneOwner'
  <2>1. \A v \in Workers : Owns(work'[v]) => Owns(work[v])
    BY <1>1
  <2> QED
    BY <2>1 DEF OInv, OneOwner, Owns
<1>4. AgentPlaced'
  <2> SUFFICES ASSUME NEW a \in Runs, Alive(agent[a])
               PROVE  a = attempt /\ \E v \in Workers : work'[v].pc \in Executing \ {"spawn"}
    BY DEF AgentPlaced, Alive
  <2>1. a = attempt /\ \E v \in Workers : work[v].pc \in Running
    BY DEF OInv, AgentPlaced, Running
  <2> QED
    BY <1>1, <2>1 DEF Running
<1>5. AgentEnds'
  <2> SUFFICES ASSUME NEW v \in Workers
               PROVE  /\ work'[v].pc = "drain" => agent[attempt].leader \in {"zombie", "gone"}
                      /\ work'[v].pc \in Past => Harmless(agent[attempt])
    BY DEF AgentEnds, Past, Harmless
  <2>1. CASE v = w
    BY <1>1, <2>1 DEF Running, Executing, Past
  <2>2. CASE v # w
    BY <1>1, <2>2 DEF OInv, AgentEnds, Past, Harmless
  <2> QED
    BY <2>1, <2>2
<1> QED
  BY <1>2, <1>3, <1>4, <1>5 DEF OInv

\* A worker at its agent, which may turn into something else.
LEMMA AtAgent ==
  ASSUME TInv, OInv, NEW w \in Workers, NEW r, Work(w, r), work[w].pc \in Executing,
         NEW g, agent' = [agent EXCEPT ![attempt] = g], UNCHANGED <<attempt, queue>>,
         PhaseRight(r), Owns(r), Alive(g) => r.pc \in Running,
         r.pc = "drain" => g.leader \in {"zombie", "gone"},
         r.pc \in Past => Harmless(g)
  PROVE  OInv'
<1>1. /\ \A v \in Workers : v # w => work'[v] = work[v]
      /\ work'[w] = r
  BY DEF Work, TInv, WorkTyped
<1>2. attempt \in Runs /\ agent \in [Runs -> Agent]
  BY InHand DEF Executing, TInv, StateTyped, AgentsTyped
<1>3. agent'[attempt] = g /\ \A a \in Runs : a # attempt => agent'[a] = agent[a]
  BY <1>2
<1>4. Owns(work[w])
  BY DEF OInv, Phased, PhaseRight, Owns, Executing
<1>5. Phased'
  BY <1>1 DEF OInv, Phased, PhaseRight, Executing
<1>6. OneOwner'
  <2>1. \A v \in Workers : Owns(work'[v]) => Owns(work[v])
    BY <1>1, <1>4
  <2> QED
    BY <2>1 DEF OInv, OneOwner, Owns
<1>7. AgentPlaced'
  <2> SUFFICES ASSUME NEW a \in Runs, Alive(agent'[a])
               PROVE  a = attempt /\ \E v \in Workers : work'[v].pc \in Executing \ {"spawn"}
    BY DEF AgentPlaced, Alive
  <2>1. a = attempt
    BY <1>3 DEF OInv, AgentPlaced
  <2> QED
    BY <1>1, <1>3, <2>1 DEF Running
<1>8. AgentEnds'
  <2> SUFFICES ASSUME NEW v \in Workers
               PROVE  /\ work'[v].pc = "drain" => agent'[attempt].leader \in {"zombie", "gone"}
                      /\ work'[v].pc \in Past => Harmless(agent'[attempt])
    BY DEF AgentEnds, Past, Harmless
  <2>1. CASE v = w
    BY <1>1, <1>3, <2>1
  <2>2. CASE v # w
    BY <1>1, <1>4, <2>2, OwnerAlone DEF Executing, Past
  <2> QED
    BY <2>1, <2>2
<1> QED
  BY <1>5, <1>6, <1>7, <1>8 DEF OInv

\* A worker takes the run, or lets it go, while no agent is alive.
LEMMA TakesOrLeaves ==
  ASSUME TInv, OInv, NEW w \in Workers, NEW r, Work(w, r), UNCHANGED agent,
         \A a \in Runs : ~Alive(agent[a]),
         \A v \in Workers : v # w => ~Owns(work[v]) /\ work[v].pc \notin Executing,
         PhaseRight(r), r.pc \notin Executing, Owns(r) => queue' = "running"
  PROVE  OInv'
<1>1. /\ \A v \in Workers : v # w => work'[v] = work[v]
      /\ work'[w] = r
  BY DEF Work, TInv, WorkTyped
<1>2. Phased'
  BY <1>1 DEF OInv, Phased, PhaseRight, Executing
<1>3. OneOwner'
  <2>1. \A v \in Workers : Owns(work'[v]) => v = w /\ queue' = "running"
    BY <1>1
  <2> QED
    BY <2>1 DEF OneOwner, Owns
<1>4. AgentPlaced'
  BY DEF AgentPlaced, Alive
<1>5. AgentEnds'
  <2>1. \A v \in Workers : work'[v].pc \notin Executing
    BY <1>1
  <2> QED
    BY <2>1 DEF AgentEnds, Executing
<1> QED
  BY <1>2, <1>3, <1>4, <1>5 DEF OInv

LEMMA WorkRecord ==
  ASSUME TInv, NEW w \in Workers
  PROVE  work[w] \in Worker
  BY InHand DEF WorkerGood

\* The bookkeeping of the worker.
LEMMA FeedOwned == ASSUME TInv, OInv, NEW w \in Workers, Feed(w) PROVE OInv'
<1> DEFINE r == [work[w] EXCEPT !.pc = "put", !.status = Derived(queue, Effective)]
<1>1. r.pc = "put" /\ r.phase = work[w].phase /\ work[w].pc = "feed"
  BY WorkRecord DEF Worker, Feed
<1>2. Work(w, r) /\ UNCHANGED <<agent, attempt, queue>>
  BY DEF Feed, QueueVars
<1> HIDE DEF r
<1> QED
  BY <1>1, <1>2, Elsewhere DEF PhaseRight, Owns, Running, Executing

LEMMA PutOwned == ASSUME TInv, OInv, NEW w \in Workers, Put(w) PROVE OInv'
<1>1. work[w].pc = "put" /\ UNCHANGED <<agent, attempt, queue>> /\ work[w] \in Worker
  BY WorkRecord DEF Put, QueueVars
<1>2. CASE work[w].phase = "claimed"
  <2> DEFINE r == [work[w] EXCEPT !.pc = "begin"]
  <2>1. Work(w, r) /\ r.pc = "begin" /\ r.phase = "claimed"
    BY <1>1, <1>2 DEF Put, Worker
  <2> HIDE DEF r
  <2> QED
    BY <1>1, <1>2, <2>1, Elsewhere DEF PhaseRight, Owns, Running, Executing
<1>3. CASE work[w].phase = "started"
  <2> DEFINE r == [work[w] EXCEPT !.pc = "init"]
  <2>1. Work(w, r) /\ r.pc = "init" /\ r.phase = "started"
    BY <1>1, <1>3 DEF Put, Worker
  <2> HIDE DEF r
  <2> QED
    BY <1>1, <1>3, <2>1, Elsewhere DEF PhaseRight, Owns, Running, Executing
<1>4. CASE work[w].phase \notin {"claimed", "started"}
  <2>1. Work(w, AtRest) /\ AtRest.pc = "idle"
    BY <1>4 DEF Put, AtRest
  <2> QED
    BY <1>1, <2>1, Elsewhere DEF PhaseRight, Owns, Running, Executing
<1> QED
  BY <1>2, <1>3, <1>4

LEMMA BeginOwned == ASSUME TInv, OInv, NEW w \in Workers, Begin(w) PROVE OInv'
<1>1. PICK r : Work(w, r) /\ r \in {[work[w] EXCEPT !.pc = "load", !.phase = "started", !.status = "running"],
                                    [work[w] EXCEPT !.pc = "load", !.phase = "paused", !.status = "pending"]}
  BY DEF Begin
<1>2. r.pc = "load" /\ r.phase \in {"started", "paused"}
  BY <1>1, WorkRecord DEF Worker
<1>3. work[w].pc = "begin" /\ work[w].phase = "claimed" /\ UNCHANGED <<agent, attempt, queue>>
  BY DEF Begin, QueueVars, OInv, Phased, PhaseRight
<1> QED
  BY <1>1, <1>2, <1>3, Elsewhere DEF PhaseRight, Owns, Running, Executing

LEMMA LoadOwned == ASSUME TInv, OInv, NEW w \in Workers, Load(w) PROVE OInv'
<1> DEFINE r == [work[w] EXCEPT !.pc = "save", !.entry = entry]
<1>1. r.pc = "save" /\ r.phase = work[w].phase /\ work[w].pc = "load" /\ work[w].phase # "claimed"
  BY WorkRecord DEF Worker, Load, OInv, Phased, PhaseRight
<1>2. Work(w, r) /\ UNCHANGED <<agent, attempt, queue>>
  BY DEF Load, QueueVars
<1> HIDE DEF r
<1> QED
  BY <1>1, <1>2, Elsewhere DEF PhaseRight, Owns, Running, Executing

LEMMA SaveOwned == ASSUME TInv, OInv, NEW w \in Workers, Save(w) PROVE OInv'
<1> DEFINE r == [work[w] EXCEPT !.entry = None, !.pc = IF work[w].phase = "paused" THEN "pause" ELSE "feed"]
<1>1. work[w].pc = "save" /\ work[w].phase # "claimed" /\ work[w] \in Worker
  BY WorkRecord DEF Save, OInv, Phased, PhaseRight
<1>2. r.pc = (IF work[w].phase = "paused" THEN "pause" ELSE "feed") /\ r.phase = work[w].phase
  BY <1>1 DEF Worker
<1>3. Work(w, r) /\ UNCHANGED <<agent, attempt, queue>>
  BY DEF Save, QueueVars
<1> HIDE DEF r
<1> QED
  BY <1>1, <1>2, <1>3, Elsewhere DEF PhaseRight, Owns, Running, Executing

LEMMA JudgeOwned == ASSUME TInv, OInv, NEW w \in Workers, Judge(w) PROVE OInv'
<1> DEFINE r == [work[w] EXCEPT !.pc = "settle", !.verdict = Effective]
<1>1. r.pc = "settle" /\ r.phase = work[w].phase /\ work[w].pc = "verdict" /\ work[w].phase = "started"
  BY WorkRecord DEF Worker, Judge, OInv, Phased, PhaseRight
<1>2. Work(w, r) /\ UNCHANGED <<agent, attempt, queue>>
  BY DEF Judge, QueueVars
<1> HIDE DEF r
<1> QED
  BY <1>1, <1>2, Elsewhere DEF PhaseRight, Owns, Running, Executing

\* An owner that is at no agent finds none alive and every other worker elsewhere.
LEMMA OwnersView ==
  ASSUME OInv, NEW w \in Workers, Owns(work[w]), work[w].pc \notin Running
  PROVE  /\ \A a \in Runs : ~Alive(agent[a])
         /\ \A v \in Workers : v # w => ~Owns(work[v]) /\ work[v].pc \notin Executing
<1>1. \A a \in Runs : ~Alive(agent[a])
  BY NoneAlive
<1>2. \A v \in Workers : v # w => ~Owns(work[v]) /\ work[v].pc \notin Executing
  BY OwnerAlone
<1> QED
  BY <1>1, <1>2

LEMMA ClaimOwned == ASSUME TInv, OInv, NEW w \in Workers, Claim(w) PROVE OInv'
<1> DEFINE r == [AtRest EXCEPT !.pc = "feed"]
<1>1. queue = "pending" /\ queue' = "running" /\ Work(w, r) /\ UNCHANGED agent
  BY DEF Claim
<1>2. r.pc = "feed"
  BY DEF AtRest
<1>3. \A v \in Workers : ~Owns(work[v]) /\ work[v].pc \notin Executing
  <2> SUFFICES ASSUME NEW v \in Workers PROVE ~Owns(work[v]) /\ work[v].pc \notin Executing
    OBVIOUS
  <2>1. ~Owns(work[v])
    BY <1>1 DEF OInv, OneOwner
  <2> QED
    BY <2>1 DEF OInv, Phased, PhaseRight, Owns, Executing
<1>4. \A a \in Runs : ~Alive(agent[a])
  BY <1>3 DEF OInv, AgentPlaced
<1> HIDE DEF r
<1> QED
  BY <1>1, <1>2, <1>3, <1>4, TakesOrLeaves DEF PhaseRight, Executing

LEMMA PauseOwned == ASSUME TInv, OInv, NEW w \in Workers, Pause(w) PROVE OInv'
<1> DEFINE r == [work[w] EXCEPT !.pc = "feed"]
<1>1. work[w].pc = "pause" /\ work[w].phase = "paused" /\ work[w] \in Worker
  BY WorkRecord DEF Pause, OInv, Phased, PhaseRight
<1>2. r.pc = "feed" /\ r.phase = "paused"
  BY <1>1 DEF Worker
<1>3. Work(w, r) /\ UNCHANGED agent
  BY DEF Pause
<1>4. Owns(work[w]) /\ work[w].pc \notin Running
  BY <1>1 DEF Owns, Running, Executing
<1> HIDE DEF r
<1> QED
  BY <1>2, <1>3, <1>4, OwnersView, TakesOrLeaves DEF PhaseRight, Executing, Owns

LEMMA SettleOwned == ASSUME TInv, OInv, NEW w \in Workers, Settle(w) PROVE OInv'
<1> DEFINE r == [AtRest EXCEPT !.pc = "load", !.phase = "finished",
                    !.status = Settled(work[w], Destination(work[w]))]
<1>1. work[w].pc = "settle" /\ work[w].phase = "started"
  BY DEF Settle, OInv, Phased, PhaseRight
<1>2. r.pc = "load" /\ r.phase = "finished"
  BY DEF AtRest
<1>3. Work(w, r) /\ UNCHANGED agent
  BY DEF Settle
<1>4. Owns(work[w]) /\ work[w].pc \notin Running
  BY <1>1 DEF Owns, Running, Executing
<1> HIDE DEF r
<1> QED
  BY <1>2, <1>3, <1>4, OwnersView, TakesOrLeaves DEF PhaseRight, Executing, Owns

LEMMA InitializeOwned == ASSUME TInv, OInv, NEW w \in Workers, Initialize(w) PROVE OInv'
<1> DEFINE r == [work[w] EXCEPT !.pc = "spawn"]
<1>1. work[w].pc = "init" /\ work[w].phase = "started" /\ work[w] \in Worker
  BY WorkRecord DEF Initialize, OInv, Phased, PhaseRight
<1>2. r.pc = "spawn" /\ r.phase = "started"
  BY <1>1 DEF Worker
<1>3. Work(w, r) /\ UNCHANGED <<agent, attempt, queue>>
  BY DEF Initialize, QueueVars
<1> HIDE DEF r
<1> QED
  BY <1>1, <1>2, <1>3, Elsewhere DEF PhaseRight, Owns, Running, Executing

LEMMA RefuseOwned == ASSUME TInv, OInv, NEW w \in Workers, Refuse(w) PROVE OInv'
<1> DEFINE r == [work[w] EXCEPT !.pc = "verdict", !.code = 1]
<1>1. work[w].pc = "init" /\ work[w].phase = "started" /\ work[w] \in Worker
  BY WorkRecord DEF Refuse, OInv, Phased, PhaseRight
<1>2. r.pc = "verdict" /\ r.phase = "started"
  BY <1>1 DEF Worker
<1>3. Work(w, r) /\ UNCHANGED <<agent, attempt, queue>>
  BY DEF Refuse, QueueVars
<1> HIDE DEF r
<1> QED
  BY <1>1, <1>2, <1>3, Elsewhere DEF PhaseRight, Owns, Running, Executing

\* The steps at an agent.
LEMMA AtWork ==
  ASSUME TInv, OInv, NEW w \in Workers, work[w].pc \in Executing
  PROVE  /\ attempt \in Runs /\ agent[attempt] \in Agent
         /\ work[w] \in Worker /\ work[w].phase = "started"
         /\ agent = [agent EXCEPT ![attempt] = agent[attempt]]
<1>1. attempt \in Runs /\ work[w] \in Worker
  BY InHand, WorkRecord DEF Executing
<1>2. agent[attempt] \in Agent /\ agent = [agent EXCEPT ![attempt] = agent[attempt]]
  BY <1>1, AgentForms DEF TInv, StateTyped, AgentsTyped
<1>3. work[w].phase = "started"
  BY DEF OInv, Phased, PhaseRight
<1> QED
  BY <1>1, <1>2, <1>3

\* Steps that leave agents alone: what they need, the agent has already.
LEMMA AtQuiet ==
  ASSUME TInv, OInv, NEW w \in Workers, NEW r, Work(w, r), work[w].pc \in Running,
         UNCHANGED <<agent, attempt, queue>>, r.pc \in Running, r.phase = "started",
         r.pc = "drain" => work[w].pc = "drain",
         r.pc \in Past => work[w].pc \in Past \/ Harmless(agent[attempt])
  PROVE  OInv'
<1>1. work[w].pc \in Executing
  BY DEF Running
<1>2. agent' = [agent EXCEPT ![attempt] = agent[attempt]]
  BY <1>1, AtWork
<1>3. r.pc = "drain" => agent[attempt].leader \in {"zombie", "gone"}
  BY DEF OInv, AgentEnds
<1>4. r.pc \in Past => Harmless(agent[attempt])
  BY DEF OInv, AgentEnds, Past, Harmless
<1>5. PhaseRight(r) /\ Owns(r)
  BY DEF PhaseRight, Owns, Running, Executing
<1> QED
  BY <1>1, <1>2, <1>3, <1>4, <1>5, AtAgent

LEMMA QuietOwned ==
  ASSUME TInv, OInv, NEW w \in Workers,
         RecordRead(w) \/ RecordWrite(w) \/ EndRead(w) \/ EndWrite(w) \/ Drain(w)
  PROVE  OInv'
<1>1. UNCHANGED <<agent, attempt, queue>> /\ work[w].pc \in {"record_read", "record_write", "end_read", "end_write", "drain"}
  BY DEF RecordRead, RecordWrite, EndRead, EndWrite, Drain, QueueVars
<1>2. work[w] \in Worker /\ work[w].phase = "started" /\ work[w].pc \in Running /\ agent[attempt] \in Agent
  BY <1>1, AtWork DEF Running, Executing
<1>3. PICK r : Work(w, r) /\ \/ RecordRead(w) /\ r = [work[w] EXCEPT !.pc = "record_write", !.control = control]
                             \/ RecordWrite(w) /\ r = [work[w] EXCEPT !.pc = "wait", !.control = None]
                             \/ EndRead(w) /\ r = [work[w] EXCEPT !.pc = "end_write", !.control = control]
                             \/ EndWrite(w) /\ r = [work[w] EXCEPT !.pc = "reread", !.control = None]
                             \/ Drain(w) /\ r = [work[w] EXCEPT !.pc = "check"]
  BY DEF RecordRead, RecordWrite, EndRead, EndWrite, Drain
<1>4. r.phase = "started" /\ r.pc \in {"record_write", "wait", "end_write", "reread", "check"}
  BY <1>2, <1>3 DEF Worker
<1>5. r.pc \in Past => work[w].pc \in Past \/ Drain(w)
  BY <1>2, <1>3 DEF Worker, Past, EndRead, EndWrite
<1>6. Drain(w) => Harmless(agent[attempt])
  BY DEF Drain, OInv, AgentEnds, Harmless
<1> QED
  BY <1>1, <1>2, <1>3, <1>4, <1>5, <1>6, AtQuiet DEF Running, Executing

LEMMA SpawnOwned == ASSUME TInv, OInv, NEW w \in Workers, Spawn(w) PROVE OInv'
<1>1. work[w].pc = "spawn" /\ work[w].pc \in Executing /\ UNCHANGED <<attempt, queue>>
  BY DEF Spawn, Executing, QueueVars
<1>2. attempt \in Runs /\ agent[attempt] \in Agent /\ work[w] \in Worker /\ work[w].phase = "started"
      /\ agent = [agent EXCEPT ![attempt] = agent[attempt]]
  BY <1>1, AtWork
<1>3. Owns(work[w]) /\ ~Alive(agent[attempt])
  BY <1>1, <1>2, NoneAlive DEF Owns, Running
<1>4. CASE /\ agent' = [agent EXCEPT ![attempt].leader = "up"]
           /\ Work(w, [work[w] EXCEPT !.pc = "record_read"])
  <2> DEFINE r == [work[w] EXCEPT !.pc = "record_read"]
             g == [agent[attempt] EXCEPT !.leader = "up"]
  <2>1. Work(w, r) /\ r.pc = "record_read" /\ r.phase = "started" /\ agent' = [agent EXCEPT ![attempt] = g]
    BY <1>2, <1>4 DEF Worker
  <2> HIDE DEF r, g
  <2> QED
    BY <1>1, <2>1, AtAgent DEF PhaseRight, Owns, Running, Executing, Past
<1>5. CASE UNCHANGED agent /\ Work(w, [work[w] EXCEPT !.pc = "check"])
  <2> DEFINE r == [work[w] EXCEPT !.pc = "check"]
  <2>1. Work(w, r) /\ r.pc = "check" /\ r.phase = "started" /\ agent' = [agent EXCEPT ![attempt] = agent[attempt]]
    BY <1>2, <1>5 DEF Worker
  <2>2. Harmless(agent[attempt])
    BY <1>3 DEF Alive, Harmless
  <2> HIDE DEF r
  <2> QED
    BY <1>1, <2>1, <2>2, <1>3, AtAgent DEF PhaseRight, Owns, Running, Executing, Past
<1> QED
  BY <1>4, <1>5 DEF Spawn

LEMMA RecordFailsOwned == ASSUME TInv, OInv, NEW w \in Workers, RecordFails(w) PROVE OInv'
<1> DEFINE r == [work[w] EXCEPT !.pc = "check", !.control = None]
           l == IF agent[attempt].leader = "up" \/ agent[attempt].helper = "sharing" THEN "lost" ELSE "gone"
           g == [agent[attempt] EXCEPT !.leader = l]
<1>1. work[w].pc \in Executing /\ UNCHANGED <<attempt, queue>> /\ Work(w, r)
      /\ agent' = [agent EXCEPT ![attempt] = g]
  BY DEF RecordFails, Executing, QueueVars
<1>2. agent[attempt] \in Agent /\ work[w] \in Worker /\ work[w].phase = "started"
  BY <1>1, AtWork
<1>3. r.pc = "check" /\ r.phase = "started"
  BY <1>2 DEF Worker
<1>4. g.leader = l /\ g.helper = agent[attempt].helper
  BY <1>2 DEF Agent
<1>5. Harmless(g) /\ ~Alive(g)
  BY <1>4 DEF Harmless, Alive
<1> HIDE DEF r, g
<1> QED
  BY <1>1, <1>3, <1>5, AtAgent DEF PhaseRight, Owns, Running, Executing, Past

LEMMA WaitOwned == ASSUME TInv, OInv, NEW w \in Workers, Reap(w) \/ Expire(w) PROVE OInv'
<1>1. work[w].pc \in Executing /\ UNCHANGED <<attempt, queue>>
  BY DEF Reap, Expire, Executing, QueueVars
<1>2. agent[attempt] \in Agent /\ work[w] \in Worker /\ work[w].phase = "started"
  BY <1>1, AtWork
<1>3. PICK c : Work(w, [work[w] EXCEPT !.pc = "drain", !.code = c])
  BY DEF Reap, Expire
<1>4. PICK g : agent' = [agent EXCEPT ![attempt] = g] /\ g \in {[agent[attempt] EXCEPT !.leader = "gone", !.code = 0],
                                                              [agent[attempt] EXCEPT !.leader = "zombie", !.code = 1]}
  BY DEF Reap, Expire
<1> DEFINE r == [work[w] EXCEPT !.pc = "drain", !.code = c]
<1>5. r.pc = "drain" /\ r.phase = "started"
  BY <1>2 DEF Worker
<1>6. g.leader \in {"zombie", "gone"}
  BY <1>2, <1>4 DEF Agent
<1>7. Work(w, r)
  BY <1>3
<1> HIDE DEF r
<1> QED
  BY <1>1, <1>4, <1>5, <1>6, <1>7, AtAgent DEF PhaseRight, Owns, Running, Executing, Past

LEMMA FinishedOwned ==
  ASSUME TInv, OInv, NEW w \in Workers, work[w].pc \in Past, NEW c, NEW o, Finished(w, c, o),
         UNCHANGED <<attempt, queue>>
  PROVE  OInv'
<1> DEFINE r == [work[w] EXCEPT !.pc = "verdict", !.code = c]
<1>1. work[w].pc \in Executing /\ Work(w, r)
  BY DEF Finished, Past, Executing
<1>2. agent[attempt] \in Agent /\ work[w] \in Worker /\ work[w].phase = "started"
      /\ agent = [agent EXCEPT ![attempt] = agent[attempt]]
  BY <1>1, AtWork
<1>3. r.pc = "verdict" /\ r.phase = "started"
  BY <1>2 DEF Worker
<1>4. Harmless(agent[attempt])
  BY DEF OInv, AgentEnds, Past, Harmless
<1> HIDE DEF r
<1>5. CASE agent[attempt].leader # "zombie"
  <2>1. agent' = [agent EXCEPT ![attempt] = agent[attempt]]
    BY <1>2, <1>5 DEF Finished
  <2>2. ~Alive(agent[attempt])
    BY <1>4, <1>5 DEF Harmless, Alive
  <2> QED
    BY <1>1, <1>3, <2>1, <2>2, AtAgent DEF PhaseRight, Owns, Executing, Past
<1>6. CASE agent[attempt].leader = "zombie"
  <2> DEFINE g == [agent[attempt] EXCEPT !.leader = "gone", !.code = 0]
  <2>1. agent' = [agent EXCEPT ![attempt] = g]
    BY <1>6 DEF Finished
  <2>2. g.leader = "gone" /\ g.helper = agent[attempt].helper
    BY <1>2 DEF Agent
  <2>3. ~Alive(g)
    BY <1>4, <1>6, <2>2 DEF Harmless, Alive
  <2> HIDE DEF g
  <2> QED
    BY <1>1, <1>3, <2>1, <2>3, AtAgent DEF PhaseRight, Owns, Executing, Past
<1> QED
  BY <1>5, <1>6

LEMMA CheckOwned == ASSUME TInv, OInv, NEW w \in Workers, Check(w) PROVE OInv'
<1> DEFINE code == IF work[w].code = 0 /\ checkpoint = "pending" THEN 2 ELSE work[w].code
<1>1. work[w].pc = "check" /\ UNCHANGED <<attempt, queue>>
  BY DEF Check, QueueVars
<1>2. CASE control.req
  <2> DEFINE r == [work[w] EXCEPT !.pc = "end_read", !.code = code]
  <2>1. Work(w, r) /\ UNCHANGED agent
    BY <1>2 DEF Check
  <2>2. work[w] \in Worker /\ work[w].phase = "started"
    BY <1>1, AtWork DEF Executing
  <2> HIDE DEF code
  <2>3. r.pc = "end_read" /\ r.phase = "started"
    BY <2>2 DEF Worker
  <2> HIDE DEF r
  <2> QED
    BY <1>1, <2>1, <2>3, AtQuiet DEF Running, Executing, Past
<1>3. CASE ~control.req
  BY <1>1, <1>3, FinishedOwned DEF Check, Past
<1> QED
  BY <1>2, <1>3

LEMMA RereadOwned == ASSUME TInv, OInv, NEW w \in Workers, Reread(w) PROVE OInv'
<1>1. work[w].pc \in Past /\ UNCHANGED <<attempt, queue>> /\ Finished(w, work[w].code, control.out)
  BY DEF Reread, QueueVars, Past
<1> QED
  BY <1>1, FinishedOwned

LEMMA WorkerOwned == ASSUME TInv, OInv, NEW w \in Workers, WorkerStep(w) PROVE OInv'
<1>1. CASE ExecutorStep(w)
  BY <1>1, InitializeOwned, RefuseOwned, SpawnOwned, QuietOwned, RecordFailsOwned, WaitOwned, CheckOwned, RereadOwned
     DEF ExecutorStep
<1>2. CASE ~ExecutorStep(w)
  BY <1>2, ClaimOwned, FeedOwned, PutOwned, BeginOwned, LoadOwned, SaveOwned, PauseOwned,
     JudgeOwned, SettleOwned DEF WorkerStep
<1> QED
  BY <1>1, <1>2

\* What others do to agents only brings them nearer to their end.
Fades(g, h) ==
  /\ Alive(h) => Alive(g)
  /\ g.leader \in {"zombie", "gone"} => h.leader \in {"zombie", "gone"}
  /\ Harmless(g) => Harmless(h)

LEMMA AgentsFade ==
  ASSUME TInv, OInv, UNCHANGED <<work, attempt>>, queue = "running" => queue' = "running",
         \A a \in Runs : Fades(agent[a], agent'[a])
  PROVE  OInv'
<1>1. Phased' /\ OneOwner'
  BY DEF OInv, Phased, OneOwner
<1>2. AgentPlaced'
  BY DEF OInv, AgentPlaced, Fades
<1>3. AgentEnds'
  <2> SUFFICES ASSUME NEW w \in Workers
               PROVE  /\ work[w].pc = "drain" => agent'[attempt].leader \in {"zombie", "gone"}
                      /\ work[w].pc \in Past => Harmless(agent'[attempt])
    BY DEF AgentEnds, Past, Harmless
  <2>1. work[w].pc # "idle" => Fades(agent[attempt], agent'[attempt])
    BY InHand
  <2>2. /\ work[w].pc = "drain" => agent[attempt].leader \in {"zombie", "gone"}
        /\ work[w].pc \in Past => Harmless(agent[attempt])
    BY DEF OInv, AgentEnds, Past, Harmless
  <2> QED
    BY <2>1, <2>2 DEF Fades, Past
<1> QED
  BY <1>1, <1>2, <1>3 DEF OInv

LEMMA OneFades ==
  ASSUME TInv, OInv, UNCHANGED <<work, attempt, queue>>, NEW a \in Runs, NEW g,
         agent' = [agent EXCEPT ![a] = g], Fades(agent[a], g)
  PROVE  OInv'
<1>1. \A b \in Runs : agent'[b] = IF b = a THEN g ELSE agent[b]
  BY DEF TInv, StateTyped, AgentsTyped
<1>2. \A b \in Runs : Fades(agent[b], agent[b])
  BY DEF Fades
<1>3. \A b \in Runs : Fades(agent[b], agent'[b])
  BY <1>1, <1>2
<1> QED
  BY <1>3, AgentsFade

LEMMA NothingMoves ==
  ASSUME TInv, OInv, UNCHANGED <<work, attempt, agent>>, queue = "running" => queue' = "running"
  PROVE  OInv'
<1>1. \A b \in Runs : Fades(agent[b], agent'[b])
  BY DEF Fades
<1> QED
  BY <1>1, AgentsFade

LEMMA AgentOwned == ASSUME TInv, OInv, NEW a \in Runs, AgentStep(a) PROVE OInv'
<1>1. UNCHANGED <<work, attempt, queue>> /\ agent[a] \in Agent
  BY AgentForms DEF AgentStep
<1>2. CASE UNCHANGED agent
  BY <1>1, <1>2, NothingMoves
<1>3. ASSUME NEW h \in {"sharing", "detached"}, agent[a].leader = "up",
             agent' = [agent EXCEPT ![a].helper = h]
      PROVE  OInv'
  <2> DEFINE g == [agent[a] EXCEPT !.helper = h]
  <2>1. g.leader = "up" /\ agent' = [agent EXCEPT ![a] = g]
    BY <1>1, <1>3 DEF Agent
  <2> HIDE DEF g
  <2>2. Fades(agent[a], g)
    BY <1>3, <2>1 DEF Fades, Alive, Harmless
  <2> QED
    BY <1>1, <2>1, <2>2, OneFades
<1>4. ASSUME NEW c \in 0 .. 2, agent[a].leader = "up",
             agent' = [agent EXCEPT ![a] = [@ EXCEPT !.leader = "zombie", !.code = c]]
      PROVE  OInv'
  <2> DEFINE g == [agent[a] EXCEPT !.leader = "zombie", !.code = c]
  <2>1. g.leader = "zombie" /\ agent' = [agent EXCEPT ![a] = g]
    BY <1>1, <1>4 DEF Agent
  <2> HIDE DEF g
  <2>2. Fades(agent[a], g)
    BY <1>4, <2>1 DEF Fades, Alive, Harmless
  <2> QED
    BY <1>1, <2>1, <2>2, OneFades
<1>5. CASE agent' = [agent EXCEPT ![a] = [@ EXCEPT !.leader = "gone", !.helper = "none"]]
  <2> DEFINE g == [agent[a] EXCEPT !.leader = "gone", !.helper = "none"]
  <2>1. g.leader = "gone" /\ g.helper = "none" /\ agent' = [agent EXCEPT ![a] = g]
    BY <1>1, <1>5 DEF Agent
  <2> HIDE DEF g
  <2>2. Fades(agent[a], g)
    BY <2>1 DEF Fades, Alive, Harmless
  <2> QED
    BY <1>1, <2>1, <2>2, OneFades
<1>6. ASSUME NEW h \in {"none", "detached"}, agent' = [agent EXCEPT ![a].helper = h]
      PROVE  OInv'
  <2> DEFINE g == [agent[a] EXCEPT !.helper = h]
  <2>1. g.leader = agent[a].leader /\ g.helper = h /\ agent' = [agent EXCEPT ![a] = g]
    BY <1>1, <1>6 DEF Agent
  <2> HIDE DEF g
  <2>2. Fades(agent[a], g)
    BY <2>1 DEF Fades, Alive, Harmless
  <2> QED
    BY <1>1, <2>1, <2>2, OneFades
<1> QED
  BY <1>2, <1>3, <1>4, <1>5, <1>6 DEF AgentStep

LEMMA SignalOwned == ASSUME TInv, OInv, NEW s \in Stoppers, Signal(s) PROVE OInv'
<1> DEFINE a == stop[s].control.pid
<1>1. UNCHANGED <<work, attempt, queue>>
  BY DEF Signal, StopperOnly
<1>2. UNCHANGED agent \/ (a # 0 /\ agent' = [agent EXCEPT ![a] = Killed(agent[a])])
  BY DEF Signal
<1>3. a \in 0 .. MaxRuns
  BY Commanding DEF Signal, StopperGood, Stopper, Control
<1> HIDE DEF a
<1>4. CASE UNCHANGED agent
  BY <1>1, <1>4, NothingMoves
<1>5. CASE a # 0 /\ agent' = [agent EXCEPT ![a] = Killed(agent[a])]
  <2>1. a \in Runs
    BY <1>3, <1>5, RunAssumption DEF Runs
  <2>2. agent[a] \in Agent
    BY <2>1, AgentForms
  <2>3. /\ Killed(agent[a]).helper = "none"
        /\ Killed(agent[a]).leader = IF agent[a].leader = "up" THEN "zombie"
                                     ELSE IF agent[a].leader = "lost" THEN "gone" ELSE agent[a].leader
    BY <2>2 DEF Killed, Agent
  <2>4. Fades(agent[a], Killed(agent[a]))
    BY <2>3 DEF Fades, Alive, Harmless
  <2> QED
    BY <1>1, <1>5, <2>1, <2>4, OneFades
<1> QED
  BY <1>2, <1>4, <1>5

LEMMA StopperOwned == ASSUME TInv, OInv, NEW s \in Stoppers, StopperStep(s) PROVE OInv'
<1>1. CASE Signal(s)
  BY <1>1, SignalOwned
<1>2. CASE ~Signal(s)
  <2>1. UNCHANGED <<work, attempt, agent>> /\ (queue = "running" => queue' = "running")
    BY <1>2 DEF StopperStep, StopperOnly, Command, Where, Withdraw, VoidLoad, VoidSave, VoidPut, Look,
                MarkRead, MarkWrite, FinRead, FinWrite, Reload, SyncRead, SyncWrite, Update
  <2> QED
    BY <2>1, NothingMoves
<1> QED
  BY <1>1, <1>2

LEMMA StepOwned == TInv /\ OInv /\ [Next]_vars => OInv'
<1> SUFFICES ASSUME TInv, OInv, [Next]_vars PROVE OInv'
  OBVIOUS
<1>1. CASE UNCHANGED vars
  BY <1>1, NothingMoves DEF vars
<1>2. CASE Approve \/ Resolve \/ Evict
  <2>1. UNCHANGED <<work, attempt, agent>> /\ (queue = "running" => queue' = "running")
    BY <1>2 DEF Approve, Resolve, Evict
  <2> QED
    BY <2>1, NothingMoves
<1>3. CASE Act /\ ~Evict
  BY <1>3, WorkerOwned, StopperOwned, AgentOwned DEF Act
<1> QED
  BY <1>1, <1>2, <1>3 DEF Next

LEMMA InitOwned == Init => OInv
<1> SUFFICES ASSUME Init PROVE OInv
  OBVIOUS
<1>1. \A w \in Workers : work[w].pc = "idle"
  BY DEF Init, AtRest
<1>2. \A a \in Runs : agent[a].leader = "none" /\ agent[a].helper = "none"
  BY DEF Init
<1>3. Phased /\ OneOwner
  BY <1>1 DEF Phased, PhaseRight, OneOwner, Owns, Executing
<1>4. AgentPlaced /\ AgentEnds
  BY <1>1, <1>2 DEF AgentPlaced, AgentEnds, Alive
<1> QED
  BY <1>3, <1>4 DEF OInv

\* However stops, cancels, timeouts, errors and approvals fall together, neither an
\* agent that was written down nor a process that shares its output is alive outside
\* its own execution.
THEOREM AgentsConfined == Spec => []NoAgentLeft
<1>1. Init => TInv /\ OInv
  BY InitTyped, InitOwned
<1>2. (TInv /\ OInv) /\ [Next]_vars => (TInv /\ OInv)'
  BY StepTyped, StepOwned
<1>3. TInv /\ OInv => NoAgentLeft
  <2> SUFFICES ASSUME OInv, NEW a \in Runs, Alive(agent[a]) PROVE queue = "running" /\ a = attempt
    BY DEF NoAgentLeft, Alive
  <2>1. a = attempt
    BY DEF OInv, AgentPlaced
  <2>2. PICK w \in Workers : work[w].pc \in Executing
    BY DEF OInv, AgentPlaced
  <2>3. Owns(work[w])
    BY <2>2 DEF OInv, Phased, PhaseRight, Owns, Executing
  <2> QED
    BY <2>1, <2>3 DEF OInv, OneOwner
<1> QED
  BY <1>1, <1>2, <1>3, PTL DEF Spec

------------------------------------------------------------------------------
(* The records follow *)

\* What the operator job and the entry are to say of an item that has left
\* running, and the verdict on the run that brought it there.
RecordOf == [pending |-> "queued", awaiting_approval |-> "queued", done |-> "completed",
             dead_letter |-> "failed", failed |-> "cancelled"]
StatusOf == [pending |-> "pending", awaiting_approval |-> "pending", done |-> "completed",
             dead_letter |-> "failed", failed |-> "killed"]
VerdictFits(v) ==
  /\ queue = "done" => v = "success"
  /\ queue = "dead_letter" => v \notin {"cancelled", "success"}
  /\ queue = "failed" => v = "cancelled"

Shows(status) == entry # None /\ entry.status = status

\* A control file that tells of a stop was told to stop.
ControlSane == control # None /\ control.out = "requested" => control.req

\* The result that execute_job wrote, or that of an earlier execution which it left
\* alone, agrees with its exit code, and with who was stopped.
ResultFits(r) ==
  /\ r.code = 0 <=> result.status = "success"
  /\ result.out # "requested"
  /\ signalled => result.out = "killed"
  /\ result.out = "killed" \/ (control # None /\ control.out = "killed") => asked

Files == (Executing \ {"wait", "drain"}) \cup {"init", "verdict", "settle"}
Early == {"feed", "put", "begin", "load", "save", "pause", "init", "spawn", "record_read", "record_write"}

\* What a worker that has the item knows of the files, and the files of it,
OwnerKnows(r) ==
  /\ r.pc \in Early => ~signalled
  /\ r.pc = "put" => r.status = "running"
  /\ r.pc \in {"load", "save"} => r.status = IF r.phase = "started" THEN "running" ELSE "pending"
  /\ r.pc = "pause" => Shows("pending")
  /\ r.pc \in Files \/ (r.phase = "started" /\ r.pc \in {"feed", "put"}) => Shows("running")
  /\ r.pc \in Files => record \in {"running", "cancelling"}
  /\ r.pc \in {"record_write", "end_write"} => r.control = control
  /\ r.pc \in Executing => (control.req \/ control.out = "killed" => asked)
  /\ r.pc \in {"wait", "drain", "check"} => (signalled => control.req)
  /\ r.pc \in {"end_read", "end_write"} => control.req
  /\ r.pc = "reread" => control.out = "killed"
  /\ r.pc \in {"verdict", "settle"} => ResultFits(r)
  /\ r.pc = "settle" => r.verdict = Effective

\* and one that has let it go.
PartedKnows(r) ==
  /\ queue # "running"
  /\ r.pc \in {"load", "save"} => r.status = StatusOf[queue]
  /\ r.pc \in {"load", "save", "feed"} => VerdictFits(Effective)
  /\ r.pc = "put" => r.status = RecordOf[queue]
  /\ r.pc \in {"feed", "put"} => EntryRight
WorkerKnows(r) == r.pc # "idle" => IF Owns(r) THEN OwnerKnows(r) ELSE PartedKnows(r)

\* What a command knows.
Asking == {"mark_read", "mark_write", "signal", "fin_read", "fin_write", "reload", "sync_read", "sync_write"}
Voiding == {"void_load", "void_save", "void_put"}
StopperKnows(r) ==
  /\ r.pc \in Asking \cup {"look"} /\ r.cmd = "cancel" => queue = "running"
  /\ r.pc = "update" => queue = "running"
  /\ r.pc = "withdraw" => queue \in {"pending", "awaiting_approval", "failed"}
  /\ r.pc \in Voiding => queue = "failed"
  /\ r.pc = "void_put" => entry = None \/ entry.status = "killed"
  /\ r.pc \in Asking => entry # None /\ entry.status \notin Terminal
  /\ r.pc \in {"signal", "fin_read", "fin_write"} => control.req /\ asked
  /\ r.pc = "fin_write" => r.control.req
  /\ r.pc = "sync_write" => r.entry.status = entry.status

\* Nobody but the command on its way to void the job leaves the records behind.
Calm ==
  (\A w \in Workers : ~AtTheFiles(w)) /\ (\A s \in Stoppers : stop[s].pc \notin Voiding)
     => RecordRight /\ EntryRight

Followed ==
  /\ ~Overlapping
  /\ ControlSane
  /\ \A w \in Workers : WorkerKnows(work[w])
  /\ \A s \in Stoppers : StopperKnows(stop[s])
  /\ Calm
RInv == ~overlap => Followed

\* An item that is still to be executed was neither finished nor stopped before, and
\* no command is about to say so.
Ahead(r) == Owns(r) /\ r.pc \notin Executing \cup {"verdict", "settle"}
Reusable == queue \in {"pending", "awaiting_approval"} \/ \E w \in Workers : Ahead(work[w])
Unmarred ==
  /\ result.status # "success" /\ result.out \notin {"requested", "killed"}
  /\ control # None => control.out # "killed"
KeepsOut(r) ==
  /\ r.pc = "mark_write" => (r.control.out = "killed" => control # None /\ control.out = "killed")
  /\ r.pc \in {"fin_read", "fin_write"} => r.res # "killed"
Clean == (Reusable => Unmarred) /\ \A s \in Stoppers : KeepsOut(stop[s])
UInv == ~overlap => Clean

\* A worker at the files is alone with them.
LEMMA AloneAtFiles ==
  ASSUME ~Overlapping, NEW w \in Workers, AtTheFiles(w)
  PROVE  (\A v \in Workers : v # w => work[v].pc = "idle") /\ (\A s \in Stoppers : stop[s].pc = "idle")
  BY DEF Overlapping, AtTheFiles

\* What a step of a worker from the files, or to them, has to show.
LEMMA WorkerFrame ==
  ASSUME TInv, Followed, ~Overlapping', NEW w \in Workers, NEW r, Work(w, r), UNCHANGED stop,
         AtTheFiles(w) \/ r.pc \notin {"idle", "wait", "drain"},
         ControlSane', WorkerKnows(r)',
         r.pc \in {"idle", "wait", "drain"} => (RecordRight /\ EntryRight)'
  PROVE  Followed'
<1>1. work'[w] = r /\ \A v \in Workers : v # w => work'[v] = work[v]
  BY DEF Work, TInv, WorkTyped
<1>2. /\ \A v \in Workers : v # w => work[v].pc = "idle"
      /\ \A s \in Stoppers : stop[s].pc = "idle"
  <2>1. CASE AtTheFiles(w)
    BY <2>1, AloneAtFiles DEF Followed
  <2>2. CASE r.pc \notin {"idle", "wait", "drain"}
    <3>1. AtTheFiles(w)'
      BY <1>1, <2>2 DEF AtTheFiles
    <3>2. \A s \in Stoppers : stop'[s].pc = "idle"
      BY <3>1 DEF Overlapping
    <3>3. \A v \in Workers : v # w => work'[v].pc = "idle"
      BY <1>1, <2>2 DEF Overlapping
    <3> QED BY <1>1, <3>2, <3>3
  <2> QED BY <2>1, <2>2
<1>3. ASSUME NEW v \in Workers PROVE WorkerKnows(work[v])'
  <2>1. CASE v = w
    <3>1. work'[v] = r
      BY <1>1, <2>1
    <3>2. WorkerKnows(r)'
      OBVIOUS
    <3> QED BY <3>1, <3>2 DEF WorkerKnows, OwnerKnows, PartedKnows, Owns, ResultFits
  <2>2. CASE v # w
    <3>1. work'[v].pc = "idle"
      BY <1>1, <1>2, <2>2
    <3> QED BY <3>1 DEF WorkerKnows
  <2> QED BY <2>1, <2>2
<1>4. ASSUME NEW s \in Stoppers PROVE StopperKnows(stop[s])'
  <2>1. stop'[s].pc = "idle"
    BY <1>2
  <2> QED BY <2>1 DEF StopperKnows, Asking, Voiding
<1>5. Calm'
  <2>1. CASE r.pc \in {"idle", "wait", "drain"}
    BY <2>1 DEF Calm
  <2>2. CASE r.pc \notin {"idle", "wait", "drain"}
    <3>1. AtTheFiles(w)'
      BY <1>1, <2>2 DEF AtTheFiles
    <3> QED BY <3>1 DEF Calm
  <2> QED BY <2>1, <2>2
<1> QED
  BY <1>3, <1>4, <1>5 DEF Followed

\* A worker comes to the files.
LEMMA CalmBefore ==
  ASSUME Followed, ~Overlapping', NEW w \in Workers, NEW r, TInv, Work(w, r), UNCHANGED stop,
         ~AtTheFiles(w), r.pc \notin {"idle", "wait", "drain"}
  PROVE  RecordRight /\ EntryRight /\ \A v \in Workers : v # w => work[v].pc = "idle"
<1>1. work'[w] = r /\ \A v \in Workers : v # w => work'[v] = work[v]
  BY DEF Work, TInv, WorkTyped
<1>2. AtTheFiles(w)'
  BY <1>1 DEF AtTheFiles
<1>3. \A s \in Stoppers : stop'[s].pc = "idle"
  BY <1>2 DEF Overlapping
<1>4. \A v \in Workers : v # w => work'[v].pc = "idle"
  BY <1>1, <1>2 DEF Overlapping, AtTheFiles
<1>5. \A v \in Workers : ~AtTheFiles(v)
  BY <1>1, <1>4 DEF AtTheFiles
<1>6. \A s \in Stoppers : stop[s].pc \notin Voiding
  BY <1>3 DEF Voiding
<1> QED
  BY <1>1, <1>4, <1>5, <1>6 DEF Followed, Calm

\* A worker knows that the item is running while it has it.
LEMMA Knowing ==
  ASSUME TInv, OInv, Followed, NEW w \in Workers, work[w].pc # "idle"
  PROVE  /\ work[w] \in Worker /\ PhaseRight(work[w]) /\ WorkerGood(work[w])
         /\ Owns(work[w]) => queue = "running" /\ OwnerKnows(work[w])
         /\ ~Owns(work[w]) => PartedKnows(work[w])
<1>1. WorkerGood(work[w]) /\ work[w] \in Worker
  BY InHand DEF WorkerGood
<1>2. PhaseRight(work[w])
  BY DEF OInv, Phased
<1>3. Owns(work[w]) => queue = "running"
  BY DEF OInv, OneOwner
<1>4. WorkerKnows(work[w])
  BY DEF Followed
<1> QED
  BY <1>1, <1>2, <1>3, <1>4 DEF WorkerKnows

LEMMA FeedFollowed ==
  ASSUME TInv, OInv, Followed, NEW w \in Workers, Feed(w), ~Overlapping' PROVE Followed'
<1>1. PICK r : r = [work[w] EXCEPT !.pc = "put", !.status = Derived(queue, Effective)]
  OBVIOUS
<1>2. work[w].pc = "feed" /\ Work(w, r) /\ UNCHANGED <<stop, queue, files, ghosts, attempt, checkpoint>>
  BY <1>1 DEF Feed, QueueVars, WorkerOnly
<1>3. r.pc = "put" /\ r.phase = work[w].phase /\ r.status = Derived(queue, Effective)
  BY <1>1, <1>2, Knowing DEF Worker
<1>4. ControlSane' /\ Effective' = Effective /\ EntryRight' = EntryRight /\ \A x : Shows(x)' = Shows(x)
  BY <1>2 DEF Followed, ControlSane, Effective, files, EntryRight, Shows
<1>5. CASE Owns(work[w])
  <2>1. queue = "running" /\ OwnerKnows(work[w]) /\ r.phase # "paused"
    BY <1>2, <1>3, <1>5, Knowing DEF Owns
  <2>2. r.status = "running"
    BY <1>3, <2>1 DEF Derived
  <2>3. OwnerKnows(r)'
    BY <1>2, <1>3, <1>4, <2>1, <2>2 DEF OwnerKnows, Early, Files, Executing, ghosts
  <2>4. Owns(r)
    BY <1>2, <1>3, <1>5 DEF Owns
  <2> QED
    BY <1>2, <1>3, <1>4, <2>3, <2>4, WorkerFrame DEF AtTheFiles, WorkerKnows
<1>6. CASE ~Owns(work[w])
  <2>1. PartedKnows(work[w])
    BY <1>2, <1>6, Knowing
  <2>2. queue # "running" /\ VerdictFits(Effective) /\ EntryRight
    BY <1>2, <2>1 DEF PartedKnows
  <2>3. r.status = RecordOf[queue]
    BY <1>3, <2>2 DEF Derived, VerdictFits, RecordOf, TInv, StateTyped, QueueTyped
  <2>4. PartedKnows(r)'
    BY <1>2, <1>3, <1>4, <2>2, <2>3 DEF PartedKnows
  <2>5. ~Owns(r)
    BY <1>2, <1>3, <1>6 DEF Owns
  <2> QED
    BY <1>2, <1>3, <1>4, <2>4, <2>5, WorkerFrame DEF AtTheFiles, WorkerKnows
<1> QED
  BY <1>5, <1>6

\* The steps of a worker outside of an execution.
LEMMA ClaimFollowed ==
  ASSUME TInv, OInv, Followed, NEW w \in Workers, Claim(w), ~Overlapping' PROVE Followed'
<1>1. PICK r : r = [AtRest EXCEPT !.pc = "feed"]
  OBVIOUS
<1>2. Work(w, r) /\ UNCHANGED <<stop, files>> /\ signalled' = FALSE
  BY <1>1 DEF Claim
<1>3. r.pc = "feed" /\ r.phase = "claimed"
  BY <1>1 DEF AtRest
<1>4. ControlSane'
  BY <1>2 DEF Followed, ControlSane, files
<1>5. Owns(r) /\ OwnerKnows(r)'
  BY <1>2, <1>3 DEF Owns, OwnerKnows, Early, Files, Executing
<1> QED
  BY <1>2, <1>3, <1>4, <1>5, WorkerFrame DEF WorkerKnows

LEMMA PutFollowed ==
  ASSUME TInv, OInv, Followed, NEW w \in Workers, Put(w), ~Overlapping' PROVE Followed'
<1>1. work[w].pc = "put" /\ record' = work[w].status
      /\ UNCHANGED <<stop, queue, attempt, checkpoint, control, result, entry, agent, ghosts>>
  BY DEF Put, QueueVars, WorkerOnly
<1>2. work[w] \in Worker /\ AtTheFiles(w) /\ work[w].phase \in {"claimed", "started", "paused", "finished"}
  BY <1>1, Knowing DEF AtTheFiles, Worker
<1>3. ControlSane' /\ EntryRight' = EntryRight /\ \A x : Shows(x)' = Shows(x)
  BY <1>1 DEF Followed, ControlSane, EntryRight, Shows
<1>4. CASE work[w].phase \in {"claimed", "started"}
  <2>1. PICK r : Work(w, r) /\ r = [work[w] EXCEPT !.pc = IF work[w].phase = "claimed" THEN "begin" ELSE "init"]
    BY <1>4 DEF Put
  <2>2. r.pc = (IF work[w].phase = "claimed" THEN "begin" ELSE "init") /\ r.phase = work[w].phase
    BY <1>2, <2>1 DEF Worker
  <2>3. Owns(work[w]) /\ OwnerKnows(work[w])
    BY <1>1, <1>4, Knowing DEF Owns
  <2>4. Owns(r)
    BY <1>4, <2>2 DEF Owns
  <2>5. OwnerKnows(r)'
    BY <1>1, <1>3, <1>4, <2>2, <2>3 DEF OwnerKnows, Early, Files, Executing, ghosts
  <2>6. r.pc \notin {"idle", "wait", "drain"} /\ WorkerKnows(r)'
    BY <2>2, <2>4, <2>5 DEF WorkerKnows
  <2> QED
    BY <1>1, <1>2, <1>3, <2>1, <2>6, WorkerFrame
<1>5. CASE work[w].phase \in {"paused", "finished"}
  <2>1. PICK r : Work(w, r) /\ r = AtRest
    BY <1>5 DEF Put
  <2>2. PartedKnows(work[w])
    BY <1>1, <1>5, Knowing DEF Owns
  <2>3. EntryRight /\ work[w].status = RecordOf[queue] /\ queue # "running"
    BY <1>1, <2>2 DEF PartedKnows
  <2>4. RecordRight'
    BY <1>1, <2>3 DEF RecordRight, RecordOf, TInv, StateTyped, QueueTyped
  <2>5. r.pc = "idle"
    BY <2>1 DEF AtRest
  <2> QED
    BY <1>1, <1>2, <1>3, <2>1, <2>3, <2>4, <2>5, WorkerFrame DEF WorkerKnows
<1> QED
  BY <1>2, <1>4, <1>5

LEMMA BeginFollowed ==
  ASSUME TInv, OInv, Followed, NEW w \in Workers, Begin(w), ~Overlapping' PROVE Followed'
<1>1. work[w].pc = "begin" /\ UNCHANGED <<stop, queue, files, ghosts>>
  BY DEF Begin, QueueVars, WorkerOnly
<1>2. work[w] \in Worker /\ AtTheFiles(w) /\ Owns(work[w])
  BY <1>1, Knowing DEF AtTheFiles, PhaseRight, Owns
<1>3. PICK r : Work(w, r) /\ r \in {[work[w] EXCEPT !.pc = "load", !.phase = "started", !.status = "running"],
                                    [work[w] EXCEPT !.pc = "load", !.phase = "paused", !.status = "pending"]}
  BY DEF Begin
<1>4. r.pc = "load" /\ ((r.phase = "started" /\ r.status = "running") \/ (r.phase = "paused" /\ r.status = "pending"))
  BY <1>2, <1>3 DEF Worker
<1>5. ControlSane'
  BY <1>1 DEF Followed, ControlSane, files
<1>6. ~signalled
  BY <1>1, <1>2, Knowing DEF OwnerKnows, Early
<1>7. Owns(r) /\ OwnerKnows(r)'
  BY <1>1, <1>4, <1>6 DEF Owns, OwnerKnows, Early, Files, Executing, ghosts
<1> QED
  BY <1>1, <1>2, <1>3, <1>4, <1>5, <1>7, WorkerFrame DEF WorkerKnows

LEMMA LoadFollowed ==
  ASSUME TInv, OInv, Followed, NEW w \in Workers, Load(w), ~Overlapping' PROVE Followed'
<1>1. work[w].pc = "load" /\ UNCHANGED <<stop, queue, files, ghosts>>
  BY DEF Load, QueueVars, WorkerOnly
<1>2. work[w] \in Worker /\ AtTheFiles(w)
  BY <1>1, Knowing DEF AtTheFiles
<1>3. PICK r : r = [work[w] EXCEPT !.pc = "save", !.entry = entry]
  OBVIOUS
<1>4. Work(w, r)
  BY <1>3 DEF Load
<1>5. r.pc = "save" /\ r.phase = work[w].phase /\ r.status = work[w].status
  BY <1>2, <1>3 DEF Worker
<1>6. ControlSane' /\ Effective' = Effective
  BY <1>1 DEF Followed, ControlSane, files, Effective
<1>7. CASE Owns(work[w])
  <2>1. OwnerKnows(work[w])
    BY <1>1, <1>7, Knowing
  <2>2. Owns(r) /\ OwnerKnows(r)'
    BY <1>1, <1>5, <1>7, <2>1 DEF Owns, OwnerKnows, Early, Files, Executing, ghosts
  <2> QED
    BY <1>1, <1>2, <1>4, <1>5, <1>6, <2>2, WorkerFrame DEF WorkerKnows
<1>8. CASE ~Owns(work[w])
  <2>1. PartedKnows(work[w])
    BY <1>1, <1>8, Knowing
  <2>2. ~Owns(r) /\ PartedKnows(r)'
    BY <1>1, <1>5, <1>6, <1>8, <2>1 DEF Owns, PartedKnows, VerdictFits
  <2> QED
    BY <1>1, <1>2, <1>4, <1>5, <1>6, <2>2, WorkerFrame DEF WorkerKnows
<1> QED
  BY <1>7, <1>8

LEMMA SaveFollowed ==
  ASSUME TInv, OInv, Followed, NEW w \in Workers, Save(w), ~Overlapping' PROVE Followed'
<1>1. work[w].pc = "save" /\ UNCHANGED <<stop, queue, checkpoint, control, result, record, ghosts>>
  BY DEF Save, QueueVars, WorkerOnly
<1>2. work[w] \in Worker /\ AtTheFiles(w) /\ WorkerGood(work[w]) /\ work[w].phase # "claimed"
  BY <1>1, Knowing DEF AtTheFiles, PhaseRight
<1>3. PICK r : Work(w, r) /\ r = [work[w] EXCEPT !.entry = None,
                                    !.pc = IF work[w].phase = "paused" THEN "pause" ELSE "feed"]
  BY DEF Save
<1>4. r.pc = (IF work[w].phase = "paused" THEN "pause" ELSE "feed") /\ r.phase = work[w].phase
  BY <1>2, <1>3 DEF Worker
<1>5. ControlSane' /\ Effective' = Effective
  BY <1>1 DEF Followed, ControlSane, Effective
<1>6. entry' # None /\ entry'.status = work[w].status
  <2> DEFINE told == work[w].status \in {"completed", "failed"}
  <2>1. entry' = Persisted(work[w].entry, work[w].status, told)
    BY DEF Save
  <2>2. work[w].status \in TaskStatuses /\ work[w].entry \in Entry \cup {None} /\ told \in BOOLEAN
    BY <1>1, <1>2 DEF WorkerGood, Worker
  <2> HIDE DEF told
  <2>3. entry' \in Entry
    BY <2>1, <2>2, PersistedTyped
  <2>4. entry'.status = work[w].status
    BY <2>1 DEF Persisted
  <2> QED BY <2>3, <2>4, NoneAssumption
<1>7. CASE Owns(work[w])
  <2>1. OwnerKnows(work[w])
    BY <1>1, <1>7, Knowing
  <2>2. Owns(r) /\ OwnerKnows(r)'
    BY <1>1, <1>4, <1>6, <1>7, <2>1 DEF Owns, OwnerKnows, Early, Files, Executing, ghosts, Shows
  <2>3. r.pc \notin {"idle", "wait", "drain"} /\ WorkerKnows(r)'
    BY <1>4, <2>2 DEF WorkerKnows
  <2> QED
    BY <1>1, <1>2, <1>3, <1>5, <2>3, WorkerFrame
<1>8. CASE ~Owns(work[w])
  <2>1. PartedKnows(work[w]) /\ work[w].phase = "finished"
    BY <1>1, <1>2, <1>8, Knowing DEF Owns, Worker
  <2>2. queue # "running" /\ entry'.status = StatusOf[queue] /\ VerdictFits(Effective)
    BY <1>1, <1>6, <2>1 DEF PartedKnows
  <2>3. EntryRight'
    BY <1>1, <1>6, <2>2 DEF EntryRight, StatusOf, TInv, StateTyped, QueueTyped
  <2>4. ~Owns(r) /\ PartedKnows(r)'
    BY <1>1, <1>4, <1>5, <2>1, <2>2, <2>3 DEF Owns, PartedKnows, VerdictFits
  <2>5. r.pc \notin {"idle", "wait", "drain"} /\ WorkerKnows(r)'
    BY <1>4, <2>4 DEF WorkerKnows
  <2> QED
    BY <1>1, <1>2, <1>3, <1>5, <2>5, WorkerFrame
<1> QED
  BY <1>7, <1>8

LEMMA PauseFollowed ==
  ASSUME TInv, OInv, Followed, NEW w \in Workers, Pause(w), ~Overlapping' PROVE Followed'
<1>1. work[w].pc = "pause" /\ UNCHANGED <<stop, files, ghosts>> /\ queue' = "awaiting_approval"
  BY DEF Pause, WorkerOnly
<1>2. work[w] \in Worker /\ AtTheFiles(w) /\ work[w].phase = "paused" /\ Owns(work[w])
  BY <1>1, Knowing DEF AtTheFiles, PhaseRight, Owns
<1>3. PICK r : Work(w, r) /\ r = [work[w] EXCEPT !.pc = "feed"]
  BY DEF Pause
<1>4. r.pc = "feed" /\ r.phase = "paused"
  BY <1>2, <1>3 DEF Worker
<1>5. ControlSane'
  BY <1>1 DEF Followed, ControlSane, files
<1>6. Shows("pending")
  BY <1>1, <1>2, Knowing DEF OwnerKnows
<1>7. ~Owns(r) /\ PartedKnows(r)'
  BY <1>1, <1>4, <1>6 DEF Owns, PartedKnows, VerdictFits, EntryRight, Shows, files
<1> QED
  BY <1>1, <1>2, <1>3, <1>4, <1>5, <1>7, WorkerFrame DEF WorkerKnows

LEMMA JudgeFollowed ==
  ASSUME TInv, OInv, Followed, NEW w \in Workers, Judge(w), ~Overlapping' PROVE Followed'
<1>1. work[w].pc = "verdict" /\ UNCHANGED <<stop, queue, files, ghosts>>
  BY DEF Judge, QueueVars, WorkerOnly
<1>2. work[w] \in Worker /\ AtTheFiles(w) /\ work[w].phase = "started" /\ Owns(work[w])
  BY <1>1, Knowing DEF AtTheFiles, PhaseRight, Owns
<1>3. PICK r : r = [work[w] EXCEPT !.pc = "settle", !.verdict = Effective]
  OBVIOUS
<1>4. Work(w, r)
  BY <1>3 DEF Judge
<1>5. r.pc = "settle" /\ r.phase = "started" /\ r.code = work[w].code /\ r.verdict = Effective
  BY <1>2, <1>3 DEF Worker
<1>6. ControlSane' /\ Effective' = Effective /\ \A x : Shows(x)' = Shows(x)
  BY <1>1 DEF Followed, ControlSane, files, Effective, Shows
<1>7. OwnerKnows(work[w])
  BY <1>1, <1>2, Knowing
<1>8. ResultFits(work[w]) /\ Shows("running") /\ record \in {"running", "cancelling"}
  BY <1>1, <1>7 DEF OwnerKnows, Files
<1>9. ResultFits(r)'
  BY <1>1, <1>5, <1>8 DEF ResultFits, files, ghosts
<1>10. Owns(r) /\ OwnerKnows(r)'
  BY <1>1, <1>5, <1>6, <1>8, <1>9 DEF Owns, OwnerKnows, Early, Files, Executing, files
<1> QED
  BY <1>1, <1>2, <1>4, <1>5, <1>6, <1>10, WorkerFrame DEF WorkerKnows

\* The verdict on a run whose result fits its exit code.
LEMMA VerdictsRight ==
  ASSUME NEW r, ResultFits(r), signalled \in BOOLEAN, asked \in BOOLEAN, result \in Result
  PROVE  /\ signalled => Effective = "cancelled"
         /\ Effective = "cancelled" => asked
         /\ Effective # "cancelled" => (r.code = 0 <=> Effective = "success")
         /\ Effective # "cancelled" /\ r.code # 0 => Unmarred
<1>1. result.status # "cancelled" /\ (r.code = 0 <=> result.status = "success")
  BY DEF ResultFits, Result
<1> QED
  BY <1>1 DEF ResultFits, Effective, Unmarred

LEMMA SettleFollowed ==
  ASSUME TInv, OInv, Followed, NEW w \in Workers, Settle(w), ~Overlapping' PROVE Followed'
<1> DEFINE dest == Destination(work[w])
<1>1. work[w].pc = "settle" /\ UNCHANGED <<stop, files, ghosts>> /\ queue' = dest
  BY DEF Settle, WorkerOnly
<1>2. work[w] \in Worker /\ AtTheFiles(w) /\ work[w].phase = "started" /\ Owns(work[w])
  BY <1>1, Knowing DEF AtTheFiles, PhaseRight, Owns
<1>3. PICK r : r = [AtRest EXCEPT !.pc = "load", !.phase = "finished", !.status = Settled(work[w], dest)]
  OBVIOUS
<1>4. Work(w, r)
  BY <1>3 DEF Settle
<1>5. r.pc = "load" /\ r.phase = "finished" /\ r.status = Settled(work[w], dest)
  BY <1>3 DEF AtRest
<1>6. ControlSane' /\ Effective' = Effective
  BY <1>1 DEF Followed, ControlSane, files, Effective
<1>7. OwnerKnows(work[w])
  BY <1>1, <1>2, Knowing
<1>8. work[w].verdict = Effective /\ (Effective # "cancelled" => (work[w].code = 0 <=> Effective = "success"))
  BY <1>1, <1>7, VerdictsRight DEF OwnerKnows, TInv, StateTyped, HistoryTyped, FilesTyped
<1>9. /\ dest \in {"pending", "awaiting_approval", "done", "failed", "dead_letter"}
      /\ dest = "done" => Effective = "success"
      /\ dest = "dead_letter" => Effective \notin {"cancelled", "success"}
      /\ dest = "failed" <=> Effective = "cancelled"
  BY <1>8 DEF Destination
<1>10. Settled(work[w], dest) = StatusOf[dest]
  BY <1>8, <1>9 DEF Settled, StatusOf
<1>11. ~Owns(r) /\ PartedKnows(r)'
  BY <1>1, <1>5, <1>6, <1>9, <1>10 DEF Owns, PartedKnows, VerdictFits
<1> QED
  BY <1>1, <1>2, <1>4, <1>5, <1>6, <1>11, WorkerFrame DEF WorkerKnows

\* What does not concern the files of a run.
LEMMA SameFiles ==
  ASSUME UNCHANGED <<control, entry>>
  PROVE  (ControlSane => ControlSane') /\ (\A x : Shows(x)' = Shows(x))
  BY DEF ControlSane, Shows

\* An execution has the item.
LEMMA ExecutorKnows ==
  ASSUME TInv, OInv, Followed, NEW w \in Workers, work[w].pc \in Executing \cup {"init"}
  PROVE  /\ work[w] \in Worker /\ WorkerGood(work[w]) /\ work[w].phase = "started"
         /\ Owns(work[w]) /\ OwnerKnows(work[w]) /\ queue = "running"
         /\ work[w].pc \notin {"wait", "drain"} =>
              AtTheFiles(w) /\ Shows("running") /\ record \in {"running", "cancelling"}
<1>1. work[w].pc # "idle" /\ work[w].phase = "started"
  BY DEF OInv, Phased, PhaseRight, Executing
<1>2. Owns(work[w])
  BY <1>1 DEF Owns, Executing
<1>3. work[w] \in Worker /\ WorkerGood(work[w]) /\ OwnerKnows(work[w]) /\ queue = "running"
  BY <1>1, <1>2, Knowing
<1> QED
  BY <1>1, <1>2, <1>3 DEF OwnerKnows, Files, AtTheFiles, Executing

LEMMA InitializeFollowed ==
  ASSUME TInv, OInv, Followed, NEW w \in Workers, Initialize(w), ~Overlapping' PROVE Followed'
<1>1. work[w].pc = "init" /\ UNCHANGED <<stop, queue, entry, record, ghosts>> /\ control' = Fresh
  BY DEF Initialize, QueueVars, WorkerOnly
<1>2. /\ work[w] \in Worker /\ AtTheFiles(w) /\ work[w].phase = "started" /\ Shows("running")
      /\ record \in {"running", "cancelling"} /\ ~signalled
  BY <1>1, ExecutorKnows DEF OwnerKnows, Early
<1>3. PICK r : Work(w, r) /\ r = [work[w] EXCEPT !.pc = "spawn"]
  BY DEF Initialize
<1>4. r.pc = "spawn" /\ r.phase = "started"
  BY <1>2, <1>3 DEF Worker
<1>5. ~Fresh.req /\ Fresh.out \notin {"requested", "killed"}
  BY NoneAssumption DEF Fresh
<1>6. ControlSane'
  BY <1>1, <1>5 DEF ControlSane
<1>7. Owns(r) /\ OwnerKnows(r)'
  BY <1>1, <1>2, <1>4, <1>5 DEF Owns, OwnerKnows, Early, Files, Executing, Shows, ghosts
<1> QED
  BY <1>1, <1>2, <1>3, <1>4, <1>6, <1>7, WorkerFrame DEF WorkerKnows

LEMMA RefuseFollowed ==
  ASSUME TInv, OInv, Followed, Clean, NEW w \in Workers, Refuse(w), ~Overlapping' PROVE Followed'
<1>1. work[w].pc = "init" /\ UNCHANGED <<stop, queue, files, ghosts>>
  BY DEF Refuse, QueueVars, WorkerOnly
<1>2. /\ work[w] \in Worker /\ AtTheFiles(w) /\ work[w].phase = "started" /\ Shows("running") /\ Owns(work[w])
      /\ record \in {"running", "cancelling"} /\ ~signalled
  BY <1>1, ExecutorKnows DEF OwnerKnows, Early
<1>3. PICK r : Work(w, r) /\ r = [work[w] EXCEPT !.pc = "verdict", !.code = 1]
  BY DEF Refuse
<1>4. r.pc = "verdict" /\ r.phase = "started" /\ r.code = 1
  BY <1>2, <1>3 DEF Worker
<1>5. Unmarred
  BY <1>1, <1>2 DEF Clean, Reusable, Ahead, Executing
<1>6. ControlSane' /\ Shows("running")'
  BY <1>1, <1>2, SameFiles DEF Followed, files
<1>7. ResultFits(r)'
  BY <1>1, <1>2, <1>4, <1>5 DEF ResultFits, Unmarred, files, ghosts
<1>8. Owns(r) /\ OwnerKnows(r)'
  BY <1>1, <1>2, <1>4, <1>6, <1>7 DEF Owns, OwnerKnows, Early, Files, Executing, files, ghosts
<1> QED
  BY <1>1, <1>2, <1>3, <1>4, <1>6, <1>8, WorkerFrame DEF WorkerKnows

\* A step of an execution that leaves the files alone and goes to another place
\* at them.
LEMMA ExecutorGoes ==
  ASSUME TInv, OInv, Followed, ~Overlapping', NEW w \in Workers, work[w].pc \in Executing \ {"wait", "drain"},
         NEW r, Work(w, r), r.phase = "started", UNCHANGED <<stop, control, entry, record, ghosts>>,
         r.pc \in {"record_read", "record_write", "check", "end_read", "end_write"},
         r.pc \in {"record_read", "record_write", "check"} => ~signalled,
         r.pc \in {"record_write", "end_write"} => r.control = control,
         r.pc \in {"end_read", "end_write"} => control.req
  PROVE  Followed'
<1>1. OwnerKnows(work[w]) /\ AtTheFiles(w) /\ Shows("running") /\ record \in {"running", "cancelling"}
  BY ExecutorKnows
<1>2. control.req \/ control.out = "killed" => asked
  BY <1>1 DEF OwnerKnows
<1>3. ControlSane' /\ Shows("running")'
  BY <1>1, SameFiles DEF Followed
<1>4. Owns(r) /\ OwnerKnows(r)'
  BY <1>1, <1>2, <1>3 DEF Owns, OwnerKnows, Early, Files, Executing, ghosts
<1> QED
  BY <1>1, <1>3, <1>4, WorkerFrame DEF WorkerKnows

LEMMA SpawnFollowed ==
  ASSUME TInv, OInv, Followed, NEW w \in Workers, Spawn(w), ~Overlapping' PROVE Followed'
<1>1. work[w].pc = "spawn" /\ UNCHANGED <<stop, control, entry, record, ghosts>>
  BY DEF Spawn, QueueVars, WorkerOnly, files
<1>2. work[w] \in Worker /\ work[w].phase = "started" /\ ~signalled
  BY <1>1, ExecutorKnows DEF OwnerKnows, Early, Executing
<1>3. PICK r : Work(w, r) /\ r \in {[work[w] EXCEPT !.pc = "record_read"], [work[w] EXCEPT !.pc = "check"]}
  BY DEF Spawn
<1>4. r.pc \in {"record_read", "check"} /\ r.phase = "started"
  BY <1>2, <1>3 DEF Worker
<1> QED
  BY <1>1, <1>2, <1>3, <1>4, ExecutorGoes DEF Executing

LEMMA RecordReadFollowed ==
  ASSUME TInv, OInv, Followed, NEW w \in Workers, RecordRead(w), ~Overlapping' PROVE Followed'
<1>1. work[w].pc = "record_read" /\ UNCHANGED <<stop, control, entry, record, ghosts>>
  BY DEF RecordRead, QueueVars, WorkerOnly, files
<1>2. work[w] \in Worker /\ work[w].phase = "started" /\ ~signalled
  BY <1>1, ExecutorKnows DEF OwnerKnows, Early, Executing
<1>3. PICK r : r = [work[w] EXCEPT !.pc = "record_write", !.control = control]
  OBVIOUS
<1>4. Work(w, r)
  BY <1>3 DEF RecordRead
<1>5. r.pc = "record_write" /\ r.phase = "started" /\ r.control = control
  BY <1>2, <1>3 DEF Worker
<1> QED
  BY <1>1, <1>2, <1>4, <1>5, ExecutorGoes DEF Executing

LEMMA RecordFailsFollowed ==
  ASSUME TInv, OInv, Followed, NEW w \in Workers, RecordFails(w), ~Overlapping' PROVE Followed'
<1>1. work[w].pc = "record_write" /\ UNCHANGED <<stop, control, entry, record, ghosts>>
  BY DEF RecordFails, QueueVars, WorkerOnly, files
<1>2. work[w] \in Worker /\ work[w].phase = "started" /\ ~signalled
  BY <1>1, ExecutorKnows DEF OwnerKnows, Early, Executing
<1>3. PICK r : Work(w, r) /\ r = [work[w] EXCEPT !.pc = "check", !.control = None]
  BY DEF RecordFails
<1>4. r.pc = "check" /\ r.phase = "started"
  BY <1>2, <1>3 DEF Worker
<1> QED
  BY <1>1, <1>2, <1>3, <1>4, ExecutorGoes DEF Executing

LEMMA EndReadFollowed ==
  ASSUME TInv, OInv, Followed, NEW w \in Workers, EndRead(w), ~Overlapping' PROVE Followed'
<1>1. work[w].pc = "end_read" /\ UNCHANGED <<stop, control, entry, record, ghosts>>
  BY DEF EndRead, QueueVars, WorkerOnly, files
<1>2. work[w] \in Worker /\ work[w].phase = "started" /\ control.req
  BY <1>1, ExecutorKnows DEF OwnerKnows, Executing
<1>3. PICK r : r = [work[w] EXCEPT !.pc = "end_write", !.control = control]
  OBVIOUS
<1>4. Work(w, r)
  BY <1>3 DEF EndRead
<1>5. r.pc = "end_write" /\ r.phase = "started" /\ r.control = control
  BY <1>2, <1>3 DEF Worker
<1> QED
  BY <1>1, <1>2, <1>4, <1>5, ExecutorGoes DEF Executing

\* The control file that a worker writes back is the one it has read.
LEMMA WrittenBack ==
  ASSUME TInv, OInv, Followed, NEW w \in Workers, work[w].pc \in {"record_write", "end_write"}
  PROVE  work[w].control = control /\ control \in Control /\ (control.out = "requested" => control.req)
         /\ (control.req \/ control.out = "killed" => asked)
<1>1. OwnerKnows(work[w]) /\ work[w].pc \in Executing
  BY ExecutorKnows DEF Executing
<1>2. control \in Control
  BY <1>1, InHand
<1> QED
  BY <1>1, <1>2, NoneAssumption DEF OwnerKnows, Followed, ControlSane

LEMMA RecordWriteFollowed ==
  ASSUME TInv, OInv, Followed, NEW w \in Workers, RecordWrite(w), ~Overlapping' PROVE Followed'
<1>1. work[w].pc = "record_write" /\ UNCHANGED <<stop, queue, checkpoint, entry, record, ghosts>>
      /\ control' = [work[w].control EXCEPT !.pid = attempt]
  BY DEF RecordWrite, QueueVars, WorkerOnly
<1>2. /\ work[w] \in Worker /\ AtTheFiles(w) /\ work[w].phase = "started" /\ Shows("running") /\ queue = "running"
      /\ record \in {"running", "cancelling"} /\ ~signalled
  BY <1>1, ExecutorKnows DEF OwnerKnows, Early, Executing
<1>3. PICK r : Work(w, r) /\ r = [work[w] EXCEPT !.pc = "wait", !.control = None]
  BY DEF RecordWrite
<1>4. r.pc = "wait" /\ r.phase = "started"
  BY <1>2, <1>3 DEF Worker
<1>5. control'.req = control.req /\ control'.out = control.out
  BY <1>1, WrittenBack DEF Control
<1>6. ControlSane'
  BY <1>1, <1>5, WrittenBack DEF ControlSane
<1>7. Owns(r) /\ OwnerKnows(r)'
  BY <1>1, <1>2, <1>4, <1>5, WrittenBack DEF Owns, OwnerKnows, Early, Files, Executing, ghosts
<1>8. (RecordRight /\ EntryRight)'
  BY <1>1, <1>2 DEF RecordRight, EntryRight, Shows
<1> QED
  BY <1>1, <1>2, <1>3, <1>4, <1>6, <1>7, <1>8, WorkerFrame DEF WorkerKnows

LEMMA EndWriteFollowed ==
  ASSUME TInv, OInv, Followed, NEW w \in Workers, EndWrite(w), ~Overlapping' PROVE Followed'
<1>1. work[w].pc = "end_write" /\ UNCHANGED <<stop, queue, entry, record, ghosts>>
      /\ control' = [work[w].control EXCEPT !.out = "killed"]
  BY DEF EndWrite, QueueVars, WorkerOnly
<1>2. /\ work[w] \in Worker /\ AtTheFiles(w) /\ work[w].phase = "started" /\ Shows("running")
      /\ record \in {"running", "cancelling"} /\ control.req
  BY <1>1, ExecutorKnows DEF OwnerKnows, Executing
<1>3. PICK r : Work(w, r) /\ r = [work[w] EXCEPT !.pc = "reread", !.control = None]
  BY DEF EndWrite
<1>4. r.pc = "reread" /\ r.phase = "started"
  BY <1>2, <1>3 DEF Worker
<1>5. control'.out = "killed" /\ asked
  BY <1>1, <1>2, WrittenBack DEF Control
<1>6. ControlSane'
  BY <1>5 DEF ControlSane
<1>7. Owns(r) /\ OwnerKnows(r)'
  BY <1>1, <1>2, <1>4, <1>5 DEF Owns, OwnerKnows, Early, Files, Executing, Shows, ghosts
<1> QED
  BY <1>1, <1>2, <1>3, <1>4, <1>6, <1>7, WorkerFrame DEF WorkerKnows

\* The wait goes on to the end of the output, whatever commands are under way.
LEMMA WaitFollowed ==
  ASSUME TInv, OInv, Followed, NEW w \in Workers, Reap(w) \/ Expire(w), ~Overlapping' PROVE Followed'
<1>1. work[w].pc = "wait" /\ UNCHANGED <<stop, queue, checkpoint, files, ghosts>>
  BY DEF Reap, Expire, QueueVars, WorkerOnly
<1>2. work[w] \in Worker /\ work[w].phase = "started" /\ OwnerKnows(work[w])
  BY <1>1, ExecutorKnows DEF Executing
<1>3. PICK c \in 0 .. 2 : Work(w, [work[w] EXCEPT !.pc = "drain", !.code = c])
  <2>1. agent[attempt].code \in 0 .. 2
    <3>1. attempt \in Runs /\ agent \in [Runs -> Agent]
      BY <1>1, InHand DEF TInv, StateTyped, AgentsTyped
    <3> QED BY <3>1 DEF Agent
  <2>2. 1 \in 0 .. 2
    OBVIOUS
  <2> QED
    BY <2>1, <2>2 DEF Reap, Expire
<1>4. PICK r : r = [work[w] EXCEPT !.pc = "drain", !.code = c]
  OBVIOUS
<1>5. r.pc = "drain" /\ r.phase = "started"
  BY <1>2, <1>4 DEF Worker
<1>6. work'[w] = r /\ \A v \in Workers : v # w => work'[v] = work[v]
  BY <1>3, <1>4 DEF Work, TInv, WorkTyped
<1>7. Owns(r) /\ OwnerKnows(r)'
  BY <1>1, <1>2, <1>5 DEF Owns, OwnerKnows, Early, Files, Executing, files, ghosts
<1>8. ASSUME NEW v \in Workers PROVE WorkerKnows(work[v])'
  <2>1. CASE v = w
    BY <1>6, <1>7, <2>1 DEF WorkerKnows, OwnerKnows, PartedKnows, Owns, ResultFits
  <2>2. CASE v # w
    <3>1. work[v].pc = "idle"
      BY <1>1, <2>2 DEF Followed, Overlapping
    <3> QED BY <1>6, <2>2, <3>1 DEF WorkerKnows
  <2> QED BY <2>1, <2>2
<1>9. ASSUME NEW s \in Stoppers PROVE StopperKnows(stop[s])'
  BY <1>1 DEF Followed, StopperKnows, files, ghosts
<1>10. Calm'
  <2>1. \A v \in Workers : AtTheFiles(v)' <=> AtTheFiles(v)
    BY <1>1, <1>5, <1>6 DEF AtTheFiles
  <2>2. RecordRight' = RecordRight /\ EntryRight' = EntryRight
    BY <1>1 DEF RecordRight, EntryRight, files
  <2> QED BY <1>1, <2>1, <2>2 DEF Followed, Calm
<1>11. ControlSane'
  BY <1>1, SameFiles DEF Followed, files
<1> QED
  BY <1>8, <1>9, <1>10, <1>11 DEF Followed

LEMMA DrainFollowed ==
  ASSUME TInv, OInv, Followed, NEW w \in Workers, Drain(w), ~Overlapping' PROVE Followed'
<1>1. work[w].pc = "drain" /\ UNCHANGED <<stop, queue, files, ghosts>>
  BY DEF Drain, QueueVars, WorkerOnly
<1>2. work[w] \in Worker /\ work[w].phase = "started" /\ OwnerKnows(work[w]) /\ queue = "running"
  BY <1>1, ExecutorKnows DEF Executing
<1>3. PICK r : Work(w, r) /\ r = [work[w] EXCEPT !.pc = "check"]
  BY DEF Drain
<1>4. r.pc = "check" /\ r.phase = "started"
  BY <1>2, <1>3 DEF Worker
<1>5. RecordRight /\ EntryRight
  BY <1>1, <1>3, <1>4, CalmBefore DEF AtTheFiles
<1>6. Shows("running") /\ record \in {"running", "cancelling"}
  BY <1>2, <1>5 DEF RecordRight, EntryRight, Shows
<1>7. ControlSane' /\ Shows("running")'
  BY <1>1, <1>6, SameFiles DEF Followed, files
<1>8. Owns(r) /\ OwnerKnows(r)'
  BY <1>1, <1>2, <1>4, <1>6, <1>7 DEF Owns, OwnerKnows, Early, Files, Executing, files, ghosts
<1> QED
  BY <1>1, <1>3, <1>4, <1>7, <1>8, WorkerFrame DEF WorkerKnows

\* The result is written.
LEMMA FinishedFollowed ==
  ASSUME TInv, OInv, Followed, ~Overlapping', NEW w \in Workers, work[w].pc \in {"check", "reread"},
         NEW code \in 0 .. 2, NEW out, Finished(w, code, out),
         UNCHANGED <<stop, control, entry, record, ghosts>>,
         out # "requested", signalled => out = "killed", out = "killed" => asked
  PROVE  Followed'
<1>1. /\ work[w] \in Worker /\ work[w].phase = "started" /\ OwnerKnows(work[w])
      /\ AtTheFiles(w) /\ Shows("running") /\ record \in {"running", "cancelling"}
  BY ExecutorKnows DEF Executing
<1>2. PICK r : Work(w, r) /\ r = [work[w] EXCEPT !.pc = "verdict", !.code = code]
  BY DEF Finished
<1>3. r.pc = "verdict" /\ r.phase = "started" /\ r.code = code
  BY <1>1, <1>2 DEF Worker
<1>4. control.out = "killed" => asked
  BY <1>1 DEF OwnerKnows, Executing
<1>5. result'.status = (IF code = 0 THEN "success" ELSE "failed") /\ result'.out = out
  BY DEF Finished
<1>6. ResultFits(r)'
  BY <1>3, <1>4, <1>5 DEF ResultFits, ghosts
<1>7. ControlSane' /\ Shows("running")'
  BY <1>1, SameFiles DEF Followed
<1>8. Owns(r) /\ OwnerKnows(r)'
  BY <1>1, <1>3, <1>6, <1>7 DEF Owns, OwnerKnows, Early, Files, Executing
<1> QED
  BY <1>1, <1>2, <1>3, <1>7, <1>8, WorkerFrame DEF WorkerKnows

LEMMA CheckFollowed ==
  ASSUME TInv, OInv, Followed, NEW w \in Workers, Check(w), ~Overlapping' PROVE Followed'
<1> DEFINE code == IF work[w].code = 0 /\ checkpoint = "pending" THEN 2 ELSE work[w].code
<1>1. work[w].pc = "check" /\ UNCHANGED <<stop, control, entry, record, ghosts>>
  BY DEF Check, QueueVars, WorkerOnly
<1>2. work[w] \in Worker /\ work[w].phase = "started" /\ OwnerKnows(work[w]) /\ control # None
  BY <1>1, ExecutorKnows DEF Executing, TInv, Prepared
<1>3. code \in 0 .. 2
  BY <1>2 DEF Worker
<1>4. PICK c \in 0 .. 2 : c = code
  BY <1>3
<1>5. CASE control.req
  <2>1. Work(w, [work[w] EXCEPT !.pc = "end_read", !.code = c])
    BY <1>4, <1>5 DEF Check
  <2>2. PICK r : r = [work[w] EXCEPT !.pc = "end_read", !.code = c]
    OBVIOUS
  <2>3. r.pc = "end_read" /\ r.phase = "started"
    BY <1>2, <2>2 DEF Worker
  <2> QED
    BY <1>1, <1>5, <2>1, <2>2, <2>3, ExecutorGoes DEF Executing
<1>6. CASE ~control.req
  <2>1. PICK out : out = control.out
    OBVIOUS
  <2>2. Finished(w, c, out)
    BY <1>4, <1>6, <2>1 DEF Check
  <2>3. out # "requested" /\ ~signalled /\ (out = "killed" => asked)
    BY <1>1, <1>2, <1>6, <2>1 DEF Followed, ControlSane, OwnerKnows, Executing
  <2> QED
    BY <1>1, <2>2, <2>3, FinishedFollowed
<1> QED
  BY <1>5, <1>6

LEMMA RereadFollowed ==
  ASSUME TInv, OInv, Followed, NEW w \in Workers, Reread(w), ~Overlapping' PROVE Followed'
<1>1. work[w].pc = "reread" /\ UNCHANGED <<stop, control, entry, record, ghosts>>
  BY DEF Reread, QueueVars, WorkerOnly
<1>2. work[w] \in Worker /\ OwnerKnows(work[w])
  BY <1>1, ExecutorKnows DEF Executing
<1>3. PICK c \in 0 .. 2 : c = work[w].code
  BY <1>2 DEF Worker
<1>4. PICK out : out = control.out
  OBVIOUS
<1>5. Finished(w, c, out)
  BY <1>3, <1>4 DEF Reread
<1>6. out = "killed" /\ asked
  BY <1>1, <1>2, <1>4 DEF OwnerKnows, Executing
<1> QED
  BY <1>1, <1>5, <1>6, FinishedFollowed

LEMMA WorkerFollowed ==
  ASSUME TInv, OInv, Followed, Clean, NEW w \in Workers, WorkerStep(w), ~Overlapping' PROVE Followed'
  BY ClaimFollowed, FeedFollowed, PutFollowed, BeginFollowed, LoadFollowed, SaveFollowed, PauseFollowed,
     JudgeFollowed, SettleFollowed, InitializeFollowed, RefuseFollowed, SpawnFollowed, RecordReadFollowed,
     RecordWriteFollowed, RecordFailsFollowed, WaitFollowed, DrainFollowed, CheckFollowed,
     EndReadFollowed, EndWriteFollowed, RereadFollowed DEF WorkerStep, ExecutorStep

\* What a stop does to an execution under way.
Heeded == (signalled => control.req) /\ (control.req \/ control.out = "killed" => asked)
Waited == \E v \in Workers : work[v].pc \in {"wait", "drain"}

LEMMA WaiterKnows ==
  ASSUME TInv, OInv, Followed, Waited
  PROVE  Heeded /\ queue = "running" /\ control # None
<1>1. PICK v \in Workers : work[v].pc \in {"wait", "drain"}
  BY DEF Waited
<1>2. OwnerKnows(work[v]) /\ queue = "running"
  BY <1>1, ExecutorKnows DEF Executing
<1>3. control # None
  BY <1>1 DEF TInv, Prepared, Executing
<1> QED
  BY <1>1, <1>2, <1>3 DEF OwnerKnows, Heeded, Executing

\* A command that is under way, or begins, has the files for itself.
LEMMA AloneInCommand ==
  ASSUME TInv, Followed, ~Overlapping', NEW s \in Stoppers, NEW r, Stop(s, r), UNCHANGED work,
         stop[s].pc # "idle" \/ r.pc # "idle"
  PROVE  /\ stop'[s] = r /\ \A q \in Stoppers : q # s => stop'[q] = stop[q] /\ stop[q].pc = "idle"
         /\ \A v \in Workers : ~AtTheFiles(v)
         /\ stop[s].pc \notin Voiding => RecordRight /\ EntryRight
<1>1. stop'[s] = r /\ \A q \in Stoppers : q # s => stop'[q] = stop[q]
  BY DEF Stop, TInv, StopTyped
<1>2. \A v \in Workers : AtTheFiles(v)' <=> AtTheFiles(v)
  BY DEF AtTheFiles
<1>3. /\ \A q \in Stoppers : q # s => stop[q].pc = "idle"
      /\ \A v \in Workers : ~AtTheFiles(v)
  <2>1. CASE stop[s].pc # "idle"
    BY <2>1 DEF Followed, Overlapping
  <2>2. CASE r.pc # "idle"
    BY <1>1, <1>2, <2>2 DEF Overlapping
  <2> QED BY <2>1, <2>2
<1>4. stop[s].pc \notin Voiding => RecordRight /\ EntryRight
  <2> SUFFICES ASSUME stop[s].pc \notin Voiding PROVE RecordRight /\ EntryRight
    OBVIOUS
  <2>1. \A q \in Stoppers : stop[q].pc \notin Voiding
    BY <1>3 DEF Voiding
  <2> QED BY <1>3, <2>1 DEF Followed, Calm
<1> QED
  BY <1>1, <1>3, <1>4

\* What a step of a command has to show.
LEMMA StopperFrame ==
  ASSUME TInv, OInv, Followed, ~Overlapping', NEW s \in Stoppers, NEW r, Stop(s, r),
         UNCHANGED <<work, result, checkpoint>>, stop[s].pc # "idle" \/ r.pc # "idle",
         ControlSane', StopperKnows(r)', Waited => Heeded',
         r.pc \notin Voiding => (RecordRight /\ EntryRight)'
  PROVE  Followed'
<1>1. /\ stop'[s] = r /\ \A q \in Stoppers : q # s => stop'[q] = stop[q] /\ stop[q].pc = "idle"
      /\ \A v \in Workers : ~AtTheFiles(v)
  BY AloneInCommand
<1>2. ASSUME NEW v \in Workers PROVE WorkerKnows(work[v])'
  <2>1. CASE work[v].pc = "idle"
    BY <2>1 DEF WorkerKnows
  <2>2. CASE work[v].pc \in {"wait", "drain"}
    <3>1. Owns(work[v])
      BY <2>2, ExecutorKnows DEF Executing
    <3>2. Heeded'
      BY <2>2 DEF Waited
    <3> QED
      BY <2>2, <3>1, <3>2 DEF WorkerKnows, OwnerKnows, Owns, Heeded, Early, Files, Executing
  <2> QED BY <1>1, <2>1, <2>2 DEF AtTheFiles
<1>3. ASSUME NEW q \in Stoppers PROVE StopperKnows(stop[q])'
  <2>1. CASE q = s
    <3>1. StopperKnows(r)'
      OBVIOUS
    <3> QED BY <1>1, <2>1, <3>1 DEF StopperKnows
  <2>2. CASE q # s
    <3>1. stop'[q].pc = "idle"
      BY <1>1, <2>2
    <3> QED BY <3>1 DEF StopperKnows, Asking, Voiding
  <2> QED BY <2>1, <2>2
<1>4. Calm'
  <2>1. CASE r.pc \in Voiding
    BY <1>1, <2>1 DEF Calm
  <2>2. CASE r.pc \notin Voiding
    BY <2>2 DEF Calm
  <2> QED BY <2>1, <2>2
<1> QED
  BY <1>2, <1>3, <1>4 DEF Followed

\* A command that only reads.
LEMMA StopperGoes ==
  ASSUME TInv, OInv, Followed, ~Overlapping', NEW s \in Stoppers, NEW r, Stop(s, r),
         UNCHANGED <<StopperOnly, queue, control, entry, record, ghosts>>,
         stop[s].pc # "idle" \/ r.pc # "idle", StopperKnows(r),
         stop[s].pc \in Voiding => r.pc \in Voiding
  PROVE  Followed'
<1>1. ControlSane' /\ (Heeded => Heeded')
  BY DEF Followed, ControlSane, Heeded, ghosts
<1>2. StopperKnows(r)'
  BY DEF StopperKnows, ghosts
<1>3. r.pc \notin Voiding => (RecordRight /\ EntryRight)'
  <2> SUFFICES ASSUME r.pc \notin Voiding PROVE (RecordRight /\ EntryRight)'
    OBVIOUS
  <2>1. RecordRight /\ EntryRight
    BY AloneInCommand DEF StopperOnly
  <2> QED BY <2>1 DEF RecordRight, EntryRight, StopperOnly
<1> QED
  BY <1>1, <1>2, <1>3, WaiterKnows, StopperFrame DEF StopperOnly

LEMMA CommandKnows ==
  ASSUME TInv, Followed, NEW s \in Stoppers
  PROVE  stop[s] \in Stopper /\ StopperGood(stop[s]) /\ StopperKnows(stop[s])
  BY Commanding DEF Followed, StopperGood

LEMMA RestKnows == StopperKnows(NoCommand) /\ NoCommand.pc = "idle"
  BY DEF NoCommand, StopperKnows, Asking, Voiding

LEMMA CommandFollowed ==
  ASSUME TInv, OInv, Followed, NEW s \in Stoppers, Command(s), ~Overlapping' PROVE Followed'
<1>1. UNCHANGED <<StopperOnly, queue, control, entry, record, ghosts>>
  BY DEF Command
<1>2. PICK r : Stop(s, r) /\ ((\E f \in BOOLEAN : r = [NoCommand EXCEPT !.pc = "look", !.force = f])
                              \/ r = [NoCommand EXCEPT !.pc = "where", !.cmd = "cancel"])
  BY DEF Command
<1>3. (r.pc = "look" /\ r.cmd = "stop") \/ r.pc = "where"
  BY <1>2 DEF NoCommand
<1>4. StopperKnows(r) /\ stop[s].pc = "idle"
  BY <1>3 DEF StopperKnows, Asking, Voiding, Command
<1> QED
  BY <1>1, <1>2, <1>3, <1>4, StopperGoes DEF Voiding

LEMMA WhereFollowed ==
  ASSUME TInv, OInv, Followed, NEW s \in Stoppers, Where(s), ~Overlapping' PROVE Followed'
<1>1. stop[s].pc = "where" /\ UNCHANGED <<StopperOnly, queue, control, entry, record, ghosts>>
  BY DEF Where
<1>2. PICK r : Stop(s, r) /\ \/ queue = "running" /\ r = [stop[s] EXCEPT !.pc = "look"]
                             \/ queue \in {"pending", "awaiting_approval", "failed"} /\ r = [stop[s] EXCEPT !.pc = "withdraw"]
                             \/ r = NoCommand
  BY DEF Where
<1>3. \/ r.pc = "look" /\ queue = "running"
      \/ r.pc = "withdraw" /\ queue \in {"pending", "awaiting_approval", "failed"}
      \/ r = NoCommand
  BY <1>2, CommandKnows DEF Stopper
<1>4. StopperKnows(r)
  BY <1>3, RestKnows DEF StopperKnows, Asking, Voiding
<1> QED
  BY <1>1, <1>2, <1>4, StopperGoes DEF Voiding

LEMMA WithdrawFollowed ==
  ASSUME TInv, OInv, Followed, NEW s \in Stoppers, Withdraw(s), ~Overlapping' PROVE Followed'
<1>1. stop[s].pc = "withdraw" /\ UNCHANGED <<StopperOnly, control, entry, record, ghosts>>
  BY DEF Withdraw
<1>2. queue \in {"pending", "awaiting_approval", "failed"} /\ queue' = "failed"
  BY <1>1, CommandKnows DEF StopperKnows, Withdraw
<1>3. PICK r : Stop(s, r) /\ r = [stop[s] EXCEPT !.pc = "void_load"]
  BY DEF Withdraw
<1>4. r.pc = "void_load"
  BY <1>3, CommandKnows DEF Stopper
<1>5. StopperKnows(r)'
  BY <1>2, <1>4 DEF StopperKnows, Asking
<1>6. ~Waited
  BY <1>2, WaiterKnows
<1>7. ControlSane'
  BY <1>1 DEF Followed, ControlSane
<1> QED
  BY <1>1, <1>3, <1>4, <1>5, <1>6, <1>7, StopperFrame DEF StopperOnly, Voiding

LEMMA VoidLoadFollowed ==
  ASSUME TInv, OInv, Followed, NEW s \in Stoppers, VoidLoad(s), ~Overlapping' PROVE Followed'
<1>1. stop[s].pc = "void_load" /\ UNCHANGED <<StopperOnly, queue, control, entry, record, ghosts>>
  BY DEF VoidLoad
<1>2. PICK r : r = [stop[s] EXCEPT !.pc = "void_save", !.entry = entry]
  OBVIOUS
<1>3. Stop(s, r)
  BY <1>2 DEF VoidLoad
<1>4. r.pc = "void_save"
  BY <1>2, CommandKnows DEF Stopper
<1>5. StopperKnows(r)
  BY <1>1, <1>4, CommandKnows DEF StopperKnows, Asking, Voiding
<1> QED
  BY <1>1, <1>3, <1>4, <1>5, StopperGoes DEF Voiding

LEMMA VoidSaveFollowed ==
  ASSUME TInv, OInv, Followed, NEW s \in Stoppers, VoidSave(s), ~Overlapping' PROVE Followed'
<1>1. stop[s].pc = "void_save" /\ UNCHANGED <<StopperOnly, queue, control, record, ghosts>>
      /\ entry' = Persisted(stop[s].entry, "killed", TRUE)
  BY DEF VoidSave
<1>2. PICK r : Stop(s, r) /\ r = [stop[s] EXCEPT !.pc = "void_put", !.entry = None]
  BY DEF VoidSave
<1>3. r.pc = "void_put"
  BY <1>2, CommandKnows DEF Stopper
<1>4. queue = "failed" /\ entry'.status = "killed"
  BY <1>1, CommandKnows DEF StopperKnows, Voiding, Persisted
<1>5. StopperKnows(r)'
  BY <1>1, <1>3, <1>4 DEF StopperKnows, Asking, Voiding
<1>6. ~Waited
  BY <1>4, WaiterKnows
<1>7. ControlSane'
  BY <1>1 DEF Followed, ControlSane
<1> QED
  BY <1>1, <1>2, <1>3, <1>5, <1>6, <1>7, StopperFrame DEF StopperOnly, Voiding

LEMMA VoidPutFollowed ==
  ASSUME TInv, OInv, Followed, NEW s \in Stoppers, VoidPut(s), ~Overlapping' PROVE Followed'
<1>1. stop[s].pc = "void_put" /\ UNCHANGED <<StopperOnly, queue, control, entry, ghosts>> /\ record' = "cancelled"
  BY DEF VoidPut
<1>2. PICK r : Stop(s, r) /\ r = NoCommand
  BY DEF VoidPut
<1>3. queue = "failed" /\ (entry = None \/ entry.status = "killed")
  BY <1>1, CommandKnows DEF StopperKnows, Voiding
<1>4. StopperKnows(r)'
  BY <1>2, RestKnows DEF StopperKnows, Asking, Voiding
<1>5. (RecordRight /\ EntryRight)'
  BY <1>1, <1>3 DEF RecordRight, EntryRight
<1>6. ~Waited
  BY <1>3, WaiterKnows
<1>7. ControlSane'
  BY <1>1 DEF Followed, ControlSane
<1> QED
  BY <1>1, <1>2, <1>4, <1>5, <1>6, <1>7, StopperFrame DEF StopperOnly

LEMMA UpdateFollowed ==
  ASSUME TInv, OInv, Followed, NEW s \in Stoppers, Update(s), ~Overlapping' PROVE Followed'
<1>1. stop[s].pc = "update" /\ UNCHANGED <<StopperOnly, queue, control, entry, asked, signalled>> /\ record' = "cancelling"
  BY DEF Update
<1>2. PICK r : Stop(s, r) /\ r = NoCommand
  BY DEF Update
<1>3. queue = "running"
  BY <1>1, CommandKnows DEF StopperKnows
<1>4. EntryRight
  BY <1>1, <1>2, AloneInCommand DEF StopperOnly, Voiding
<1>5. StopperKnows(r)'
  BY <1>2, RestKnows DEF StopperKnows, Asking, Voiding
<1>6. (RecordRight /\ EntryRight)'
  BY <1>1, <1>3, <1>4 DEF RecordRight, EntryRight, StopperOnly
<1>7. ControlSane' /\ (Heeded => Heeded')
  BY <1>1 DEF Followed, ControlSane, Heeded
<1> QED
  BY <1>1, <1>2, <1>5, <1>6, <1>7, WaiterKnows, StopperFrame DEF StopperOnly

\* The places of a command between its look at the entry and its answer.
LEMMA AskingGoes ==
  ASSUME TInv, OInv, Followed, ~Overlapping', NEW s \in Stoppers, NEW r, Stop(s, r),
         UNCHANGED <<StopperOnly, queue, control, entry, record, ghosts>>,
         stop[s].pc \in Asking, r.pc \in Asking, r.cmd = stop[s].cmd,
         r.pc \in {"signal", "fin_read", "fin_write"} => control.req /\ asked,
         r.pc = "fin_write" => r.control.req,
         r.pc = "sync_write" => r.entry.status = entry.status
  PROVE  Followed'
<1>1. StopperKnows(stop[s])
  BY CommandKnows
<1>2. StopperKnows(r)
  BY <1>1 DEF StopperKnows, Asking, Voiding
<1>3. stop[s].pc # "idle" /\ stop[s].pc \notin Voiding
  BY DEF Asking, Voiding
<1> QED
  BY <1>2, <1>3, StopperGoes

LEMMA LookFollowed ==
  ASSUME TInv, OInv, Followed, NEW s \in Stoppers, Look(s), ~Overlapping' PROVE Followed'
<1>1. stop[s].pc = "look" /\ UNCHANGED <<StopperOnly, queue, control, entry, record, ghosts>>
  BY DEF Look
<1>2. stop[s] \in Stopper /\ (stop[s].cmd = "cancel" => queue = "running")
  BY <1>1, CommandKnows DEF StopperKnows
<1>3. PICK r : Stop(s, r) /\ \/ r = NoCommand
                             \/ stop[s].cmd = "cancel" /\ r = [stop[s] EXCEPT !.pc = "update"]
                             \/ /\ entry # None /\ entry.status \notin Terminal
                                /\ \/ r = [stop[s] EXCEPT !.pc = "mark_read"]
                                   \/ r = [stop[s] EXCEPT !.pc = "sync_read", !.res = "unsupported",
                                             !.control = [Fresh EXCEPT !.req = TRUE, !.out = "unsupported"]]
  BY DEF Look
<1>4. \/ r = NoCommand
      \/ r.pc = "update" /\ queue = "running"
      \/ r.pc \in {"mark_read", "sync_read"} /\ r.cmd = stop[s].cmd /\ entry # None /\ entry.status \notin Terminal
  BY <1>2, <1>3 DEF Stopper
<1>5. StopperKnows(r)
  BY <1>2, <1>4, RestKnows DEF StopperKnows, Asking, Voiding
<1> QED
  BY <1>1, <1>3, <1>5, StopperGoes DEF Voiding

LEMMA MarkReadFollowed ==
  ASSUME TInv, OInv, Followed, NEW s \in Stoppers, MarkRead(s), ~Overlapping' PROVE Followed'
<1>1. stop[s].pc = "mark_read" /\ UNCHANGED <<StopperOnly, queue, control, entry, record, ghosts>>
  BY DEF MarkRead
<1>2. PICK r : Stop(s, r) /\ r \in {[stop[s] EXCEPT !.pc = "reload", !.res = "missing_control"],
                                    [stop[s] EXCEPT !.pc = "mark_write", !.control = control]}
  BY DEF MarkRead
<1>3. r.pc \in {"reload", "mark_write"} /\ r.cmd = stop[s].cmd
  BY <1>2, CommandKnows DEF Stopper
<1> QED
  BY <1>1, <1>2, <1>3, AskingGoes DEF Asking

LEMMA FinReadFollowed ==
  ASSUME TInv, OInv, Followed, NEW s \in Stoppers, FinRead(s), ~Overlapping' PROVE Followed'
<1>1. stop[s].pc = "fin_read" /\ UNCHANGED <<StopperOnly, queue, control, entry, record, ghosts>>
  BY DEF FinRead
<1>2. PICK r : r = [stop[s] EXCEPT !.pc = "fin_write", !.control = control]
  OBVIOUS
<1>3. Stop(s, r)
  BY <1>2 DEF FinRead
<1>4. r.pc = "fin_write" /\ r.cmd = stop[s].cmd /\ r.control = control
  BY <1>2, CommandKnows DEF Stopper
<1>5. control.req /\ asked
  BY <1>1, CommandKnows DEF StopperKnows
<1> QED
  BY <1>1, <1>3, <1>4, <1>5, AskingGoes DEF Asking

LEMMA ReloadFollowed ==
  ASSUME TInv, OInv, Followed, NEW s \in Stoppers, Reload(s), ~Overlapping' PROVE Followed'
<1>1. stop[s].pc = "reload" /\ UNCHANGED <<StopperOnly, queue, control, entry, record, ghosts>>
  BY DEF Reload
<1>2. PICK r : r = [stop[s] EXCEPT !.pc = "sync_read", !.control = control]
  OBVIOUS
<1>3. Stop(s, r)
  BY <1>2 DEF Reload
<1>4. r.pc = "sync_read" /\ r.cmd = stop[s].cmd
  BY <1>2, CommandKnows DEF Stopper
<1> QED
  BY <1>1, <1>3, <1>4, AskingGoes DEF Asking

\* A command has its answer.
LEMMA AnswerKnows ==
  ASSUME NEW r, r \in Stopper, r.cmd = "cancel" => queue = "running"
  PROVE  StopperKnows(AfterSync(r)) /\ AfterSync(r).pc \in {"update", "idle"}
<1>1. PICK q : q = AfterSync(r)
  OBVIOUS
<1>2. q = NoCommand \/ (r.cmd = "cancel" /\ q = [r EXCEPT !.pc = "update", !.control = None, !.entry = None])
  BY <1>1 DEF AfterSync
<1>3. q = NoCommand \/ (q.pc = "update" /\ queue = "running")
  BY <1>2 DEF Stopper
<1>4. StopperKnows(q) /\ q.pc \in {"update", "idle"}
  BY <1>3, RestKnows DEF StopperKnows, Asking, Voiding
<1> QED
  BY <1>1, <1>4

LEMMA SyncReadFollowed ==
  ASSUME TInv, OInv, Followed, NEW s \in Stoppers, SyncRead(s), ~Overlapping' PROVE Followed'
<1>1. stop[s].pc = "sync_read" /\ UNCHANGED <<StopperOnly, queue, control, entry, record, ghosts>>
  BY DEF SyncRead
<1>2. stop[s] \in Stopper /\ entry # None
  BY <1>1, CommandKnows DEF StopperKnows, Asking
<1>3. PICK r : r = [stop[s] EXCEPT !.pc = "sync_write", !.entry = entry]
  OBVIOUS
<1>4. Stop(s, r)
  BY <1>2, <1>3 DEF SyncRead
<1>5. r.pc = "sync_write" /\ r.cmd = stop[s].cmd /\ r.entry = entry
  BY <1>2, <1>3 DEF Stopper
<1> QED
  BY <1>1, <1>4, <1>5, AskingGoes DEF Asking

LEMMA SyncWriteFollowed ==
  ASSUME TInv, OInv, Followed, NEW s \in Stoppers, SyncWrite(s), ~Overlapping' PROVE Followed'
<1>1. stop[s].pc = "sync_write" /\ UNCHANGED <<StopperOnly, queue, control, record, ghosts>>
      /\ entry' = Synced(stop[s].entry, stop[s].control)
  BY DEF SyncWrite
<1>2. /\ stop[s] \in Stopper /\ StopperGood(stop[s]) /\ (stop[s].cmd = "cancel" => queue = "running")
      /\ entry # None /\ stop[s].entry.status = entry.status
  BY <1>1, CommandKnows DEF StopperKnows, Asking
<1>3. PICK r : r = AfterSync(stop[s])
  OBVIOUS
<1>4. Stop(s, r)
  BY <1>3 DEF SyncWrite
<1>5. StopperKnows(r) /\ r.pc \in {"update", "idle"}
  BY <1>2, <1>3, AnswerKnows
<1>6. StopperKnows(r)'
  BY <1>1, <1>5 DEF StopperKnows, Asking, Voiding
<1>7. entry' # None /\ entry'.status = entry.status
  <2>1. stop[s].entry \in Entry /\ stop[s].control \in Control \cup {None}
    BY <1>1, <1>2 DEF StopperGood, Stopper
  <2>2. CASE stop[s].control = None
    BY <1>1, <1>2, <2>1, <2>2, NoneAssumption DEF Synced
  <2>3. CASE stop[s].control # None
    <3>1. stop[s].control.req \in BOOLEAN /\ stop[s].control.out \in Outcomes
      BY <2>1, <2>3 DEF Control
    <3>2. entry' = [stop[s].entry EXCEPT !.req = stop[s].control.req, !.out = stop[s].control.out]
      BY <1>1, <2>3 DEF Synced
    <3>3. entry' \in Entry /\ entry'.status = stop[s].entry.status
      BY <2>1, <3>1, <3>2 DEF Entry
    <3> QED BY <1>2, <3>3, NoneAssumption
  <2> QED BY <2>2, <2>3
<1>8. RecordRight /\ EntryRight
  BY <1>1, <1>4, AloneInCommand DEF StopperOnly, Voiding
<1>9. (RecordRight /\ EntryRight)'
  <2>1. RecordRight'
    BY <1>1, <1>8 DEF RecordRight, StopperOnly
  <2>2. EntryRight'
    BY <1>1, <1>2, <1>7, <1>8 DEF EntryRight, StopperOnly
  <2> QED BY <2>1, <2>2
<1>10. ControlSane' /\ (Heeded => Heeded')
  BY <1>1 DEF Followed, ControlSane, Heeded, ghosts
<1> QED
  BY <1>1, <1>4, <1>6, <1>9, <1>10, WaiterKnows, StopperFrame DEF StopperOnly

\* Where a command changes the control file, it and the history know of a stop.
LEMMA AskingWrites ==
  ASSUME TInv, OInv, Followed, ~Overlapping', NEW s \in Stoppers, NEW r, Stop(s, r),
         UNCHANGED <<StopperOnly, queue, entry, record>>,
         stop[s].pc \in {"mark_write", "signal", "fin_write"}, r.pc \in {"signal", "fin_read", "reload"},
         r.cmd = stop[s].cmd, control'.req, asked'
  PROVE  Followed'
<1>1. StopperKnows(stop[s])
  BY CommandKnows
<1>2. StopperKnows(r)'
  BY <1>1 DEF StopperKnows, Asking, Voiding
<1>3. (RecordRight /\ EntryRight)'
  <2>1. RecordRight /\ EntryRight
    BY AloneInCommand DEF StopperOnly, Voiding
  <2> QED BY <2>1 DEF RecordRight, EntryRight, StopperOnly
<1>4. ControlSane' /\ Heeded'
  BY DEF ControlSane, Heeded
<1> QED
  BY <1>2, <1>3, <1>4, StopperFrame DEF StopperOnly

LEMMA MarkWriteFollowed ==
  ASSUME TInv, OInv, Followed, NEW s \in Stoppers, MarkWrite(s), ~Overlapping' PROVE Followed'
<1>1. /\ stop[s].pc = "mark_write" /\ UNCHANGED <<StopperOnly, queue, entry, record>> /\ asked' = TRUE
      /\ control' = [stop[s].control EXCEPT !.req = TRUE]
  BY DEF MarkWrite
<1>2. stop[s] \in Stopper /\ stop[s].control \in Control
  BY <1>1, CommandKnows DEF StopperGood, Stopper
<1>3. PICK r : r = [stop[s] EXCEPT !.pc = "signal", !.control = [stop[s].control EXCEPT !.req = TRUE]]
  OBVIOUS
<1>4. Stop(s, r)
  BY <1>3 DEF MarkWrite
<1>5. r.pc = "signal" /\ r.cmd = stop[s].cmd
  BY <1>2, <1>3 DEF Stopper
<1>6. control'.req
  BY <1>1, <1>2 DEF Control
<1> QED
  BY <1>1, <1>4, <1>5, <1>6, AskingWrites

LEMMA SignalFollowed ==
  ASSUME TInv, OInv, Followed, NEW s \in Stoppers, Signal(s), ~Overlapping' PROVE Followed'
<1>1. stop[s].pc = "signal" /\ UNCHANGED <<StopperOnly, queue, control, entry, record, asked>>
  BY DEF Signal
<1>2. stop[s] \in Stopper /\ control.req /\ asked
  BY <1>1, CommandKnows DEF StopperKnows
<1>3. PICK v \in {"requested", "not_running"} : Stop(s, [stop[s] EXCEPT !.pc = "fin_read", !.force = FALSE, !.res = v])
  BY DEF Signal
<1>4. PICK r : r = [stop[s] EXCEPT !.pc = "fin_read", !.force = FALSE, !.res = v]
  OBVIOUS
<1>5. r.pc = "fin_read" /\ r.cmd = stop[s].cmd
  BY <1>2, <1>4 DEF Stopper
<1> QED
  BY <1>1, <1>2, <1>3, <1>4, <1>5, AskingWrites

LEMMA FinWriteFollowed ==
  ASSUME TInv, OInv, Followed, NEW s \in Stoppers, FinWrite(s), ~Overlapping' PROVE Followed'
<1>1. /\ stop[s].pc = "fin_write" /\ UNCHANGED <<StopperOnly, queue, entry, record, asked>>
      /\ control' = [stop[s].control EXCEPT !.out = stop[s].res]
  BY DEF FinWrite, ghosts
<1>2. stop[s] \in Stopper /\ stop[s].control \in Control /\ stop[s].control.req /\ asked
  BY <1>1, CommandKnows DEF StopperGood, Stopper, StopperKnows
<1>3. PICK r : Stop(s, r) /\ r = [stop[s] EXCEPT !.pc = "reload"]
  BY DEF FinWrite
<1>4. r.pc = "reload" /\ r.cmd = stop[s].cmd
  BY <1>2, <1>3 DEF Stopper
<1>5. control'.req
  BY <1>1, <1>2 DEF Control
<1> QED
  BY <1>1, <1>2, <1>3, <1>4, <1>5, AskingWrites

LEMMA StopperFollowed ==
  ASSUME TInv, OInv, Followed, NEW s \in Stoppers, StopperStep(s), ~Overlapping' PROVE Followed'
  BY CommandFollowed, WhereFollowed, WithdrawFollowed, VoidLoadFollowed, VoidSaveFollowed, VoidPutFollowed,
     LookFollowed, MarkReadFollowed, MarkWriteFollowed, SignalFollowed, FinReadFollowed, FinWriteFollowed,
     ReloadFollowed, SyncReadFollowed, SyncWriteFollowed, UpdateFollowed DEF StopperStep

\* Neither workers nor commands take a step: the files stay as they are, or
\* somebody else changes the item, the checkpoint or the entry.
LEMMA NobodyMoves ==
  ASSUME Followed, UNCHANGED <<work, stop>>, ControlSane',
         \A w \in Workers : WorkerKnows(work[w])', \A s \in Stoppers : StopperKnows(stop[s])',
         RecordRight /\ EntryRight => (RecordRight /\ EntryRight)'
  PROVE  Followed'
<1>1. Overlapping' <=> Overlapping
  BY DEF Overlapping, AtTheFiles
<1>2. Calm'
  BY DEF Followed, Calm, AtTheFiles
<1> QED
  BY <1>1, <1>2 DEF Followed

LEMMA Still ==
  ASSUME Followed, UNCHANGED <<queue, files, work, stop, ghosts>>,
         checkpoint # "absent" => checkpoint' # "absent"
  PROVE  Followed'
<1>1. (RecordRight => RecordRight') /\ (EntryRight => EntryRight')
  BY DEF RecordRight, EntryRight, files
<1>2. ASSUME NEW w \in Workers PROVE WorkerKnows(work[w])'
  <2>1. CASE work[w].pc = "idle"
    BY <2>1 DEF WorkerKnows
  <2>2. CASE work[w].pc # "idle" /\ Owns(work[w])
    <3>1. OwnerKnows(work[w])
      BY <2>2 DEF Followed, WorkerKnows
    <3>2. (ResultFits(work[w]) => ResultFits(work[w])') /\ Effective' = Effective /\ \A x : Shows(x)' = Shows(x)
      BY DEF ResultFits, Effective, Shows, files, ghosts
    <3>3. OwnerKnows(work[w])'
      BY <3>1, <3>2 DEF OwnerKnows, files, ghosts
    <3> QED BY <2>2, <3>3 DEF WorkerKnows, Owns
  <2>3. CASE work[w].pc # "idle" /\ ~Owns(work[w])
    <3>1. PartedKnows(work[w])
      BY <2>3 DEF Followed, WorkerKnows
    <3>2. Effective' = Effective
      BY DEF Effective, files
    <3>3. PartedKnows(work[w])'
      BY <1>1, <3>1, <3>2 DEF PartedKnows, VerdictFits
    <3> QED BY <2>3, <3>3 DEF WorkerKnows, Owns
  <2> QED BY <2>1, <2>2, <2>3
<1>3. ASSUME NEW s \in Stoppers PROVE StopperKnows(stop[s])'
  BY DEF Followed, StopperKnows, files, ghosts
<1>4. ControlSane'
  BY SameFiles DEF Followed, files
<1> QED
  BY <1>1, <1>2, <1>3, <1>4, NobodyMoves

\* A decision on an item that waits for one.
LEMMA Decided ==
  ASSUME TInv, OInv, Followed, UNCHANGED <<files, work, stop, ghosts>>,
         \A w \in Workers : ~AtTheFiles(w),
         queue = "awaiting_approval", queue' \in {"pending", "failed"}, queue' = "failed" => checkpoint' # "absent"
  PROVE  Followed'
<1>1. ASSUME NEW w \in Workers PROVE WorkerKnows(work[w])'
  <2>1. ~Waited
    BY WaiterKnows
  <2>2. work[w].pc = "idle"
    BY <2>1 DEF Waited, AtTheFiles
  <2> QED BY <2>2 DEF WorkerKnows
<1>2. ASSUME NEW s \in Stoppers PROVE StopperKnows(stop[s])'
  BY DEF Followed, StopperKnows, files, ghosts
<1>3. RecordRight /\ EntryRight => (RecordRight /\ EntryRight)'
  BY DEF RecordRight, EntryRight, files
<1>4. ControlSane'
  BY SameFiles DEF Followed, files
<1> QED
  BY <1>1, <1>2, <1>3, <1>4, NobodyMoves

LEMMA ApprovalFollowed ==
  ASSUME TInv, OInv, Followed, Approve \/ Resolve, \A w \in Workers : ~AtTheFiles(w)
  PROVE  Followed'
<1>1. UNCHANGED <<files, work, stop, ghosts>>
  BY DEF Approve, Resolve
<1>2. CASE queue' = queue
  <2>1. checkpoint # "absent" => checkpoint' # "absent"
    BY <1>2 DEF Approve, Resolve
  <2> QED BY <1>1, <1>2, <2>1, Still
<1>3. CASE queue' # queue
  <2>1. queue = "awaiting_approval" /\ queue' \in {"pending", "failed"} /\ (queue' = "failed" => checkpoint' # "absent")
    BY <1>3 DEF Approve, Resolve
  <2> QED BY <1>1, <2>1, Decided
<1> QED
  BY <1>2, <1>3

LEMMA EvictFollowed ==
  ASSUME TInv, OInv, Followed, Evict
  PROVE  Followed'
<1>1. /\ entry # None /\ entry.status \in Terminal /\ entry' = None
      /\ UNCHANGED <<queue, checkpoint, control, result, record, work, stop, ghosts>>
  BY DEF Evict
<1>2. ~Shows("running") /\ ~Shows("pending") /\ Effective' = Effective
  BY <1>1 DEF Shows, Terminal, Effective
<1>3. EntryRight => EntryRight'
  BY <1>1 DEF EntryRight, Terminal
<1>4. ASSUME NEW w \in Workers PROVE WorkerKnows(work[w])'
  <2>1. CASE work[w].pc = "idle"
    BY <1>1, <2>1 DEF WorkerKnows
  <2>2. CASE work[w].pc # "idle" /\ Owns(work[w])
    <3>1. OwnerKnows(work[w])
      BY <2>2 DEF Followed, WorkerKnows
    <3>2. ResultFits(work[w]) => ResultFits(work[w])'
      BY <1>1 DEF ResultFits, ghosts
    <3>3. OwnerKnows(work[w])'
      BY <1>1, <1>2, <3>1, <3>2 DEF OwnerKnows, ghosts
    <3> QED BY <1>1, <2>2, <3>3 DEF WorkerKnows, Owns
  <2>3. CASE work[w].pc # "idle" /\ ~Owns(work[w])
    <3>1. PartedKnows(work[w])
      BY <2>3 DEF Followed, WorkerKnows
    <3>2. PartedKnows(work[w])'
      BY <1>1, <1>2, <1>3, <3>1 DEF PartedKnows, VerdictFits
    <3> QED BY <1>1, <2>3, <3>2 DEF WorkerKnows, Owns
  <2> QED BY <2>1, <2>2, <2>3
<1>5. ASSUME NEW s \in Stoppers PROVE StopperKnows(stop[s])'
  <2>1. StopperKnows(stop[s])
    BY DEF Followed
  <2>2. stop[s].pc \notin Asking
    BY <1>1, <2>1 DEF StopperKnows
  <2> QED BY <1>1, <2>1, <2>2 DEF StopperKnows, Asking, ghosts
<1>6. RecordRight => RecordRight'
  BY <1>1 DEF RecordRight
<1>7. ControlSane'
  BY <1>1 DEF Followed, ControlSane
<1> QED
  BY <1>1, <1>3, <1>4, <1>5, <1>6, <1>7, NobodyMoves

LEMMA AgentFollowed ==
  ASSUME Followed, NEW a \in Runs, AgentStep(a)
  PROVE  Followed'
<1>1. UNCHANGED <<queue, files, work, stop, ghosts>> /\ (checkpoint # "absent" => checkpoint' # "absent")
  BY DEF AgentStep
<1> QED
  BY <1>1, Still

LEMMA StepFollowed == TInv /\ OInv /\ RInv /\ UInv /\ [Next]_vars => RInv'
<1> SUFFICES ASSUME TInv, OInv, RInv, UInv, [Next]_vars, ~overlap' PROVE Followed'
  BY DEF RInv
<1>1. CASE UNCHANGED vars
  <2>1. Followed
    BY <1>1 DEF vars, RInv
  <2>2. UNCHANGED <<queue, files, work, stop, ghosts, checkpoint>>
    BY <1>1 DEF vars
  <2> QED BY <2>1, <2>2, Still
<1>2. CASE Act /\ overlap' = (overlap \/ Overlapping')
  <2>1. Followed /\ Clean /\ ~Overlapping'
    BY <1>2 DEF RInv, UInv
  <2> QED BY <1>2, <2>1, WorkerFollowed, StopperFollowed, AgentFollowed, EvictFollowed DEF Act
<1>3. CASE (Approve \/ Resolve) /\ overlap' = (overlap \/ \E w \in Workers : AtTheFiles(w))
  <2>1. Followed /\ \A w \in Workers : ~AtTheFiles(w)
    BY <1>3 DEF RInv
  <2> QED BY <1>3, <2>1, ApprovalFollowed
<1> QED
  BY <1>1, <1>2, <1>3 DEF Next

LEMMA InitFollowed == Init => RInv
<1> SUFFICES ASSUME Init PROVE Followed
  BY DEF RInv
<1>1. \A w \in Workers : work[w].pc = "idle"
  BY DEF Init, AtRest
<1>2. \A s \in Stoppers : stop[s].pc = "idle"
  BY DEF Init, NoCommand
<1>3. ~Overlapping
  BY <1>1, <1>2 DEF Overlapping
<1>4. ControlSane
  BY DEF Init, ControlSane
<1>5. RecordRight /\ EntryRight
  <2>1. queue = "pending" /\ record = "queued" /\ entry.status = "pending"
    BY DEF Init
  <2>2. entry # None
    <3>1. entry \in Entry
      BY Atoms DEF Init, Entry, TaskStatuses
    <3> QED BY <3>1, NoneAssumption
  <2> QED BY <2>1, <2>2 DEF RecordRight, EntryRight
<1>6. (\A w \in Workers : WorkerKnows(work[w])) /\ \A s \in Stoppers : StopperKnows(stop[s])
  BY <1>1, <1>2 DEF WorkerKnows, StopperKnows, Asking, Voiding
<1> QED
  BY <1>3, <1>4, <1>5, <1>6 DEF Followed, Calm

\* An item stays fit to be executed: its worker leaves the files alone before the
\* execution, a run that is to be repeated has neither succeeded nor been stopped, and
\* a command that finds the item waiting does not say killed.
LEMMA RemainsClean ==
  ASSUME Clean, UNCHANGED <<result, control, stop>>, Reusable' => Reusable
  PROVE  Clean'
<1>1. Reusable' => Unmarred'
  BY DEF Clean, Unmarred
<1>2. \A s \in Stoppers : KeepsOut(stop[s])'
  BY DEF Clean, KeepsOut
<1> QED
  BY <1>1, <1>2 DEF Clean

\* A worker in an execution that stays in it, or is about to settle its item.
LEMMA BusyClean ==
  ASSUME TInv, OInv, Clean, NEW w \in Workers, NEW r, Work(w, r), UNCHANGED queue, Owns(work[w]),
         r.pc \in Executing \cup {"verdict", "settle"}
  PROVE  ~Reusable'
<1>1. /\ \A v \in Workers : v # w => work'[v] = work[v]
      /\ work'[w] = r
  BY DEF Work, TInv, WorkTyped
<1>2. queue = "running" /\ \A v \in Workers : v # w => ~Owns(work[v])
  BY DEF OInv, OneOwner
<1>3. \A v \in Workers : ~Ahead(work'[v])
  BY <1>1, <1>2 DEF Ahead
<1> QED
  BY <1>2, <1>3 DEF Reusable, Ahead, Owns

\* The worker has not begun to execute the item and goes on with it, or was done with
\* it.
LEMMA StandbyClean ==
  ASSUME TInv, OInv, Clean, NEW w \in Workers, NEW r, Work(w, r), UNCHANGED <<result, control, stop>>,
         Ahead(r) => Ahead(work[w]) \/ queue = "pending",
         queue' = queue \/ Ahead(work[w]) \/ queue = "pending"
  PROVE  Clean'
<1>1. /\ \A v \in Workers : v # w => work'[v] = work[v]
      /\ work'[w] = r
  BY DEF Work, TInv, WorkTyped
<1>2. Reusable' => Reusable
  <2>1. CASE Ahead(work[w]) \/ queue = "pending"
    BY <2>1 DEF Reusable
  <2>2. CASE ~Ahead(work[w]) /\ queue # "pending"
    <3>1. \A v \in Workers : Ahead(work'[v]) => Ahead(work[v])
      BY <1>1, <2>2
    <3> QED
      BY <2>2, <3>1 DEF Reusable, Ahead, Owns
  <2> QED
    BY <2>1, <2>2
<1> QED
  BY <1>2, RemainsClean

LEMMA StandbySteps ==
  ASSUME TInv, OInv, Clean, NEW w \in Workers,
         Claim(w) \/ Feed(w) \/ Put(w) \/ Begin(w) \/ Load(w) \/ Save(w) \/ Pause(w)
  PROVE  Clean'
<1>1. UNCHANGED <<result, control, stop>> /\ work[w] \in Worker /\ PhaseRight(work[w])
  BY WorkRecord DEF Claim, Feed, Put, Begin, Load, Save, Pause, files, WorkerOnly, OInv, Phased
<1>2. CASE Claim(w)
  <2>1. queue = "pending" /\ Work(w, [AtRest EXCEPT !.pc = "feed"])
    BY <1>2 DEF Claim
  <2> QED
    BY <1>1, <2>1, StandbyClean
<1>3. CASE Feed(w)
  <2>1. PICK r : r = [work[w] EXCEPT !.pc = "put", !.status = Derived(queue, Effective)]
    OBVIOUS
  <2>2. Work(w, r) /\ queue' = queue /\ work[w].pc = "feed"
    BY <1>3, <2>1 DEF Feed, QueueVars
  <2>3. r.pc = "put" /\ r.phase = work[w].phase
    BY <1>1, <2>1 DEF Worker
  <2>4. Ahead(r) => Ahead(work[w])
    BY <2>2, <2>3 DEF Ahead, Owns, Executing
  <2> QED
    BY <1>1, <2>2, <2>4, StandbyClean
<1>4. CASE Put(w)
  <2>1. work[w].pc = "put" /\ queue' = queue
    BY <1>4 DEF Put, QueueVars
  <2>2. PICK r : Work(w, r) /\ \/ r = AtRest
                               \/ work[w].phase \in {"claimed", "started"}
                                  /\ \E x \in {"begin", "init"} : r = [work[w] EXCEPT !.pc = x]
    BY <1>4 DEF Put
  <2>3. Ahead(r) => Ahead(work[w])
    BY <2>1, <2>2 DEF Ahead, Owns, Executing, AtRest
  <2> QED
    BY <1>1, <2>1, <2>2, <2>3, StandbyClean
<1>5. CASE Begin(w)
  <2>1. work[w].pc = "begin" /\ work[w].phase = "claimed" /\ queue' = queue
    BY <1>1, <1>5 DEF Begin, QueueVars, PhaseRight
  <2>2. PICK r : Work(w, r)
    BY <1>5 DEF Begin
  <2>3. Ahead(work[w])
    BY <2>1 DEF Ahead, Owns, Executing
  <2> QED
    BY <1>1, <2>1, <2>2, <2>3, StandbyClean
<1>6. CASE Load(w)
  <2>1. PICK r : r = [work[w] EXCEPT !.pc = "save", !.entry = entry]
    OBVIOUS
  <2>2. Work(w, r) /\ queue' = queue /\ work[w].pc = "load"
    BY <1>6, <2>1 DEF Load, QueueVars
  <2>3. r.pc = "save" /\ r.phase = work[w].phase
    BY <1>1, <2>1 DEF Worker
  <2>4. Ahead(r) => Ahead(work[w])
    BY <2>2, <2>3 DEF Ahead, Owns, Executing
  <2> QED
    BY <1>1, <2>2, <2>4, StandbyClean
<1>7. CASE Save(w)
  <2>1. PICK r : r = [work[w] EXCEPT !.entry = None, !.pc = IF work[w].phase = "paused" THEN "pause" ELSE "feed"]
    OBVIOUS
  <2>2. Work(w, r) /\ queue' = queue /\ work[w].pc = "save"
    BY <1>7, <2>1 DEF Save, QueueVars
  <2>3. r.phase = work[w].phase
    BY <1>1, <2>1 DEF Worker
  <2>4. Ahead(r) => Ahead(work[w])
    BY <2>2, <2>3 DEF Ahead, Owns, Executing
  <2> QED
    BY <1>1, <2>2, <2>4, StandbyClean
<1>8. CASE Pause(w)
  <2>1. work[w].pc = "pause" /\ work[w].phase = "paused"
    BY <1>1, <1>8 DEF Pause, PhaseRight
  <2>2. PICK r : Work(w, r)
    BY <1>8 DEF Pause
  <2>3. Ahead(work[w])
    BY <2>1 DEF Ahead, Owns, Executing
  <2> QED
    BY <1>1, <2>2, <2>3, StandbyClean
<1> QED
  BY <1>2, <1>3, <1>4, <1>5, <1>6, <1>7, <1>8

LEMMA ExecutorClean ==
  ASSUME TInv, OInv, Followed, Clean, NEW w \in Workers, ExecutorStep(w) \/ Judge(w)
  PROVE  Clean'
<1>1. work[w] \in Worker /\ UNCHANGED <<queue, stop>>
  BY WorkRecord DEF ExecutorStep, Initialize, Refuse, Spawn, RecordRead, RecordWrite, RecordFails, Reap, Expire,
                    Drain, Check, EndRead, EndWrite, Reread, Judge, QueueVars, WorkerOnly
<1>2. Owns(work[w])
  <2>1. work[w].pc \in Executing \cup {"init", "verdict"}
    BY DEF ExecutorStep, Initialize, Refuse, Spawn, RecordRead, RecordWrite, RecordFails, Reap, Expire,
           Drain, Check, EndRead, EndWrite, Reread, Judge, Executing
  <2> QED
    BY <2>1 DEF OInv, Phased, PhaseRight, Owns, Executing
<1>3. ASSUME NEW pc, NEW x, NEW y
      PROVE  /\ [work[w] EXCEPT !.pc = pc].pc = pc
             /\ [work[w] EXCEPT !.pc = pc, !.code = x].pc = pc
             /\ [work[w] EXCEPT !.pc = pc, !.verdict = x].pc = pc
             /\ [work[w] EXCEPT !.pc = pc, !.control = y].pc = pc
  BY <1>1 DEF Worker
<1> DEFINE Goes(pc) == \E r : Work(w, r) /\ r.pc = pc
<1>4. \E pc \in Executing \cup {"verdict", "settle"} : Goes(pc)
  <2>1. ASSUME NEW pc, Work(w, [work[w] EXCEPT !.pc = pc]) PROVE Goes(pc)
    BY <1>3, <2>1
  <2>2. ASSUME NEW pc, NEW x, Work(w, [work[w] EXCEPT !.pc = pc, !.code = x]) PROVE Goes(pc)
    BY <1>3, <2>2
  <2>3. ASSUME NEW pc, NEW x, Work(w, [work[w] EXCEPT !.pc = pc, !.control = x]) PROVE Goes(pc)
    BY <1>3, <2>3
  <2>4. ASSUME NEW pc, NEW x, Work(w, [work[w] EXCEPT !.pc = pc, !.verdict = x]) PROVE Goes(pc)
    BY <1>3, <2>4
  <2> HIDE DEF Goes
  <2>5. CASE Initialize(w) \/ Spawn(w) \/ Drain(w)
    BY <2>1, <2>5 DEF Initialize, Spawn, Drain, Executing
  <2>6. CASE RecordRead(w) \/ RecordWrite(w) \/ RecordFails(w) \/ EndRead(w) \/ EndWrite(w)
    BY <2>3, <2>6 DEF RecordRead, RecordWrite, RecordFails, EndRead, EndWrite, Executing
  <2>7. CASE Reap(w) \/ Expire(w)
    BY <2>2, <2>7 DEF Reap, Expire, Executing
  <2>8. CASE Check(w) \/ Reread(w) \/ Refuse(w)
    BY <2>2, <2>8 DEF Check, Reread, Refuse, Finished, Executing
  <2>9. CASE Judge(w)
    BY <2>4, <2>9 DEF Judge
  <2> QED
    BY <2>5, <2>6, <2>7, <2>8, <2>9 DEF ExecutorStep
<1>5. PICK r : Work(w, r) /\ r.pc \in Executing \cup {"verdict", "settle"}
  BY <1>4
<1>6. ~Reusable'
  BY <1>1, <1>2, <1>5, BusyClean
<1>7. \A s \in Stoppers : KeepsOut(stop[s])'
  <2>1. CASE AtTheFiles(w)
    <3>1. \A s \in Stoppers : stop'[s].pc = "idle"
      BY <1>1, <2>1, AloneAtFiles DEF Followed
    <3> QED
      BY <3>1 DEF KeepsOut
  <2>2. CASE ~AtTheFiles(w)
    <3>1. work[w].pc \in {"idle", "wait", "drain"}
      BY <2>2 DEF AtTheFiles
    <3>2. control' = control
      BY <3>1 DEF ExecutorStep, Initialize, Refuse, Spawn, RecordRead, RecordWrite, RecordFails, Reap, Expire,
                  Drain, Check, EndRead, EndWrite, Reread, Judge, files
    <3> QED
      BY <1>1, <3>2 DEF Clean, KeepsOut
  <2> QED
    BY <2>1, <2>2
<1> QED
  BY <1>6, <1>7 DEF Clean

LEMMA SettleClean ==
  ASSUME TInv, OInv, Followed, Clean, NEW w \in Workers, Settle(w) PROVE Clean'
<1>1. /\ work[w].pc = "settle" /\ queue' = Destination(work[w])
      /\ UNCHANGED <<result, control, stop>>
  BY DEF Settle, files, WorkerOnly
<1>2. Owns(work[w])
  BY <1>1 DEF OInv, Phased, PhaseRight, Owns
<1>3. ResultFits(work[w]) /\ work[w].verdict = Effective
  BY <1>1, <1>2, Knowing DEF OwnerKnows
<1>4. Effective # "cancelled" /\ work[w].code # 0 => Unmarred
  BY <1>3, VerdictsRight DEF TInv, StateTyped, HistoryTyped, FilesTyped
<1>5. queue' \in {"pending", "awaiting_approval"} => Unmarred
  BY <1>1, <1>3, <1>4 DEF Destination
<1>6. PICK r : r = [AtRest EXCEPT !.pc = "load", !.phase = "finished", !.status = Settled(work[w], Destination(work[w]))]
  OBVIOUS
<1>7. /\ \A v \in Workers : v # w => work'[v] = work[v]
      /\ work'[w] = r
  BY <1>6 DEF Settle, Work, TInv, WorkTyped
<1>8. r.phase = "finished"
  BY <1>6 DEF AtRest
<1>9. \A v \in Workers : ~Ahead(work'[v])
  BY <1>2, <1>7, <1>8 DEF Ahead, Owns, OInv, OneOwner
<1>10. Reusable' => Unmarred'
  BY <1>1, <1>5, <1>9 DEF Reusable, Ahead, Owns, Unmarred
<1>11. \A s \in Stoppers : KeepsOut(stop[s])'
  BY <1>1 DEF Clean, KeepsOut
<1> QED
  BY <1>10, <1>11 DEF Clean

\* A command on its way.
LEMMA CommandClean ==
  ASSUME TInv, Clean, NEW s \in Stoppers, NEW r, Stop(s, r),
         UNCHANGED <<result, control, work>>, queue' = queue \/ queue' = "failed", KeepsOut(r)
  PROVE  Clean'
<1>1. stop'[s] = r /\ \A q \in Stoppers : q # s => stop'[q] = stop[q]
  BY DEF Stop, TInv, StopTyped
<1>2. \A q \in Stoppers : KeepsOut(stop[q])'
  BY <1>1 DEF Clean, KeepsOut
<1>3. Reusable' => Reusable
  BY DEF Reusable, Ahead, Owns
<1>4. Reusable' => Unmarred'
  BY <1>3 DEF Clean, Unmarred
<1> QED
  BY <1>2, <1>4 DEF Clean

LEMMA QuietCommands ==
  ASSUME TInv, Clean, NEW s \in Stoppers, StopperStep(s), ~MarkWrite(s), ~FinWrite(s)
  PROVE  Clean'
<1>1. stop[s] \in Stopper
  BY Commanding DEF StopperGood
<1>2. UNCHANGED <<result, control, work>> /\ (queue' = queue \/ queue' = "failed")
  BY DEF StopperStep, StopperOnly, Command, Where, Withdraw, VoidLoad, VoidSave, VoidPut, Look, MarkRead,
         Signal, FinRead, Reload, SyncRead, SyncWrite, Update
<1>3. ASSUME NEW r, r.pc \notin {"mark_write", "fin_read", "fin_write"} PROVE KeepsOut(r)
  BY <1>3 DEF KeepsOut
<1>4. CASE Command(s)
  <2>1. PICK r : Stop(s, r) /\ ((\E f \in BOOLEAN : r = [NoCommand EXCEPT !.pc = "look", !.force = f])
                                \/ r = [NoCommand EXCEPT !.pc = "where", !.cmd = "cancel"])
    BY <1>4 DEF Command
  <2>2. r.pc \in {"look", "where"}
    BY <2>1 DEF NoCommand
  <2> QED
    BY <1>2, <1>3, <2>1, <2>2, CommandClean
<1>5. CASE Where(s)
  <2>1. PICK r : Stop(s, r) /\ r \in {[stop[s] EXCEPT !.pc = "look"], [stop[s] EXCEPT !.pc = "withdraw"], NoCommand}
    BY <1>5 DEF Where
  <2>2. r.pc \in {"look", "withdraw", "idle"}
    BY <1>1, <2>1, RestKnows DEF Stopper
  <2> QED
    BY <1>2, <1>3, <2>1, <2>2, CommandClean
<1>6. CASE Withdraw(s) \/ VoidLoad(s) \/ VoidSave(s) \/ VoidPut(s)
  <2>1. PICK r : Stop(s, r) /\ \/ r = [stop[s] EXCEPT !.pc = "void_load"]
                               \/ r = [stop[s] EXCEPT !.pc = "void_save", !.entry = entry]
                               \/ r = [stop[s] EXCEPT !.pc = "void_put", !.entry = None]
                               \/ r = NoCommand
    BY <1>6 DEF Withdraw, VoidLoad, VoidSave, VoidPut
  <2>2. r.pc \in {"void_load", "void_save", "void_put", "idle"}
    BY <1>1, <2>1, RestKnows DEF Stopper
  <2> QED
    BY <1>2, <1>3, <2>1, <2>2, CommandClean
<1>7. CASE Look(s)
  <2>1. PICK r : Stop(s, r) /\ \/ r = NoCommand
                               \/ r = [stop[s] EXCEPT !.pc = "update"]
                               \/ r = [stop[s] EXCEPT !.pc = "mark_read"]
                               \/ r = [stop[s] EXCEPT !.pc = "sync_read", !.res = "unsupported",
                                         !.control = [Fresh EXCEPT !.req = TRUE, !.out = "unsupported"]]
    BY <1>7 DEF Look
  <2>2. r.pc \in {"update", "mark_read", "sync_read", "idle"}
    BY <1>1, <2>1, RestKnows DEF Stopper
  <2> QED
    BY <1>2, <1>3, <2>1, <2>2, CommandClean
<1>8. CASE MarkRead(s)
  <2>1. PICK r : Stop(s, r) /\ \/ r = [stop[s] EXCEPT !.pc = "reload", !.res = "missing_control"]
                               \/ control # None /\ r = [stop[s] EXCEPT !.pc = "mark_write", !.control = control]
    BY <1>8 DEF MarkRead
  <2>2. r.pc = "reload" \/ (r.pc = "mark_write" /\ control # None /\ r.control = control)
    BY <1>1, <2>1 DEF Stopper
  <2>3. KeepsOut(r)
    BY <2>2 DEF KeepsOut
  <2> QED
    BY <1>2, <2>1, <2>3, CommandClean
<1>9. CASE Signal(s)
  <2>1. PICK v \in {"requested", "not_running"} : Stop(s, [stop[s] EXCEPT !.pc = "fin_read", !.force = FALSE, !.res = v])
    BY <1>9 DEF Signal
  <2>2. PICK r : r = [stop[s] EXCEPT !.pc = "fin_read", !.force = FALSE, !.res = v]
    OBVIOUS
  <2>3. r.pc = "fin_read" /\ r.res = v
    BY <1>1, <2>2 DEF Stopper
  <2>4. KeepsOut(r)
    BY <2>3 DEF KeepsOut
  <2> QED
    BY <1>2, <2>1, <2>2, <2>4, CommandClean
<1>10. CASE FinRead(s)
  <2>1. PICK r : r = [stop[s] EXCEPT !.pc = "fin_write", !.control = control]
    OBVIOUS
  <2>2. Stop(s, r) /\ stop[s].pc = "fin_read"
    BY <1>10, <2>1 DEF FinRead
  <2>3. r.pc = "fin_write" /\ r.res = stop[s].res
    BY <1>1, <2>1 DEF Stopper
  <2>4. KeepsOut(r)
    BY <2>2, <2>3 DEF Clean, KeepsOut
  <2> QED
    BY <1>2, <2>2, <2>4, CommandClean
<1>11. CASE Reload(s)
  <2>1. PICK r : r = [stop[s] EXCEPT !.pc = "sync_read", !.control = control]
    OBVIOUS
  <2>2. Stop(s, r) /\ r.pc = "sync_read"
    BY <1>1, <1>11, <2>1 DEF Reload, Stopper
  <2> QED
    BY <1>2, <1>3, <2>2, CommandClean
<1>12. CASE SyncRead(s) \/ SyncWrite(s) \/ Update(s)
  <2>1. PICK r : Stop(s, r) /\ \/ r = NoCommand
                               \/ r = [stop[s] EXCEPT !.pc = "update", !.control = None, !.entry = None]
                               \/ r = [stop[s] EXCEPT !.pc = "sync_write", !.entry = entry]
    BY <1>12 DEF SyncRead, SyncWrite, Update, AfterSync
  <2>2. r.pc \in {"update", "sync_write", "idle"}
    BY <1>1, <2>1, RestKnows DEF Stopper
  <2> QED
    BY <1>2, <1>3, <2>1, <2>2, CommandClean
<1> QED
  BY <1>4, <1>5, <1>6, <1>7, <1>8, <1>9, <1>10, <1>11, <1>12 DEF StopperStep

\* A command that writes the control file says killed only where it said so before.
LEMMA MarksClean ==
  ASSUME TInv, Followed, Clean, NEW s \in Stoppers, MarkWrite(s) \/ FinWrite(s), ~Overlapping'
  PROVE  Clean'
<1>1. /\ stop[s] \in Stopper /\ stop[s].pc \in {"mark_write", "fin_write"} /\ stop[s].control \in Control
      /\ UNCHANGED <<queue, result, work>> /\ KeepsOut(stop[s])
  BY Commanding DEF MarkWrite, FinWrite, StopperOnly, StopperGood, Stopper, Clean
<1>2. control'.out = "killed" => control # None /\ control.out = "killed"
  <2>1. CASE MarkWrite(s)
    <3>1. stop[s].pc = "mark_write" /\ control' = [stop[s].control EXCEPT !.req = TRUE]
      BY <2>1 DEF MarkWrite
    <3>2. control'.out = stop[s].control.out
      BY <1>1, <3>1 DEF Control
    <3> QED
      BY <1>1, <3>1, <3>2 DEF KeepsOut
  <2>2. CASE FinWrite(s)
    <3>1. stop[s].pc = "fin_write" /\ control' = [stop[s].control EXCEPT !.out = stop[s].res]
      BY <2>2 DEF FinWrite
    <3>2. control'.out = stop[s].res
      BY <1>1, <3>1 DEF Control
    <3> QED
      BY <1>1, <3>1, <3>2 DEF KeepsOut
  <2> QED
    BY <2>1, <2>2
<1>3. PICK r : Stop(s, r) /\ \/ r = [stop[s] EXCEPT !.pc = "signal", !.control = [stop[s].control EXCEPT !.req = TRUE]]
                             \/ r = [stop[s] EXCEPT !.pc = "reload"]
  BY DEF MarkWrite, FinWrite
<1>4. r.pc \in {"signal", "reload"}
  BY <1>1, <1>3 DEF Stopper
<1>5. stop'[s] = r /\ \A q \in Stoppers : q # s => stop'[q].pc = "idle"
  BY <1>1, <1>3, AloneInCommand
<1>6. \A q \in Stoppers : KeepsOut(stop[q])'
  BY <1>4, <1>5 DEF KeepsOut
<1>7. Reusable' => Reusable
  BY <1>1 DEF Reusable, Ahead, Owns
<1>8. Reusable' => Unmarred'
  BY <1>1, <1>2, <1>7 DEF Clean, Unmarred
<1> QED
  BY <1>6, <1>8 DEF Clean

LEMMA StepClean == TInv /\ OInv /\ RInv /\ UInv /\ [Next]_vars => UInv'
<1> SUFFICES ASSUME TInv, OInv, RInv, UInv, [Next]_vars, ~overlap' PROVE Clean'
  BY DEF UInv
<1>1. ~overlap /\ Followed /\ Clean
  <2>1. ~overlap
    BY DEF Next, vars
  <2> QED
    BY <2>1 DEF RInv, UInv
<1>2. CASE UNCHANGED vars
  BY <1>1, <1>2, RemainsClean DEF vars, files, Reusable, Ahead, Owns
<1>3. CASE \E a \in Runs : AgentStep(a)
  BY <1>1, <1>3, RemainsClean DEF AgentStep, files, Reusable, Ahead, Owns
<1>4. CASE Evict \/ Approve \/ Resolve
  BY <1>1, <1>4, RemainsClean DEF Evict, Approve, Resolve, files, Reusable, Ahead, Owns
<1>5. CASE Act /\ overlap' = (overlap \/ Overlapping')
  <2>1. ~Overlapping'
    BY <1>5
  <2>2. ASSUME NEW w \in Workers, WorkerStep(w) PROVE Clean'
    BY <1>1, <2>2, StandbySteps, ExecutorClean, SettleClean DEF WorkerStep
  <2>3. ASSUME NEW s \in Stoppers, StopperStep(s) PROVE Clean'
    BY <1>1, <2>1, <2>3, QuietCommands, MarksClean
  <2> QED
    BY <1>3, <1>4, <1>5, <2>2, <2>3 DEF Act
<1> QED
  BY <1>2, <1>4, <1>5 DEF Next

LEMMA InitClean == Init => UInv
<1> SUFFICES ASSUME Init PROVE Clean
  BY DEF UInv
<1>1. result.status = "created" /\ result.out = None /\ control = None
  BY DEF Init
<1>2. Unmarred
  BY <1>1, NoneAssumption DEF Unmarred
<1>3. \A s \in Stoppers : KeepsOut(stop[s])
  BY DEF Init, KeepsOut, NoCommand
<1> QED
  BY <1>2, <1>3 DEF Clean

LEMMA Always == Spec => [](TInv /\ OInv /\ RInv /\ UInv)
<1>1. Init => TInv /\ OInv /\ RInv /\ UInv
  BY InitTyped, InitOwned, InitFollowed, InitClean
<1>2. (TInv /\ OInv /\ RInv /\ UInv) /\ [Next]_vars => (TInv /\ OInv /\ RInv /\ UInv)'
  BY StepTyped, StepOwned, StepFollowed, StepClean
<1> QED
  BY <1>1, <1>2, PTL DEF Spec

LEMMA AtPeaceRight == RInv /\ ~overlap /\ AtPeace => RecordRight /\ EntryRight
  BY DEF RInv, Followed, Calm, AtPeace, Voiding

\* As long as no command has run while a worker was at the files, the operator
\* job says what has become of the item whenever both are at rest: for any number
\* of workers, commands, retries and executions.
THEOREM RecordFollows == Spec => []RecordAgrees
<1>1. RInv => RecordAgrees
  BY AtPeaceRight DEF RecordAgrees
<1> QED
  BY Always, <1>1, PTL

\* And so does the entry of the task, unless it has been evicted, which only
\* one that is over has.
THEOREM EntryFollows == Spec => []EntryAgrees
<1>1. RInv => EntryAgrees
  BY AtPeaceRight DEF EntryAgrees
<1> QED
  BY Always, <1>1, PTL

\* An item leaves running when its worker pauses or settles it.
LEMMA LeavesRunning ==
  ASSUME TInv, [Next]_vars, queue = "running", queue' # "running"
  PROVE  \E w \in Workers : Pause(w) \/ Settle(w)
<1>1. ~UNCHANGED vars
  BY DEF vars
<1>2. ~Approve /\ ~Resolve /\ ~Evict
  BY DEF Approve, Resolve, Evict
<1>3. ASSUME NEW a \in Runs, AgentStep(a) PROVE FALSE
  BY <1>3 DEF AgentStep
<1>4. ASSUME NEW s \in Stoppers, StopperStep(s) PROVE FALSE
  <2>1. CASE Withdraw(s)
    BY <2>1 DEF Withdraw
  <2>2. CASE Command(s) \/ Where(s) \/ VoidLoad(s) \/ VoidSave(s) \/ VoidPut(s) \/ Look(s) \/ MarkRead(s) \/ MarkWrite(s)
    BY <2>2 DEF Command, Where, VoidLoad, VoidSave, VoidPut, Look, MarkRead, MarkWrite
  <2>3. CASE Signal(s) \/ FinRead(s) \/ FinWrite(s) \/ Reload(s) \/ SyncRead(s) \/ SyncWrite(s) \/ Update(s)
    BY <2>3 DEF Signal, FinRead, FinWrite, Reload, SyncRead, SyncWrite, Update
  <2> QED BY <1>4, <2>1, <2>2, <2>3 DEF StopperStep
<1>5. ASSUME NEW w \in Workers, WorkerStep(w) PROVE Pause(w) \/ Settle(w)
  <2>1. CASE Claim(w) \/ Feed(w) \/ Put(w) \/ Begin(w) \/ Load(w) \/ Save(w) \/ Judge(w)
    BY <2>1 DEF Claim, Feed, Put, Begin, Load, Save, Judge, QueueVars
  <2>2. CASE Initialize(w) \/ Spawn(w) \/ RecordRead(w) \/ RecordWrite(w) \/ RecordFails(w) \/ Reap(w)
    BY <2>2 DEF Initialize, Spawn, RecordRead, RecordWrite, RecordFails, Reap, QueueVars
  <2>3. CASE Refuse(w) \/ Expire(w) \/ Drain(w) \/ Check(w) \/ EndRead(w) \/ EndWrite(w) \/ Reread(w)
    BY <2>3 DEF Refuse, Expire, Drain, Check, EndRead, EndWrite, Reread, QueueVars
  <2> QED BY <1>5, <2>1, <2>2, <2>3 DEF WorkerStep, ExecutorStep
<1> QED
  BY <1>1, <1>2, <1>3, <1>4, <1>5 DEF Next, Act

\* What is known when an item leaves running without overlap.
LEMMA LeavesAsTold ==
  ASSUME TInv, OInv, RInv, [Next]_vars, queue = "running", queue' # "running", ~overlap'
  PROVE  (signalled => queue' = "failed") /\ (queue' = "failed" => asked)
<1>1. Followed
  BY DEF RInv, Next, vars
<1>2. PICK w \in Workers : Pause(w) \/ Settle(w)
  BY LeavesRunning
<1>3. CASE Pause(w)
  <2>1. work[w].pc = "pause" /\ queue' = "awaiting_approval"
    BY <1>3 DEF Pause
  <2>2. Owns(work[w])
    BY <2>1 DEF OInv, Phased, PhaseRight, Owns
  <2>3. ~signalled
    BY <1>1, <2>1, <2>2, Knowing DEF OwnerKnows, Early
  <2> QED BY <2>1, <2>3
<1>4. CASE Settle(w)
  <2>1. work[w].pc = "settle" /\ queue' = Destination(work[w])
    BY <1>4 DEF Settle
  <2>2. Owns(work[w])
    BY <2>1 DEF OInv, Phased, PhaseRight, Owns
  <2>3. ResultFits(work[w]) /\ work[w].verdict = Effective
    BY <1>1, <2>1, <2>2, Knowing DEF OwnerKnows
  <2>4. (signalled => Effective = "cancelled") /\ (Effective = "cancelled" => asked)
    BY <2>3, VerdictsRight DEF TInv, StateTyped, HistoryTyped, FilesTyped
  <2> QED BY <2>1, <2>3, <2>4 DEF Destination
<1> QED
  BY <1>2, <1>3, <1>4

\* A run whose agent was sent a signal goes to failed, whatever the agent
\* answered and whatever code it exited with: neither done, retried nor sent to
\* an approval.
THEOREM StopHeeded == Spec => StopWins
<1> DEFINE Heard == queue = "running" /\ queue' # "running" /\ signalled /\ ~overlap' => queue' = "failed"
<1>1. TInv /\ OInv /\ RInv /\ [Next]_vars => [Heard]_vars
  BY LeavesAsTold
<1> QED
  BY Always, <1>1, PTL DEF Spec, StopWins

\* A worker writes a run off as cancelled only when a stop of that execution was
\* written down: one of an earlier execution does not count.
THEOREM CancelEarned == Spec => CancelledWhenAsked
<1> DEFINE Earned == queue = "running" /\ queue' = "failed" /\ ~overlap' => asked
<1>1. TInv /\ OInv /\ RInv /\ [Next]_vars => [Earned]_vars
  BY LeavesAsTold
<1> QED
  BY Always, <1>1, PTL DEF Spec, CancelledWhenAsked

------------------------------------------------------------------------------
(* The item moves as the queue promises *)

\* The lifecycle's view of the item, and what of it a worker's record shows.
Item == [j \in {"job"} |-> {queue}]
Preparers == [j \in {"job"} |-> {w \in Workers : Preparing(w)}]
Executors == [j \in {"job"} |-> {w \in Workers : InExecuteJob(w)}]

Readying(r) == r.pc \in {"feed", "put", "begin", "load", "save"} /\ r.phase \in {"claimed", "started"}
Executes(r) == r.pc \in Executing \cup {"init"}

LifeStep == [Lifecycle!Next \/ Lifecycle!Cancel("job")]_(Lifecycle!lifecycle)

LEMMA LifeStutters ==
  ASSUME Item' = Item, Preparers' = Preparers, Executors' = Executors
  PROVE  LifeStep
  BY DEF LifeStep, Lifecycle!lifecycle, Item, Preparers, Executors

LEMMA LifeClaims ==
  ASSUME NEW w \in Workers, queue = "pending", queue' = "running",
         Preparers["job"] = {}, Executors["job"] = {},
         Preparers' = [Preparers EXCEPT !["job"] = {w}], Executors' = Executors
  PROVE  LifeStep
<1>1. Item["job"] = {"pending"} /\ Item' = [Item EXCEPT !["job"] = {"running"}]
  BY DEF Item
<1>2. Lifecycle!Claim("job", w)
  BY <1>1 DEF Lifecycle!Claim, Lifecycle!Goes, Item, Preparers, Executors
<1> QED
  BY <1>2 DEF LifeStep, Lifecycle!Next

LEMMA LifeStarts ==
  ASSUME NEW w \in Workers, queue = "running", queue' = queue,
         Preparers["job"] = {w}, Executors["job"] = {},
         Preparers' = [Preparers EXCEPT !["job"] = {}], Executors' = [Executors EXCEPT !["job"] = {w}]
  PROVE  LifeStep
<1>1. Item["job"] = {"running"} /\ Item' = Item
  BY DEF Item
<1>2. Lifecycle!Start("job", w)
  BY <1>1 DEF Lifecycle!Start, Item, Preparers, Executors
<1> QED
  BY <1>2 DEF LifeStep, Lifecycle!Next

LEMMA LifeReleases ==
  ASSUME queue' = queue,
         Preparers' = [Preparers EXCEPT !["job"] = {}], Executors' = [Executors EXCEPT !["job"] = {}]
  PROVE  LifeStep
<1>1. Item' = Item
  BY DEF Item
<1>2. Lifecycle!Release("job")
  BY <1>1 DEF Lifecycle!Release, Item, Preparers, Executors
<1> QED
  BY <1>2 DEF LifeStep, Lifecycle!Next

LEMMA LifeSettles ==
  ASSUME queue = "running", Preparers["job"] = {}, Executors["job"] = {},
         Preparers' = Preparers, Executors' = Executors,
         queue' \in {"done", "failed", "dead_letter", "awaiting_approval", "pending"}
  PROVE  LifeStep
<1>1. PICK d \in {"done", "failed", "dead_letter", "awaiting_approval", "pending"} : d = queue'
  OBVIOUS
<1>2. Item["job"] = {"running"} /\ Item' = [Item EXCEPT !["job"] = {d}]
  BY <1>1 DEF Item
<1>3. Lifecycle!Settle("job")
  BY <1>2 DEF Lifecycle!Settle, Lifecycle!Goes, Item, Preparers, Executors
<1> QED
  BY <1>3 DEF LifeStep, Lifecycle!Next

\* The decisions of people, and the withdrawal by one.
LEMMA LifeDecides ==
  ASSUME Preparers' = Preparers, Executors' = Executors,
         \/ queue = "awaiting_approval" /\ queue' \in {"pending", "failed"}
         \/ queue = "pending" /\ queue' = "failed"
  PROVE  LifeStep
<1>1. Item["job"] = {queue} /\ Item' = [Item EXCEPT !["job"] = {queue'}]
  BY DEF Item
<1>2. CASE queue = "awaiting_approval"
  <2>1. Lifecycle!Decide("job")
    BY <1>1, <1>2 DEF Lifecycle!Decide, Lifecycle!Goes, Item, Preparers, Executors
  <2> QED
    BY <2>1 DEF LifeStep, Lifecycle!Next
<1>3. CASE queue = "pending"
  <2>1. Lifecycle!Cancel("job")
    BY <1>1, <1>3 DEF Lifecycle!Cancel, Lifecycle!Goes, Item, Preparers, Executors
  <2> QED
    BY <2>1 DEF LifeStep
<1> QED
  BY <1>2, <1>3

\* The view is that of the workers' records.
LEMMA HandsShown ==
  /\ Preparers = [j \in {"job"} |-> {w \in Workers : Readying(work[w])}]
  /\ Executors = [j \in {"job"} |-> {w \in Workers : Executes(work[w])}]
<1>1. \A w \in Workers : Preparing(w) <=> Readying(work[w])
  BY DEF Preparing, Readying
<1>2. \A w \in Workers : InExecuteJob(w) <=> Executes(work[w])
  BY DEF InExecuteJob, Executes, Executing, WorkerPCs
<1>3. {w \in Workers : Preparing(w)} = {w \in Workers : Readying(work[w])}
  BY <1>1
<1>4. {w \in Workers : InExecuteJob(w)} = {w \in Workers : Executes(work[w])}
  BY <1>2
<1> QED
  BY <1>3, <1>4 DEF Preparers, Executors

\* ... and so it is after a step.
LEMMA HandsShownNext ==
  /\ Preparers' = [j \in {"job"} |-> {w \in Workers : Readying(work'[w])}]
  /\ Executors' = [j \in {"job"} |-> {w \in Workers : Executes(work'[w])}]
<1>1. \A w \in Workers : Preparing(w)' <=> Readying(work'[w])
  BY DEF Preparing, Readying
<1>2. \A w \in Workers : InExecuteJob(w)' <=> Executes(work'[w])
  BY DEF InExecuteJob, Executes, Executing, WorkerPCs
<1>3. {w \in Workers : Preparing(w)'} = {w \in Workers : Readying(work'[w])}
  BY <1>1
<1>4. {w \in Workers : InExecuteJob(w)'} = {w \in Workers : Executes(work'[w])}
  BY <1>2
<1> QED
  BY <1>3, <1>4 DEF Preparers, Executors

\* Whoever prepares or executes the run owns the item.
LEMMA HandsOwn ==
  ASSUME OInv, NEW w \in Workers, Readying(work[w]) \/ Executes(work[w])
  PROVE  Owns(work[w])
  BY DEF OInv, Phased, PhaseRight, Readying, Executes, Executing, Owns

\* A step that leaves the item and the role of its worker alone.
LEMMA RoleKept ==
  ASSUME TInv, NEW w \in Workers, NEW r, Work(w, r), queue' = queue,
         Readying(r) <=> Readying(work[w]), Executes(r) <=> Executes(work[w])
  PROVE  LifeStep
<1>1. /\ \A v \in Workers : v # w => work'[v] = work[v]
      /\ work'[w] = r
  BY DEF Work, TInv, WorkTyped
<1>2. /\ {v \in Workers : Readying(work'[v])} = {v \in Workers : Readying(work[v])}
      /\ {v \in Workers : Executes(work'[v])} = {v \in Workers : Executes(work[v])}
  BY <1>1
<1>3. /\ Preparers' = [j \in {"job"} |-> {v \in Workers : Readying(work'[v])}]
      /\ Executors' = [j \in {"job"} |-> {v \in Workers : Executes(work'[v])}]
  BY HandsShownNext
<1>4. Preparers' = Preparers /\ Executors' = Executors /\ Item' = Item
  BY <1>2, <1>3, HandsShown DEF Item
<1> QED
  BY <1>4, LifeStutters

\* The view before and after a step of the owner: nobody else is in it.
LEMMA OwnerSeen ==
  ASSUME TInv, OInv, NEW w \in Workers, NEW r, Work(w, r), Owns(work[w])
  PROVE  /\ Preparers = [j \in {"job"} |-> IF Readying(work[w]) THEN {w} ELSE {}]
         /\ Executors = [j \in {"job"} |-> IF Executes(work[w]) THEN {w} ELSE {}]
         /\ Preparers' = [j \in {"job"} |-> IF Readying(r) THEN {w} ELSE {}]
         /\ Executors' = [j \in {"job"} |-> IF Executes(r) THEN {w} ELSE {}]
<1>1. /\ \A v \in Workers : v # w => work'[v] = work[v]
      /\ work'[w] = r
  BY DEF Work, TInv, WorkTyped
<1>2. \A v \in Workers : v # w => ~Readying(work[v]) /\ ~Executes(work[v])
  BY OwnerAlone, HandsOwn
<1>3. /\ {v \in Workers : Readying(work[v])} = (IF Readying(work[w]) THEN {w} ELSE {})
      /\ {v \in Workers : Executes(work[v])} = (IF Executes(work[w]) THEN {w} ELSE {})
  BY <1>2
<1>4. /\ {v \in Workers : Readying(work'[v])} = (IF Readying(r) THEN {w} ELSE {})
      /\ {v \in Workers : Executes(work'[v])} = (IF Executes(r) THEN {w} ELSE {})
  BY <1>1, <1>2
<1>5. /\ Preparers' = [j \in {"job"} |-> {v \in Workers : Readying(work'[v])}]
      /\ Executors' = [j \in {"job"} |-> {v \in Workers : Executes(work'[v])}]
  BY HandsShownNext
<1> QED
  BY <1>3, <1>4, <1>5, HandsShown

\* The owner stops preparing or executing, and keeps the item for a while.
LEMMA OwnerReleases ==
  ASSUME TInv, OInv, NEW w \in Workers, NEW r, Work(w, r), Owns(work[w]), queue' = queue,
         ~Readying(r), ~Executes(r)
  PROVE  LifeStep
<1>1. Preparers' = [Preparers EXCEPT !["job"] = {}] /\ Executors' = [Executors EXCEPT !["job"] = {}]
  BY OwnerSeen
<1> QED
  BY <1>1, LifeReleases

\* The owner moves the item on.
LEMMA OwnerSettles ==
  ASSUME TInv, OInv, NEW w \in Workers, NEW r, Work(w, r), Owns(work[w]),
         ~Readying(work[w]), ~Executes(work[w]), ~Readying(r), ~Executes(r),
         queue' \in {"done", "failed", "dead_letter", "awaiting_approval", "pending"}
  PROVE  LifeStep
<1>1. queue = "running"
  BY DEF OInv, OneOwner
<1>2. /\ Preparers["job"] = {} /\ Executors["job"] = {}
      /\ Preparers' = Preparers /\ Executors' = Executors
  BY OwnerSeen
<1> QED
  BY <1>1, <1>2, LifeSettles

LEMMA ClaimLives == ASSUME TInv, OInv, NEW w \in Workers, Claim(w) PROVE LifeStep
<1> DEFINE r == [AtRest EXCEPT !.pc = "feed"]
<1>1. queue = "pending" /\ queue' = "running" /\ Work(w, r)
  BY DEF Claim
<1>2. r.pc = "feed" /\ r.phase = "claimed"
  BY DEF AtRest
<1>3. \A v \in Workers : ~Readying(work[v]) /\ ~Executes(work[v])
  BY <1>1, HandsOwn DEF OInv, OneOwner
<1> HIDE DEF r
<1>4. /\ \A v \in Workers : v # w => work'[v] = work[v]
      /\ work'[w] = r
  BY <1>1 DEF Work, TInv, WorkTyped
<1>5. Readying(r) /\ ~Executes(r)
  BY <1>2 DEF Readying, Executes, Executing
<1>6. /\ {v \in Workers : Readying(work[v])} = {} /\ {v \in Workers : Executes(work[v])} = {}
      /\ {v \in Workers : Readying(work'[v])} = {w} /\ {v \in Workers : Executes(work'[v])} = {}
  BY <1>3, <1>4, <1>5
<1>7. /\ Preparers' = [j \in {"job"} |-> {v \in Workers : Readying(work'[v])}]
      /\ Executors' = [j \in {"job"} |-> {v \in Workers : Executes(work'[v])}]
  BY HandsShownNext
<1>8. /\ Preparers["job"] = {} /\ Executors["job"] = {}
      /\ Preparers' = [Preparers EXCEPT !["job"] = {w}] /\ Executors' = Executors
  BY <1>6, <1>7, HandsShown
<1> QED
  BY <1>1, <1>8, LifeClaims

LEMMA PutLives == ASSUME TInv, OInv, NEW w \in Workers, Put(w) PROVE LifeStep
<1>1. work[w].pc = "put" /\ queue' = queue /\ work[w] \in Worker
  BY WorkRecord DEF Put, QueueVars
<1>2. CASE work[w].phase = "claimed"
  <2> DEFINE r == [work[w] EXCEPT !.pc = "begin"]
  <2>1. Work(w, r) /\ r.pc = "begin" /\ r.phase = "claimed"
    BY <1>1, <1>2 DEF Put, Worker
  <2> HIDE DEF r
  <2> QED
    BY <1>1, <1>2, <2>1, RoleKept DEF Readying, Executes, Executing
<1>3. CASE work[w].phase = "started"
  <2> DEFINE r == [work[w] EXCEPT !.pc = "init"]
  <2>1. Work(w, r) /\ r.pc = "init" /\ r.phase = "started"
    BY <1>1, <1>3 DEF Put, Worker
  <2> HIDE DEF r
  <2>2. Readying(work[w]) /\ ~Executes(work[w]) /\ ~Readying(r) /\ Executes(r)
    BY <1>1, <1>3, <2>1 DEF Readying, Executes, Executing
  <2>3. Owns(work[w]) /\ queue = "running"
    BY <2>2, HandsOwn DEF OInv, OneOwner
  <2>4. /\ Preparers["job"] = {w} /\ Executors["job"] = {}
        /\ Preparers' = [Preparers EXCEPT !["job"] = {}] /\ Executors' = [Executors EXCEPT !["job"] = {w}]
    BY <2>1, <2>2, <2>3, OwnerSeen
  <2> QED
    BY <1>1, <2>3, <2>4, LifeStarts
<1>4. CASE work[w].phase \notin {"claimed", "started"}
  <2>1. Work(w, AtRest) /\ AtRest.pc = "idle"
    BY <1>4 DEF Put, AtRest
  <2> QED
    BY <1>1, <1>4, <2>1, RoleKept DEF Readying, Executes, Executing
<1> QED
  BY <1>2, <1>3, <1>4

LEMMA BeginLives == ASSUME TInv, OInv, NEW w \in Workers, Begin(w) PROVE LifeStep
<1>1. work[w].pc = "begin" /\ work[w].phase = "claimed" /\ queue' = queue /\ work[w] \in Worker
  BY WorkRecord DEF Begin, QueueVars, OInv, Phased, PhaseRight
<1>2. CASE Work(w, [work[w] EXCEPT !.pc = "load", !.phase = "started", !.status = "running"])
  <2> DEFINE r == [work[w] EXCEPT !.pc = "load", !.phase = "started", !.status = "running"]
  <2>1. Work(w, r) /\ r.pc = "load" /\ r.phase = "started"
    BY <1>1, <1>2 DEF Worker
  <2> HIDE DEF r
  <2> QED
    BY <1>1, <2>1, RoleKept DEF Readying, Executes, Executing
<1>3. CASE Work(w, [work[w] EXCEPT !.pc = "load", !.phase = "paused", !.status = "pending"])
  <2> DEFINE r == [work[w] EXCEPT !.pc = "load", !.phase = "paused", !.status = "pending"]
  <2>1. Work(w, r) /\ r.pc = "load" /\ r.phase = "paused"
    BY <1>1, <1>3 DEF Worker
  <2> HIDE DEF r
  <2>2. Owns(work[w])
    BY <1>1 DEF Owns
  <2> QED
    BY <1>1, <2>1, <2>2, OwnerReleases DEF Readying, Executes, Executing
<1> QED
  BY <1>2, <1>3 DEF Begin

LEMMA SaveLives == ASSUME TInv, OInv, NEW w \in Workers, Save(w) PROVE LifeStep
<1> DEFINE r == [work[w] EXCEPT !.entry = None, !.pc = IF work[w].phase = "paused" THEN "pause" ELSE "feed"]
<1>1. work[w].pc = "save" /\ queue' = queue /\ Work(w, r) /\ work[w] \in Worker
  BY WorkRecord DEF Save, QueueVars
<1>2. r.pc = (IF work[w].phase = "paused" THEN "pause" ELSE "feed") /\ r.phase = work[w].phase
  BY <1>1 DEF Worker
<1> HIDE DEF r
<1> QED
  BY <1>1, <1>2, RoleKept DEF Readying, Executes, Executing

LEMMA BookkeepingLives ==
  ASSUME TInv, OInv, NEW w \in Workers, Feed(w) \/ Load(w) \/ Judge(w)
  PROVE  LifeStep
<1>1. work[w] \in Worker /\ queue' = queue
  BY WorkRecord DEF Feed, Load, Judge, QueueVars
<1>2. CASE Feed(w)
  <2> DEFINE r == [work[w] EXCEPT !.pc = "put", !.status = Derived(queue, Effective)]
  <2>1. work[w].pc = "feed" /\ Work(w, r) /\ r.pc = "put" /\ r.phase = work[w].phase
    BY <1>1, <1>2 DEF Feed, Worker
  <2> HIDE DEF r
  <2> QED
    BY <1>1, <2>1, RoleKept DEF Readying, Executes, Executing
<1>3. CASE Load(w)
  <2> DEFINE r == [work[w] EXCEPT !.pc = "save", !.entry = entry]
  <2>1. work[w].pc = "load" /\ Work(w, r) /\ r.pc = "save" /\ r.phase = work[w].phase
    BY <1>1, <1>3 DEF Load, Worker
  <2> HIDE DEF r
  <2> QED
    BY <1>1, <2>1, RoleKept DEF Readying, Executes, Executing
<1>4. CASE Judge(w)
  <2> DEFINE r == [work[w] EXCEPT !.pc = "settle", !.verdict = Effective]
  <2>1. work[w].pc = "verdict" /\ Work(w, r) /\ r.pc = "settle"
    BY <1>1, <1>4 DEF Judge, Worker
  <2> HIDE DEF r
  <2> QED
    BY <1>1, <2>1, RoleKept DEF Readying, Executes, Executing
<1> QED
  BY <1>2, <1>3, <1>4

LEMMA LeavingLives == ASSUME TInv, OInv, NEW w \in Workers, Pause(w) \/ Settle(w) PROVE LifeStep
<1>1. CASE Pause(w)
  <2> DEFINE r == [work[w] EXCEPT !.pc = "feed"]
  <2>1. work[w].pc = "pause" /\ work[w].phase = "paused" /\ work[w] \in Worker
    BY <1>1, WorkRecord DEF Pause, OInv, Phased, PhaseRight
  <2>2. Work(w, r) /\ r.pc = "feed" /\ r.phase = "paused" /\ queue' = "awaiting_approval"
    BY <1>1, <2>1 DEF Pause, Worker
  <2> HIDE DEF r
  <2>3. Owns(work[w])
    BY <2>1 DEF Owns
  <2> QED
    BY <2>1, <2>2, <2>3, OwnerSettles DEF Readying, Executes, Executing
<1>2. CASE Settle(w)
  <2> DEFINE r == [AtRest EXCEPT !.pc = "load", !.phase = "finished",
                      !.status = Settled(work[w], Destination(work[w]))]
  <2>1. work[w].pc = "settle" /\ work[w].phase = "started"
    BY <1>2 DEF Settle, OInv, Phased, PhaseRight
  <2>2. Work(w, r) /\ r.pc = "load" /\ r.phase = "finished" /\ queue' = Destination(work[w])
    BY <1>2 DEF Settle, AtRest
  <2>3. Destination(work[w]) \in {"done", "failed", "dead_letter", "awaiting_approval", "pending"}
    BY DEF Destination
  <2> HIDE DEF r
  <2>4. Owns(work[w])
    BY <2>1 DEF Owns
  <2> QED
    BY <2>1, <2>2, <2>3, <2>4, OwnerSettles DEF Readying, Executes, Executing
<1> QED
  BY <1>1, <1>2

\* execute_job keeps the run until it has written its result.
LEMMA ExecutorMoves ==
  ASSUME TInv, OInv, NEW w \in Workers, ExecutorStep(w)
  PROVE  /\ queue' = queue /\ Executes(work[w])
         /\ \E r : Work(w, r) /\ (Executes(r) \/ r.pc = "verdict")
<1>1. ASSUME NEW pc, NEW code, NEW c
      PROVE  /\ [work[w] EXCEPT !.pc = pc].pc = pc
             /\ [work[w] EXCEPT !.pc = pc, !.code = code].pc = pc
             /\ [work[w] EXCEPT !.pc = pc, !.control = c].pc = pc
  BY WorkRecord DEF Worker
<1>2. queue' = queue /\ work[w].pc \in Executing \cup {"init"}
  BY DEF ExecutorStep, Initialize, Spawn, RecordRead, RecordWrite, RecordFails, Reap, Expire, Drain,
         Check, EndRead, EndWrite, Reread, Refuse, QueueVars, Executing
<1> DEFINE Goes(pc) == \E r : Work(w, r) /\ r.pc = pc
<1>3. ASSUME NEW pc, Work(w, [work[w] EXCEPT !.pc = pc]) PROVE Goes(pc)
  BY <1>1, <1>3
<1>4. ASSUME NEW pc, NEW code, Work(w, [work[w] EXCEPT !.pc = pc, !.code = code]) PROVE Goes(pc)
  BY <1>1, <1>4
<1>5. ASSUME NEW pc, NEW c, Work(w, [work[w] EXCEPT !.pc = pc, !.control = c]) PROVE Goes(pc)
  BY <1>1, <1>5
<1> HIDE DEF Goes
<1>6. \E pc \in Executing \cup {"verdict"} : Goes(pc)
  <2>1. CASE Initialize(w) \/ Spawn(w) \/ Drain(w)
    BY <1>3, <2>1 DEF Initialize, Spawn, Drain, Executing
  <2>2. CASE RecordRead(w) \/ RecordWrite(w) \/ RecordFails(w) \/ EndRead(w) \/ EndWrite(w)
    BY <1>5, <2>2 DEF RecordRead, RecordWrite, RecordFails, EndRead, EndWrite, Executing
  <2>3. CASE Reap(w) \/ Expire(w)
    BY <1>4, <2>3 DEF Reap, Expire, Executing
  <2>4. CASE Check(w) \/ Reread(w) \/ Refuse(w)
    BY <1>4, <2>4 DEF Check, Reread, Refuse, Finished, Executing
  <2> QED
    BY <2>1, <2>2, <2>3, <2>4 DEF ExecutorStep
<1> QED
  BY <1>2, <1>6 DEF Goes, Executes

LEMMA ExecutorLives == ASSUME TInv, OInv, NEW w \in Workers, ExecutorStep(w) PROVE LifeStep
<1>1. queue' = queue /\ Executes(work[w]) /\ ~Readying(work[w])
  BY ExecutorMoves DEF Executes, Executing, Readying
<1>2. PICK r : Work(w, r) /\ (Executes(r) \/ r.pc = "verdict")
  BY ExecutorMoves
<1>3. ~Readying(r)
  BY <1>2 DEF Executes, Executing, Readying
<1>4. CASE Executes(r)
  BY <1>1, <1>2, <1>3, <1>4, RoleKept
<1>5. CASE ~Executes(r)
  <2>1. Owns(work[w])
    BY <1>1, HandsOwn
  <2> QED
    BY <1>1, <1>2, <1>3, <1>5, <2>1, OwnerReleases
<1> QED
  BY <1>4, <1>5

\* The steps of everybody else.
LEMMA OthersLive ==
  ASSUME UNCHANGED work,
         \/ queue' = queue
         \/ queue = "awaiting_approval" /\ queue' \in {"pending", "failed"}
         \/ queue = "pending" /\ queue' = "failed"
  PROVE  LifeStep
<1>1. Preparers' = Preparers /\ Executors' = Executors
  BY DEF Preparers, Executors, Preparing, InExecuteJob
<1>2. CASE queue' = queue
  BY <1>1, <1>2, LifeStutters DEF Item
<1> QED
  BY <1>1, <1>2, LifeDecides

LEMMA StopperLives == ASSUME NEW s \in Stoppers, StopperStep(s) PROVE LifeStep
<1>1. CASE Withdraw(s)
  BY <1>1, OthersLive DEF Withdraw, StopperOnly
<1>2. CASE ~Withdraw(s)
  BY <1>2, OthersLive
     DEF StopperStep, StopperOnly, Command, Where, VoidLoad, VoidSave, VoidPut, Look, MarkRead, MarkWrite,
         Signal, FinRead, FinWrite, Reload, SyncRead, SyncWrite, Update
<1> QED
  BY <1>1, <1>2

LEMMA StepLives == ASSUME TInv, OInv, [Next]_vars PROVE LifeStep
<1>1. CASE \E w \in Workers : WorkerStep(w)
  BY <1>1, ClaimLives, PutLives, BeginLives, SaveLives, BookkeepingLives, LeavingLives, ExecutorLives
     DEF WorkerStep
<1>2. CASE (\E a \in Runs : AgentStep(a)) \/ Evict \/ UNCHANGED vars
  BY <1>2, OthersLive DEF AgentStep, Evict, vars
<1>3. CASE Approve \/ Resolve
  BY <1>3, OthersLive DEF Approve, Resolve
<1> QED
  BY <1>1, <1>2, <1>3, StopperLives DEF Next, Act

\* Every step moves the item along an edge of the lifecycle that the queue promises
\* (or withdraws it), claims and starts it at most once at a time, and settles it
\* only when nobody prepares or executes it any more: with any number of workers,
\* of stop and cancel commands and of approvals in between (cmd_worker,
\* operator-cancel, approve and resolve-checkpoint).
THEOREM ItemFollows == Spec => FollowsLifecycle
<1>1. Init => TInv /\ OInv
  BY InitTyped, InitOwned
<1>2. (TInv /\ OInv) /\ [Next]_vars => (TInv /\ OInv)'
  BY StepTyped, StepOwned
<1>3. (TInv /\ OInv) /\ [Next]_vars => [Lifecycle!Next \/ Lifecycle!Cancel("job")]_(Lifecycle!lifecycle)
  BY StepLives DEF LifeStep
<1> QED
  BY <1>1, <1>2, <1>3, PTL DEF Spec, FollowsLifecycle
===============================================================================
