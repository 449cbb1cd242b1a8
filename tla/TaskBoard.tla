------------------------------ MODULE TaskBoard ------------------------------
(***************************************************************************)
(* The task board: who works on which task.  Agents claim and release      *)
(* tasks (task_claims.py), wake each other (wake_queue.py), keep a session *)
(* per task (session_store.py) and share documents (session_docs.py), and  *)
(* the status of a task stands in the front matter of its file.            *)
(*                                                                         *)
(* Every invocation of claw is a process.  The four stores guard a read    *)
(* and a rewrite by a lock directory made with mkdir; the front matter is  *)
(* read, truncated and written without any lock, before or after.  Each of *)
(* these file operations is an action.                                     *)
(***************************************************************************)
EXTENDS Naturals, FiniteSets

CONSTANTS
  Agents,        \* agent ids
  Tasks,         \* task ids; every task has its file
  Paths,         \* names of shared documents
  Procs,         \* processes (invocations of claw at the same time)
  Commands,      \* which of "claim", "release", "done", "wake", "session", "put"
  MaxCommands,   \* bound: commands begun in a behaviour
  MaxCrashes,    \* bound: processes killed and stores that fail in a behaviour
  None           \* no file, nothing in memory, no agent, no task, no document

ASSUME BoardAssumption ==
  /\ None \notin Agents \cup Tasks \cup Paths
  /\ Commands \subseteq {"claim", "release", "done", "wake", "session", "put"}
  /\ MaxCommands \in Nat /\ MaxCrashes \in Nat

Claim   == [status : {"claimed", "released", "blocked"}, owner : Agents]
Session == [id : Nat, rotations : Nat, resume : BOOLEAN]
Wake    == [count : Nat]
Versions == [Paths -> Nat]
Manifest == [of : Versions]

\* The front matter of a task, by its status ("" where the key is missing) and
\* whether the rest of it (id, title, dependencies, ...) is there.
Status == {"", "todo", "in_progress", "released", "blocked", "done"}
Front  == [status : Status, whole : BOOLEAN]
Empty  == [status |-> "", whole |-> FALSE]  \* what reading a truncated file gives

\* What a process may have read and not yet written back.
Memory == Claim \cup Session \cup Wake \cup Manifest \cup Front

ASSUME NoneAssumption == None \notin Memory

Stores == {"claims", "wakes", "sessions", "docs"}
Lock == [store : Stores, agent : Agents \cup {None}, task : Tasks]

PCs == {"idle", "look", "exists", "lock", "read", "put", "write", "unlock",
        "check", "fm_read", "fm_open", "fm_write"}

\* A command under way: whose it is and what about, the store whose lock it
\* wants or has, the status of the task as it saw it first, the status it will
\* write (the one it reads, for "keep"), what became of the claim, the change
\* to a session or the document it is for, and what it has read.
Proc == [cmd : Commands \cup {"none"}, pc : PCs, agent : Agents \cup {None},
         task : Tasks \cup {None}, store : Stores, seen : Status,
         put : Status \cup {"keep"}, outcome : {"", "ok", "quiet", "already", "refused"},
         change : {"", "update", "resume", "reset", "rotate"}, path : Paths \cup {None},
         mem : Memory \cup {None}]

Idle == [cmd |-> "none", pc |-> "idle", agent |-> None, task |-> None,
         store |-> "claims", seen |-> "", put |-> "", outcome |-> "",
         change |-> "", path |-> None, mem |-> None]

VARIABLES
  claims,     \* state/claims/{task}.json
  wakes,      \* coalesced_count of state/wakes/pending/{agent,task}, 0: no file
  sessions,   \* state/sessions/{agent}__{task}.json
  docs,       \* versions of the shared documents of a task
  manifests,  \* the versions its manifest.json describes
  undescribed, \* history: documents whose put was cut off before the manifest was written
  board,      \* front matter of tasks/{task}.md
  locks,      \* the lock directories that exist
  proc,       \* the commands under way
  uuids,      \* session ids made so far
  commands,   \* commands begun so far
  crashes,    \* processes killed and stores failed so far
  holders,    \* history: agents told that they have the task and not released it
  due,        \* history: wakes asked for, by claims and by wake commands
  enqueued,   \* history: wakes written
  issued,     \* history: session ids written
  forgotten,  \* history: sessions reset with no resume handle stored since
  disturbed   \* history: tasks that two commands at once, or one killed or failed, dealt with

claimVars   == <<claims, holders, due>>
wakeVars    == <<wakes, enqueued>>
sessionVars == <<sessions, uuids, issued, forgotten>>
docVars     == <<docs, manifests, undescribed>>
bounds      == <<commands, crashes, disturbed>>
vars == <<claimVars, wakeVars, sessionVars, docVars, board, locks, proc, bounds>>

Scopes == Agents \X Tasks

Init ==
  /\ claims = [t \in Tasks |-> None]
  /\ wakes = [s \in Scopes |-> 0]
  /\ sessions = [s \in Scopes |-> None]
  /\ docs = [t \in Tasks |-> [x \in Paths |-> 0]]
  /\ manifests = [t \in Tasks |-> [x \in Paths |-> 0]]
  /\ board = [t \in Tasks |-> [status |-> "todo", whole |-> TRUE]]
  /\ locks = {}
  /\ proc = [p \in Procs |-> Idle]
  /\ uuids = 0 /\ commands = 0 /\ crashes = 0
  /\ holders = [t \in Tasks |-> {}]
  /\ due = [s \in Scopes |-> 0]
  /\ enqueued = [s \in Scopes |-> 0]
  /\ issued = [s \in Scopes |-> {}]
  /\ forgotten = {}
  /\ undescribed = {}
  /\ disturbed = {}

------------------------------------------------------------------------------
(* Processes *)

\* _lock_path: claims and documents are locked by task, the others by scope.
LockOf(r) == [store |-> r.store, task |-> r.task,
              agent |-> IF r.store \in {"wakes", "sessions"} THEN r.agent ELSE None]
Inside(p) == proc[p].pc \in {"read", "put", "write", "unlock"}
Scope(p) == <<proc[p].agent, proc[p].task>>

Goto(p, r) == proc' = [proc EXCEPT ![p] = r]
Jump(p, pc) == Goto(p, [proc[p] EXCEPT !.pc = pc])
Return(p) == Goto(p, Idle)

ToLock(r, store) == [r EXCEPT !.pc = "lock", !.store = store, !.mem = None]
ToBoard(r, status) == [r EXCEPT !.pc = "fm_read", !.put = status]

\* cmd_task_claim after it has seen to the status of the task.
Claimed(r) == ToLock(r, IF r.outcome = "ok" THEN "wakes" ELSE "sessions")

\* Variant: only a task that is still to do becomes in_progress.
OutdatedTodo(r) == r.seen = "todo"

\* The status seen before the claim is not the one a claimed task has.
Outdated(r) == r.seen # "in_progress"

\* Where a command goes on when it leaves a store.
AfterStore(r) ==
  CASE r.cmd = "claim" /\ r.store = "claims" /\ r.outcome # "refused" ->
         IF Outdated(r) THEN ToBoard(r, "in_progress") ELSE Claimed(r)
    [] r.cmd = "claim" /\ r.store = "wakes" -> ToLock(r, "sessions")
    [] r.cmd = "release" /\ r.outcome # "refused" -> [r EXCEPT !.pc = "check"]
    [] OTHER -> Idle

\* Where each command starts.
Started(c, a, t) ==
  LET r == [Idle EXCEPT !.cmd = c, !.task = t, !.agent = a]
  IN  CASE c = "claim" -> {[r EXCEPT !.pc = "look"]}
        [] c = "done" -> {[r EXCEPT !.pc = "look", !.agent = None]}
        [] c = "release" -> {[r EXCEPT !.pc = "exists", !.put = s] : s \in {"released", "blocked"}}
        [] c = "wake" -> {ToLock(r, "wakes")}
        [] c = "session" -> {[ToLock(r, "sessions") EXCEPT !.change = x] :
                                x \in {"update", "resume", "reset", "rotate"}}
        [] c = "put" -> {[ToLock(r, "docs") EXCEPT !.path = x, !.agent = None] : x \in Paths}

\* The document that a process has put and not described yet.
Cut(p) == {d \in Tasks \X Paths : /\ proc[p].pc = "write" /\ proc[p].store = "docs"
                                 /\ d = <<proc[p].task, proc[p].path>>}

Begin(p) ==
  /\ proc[p].pc = "idle"
  /\ commands < MaxCommands
  /\ commands' = commands + 1
  /\ \E c \in Commands, a \in Agents, t \in Tasks :
       /\ \E r \in Started(c, a, t) : Goto(p, r)
       /\ due' = IF c = "wake" THEN [due EXCEPT ![<<a, t>>] = @ + 1] ELSE due
       /\ disturbed' = IF \E q \in Procs : proc[q].task = t THEN disturbed \cup {t}
                       ELSE disturbed
  /\ UNCHANGED <<claims, holders, wakeVars, sessionVars, docVars, board, locks, crashes>>

Kill(p) ==
  /\ proc[p].pc # "idle"
  /\ crashes < MaxCrashes
  /\ crashes' = crashes + 1
  /\ disturbed' = disturbed \cup {proc[p].task}
  /\ undescribed' = undescribed \cup Cut(p)
  /\ Return(p)
  /\ UNCHANGED <<claimVars, wakeVars, sessionVars, docs, manifests, board, locks, commands>>

\* An exception inside a store (the disk is full, a file does not parse): the operation
\* under way is not made, and the finally clause gives the lock back.  Of a wake for a
\* claim it is swallowed; any other ends the command, as one outside the stores does,
\* which is then like a kill.
Fail(p) ==
  /\ proc[p].pc \in {"read", "put", "write"}
  /\ crashes < MaxCrashes
  /\ crashes' = crashes + 1
  /\ disturbed' = disturbed \cup {proc[p].task}
  /\ undescribed' = undescribed \cup Cut(p)
  /\ Goto(p, [proc[p] EXCEPT !.pc = "unlock", !.outcome = "refused"])
  /\ UNCHANGED <<claimVars, wakeVars, sessionVars, docs, manifests, board, locks, commands>>

------------------------------------------------------------------------------
(* The lock directories *)

\* Variant: after the timeout the store is entered all the same.
AcquireOrForce(p) ==
  /\ proc[p].pc = "lock"
  /\ locks' = locks \cup {LockOf(proc[p])}
  /\ Jump(p, "read")
  /\ UNCHANGED <<claimVars, wakeVars, sessionVars, docVars, board, bounds>>

Acquire(p) ==
  /\ proc[p].pc = "lock"
  /\ LockOf(proc[p]) \notin locks
  /\ locks' = locks \cup {LockOf(proc[p])}
  /\ Jump(p, "read")
  /\ UNCHANGED <<claimVars, wakeVars, sessionVars, docVars, board, bounds>>

\* Variant: a process waits for as long as somebody is at work in the store.
TimeOutWhenBusy(p) ==
  /\ proc[p].pc = "lock"
  /\ LockOf(proc[p]) \in locks
  /\ \E q \in Procs : Inside(q) /\ LockOf(proc[q]) = LockOf(proc[p])
  /\ Return(p)
  /\ UNCHANGED <<claimVars, wakeVars, sessionVars, docVars, board, locks, bounds>>

\* TimeoutError: the command ends, but a claim does without its wake.
TimeOut(p) ==
  /\ proc[p].pc = "lock"
  /\ LockOf(proc[p]) \in locks
  /\ IF proc[p].cmd = "claim" /\ proc[p].store = "wakes"
     THEN Goto(p, AfterStore(proc[p]))
     ELSE Return(p)
  /\ UNCHANGED <<claimVars, wakeVars, sessionVars, docVars, board, locks, bounds>>

Release(p) ==
  /\ proc[p].pc = "unlock"
  /\ locks' = locks \ {LockOf(proc[p])}
  /\ Goto(p, AfterStore(proc[p]))
  /\ UNCHANGED <<claimVars, wakeVars, sessionVars, docVars, board, bounds>>

------------------------------------------------------------------------------
(* TaskClaimStore *)

\* Variant: whoever asks gets the task.
ClaimReadAny(p) ==
  /\ proc[p].pc = "read" /\ proc[p].store = "claims" /\ proc[p].cmd = "claim"
  /\ Jump(p, "write")
  /\ UNCHANGED <<claimVars, wakeVars, sessionVars, docVars, board, locks, bounds>>

ClaimRead(p) ==
  LET t == proc[p].task
      held == claims[t] # None /\ claims[t].status = "claimed"
  IN  /\ proc[p].pc = "read" /\ proc[p].store = "claims" /\ proc[p].cmd = "claim"
      /\ \/ /\ held /\ claims[t].owner # proc[p].agent
            /\ Goto(p, [proc[p] EXCEPT !.pc = "unlock", !.outcome = "refused"])
            /\ UNCHANGED holders
         \/ /\ held /\ claims[t].owner = proc[p].agent
            /\ Goto(p, [proc[p] EXCEPT !.pc = "unlock", !.outcome = "already"])
            /\ holders' = [holders EXCEPT ![t] = @ \cup {proc[p].agent}]
         \/ /\ ~held
            /\ Jump(p, "write")
            /\ UNCHANGED holders
      /\ UNCHANGED <<claims, due, wakeVars, sessionVars, docVars, board, locks, bounds>>

\* The claim is to be followed by a wake unless --no-wake was given ("quiet").
ClaimWrite(p) ==
  LET t == proc[p].task
      a == proc[p].agent
  IN  /\ proc[p].pc = "write" /\ proc[p].store = "claims" /\ proc[p].cmd = "claim"
      /\ claims' = [claims EXCEPT ![t] = [status |-> "claimed", owner |-> a]]
      /\ holders' = [holders EXCEPT ![t] = @ \cup {a}]
      /\ \E o \in {"ok", "quiet"} :
           /\ Goto(p, [proc[p] EXCEPT !.pc = "unlock", !.outcome = o])
           /\ due' = IF o = "ok" THEN [due EXCEPT ![<<a, t>>] = @ + 1] ELSE due
      /\ UNCHANGED <<wakeVars, sessionVars, docVars, board, locks, bounds>>

\* release looks for the claim file before it takes the lock.
FindClaim(p) ==
  /\ proc[p].pc = "exists"
  /\ IF claims[proc[p].task] = None THEN Return(p) ELSE Goto(p, ToLock(proc[p], "claims"))
  /\ UNCHANGED <<claimVars, wakeVars, sessionVars, docVars, board, locks, bounds>>

ReleaseRead(p) ==
  /\ proc[p].pc = "read" /\ proc[p].store = "claims" /\ proc[p].cmd = "release"
  /\ IF claims[proc[p].task].owner # proc[p].agent
     THEN Goto(p, [proc[p] EXCEPT !.pc = "unlock", !.outcome = "refused"])
     ELSE Jump(p, "write")
  /\ UNCHANGED <<claimVars, wakeVars, sessionVars, docVars, board, locks, bounds>>

ReleaseWrite(p) ==
  LET t == proc[p].task
      a == proc[p].agent
  IN  /\ proc[p].pc = "write" /\ proc[p].store = "claims" /\ proc[p].cmd = "release"
      /\ claims' = [claims EXCEPT ![t] = [status |-> proc[p].put, owner |-> a]]
      /\ holders' = [holders EXCEPT ![t] = @ \ {a}]
      /\ Goto(p, [proc[p] EXCEPT !.pc = "unlock", !.outcome = "ok"])
      /\ UNCHANGED <<due, wakeVars, sessionVars, docVars, board, locks, bounds>>

------------------------------------------------------------------------------
(* WakeQueue.enqueue *)

WakeRead(p) ==
  /\ proc[p].pc = "read" /\ proc[p].store = "wakes"
  /\ Goto(p, [proc[p] EXCEPT !.pc = "write", !.mem = [count |-> wakes[Scope(p)]]])
  /\ UNCHANGED <<claimVars, wakeVars, sessionVars, docVars, board, locks, bounds>>

WakeWrite(p) ==
  /\ proc[p].pc = "write" /\ proc[p].store = "wakes"
  /\ wakes' = [wakes EXCEPT ![Scope(p)] = proc[p].mem.count + 1]
  /\ enqueued' = [enqueued EXCEPT ![Scope(p)] = @ + 1]
  /\ Goto(p, [proc[p] EXCEPT !.pc = "unlock", !.mem = None])
  /\ UNCHANGED <<claimVars, sessionVars, docVars, board, locks, bounds>>

------------------------------------------------------------------------------
(* SessionStore: get_or_create for a claim, update, reset and rotate *)

SessionRead(p) ==
  /\ proc[p].pc = "read" /\ proc[p].store = "sessions"
  /\ IF sessions[Scope(p)] # None
     THEN /\ IF proc[p].cmd = "claim" THEN Jump(p, "unlock")
             ELSE Goto(p, [proc[p] EXCEPT !.pc = "write", !.mem = sessions[Scope(p)]])
          /\ UNCHANGED uuids
     ELSE /\ Goto(p, [proc[p] EXCEPT !.pc = "write",
                        !.mem = [id |-> uuids + 1, rotations |-> 0, resume |-> FALSE]])
          /\ uuids' = uuids + 1
  /\ UNCHANGED <<claimVars, wakeVars, sessions, issued, forgotten, docVars, board, locks, bounds>>

\* The payload each operation writes back.
NewSession(r) ==
  CASE r.change = "resume" -> [r.mem EXCEPT !.resume = TRUE]
    [] r.change = "reset"  -> [r.mem EXCEPT !.resume = FALSE]
    [] r.change = "rotate" -> [id |-> uuids + 1, rotations |-> r.mem.rotations + 1,
                               resume |-> FALSE]
    [] OTHER -> r.mem

SessionWrite(p) ==
  LET new == NewSession(proc[p])
  IN  /\ proc[p].pc = "write" /\ proc[p].store = "sessions"
      /\ sessions' = [sessions EXCEPT ![Scope(p)] = new]
      /\ issued' = [issued EXCEPT ![Scope(p)] = @ \cup {new.id}]
      /\ uuids' = IF proc[p].change = "rotate" THEN uuids + 1 ELSE uuids
      /\ forgotten' = IF proc[p].change \in {"reset", "rotate"} THEN forgotten \cup {Scope(p)}
                      ELSE IF proc[p].change = "resume" THEN forgotten \ {Scope(p)}
                      ELSE forgotten
      /\ Goto(p, [proc[p] EXCEPT !.pc = "unlock", !.mem = None])
      /\ UNCHANGED <<claimVars, wakeVars, docVars, board, locks, bounds>>

------------------------------------------------------------------------------
(* SessionDocsStore.put_document *)

DocsRead(p) ==
  /\ proc[p].pc = "read" /\ proc[p].store = "docs"
  /\ Goto(p, [proc[p] EXCEPT !.pc = "put", !.mem = [of |-> manifests[proc[p].task]]])
  /\ UNCHANGED <<claimVars, wakeVars, sessionVars, docVars, board, locks, bounds>>

\* Variant: the document is validated after it has been put.
PutFileFirst(p) ==
  LET t == proc[p].task
  IN  /\ proc[p].pc = "put"
      /\ docs' = [docs EXCEPT ![t][proc[p].path] = @ + 1]
      /\ Jump(p, "write") \/ Goto(p, [proc[p] EXCEPT !.pc = "unlock", !.mem = None])
      /\ UNCHANGED <<claimVars, wakeVars, sessionVars, manifests, undescribed, board, locks, bounds>>

\* A document that does not validate is refused before it is put.
PutFile(p) ==
  LET t == proc[p].task
  IN  /\ proc[p].pc = "put"
      /\ \/ /\ docs' = [docs EXCEPT ![t][proc[p].path] = @ + 1]
            /\ Jump(p, "write")
         \/ /\ Goto(p, [proc[p] EXCEPT !.pc = "unlock", !.mem = None])
            /\ UNCHANGED docs
      /\ UNCHANGED <<claimVars, wakeVars, sessionVars, manifests, undescribed, board, locks, bounds>>

DocsWrite(p) ==
  LET t == proc[p].task
      x == proc[p].path
  IN  /\ proc[p].pc = "write" /\ proc[p].store = "docs"
      /\ manifests' = [manifests EXCEPT ![t] = [proc[p].mem.of EXCEPT ![x] = docs[t][x]]]
      /\ undescribed' = undescribed \ {<<t, x>>}
      /\ Goto(p, [proc[p] EXCEPT !.pc = "unlock", !.mem = None])
      /\ UNCHANGED <<claimVars, wakeVars, sessionVars, docs, board, locks, bounds>>

StoreStep(p) ==
  \/ Acquire(p) \/ TimeOut(p) \/ Release(p)
  \/ ClaimRead(p) \/ ClaimWrite(p) \/ FindClaim(p) \/ ReleaseRead(p) \/ ReleaseWrite(p)
  \/ WakeRead(p) \/ WakeWrite(p) \/ SessionRead(p) \/ SessionWrite(p)
  \/ DocsRead(p) \/ PutFile(p) \/ DocsWrite(p)

------------------------------------------------------------------------------
(* The front matter of the task *)

Shown(front) == IF front.status = "" THEN "todo" ELSE front.status

\* claim and mark-done look at the task first; mark-done may also be refused
\* for want of a reviewer or by the review gate.
Look(p) ==
  LET status == Shown(board[proc[p].task])
  IN  /\ proc[p].pc = "look"
      /\ \/ /\ status = "done" \/ proc[p].cmd = "done"
            /\ Return(p)
         \/ /\ status # "done" /\ proc[p].cmd = "claim"
            /\ Goto(p, [ToLock(proc[p], "claims") EXCEPT !.seen = status])
         \/ /\ status # "done" /\ proc[p].cmd = "done"
            /\ Goto(p, ToBoard(proc[p], "done"))
      /\ UNCHANGED <<claimVars, wakeVars, sessionVars, docVars, board, locks, bounds>>

\* release leaves a task alone that has been done.
Check(p) ==
  /\ proc[p].pc = "check"
  /\ IF Shown(board[proc[p].task]) = "done" THEN Return(p)
     ELSE Goto(p, ToBoard(proc[p], proc[p].put))
  /\ UNCHANGED <<claimVars, wakeVars, sessionVars, docVars, board, locks, bounds>>

\* update_task_status: read_front_matter, then write_text, which truncates first.
FrontRead(p) ==
  /\ proc[p].pc = "fm_read"
  /\ Goto(p, [proc[p] EXCEPT !.pc = "fm_open", !.mem = board[proc[p].task]])
  /\ UNCHANGED <<claimVars, wakeVars, sessionVars, docVars, board, locks, bounds>>

FrontOpen(p) ==
  /\ proc[p].pc = "fm_open"
  /\ board' = [board EXCEPT ![proc[p].task] = Empty]
  /\ Jump(p, "fm_write")
  /\ UNCHANGED <<claimVars, wakeVars, sessionVars, docVars, locks, bounds>>

\* Variant: the second rewrite of mark-done takes its marker for a status.
FrontWriteMarker(p) ==
  LET r == proc[p]
  IN  /\ r.pc = "fm_write"
      /\ board' = [board EXCEPT ![r.task] = [r.mem EXCEPT !.status = r.put]]
      /\ Goto(p, CASE r.cmd = "claim" -> Claimed(r)
                   [] r.cmd = "done" /\ r.put = "done" -> [ToBoard(r, "keep") EXCEPT !.mem = None]
                   [] OTHER -> Idle)
      /\ UNCHANGED <<claimVars, wakeVars, sessionVars, docVars, locks, bounds>>

\* mark-done then has persist_task_lifecycle rewrite the front matter once more.
FrontWrite(p) ==
  LET r == proc[p]
  IN  /\ r.pc = "fm_write"
      /\ board' = [board EXCEPT ![r.task] =
                     IF r.put = "keep" THEN r.mem ELSE [r.mem EXCEPT !.status = r.put]]
      /\ Goto(p, CASE r.cmd = "claim" -> Claimed(r)
                   [] r.cmd = "done" /\ r.put = "done" -> [ToBoard(r, "keep") EXCEPT !.mem = None]
                   [] OTHER -> Idle)
      /\ UNCHANGED <<claimVars, wakeVars, sessionVars, docVars, locks, bounds>>

FrontStep(p) == Look(p) \/ Check(p) \/ FrontRead(p) \/ FrontOpen(p) \/ FrontWrite(p)

Next ==
  \E p \in Procs : Begin(p) \/ StoreStep(p) \/ FrontStep(p) \/ Kill(p) \/ Fail(p)

Spec == Init /\ [][Next]_vars

------------------------------------------------------------------------------
(* Properties *)

\* Every variable keeps to its type.
TypeOK ==
  /\ claims \in [Tasks -> Claim \cup {None}]
  /\ wakes \in [Scopes -> Nat] /\ enqueued \in [Scopes -> Nat] /\ due \in [Scopes -> Nat]
  /\ sessions \in [Scopes -> Session \cup {None}]
  /\ docs \in [Tasks -> Versions] /\ manifests \in [Tasks -> Versions]
  /\ board \in [Tasks -> Front]
  /\ locks \subseteq Lock
  /\ proc \in [Procs -> Proc]
  /\ uuids \in Nat /\ commands \in 0 .. MaxCommands /\ crashes \in 0 .. MaxCrashes
  /\ holders \in [Tasks -> SUBSET Agents]
  /\ issued \in [Scopes -> SUBSET Nat]
  /\ forgotten \subseteq Scopes /\ undescribed \subseteq Tasks \X Paths /\ disturbed \subseteq Tasks

\* Two processes are never inside the same store for the same scope.
MutualExclusion ==
  \A p, q \in Procs : Inside(p) /\ Inside(q) /\ LockOf(proc[p]) = LockOf(proc[q]) => p = q

\* An agent that was told it has the task has it, and is the only one, until it
\* begins to release it: whatever other agents try and whoever is killed.
HoldersAgree ==
  \A t \in Tasks : \A a \in holders[t] : claims[t] = [status |-> "claimed", owner |-> a]

\* No wake is lost when several are coalesced into one file.
WakesCounted == wakes = enqueued

\* One session per agent and task: another id comes about by rotation only, so
\* that two commands at once do not create the session twice.
SessionNotForked ==
  \A s \in Scopes : sessions[s] # None =>
    Cardinality(issued[s]) <= sessions[s].rotations + 1

\* A session that was reset stays without a resume handle until a new one is
\* stored: a slower update does not bring the old one back.
ResetForgets == \A s \in forgotten : ~sessions[s].resume

\* What the wake queue and the session store read and rewrite under their locks
\* loses no update, whoever is killed or waits in vain.
UpdatesKept == WakesCounted /\ SessionNotForked /\ ResetForgets

\* A document there is is the one its manifest describes, unless the process that has put
\* it is about to write the manifest or was cut off, killed or by an exception, before it
\* did: a refused document is not put, no put undoes what another has described, and the
\* next put of the same document makes up for a cut-off one.
DocsDescribed ==
  \A t \in Tasks, x \in Paths :
    \/ manifests[t][x] = docs[t][x]
    \/ <<t, x>> \in undescribed
    \/ \E p \in Procs : <<t, x>> \in Cut(p)

Quiet(t) == \A p \in Procs : proc[p].task # t

\* A task that one command at a time has dealt with, none of them killed or failed, shows
\* its claim, has kept its front matter and got all the wakes that were due.
UndisturbedTask ==
  \A t \in Tasks \ disturbed : Quiet(t) =>
    /\ claims[t] # None => board[t].status \in
         {"done", IF claims[t].status = "claimed" THEN "in_progress" ELSE claims[t].status}
    /\ board[t].whole
    /\ \A a \in Agents : wakes[<<a, t>>] = due[<<a, t>>]

\* No command gets stuck, also when a killed process has left its lock behind:
\* each goes on from wherever it is, to its end as no command loops.
NobodyStuck ==
  \A p \in Procs : proc[p].pc # "idle" => ENABLED (StoreStep(p) \/ FrontStep(p))
==============================================================================
