----------------------------- MODULE HookDelivery -----------------------------
(***************************************************************************)
(* The delivery of completion hooks: scripts/hooklib.py and its callers    *)
(* execute_job.py (announces a run and makes the first attempt),           *)
(* dispatch_hooks.py, reconcile_hooks.py and claw openclaw wake.           *)
(*                                                                         *)
(* The hook of a run is a JSON file in one of three state directories;     *)
(* several processes list the directories, read a payload, run the         *)
(* listener command, store the payload under its new state, remove the     *)
(* copies under the others and note the delivery in the run's result.json  *)
(* (meta.json is treated alike and not modelled apart).  No lock protects  *)
(* any of this, so each file operation is an action.                       *)
(***************************************************************************)
EXTENDS Naturals, Sequences

CONSTANTS
  Runs,           \* runs, each with the hook id made from its date and name
  Executors,      \* execute_job processes
  Senders,        \* dispatch_hooks, reconcile_hooks and wake processes
  Kinds,          \* which of "dispatch", "reconcile", "wake" the senders are
  MaxTries,       \* max_delivery_attempts
  Serial,         \* do processes run one after the other?
  MaxExecutions,  \* bound: executions started in a behaviour
  MaxSessions,    \* bound: sessions of "dispatch" and "wake" senders begun
  MaxCrashes,     \* bound: processes killed or stopped by an error in a behaviour
  NoFile, NoSlot

Procs == Executors \cup Senders

ASSUME HookAssumption ==
  /\ Executors \cap Senders = {}
  /\ Kinds \subseteq {"dispatch", "reconcile", "wake"}
  /\ MaxTries \in Nat \ {0}
  /\ MaxExecutions \in Nat /\ MaxSessions \in Nat /\ MaxCrashes \in Nat
  /\ Serial \in BOOLEAN
  /\ Procs # {}

HOOK_STATUSES == <<"pending", "sent", "failed">>
Statuses == {"pending", "sent", "failed"}

Slot == [run : Runs, status : Statuses]

\* What a hook file holds: delivery_attempts, the dead_letter mark, whether
\* it is the payload build_hook_payload made or the empty one read_json makes up
\* for a missing file, and whether its time stamps are older than the limit of
\* is_stale_pending_hook.
Payload == [tries : Nat, dead : BOOLEAN, full : BOOLEAN, aged : BOOLEAN]
Fresh == [tries |-> 0, dead |-> FALSE, full |-> TRUE, aged |-> FALSE]
Blank == [tries |-> 0, dead |-> FALSE, full |-> FALSE, aged |-> TRUE]

\* The delivery state and the run status in result.json.
Result == [final : BOOLEAN, told : Statuses \cup {"none"}]

PCs == {"idle", "agent", "judge", "open", "call", "store", "sweep", "persist_read",
        "persist_write", "finish", "hookless"}

\* A process: what it is, the slots it has yet to visit, the slot it is on, the
\* payload in memory, the state it stores it under, the copies yet to remove,
\* whether this is an announcement, whether a listener command is configured,
\* and the result.json it has read.
Proc == [pc : PCs, kind : {"execute", "dispatch", "reconcile", "wake"},
         todo : SUBSET Slot, slot : Slot \cup {NoSlot}, mem : Payload,
         goal : Statuses, sweep : Seq(Statuses), announcing : BOOLEAN,
         command : BOOLEAN, result : Result]

NoResult == [final |-> FALSE, told |-> "none"]

Idle == [pc |-> "idle", kind |-> "execute", todo |-> {}, slot |-> NoSlot,
         mem |-> Blank, goal |-> "pending", sweep |-> <<>>, announcing |-> FALSE,
         command |-> FALSE, result |-> NoResult]

ASSUME SentinelAssumption == NoFile \notin Payload /\ NoSlot \notin Slot

VARIABLES
  hooks,      \* Slot -> Payload, NoFile where there is no file
  result,     \* the result.json of each run
  proc,       \* the processes
  executions, sessions, crashes,
  announced,  \* history: runs whose hook has been stored
  calls,      \* history: listener calls since the last announcement of the run,
              \* not counting those an operator asked for with wake
  accepted    \* history: has the listener accepted the run since then?

vars == <<hooks, result, proc, executions, sessions, crashes, announced, calls, accepted>>

Init ==
  /\ hooks = [s \in Slot |-> NoFile]
  /\ result = [r \in Runs |-> NoResult]
  /\ proc = [a \in Procs |-> Idle]
  /\ executions = 0 /\ sessions = 0 /\ crashes = 0
  /\ announced = {}
  /\ calls = [r \in Runs |-> 0]
  /\ accepted = [r \in Runs |-> FALSE]

------------------------------------------------------------------------------
At(r, status) == [run |-> r, status |-> status]

Files(status) == {s \in Slot : s.status = status /\ hooks[s] # NoFile}

\* read_json: a missing file reads as {}.
ReadHook(s) == IF hooks[s] = NoFile THEN Blank ELSE hooks[s]

\* Variant: the copy just written is not spared.
AllStatuses(status) == HOOK_STATUSES

OtherStatuses(status) ==
  CASE status = "pending" -> <<"sent", "failed">>
    [] status = "sent"    -> <<"pending", "failed">>
    [] status = "failed"  -> <<"pending", "sent">>

IsDeadLetter(payload) == payload.dead \/ payload.tries >= MaxTries

\* locate_hook: the state a run's hook is reported in.
Located(r) ==
  CASE hooks[At(r, "pending")] # NoFile -> "pending"
    [] hooks[At(r, "pending")] = NoFile /\ hooks[At(r, "sent")] # NoFile -> "sent"
    [] hooks[At(r, "pending")] = NoFile /\ hooks[At(r, "sent")] = NoFile
         /\ hooks[At(r, "failed")] # NoFile -> "failed"
    [] OTHER -> "none"

Become(a, p) == proc' = [proc EXCEPT ![a] = p]

\* The process may begin: with Serial, nobody else is at work.
Turn(a) ==
  /\ proc[a].pc = "idle"
  /\ Serial => \A b \in Procs : proc[b].pc = "idle"

------------------------------------------------------------------------------
(* execute_job.py *)

\* The run is marked running and the agent started; a retry runs it again.
Execute(a) ==
  /\ Turn(a)
  /\ executions < MaxExecutions
  /\ executions' = executions + 1
  /\ \E r \in Runs, c \in BOOLEAN :
       /\ \A b \in Executors : proc[b].pc # "idle" => proc[b].slot.run # r
       /\ result' = [result EXCEPT ![r].final = FALSE]
       /\ Become(a, [Idle EXCEPT !.pc = "agent", !.slot = At(r, "pending"),
                                 !.command = c])
  /\ UNCHANGED <<hooks, sessions, crashes, announced, calls, accepted>>

\* The agent has ended: build_hook_payload, to be stored as pending.
AgentEnds(a) ==
  /\ proc[a].pc = "agent"
  /\ Become(a, [proc[a] EXCEPT !.pc = "store", !.mem = Fresh, !.goal = "pending",
                               !.announcing = TRUE])
  /\ UNCHANGED <<hooks, result, executions, sessions, crashes, announced, calls, accepted>>

\* The final result.json, with the hook state the executor's attempt ended in.
FinishRun(a) ==
  /\ proc[a].pc = "finish"
  /\ result' = [result EXCEPT ![proc[a].slot.run] =
                  [final |-> TRUE, told |-> proc[a].goal]]
  /\ Become(a, Idle)
  /\ UNCHANGED <<hooks, executions, sessions, crashes, announced, calls, accepted>>

\* An error in building, storing or dispatching the hook is caught: what has been
\* done stays, and the result will say that the hook is missing.
HookFails(a) ==
  /\ a \in Executors
  /\ proc[a].pc \in {"call", "store", "sweep", "persist_read", "persist_write"}
  /\ crashes < MaxCrashes
  /\ crashes' = crashes + 1
  /\ Become(a, [Idle EXCEPT !.pc = "hookless", !.slot = proc[a].slot])
  /\ UNCHANGED <<hooks, result, executions, sessions, announced, calls, accepted>>

FinishHookless(a) ==
  /\ proc[a].pc = "hookless"
  /\ result' = [result EXCEPT ![proc[a].slot.run] = [final |-> TRUE, told |-> "none"]]
  /\ Become(a, Idle)
  /\ UNCHANGED <<hooks, executions, sessions, crashes, announced, calls, accepted>>

------------------------------------------------------------------------------
(* The sessions of the senders *)

\* Variant: only the failed hooks are reconciled.
ListingFailedOnly(kind) ==
  IF kind = "dispatch" THEN Files("pending") ELSE Files("failed")

Listing(kind) ==
  IF kind = "dispatch" THEN Files("pending") ELSE Files("pending") \cup Files("failed")

\* A session lists the files it may visit.  Reconciliation is a cron job that
\* comes round for ever; it runs with the listener command configured.
Begin(a) ==
  /\ Turn(a)
  /\ \E kind \in Kinds, c \in BOOLEAN :
       /\ Listing(kind) # {}
       /\ IF kind = "reconcile"
          THEN c /\ UNCHANGED sessions
          ELSE sessions < MaxSessions /\ sessions' = sessions + 1
       /\ Become(a, [Idle EXCEPT !.pc = IF kind = "reconcile" THEN "judge" ELSE "open",
                                 !.kind = kind, !.command = c, !.todo = Listing(kind)])
  /\ UNCHANGED <<hooks, result, executions, crashes, announced, calls, accepted>>

\* Reconciliation leaves out the pending hooks that are not stale; one that has gone
\* since it was listed is.
Judge(a) ==
  /\ proc[a].pc = "judge"
  /\ Become(a, [proc[a] EXCEPT !.pc = "open",
                               !.todo = {s \in @ : s.status = "failed" \/ ReadHook(s).aged}])
  /\ UNCHANGED <<hooks, result, executions, sessions, crashes, announced, calls, accepted>>

\* reconcile visits the failed hooks first, wake the pending ones.
Foremost(kind) == IF kind = "reconcile" THEN "failed" ELSE "pending"
NextSlots(a) ==
  LET first == {s \in proc[a].todo : s.status = Foremost(proc[a].kind)}
  IN  IF first # {} THEN first ELSE proc[a].todo

\* Variant: reconcile does not look for dead letters.
SkipsGone(a, s) == proc[a].kind = "wake" /\ s.status = "failed" /\ hooks[s] = NoFile

\* reconcile skips dead letters, wake failed hooks that have gone meanwhile.
Skips(a, s) ==
  \/ proc[a].kind = "reconcile" /\ IsDeadLetter(ReadHook(s))
  \/ proc[a].kind = "wake" /\ s.status = "failed" /\ hooks[s] = NoFile

Visit(a, s) ==
  LET opened == [proc[a] EXCEPT !.slot = s, !.mem = ReadHook(s), !.todo = @ \ {s}]
  IN  CASE Skips(a, s) -> [proc[a] EXCEPT !.todo = @ \ {s}]
        [] ~Skips(a, s) /\ proc[a].command -> [opened EXCEPT !.pc = "call"]
        \* deliver_hook_via_callback_bridge
        [] ~Skips(a, s) /\ ~proc[a].command /\ proc[a].kind = "wake" ->
             [opened EXCEPT !.pc = "store", !.goal = "sent",
                            !.mem.tries = @ + 1, !.mem.dead = FALSE]
        \* dispatch_hook_file without a command
        [] OTHER -> [opened EXCEPT !.pc = "store", !.goal = s.status]

Open(a) ==
  /\ proc[a].pc = "open"
  /\ proc[a].todo # {}
  /\ \E s \in NextSlots(a) :
       LET visiting == Visit(a, s)
           handed == visiting.pc = "store" /\ visiting.goal = "sent"
       IN  /\ Become(a, visiting)
           /\ accepted' = [accepted EXCEPT ![s.run] = @ \/ handed]
  /\ UNCHANGED <<hooks, result, executions, sessions, crashes, announced, calls>>

EndSession(a) ==
  /\ proc[a].pc = "open"
  /\ proc[a].todo = {}
  /\ Become(a, Idle)
  /\ UNCHANGED <<hooks, result, executions, sessions, crashes, announced, calls, accepted>>

------------------------------------------------------------------------------
(* dispatch_hook_file *)

\* Variant: the count goes down.
AttemptedDown(payload, ok) == [payload EXCEPT !.tries = @ - 1, !.aged = FALSE]

Attempted(payload, ok) ==
  LET tries == payload.tries + 1
  IN  [payload EXCEPT !.tries = tries, !.aged = FALSE,
                      !.dead = @ \/ (~ok /\ tries >= MaxTries)]

\* The listener command: it succeeds, or fails or times out, in which case the
\* listener may have taken the hook all the same.
Call(a) ==
  LET r == proc[a].slot.run
  IN  /\ proc[a].pc = "call"
      /\ calls' = [calls EXCEPT ![r] = IF proc[a].kind = "wake" THEN @ ELSE @ + 1]
      /\ \E ok, taken \in BOOLEAN :
           /\ ok => taken
           /\ accepted' = [accepted EXCEPT ![r] = @ \/ taken]
           /\ Become(a, [proc[a] EXCEPT !.pc = "store", !.mem = Attempted(@, ok),
                                        !.goal = IF ok THEN "sent" ELSE "failed"])
      /\ UNCHANGED <<hooks, result, executions, sessions, crashes, announced>>

------------------------------------------------------------------------------
(* write_hook_payload and persist_run_delivery_state *)

Store(a) ==
  LET target == [proc[a].slot EXCEPT !.status = proc[a].goal]
  IN  /\ proc[a].pc = "store"
      /\ hooks' = [hooks EXCEPT ![target] = proc[a].mem]
      /\ announced' = announced \cup {target.run}
      /\ calls' = [calls EXCEPT ![target.run] = IF proc[a].announcing THEN 0 ELSE @]
      /\ accepted' = [accepted EXCEPT ![target.run] = @ /\ ~proc[a].announcing]
      /\ Become(a, [proc[a] EXCEPT !.pc = "sweep", !.sweep = OtherStatuses(proc[a].goal)])
      /\ UNCHANGED <<result, executions, sessions, crashes>>

\* The copies under the other states are removed one by one.
Sweep(a) ==
  /\ proc[a].pc = "sweep"
  /\ proc[a].sweep # <<>>
  /\ hooks' = [hooks EXCEPT ![At(proc[a].slot.run, Head(proc[a].sweep))] = NoFile]
  /\ Become(a, [proc[a] EXCEPT !.sweep = Tail(@)])
  /\ UNCHANGED <<result, executions, sessions, crashes, announced, calls, accepted>>

\* An executor that has announced its run goes on to dispatch the hook.
Swept(a) ==
  LET slot == At(proc[a].slot.run, "pending")
      opened == [proc[a] EXCEPT !.slot = slot, !.mem = ReadHook(slot),
                                !.announcing = FALSE]
  IN  /\ proc[a].pc = "sweep"
      /\ proc[a].sweep = <<>>
      /\ Become(a,
           IF ~proc[a].announcing THEN [proc[a] EXCEPT !.pc = "persist_read"]
           ELSE IF proc[a].command THEN [opened EXCEPT !.pc = "call"]
           ELSE [opened EXCEPT !.pc = "store", !.goal = "pending"])
      /\ UNCHANGED <<hooks, result, executions, sessions, crashes, announced, calls, accepted>>

AfterPersist(a) == IF a \in Executors THEN "finish" ELSE "open"

\* The payload of a hook names the result.json; a blank one names none.
PersistRead(a) ==
  /\ proc[a].pc = "persist_read"
  /\ Become(a, IF proc[a].mem.full
               THEN [proc[a] EXCEPT !.pc = "persist_write",
                                    !.result = result[proc[a].slot.run]]
               ELSE [proc[a] EXCEPT !.pc = AfterPersist(a)])
  /\ UNCHANGED <<hooks, result, executions, sessions, crashes, announced, calls, accepted>>


PersistWrite(a) ==
  /\ proc[a].pc = "persist_write"
  /\ result' = [result EXCEPT ![proc[a].slot.run] =
                  [proc[a].result EXCEPT !.told = proc[a].goal]]
  /\ Become(a, [proc[a] EXCEPT !.pc = AfterPersist(a), !.result = NoResult])
  /\ UNCHANGED <<hooks, executions, sessions, crashes, announced, calls, accepted>>

------------------------------------------------------------------------------
Ages(s) ==
  /\ s.status = "pending"
  /\ hooks[s] # NoFile
  /\ ~hooks[s].aged
  /\ hooks' = [hooks EXCEPT ![s].aged = TRUE]
  /\ UNCHANGED <<result, proc, executions, sessions, crashes, announced, calls, accepted>>

\* A process is killed, or an error ends a session.
Crash(a) ==
  /\ crashes < MaxCrashes
  /\ proc[a].pc # "idle"
  /\ crashes' = crashes + 1
  /\ Become(a, Idle)
  /\ UNCHANGED <<hooks, result, executions, sessions, announced, calls, accepted>>

Deliver(a) ==
  \/ Judge(a) \/ Open(a) \/ EndSession(a) \/ Call(a) \/ Store(a) \/ Sweep(a) \/ Swept(a)
  \/ PersistRead(a) \/ PersistWrite(a)

Next ==
  \/ \E a \in Executors : \/ Execute(a) \/ AgentEnds(a) \/ FinishRun(a)
                          \/ HookFails(a) \/ FinishHookless(a)
  \/ \E a \in Senders : Begin(a)
  \/ \E a \in Procs : Deliver(a) \/ Crash(a)
  \/ \E s \in Slot : Ages(s)

Spec == Init /\ [][Next]_vars
------------------------------------------------------------------------------
(* Properties *)

TypeOK ==
  /\ hooks \in [Slot -> Payload \cup {NoFile}]
  /\ result \in [Runs -> Result]
  /\ proc \in [Procs -> Proc]
  /\ executions \in 0 .. MaxExecutions /\ sessions \in 0 .. MaxSessions
  /\ crashes \in 0 .. MaxCrashes
  /\ announced \subseteq Runs
  /\ calls \in [Runs -> Nat]
  /\ accepted \in [Runs -> BOOLEAN]

AllIdle == \A a \in Procs : proc[a].pc = "idle"

\* The hook of a completed run stays on disk: there is always a file for it in
\* one of the three states.
HookKept == \A r \in announced : Located(r) # "none"

\* No hook has lost the payload that names its run, as long as no process was
\* stopped (a hook with two copies may: the second is read after it has gone).
PayloadComplete == crashes = 0 => \A s \in Slot : hooks[s] # NoFile => hooks[s].full

\* An announcement the listener (or the caller of wake) has not been handed
\* remains where a later session looks for it, among the pending or the failed.
UndeliveredKept ==
  \A r \in announced :
    ~accepted[r] => hooks[At(r, "pending")] # NoFile \/ hooks[At(r, "failed")] # NoFile

\* Unasked, the listener is called at most max_delivery_attempts times for an
\* announcement; a process that is stopped may cost the record of the attempts made.
RetriesBounded == \A r \in Runs : calls[r] <= MaxTries * (1 + crashes)

\* Between sessions, unless a process was stopped, the delivery state noted in
\* result.json is the directory the hook lies in.
ResultAgrees ==
  AllIdle /\ crashes = 0 =>
    \A r \in Runs : result[r].final => result[r].told = Located(r)

\* What becomes of an announcement can be told from the files.
HooksAccounted == UndeliveredKept /\ PayloadComplete /\ RetriesBounded /\ ResultAgrees

Settled(r) ==
  \/ hooks[At(r, "sent")] # NoFile
  \/ hooks[At(r, "failed")] # NoFile /\ IsDeadLetter(hooks[At(r, "failed")])

\* What has been delivered or given up is left alone: through any number of sessions
\* the listener is not called, unasked, for a hook that is on record as sent or is a
\* dead letter, until the run is executed and announced again.  That is so while
\* processes take turns and none is stopped between storing a hook and removing its
\* other copy (write_hook_payload, reconcile_hooks.py's is_dead_letter).
SettledLeftAlone ==
  crashes = 0 =>
    \A a \in Procs : proc[a].pc = "call" /\ proc[a].kind # "wake" => ~Settled(proc[a].slot.run)

\* Every announced run is delivered or given up as a dead letter.
EveryHookSettles == \A r \in Runs : r \in announced ~> Settled(r)

\* A started process goes on, reconciliation comes round again, time passes.
Fairness ==
  /\ \A a \in Procs : WF_vars(Deliver(a))
  /\ \A a \in Executors : WF_vars(AgentEnds(a) \/ FinishRun(a) \/ FinishHookless(a))
  /\ \A a \in Senders : SF_vars(Begin(a))
  /\ \A s \in Slot : WF_vars(Ages(s))
FairSpec == Spec /\ Fairness
==============================================================================
