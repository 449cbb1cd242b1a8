----------------------------- MODULE ProjectMemory -----------------------------
(***************************************************************************)
(* What a project remembers (engine/project_memory.py, and the parts of    *)
(* state/orchestration_state.json that outlive a process): the note that   *)
(* execute_job extracts from every run, the index of the notes, and the    *)
(* dream that consolidates them, begun by `claw dream` or at the end of    *)
(* `claw orchestrate`, which saves a decision about every run in the same  *)
(* state file.                                                             *)
(*                                                                         *)
(* Every file is replaced atomically by a writer that has read it some     *)
(* steps before; only the work of a dream is under a lock.  A time is a    *)
(* whole second (utc_now_timestamp drops the rest), so that a run and a    *)
(* dream that end one after the other may have ended at the same time.     *)
(***************************************************************************)
EXTENDS Naturals, FiniteSets

CONSTANTS
  Executors,     \* execute_job processes
  Orchestrators, \* claw orchestrate processes
  Dreamers,      \* claw dream processes
  Runs,
  ProjectNote,   \* project_memory.md
  MinRuns,       \* AUTO_DREAM_MIN_RUNS
  MaxSeconds,    \* bound: different times that the clock shows in a behaviour
  MaxDreams,     \* bound: dreams begun in a behaviour
  MaxFaults      \* bound: file operations that fail and processes killed in a behaviour

ASSUME RunAssumption == ProjectNote \notin Runs
ASSUME RoleAssumption == Executors \cap (Orchestrators \cup Dreamers) = {} /\ Orchestrators \cap Dreamers = {}
ASSUME BoundAssumption == MinRuns \in Nat /\ MaxDreams \in Nat /\ MaxFaults \in Nat
ASSUME ClockAssumption == MaxSeconds \in Nat \ {0}

Procs == Executors \cup Orchestrators \cup Dreamers
Notes == Runs \cup {ProjectNote}
Dreams == 1 .. MaxDreams
Times == 0 .. MaxSeconds   \* 0: never

\* completed: last_completed_at; checked: last_checked_at is set.  What else the file
\* holds is read, changed and saved together with these (the entries of the tasks are
\* in RunControl).
State == [completed : Times, checked : BOOLEAN]

Fresh == [completed |-> 0, checked |-> FALSE]

PCs == {"idle", "save", "dream", "gates", "lock", "begin", "note", "index", "create", "read",
        "upsert", "log", "append", "complete", "release", "reload", "settle", "result"}

\* state, index, log: as the process has read them; recent: the runs a dream has found
\* to have ended since the last one; enough: are there MinRuns of them?
Proc == [pc : PCs, dream : {0} \cup Dreams, note : Notes, state : State,
         recent : SUBSET Runs, enough : BOOLEAN, index : SUBSET Notes, log : SUBSET Dreams]

Idle == [pc |-> "idle", dream |-> 0, note |-> ProjectNote, state |-> Fresh,
         recent |-> {}, enough |-> FALSE, index |-> {}, log |-> {}]

VARIABLES
  state,      \* orchestration_state.json
  clock,      \* the second that utc_now_timestamp returns
  stamp,      \* the second in which a run has ended: its finished_at has been taken
  finished,   \* runs whose result.json has it
  notes,      \* knowledge/runs/*.md and knowledge/project_memory.md
  indexed,    \* is there a knowledge/MEMORY.md?
  index,      \* its lines
  log,        \* the entries of dream_log.md
  lock,       \* does .dream.lock exist?
  proc,
  begun,      \* dreams begun
  faults,     \* failures and kills
  completed,  \* history: dreams that have completed
  ending,     \* history: has a dream got to its end in this second?
  reviewed,   \* history: runs that were recent to a completed dream
  during,     \* history: runs that ended while a dream was at work or in the second in
              \* which one had got to its end, or had ended but had no result yet when
              \* one began
  unlisted,   \* history: notes whose writer failed or died before it updated the index
  overlapped, \* history: have two updates of the index overlapped?
  abandoned   \* history: was the lock left behind by a dream that was killed, or could
              \* not write its time into it?

times == <<clock, stamp, finished>>
memory == <<notes, indexed, index, log>>
bounds == <<begun, faults>>
ghosts == <<completed, ending, reviewed, during, unlisted, overlapped, abandoned>>
vars == <<state, times, memory, lock, proc, bounds, ghosts>>

-----------------------------------------------------------------------------
At(p, s) == proc[p].pc = s
stamped == {r \in Runs : stamp[r] # 0}

\* The runs that a dream with this state in hand leaves out.
Behind(s) == {r \in stamped : stamp[r] <= s.completed}

Listing == {"index", "create", "read", "upsert"}
Holding == Listing \cup {"begin", "note", "log", "append", "complete", "release"}
Holds(p) == p \notin Executors /\ proc[p].pc \in Holding
Dreaming(p) == At(p, "gates") \/ At(p, "lock") \/ (Holds(p) /\ ~At(p, "release"))

Set(p, x) == proc' = [proc EXCEPT ![p] = x]
To(p, s) == Set(p, [proc[p] EXCEPT !.pc = s])
Leave(p) == Set(p, Idle)

\* The finally clause is next, of what the process has in hand only the file descriptor counts.
Cease(p) == Set(p, [Idle EXCEPT !.pc = "release"])

\* After a dream, successful or not: `claw dream` updates its entry, orchestrate ends.
After(p) == IF p \in Orchestrators THEN Leave(p)
            ELSE Set(p, [Idle EXCEPT !.pc = "reload"])

Init ==
  /\ state = Fresh
  /\ clock = 1 /\ stamp = [r \in Runs |-> 0] /\ finished = {}
  /\ notes = {} /\ indexed = FALSE /\ index = {} /\ log = {}
  /\ lock = FALSE
  /\ proc = [p \in Procs |-> Idle]
  /\ begun = 0 /\ faults = 0
  /\ completed = {} /\ ending = FALSE /\ reviewed = {} /\ during = {} /\ unlisted = {}
  /\ overlapped = FALSE /\ abandoned = FALSE

-----------------------------------------------------------------------------
\* The clock shows another second, any time later.
Tick ==
  /\ clock < MaxSeconds
  /\ clock' = clock + 1
  /\ ending' = FALSE
  /\ UNCHANGED <<state, stamp, finished, memory, lock, proc, bounds, completed, reviewed, during,
                 unlisted, overlapped, abandoned>>

-----------------------------------------------------------------------------
(* The note of a run: extract_run_knowledge *)

\* execute_job takes the time at which the run has ended.
Finish(p, r) ==
  /\ At(p, "idle") /\ p \in Executors
  /\ r \notin stamped
  /\ stamp' = [stamp EXCEPT ![r] = clock]
  /\ Set(p, [Idle EXCEPT !.pc = "note", !.note = r])
  /\ during' = IF ending \/ \E q \in Procs : Dreaming(q) THEN during \cup {r} ELSE during
  /\ UNCHANGED <<state, clock, finished, memory, lock, bounds, completed, ending, reviewed, unlisted,
                 overlapped, abandoned>>

WriteNote(p) ==
  /\ At(p, "note")
  /\ notes' = notes \cup {proc[p].note}
  /\ To(p, "index")
  /\ UNCHANGED <<state, times, indexed, index, log, lock, bounds, ghosts>>

\* _ensure_memory_index looks whether there is an index ...
EnsureIndex(p) ==
  /\ At(p, "index")
  /\ To(p, IF indexed THEN "read" ELSE "create")
  /\ overlapped' = (overlapped \/ \E q \in Procs : proc[q].pc \in {"create", "read", "upsert"})
  /\ UNCHANGED <<state, times, memory, lock, bounds, completed, ending, reviewed, during, unlisted,
                 abandoned>>

\* ... and makes one without lines,
CreateIndex(p) ==
  /\ At(p, "create")
  /\ indexed' = TRUE
  /\ index' = {}
  /\ To(p, "read")
  /\ UNCHANGED <<state, times, notes, log, lock, bounds, ghosts>>

\* _upsert_memory_index reads it ...
ReadIndex(p) ==
  /\ At(p, "read")
  /\ Set(p, [proc[p] EXCEPT !.pc = "upsert", !.index = index])
  /\ UNCHANGED <<state, times, memory, lock, bounds, ghosts>>

\* ... and replaces it, with the line of the note in it.
Upserted(old, note) == old \cup {note}

UpdateIndex(p) ==
  /\ At(p, "upsert")
  /\ index' = Upserted(proc[p].index, proc[p].note)
  /\ Set(p, [proc[p] EXCEPT !.pc = IF p \in Executors THEN "result" ELSE "log", !.index = {}])
  /\ UNCHANGED <<state, times, notes, indexed, log, lock, bounds, ghosts>>

\* The result is written after the note.
WriteResult(p) ==
  /\ At(p, "result")
  /\ finished' = finished \cup {proc[p].note}
  /\ Leave(p)
  /\ UNCHANGED <<state, clock, stamp, memory, lock, bounds, ghosts>>

-----------------------------------------------------------------------------
(* The dream *)

\* `claw dream` reads the state, to add its entry (persist_runtime_task_entry) ...
Command(p) ==
  /\ At(p, "idle") /\ p \in Dreamers
  /\ begun < MaxDreams
  /\ begun' = begun + 1
  /\ Set(p, [Idle EXCEPT !.pc = "save", !.dream = begun + 1, !.state = state])
  /\ UNCHANGED <<state, times, memory, lock, faults, ghosts>>

\* ... and orchestrate to add its decision (record_orchestration_decision).
Decide(p) ==
  /\ At(p, "idle") /\ p \in Orchestrators
  /\ Set(p, [Idle EXCEPT !.pc = "save", !.state = state])
  /\ UNCHANGED <<state, times, memory, lock, bounds, ghosts>>

Save(p) ==
  /\ At(p, "save")
  /\ state' = proc[p].state
  /\ IF p \in Orchestrators THEN Leave(p) ELSE To(p, "dream")
  /\ UNCHANGED <<times, memory, lock, bounds, ghosts>>

\* The loop of orchestrate has ended.
AutoDream(p) ==
  /\ At(p, "idle") /\ p \in Orchestrators
  /\ begun < MaxDreams
  /\ begun' = begun + 1
  /\ Set(p, [Idle EXCEPT !.pc = "dream", !.dream = begun + 1])
  /\ UNCHANGED <<state, times, memory, lock, faults, ghosts>>

\* run_project_dream reads the whole state, then the results.  Those of runs under way
\* have no finished_at, and count by the time of their creation.  A run that ended in
\* the second of last_completed_at is not later.
ReadState(p) ==
  /\ At(p, "dream")
  /\ \E underway \in SUBSET (Runs \ finished) :
       LET recent == {r \in finished : stamp[r] > state.completed}
       IN  Set(p, [proc[p] EXCEPT !.pc = "gates", !.state = state, !.recent = recent,
                                !.enough = Cardinality(recent \cup underway) >= MinRuns])
  /\ during' = during \cup (stamped \ finished)
  /\ UNCHANGED <<state, times, memory, lock, bounds, completed, ending, reviewed, unlisted,
                 overlapped, abandoned>>

\* The gates of an automatic dream: 24 hours since the last one, enough runs, and 600
\* seconds since the runs were counted.
TooSoon(p) == proc[p].state.completed # 0 \/ (proc[p].state.checked /\ ~proc[p].enough)

Skip(p) ==
  /\ At(p, "gates") /\ p \in Orchestrators
  /\ TooSoon(p)
  /\ Leave(p)
  /\ UNCHANGED <<state, times, memory, lock, bounds, ghosts>>

TooFew(p) ==
  /\ At(p, "gates") /\ p \in Orchestrators /\ ~proc[p].enough
  /\ state' = [proc[p].state EXCEPT !.checked = TRUE]
  /\ Leave(p)
  /\ UNCHANGED <<times, memory, lock, bounds, ghosts>>

Proceed(p) ==
  /\ At(p, "gates")
  /\ p \in Orchestrators => proc[p].enough
  /\ To(p, "lock")
  /\ UNCHANGED <<state, times, memory, lock, bounds, ghosts>>

\* Variant: the lock is taken without O_EXCL.
AcquiredAlways(p) == TRUE

\* _acquire_dream_lock: O_CREAT with O_EXCL.
Acquired(p) == ~lock

Acquire(p) ==
  /\ At(p, "lock") /\ Acquired(p)
  /\ lock' = TRUE
  /\ To(p, "begin")
  /\ UNCHANGED <<state, times, memory, bounds, ghosts>>

Locked(p) ==
  /\ At(p, "lock") /\ ~Acquired(p)
  /\ After(p)
  /\ UNCHANGED <<state, times, memory, lock, bounds, ghosts>>

\* The file of the lock is there but its time cannot be written: the exception passes
\* every handler by, and the lock stays.
AcquireFails(p) ==
  /\ At(p, "lock") /\ ~lock
  /\ faults < MaxFaults
  /\ faults' = faults + 1
  /\ lock' = TRUE
  /\ abandoned' = TRUE
  /\ After(p)
  /\ UNCHANGED <<state, times, memory, begun, completed, ending, reviewed, during, unlisted,
                 overlapped>>

\* The state as it was read before the lock is saved with the beginning of this dream.
Begin(p) ==
  /\ At(p, "begin")
  /\ LET s == [proc[p].state EXCEPT !.checked = TRUE]
     IN  /\ state' = s
         /\ Set(p, [proc[p] EXCEPT !.pc = "note", !.state = s])
  /\ UNCHANGED <<times, memory, lock, bounds, ghosts>>

\* _append_dream_log
ReadLog(p) ==
  /\ At(p, "log")
  /\ Set(p, [proc[p] EXCEPT !.pc = "append", !.log = log])
  /\ UNCHANGED <<state, times, memory, lock, bounds, ghosts>>

AppendLog(p) ==
  /\ At(p, "append")
  /\ log' = proc[p].log \cup {proc[p].dream}
  /\ Set(p, [proc[p] EXCEPT !.pc = "complete", !.log = {}])
  /\ UNCHANGED <<state, times, notes, indexed, index, lock, bounds, ghosts>>

\* Variant: times are rounded up to the second.
EndedRoundedUp(s) == [s EXCEPT !.completed = clock + 1]

\* The record of a dream that has got to its end: last_completed_at is now.
Ended(s) == [s EXCEPT !.completed = clock]

Complete(p) ==
  /\ At(p, "complete")
  /\ state' = Ended(proc[p].state)
  /\ Cease(p)
  /\ completed' = completed \cup {proc[p].dream}
  /\ ending' = TRUE
  /\ reviewed' = reviewed \cup proc[p].recent
  /\ UNCHANGED <<times, memory, lock, bounds, during, unlisted, overlapped, abandoned>>

\* Variant: a dream that fails is recorded like one that has got to its end.
RecordedAsEnded(p) == Ended(proc[p].state)

\* The handler of an exception saves the state with what the dream has put into it: the
\* beginning, and when it is the last save that failed last_completed_at.  It may fail too.
Recorded(p) == IF At(p, "complete") THEN Ended(proc[p].state) ELSE [proc[p].state EXCEPT !.checked = TRUE]

DreamFails(p) ==
  /\ Holds(p) /\ ~At(p, "release")
  /\ faults < MaxFaults
  /\ faults' = faults + 1
  /\ state' \in {state, Recorded(p)}
  /\ Cease(p)
  /\ ending' = (ending \/ At(p, "complete"))
  /\ reviewed' = IF At(p, "complete") THEN reviewed \cup proc[p].recent ELSE reviewed
  /\ unlisted' = IF proc[p].pc \in Listing THEN unlisted \cup {proc[p].note} ELSE unlisted
  /\ UNCHANGED <<times, memory, lock, begun, completed, during, overlapped, abandoned>>

\* extract_run_knowledge fails: the run does not.
NoteFails(p) ==
  /\ p \in Executors /\ ~At(p, "idle") /\ ~At(p, "result")
  /\ faults < MaxFaults
  /\ faults' = faults + 1
  /\ unlisted' = unlisted \cup {proc[p].note}
  /\ Set(p, [proc[p] EXCEPT !.pc = "result", !.index = {}])
  /\ UNCHANGED <<state, times, memory, lock, begun, completed, ending, reviewed, during,
                 overlapped, abandoned>>

\* _release_dream_lock, in the finally clause.
Release(p) ==
  /\ At(p, "release")
  /\ lock' = FALSE
  /\ After(p)
  /\ UNCHANGED <<state, times, memory, bounds, ghosts>>

\* cmd_dream ends its entry.
Reload(p) ==
  /\ At(p, "reload")
  /\ Set(p, [proc[p] EXCEPT !.pc = "settle", !.state = state])
  /\ UNCHANGED <<state, times, memory, lock, bounds, ghosts>>

Settle(p) ==
  /\ At(p, "settle")
  /\ state' = proc[p].state
  /\ Leave(p)
  /\ UNCHANGED <<times, memory, lock, bounds, ghosts>>

-----------------------------------------------------------------------------
\* A process is killed.  Nothing ever removes the lock of a dream that was.
Crash(p) ==
  /\ ~At(p, "idle")
  /\ faults < MaxFaults
  /\ faults' = faults + 1
  /\ abandoned' = (abandoned \/ Holds(p))
  /\ unlisted' = IF proc[p].pc \in Listing THEN unlisted \cup {proc[p].note} ELSE unlisted
  /\ Leave(p)
  /\ UNCHANGED <<state, times, memory, lock, begun, completed, ending, reviewed, during,
                 overlapped>>

Work(p) ==
  \/ WriteNote(p) \/ EnsureIndex(p) \/ CreateIndex(p) \/ ReadIndex(p) \/ UpdateIndex(p) \/ WriteResult(p)
  \/ Save(p) \/ ReadState(p) \/ Skip(p) \/ TooFew(p) \/ Proceed(p)
  \/ Acquire(p) \/ Locked(p) \/ Begin(p) \/ ReadLog(p) \/ AppendLog(p) \/ Complete(p)
  \/ Release(p) \/ Reload(p) \/ Settle(p)

Next ==
  \/ \E p \in Procs : \/ Work(p) \/ AcquireFails(p) \/ DreamFails(p) \/ NoteFails(p) \/ Crash(p)
                      \/ Command(p) \/ AutoDream(p) \/ Decide(p)
  \/ \E p \in Procs, r \in Runs : Finish(p, r)
  \/ Tick

Spec == Init /\ [][Next]_vars

-----------------------------------------------------------------------------
\* Every variable keeps to its type.
TypeOK ==
  /\ state \in State
  /\ clock \in Times /\ stamp \in [Runs -> Times] /\ finished \subseteq stamped
  /\ notes \subseteq Notes /\ indexed \in BOOLEAN /\ index \subseteq Notes
  /\ log \subseteq Dreams /\ lock \in BOOLEAN
  /\ proc \in [Procs -> Proc]
  /\ begun \in 0 .. MaxDreams /\ faults \in 0 .. MaxFaults
  /\ completed \subseteq Dreams /\ ending \in BOOLEAN /\ reviewed \subseteq Runs /\ during \subseteq Runs
  /\ unlisted \subseteq Notes /\ overlapped \in BOOLEAN /\ abandoned \in BOOLEAN

\* dream_log.md has an entry of every dream that has completed, though it is replaced
\* by what a dream has read before: only one dream is at work at a time, and the lock
\* of one that is not at work has been taken away, unless it was left behind.
DreamsLogged ==
  /\ completed \subseteq log
  /\ lock <=> (abandoned \/ \E p \in Procs : Holds(p))

\* Every note is in the index, save one whose writer has not got to the index yet or
\* never got there, and save for updates of the index that have overlapped.
IndexComplete ==
  \A n \in notes :
    n \in index \cup unlisted \/ overlapped \/ \E p \in Procs : proc[p].pc \in Listing /\ proc[p].note = n

\* What has been written down is found: the dreams in the log, the notes in the index.
MemoryKept == DreamsLogged /\ IndexComplete

\* A run leaves the window of the next dream (results later than the last completed
\* dream) only if a dream has reviewed it, whichever dreams failed, were killed or wrote
\* back an older state, or if it ended, or was about to write its result, while a dream
\* was at work, or if it ended after a dream but in the second in which that got to its
\* end: times are whole seconds, and the same second is not later.
NoRunForgotten == Behind(state) \subseteq reviewed \cup during
===============================================================================
