-------------------------- MODULE ProjectMemoryProofs --------------------------
(***************************************************************************)
(* The variables of ProjectMemory keep to their types, what has been       *)
(* written down is found again, and no run is forgotten by the dreams: for *)
(* any numbers of executors, orchestrate loops, dreamers, runs, dreams,    *)
(* failures and kills.                                                     *)
(***************************************************************************)
EXTENDS ProjectMemory, TLAPS

-------------------------------------------------------------------------------
(* Types *)

TimesTyped ==
  /\ clock \in Times \ {0} /\ stamp \in [Runs -> Times] /\ \A r \in Runs : stamp[r] <= clock
  /\ finished \subseteq stamped

FilesTyped ==
  /\ TimesTyped
  /\ state \in State
  /\ notes \subseteq Notes /\ indexed \in BOOLEAN /\ index \subseteq Notes
  /\ log \subseteq Dreams /\ lock \in BOOLEAN
  /\ begun \in 0 .. MaxDreams /\ faults \in 0 .. MaxFaults
  /\ completed \subseteq Dreams /\ ending \in BOOLEAN /\ reviewed \subseteq Runs /\ during \subseteq Runs
  /\ unlisted \subseteq Notes /\ overlapped \in BOOLEAN /\ abandoned \in BOOLEAN

\* Where a process of each role can be, and whose note or which dream it has in hand.
Placing(p, x, ended) ==
  /\ x \in Proc
  /\ p \in Executors => /\ x.pc \in {"idle", "note", "result"} \cup Listing
                        /\ x.pc # "idle" => x.note \in ended
  /\ p \notin Executors =>
       /\ x.pc # "result"
       /\ \/ x.pc \in {"idle", "release", "reload", "settle"}
          \/ x.pc = "save" /\ p \in Orchestrators
          \/ x.dream \in Dreams

ProcsTyped ==
  /\ proc \in [Procs -> Proc]
  /\ \A p \in Procs : Placing(p, proc[p], stamped)

TInv == FilesTyped /\ ProcsTyped

LEMMA IdleTyped == Idle \in Proc /\ Idle.pc = "idle" /\ Idle.state = Fresh /\ Fresh \in State
  BY ClockAssumption DEF Idle, Fresh, Proc, PCs, State, Times, Notes

LEMMA PCTyped ==
  {"idle", "save", "dream", "gates", "lock", "begin", "note", "index", "create", "read", "upsert", "log",
   "append", "complete", "release", "reload", "settle", "result"} \subseteq PCs
  BY DEF PCs

LEMMA StateTyped ==
  \A s \in State : /\ [s EXCEPT !.checked = TRUE] \in State
                   /\ \A now \in Times : [s EXCEPT !.completed = now] \in State
  BY DEF State

\* A process that has nothing in hand but its program counter.
LEMMA Resting ==
  ASSUME NEW p \in Procs, NEW ended
  PROVE  /\ Placing(p, Idle, ended)
         /\ p \notin Executors => /\ Placing(p, [Idle EXCEPT !.pc = "release"], ended)
                                 /\ Placing(p, [Idle EXCEPT !.pc = "reload"], ended)
<1>1. /\ [Idle EXCEPT !.pc = "release"] \in Proc /\ [Idle EXCEPT !.pc = "release"].pc = "release"
      /\ [Idle EXCEPT !.pc = "reload"] \in Proc /\ [Idle EXCEPT !.pc = "reload"].pc = "reload"
  BY IdleTyped, PCTyped DEF Proc
<1> QED
  BY <1>1, IdleTyped DEF Placing

LEMMA HandTyped == ASSUME TInv, NEW p \in Procs PROVE proc[p] \in Proc /\ Placing(p, proc[p], stamped)
  BY DEF TInv, ProcsTyped

LEMMA Move ==
  ASSUME TInv, NEW p \in Procs, NEW x, Set(p, x), Placing(p, x, stamped'), FilesTyped',
         stamped \subseteq stamped'
  PROVE  TInv'
<1>1. proc' \in [Procs -> Proc]
  BY DEF TInv, ProcsTyped, Set, Placing
<1>2. ASSUME NEW q \in Procs PROVE Placing(q, proc'[q], stamped')
  <2>1. CASE q = p
    BY <2>1 DEF TInv, ProcsTyped, Set
  <2>2. CASE q # p
    <3>1. proc'[q] = proc[q] /\ Placing(q, proc[q], stamped)
      BY <2>2 DEF TInv, ProcsTyped, Set
    <3> QED
      BY <3>1 DEF Placing
  <2> QED
    BY <2>1, <2>2
<1> QED
  BY <1>1, <1>2 DEF TInv, ProcsTyped

\* What a process that has left the dream has in hand.
LEMMA Afterwards ==
  ASSUME TInv, NEW p \in Procs, After(p)
  PROVE  /\ \A q \in Procs : q # p => proc'[q] = proc[q]
         /\ proc'[p].pc \in {"idle", "reload"} /\ proc'[p].state = Fresh
<1>1. CASE p \in Orchestrators
  BY <1>1, IdleTyped DEF After, Leave, Set, TInv, ProcsTyped
<1>2. CASE p \notin Orchestrators
  BY <1>2, IdleTyped DEF After, Set, TInv, ProcsTyped, Proc
<1> QED
  BY <1>1, <1>2

LEMMA InitTyped == Init => TInv
<1> SUFFICES ASSUME Init PROVE TInv
  OBVIOUS
<1>1. state \in State
  BY IdleTyped DEF Init
<1>2. begun \in 0 .. MaxDreams /\ faults \in 0 .. MaxFaults
  BY BoundAssumption DEF Init
<1>3. TimesTyped
  BY ClockAssumption DEF Init, TimesTyped, Times, stamped
<1>4. FilesTyped
  BY <1>1, <1>2, <1>3 DEF Init, FilesTyped
<1>5. ProcsTyped
  BY IdleTyped, Resting DEF Init, ProcsTyped
<1> QED
  BY <1>4, <1>5 DEF TInv

LEMMA StepTyped == TInv /\ [Next]_vars => TInv'
<1> SUFFICES ASSUME TInv, [Next]_vars PROVE TInv'
  OBVIOUS
<1>1. CASE UNCHANGED vars
  <2>1. FilesTyped'
    BY <1>1 DEF vars, times, stamped, TimesTyped, memory, bounds, ghosts, TInv, FilesTyped
  <2>2. stamped' = stamped /\ proc' = proc
    BY <1>1 DEF vars, times, stamped
  <2> QED
    BY <2>1, <2>2 DEF TInv, ProcsTyped
<1>2. ASSUME NEW p \in Procs, NEW r \in Runs, Finish(p, r) PROVE TInv'
  <2> DEFINE x == [Idle EXCEPT !.pc = "note", !.note = r]
  <2>1. Set(p, x)
    BY <1>2 DEF Finish
  <2>2. x \in Proc
    BY PCTyped, IdleTyped DEF TInv, FilesTyped, Notes, Proc
  <2>3. stamped \subseteq stamped' /\ r \in stamped'
    BY <1>2 DEF Finish, stamped, TInv, FilesTyped, TimesTyped, Times
  <2>4. Placing(p, x, stamped')
    BY <2>3, <1>2, <2>2, IdleTyped, RoleAssumption DEF Finish, At, Holds, Holding, Listing, Placing,
       Proc
  <2>5. TimesTyped'
    BY <1>2 DEF Finish, stamped, Times, TimesTyped, TInv, FilesTyped
  <2>6. FilesTyped'
    BY <2>5, <1>2 DEF Finish, memory, bounds, TInv, FilesTyped, Notes
  <2> QED
    BY <2>1, <2>3, <2>4, <2>6, Move
<1>3. ASSUME NEW p \in Procs, WriteNote(p) PROVE TInv'
  <2> DEFINE x == [proc[p] EXCEPT !.pc = "index"]
  <2>1. Set(p, x)
    BY <1>3 DEF WriteNote, To
  <2>2. x \in Proc
    BY PCTyped, HandTyped DEF Proc
  <2>3. stamped \subseteq stamped'
    BY <1>3 DEF WriteNote, times, stamped
  <2>4. Placing(p, x, stamped')
    BY <2>3, <1>3, <2>2, HandTyped, RoleAssumption DEF WriteNote, At, Placing, Proc, Listing
  <2>5. FilesTyped'
    BY <1>3, HandTyped DEF WriteNote, times, stamped, TimesTyped, bounds, ghosts, TInv, FilesTyped, Proc
  <2> QED
    BY <2>1, <2>3, <2>4, <2>5, Move
<1>4. ASSUME NEW p \in Procs, EnsureIndex(p) PROVE TInv'
  <2> DEFINE x == [proc[p] EXCEPT !.pc = IF indexed THEN "read" ELSE "create"]
  <2>1. Set(p, x)
    BY <1>4 DEF EnsureIndex, To
  <2>2. x \in Proc
    BY PCTyped, HandTyped DEF Proc
  <2>3. stamped \subseteq stamped'
    BY <1>4 DEF EnsureIndex, times, stamped
  <2>4. Placing(p, x, stamped')
    BY <2>3, <1>4, <2>2, HandTyped, RoleAssumption DEF EnsureIndex, At, Placing, Proc, Listing
  <2>5. FilesTyped'
    BY <1>4 DEF EnsureIndex, times, stamped, TimesTyped, memory, bounds, TInv, FilesTyped
  <2> QED
    BY <2>1, <2>3, <2>4, <2>5, Move
<1>5. ASSUME NEW p \in Procs, CreateIndex(p) PROVE TInv'
  <2> DEFINE x == [proc[p] EXCEPT !.pc = "read"]
  <2>1. Set(p, x)
    BY <1>5 DEF CreateIndex, To
  <2>2. x \in Proc
    BY PCTyped, HandTyped DEF Proc
  <2>3. stamped \subseteq stamped'
    BY <1>5 DEF CreateIndex, times, stamped
  <2>4. Placing(p, x, stamped')
    BY <2>3, <1>5, <2>2, HandTyped, RoleAssumption DEF CreateIndex, At, Placing, Proc, Listing
  <2>5. FilesTyped'
    BY <1>5 DEF CreateIndex, times, stamped, TimesTyped, bounds, ghosts, TInv, FilesTyped
  <2> QED
    BY <2>1, <2>3, <2>4, <2>5, Move
<1>6. ASSUME NEW p \in Procs, ReadIndex(p) PROVE TInv'
  <2> DEFINE x == [proc[p] EXCEPT !.pc = "upsert", !.index = index]
  <2>1. Set(p, x)
    BY <1>6 DEF ReadIndex
  <2>2. x \in Proc
    BY PCTyped, HandTyped DEF TInv, FilesTyped, Proc
  <2>3. stamped \subseteq stamped'
    BY <1>6 DEF ReadIndex, times, stamped
  <2>4. Placing(p, x, stamped')
    BY <2>3, <1>6, <2>2, HandTyped, RoleAssumption DEF ReadIndex, At, Placing, Proc, Listing
  <2>5. FilesTyped'
    BY <1>6 DEF ReadIndex, times, stamped, TimesTyped, memory, bounds, ghosts, TInv, FilesTyped
  <2> QED
    BY <2>1, <2>3, <2>4, <2>5, Move
<1>7. ASSUME NEW p \in Procs, UpdateIndex(p) PROVE TInv'
  <2> DEFINE x == [proc[p] EXCEPT !.pc = IF p \in Executors THEN "result" ELSE "log",
     !.index = {}]
  <2>1. Set(p, x)
    BY <1>7 DEF UpdateIndex
  <2>2. x \in Proc
    BY PCTyped, HandTyped DEF Proc
  <2>3. stamped \subseteq stamped'
    BY <1>7 DEF UpdateIndex, times, stamped
  <2>4. Placing(p, x, stamped')
    BY <2>3, <1>7, <2>2, HandTyped, RoleAssumption DEF UpdateIndex, At, Placing, Proc, Listing
  <2>5. FilesTyped'
    BY <1>7, HandTyped DEF UpdateIndex, times, stamped, TimesTyped, bounds, ghosts, TInv, FilesTyped, Proc, Upserted
  <2> QED
    BY <2>1, <2>3, <2>4, <2>5, Move
<1>8. ASSUME NEW p \in Procs, WriteResult(p) PROVE TInv'
  <2> DEFINE x == Idle
  <2>1. Set(p, x)
    BY <1>8 DEF WriteResult, Leave
  <2>3. stamped \subseteq stamped'
    BY <1>8 DEF WriteResult, times, stamped
  <2>4. Placing(p, x, stamped')
    BY <2>3, Resting
  <2>5. FilesTyped'
    BY <1>8, HandTyped DEF WriteResult, times, stamped, TimesTyped, memory, bounds, ghosts, TInv, FilesTyped, Proc, Placing,
       At, Listing
  <2> QED
    BY <2>1, <2>3, <2>4, <2>5, Move
<1>9. ASSUME NEW p \in Procs, Save(p) PROVE TInv'
  <2> DEFINE x == IF p \in Orchestrators THEN Idle ELSE [proc[p] EXCEPT !.pc = "dream"]
  <2>1. Set(p, x)
    BY <1>9 DEF Save, To, Leave
  <2>2. x \in Proc
    BY PCTyped, HandTyped, IdleTyped DEF Proc
  <2>3. stamped \subseteq stamped'
    BY <1>9 DEF Save, times, stamped
  <2>4. Placing(p, x, stamped')
    BY <2>3, <1>9, <2>2, HandTyped, IdleTyped, RoleAssumption DEF Save, At, Placing, Proc, Listing
  <2>5. FilesTyped'
    BY <1>9, HandTyped DEF Save, times, stamped, TimesTyped, memory, bounds, ghosts, TInv, FilesTyped, Proc
  <2> QED
    BY <2>1, <2>3, <2>4, <2>5, Move
<1>10. ASSUME NEW p \in Procs, ReadState(p) PROVE TInv'
  <2> DEFINE Later == {r \in finished : stamp[r] > state.completed}
  <2>0. PICK underway \in SUBSET (Runs \ finished) :
          Set(p, [proc[p] EXCEPT !.pc = "gates", !.state = state,
             !.recent = Later,
             !.enough = Cardinality(Later \cup underway) >= MinRuns])
    BY <1>10 DEF ReadState
  <2> DEFINE x == [proc[p] EXCEPT !.pc = "gates", !.state = state,
     !.recent = Later,
     !.enough = Cardinality(Later \cup underway) >= MinRuns]
  <2>1. Set(p, x)
    BY <2>0
  <2>a. Later \in SUBSET Runs
    BY DEF TInv, FilesTyped, TimesTyped, stamped
  <2>b. (Cardinality(Later \cup underway) >= MinRuns) \in BOOLEAN
    OBVIOUS
  <2>2. x \in Proc
    BY PCTyped, HandTyped, <2>a, <2>b DEF TInv, FilesTyped, Proc
  <2>3. stamped \subseteq stamped'
    BY <1>10 DEF ReadState, times, stamped
  <2>4. Placing(p, x, stamped')
    BY <2>3, <1>10, <2>2, HandTyped, <2>a, <2>b, RoleAssumption DEF ReadState, At, Placing, Proc,
       Listing
  <2>5. FilesTyped'
    BY <1>10 DEF ReadState, times, stamped, TimesTyped, memory, bounds, TInv, FilesTyped
  <2> QED
    BY <2>1, <2>3, <2>4, <2>5, Move
<1>11. ASSUME NEW p \in Procs, Skip(p) PROVE TInv'
  <2> DEFINE x == Idle
  <2>1. Set(p, x)
    BY <1>11 DEF Skip, Leave
  <2>3. stamped \subseteq stamped'
    BY <1>11 DEF Skip, times, stamped
  <2>4. Placing(p, x, stamped')
    BY <2>3, Resting
  <2>5. FilesTyped'
    BY <1>11 DEF Skip, times, stamped, TimesTyped, memory, bounds, ghosts, TInv, FilesTyped
  <2> QED
    BY <2>1, <2>3, <2>4, <2>5, Move
<1>12. ASSUME NEW p \in Procs, TooFew(p) PROVE TInv'
  <2> DEFINE x == Idle
  <2>1. Set(p, x)
    BY <1>12 DEF TooFew, Leave
  <2>3. stamped \subseteq stamped'
    BY <1>12 DEF TooFew, times, stamped
  <2>4. Placing(p, x, stamped')
    BY <2>3, Resting
  <2>5. FilesTyped'
    BY <1>12, HandTyped, StateTyped DEF TooFew, times, stamped, TimesTyped, memory, bounds, ghosts, TInv, FilesTyped, Proc
  <2> QED
    BY <2>1, <2>3, <2>4, <2>5, Move
<1>13. ASSUME NEW p \in Procs, Proceed(p) PROVE TInv'
  <2> DEFINE x == [proc[p] EXCEPT !.pc = "lock"]
  <2>1. Set(p, x)
    BY <1>13 DEF Proceed, To
  <2>2. x \in Proc
    BY PCTyped, HandTyped DEF Proc
  <2>3. stamped \subseteq stamped'
    BY <1>13 DEF Proceed, times, stamped
  <2>4. Placing(p, x, stamped')
    BY <2>3, <1>13, <2>2, HandTyped, RoleAssumption DEF Proceed, At, Placing, Proc, Listing
  <2>5. FilesTyped'
    BY <1>13 DEF Proceed, times, stamped, TimesTyped, memory, bounds, ghosts, TInv, FilesTyped
  <2> QED
    BY <2>1, <2>3, <2>4, <2>5, Move
<1>14. ASSUME NEW p \in Procs, Acquire(p) PROVE TInv'
  <2> DEFINE x == [proc[p] EXCEPT !.pc = "begin"]
  <2>1. Set(p, x)
    BY <1>14 DEF Acquire, To
  <2>2. x \in Proc
    BY PCTyped, HandTyped DEF Proc
  <2>3. stamped \subseteq stamped'
    BY <1>14 DEF Acquire, times, stamped
  <2>4. Placing(p, x, stamped')
    BY <2>3, <1>14, <2>2, HandTyped, RoleAssumption DEF Acquire, At, Placing, Proc, Listing
  <2>5. FilesTyped'
    BY <1>14 DEF Acquire, times, stamped, TimesTyped, memory, bounds, ghosts, TInv, FilesTyped
  <2> QED
    BY <2>1, <2>3, <2>4, <2>5, Move
<1>15. ASSUME NEW p \in Procs, Locked(p) PROVE TInv'
  <2> DEFINE x == IF p \in Orchestrators THEN Idle ELSE [Idle EXCEPT !.pc = "reload"]
  <2>1. Set(p, x)
    BY <1>15 DEF Locked, Leave, After
  <2>3. stamped \subseteq stamped'
    BY <1>15 DEF Locked, times, stamped
  <2>4. Placing(p, x, stamped')
    BY <2>3, <1>15, HandTyped, Resting DEF Locked, At, Placing, Listing
  <2>5. FilesTyped'
    BY <1>15 DEF Locked, times, stamped, TimesTyped, memory, bounds, ghosts, TInv, FilesTyped
  <2> QED
    BY <2>1, <2>3, <2>4, <2>5, Move
<1>16. ASSUME NEW p \in Procs, Begin(p) PROVE TInv'
  <2> DEFINE x == [proc[p] EXCEPT !.pc = "note",
     !.state = [proc[p].state EXCEPT !.checked = TRUE]]
  <2>1. Set(p, x)
    BY <1>16 DEF Begin
  <2>a. [proc[p].state EXCEPT !.checked = TRUE] \in State
    BY HandTyped, StateTyped DEF Proc
  <2>2. x \in Proc
    BY PCTyped, HandTyped, <2>a DEF Proc
  <2>3. stamped \subseteq stamped'
    BY <1>16 DEF Begin, times, stamped
  <2>4. Placing(p, x, stamped')
    BY <2>3, <1>16, <2>2, HandTyped, <2>a, RoleAssumption DEF Begin, At, Placing, Proc, Listing
  <2>5. FilesTyped'
    BY <1>16, HandTyped, StateTyped DEF Begin, times, stamped, TimesTyped, memory, bounds, ghosts, TInv, FilesTyped, Proc
  <2> QED
    BY <2>1, <2>3, <2>4, <2>5, Move
<1>17. ASSUME NEW p \in Procs, ReadLog(p) PROVE TInv'
  <2> DEFINE x == [proc[p] EXCEPT !.pc = "append", !.log = log]
  <2>1. Set(p, x)
    BY <1>17 DEF ReadLog
  <2>2. x \in Proc
    BY PCTyped, HandTyped DEF TInv, FilesTyped, Proc
  <2>3. stamped \subseteq stamped'
    BY <1>17 DEF ReadLog, times, stamped
  <2>4. Placing(p, x, stamped')
    BY <2>3, <1>17, <2>2, HandTyped, RoleAssumption DEF ReadLog, At, Placing, Proc, Listing
  <2>5. FilesTyped'
    BY <1>17 DEF ReadLog, times, stamped, TimesTyped, memory, bounds, ghosts, TInv, FilesTyped
  <2> QED
    BY <2>1, <2>3, <2>4, <2>5, Move
<1>18. ASSUME NEW p \in Procs, AppendLog(p) PROVE TInv'
  <2> DEFINE x == [proc[p] EXCEPT !.pc = "complete", !.log = {}]
  <2>1. Set(p, x)
    BY <1>18 DEF AppendLog
  <2>2. x \in Proc
    BY PCTyped, HandTyped DEF Proc
  <2>3. stamped \subseteq stamped'
    BY <1>18 DEF AppendLog, times, stamped
  <2>4. Placing(p, x, stamped')
    BY <2>3, <1>18, <2>2, HandTyped, RoleAssumption DEF AppendLog, At, Placing, Proc, Listing
  <2>c. proc[p].dream \in Dreams /\ proc[p].log \subseteq Dreams
    BY <1>18, HandTyped DEF AppendLog, times, At, Placing, Listing, Proc
  <2>5. FilesTyped'
    BY <1>18, <2>c DEF AppendLog, times, stamped, TimesTyped, bounds, ghosts, TInv, FilesTyped
  <2> QED
    BY <2>1, <2>3, <2>4, <2>5, Move
<1>19. ASSUME NEW p \in Procs, Complete(p) PROVE TInv'
  <2> DEFINE x == [Idle EXCEPT !.pc = "release"]
  <2>1. Set(p, x)
    BY <1>19 DEF Complete, Cease
  <2>3. stamped \subseteq stamped'
    BY <1>19 DEF Complete, times, stamped
  <2>4. Placing(p, x, stamped')
    BY <2>3, <1>19, HandTyped, Resting DEF Complete, At, Placing, Listing
  <2>c. Ended(proc[p].state) \in State /\ proc[p].recent \subseteq Runs
    BY HandTyped, StateTyped DEF Ended, Proc, TInv, FilesTyped, TimesTyped
  <2>d. proc[p].dream \in Dreams
    BY <1>19, HandTyped DEF Complete, times, At, Placing, Listing
  <2>5. FilesTyped'
    BY <1>19, <2>c, <2>d DEF Complete, times, stamped, TimesTyped, memory, bounds, TInv, FilesTyped
  <2> QED
    BY <2>1, <2>3, <2>4, <2>5, Move
<1>20. ASSUME NEW p \in Procs, Release(p) PROVE TInv'
  <2> DEFINE x == IF p \in Orchestrators THEN Idle ELSE [Idle EXCEPT !.pc = "reload"]
  <2>1. Set(p, x)
    BY <1>20 DEF Release, Leave, After
  <2>3. stamped \subseteq stamped'
    BY <1>20 DEF Release, times, stamped
  <2>4. Placing(p, x, stamped')
    BY <2>3, <1>20, HandTyped, Resting DEF Release, At, Placing, Listing
  <2>5. FilesTyped'
    BY <1>20 DEF Release, times, stamped, TimesTyped, memory, bounds, ghosts, TInv, FilesTyped
  <2> QED
    BY <2>1, <2>3, <2>4, <2>5, Move
<1>21. ASSUME NEW p \in Procs, Reload(p) PROVE TInv'
  <2> DEFINE x == [proc[p] EXCEPT !.pc = "settle", !.state = state]
  <2>1. Set(p, x)
    BY <1>21 DEF Reload
  <2>2. x \in Proc
    BY PCTyped, HandTyped DEF TInv, FilesTyped, Proc
  <2>3. stamped \subseteq stamped'
    BY <1>21 DEF Reload, times, stamped
  <2>4. Placing(p, x, stamped')
    BY <2>3, <1>21, <2>2, HandTyped, RoleAssumption DEF Reload, At, Placing, Proc, Listing
  <2>5. FilesTyped'
    BY <1>21 DEF Reload, times, stamped, TimesTyped, memory, bounds, ghosts, TInv, FilesTyped
  <2> QED
    BY <2>1, <2>3, <2>4, <2>5, Move
<1>22. ASSUME NEW p \in Procs, Settle(p) PROVE TInv'
  <2> DEFINE x == Idle
  <2>1. Set(p, x)
    BY <1>22 DEF Settle, Leave
  <2>3. stamped \subseteq stamped'
    BY <1>22 DEF Settle, times, stamped
  <2>4. Placing(p, x, stamped')
    BY <2>3, Resting
  <2>5. FilesTyped'
    BY <1>22, HandTyped DEF Settle, times, stamped, TimesTyped, memory, bounds, ghosts, TInv, FilesTyped, Proc
  <2> QED
    BY <2>1, <2>3, <2>4, <2>5, Move
<1>23. ASSUME NEW p \in Procs, AcquireFails(p) PROVE TInv'
  <2> DEFINE x == IF p \in Orchestrators THEN Idle ELSE [Idle EXCEPT !.pc = "reload"]
  <2>1. Set(p, x)
    BY <1>23 DEF AcquireFails, Leave, After
  <2>3. stamped \subseteq stamped'
    BY <1>23 DEF AcquireFails, times, stamped
  <2>4. Placing(p, x, stamped')
    BY <2>3, <1>23, HandTyped, Resting DEF AcquireFails, At, Placing, Listing
  <2>5. FilesTyped'
    BY <1>23, BoundAssumption DEF AcquireFails, times, stamped, TimesTyped, memory, TInv, FilesTyped
  <2> QED
    BY <2>1, <2>3, <2>4, <2>5, Move
<1>24. ASSUME NEW p \in Procs, DreamFails(p) PROVE TInv'
  <2> DEFINE x == [Idle EXCEPT !.pc = "release"]
  <2>1. Set(p, x)
    BY <1>24 DEF DreamFails, Cease
  <2>3. stamped \subseteq stamped'
    BY <1>24 DEF DreamFails, times, stamped
  <2>4. Placing(p, x, stamped')
    BY <2>3, <1>24, HandTyped, Resting DEF DreamFails, At, Holds, Holding, Listing, Placing
  <2>c. Recorded(p) \in State
    BY HandTyped, StateTyped DEF Recorded, Ended, Proc, TInv, FilesTyped, TimesTyped
  <2>d. proc[p].note \in Notes /\ proc[p].recent \subseteq Runs
    BY HandTyped DEF Proc
  <2>5. FilesTyped'
    BY <1>24, <2>c, <2>d, BoundAssumption DEF DreamFails, times, stamped, TimesTyped, memory, TInv, FilesTyped
  <2> QED
    BY <2>1, <2>3, <2>4, <2>5, Move
<1>25. ASSUME NEW p \in Procs, NoteFails(p) PROVE TInv'
  <2> DEFINE x == [proc[p] EXCEPT !.pc = "result", !.index = {}]
  <2>1. Set(p, x)
    BY <1>25 DEF NoteFails
  <2>2. x \in Proc
    BY PCTyped, HandTyped DEF Proc
  <2>3. stamped \subseteq stamped'
    BY <1>25 DEF NoteFails, times, stamped
  <2>4. Placing(p, x, stamped')
    BY <2>3, <1>25, <2>2, HandTyped, RoleAssumption DEF NoteFails, At, Placing, Proc, Listing
  <2>5. TimesTyped'
    BY <1>25 DEF NoteFails, times, stamped, TimesTyped, TInv, FilesTyped
  <2>6. FilesTyped'
    BY <2>5, <1>25, HandTyped, BoundAssumption DEF NoteFails, memory, TInv, FilesTyped, Proc
  <2> QED
    BY <2>1, <2>3, <2>4, <2>6, Move
<1>26. ASSUME NEW p \in Procs, Crash(p) PROVE TInv'
  <2> DEFINE x == Idle
  <2>1. Set(p, x)
    BY <1>26 DEF Crash, Leave
  <2>3. stamped \subseteq stamped'
    BY <1>26 DEF Crash, times, stamped
  <2>4. Placing(p, x, stamped')
    BY <2>3, Resting
  <2>5. TimesTyped'
    BY <1>26 DEF Crash, times, stamped, TimesTyped, TInv, FilesTyped
  <2>6. FilesTyped'
    BY <2>5, <1>26, HandTyped, BoundAssumption DEF Crash, memory, TInv, FilesTyped, Proc
  <2> QED
    BY <2>1, <2>3, <2>4, <2>6, Move
<1>27. ASSUME NEW p \in Procs, Command(p) PROVE TInv'
  <2> DEFINE x == [Idle EXCEPT !.pc = "save", !.dream = begun + 1, !.state = state]
  <2>1. Set(p, x)
    BY <1>27 DEF Command
  <2>a. begun + 1 \in Dreams
    BY <1>27, BoundAssumption DEF Command, times, Dreams, TInv, FilesTyped
  <2>2. x \in Proc
    BY PCTyped, IdleTyped, <2>a DEF TInv, FilesTyped, Proc
  <2>3. stamped \subseteq stamped'
    BY <1>27 DEF Command, times, stamped
  <2>4. Placing(p, x, stamped')
    BY <2>3, <1>27, <2>2, IdleTyped, <2>a, RoleAssumption DEF Command, At, Placing, Proc, Listing
  <2>5. FilesTyped'
    BY <1>27, BoundAssumption DEF Command, times, stamped, TimesTyped, memory, ghosts, TInv, FilesTyped
  <2> QED
    BY <2>1, <2>3, <2>4, <2>5, Move
<1>28. ASSUME NEW p \in Procs, AutoDream(p) PROVE TInv'
  <2> DEFINE x == [Idle EXCEPT !.pc = "dream", !.dream = begun + 1]
  <2>1. Set(p, x)
    BY <1>28 DEF AutoDream
  <2>a. begun + 1 \in Dreams
    BY <1>28, BoundAssumption DEF AutoDream, times, Dreams, TInv, FilesTyped
  <2>2. x \in Proc
    BY PCTyped, IdleTyped, <2>a DEF TInv, FilesTyped, Proc
  <2>3. stamped \subseteq stamped'
    BY <1>28 DEF AutoDream, times, stamped
  <2>4. Placing(p, x, stamped')
    BY <2>3, <1>28, <2>2, IdleTyped, <2>a, RoleAssumption DEF AutoDream, At, Placing, Proc, Listing
  <2>5. FilesTyped'
    BY <1>28, BoundAssumption DEF AutoDream, times, stamped, TimesTyped, memory, ghosts, TInv, FilesTyped
  <2> QED
    BY <2>1, <2>3, <2>4, <2>5, Move
<1>29. ASSUME NEW p \in Procs, Decide(p) PROVE TInv'
  <2> DEFINE x == [Idle EXCEPT !.pc = "save", !.state = state]
  <2>1. Set(p, x)
    BY <1>29 DEF Decide
  <2>2. x \in Proc
    BY PCTyped, IdleTyped DEF TInv, FilesTyped, Proc
  <2>3. stamped \subseteq stamped'
    BY <1>29 DEF Decide, times, stamped
  <2>4. Placing(p, x, stamped')
    BY <2>3, <1>29, <2>2, IdleTyped, RoleAssumption DEF Decide, At, Placing, Proc, Listing
  <2>5. FilesTyped'
    BY <1>29 DEF Decide, times, stamped, TimesTyped, memory, bounds, ghosts, TInv, FilesTyped
  <2> QED
    BY <2>1, <2>3, <2>4, <2>5, Move
<1>30. CASE Tick
  <2>1. stamped' = stamped /\ proc' = proc
    BY <1>30 DEF Tick, stamped
  <2>2. TimesTyped'
    BY <1>30, ClockAssumption DEF Tick, Times, stamped, TimesTyped, TInv, FilesTyped
  <2>3. FilesTyped'
    BY <1>30, <2>2 DEF Tick, memory, bounds, TInv, FilesTyped
  <2> QED
    BY <2>1, <2>3 DEF TInv, ProcsTyped
<1> QED
  BY <1>1, <1>2, <1>3, <1>4, <1>5, <1>6, <1>7, <1>8, <1>9, <1>10, <1>11, <1>12, <1>13, <1>14,
     <1>15, <1>16, <1>17, <1>18, <1>19, <1>20, <1>21, <1>22, <1>23, <1>24, <1>25, <1>26, <1>27,
     <1>28, <1>29, <1>30 DEF Next, Work

\* Every variable of ProjectMemory keeps to its type.
THEOREM TypeCorrect == Spec => []TypeOK
<1>1. TInv => TypeOK
  BY DEF TInv, TypeOK, FilesTyped, TimesTyped, ProcsTyped
<1> QED
  BY InitTyped, StepTyped, <1>1, PTL DEF Spec

-------------------------------------------------------------------------------
(* The log and the lock *)

\* One dream at most is at work, the lock is there because of it or because it was
\* left behind, and what the dream has read of the log holds until it has replaced it.
LInv ==
  /\ \A p, q \in Procs : Holds(p) /\ Holds(q) => p = q
  /\ lock <=> (abandoned \/ \E p \in Procs : Holds(p))
  /\ abandoned => \A p \in Procs : ~Holds(p)
  /\ completed \subseteq log
  /\ \A p \in Procs : At(p, "append") => completed \subseteq proc[p].log
  /\ \A p \in Procs : At(p, "complete") => proc[p].dream \in log

LEMMA InitLogged == Init => LInv
  BY DEF Init, LInv, Holds, Holding, Listing, At, Idle

LEMMA StepLogged == TInv /\ LInv /\ [Next]_vars => LInv'
<1> SUFFICES ASSUME TInv /\ LInv, [Next]_vars PROVE LInv'
  OBVIOUS
<1> USE DEF LInv, At, Holds, Holding, Listing, TInv, FilesTyped, ProcsTyped, Placing, Proc
<1>1. CASE UNCHANGED vars
  BY <1>1 DEF vars, times, memory, bounds, ghosts
<1>2. ASSUME NEW p \in Procs, NEW r \in Runs, Finish(p, r) PROVE LInv'
  BY <1>2 DEF Finish, times, Set, Idle, Fresh, memory, bounds, Dreaming
<1>3. ASSUME NEW p \in Procs, WriteNote(p) PROVE LInv'
  BY <1>3 DEF WriteNote, times, To, Set, bounds, ghosts
<1>4. ASSUME NEW p \in Procs, EnsureIndex(p) PROVE LInv'
  BY <1>4 DEF EnsureIndex, times, To, Set, memory, bounds
<1>5. ASSUME NEW p \in Procs, CreateIndex(p) PROVE LInv'
  BY <1>5 DEF CreateIndex, times, To, Set, bounds, ghosts
<1>6. ASSUME NEW p \in Procs, ReadIndex(p) PROVE LInv'
  BY <1>6 DEF ReadIndex, times, Set, memory, bounds, ghosts
<1>7. ASSUME NEW p \in Procs, UpdateIndex(p) PROVE LInv'
  BY <1>7 DEF UpdateIndex, times, Set, Upserted, bounds, ghosts
<1>8. ASSUME NEW p \in Procs, WriteResult(p) PROVE LInv'
  BY <1>8 DEF WriteResult, times, Set, Leave, Idle, Fresh, memory, bounds, ghosts
<1>9. ASSUME NEW p \in Procs, Save(p) PROVE LInv'
  BY <1>9 DEF Save, times, To, Set, Leave, Idle, Fresh, memory, bounds, ghosts
<1>10. ASSUME NEW p \in Procs, ReadState(p) PROVE LInv'
  BY <1>10 DEF ReadState, times, Set, memory, bounds
<1>11. ASSUME NEW p \in Procs, Skip(p) PROVE LInv'
  BY <1>11 DEF Skip, times, Set, Leave, Idle, Fresh, TooSoon, memory, bounds, ghosts
<1>12. ASSUME NEW p \in Procs, TooFew(p) PROVE LInv'
  BY <1>12 DEF TooFew, times, Set, Leave, Idle, Fresh, memory, bounds, ghosts
<1>13. ASSUME NEW p \in Procs, Proceed(p) PROVE LInv'
  BY <1>13 DEF Proceed, times, To, Set, memory, bounds, ghosts
<1>14. ASSUME NEW p \in Procs, Acquire(p) PROVE LInv'
  BY <1>14 DEF Acquire, times, To, Set, Acquired, memory, bounds, ghosts
<1>15. ASSUME NEW p \in Procs, Locked(p) PROVE LInv'
  BY <1>15 DEF Locked, times, Set, Leave, After, Idle, Fresh, Acquired, memory, bounds, ghosts
<1>16. ASSUME NEW p \in Procs, Begin(p) PROVE LInv'
  BY <1>16 DEF Begin, times, Set, memory, bounds, ghosts
<1>17. ASSUME NEW p \in Procs, ReadLog(p) PROVE LInv'
  BY <1>17 DEF ReadLog, times, Set, memory, bounds, ghosts
<1>18. ASSUME NEW p \in Procs, AppendLog(p) PROVE LInv'
  BY <1>18 DEF AppendLog, times, Set, bounds, ghosts
<1>19. ASSUME NEW p \in Procs, Complete(p) PROVE LInv'
  BY <1>19 DEF Complete, times, Set, Cease, Idle, Fresh, Ended, memory, bounds
<1>20. ASSUME NEW p \in Procs, Release(p) PROVE LInv'
  <2>1. CASE p \in Orchestrators
    BY <1>20, <2>1 DEF Release, times, Set, Leave, After, Idle, Fresh, memory, bounds, ghosts
  <2>2. CASE ~(p \in Orchestrators)
    BY <1>20, <2>2 DEF Release, times, Set, Leave, After, Idle, Fresh, memory, bounds, ghosts
  <2> QED
    BY <2>1, <2>2
<1>21. ASSUME NEW p \in Procs, Reload(p) PROVE LInv'
  BY <1>21 DEF Reload, times, Set, memory, bounds, ghosts
<1>22. ASSUME NEW p \in Procs, Settle(p) PROVE LInv'
  BY <1>22 DEF Settle, times, Set, Leave, Idle, Fresh, memory, bounds, ghosts
<1>23. ASSUME NEW p \in Procs, AcquireFails(p) PROVE LInv'
  BY <1>23 DEF AcquireFails, times, Set, Leave, After, Idle, Fresh, memory
<1>24. ASSUME NEW p \in Procs, DreamFails(p) PROVE LInv'
  BY <1>24 DEF DreamFails, times, Set, Cease, Idle, Fresh, Recorded, Ended, memory
<1>25. ASSUME NEW p \in Procs, NoteFails(p) PROVE LInv'
  BY <1>25 DEF NoteFails, times, Set, memory
<1>26. ASSUME NEW p \in Procs, Crash(p) PROVE LInv'
  BY <1>26 DEF Crash, times, Set, Leave, Idle, Fresh, memory
<1>27. ASSUME NEW p \in Procs, Command(p) PROVE LInv'
  BY <1>27 DEF Command, times, Set, Idle, Fresh, memory, ghosts
<1>28. ASSUME NEW p \in Procs, AutoDream(p) PROVE LInv'
  BY <1>28 DEF AutoDream, times, Set, Idle, Fresh, memory, ghosts
<1>29. ASSUME NEW p \in Procs, Decide(p) PROVE LInv'
  BY <1>29 DEF Decide, times, Set, Idle, Fresh, memory, bounds, ghosts
<1>30. CASE Tick
  BY <1>30 DEF Tick, memory, bounds
<1> QED
  BY <1>1, <1>2, <1>3, <1>4, <1>5, <1>6, <1>7, <1>8, <1>9, <1>10, <1>11, <1>12, <1>13, <1>14,
     <1>15, <1>16, <1>17, <1>18, <1>19, <1>20, <1>21, <1>22, <1>23, <1>24, <1>25, <1>26, <1>27,
     <1>28, <1>29, <1>30 DEF Next, Work

-------------------------------------------------------------------------------
(* The index *)

Updating(p) == proc[p].pc \in {"create", "read", "upsert"}

\* Unless updates have overlapped there is one at a time, and what it has read of the
\* index still holds when it replaces it.
XInv ==
  /\ IndexComplete
  /\ \A p, q \in Procs : Updating(p) /\ Updating(q) /\ p # q => overlapped
  /\ \A p \in Procs : At(p, "upsert") => overlapped \/ proc[p].index = index
  /\ \A p \in Procs : At(p, "create") => overlapped \/ ~indexed
  /\ \A p \in Procs : At(p, "read") \/ At(p, "upsert") => indexed
  /\ ~indexed => index = {}

LEMMA InitIndexed == Init => XInv
  BY DEF Init, XInv, IndexComplete, Updating, At, Idle

LEMMA StepIndexed == TInv /\ XInv /\ [Next]_vars => XInv'
<1> SUFFICES ASSUME TInv /\ XInv, [Next]_vars PROVE XInv'
  OBVIOUS
<1> USE DEF XInv, IndexComplete, Updating, Listing, At, TInv, FilesTyped, ProcsTyped, Placing,
   Proc
<1>1. CASE UNCHANGED vars
  BY <1>1 DEF vars, times, memory, bounds, ghosts
<1>2. ASSUME NEW p \in Procs, NEW r \in Runs, Finish(p, r) PROVE XInv'
  BY <1>2 DEF Finish, times, Set, Idle, Fresh, memory, bounds, Holds, Holding, Dreaming
<1>3. ASSUME NEW p \in Procs, WriteNote(p) PROVE XInv'
  BY <1>3 DEF WriteNote, times, To, Set, bounds, ghosts
<1>4. ASSUME NEW p \in Procs, EnsureIndex(p) PROVE XInv'
  <2>1. proc' = [proc EXCEPT ![p].pc = IF indexed THEN "read" ELSE "create"] /\ proc[p].pc = "index"
    BY <1>4 DEF EnsureIndex, times, To, Set
  <2>2. UNCHANGED <<notes, indexed, index,
     unlisted>> /\ overlapped' = (overlapped \/ \E q \in Procs : Updating(q))
    BY <1>4 DEF EnsureIndex, times, memory
  <2>3. \A q \in Procs : q # p => proc'[q] = proc[q]
    BY <2>1
  <2>4. proc'[p].note = proc[p].note /\ proc'[p].pc = IF indexed THEN "read" ELSE "create"
    BY <2>1
  <2>5. IndexComplete'
    BY <2>2, <2>3, <2>4, <2>1
  <2>6. \A q, u \in Procs : Updating(q)' /\ Updating(u)' /\ q # u => overlapped'
    <3> SUFFICES ASSUME NEW q \in Procs, NEW u \in Procs, Updating(q)', Updating(u)',
       q # u PROVE overlapped'
      OBVIOUS
    <3>1. PICK v \in {q, u} : v # p
      OBVIOUS
    <3>2. proc'[v] = proc[v] /\ v \in Procs /\ Updating(v)'
      BY <2>3, <3>1
    <3>3. Updating(v)
      BY <3>2
    <3> QED
      BY <2>2, <3>2, <3>3
  <2> QED
    BY <2>2, <2>3, <2>4, <2>5, <2>6
<1>5. ASSUME NEW p \in Procs, CreateIndex(p) PROVE XInv'
  BY <1>5 DEF CreateIndex, times, To, Set, bounds, ghosts
<1>6. ASSUME NEW p \in Procs, ReadIndex(p) PROVE XInv'
  BY <1>6 DEF ReadIndex, times, Set, memory, bounds, ghosts
<1>7. ASSUME NEW p \in Procs, UpdateIndex(p) PROVE XInv'
  BY <1>7 DEF UpdateIndex, times, Set, Upserted, bounds, ghosts
<1>8. ASSUME NEW p \in Procs, WriteResult(p) PROVE XInv'
  BY <1>8 DEF WriteResult, times, Set, Leave, Idle, Fresh, memory, bounds, ghosts
<1>9. ASSUME NEW p \in Procs, Save(p) PROVE XInv'
  BY <1>9 DEF Save, times, To, Set, Leave, Idle, Fresh, memory, bounds, ghosts
<1>10. ASSUME NEW p \in Procs, ReadState(p) PROVE XInv'
  BY <1>10 DEF ReadState, times, Set, memory, bounds
<1>11. ASSUME NEW p \in Procs, Skip(p) PROVE XInv'
  BY <1>11 DEF Skip, times, Set, Leave, Idle, Fresh, TooSoon, memory, bounds, ghosts
<1>12. ASSUME NEW p \in Procs, TooFew(p) PROVE XInv'
  BY <1>12 DEF TooFew, times, Set, Leave, Idle, Fresh, memory, bounds, ghosts
<1>13. ASSUME NEW p \in Procs, Proceed(p) PROVE XInv'
  BY <1>13 DEF Proceed, times, To, Set, memory, bounds, ghosts
<1>14. ASSUME NEW p \in Procs, Acquire(p) PROVE XInv'
  BY <1>14 DEF Acquire, times, To, Set, Acquired, memory, bounds, ghosts
<1>15. ASSUME NEW p \in Procs, Locked(p) PROVE XInv'
  BY <1>15, Afterwards DEF Locked, memory, bounds, ghosts
<1>16. ASSUME NEW p \in Procs, Begin(p) PROVE XInv'
  BY <1>16 DEF Begin, times, Set, memory, bounds, ghosts
<1>17. ASSUME NEW p \in Procs, ReadLog(p) PROVE XInv'
  BY <1>17 DEF ReadLog, times, Set, memory, bounds, ghosts
<1>18. ASSUME NEW p \in Procs, AppendLog(p) PROVE XInv'
  BY <1>18 DEF AppendLog, times, Set, bounds, ghosts
<1>19. ASSUME NEW p \in Procs, Complete(p) PROVE XInv'
  BY <1>19 DEF Complete, times, Set, Cease, Idle, Fresh, Ended, memory, bounds
<1>20. ASSUME NEW p \in Procs, Release(p) PROVE XInv'
  BY <1>20 DEF Release, times, Set, Leave, After, Idle, Fresh, memory, bounds, ghosts
<1>21. ASSUME NEW p \in Procs, Reload(p) PROVE XInv'
  BY <1>21 DEF Reload, times, Set, memory, bounds, ghosts
<1>22. ASSUME NEW p \in Procs, Settle(p) PROVE XInv'
  BY <1>22 DEF Settle, times, Set, Leave, Idle, Fresh, memory, bounds, ghosts
<1>23. ASSUME NEW p \in Procs, AcquireFails(p) PROVE XInv'
  BY <1>23, Afterwards DEF AcquireFails, memory
<1>24. ASSUME NEW p \in Procs, DreamFails(p) PROVE XInv'
  BY <1>24 DEF DreamFails, times, Set, Cease, Idle, Fresh, Recorded, Ended, memory, Holds, Holding
<1>25. ASSUME NEW p \in Procs, NoteFails(p) PROVE XInv'
  BY <1>25 DEF NoteFails, times, Set, memory
<1>26. ASSUME NEW p \in Procs, Crash(p) PROVE XInv'
  BY <1>26 DEF Crash, times, Set, Leave, Idle, Fresh, memory, Holds, Holding
<1>27. ASSUME NEW p \in Procs, Command(p) PROVE XInv'
  BY <1>27 DEF Command, times, Set, Idle, Fresh, memory, ghosts
<1>28. ASSUME NEW p \in Procs, AutoDream(p) PROVE XInv'
  BY <1>28 DEF AutoDream, times, Set, Idle, Fresh, memory, ghosts
<1>29. ASSUME NEW p \in Procs, Decide(p) PROVE XInv'
  BY <1>29 DEF Decide, times, Set, Idle, Fresh, memory, bounds, ghosts
<1>30. CASE Tick
  BY <1>30 DEF Tick, memory, bounds
<1> QED
  BY <1>1, <1>2, <1>3, <1>4, <1>5, <1>6, <1>7, <1>8, <1>9, <1>10, <1>11, <1>12, <1>13, <1>14,
     <1>15, <1>16, <1>17, <1>18, <1>19, <1>20, <1>21, <1>22, <1>23, <1>24, <1>25, <1>26, <1>27,
     <1>28, <1>29, <1>30 DEF Next, Work

\* The log has an entry of every dream that has completed, the lock is there exactly
\* while a dream is at work or once one has left it behind, and the index has a line of
\* every note, with the exceptions IndexComplete names.
THEOREM MemoryIsKept == Spec => []MemoryKept
<1>1. LInv /\ XInv => MemoryKept
  BY DEF LInv, XInv, MemoryKept, DreamsLogged
<1> QED
  BY InitTyped, StepTyped, InitLogged, StepLogged, InitIndexed, StepIndexed, <1>1, PTL DEF Spec

-------------------------------------------------------------------------------
(* The window of the next dream *)

\* What is saved as last_completed_at, now or by whoever has read it, lies behind runs
\* that were reviewed, ended during a dream or in the second in which one had ended, and
\* it is not later than now; and a dream at work has all the runs that have ended in
\* hand, but for those.
Passed(s) ==
  /\ Behind(s) \subseteq reviewed \cup during
  /\ s.completed <= clock
  /\ s.completed = clock => ending

WInv ==
  /\ Passed(state)
  /\ \A p \in Procs : Passed(proc[p].state)
  /\ \A p \in Procs : Dreaming(p) => stamped \subseteq proc[p].recent \cup Behind(proc[p].state) \cup during

LEMMA InitReviewed == Init => WInv
  BY DEF Init, WInv, Passed, Behind, stamped, Dreaming, Holds, Holding, Listing, At, Idle, Fresh

LEMMA StepReviewed == TInv /\ WInv /\ [Next]_vars => WInv'
<1> SUFFICES ASSUME TInv /\ WInv, [Next]_vars PROVE WInv'
  OBVIOUS
<1> USE DEF WInv, Passed, Behind, stamped, Times, TimesTyped, Dreaming, Holds, Holding, Listing, At, TInv, FilesTyped,
   ProcsTyped, Placing, Proc, State
<1>1. CASE UNCHANGED vars
  BY <1>1 DEF vars, times, memory, bounds, ghosts
<1>2. ASSUME NEW p \in Procs, NEW r \in Runs, Finish(p, r) PROVE WInv'
  <2>1. /\ \A q \in Procs : q # p => proc'[q] = proc[q]
        /\ proc'[p].pc = "note" /\ proc'[p].state = Fresh /\ p \in Executors
    BY <1>2, IdleTyped DEF Finish, Set
  <2>2. /\ stamped' \subseteq stamped \cup {r} /\ stamp'[r] = clock
        /\ \A u \in Runs \ {r} : stamp'[u] = stamp[u]
        /\ UNCHANGED <<state, clock, reviewed, ending>> /\ during \subseteq during'
        /\ ending \/ (\E q \in Procs : Dreaming(q)) => r \in during'
    BY <1>2 DEF Finish
  <2>3. ASSUME NEW s \in State, Passed(s) PROVE {u \in stamped' : stamp'[u] <= s.completed} \subseteq reviewed' \cup during'
    <3>1. ASSUME NEW u \in stamped', stamp'[u] <= s.completed, u # r PROVE u \in reviewed' \cup during'
      BY <2>2, <2>3, <3>1
    <3>2. ASSUME clock <= s.completed PROVE r \in during'
      <4>1. s.completed = clock
        BY <2>3, <3>2, ClockAssumption
      <4> QED
        BY <2>2, <2>3, <4>1
    <3> QED
      BY <2>2, <3>1, <3>2
  <2> QED
    BY <2>1, <2>2, <2>3 DEF Fresh
<1>3. ASSUME NEW p \in Procs, WriteNote(p) PROVE WInv'
  BY <1>3 DEF WriteNote, times, To, Set, bounds, ghosts
<1>4. ASSUME NEW p \in Procs, EnsureIndex(p) PROVE WInv'
  BY <1>4 DEF EnsureIndex, times, To, Set, memory, bounds
<1>5. ASSUME NEW p \in Procs, CreateIndex(p) PROVE WInv'
  BY <1>5 DEF CreateIndex, times, To, Set, bounds, ghosts
<1>6. ASSUME NEW p \in Procs, ReadIndex(p) PROVE WInv'
  BY <1>6 DEF ReadIndex, times, Set, memory, bounds, ghosts
<1>7. ASSUME NEW p \in Procs, UpdateIndex(p) PROVE WInv'
  BY <1>7 DEF UpdateIndex, times, Set, Upserted, bounds, ghosts
<1>8. ASSUME NEW p \in Procs, WriteResult(p) PROVE WInv'
  BY <1>8 DEF WriteResult, times, Set, Leave, Idle, Fresh, memory, bounds, ghosts
<1>9. ASSUME NEW p \in Procs, Save(p) PROVE WInv'
  BY <1>9 DEF Save, times, To, Set, Leave, Idle, Fresh, memory, bounds, ghosts
<1>10. ASSUME NEW p \in Procs, ReadState(p) PROVE WInv'
  BY <1>10 DEF ReadState, times, Set, memory, bounds
<1>11. ASSUME NEW p \in Procs, Skip(p) PROVE WInv'
  BY <1>11 DEF Skip, times, Set, Leave, Idle, Fresh, TooSoon, memory, bounds, ghosts
<1>12. ASSUME NEW p \in Procs, TooFew(p) PROVE WInv'
  BY <1>12 DEF TooFew, times, Set, Leave, Idle, Fresh, memory, bounds, ghosts
<1>13. ASSUME NEW p \in Procs, Proceed(p) PROVE WInv'
  BY <1>13 DEF Proceed, times, To, Set, memory, bounds, ghosts
<1>14. ASSUME NEW p \in Procs, Acquire(p) PROVE WInv'
  BY <1>14 DEF Acquire, times, To, Set, Acquired, memory, bounds, ghosts
<1>15. ASSUME NEW p \in Procs, Locked(p) PROVE WInv'
  BY <1>15, Afterwards DEF Locked, times, Fresh, memory, bounds, ghosts
<1>16. ASSUME NEW p \in Procs, Begin(p) PROVE WInv'
  BY <1>16 DEF Begin, times, Set, memory, bounds, ghosts
<1>17. ASSUME NEW p \in Procs, ReadLog(p) PROVE WInv'
  BY <1>17 DEF ReadLog, times, Set, memory, bounds, ghosts
<1>18. ASSUME NEW p \in Procs, AppendLog(p) PROVE WInv'
  BY <1>18 DEF AppendLog, times, Set, bounds, ghosts
<1>19. ASSUME NEW p \in Procs, Complete(p) PROVE WInv'
  BY <1>19 DEF Complete, times, Set, Cease, Idle, Fresh, Ended, memory, bounds
<1>20. ASSUME NEW p \in Procs, Release(p) PROVE WInv'
  <2>1. After(p) /\ UNCHANGED <<state, clock, stamp, reviewed, during, ending>>
    BY <1>20 DEF Release, times, ghosts
  <2>2. /\ \A q \in Procs : q # p => proc'[q] = proc[q]
        /\ proc'[p].pc \in {"idle", "reload"} /\ proc'[p].state.completed = 0
    BY <2>1, Afterwards DEF Fresh
  <2> QED
    BY <2>1, <2>2
<1>21. ASSUME NEW p \in Procs, Reload(p) PROVE WInv'
  BY <1>21 DEF Reload, times, Set, memory, bounds, ghosts
<1>22. ASSUME NEW p \in Procs, Settle(p) PROVE WInv'
  BY <1>22 DEF Settle, times, Set, Leave, Idle, Fresh, memory, bounds, ghosts
<1>23. ASSUME NEW p \in Procs, AcquireFails(p) PROVE WInv'
  BY <1>23, Afterwards DEF AcquireFails, times, Fresh, memory
<1>24. ASSUME NEW p \in Procs, DreamFails(p) PROVE WInv'
  <2>1. /\ \A q \in Procs : q # p => proc'[q] = proc[q]
        /\ proc'[p].pc = "release" /\ proc'[p].state = Fresh
    BY <1>24, IdleTyped DEF DreamFails, Set, Cease
  <2>2. /\ stamp' = stamp /\ clock' = clock /\ during' = during /\ reviewed \subseteq reviewed'
        /\ ending => ending'
    BY <1>24 DEF DreamFails, times
  <2>3. Passed(state)'
    <3>1. CASE state' = state
      BY <3>1, <2>2
    <3>2. CASE state' = Recorded(p) /\ At(p, "complete")
      <4>1. state'.completed = clock /\ reviewed' = reviewed \cup proc[p].recent /\ ending'
        BY <1>24, <3>2 DEF DreamFails, Recorded, Ended
      <4>2. stamped \subseteq proc[p].recent \cup Behind(proc[p].state) \cup during
        BY <3>2
      <4>3. Behind(proc[p].state) \subseteq reviewed \cup during
        OBVIOUS
      <4> QED
        BY <2>2, <4>1, <4>2, <4>3
    <3>3. CASE state' = Recorded(p) /\ ~At(p, "complete")
      <4>1. state'.completed = proc[p].state.completed
        BY <3>3 DEF Recorded
      <4> QED
        BY <4>1, <2>2
    <3> QED
      BY <1>24, <3>1, <3>2, <3>3 DEF DreamFails
  <2>4. \A q \in Procs : Passed(proc[q].state)'
    BY <2>1, <2>2 DEF Fresh
  <2>5. \A q \in Procs : Dreaming(q)' => q # p
    BY <2>1
  <2> QED
    BY <2>1, <2>2, <2>3, <2>4, <2>5
<1>25. ASSUME NEW p \in Procs, NoteFails(p) PROVE WInv'
  BY <1>25 DEF NoteFails, times, Set, memory
<1>26. ASSUME NEW p \in Procs, Crash(p) PROVE WInv'
  BY <1>26 DEF Crash, times, Set, Leave, Idle, Fresh, memory
<1>27. ASSUME NEW p \in Procs, Command(p) PROVE WInv'
  BY <1>27 DEF Command, times, Set, Idle, Fresh, memory, ghosts
<1>28. ASSUME NEW p \in Procs, AutoDream(p) PROVE WInv'
  BY <1>28 DEF AutoDream, times, Set, Idle, Fresh, memory, ghosts
<1>29. ASSUME NEW p \in Procs, Decide(p) PROVE WInv'
  BY <1>29 DEF Decide, times, Set, Idle, Fresh, memory, bounds, ghosts
<1>30. CASE Tick
  BY <1>30, ClockAssumption DEF Tick, memory, bounds
<1> QED
  BY <1>1, <1>2, <1>3, <1>4, <1>5, <1>6, <1>7, <1>8, <1>9, <1>10, <1>11, <1>12, <1>13, <1>14,
     <1>15, <1>16, <1>17, <1>18, <1>19, <1>20, <1>21, <1>22, <1>23, <1>24, <1>25, <1>26, <1>27,
     <1>28, <1>29, <1>30 DEF Next, Work

\* A run is behind last_completed_at only if a dream has reviewed it, or if it ended, or
\* was about to write its result, while a dream was at work, or in the second in which
\* one had got to its end.
THEOREM RunsReviewed == Spec => []NoRunForgotten
<1>1. WInv => NoRunForgotten
  BY DEF WInv, Passed, NoRunForgotten
<1> QED
  BY InitTyped, StepTyped, InitReviewed, StepReviewed, <1>1, PTL DEF Spec
================================================================================
