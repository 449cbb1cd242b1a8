--------------------------- MODULE TaskBoardProofs ---------------------------
(***************************************************************************)
(* The variables of TaskBoard keep to their types, the lock directories    *)
(* exclude, and what an agent was told about its claim stays true; no      *)
(* update of a wake or a session is lost, the manifests describe their     *)
(* documents, and a task that one command at a time has dealt with shows   *)
(* the status its claim calls for: for any number of agents, tasks,        *)
(* processes, commands and kills.                                          *)
(***************************************************************************)
EXTENDS TaskBoard, FiniteSetTheorems, TLAPS

------------------------------------------------------------------------------
(* Types *)

\* The stores each command enters.
Entered == {<<"claim", "claims">>, <<"claim", "wakes">>, <<"claim", "sessions">>,
            <<"release", "claims">>, <<"wake", "wakes">>, <<"session", "sessions">>,
            <<"put", "docs">>}

\* Which command is where, and whose it is.
ControlTyped(r) ==
  /\ r.pc # "idle" =>
       /\ r.task \in Tasks
       /\ r.cmd \in {"claim", "release", "wake", "session"} => r.agent \in Agents
       /\ r.cmd = "put" => r.path \in Paths
       /\ r.cmd = "release" => r.put \in {"released", "blocked"}
  /\ r.pc \in {"lock", "read", "put", "write", "unlock"} => <<r.cmd, r.store>> \in Entered
  /\ r.pc = "put" => r.store = "docs"
  /\ r.pc \in {"exists", "check"} => r.cmd = "release"

\* What a command has in memory when it is about to write it.
MemoryTyped(r) ==
  /\ r.pc = "write" /\ r.store = "wakes" => r.mem \in Wake
  /\ r.pc = "write" /\ r.store = "sessions" => r.mem \in Session
  /\ r.pc \in {"put", "write"} /\ r.store = "docs" => r.mem \in Manifest
  /\ r.pc \in {"fm_open", "fm_write"} => r.mem \in Front

Good(r) == r \in Proc /\ ControlTyped(r) /\ MemoryTyped(r)

ClaimsTyped == /\ claims \in [Tasks -> Claim \cup {None}] /\ holders \in [Tasks -> SUBSET Agents]
               /\ due \in [Scopes -> Nat]
WakesTyped == wakes \in [Scopes -> Nat] /\ enqueued \in [Scopes -> Nat]
SessionsTyped == /\ sessions \in [Scopes -> Session \cup {None}] /\ uuids \in Nat
                 /\ issued \in [Scopes -> SUBSET Nat] /\ forgotten \subseteq Scopes
DocsTyped == /\ docs \in [Tasks -> Versions] /\ manifests \in [Tasks -> Versions]
             /\ undescribed \subseteq Tasks \X Paths
BoardTyped == board \in [Tasks -> Front]
BoundsTyped == /\ commands \in 0 .. MaxCommands /\ crashes \in 0 .. MaxCrashes
               /\ disturbed \subseteq Tasks

StoresTyped == ClaimsTyped /\ WakesTyped /\ SessionsTyped /\ DocsTyped /\ BoardTyped /\ BoundsTyped
TInv == StoresTyped /\ locks \subseteq Lock /\ proc \in [Procs -> Proc] /\ \A p \in Procs : Good(proc[p])

LEMMA IdleGood == Good(Idle)
  BY BoardAssumption DEF Good, Idle, Proc, PCs, Stores, Status, ControlTyped, MemoryTyped

\* The updates of a command that the actions make.
LEMMA Updates ==
  ASSUME NEW r \in Proc, NEW x \in PCs
  PROVE  /\ [r EXCEPT !.pc = x] \in Proc
         /\ \A m \in Memory \cup {None} : [r EXCEPT !.pc = x, !.mem = m] \in Proc
         /\ \A o \in {"ok", "quiet", "already", "refused"} : [r EXCEPT !.pc = x, !.outcome = o] \in Proc
         /\ \A s \in Status \cup {"keep"} : [r EXCEPT !.pc = x, !.put = s] \in Proc
         /\ \A s \in Stores : [r EXCEPT !.pc = x, !.store = s, !.mem = None] \in Proc
         /\ [r EXCEPT !.pc = x, !.agent = None] \in Proc
<1>1. [r EXCEPT !.pc = x] \in Proc
  BY DEF Proc
<1>2. ASSUME NEW m \in Memory \cup {None} PROVE [r EXCEPT !.pc = x, !.mem = m] \in Proc
  BY DEF Proc
<1>3. ASSUME NEW o \in {"ok", "quiet", "already", "refused"}
      PROVE  [r EXCEPT !.pc = x, !.outcome = o] \in Proc
  BY DEF Proc
<1>4. ASSUME NEW s \in Status \cup {"keep"} PROVE [r EXCEPT !.pc = x, !.put = s] \in Proc
  BY DEF Proc
<1>5. ASSUME NEW s \in Stores PROVE [r EXCEPT !.pc = x, !.store = s, !.mem = None] \in Proc
  BY DEF Proc
<1>6. [r EXCEPT !.pc = x, !.agent = None] \in Proc
  BY DEF Proc
<1> QED
  BY <1>1, <1>2, <1>3, <1>4, <1>5, <1>6

LEMMA ChangeTyped ==
  ASSUME NEW r \in Proc, NEW x \in {"update", "resume", "reset", "rotate"}
  PROVE  [r EXCEPT !.change = x] \in Proc
  BY DEF Proc

\* A command goes on: to another place without memory, to a lock, to the board.
LEMMA MovesGood ==
  ASSUME NEW r, Good(r), r.pc # "idle"
  PROVE  /\ r.pc \in {"read", "put", "write"} =>
              /\ Good([r EXCEPT !.pc = "unlock"])
              /\ Good([r EXCEPT !.pc = "unlock", !.mem = None])
              /\ \A o \in {"ok", "quiet", "already", "refused"} :
                   Good([r EXCEPT !.pc = "unlock", !.outcome = o])
         /\ r.pc = "lock" => Good([r EXCEPT !.pc = "read"])
         /\ r.pc = "read" /\ r.store = "claims" => Good([r EXCEPT !.pc = "write"])
         /\ r.pc = "fm_open" => Good([r EXCEPT !.pc = "fm_write"])
         /\ \A s \in Stores : <<r.cmd, s>> \in Entered => Good(ToLock(r, s))
         /\ \A s \in Status \cup {"keep"} : r.cmd # "release" \/ s = r.put => Good(ToBoard(r, s))
<1>1. r \in Proc /\ ControlTyped(r) /\ MemoryTyped(r)
  BY DEF Good
<1>2. "unlock" \in PCs /\ "read" \in PCs /\ "write" \in PCs /\ "lock" \in PCs
      /\ "fm_write" \in PCs /\ "fm_read" \in PCs
  BY DEF PCs
<1>3. r.pc \in {"read", "put", "write"} =>
              /\ Good([r EXCEPT !.pc = "unlock"])
              /\ Good([r EXCEPT !.pc = "unlock", !.mem = None])
              /\ \A o \in {"ok", "quiet", "already", "refused"} :
                   Good([r EXCEPT !.pc = "unlock", !.outcome = o])
  <2> SUFFICES ASSUME r.pc \in {"read", "put", "write"},
                      NEW o \in {"ok", "quiet", "already", "refused"}
               PROVE  /\ Good([r EXCEPT !.pc = "unlock"])
                      /\ Good([r EXCEPT !.pc = "unlock", !.mem = None])
                      /\ Good([r EXCEPT !.pc = "unlock", !.outcome = o])
    OBVIOUS
  <2>1. Good([r EXCEPT !.pc = "unlock"])
    <3>1. [r EXCEPT !.pc = "unlock"] \in Proc
      BY <1>1, <1>2, Updates
    <3>2. ControlTyped([r EXCEPT !.pc = "unlock"]) /\ MemoryTyped([r EXCEPT !.pc = "unlock"])
      BY <1>1 DEF Proc, ControlTyped, MemoryTyped
    <3> QED BY <3>1, <3>2 DEF Good
  <2>2. Good([r EXCEPT !.pc = "unlock", !.mem = None])
    <3>1. [r EXCEPT !.pc = "unlock", !.mem = None] \in Proc
      BY <1>1, <1>2, Updates
    <3>2. ControlTyped([r EXCEPT !.pc = "unlock", !.mem = None]) /\ MemoryTyped([r EXCEPT !.pc = "unlock", !.mem = None])
      BY <1>1 DEF Proc, ControlTyped, MemoryTyped
    <3> QED BY <3>1, <3>2 DEF Good
  <2>3. Good([r EXCEPT !.pc = "unlock", !.outcome = o])
    <3>1. [r EXCEPT !.pc = "unlock", !.outcome = o] \in Proc
      BY <1>1, <1>2, Updates
    <3>2. ControlTyped([r EXCEPT !.pc = "unlock", !.outcome = o]) /\ MemoryTyped([r EXCEPT !.pc = "unlock", !.outcome = o])
      BY <1>1 DEF Proc, ControlTyped, MemoryTyped
    <3> QED BY <3>1, <3>2 DEF Good
  <2> QED BY <2>1, <2>2, <2>3
<1>4. r.pc = "lock" => Good([r EXCEPT !.pc = "read"])
  BY <1>1, <1>2 DEF Good, Proc, ControlTyped, MemoryTyped
<1>5. r.pc = "read" /\ r.store = "claims" => Good([r EXCEPT !.pc = "write"])
  BY <1>1, <1>2 DEF Good, Proc, ControlTyped, MemoryTyped
<1>6. r.pc = "fm_open" => Good([r EXCEPT !.pc = "fm_write"])
  BY <1>1, <1>2 DEF Good, Proc, ControlTyped, MemoryTyped
<1>7. \A s \in Stores : <<r.cmd, s>> \in Entered => Good(ToLock(r, s))
  BY <1>1, <1>2 DEF Good, Proc, ControlTyped, MemoryTyped, ToLock
<1>8. \A s \in Status \cup {"keep"} : r.cmd # "release" \/ s = r.put => Good(ToBoard(r, s))
  <2> SUFFICES ASSUME NEW s \in Status \cup {"keep"}, r.cmd # "release" \/ s = r.put
               PROVE  Good(ToBoard(r, s))
    OBVIOUS
  <2>1. ToBoard(r, s) \in Proc
    BY <1>1, <1>2, Updates DEF ToBoard
  <2>2. ControlTyped(ToBoard(r, s)) /\ MemoryTyped(ToBoard(r, s))
    BY <1>1 DEF Proc, ToBoard, ControlTyped, MemoryTyped
  <2> QED BY <2>1, <2>2 DEF Good
<1> QED
  BY <1>3, <1>4, <1>5, <1>6, <1>7, <1>8

LEMMA StartedGood ==
  ASSUME NEW c \in Commands, NEW a \in Agents, NEW t \in Tasks, NEW r \in Started(c, a, t)
  PROVE  Good(r) /\ r.pc \in {"look", "exists", "lock"}
<1> DEFINE s == [Idle EXCEPT !.cmd = c, !.task = t, !.agent = a]
<1>1. c \in {"claim", "release", "done", "wake", "session", "put"}
  BY BoardAssumption
<1>2. Idle \in Proc
  BY IdleGood DEF Good
<1>3. s \in Proc /\ s.cmd = c /\ s.task = t /\ s.agent = a /\ s.mem = None /\ s.pc = "idle"
  BY <1>2 DEF Proc, Idle
<1> HIDE DEF s
<1>4. /\ "look" \in PCs /\ "exists" \in PCs /\ "lock" \in PCs
      /\ "released" \in Status /\ "blocked" \in Status
      /\ "wakes" \in Stores /\ "sessions" \in Stores /\ "docs" \in Stores
  BY DEF PCs, Status, Stores
<1>5. CASE c = "claim"
  <2>1. r = [s EXCEPT !.pc = "look"]
    BY <1>5 DEF Started, s
  <2>2. r \in Proc
    BY <1>3, <1>4, <2>1, Updates
  <2>3. r.pc = "look" /\ ControlTyped(r) /\ MemoryTyped(r)
    BY <1>3, <1>4, <1>5, <2>1 DEF Proc, ControlTyped, MemoryTyped
  <2> QED BY <2>2, <2>3 DEF Good
<1>6. CASE c = "done"
  <2>1. r = [s EXCEPT !.pc = "look", !.agent = None]
    BY <1>6 DEF Started, s
  <2>2. r \in Proc
    BY <1>3, <1>4, <2>1, Updates
  <2>3. r.pc = "look" /\ ControlTyped(r) /\ MemoryTyped(r)
    BY <1>3, <1>4, <1>6, <2>1 DEF Proc, ControlTyped, MemoryTyped
  <2> QED BY <2>2, <2>3 DEF Good
<1>7. CASE c = "release"
  <2>1. PICK x \in {"released", "blocked"} : r = [s EXCEPT !.pc = "exists", !.put = x]
    BY <1>7 DEF Started, s
  <2>2. r \in Proc
    BY <1>3, <1>4, <2>1, Updates
  <2>3. r.pc = "exists" /\ ControlTyped(r) /\ MemoryTyped(r)
    BY <1>3, <1>4, <1>7, <2>1 DEF Proc, ControlTyped, MemoryTyped
  <2> QED BY <2>2, <2>3 DEF Good
<1>8. CASE c = "wake"
  <2>1. r = ToLock(s, "wakes")
    BY <1>8 DEF Started, s
  <2>0. ToLock(s, "wakes") \in Proc
    BY <1>3, <1>4, Updates DEF ToLock
  <2>2. r \in Proc
    BY <2>0, <2>1
  <2>3. r.pc = "lock" /\ ControlTyped(r) /\ MemoryTyped(r)
    <3> DEFINE l == ToLock(s, "wakes")
    <3>1. /\ l.pc = "lock" /\ l.store = "wakes" /\ l.cmd = c /\ l.task = t /\ l.agent = a
          /\ <<c, "wakes">> \in Entered
      BY <1>3, <1>8 DEF Proc, ToLock, Entered
    <3> HIDE DEF l
    <3> QED BY <1>8, <2>0, <2>1, <3>1 DEF l, Proc, ControlTyped, MemoryTyped
  <2> QED BY <2>2, <2>3 DEF Good
<1>9. CASE c = "session"
  <2>1. PICK x \in {"update", "resume", "reset", "rotate"} : r = [ToLock(s, "sessions") EXCEPT !.change = x]
    BY <1>9 DEF Started, s
  <2>0. ToLock(s, "sessions") \in Proc
    BY <1>3, <1>4, Updates DEF ToLock
  <2>2. r \in Proc
    BY <2>0, <2>1, ChangeTyped
  <2>3. r.pc = "lock" /\ ControlTyped(r) /\ MemoryTyped(r)
    <3> DEFINE l == ToLock(s, "sessions")
    <3>1. /\ l.pc = "lock" /\ l.store = "sessions" /\ l.cmd = c /\ l.task = t /\ l.agent = a
          /\ <<c, "sessions">> \in Entered
      BY <1>3, <1>9 DEF Proc, ToLock, Entered
    <3> HIDE DEF l
    <3> QED BY <1>9, <2>0, <2>1, <3>1 DEF l, Proc, ControlTyped, MemoryTyped
  <2> QED BY <2>2, <2>3 DEF Good
<1>10. CASE c = "put"
  <2>1. PICK x \in Paths : r = [ToLock(s, "docs") EXCEPT !.path = x, !.agent = None]
    BY <1>10 DEF Started, s
  <2>0. ToLock(s, "docs") \in Proc
    BY <1>3, <1>4, Updates DEF ToLock
  <2>2. r \in Proc
    BY <2>0, <2>1 DEF Proc
  <2>3. r.pc = "lock" /\ ControlTyped(r) /\ MemoryTyped(r)
    <3> DEFINE l == ToLock(s, "docs")
    <3>1. /\ l.pc = "lock" /\ l.store = "docs" /\ l.cmd = c /\ l.task = t /\ l.agent = a
          /\ <<c, "docs">> \in Entered
      BY <1>3, <1>10 DEF Proc, ToLock, Entered
    <3> HIDE DEF l
    <3> QED BY <1>10, <2>0, <2>1, <3>1 DEF l, Proc, ControlTyped, MemoryTyped
  <2> QED BY <2>2, <2>3 DEF Good
<1> QED
  BY <1>1, <1>5, <1>6, <1>7, <1>8, <1>9, <1>10

LEMMA ClaimedGood ==
  ASSUME NEW r, Good(r), r.pc # "idle", r.cmd = "claim"
  PROVE  Good(Claimed(r)) /\ Claimed(r).pc = "lock"
<1>1. <<"claim", "wakes">> \in Entered /\ <<"claim", "sessions">> \in Entered
      /\ "wakes" \in Stores /\ "sessions" \in Stores
  BY DEF Entered, Stores
<1>2. Good(ToLock(r, "wakes")) /\ Good(ToLock(r, "sessions"))
  BY <1>1, MovesGood
<1>3. r \in Proc
  BY DEF Good
<1> QED
  BY <1>2, <1>3 DEF Claimed, ToLock, Proc

LEMMA AfterStoreGood ==
  ASSUME NEW r, Good(r), r.pc \in {"lock", "unlock"}
  PROVE  /\ Good(AfterStore(r))
         /\ AfterStore(r).pc \in {"lock", "fm_read", "check", "idle"}
<1>1. r \in Proc /\ ControlTyped(r)
  BY DEF Good
<1>2. CASE r.cmd = "claim" /\ r.store = "claims" /\ r.outcome # "refused"
  <2>1. Good(ToBoard(r, "in_progress")) /\ ToBoard(r, "in_progress").pc = "fm_read"
    BY <1>1, <1>2, MovesGood DEF Status, ToBoard, Proc
  <2> QED BY <1>2, <2>1, ClaimedGood DEF AfterStore
<1>3. CASE r.cmd = "claim" /\ r.store = "wakes"
  <2>1. Good(ToLock(r, "sessions")) /\ ToLock(r, "sessions").pc = "lock"
    BY <1>1, <1>3, MovesGood DEF Stores, Entered, ToLock, Proc
  <2> QED BY <1>3, <2>1 DEF AfterStore
<1>4. CASE r.cmd = "release" /\ r.outcome # "refused"
  <2>1. Good([r EXCEPT !.pc = "check"])
    <3>1. [r EXCEPT !.pc = "check"] \in Proc
      BY <1>1 DEF Proc, PCs
    <3>2. ControlTyped([r EXCEPT !.pc = "check"]) /\ MemoryTyped([r EXCEPT !.pc = "check"])
      BY <1>1, <1>4 DEF Proc, ControlTyped, MemoryTyped
    <3> QED BY <3>1, <3>2 DEF Good
  <2> QED BY <1>1, <1>4, <2>1 DEF AfterStore, Proc
<1>5. CASE ~(\/ r.cmd = "claim" /\ r.store = "claims" /\ r.outcome # "refused"
             \/ r.cmd = "claim" /\ r.store = "wakes"
             \/ r.cmd = "release" /\ r.outcome # "refused")
  BY <1>5, IdleGood DEF AfterStore, Idle
<1> QED
  BY <1>2, <1>3, <1>4, <1>5

\* What a step has to show.
LEMMA Typing ==
  ASSUME TInv, NEW p \in Procs, NEW r, Good(r), Goto(p, r), StoresTyped', (locks \subseteq Lock)'
  PROVE  TInv'
<1>1. proc' = [proc EXCEPT ![p] = r] /\ r \in Proc
  BY DEF Goto, Good
<1>2. proc' \in [Procs -> Proc] /\ \A q \in Procs : Good(proc'[q])
  BY <1>1 DEF TInv
<1> QED
  BY <1>2 DEF TInv, Good, ControlTyped, MemoryTyped

LEMMA Typed ==
  ASSUME TInv, NEW p \in Procs
  PROVE  /\ StoresTyped /\ locks \subseteq Lock
         /\ Good(proc[p]) /\ proc[p] \in Proc /\ ControlTyped(proc[p]) /\ MemoryTyped(proc[p])
  BY DEF TInv, Good

\* A step that only moves a process on.
LEMMA OnlyProc ==
  ASSUME TInv, UNCHANGED <<claimVars, wakeVars, sessionVars, docVars, board, bounds>>
  PROVE  StoresTyped'
<1>1. StoresTyped
  BY DEF TInv
<1> QED
  BY <1>1 DEF StoresTyped, ClaimsTyped, WakesTyped, SessionsTyped, DocsTyped, BoardTyped,
     BoundsTyped, claimVars, wakeVars, sessionVars, docVars, bounds

LEMMA InitTyped == Init => TInv
<1> SUFFICES ASSUME Init PROVE TInv
  OBVIOUS
<1>1. ClaimsTyped /\ WakesTyped
  BY DEF Init, ClaimsTyped, WakesTyped
<1>2. SessionsTyped /\ DocsTyped
  BY DEF Init, SessionsTyped, DocsTyped, Versions
<1>3. BoardTyped
  BY DEF Init, BoardTyped, Front, Status
<1>4. BoundsTyped /\ locks \subseteq Lock
  BY BoardAssumption DEF Init, BoundsTyped
<1>5. proc \in [Procs -> Proc] /\ \A p \in Procs : Good(proc[p])
  BY IdleGood DEF Init, Good
<1> QED
  BY <1>1, <1>2, <1>3, <1>4, <1>5 DEF TInv, StoresTyped

LEMMA BeginTyped ==
  ASSUME TInv, NEW p \in Procs, Begin(p)
  PROVE  TInv'
<1>1. PICK c \in Commands, a \in Agents, t \in Tasks :
        /\ \E r \in Started(c, a, t) : Goto(p, r)
        /\ due' = IF c = "wake" THEN [due EXCEPT ![<<a, t>>] = @ + 1] ELSE due
        /\ disturbed' = IF \E q \in Procs : proc[q].task = t THEN disturbed \cup {t} ELSE disturbed
  BY DEF Begin
<1>2. PICK r \in Started(c, a, t) : Goto(p, r)
  BY <1>1
<1>3. StoresTyped
  BY Typed
<1>4. ClaimsTyped'
  <2>1. claims' = claims /\ holders' = holders /\ due \in [Scopes -> Nat]
    BY <1>3 DEF Begin, StoresTyped, ClaimsTyped
  <2>2. due' \in [Scopes -> Nat]
    BY <1>1, <2>1 DEF Scopes
  <2> QED BY <1>3, <2>1, <2>2 DEF StoresTyped, ClaimsTyped
<1>5. BoundsTyped'
  BY <1>1, <1>3, BoardAssumption DEF Begin, StoresTyped, BoundsTyped
<1>6. (WakesTyped /\ SessionsTyped /\ DocsTyped /\ BoardTyped /\ locks \subseteq Lock)'
  BY <1>3, Typed DEF Begin, StoresTyped, WakesTyped, SessionsTyped, DocsTyped, BoardTyped,
     wakeVars, sessionVars, docVars
<1> QED
  BY <1>2, <1>4, <1>5, <1>6, StartedGood, Typing DEF StoresTyped

LEMMA KillTyped ==
  ASSUME TInv, NEW p \in Procs, Kill(p)
  PROVE  TInv'
<1>1. StoresTyped /\ locks \subseteq Lock /\ ControlTyped(proc[p])
  BY Typed
<1>2. BoundsTyped'
  BY <1>1, BoardAssumption DEF Kill, StoresTyped, BoundsTyped, ControlTyped
<1>3. (ClaimsTyped /\ WakesTyped /\ SessionsTyped /\ BoardTyped /\ locks \subseteq Lock)'
  BY <1>1 DEF Kill, StoresTyped, ClaimsTyped, WakesTyped, SessionsTyped, BoardTyped,
     claimVars, wakeVars, sessionVars
<1>4. DocsTyped'
  BY <1>1 DEF Kill, Cut, StoresTyped, DocsTyped
<1> QED
  BY <1>2, <1>3, <1>4, IdleGood, Typing DEF StoresTyped, Kill, Return

LEMMA FailTyped ==
  ASSUME TInv, NEW p \in Procs, Fail(p)
  PROVE  TInv'
<1>1. /\ StoresTyped /\ locks \subseteq Lock /\ ControlTyped(proc[p]) /\ Good(proc[p])
      /\ proc[p].pc \in {"read", "put", "write"}
  BY Typed DEF Fail
<1>2. BoundsTyped'
  BY <1>1, BoardAssumption DEF Fail, StoresTyped, BoundsTyped, ControlTyped
<1>3. (ClaimsTyped /\ WakesTyped /\ SessionsTyped /\ BoardTyped /\ locks \subseteq Lock)'
  BY <1>1 DEF Fail, StoresTyped, ClaimsTyped, WakesTyped, SessionsTyped, BoardTyped,
     claimVars, wakeVars, sessionVars
<1>4. DocsTyped'
  BY <1>1 DEF Fail, Cut, StoresTyped, DocsTyped
<1>5. Good([proc[p] EXCEPT !.pc = "unlock", !.outcome = "refused"])
  BY <1>1, MovesGood
<1> QED
  BY <1>2, <1>3, <1>4, <1>5, Typing DEF StoresTyped, Fail

LEMMA LockTyped ==
  ASSUME TInv, NEW p \in Procs, Acquire(p) \/ TimeOut(p) \/ Release(p)
  PROVE  TInv'
<1>1. /\ Good(proc[p]) /\ proc[p] \in Proc /\ ControlTyped(proc[p]) /\ locks \subseteq Lock
      /\ proc[p].pc \in {"lock", "unlock"}
  BY Typed DEF Acquire, TimeOut, Release
<1>2. LockOf(proc[p]) \in Lock
  BY <1>1 DEF LockOf, Lock, Proc, ControlTyped, Entered
<1>3. StoresTyped' /\ (locks \subseteq Lock)'
  BY <1>1, <1>2, OnlyProc DEF Acquire, TimeOut, Release
<1>4. Good(AfterStore(proc[p])) /\ (proc[p].pc = "lock" => Good([proc[p] EXCEPT !.pc = "read"]))
  BY <1>1, AfterStoreGood, MovesGood
<1> QED
  BY <1>3, <1>4, IdleGood, Typing DEF Acquire, TimeOut, Release, Jump, Return

LEMMA ClaimTyped ==
  ASSUME TInv, NEW p \in Procs, ClaimRead(p) \/ ClaimWrite(p)
  PROVE  TInv'
<1>1. /\ StoresTyped /\ ClaimsTyped /\ locks \subseteq Lock
      /\ Good(proc[p]) /\ proc[p] \in Proc /\ ControlTyped(proc[p])
      /\ proc[p].pc \in {"read", "write"} /\ proc[p].store = "claims" /\ proc[p].cmd = "claim"
  BY Typed DEF StoresTyped, ClaimRead, ClaimWrite
<1>2. proc[p].task \in Tasks /\ proc[p].agent \in Agents /\ Scope(p) \in Scopes
  BY <1>1 DEF ControlTyped, Scope, Scopes
<1>3. (WakesTyped /\ SessionsTyped /\ DocsTyped /\ BoardTyped /\ BoundsTyped /\ locks \subseteq Lock)'
  BY <1>1 DEF ClaimRead, ClaimWrite, StoresTyped, WakesTyped, SessionsTyped, DocsTyped, BoardTyped,
     BoundsTyped, wakeVars, sessionVars, docVars, bounds
<1>4. \A o \in {"ok", "quiet", "already", "refused"} : Good([proc[p] EXCEPT !.pc = "unlock", !.outcome = o])
  BY <1>1, MovesGood
<1>5. CASE ClaimRead(p)
  <2>1. ClaimsTyped'
    BY <1>1, <1>2, <1>5 DEF ClaimRead, ClaimsTyped
  <2>2. PICK r : Good(r) /\ Goto(p, r)
    <3>1. Good([proc[p] EXCEPT !.pc = "write"])
      BY <1>1, <1>5, MovesGood DEF ClaimRead
    <3> QED BY <1>4, <1>5, <3>1 DEF ClaimRead, Jump
  <2> QED BY <1>3, <2>1, <2>2, Typing DEF StoresTyped
<1>6. CASE ClaimWrite(p)
  <2>1. [status |-> "claimed", owner |-> proc[p].agent] \in Claim
    BY <1>2 DEF Claim
  <2>2. claims' \in [Tasks -> Claim \cup {None}] /\ holders' \in [Tasks -> SUBSET Agents]
    BY <1>1, <1>2, <1>6, <2>1 DEF ClaimWrite, ClaimsTyped
  <2>3. PICK o \in {"ok", "quiet"} :
           /\ Goto(p, [proc[p] EXCEPT !.pc = "unlock", !.outcome = o])
           /\ due' = IF o = "ok" THEN [due EXCEPT ![<<proc[p].agent, proc[p].task>>] = @ + 1] ELSE due
    BY <1>6 DEF ClaimWrite
  <2>4. due' \in [Scopes -> Nat]
    BY <1>1, <1>2, <2>3 DEF ClaimsTyped, Scope
  <2> QED BY <1>3, <1>4, <2>2, <2>3, <2>4, Typing DEF StoresTyped, ClaimsTyped
<1> QED
  BY <1>5, <1>6

LEMMA ReleaseTyped ==
  ASSUME TInv, NEW p \in Procs, FindClaim(p) \/ ReleaseRead(p) \/ ReleaseWrite(p)
  PROVE  TInv'
<1>1. /\ StoresTyped /\ ClaimsTyped /\ locks \subseteq Lock
      /\ Good(proc[p]) /\ proc[p] \in Proc /\ ControlTyped(proc[p])
      /\ proc[p].pc \in {"exists", "read", "write"} /\ proc[p].cmd = "release"
  BY Typed DEF StoresTyped, FindClaim, ReleaseRead, ReleaseWrite, ControlTyped
<1>2. /\ proc[p].task \in Tasks /\ proc[p].agent \in Agents
      /\ proc[p].put \in {"released", "blocked"}
  BY <1>1 DEF ControlTyped
<1>3. CASE FindClaim(p)
  <2>1. Good(ToLock(proc[p], "claims"))
    BY <1>1, MovesGood DEF Stores, Entered
  <2>2. StoresTyped' /\ (locks \subseteq Lock)'
    BY <1>1, <1>3, OnlyProc DEF FindClaim
  <2> QED BY <1>3, <2>1, <2>2, IdleGood, Typing DEF FindClaim, Return
<1>4. CASE ReleaseRead(p)
  <2>1. /\ Good([proc[p] EXCEPT !.pc = "unlock", !.outcome = "refused"])
        /\ Good([proc[p] EXCEPT !.pc = "write"])
    BY <1>1, <1>4, MovesGood DEF ReleaseRead
  <2>2. StoresTyped' /\ (locks \subseteq Lock)'
    BY <1>1, <1>4, OnlyProc DEF ReleaseRead
  <2> QED BY <1>4, <2>1, <2>2, Typing DEF ReleaseRead, Jump
<1>5. CASE ReleaseWrite(p)
  <2>1. [status |-> proc[p].put, owner |-> proc[p].agent] \in Claim
    BY <1>2 DEF Claim
  <2>2. ClaimsTyped'
    BY <1>1, <1>2, <1>5, <2>1 DEF ReleaseWrite, ClaimsTyped
  <2>3. (WakesTyped /\ SessionsTyped /\ DocsTyped /\ BoardTyped /\ BoundsTyped /\ locks \subseteq Lock)'
    BY <1>1, <1>5 DEF ReleaseWrite, StoresTyped, WakesTyped, SessionsTyped, DocsTyped, BoardTyped,
       BoundsTyped, wakeVars, sessionVars, docVars, bounds
  <2>4. Good([proc[p] EXCEPT !.pc = "unlock", !.outcome = "ok"])
    BY <1>1, <1>5, MovesGood DEF ReleaseWrite
  <2> QED BY <1>5, <2>2, <2>3, <2>4, Typing DEF StoresTyped, ReleaseWrite
<1> QED
  BY <1>3, <1>4, <1>5

LEMMA WakeTyped ==
  ASSUME TInv, NEW p \in Procs, WakeRead(p) \/ WakeWrite(p)
  PROVE  TInv'
<1>1. /\ StoresTyped /\ WakesTyped /\ locks \subseteq Lock
      /\ Good(proc[p]) /\ proc[p] \in Proc /\ ControlTyped(proc[p]) /\ MemoryTyped(proc[p])
      /\ proc[p].pc \in {"read", "write"} /\ proc[p].store = "wakes"
  BY Typed DEF StoresTyped, WakeRead, WakeWrite
<1>2. Scope(p) \in Scopes
  BY <1>1 DEF ControlTyped, Entered, Scope, Scopes
<1>3. CASE WakeRead(p)
  <2> DEFINE m == [count |-> wakes[Scope(p)]]
             r == [proc[p] EXCEPT !.pc = "write", !.mem = m]
  <2>1. m \in Wake
    BY <1>1, <1>2 DEF Wake, WakesTyped
  <2> HIDE DEF m
  <2>2. r \in Proc
    BY <1>1, <2>1, Updates DEF Memory, PCs
  <2>3. ControlTyped(r) /\ MemoryTyped(r)
    BY <1>1, <1>3, <2>1 DEF WakeRead, Proc, ControlTyped, MemoryTyped
  <2>4. StoresTyped' /\ (locks \subseteq Lock)' /\ Goto(p, r)
    BY <1>1, <1>3, OnlyProc DEF WakeRead, m
  <2> QED BY <2>2, <2>3, <2>4, Typing DEF Good
<1>4. CASE WakeWrite(p)
  <2>1. WakesTyped'
    BY <1>1, <1>2, <1>4 DEF WakeWrite, MemoryTyped, Wake, WakesTyped
  <2>2. (ClaimsTyped /\ SessionsTyped /\ DocsTyped /\ BoardTyped /\ BoundsTyped /\ locks \subseteq Lock)'
    BY <1>1, <1>4 DEF WakeWrite, StoresTyped, ClaimsTyped, SessionsTyped, DocsTyped, BoardTyped,
       BoundsTyped, claimVars, sessionVars, docVars, bounds
  <2>3. Good([proc[p] EXCEPT !.pc = "unlock", !.mem = None])
    BY <1>1, MovesGood
  <2> QED BY <1>4, <2>1, <2>2, <2>3, Typing DEF StoresTyped, WakeWrite
<1> QED
  BY <1>3, <1>4

LEMMA NewSessionTyped ==
  ASSUME NEW r, r.mem \in Session, uuids \in Nat
  PROVE  NewSession(r) \in Session
<1>1. [r.mem EXCEPT !.resume = TRUE] \in Session /\ [r.mem EXCEPT !.resume = FALSE] \in Session
  BY DEF Session
<1>2. [id |-> uuids + 1, rotations |-> r.mem.rotations + 1, resume |-> FALSE] \in Session
  BY DEF Session
<1>3. CASE r.change = "resume"
  BY <1>1, <1>3 DEF NewSession
<1>4. CASE r.change = "reset"
  BY <1>1, <1>4 DEF NewSession
<1>5. CASE r.change = "rotate"
  BY <1>2, <1>5 DEF NewSession
<1>6. CASE r.change \notin {"resume", "reset", "rotate"}
  BY <1>6 DEF NewSession
<1> QED
  BY <1>3, <1>4, <1>5, <1>6

LEMMA SessionTyped ==
  ASSUME TInv, NEW p \in Procs, SessionRead(p) \/ SessionWrite(p)
  PROVE  TInv'
<1>1. /\ StoresTyped /\ SessionsTyped /\ locks \subseteq Lock
      /\ Good(proc[p]) /\ proc[p] \in Proc /\ ControlTyped(proc[p]) /\ MemoryTyped(proc[p])
      /\ proc[p].pc \in {"read", "write"} /\ proc[p].store = "sessions"
  BY Typed DEF StoresTyped, SessionRead, SessionWrite
<1>2. Scope(p) \in Scopes
  BY <1>1 DEF ControlTyped, Entered, Scope, Scopes
<1>3. (ClaimsTyped /\ WakesTyped /\ DocsTyped /\ BoardTyped /\ BoundsTyped /\ locks \subseteq Lock)'
  BY <1>1 DEF SessionRead, SessionWrite, StoresTyped, ClaimsTyped, WakesTyped, DocsTyped, BoardTyped,
     BoundsTyped, claimVars, wakeVars, docVars, bounds
<1>4. CASE SessionRead(p)
  <2>1. SessionsTyped'
    BY <1>1, <1>4 DEF SessionRead, SessionsTyped
  <2>2. ASSUME NEW m \in Session PROVE Good([proc[p] EXCEPT !.pc = "write", !.mem = m])
    <3>1. [proc[p] EXCEPT !.pc = "write", !.mem = m] \in Proc
      BY <1>1, Updates DEF Memory, PCs
    <3>2. /\ ControlTyped([proc[p] EXCEPT !.pc = "write", !.mem = m])
          /\ MemoryTyped([proc[p] EXCEPT !.pc = "write", !.mem = m])
      BY <1>1, <1>4 DEF SessionRead, Proc, ControlTyped, MemoryTyped
    <3> QED BY <3>1, <3>2 DEF Good
  <2>3. [id |-> uuids + 1, rotations |-> 0, resume |-> FALSE] \in Session
    BY <1>1 DEF Session, SessionsTyped
  <2>4. sessions[Scope(p)] # None => sessions[Scope(p)] \in Session
    BY <1>1, <1>2 DEF SessionsTyped
  <2>5. Good([proc[p] EXCEPT !.pc = "unlock"])
    BY <1>1, MovesGood
  <2>6. PICK r : Good(r) /\ Goto(p, r)
    BY <1>4, <2>2, <2>3, <2>4, <2>5 DEF SessionRead, Jump
  <2> QED BY <1>3, <2>1, <2>6, Typing DEF StoresTyped
<1>5. CASE SessionWrite(p)
  <2> DEFINE new == NewSession(proc[p])
  <2>1. new \in Session
    BY <1>1, <1>5, NewSessionTyped DEF SessionWrite, MemoryTyped, SessionsTyped
  <2>2. new.id \in Nat
    BY <2>1 DEF Session
  <2> HIDE DEF new
  <2>3. /\ sessions' = [sessions EXCEPT ![Scope(p)] = new]
        /\ issued' = [issued EXCEPT ![Scope(p)] = @ \cup {new.id}]
        /\ uuids' = IF proc[p].change = "rotate" THEN uuids + 1 ELSE uuids
        /\ forgotten' \subseteq forgotten \cup {Scope(p)}
    BY <1>5 DEF SessionWrite, new
  <2>4. SessionsTyped'
    BY <1>1, <1>2, <2>1, <2>2, <2>3 DEF SessionsTyped
  <2>5. Good([proc[p] EXCEPT !.pc = "unlock", !.mem = None])
    BY <1>1, MovesGood
  <2> QED BY <1>3, <1>5, <2>4, <2>5, Typing DEF StoresTyped, SessionWrite
<1> QED
  BY <1>4, <1>5

LEMMA DocTyped ==
  ASSUME TInv, NEW p \in Procs, DocsRead(p) \/ PutFile(p) \/ DocsWrite(p)
  PROVE  TInv'
<1>1. /\ StoresTyped /\ DocsTyped /\ locks \subseteq Lock
      /\ Good(proc[p]) /\ proc[p] \in Proc /\ ControlTyped(proc[p]) /\ MemoryTyped(proc[p])
      /\ proc[p].pc \in {"read", "put", "write"} /\ proc[p].store = "docs"
  BY Typed DEF StoresTyped, DocsRead, PutFile, DocsWrite, ControlTyped
<1>2. proc[p].task \in Tasks /\ proc[p].path \in Paths
  BY <1>1 DEF ControlTyped, Entered
<1>3. (ClaimsTyped /\ WakesTyped /\ SessionsTyped /\ BoardTyped /\ BoundsTyped /\ locks \subseteq Lock)'
  BY <1>1 DEF DocsRead, PutFile, DocsWrite, StoresTyped, ClaimsTyped, WakesTyped, SessionsTyped,
     BoardTyped, BoundsTyped, claimVars, wakeVars, sessionVars, bounds
<1>4. Good([proc[p] EXCEPT !.pc = "unlock", !.mem = None])
  BY <1>1, MovesGood
<1>5. CASE DocsRead(p)
  <2> DEFINE m == [of |-> manifests[proc[p].task]]
             r == [proc[p] EXCEPT !.pc = "put", !.mem = m]
  <2>1. m \in Manifest
    BY <1>1, <1>2 DEF Manifest, DocsTyped
  <2> HIDE DEF m
  <2>2. r \in Proc
    BY <1>1, <2>1, Updates DEF Memory, PCs
  <2>3. ControlTyped(r) /\ MemoryTyped(r)
    BY <1>1, <1>5, <2>1 DEF DocsRead, Proc, ControlTyped, MemoryTyped
  <2>4. DocsTyped' /\ Goto(p, r)
    BY <1>1, <1>5 DEF DocsRead, docVars, DocsTyped, m
  <2> QED BY <1>3, <2>2, <2>3, <2>4, Typing DEF Good, StoresTyped
<1>6. CASE PutFile(p)
  <2> DEFINE r == [proc[p] EXCEPT !.pc = "write"]
  <2>1. DocsTyped'
    <3> DEFINE new == [docs[proc[p].task] EXCEPT ![proc[p].path] = @ + 1]
    <3>1. new \in Versions
      BY <1>1, <1>2 DEF DocsTyped, Versions
    <3>2. docs' = docs \/ docs' = [docs EXCEPT ![proc[p].task] = new]
      BY <1>1, <1>2, <1>6 DEF PutFile, DocsTyped
    <3> HIDE DEF new
    <3> QED BY <1>1, <1>2, <1>6, <3>1, <3>2 DEF PutFile, DocsTyped
  <2>2. Good(r)
    <3>1. r \in Proc
      BY <1>1, Updates DEF PCs
    <3>2. ControlTyped(r) /\ MemoryTyped(r)
      BY <1>1, <1>6 DEF PutFile, Proc, ControlTyped, MemoryTyped
    <3> QED BY <3>1, <3>2 DEF Good
  <2> QED BY <1>3, <1>4, <1>6, <2>1, <2>2, Typing DEF PutFile, Jump, StoresTyped
<1>7. CASE DocsWrite(p)
  <2>1. proc[p].mem.of \in Versions /\ docs[proc[p].task][proc[p].path] \in Nat
    BY <1>1, <1>2, <1>7 DEF DocsWrite, MemoryTyped, Manifest, DocsTyped, Versions
  <2>2. DocsTyped'
    BY <1>1, <1>2, <1>7, <2>1 DEF DocsWrite, DocsTyped, Versions
  <2> QED BY <1>3, <1>4, <1>7, <2>2, Typing DEF DocsWrite, StoresTyped
<1> QED
  BY <1>5, <1>6, <1>7

LEMMA FrontTyped ==
  ASSUME TInv, NEW p \in Procs, FrontStep(p)
  PROVE  TInv'
<1>1. /\ StoresTyped /\ BoardTyped /\ locks \subseteq Lock
      /\ Good(proc[p]) /\ proc[p] \in Proc /\ ControlTyped(proc[p]) /\ MemoryTyped(proc[p])
      /\ proc[p].pc \in {"look", "check", "fm_read", "fm_open", "fm_write"}
  BY Typed DEF StoresTyped, FrontStep, Look, Check, FrontRead, FrontOpen, FrontWrite
<1>2. proc[p].task \in Tasks
  BY <1>1 DEF ControlTyped
<1>3. (ClaimsTyped /\ WakesTyped /\ SessionsTyped /\ DocsTyped /\ BoundsTyped /\ locks \subseteq Lock)'
  BY <1>1 DEF FrontStep, Look, Check, FrontRead, FrontOpen, FrontWrite, StoresTyped, ClaimsTyped,
     WakesTyped, SessionsTyped, DocsTyped, BoundsTyped, claimVars, wakeVars, sessionVars, docVars, bounds
<1>4. board[proc[p].task] \in Front
  BY <1>1, <1>2 DEF BoardTyped
<1>5. CASE Look(p)
  <2>1. Shown(board[proc[p].task]) \in Status
    BY <1>4 DEF Shown, Front, Status
  <2>2. BoardTyped'
    BY <1>1, <1>5 DEF Look, BoardTyped
  <2>3. proc[p].cmd = "done" => Good(ToBoard(proc[p], "done"))
    BY <1>1, MovesGood DEF Status
  <2>4. proc[p].cmd = "claim" =>
          Good([ToLock(proc[p], "claims") EXCEPT !.seen = Shown(board[proc[p].task])])
    <3> DEFINE r == ToLock(proc[p], "claims")
               status == Shown(board[proc[p].task])
    <3>1. SUFFICES ASSUME proc[p].cmd = "claim" PROVE Good([r EXCEPT !.seen = status])
      OBVIOUS
    <3>2. Good(r) /\ r.pc = "lock"
      <4>1. Good(r)
        BY <1>1, <3>1, MovesGood DEF Entered, Stores
      <4> QED BY <1>1, <4>1 DEF ToLock, Proc
    <3> HIDE DEF r, status
    <3>3. status \in Status
      BY <2>1 DEF status
    <3>4. [r EXCEPT !.seen = status] \in Proc
      BY <3>2, <3>3 DEF Good, Proc
    <3>5. ControlTyped([r EXCEPT !.seen = status]) /\ MemoryTyped([r EXCEPT !.seen = status])
      BY <3>2 DEF Good, Proc, ControlTyped, MemoryTyped
    <3> QED BY <3>4, <3>5 DEF Good
  <2> QED BY <1>3, <1>5, <2>2, <2>3, <2>4, IdleGood, Typing DEF Look, Return, StoresTyped
<1>6. CASE Check(p)
  <2>1. BoardTyped'
    BY <1>1, <1>6 DEF Check, BoardTyped
  <2>2. Good(ToBoard(proc[p], proc[p].put))
    BY <1>1, MovesGood DEF Proc
  <2> QED BY <1>3, <1>6, <2>1, <2>2, IdleGood, Typing DEF Check, Return, StoresTyped
<1>7. CASE FrontRead(p)
  <2> DEFINE m == board[proc[p].task]
             r == [proc[p] EXCEPT !.pc = "fm_open", !.mem = m]
  <2>1. BoardTyped' /\ Goto(p, r)
    BY <1>1, <1>7 DEF FrontRead, BoardTyped
  <2>2. m \in Front
    BY <1>4
  <2> HIDE DEF m
  <2>3. r \in Proc
    BY <1>1, <2>2, Updates DEF Memory, PCs
  <2>4. ControlTyped(r) /\ MemoryTyped(r)
    BY <1>1, <1>7, <2>2 DEF FrontRead, Proc, ControlTyped, MemoryTyped
  <2> QED BY <1>3, <2>1, <2>3, <2>4, Typing DEF Good, StoresTyped
<1>8. CASE FrontOpen(p)
  <2>1. Empty \in Front
    BY DEF Empty, Front, Status
  <2>2. BoardTyped'
    BY <1>1, <1>8, <2>1 DEF FrontOpen, BoardTyped
  <2>3. Good([proc[p] EXCEPT !.pc = "fm_write"])
    BY <1>1, <1>8, MovesGood DEF FrontOpen
  <2> QED BY <1>3, <1>8, <2>2, <2>3, Typing DEF FrontOpen, Jump, StoresTyped
<1>9. CASE FrontWrite(p)
  <2>1. proc[p].mem \in Front
    BY <1>1, <1>9 DEF FrontWrite, MemoryTyped
  <2>2. proc[p].put # "keep" => [proc[p].mem EXCEPT !.status = proc[p].put] \in Front
    BY <1>1, <2>1 DEF Front, Proc
  <2>3. BoardTyped'
    BY <1>1, <1>9, <2>1, <2>2 DEF FrontWrite, BoardTyped
  <2>4. CASE proc[p].cmd = "claim"
    <3>1. Goto(p, Claimed(proc[p]))
      BY <1>9, <2>4 DEF FrontWrite
    <3>2. Good(Claimed(proc[p]))
      BY <1>1, <2>4, ClaimedGood
    <3> QED BY <1>3, <2>3, <3>1, <3>2, Typing DEF StoresTyped
  <2>5. CASE proc[p].cmd = "done" /\ proc[p].put = "done"
    <3> DEFINE r == ToBoard(proc[p], "keep")
    <3>1. Goto(p, [r EXCEPT !.mem = None])
      BY <1>9, <2>5 DEF FrontWrite
    <3>2. Good(r) /\ r.pc = "fm_read"
      BY <1>1, <2>5, MovesGood DEF ToBoard, Proc
    <3> HIDE DEF r
    <3>3. [r EXCEPT !.mem = None] \in Proc
      BY <3>2 DEF Good, Proc
    <3>4. ControlTyped([r EXCEPT !.mem = None]) /\ MemoryTyped([r EXCEPT !.mem = None])
      BY <3>2 DEF Good, Proc, ControlTyped, MemoryTyped
    <3> QED BY <1>3, <2>3, <3>1, <3>3, <3>4, Typing DEF StoresTyped, Good
  <2>6. CASE proc[p].cmd # "claim" /\ ~(proc[p].cmd = "done" /\ proc[p].put = "done")
    <3>1. Goto(p, Idle)
      BY <1>9, <2>6 DEF FrontWrite
    <3> QED BY <1>3, <2>3, <3>1, IdleGood, Typing DEF StoresTyped
  <2> QED BY <2>4, <2>5, <2>6
<1> QED
  BY <1>1, <1>5, <1>6, <1>7, <1>8, <1>9 DEF FrontStep

LEMMA StepTyped == TInv /\ [Next]_vars => TInv'
<1> SUFFICES ASSUME TInv, [Next]_vars PROVE TInv'
  OBVIOUS
<1>1. ASSUME NEW p \in Procs, Begin(p) \/ StoreStep(p) \/ FrontStep(p) \/ Kill(p) \/ Fail(p)
      PROVE  TInv'
  BY <1>1, BeginTyped, KillTyped, FailTyped, LockTyped, ClaimTyped, ReleaseTyped, WakeTyped, SessionTyped,
     DocTyped, FrontTyped DEF StoreStep
<1>2. CASE UNCHANGED vars
  BY <1>2 DEF vars, claimVars, wakeVars, sessionVars, docVars, bounds, TInv, StoresTyped, ClaimsTyped,
     WakesTyped, SessionsTyped, DocsTyped, BoardTyped, BoundsTyped
<1> QED
  BY <1>1, <1>2 DEF Next

\* The stores, the front matter, the locks and the commands under way keep to
\* their types: no step reads what is not there or writes what a reader of the
\* same file would not understand.
THEOREM TypeCorrect == Spec => []TypeOK
<1>1. TInv => TypeOK
  BY DEF TInv, StoresTyped, ClaimsTyped, WakesTyped, SessionsTyped, DocsTyped, BoardTyped, BoundsTyped, TypeOK
<1> QED
  BY InitTyped, StepTyped, <1>1, PTL DEF Spec

------------------------------------------------------------------------------
(* The locks, and what agents were told *)

InsidePCs == {"read", "put", "write", "unlock"}

\* Whoever is inside a store has its lock, and nobody else is there.
LockHeld == \A p \in Procs : Inside(p) => LockOf(proc[p]) \in locks

\* What a process has read of a claim still holds when it writes it.
StillSo ==
  \A p \in Procs : proc[p].pc = "write" /\ proc[p].store = "claims" =>
    /\ proc[p].cmd = "claim" => claims[proc[p].task] = None \/ claims[proc[p].task].status # "claimed"
    /\ proc[p].cmd = "release" => claims[proc[p].task].owner = proc[p].agent

LInv == LockHeld /\ MutualExclusion
CInv == StillSo /\ HoldersAgree
HInv == TInv /\ LInv /\ CInv

\* A step of a process that enters no store and changes no claim.
LEMMA LockStay ==
  ASSUME TInv, LInv, NEW p \in Procs, NEW r, Goto(p, r), locks' = locks,
         r.pc \in InsidePCs => Inside(p) /\ LockOf(r) = LockOf(proc[p])
  PROVE  LInv'
<1>1. /\ proc'[p] = r
      /\ \A q \in Procs : q # p => proc'[q] = proc[q]
  BY DEF TInv, Goto
<1>2. \A q \in Procs : Inside(q)' => Inside(q) /\ LockOf(proc'[q]) = LockOf(proc[q])
  BY <1>1 DEF Inside, InsidePCs
<1>3. LockHeld'
  BY <1>2 DEF LInv, LockHeld, LockOf
<1>4. MutualExclusion'
  BY <1>2 DEF LInv, MutualExclusion, LockOf
<1> QED
  BY <1>3, <1>4 DEF LInv

LEMMA ClaimStay ==
  ASSUME TInv, CInv, NEW p \in Procs, NEW r, Goto(p, r), claims' = claims, holders' = holders,
         ~(r.pc = "write" /\ r.store = "claims")
  PROVE  CInv'
<1>1. /\ proc'[p] = r
      /\ \A q \in Procs : q # p => proc'[q] = proc[q]
  BY DEF TInv, Goto
<1>2. StillSo'
  BY <1>1 DEF CInv, StillSo
<1>3. HoldersAgree'
  BY DEF CInv, HoldersAgree
<1> QED
  BY <1>2, <1>3 DEF CInv

\* Both at once, for a process that leaves, waits or goes on in its store.
LEMMA Elsewhere ==
  ASSUME TInv, LInv, CInv, NEW p \in Procs, NEW r, Goto(p, r),
         UNCHANGED <<locks, claims, holders>>, r.pc \notin InsidePCs
  PROVE  LInv' /\ CInv'
  BY LockStay, ClaimStay DEF InsidePCs

LEMMA GoesOn ==
  ASSUME TInv, LInv, CInv, NEW p \in Procs, NEW pc \in InsidePCs, NEW m, Inside(p),
         \/ Goto(p, [proc[p] EXCEPT !.pc = pc])
         \/ Goto(p, [proc[p] EXCEPT !.pc = pc, !.mem = m])
         \/ Goto(p, [proc[p] EXCEPT !.pc = pc, !.outcome = m]),
         UNCHANGED <<locks, claims, holders>>, pc = "write" => proc[p].store # "claims"
  PROVE  LInv' /\ CInv'
<1>1. proc[p] \in Proc
  BY DEF TInv
<1> DEFINE Same(r) == r.pc = pc /\ r.store = proc[p].store /\ LockOf(r) = LockOf(proc[p])
<1>2. /\ Same([proc[p] EXCEPT !.pc = pc])
      /\ Same([proc[p] EXCEPT !.pc = pc, !.mem = m])
      /\ Same([proc[p] EXCEPT !.pc = pc, !.outcome = m])
  BY <1>1 DEF Proc, LockOf
<1>3. PICK r : Goto(p, r) /\ Same(r)
  BY <1>2
<1> QED
  BY <1>3, LockStay, ClaimStay

LEMMA InitHeld == Init => LInv /\ CInv
<1> SUFFICES ASSUME Init PROVE LInv /\ CInv
  OBVIOUS
<1>1. \A p \in Procs : proc[p].pc = "idle"
  BY DEF Init, Idle
<1>2. \A p \in Procs : ~Inside(p)
  BY <1>1 DEF Inside
<1>3. LInv
  BY <1>2 DEF LInv, LockHeld, MutualExclusion
<1>4. CInv
  BY <1>1 DEF Init, CInv, StillSo, HoldersAgree
<1> QED
  BY <1>3, <1>4

LEMMA BeginHeld ==
  ASSUME HInv, NEW p \in Procs, Begin(p) \/ Kill(p)
  PROVE  LInv' /\ CInv'
<1>1. UNCHANGED <<locks, claims, holders>>
  BY DEF Begin, Kill, claimVars
<1>2. CASE Begin(p)
  <2>0. PICK c \in Commands, a \in Agents, t \in Tasks : \E r \in Started(c, a, t) : Goto(p, r)
    BY <1>2 DEF Begin
  <2>1. PICK r \in Started(c, a, t) : Goto(p, r)
    BY <2>0
  <2>2. r.pc \notin InsidePCs
    BY StartedGood DEF InsidePCs
  <2> QED BY <1>1, <2>1, <2>2, Elsewhere DEF HInv
<1>3. CASE Kill(p)
  BY <1>1, <1>3, Elsewhere DEF HInv, Kill, Return, Idle, InsidePCs
<1> QED
  BY <1>2, <1>3

LEMMA FailHeld ==
  ASSUME HInv, NEW p \in Procs, Fail(p)
  PROVE  LInv' /\ CInv'
<1>1. /\ UNCHANGED <<locks, claims, holders>> /\ Inside(p)
      /\ Goto(p, [proc[p] EXCEPT !.pc = "unlock", !.outcome = "refused"])
  BY DEF Fail, claimVars, Inside
<1> QED
  BY <1>1, GoesOn DEF HInv, InsidePCs

LEMMA LockingHeld ==
  ASSUME HInv, NEW p \in Procs, Acquire(p) \/ TimeOut(p) \/ Release(p)
  PROVE  LInv' /\ CInv'
<1>1. TInv /\ LInv /\ CInv /\ Good(proc[p]) /\ proc[p] \in Proc /\ proc \in [Procs -> Proc]
  BY Typed DEF HInv, TInv
<1>2. claims' = claims /\ holders' = holders
  BY DEF Acquire, TimeOut, Release, claimVars
<1>3. CASE Acquire(p)
  <2> DEFINE r == [proc[p] EXCEPT !.pc = "read"]
  <2>1. Goto(p, r) /\ LockOf(r) = LockOf(proc[p]) /\ r.pc = "read"
    BY <1>1, <1>3 DEF Acquire, Jump, LockOf, Proc
  <2>2. CInv'
    BY <1>1, <1>2, <2>1, ClaimStay
  <2>3. /\ locks' = locks \cup {LockOf(proc[p])} /\ LockOf(proc[p]) \notin locks
        /\ proc'[p] = r /\ \A q \in Procs : q # p => proc'[q] = proc[q]
    BY <1>1, <1>3, <2>1 DEF Acquire, Goto
  <2> HIDE DEF r
  <2>4. \A q \in Procs : q # p => Inside(q)' = Inside(q) /\ LockOf(proc[q])' = LockOf(proc[q])
    BY <2>3 DEF Inside, LockOf
  <2>5. LockOf(proc[p])' = LockOf(proc[p])
    BY <2>1, <2>3 DEF LockOf
  <2>6. LockHeld'
    BY <1>1, <2>3, <2>4, <2>5 DEF LInv, LockHeld
  <2>7. \A q \in Procs : q # p /\ Inside(q) => LockOf(proc[q]) # LockOf(proc[p])
    BY <1>1, <2>3 DEF LInv, LockHeld
  <2>8. MutualExclusion'
    <3> SUFFICES ASSUME NEW q1 \in Procs, NEW q2 \in Procs, Inside(q1)', Inside(q2)',
                        LockOf(proc[q1])' = LockOf(proc[q2])', q1 # q2
                 PROVE  FALSE
      BY DEF MutualExclusion
    <3>1. CASE q1 = p
      BY <2>4, <2>5, <2>7, <3>1
    <3>2. CASE q2 = p
      BY <2>4, <2>5, <2>7, <3>2
    <3>3. CASE q1 # p /\ q2 # p
      BY <1>1, <2>4, <3>3 DEF LInv, MutualExclusion
    <3> QED BY <3>1, <3>2, <3>3
  <2> QED BY <2>2, <2>6, <2>8 DEF LInv
<1>4. CASE TimeOut(p)
  <2>1. AfterStore(proc[p]).pc \notin InsidePCs /\ Idle.pc \notin InsidePCs
    BY <1>1, <1>4, AfterStoreGood DEF TimeOut, InsidePCs, Idle
  <2> QED BY <1>1, <1>2, <1>4, <2>1, Elsewhere DEF TimeOut, Return
<1>5. CASE Release(p)
  <2> DEFINE r == AfterStore(proc[p])
  <2>1. Goto(p, r) /\ r.pc \notin InsidePCs /\ Inside(p) /\ locks' = locks \ {LockOf(proc[p])}
    BY <1>1, <1>5, AfterStoreGood DEF Release, InsidePCs, Inside
  <2> HIDE DEF r
  <2>2. CInv'
    BY <1>1, <1>2, <2>1, ClaimStay DEF InsidePCs
  <2>3. proc'[p] = r /\ \A q \in Procs : q # p => proc'[q] = proc[q]
    BY <1>1, <2>1 DEF Goto
  <2>4. \A q \in Procs : Inside(q)' => q # p /\ Inside(q) /\ LockOf(proc[q])' = LockOf(proc[q])
    BY <2>1, <2>3 DEF Inside, InsidePCs, LockOf
  <2>5. LockHeld'
    BY <1>1, <2>1, <2>4 DEF LInv, LockHeld, MutualExclusion
  <2>6. MutualExclusion'
    BY <1>1, <2>4 DEF LInv, MutualExclusion
  <2> QED BY <2>2, <2>5, <2>6 DEF LInv
<1> QED
  BY <1>3, <1>4, <1>5

\* Only one process writes a claim, and it has the lock.
LEMMA WriterAlone ==
  ASSUME HInv, NEW p \in Procs, NEW q \in Procs, p # q,
         Inside(p), proc[p].store = "claims",
         proc[q].pc = "write", proc[q].store = "claims"
  PROVE  proc[p].task # proc[q].task
  BY DEF HInv, LInv, MutualExclusion, LockOf, Inside

LEMMA ClaimHeld ==
  ASSUME HInv, NEW p \in Procs, ClaimRead(p) \/ ClaimWrite(p)
  PROVE  LInv' /\ CInv'
<1> DEFINE t == proc[p].task
           a == proc[p].agent
<1>1. /\ TInv /\ LInv /\ CInv /\ ClaimsTyped /\ proc[p] \in Proc /\ proc \in [Procs -> Proc]
      /\ t \in Tasks /\ a \in Agents /\ Inside(p) /\ proc[p].store = "claims"
  BY Typed DEF HInv, TInv, StoresTyped, ControlTyped, ClaimRead, ClaimWrite, Inside
<1>2. locks' = locks
  BY DEF ClaimRead, ClaimWrite
<1>3. CASE ClaimRead(p)
  <2>1. claims' = claims
    BY <1>3 DEF ClaimRead
  <2>2. CASE claims[t] # None /\ claims[t].status = "claimed" /\ claims[t].owner = a
    <3>1. Goto(p, [proc[p] EXCEPT !.pc = "unlock", !.outcome = "already"])
          /\ holders' = [holders EXCEPT ![t] = @ \cup {a}]
      BY <1>3, <2>2 DEF ClaimRead
    <3>2. claims[t] = [status |-> "claimed", owner |-> a]
      BY <1>1, <2>2 DEF ClaimsTyped, Claim
    <3>3. HoldersAgree'
      BY <1>1, <2>1, <3>1, <3>2 DEF ClaimsTyped, CInv, HoldersAgree
    <3> DEFINE r == [proc[p] EXCEPT !.pc = "unlock", !.outcome = "already"]
    <3>4. r.pc = "unlock" /\ LockOf(r) = LockOf(proc[p])
      BY <1>1 DEF Proc, LockOf
    <3> HIDE DEF r
    <3>5. proc'[p] = r /\ \A q \in Procs : q # p => proc'[q] = proc[q]
      BY <1>1, <3>1 DEF Goto, r
    <3>6. StillSo'
      BY <1>1, <2>1, <3>4, <3>5 DEF CInv, StillSo
    <3>7. LInv'
      BY <1>1, <1>2, <3>1, <3>4, LockStay DEF r
    <3> QED BY <3>3, <3>6, <3>7 DEF CInv
  <2>3. CASE claims[t] # None /\ claims[t].status = "claimed" /\ claims[t].owner # a
    <3>1. /\ Goto(p, [proc[p] EXCEPT !.pc = "unlock", !.outcome = "refused"])
          /\ holders' = holders
      BY <1>3, <2>3 DEF ClaimRead
    <3> QED BY <1>1, <1>2, <2>1, <3>1, GoesOn DEF InsidePCs
  <2>4. CASE ~(claims[t] # None /\ claims[t].status = "claimed")
    <3> DEFINE r == [proc[p] EXCEPT !.pc = "write"]
    <3>1. Goto(p, r) /\ holders' = holders
      BY <1>3, <2>4 DEF ClaimRead, Jump
    <3>2. r.pc = "write" /\ LockOf(r) = LockOf(proc[p]) /\ r.task = t /\ r.cmd = "claim"
      BY <1>1, <1>3 DEF ClaimRead, Proc, LockOf
    <3> HIDE DEF r
    <3>3. proc'[p] = r /\ \A q \in Procs : q # p => proc'[q] = proc[q]
      BY <1>1, <3>1 DEF Goto
    <3>4. StillSo'
      BY <1>1, <2>1, <2>4, <3>2, <3>3 DEF CInv, StillSo
    <3>5. HoldersAgree'
      BY <1>1, <2>1, <3>1 DEF CInv, HoldersAgree
    <3>6. LInv'
      BY <1>1, <1>2, <3>1, <3>2, LockStay
    <3> QED BY <3>4, <3>5, <3>6 DEF CInv
  <2> QED BY <2>2, <2>3, <2>4
<1>4. CASE ClaimWrite(p)
  <2>1. PICK o \in {"ok", "quiet"} : Goto(p, [proc[p] EXCEPT !.pc = "unlock", !.outcome = o])
    BY <1>4 DEF ClaimWrite
  <2> DEFINE r == [proc[p] EXCEPT !.pc = "unlock", !.outcome = o]
  <2>2. r.pc = "unlock" /\ LockOf(r) = LockOf(proc[p])
    BY <1>1 DEF Proc, LockOf
  <2>3. LInv'
    BY <1>1, <1>2, <2>1, <2>2, LockStay
  <2> HIDE DEF r
  <2>4. proc'[p] = r /\ \A q \in Procs : q # p => proc'[q] = proc[q]
    BY <1>1, <2>1 DEF Goto, r
  <2>5. /\ claims' = [claims EXCEPT ![t] = [status |-> "claimed", owner |-> a]]
        /\ holders' = [holders EXCEPT ![t] = @ \cup {a}]
    BY <1>4 DEF ClaimWrite
  <2>6. StillSo'
    <3> SUFFICES ASSUME NEW q \in Procs, q # p, proc[q].pc = "write", proc[q].store = "claims"
                 PROVE  claims'[proc[q].task] = claims[proc[q].task]
      BY <1>1, <2>2, <2>4 DEF CInv, StillSo
    <3>1. proc[q].task # t
      BY <1>1, WriterAlone
    <3> QED BY <1>1, <2>5, <3>1 DEF ClaimsTyped
  <2>7. HoldersAgree'
    <3>1. claims[t] = None \/ claims[t].status # "claimed"
      BY <1>1, <1>4 DEF ClaimWrite, CInv, StillSo
    <3>2. holders[t] = {}
      <4> SUFFICES ASSUME NEW b \in holders[t] PROVE FALSE
        OBVIOUS
      <4>1. claims[t] = [status |-> "claimed", owner |-> b] /\ b \in Agents
        BY <1>1 DEF CInv, HoldersAgree, ClaimsTyped
      <4>2. claims[t] \in Memory
        BY <4>1 DEF Memory, Claim
      <4> QED BY <3>1, <4>1, <4>2, NoneAssumption
    <3> QED BY <1>1, <2>5, <3>2 DEF CInv, HoldersAgree, ClaimsTyped
  <2> QED BY <2>3, <2>6, <2>7 DEF CInv
<1> QED
  BY <1>3, <1>4

LEMMA ReleaseHeld ==
  ASSUME HInv, NEW p \in Procs, FindClaim(p) \/ ReleaseRead(p) \/ ReleaseWrite(p)
  PROVE  LInv' /\ CInv'
<1> DEFINE t == proc[p].task
           a == proc[p].agent
<1>1. /\ TInv /\ LInv /\ CInv /\ ClaimsTyped /\ proc[p] \in Proc /\ proc \in [Procs -> Proc]
      /\ t \in Tasks /\ a \in Agents
  BY Typed DEF HInv, TInv, StoresTyped, ControlTyped, FindClaim, ReleaseRead, ReleaseWrite
<1>2. locks' = locks
  BY DEF FindClaim, ReleaseRead, ReleaseWrite
<1>3. CASE FindClaim(p)
  <2>1. ToLock(proc[p], "claims").pc \notin InsidePCs /\ Idle.pc \notin InsidePCs
    BY <1>1 DEF ToLock, Proc, Idle, InsidePCs
  <2>2. claims' = claims /\ holders' = holders
    BY <1>3 DEF FindClaim, claimVars
  <2> QED BY <1>1, <1>2, <1>3, <2>1, <2>2, Elsewhere DEF FindClaim, Return
<1>4. CASE ReleaseRead(p)
  <2>1. claims' = claims /\ holders' = holders /\ Inside(p)
    BY <1>4 DEF ReleaseRead, claimVars, Inside
  <2>2. CASE claims[t].owner # a
    <3>1. Goto(p, [proc[p] EXCEPT !.pc = "unlock", !.outcome = "refused"])
      BY <1>4, <2>2 DEF ReleaseRead
    <3> QED BY <1>1, <1>2, <2>1, <3>1, GoesOn DEF InsidePCs
  <2>3. CASE claims[t].owner = a
    <3> DEFINE r == [proc[p] EXCEPT !.pc = "write"]
    <3>1. Goto(p, r)
      BY <1>4, <2>3 DEF ReleaseRead, Jump
    <3>2. r.pc = "write" /\ LockOf(r) = LockOf(proc[p]) /\ r.task = t /\ r.agent = a /\ r.cmd = "release"
      BY <1>1, <1>4 DEF ReleaseRead, Proc, LockOf
    <3> HIDE DEF r
    <3>3. proc'[p] = r /\ \A q \in Procs : q # p => proc'[q] = proc[q]
      BY <1>1, <3>1 DEF Goto
    <3>4. StillSo'
      BY <1>1, <2>1, <2>3, <3>2, <3>3 DEF CInv, StillSo
    <3>5. HoldersAgree'
      BY <1>1, <2>1 DEF CInv, HoldersAgree
    <3>6. LInv'
      BY <1>1, <1>2, <2>1, <3>1, <3>2, LockStay
    <3> QED BY <3>4, <3>5, <3>6 DEF CInv
  <2> QED BY <2>2, <2>3
<1>5. CASE ReleaseWrite(p)
  <2> DEFINE r == [proc[p] EXCEPT !.pc = "unlock", !.outcome = "ok"]
  <2>1. /\ Goto(p, r) /\ Inside(p) /\ proc[p].store = "claims"
        /\ claims' = [claims EXCEPT ![t] = [status |-> proc[p].put, owner |-> a]]
        /\ holders' = [holders EXCEPT ![t] = @ \ {a}]
    BY <1>5 DEF ReleaseWrite, Inside
  <2>2. r.pc = "unlock" /\ LockOf(r) = LockOf(proc[p])
    BY <1>1 DEF Proc, LockOf
  <2> HIDE DEF r
  <2>3. LInv'
    BY <1>1, <1>2, <2>1, <2>2, LockStay
  <2>4. proc'[p] = r /\ \A q \in Procs : q # p => proc'[q] = proc[q]
    BY <1>1, <2>1 DEF Goto
  <2>5. StillSo'
    <3> SUFFICES ASSUME NEW q \in Procs, q # p, proc[q].pc = "write", proc[q].store = "claims"
                 PROVE  claims'[proc[q].task] = claims[proc[q].task]
      BY <1>1, <2>2, <2>4 DEF CInv, StillSo
    <3>1. proc[q].task # t
      BY <2>1, WriterAlone
    <3> QED BY <1>1, <2>1, <3>1 DEF ClaimsTyped
  <2>6. HoldersAgree'
    <3>1. claims[t].owner = a
      BY <1>1, <1>5 DEF ReleaseWrite, CInv, StillSo
    <3>2. ASSUME NEW b \in holders[t] PROVE b = a
      <4>1. claims[t] = [status |-> "claimed", owner |-> b]
        BY <1>1 DEF CInv, HoldersAgree
      <4> QED BY <3>1, <4>1
    <3>3. holders'[t] = {}
      BY <1>1, <2>1, <3>2 DEF ClaimsTyped
    <3> QED BY <1>1, <2>1, <3>3 DEF CInv, HoldersAgree, ClaimsTyped
  <2> QED BY <2>3, <2>5, <2>6 DEF CInv
<1> QED
  BY <1>3, <1>4, <1>5

LEMMA OtherStoresHeld ==
  ASSUME HInv, NEW p \in Procs,
         \/ WakeRead(p) \/ WakeWrite(p) \/ SessionRead(p) \/ SessionWrite(p)
         \/ DocsRead(p) \/ PutFile(p) \/ DocsWrite(p)
  PROVE  LInv' /\ CInv'
<1>1. TInv /\ LInv /\ CInv /\ ControlTyped(proc[p])
  BY Typed DEF HInv
<1>2. UNCHANGED <<locks, claims, holders>> /\ Inside(p)
  BY DEF WakeRead, WakeWrite, SessionRead, SessionWrite, DocsRead, PutFile, DocsWrite, claimVars, Inside
<1>3. proc[p].store \in {"wakes", "sessions", "docs"}
  BY <1>1 DEF ControlTyped, WakeRead, WakeWrite, SessionRead, SessionWrite, DocsRead, PutFile, DocsWrite
<1>4. PICK pc \in InsidePCs :
        \/ Goto(p, [proc[p] EXCEPT !.pc = pc])
        \/ \E m : Goto(p, [proc[p] EXCEPT !.pc = pc, !.mem = m])
  <2>1. CASE WakeRead(p) \/ WakeWrite(p)
    BY <2>1 DEF WakeRead, WakeWrite, InsidePCs
  <2>2. CASE SessionRead(p)
    BY <2>2 DEF SessionRead, InsidePCs, Jump
  <2>3. CASE SessionWrite(p)
    BY <2>3 DEF SessionWrite, InsidePCs
  <2>4. CASE DocsRead(p) \/ DocsWrite(p)
    BY <2>4 DEF DocsRead, DocsWrite, InsidePCs
  <2>5. CASE PutFile(p)
    BY <2>5 DEF PutFile, InsidePCs, Jump
  <2> QED BY <2>1, <2>2, <2>3, <2>4, <2>5
<1> QED
  BY <1>1, <1>2, <1>3, <1>4, GoesOn

\* A step on the front matter takes a command to the next one, to a lock or to its end.
LEMMA FrontGoes ==
  ASSUME TInv, NEW p \in Procs, FrontStep(p)
  PROVE  \E r : Goto(p, r) /\ r.pc \in {"lock", "fm_read", "fm_open", "fm_write", "idle"}
<1>1. Good(proc[p]) /\ proc[p] \in Proc
  BY Typed
<1>2. /\ \A status : ToBoard(proc[p], status).pc = "fm_read"
      /\ \A status : [ToLock(proc[p], "claims") EXCEPT !.seen = status].pc = "lock"
      /\ \A m : [proc[p] EXCEPT !.pc = "fm_open", !.mem = m].pc = "fm_open"
      /\ [proc[p] EXCEPT !.pc = "fm_write"].pc = "fm_write"
      /\ [ToBoard(proc[p], "keep") EXCEPT !.mem = None].pc = "fm_read"
      /\ Idle.pc = "idle"
  BY <1>1 DEF ToLock, ToBoard, Proc, Idle
<1>3. \E r : Goto(p, r) /\ r.pc \in {"lock", "fm_read", "fm_open", "fm_write", "idle"}
  <2>1. CASE Look(p)
    <3>1. \/ Goto(p, Idle) \/ Goto(p, ToBoard(proc[p], "done"))
          \/ Goto(p, [ToLock(proc[p], "claims") EXCEPT !.seen = Shown(board[proc[p].task])])
      BY <2>1 DEF Look, Return
    <3> QED BY <1>2, <3>1
  <2>2. CASE Check(p)
    BY <1>2, <2>2 DEF Check, Return
  <2>3. CASE FrontRead(p)
    <3>1. Goto(p, [proc[p] EXCEPT !.pc = "fm_open", !.mem = board[proc[p].task]])
      BY <2>3 DEF FrontRead
    <3> QED BY <1>2, <3>1
  <2>4. CASE FrontOpen(p)
    BY <1>2, <2>4 DEF FrontOpen, Jump
  <2>5. CASE FrontWrite(p)
    <3>1. CASE proc[p].cmd = "claim"
      <4>1. Goto(p, Claimed(proc[p]))
        BY <2>5, <3>1 DEF FrontWrite
      <4>2. Claimed(proc[p]).pc = "lock"
        BY <1>1, <2>5, <3>1, ClaimedGood DEF FrontWrite
      <4> QED BY <4>1, <4>2
    <3>2. CASE proc[p].cmd = "done" /\ proc[p].put = "done"
      BY <1>2, <2>5, <3>2 DEF FrontWrite
    <3>3. CASE proc[p].cmd # "claim" /\ ~(proc[p].cmd = "done" /\ proc[p].put = "done")
      BY <1>2, <2>5, <3>3 DEF FrontWrite
    <3> QED BY <3>1, <3>2, <3>3
  <2> QED BY <2>1, <2>2, <2>3, <2>4, <2>5 DEF FrontStep
<1> QED
  BY <1>3

LEMMA FrontHeld ==
  ASSUME HInv, NEW p \in Procs, FrontStep(p)
  PROVE  LInv' /\ CInv'
<1>1. TInv /\ LInv /\ CInv
  BY DEF HInv
<1>2. UNCHANGED <<locks, claims, holders>>
  BY DEF FrontStep, Look, Check, FrontRead, FrontOpen, FrontWrite, claimVars
<1> QED
  BY <1>1, <1>2, FrontGoes, Elsewhere DEF InsidePCs

LEMMA StepHeld == HInv /\ [Next]_vars => HInv'
<1> SUFFICES ASSUME HInv, [Next]_vars PROVE HInv'
  OBVIOUS
<1>1. TInv'
  BY StepTyped DEF HInv
<1>2. ASSUME NEW p \in Procs, Begin(p) \/ StoreStep(p) \/ FrontStep(p) \/ Kill(p) \/ Fail(p)
      PROVE  LInv' /\ CInv'
  BY <1>2, BeginHeld, FailHeld, LockingHeld, ClaimHeld, ReleaseHeld, OtherStoresHeld, FrontHeld DEF StoreStep
<1>3. CASE UNCHANGED vars
  <2>1. UNCHANGED <<proc, locks, claims, holders>> /\ LInv /\ CInv
    BY <1>3 DEF vars, claimVars, HInv
  <2>2. LInv'
    BY <2>1 DEF LInv, LockHeld, MutualExclusion, Inside, LockOf
  <2>3. CInv'
    BY <2>1 DEF CInv, StillSo, HoldersAgree
  <2> QED BY <1>1, <2>2, <2>3 DEF HInv
<1> QED
  BY <1>1, <1>2, <1>3 DEF Next, HInv

\* The lock directories do what they are for: two processes are never inside
\* the same store for the same task or scope, however many processes there are
\* and whichever of them are killed or time out.
THEOREM Exclusion == Spec => []MutualExclusion
<1>1. HInv => MutualExclusion
  BY DEF HInv, LInv
<1> QED
  BY InitTyped, InitHeld, StepHeld, <1>1, PTL DEF Spec, HInv

\* An agent that was told that a task is its own keeps it until it releases it:
\* the claim file names it, and so no other agent was told the same.
THEOREM HoldersRight == Spec => []HoldersAgree
<1>1. HInv => HoldersAgree
  BY DEF HInv, CInv
<1> QED
  BY InitTyped, InitHeld, StepHeld, <1>1, PTL DEF Spec, HInv
------------------------------------------------------------------------------
(* What the wake queue and the session store rewrite under their locks *)

\* What a process has read of them is still there when it writes.
WakeStillSo ==
  \A p \in Procs : proc[p].pc = "write" /\ proc[p].store = "wakes" =>
    proc[p].mem.count = wakes[Scope(p)]

\* No session yet, or the one that was read.
Fresh(old, mem) == IF old = None THEN mem.rotations = 0 /\ ~mem.resume ELSE mem = old

SessionStillSo ==
  \A p \in Procs : proc[p].pc = "write" /\ proc[p].store = "sessions" =>
    Fresh(sessions[Scope(p)], proc[p].mem)

\* The ids written for a scope are not more than the rotations of its session
\* and the first one.
Kept(session, ids) ==
  /\ IsFiniteSet(ids)
  /\ session = None => ids = {}
  /\ session # None => session.id \in ids /\ Cardinality(ids) <= session.rotations + 1

SessionsKept == \A s \in Scopes : Kept(sessions[s], issued[s])

\* A session that was reset is there, and has no resume handle.
ResetsKept == \A s \in forgotten : sessions[s] # None /\ ~sessions[s].resume

UInv == WakesCounted /\ WakeStillSo /\ SessionStillSo /\ SessionsKept /\ ResetsKept

\* A command goes outside the stores, or on in the store it is in.
LEMMA Outside ==
  ASSUME TInv, NEW p \in Procs,
         Begin(p) \/ Kill(p) \/ TimeOut(p) \/ Release(p) \/ FindClaim(p) \/ FrontStep(p)
  PROVE  \E r : Goto(p, r) /\ r.pc \notin InsidePCs
<1>1. Good(proc[p]) /\ proc[p] \in Proc /\ Idle.pc \notin InsidePCs
  BY Typed DEF Idle, InsidePCs
<1>2. CASE Begin(p)
  <2>1. PICK c \in Commands, a \in Agents, t \in Tasks : \E r \in Started(c, a, t) : Goto(p, r)
    BY <1>2 DEF Begin
  <2> QED BY <2>1, StartedGood DEF InsidePCs
<1>3. CASE Kill(p)
  BY <1>1, <1>3 DEF Kill, Return
<1>4. CASE TimeOut(p) \/ Release(p)
  <2>1. AfterStore(proc[p]).pc \notin InsidePCs
    BY <1>1, <1>4, AfterStoreGood DEF TimeOut, Release, InsidePCs
  <2> QED BY <1>1, <1>4, <2>1 DEF TimeOut, Release, Return
<1>5. CASE FindClaim(p)
  <2>1. ToLock(proc[p], "claims").pc \notin InsidePCs
    BY <1>1 DEF ToLock, Proc, InsidePCs
  <2> QED BY <1>1, <1>5, <2>1 DEF FindClaim, Return
<1>6. CASE FrontStep(p)
  BY <1>6, FrontGoes DEF InsidePCs
<1> QED
  BY <1>2, <1>3, <1>4, <1>5, <1>6

\* A command that goes on with what it has in hand.
Alike(r, o) ==
  /\ r.cmd = o.cmd /\ r.store = o.store /\ r.task = o.task /\ r.agent = o.agent
  /\ r.seen = o.seen /\ r.put = o.put

LEMMA Within ==
  ASSUME TInv, NEW p \in Procs,
         \/ ClaimRead(p) \/ ClaimWrite(p) \/ ReleaseRead(p) \/ ReleaseWrite(p)
         \/ WakeRead(p) \/ WakeWrite(p) \/ SessionRead(p) \/ SessionWrite(p)
         \/ DocsRead(p) \/ PutFile(p) \/ DocsWrite(p)
  PROVE  Inside(p) /\ \E r : Goto(p, r) /\ r.pc \in InsidePCs /\ Alike(r, proc[p])
<1>1. proc[p] \in Proc
  BY Typed
<1>2. Inside(p)
  BY DEF ClaimRead, ClaimWrite, ReleaseRead, ReleaseWrite, WakeRead, WakeWrite, SessionRead,
     SessionWrite, DocsRead, PutFile, DocsWrite, Inside
<1> DEFINE Same(r) == r.pc \in InsidePCs /\ Alike(r, proc[p])
<1>3. ASSUME NEW pc \in InsidePCs, NEW m
      PROVE  /\ Same([proc[p] EXCEPT !.pc = pc])
             /\ Same([proc[p] EXCEPT !.pc = pc, !.mem = m])
             /\ Same([proc[p] EXCEPT !.pc = pc, !.outcome = m])
  BY <1>1 DEF Proc, Alike
<1>4. PICK pc \in InsidePCs :
        \/ Goto(p, [proc[p] EXCEPT !.pc = pc])
        \/ \E m : Goto(p, [proc[p] EXCEPT !.pc = pc, !.mem = m])
        \/ \E m : Goto(p, [proc[p] EXCEPT !.pc = pc, !.outcome = m])
  <2>1. CASE ClaimRead(p)
    BY <2>1 DEF ClaimRead, InsidePCs, Jump
  <2>2. CASE ClaimWrite(p)
    BY <2>2 DEF ClaimWrite, InsidePCs
  <2>3. CASE ReleaseRead(p) \/ ReleaseWrite(p)
    BY <2>3 DEF ReleaseRead, ReleaseWrite, InsidePCs, Jump
  <2>4. CASE WakeRead(p) \/ WakeWrite(p)
    BY <2>4 DEF WakeRead, WakeWrite, InsidePCs
  <2>5. CASE SessionRead(p)
    BY <2>5 DEF SessionRead, InsidePCs, Jump
  <2>6. CASE SessionWrite(p)
    BY <2>6 DEF SessionWrite, InsidePCs
  <2>7. CASE DocsRead(p) \/ DocsWrite(p)
    BY <2>7 DEF DocsRead, DocsWrite, InsidePCs
  <2>8. CASE PutFile(p)
    BY <2>8 DEF PutFile, InsidePCs, Jump
  <2> QED BY <2>1, <2>2, <2>3, <2>4, <2>5, <2>6, <2>7, <2>8
<1> HIDE DEF Same
<1>5. PICK r : Goto(p, r) /\ Same(r)
  BY <1>3, <1>4
<1> QED
  BY <1>2, <1>5 DEF Same

\* The read and the write of another process in the same store and scope are
\* not in between.
LEMMA Excluded ==
  ASSUME HInv, NEW p \in Procs, NEW q \in Procs, p # q, Inside(p), Inside(q),
         proc[p].store = proc[q].store
  PROVE  /\ proc[p].store \in {"wakes", "sessions"} => Scope(q) # Scope(p)
         /\ proc[p].store \in {"claims", "docs"} => proc[q].task # proc[p].task
  BY DEF HInv, LInv, MutualExclusion, LockOf, Scope

LEMMA UpdatesStay ==
  ASSUME TInv, UInv, NEW p \in Procs, NEW r, Goto(p, r),
         UNCHANGED <<wakes, enqueued, sessions, issued, forgotten>>,
         r.pc = "write" => r.store \in {"claims", "docs"}
  PROVE  UInv'
<1>1. proc'[p] = r /\ \A q \in Procs : q # p => proc'[q] = proc[q] /\ Scope(q)' = Scope(q)
  BY DEF TInv, Goto, Scope
<1>2. WakesCounted' /\ SessionsKept' /\ ResetsKept'
  BY DEF UInv, WakesCounted, SessionsKept, ResetsKept
<1>3. WakeStillSo'
  BY <1>1 DEF UInv, WakeStillSo
<1>4. SessionStillSo'
  BY <1>1 DEF UInv, SessionStillSo
<1> QED
  BY <1>2, <1>3, <1>4 DEF UInv

LEMMA WakeKept ==
  ASSUME HInv, UInv, NEW p \in Procs, WakeRead(p) \/ WakeWrite(p)
  PROVE  UInv'
<1>1. /\ TInv /\ WakesTyped /\ proc[p] \in Proc /\ proc \in [Procs -> Proc]
      /\ Inside(p) /\ proc[p].store = "wakes" /\ Scope(p) \in Scopes
  BY Typed DEF HInv, TInv, StoresTyped, ControlTyped, Entered, WakeRead, WakeWrite, Inside, Scope, Scopes
<1>2. UNCHANGED <<sessions, issued, forgotten>>
  BY DEF WakeRead, WakeWrite, sessionVars
<1>3. SessionsKept' /\ ResetsKept'
  BY <1>2 DEF UInv, SessionsKept, ResetsKept
<1>4. PICK r : Goto(p, r) /\ r.store = "wakes" /\ r.pc \in {"write", "unlock"}
               /\ <<r.agent, r.task>> = Scope(p)
               /\ (r.pc = "write" => WakeRead(p) /\ r.mem = [count |-> wakes[Scope(p)]])
               /\ (r.pc = "unlock" => WakeWrite(p))
  <2>1. CASE WakeRead(p)
    <3> DEFINE r == [proc[p] EXCEPT !.pc = "write", !.mem = [count |-> wakes[Scope(p)]]]
    <3>1. r.store = "wakes" /\ r.pc = "write" /\ <<r.agent, r.task>> = Scope(p)
          /\ r.mem = [count |-> wakes[Scope(p)]]
      BY <1>1 DEF Proc, Scope
    <3>2. Goto(p, r)
      BY <2>1 DEF WakeRead
    <3> QED BY <2>1, <3>1, <3>2
  <2>2. CASE WakeWrite(p)
    <3> DEFINE r == [proc[p] EXCEPT !.pc = "unlock", !.mem = None]
    <3>1. r.store = "wakes" /\ r.pc = "unlock" /\ <<r.agent, r.task>> = Scope(p)
      BY <1>1 DEF Proc, Scope
    <3>2. Goto(p, r)
      BY <2>2 DEF WakeWrite
    <3> QED BY <2>2, <3>1, <3>2
  <2> QED BY <2>1, <2>2
<1>5. /\ proc'[p] = r /\ Scope(p)' = Scope(p)
      /\ \A q \in Procs : q # p => proc'[q] = proc[q] /\ Scope(q)' = Scope(q)
  BY <1>1, <1>4 DEF Goto, Scope
<1>6. SessionStillSo'
  BY <1>2, <1>4, <1>5 DEF UInv, SessionStillSo
<1>7. CASE WakeRead(p)
  <2>1. wakes' = wakes /\ enqueued' = enqueued
    BY <1>7 DEF WakeRead, wakeVars
  <2>2. WakeStillSo'
    <3>1. r.pc = "write" => r.mem.count = wakes[Scope(p)]
      BY <1>4
    <3> QED BY <1>5, <2>1, <3>1 DEF UInv, WakeStillSo
  <2> QED BY <1>3, <1>6, <2>1, <2>2 DEF UInv, WakesCounted
<1>8. CASE WakeWrite(p)
  <2>1. /\ wakes' = [wakes EXCEPT ![Scope(p)] = proc[p].mem.count + 1]
        /\ enqueued' = [enqueued EXCEPT ![Scope(p)] = @ + 1]
        /\ proc[p].mem.count = wakes[Scope(p)] /\ wakes = enqueued
        /\ proc'[p].pc = "unlock"
    <3>1. [proc[p] EXCEPT !.pc = "unlock", !.mem = None].pc = "unlock"
      BY <1>1 DEF Proc
    <3>2. proc'[p].pc = "unlock"
      BY <1>1, <1>8, <3>1 DEF WakeWrite, Goto
    <3> QED BY <1>8, <3>2 DEF WakeWrite, UInv, WakeStillSo, WakesCounted
  <2>2. WakesCounted'
    BY <2>1 DEF WakesCounted
  <2>3. ASSUME NEW q \in Procs, q # p, proc[q].pc = "write", proc[q].store = "wakes"
        PROVE  wakes'[Scope(q)] = wakes[Scope(q)]
    <3>1. Scope(q) # Scope(p) /\ Scope(q) \in Scopes
      BY <1>1, <2>3, Excluded, Typed DEF Inside, ControlTyped, Entered, Scope, Scopes
    <3> QED BY <1>1, <2>1, <3>1 DEF WakesTyped
  <2>4. WakeStillSo'
    BY <1>5, <2>1, <2>3 DEF UInv, WakeStillSo
  <2> QED BY <1>3, <1>6, <2>2, <2>4 DEF UInv
<1> QED
  BY <1>7, <1>8

LEMMA NewSessionIs ==
  ASSUME NEW r, r.mem \in Session, uuids \in Nat
  PROVE  /\ r.change = "rotate" => NewSession(r).rotations = r.mem.rotations + 1
         /\ r.change # "rotate" => /\ NewSession(r).id = r.mem.id
                                   /\ NewSession(r).rotations = r.mem.rotations
         /\ r.change \in {"reset", "rotate"} => ~NewSession(r).resume
         /\ r.change \notin {"reset", "rotate", "resume"} => NewSession(r).resume = r.mem.resume
<1>1. CASE r.change = "resume"
  BY <1>1 DEF NewSession, Session
<1>2. CASE r.change = "reset"
  BY <1>2 DEF NewSession, Session
<1>3. CASE r.change = "rotate"
  BY <1>3 DEF NewSession, Session
<1>4. CASE r.change \notin {"resume", "reset", "rotate"}
  BY <1>4 DEF NewSession
<1> QED
  BY <1>1, <1>2, <1>3, <1>4

\* What is written keeps the count of the ids.
LEMMA SessionWritten ==
  ASSUME NEW r, r.mem \in Session, uuids \in Nat, NEW old \in Session \cup {None},
         NEW ids \in SUBSET Nat, Kept(old, ids), Fresh(old, r.mem)
  PROVE  Kept(NewSession(r), ids \cup {NewSession(r).id})
<1> DEFINE new == NewSession(r)
           is == ids \cup {new.id}
<1>1. new \in Session /\ new # None /\ new.rotations \in Nat /\ r.mem.rotations \in Nat
  <2>1. new \in Session
    BY NewSessionTyped
  <2> HIDE DEF new
  <2> QED BY <2>1, NoneAssumption DEF Memory, Session
<1>2. /\ r.change = "rotate" => new.rotations = r.mem.rotations + 1
      /\ r.change # "rotate" => new.id = r.mem.id /\ new.rotations = r.mem.rotations
  BY NewSessionIs
<1> HIDE DEF new
<1>3. /\ IsFiniteSet(is) /\ Cardinality(is) \in Nat /\ Cardinality(ids) \in Nat
      /\ Cardinality(is) = IF new.id \in ids THEN Cardinality(ids) ELSE Cardinality(ids) + 1
  BY FS_AddElement, FS_CardinalityType DEF Kept
<1>4. Cardinality(is) <= new.rotations + 1
  <2>1. CASE old = None
    <3>1. Cardinality(ids) = 0 /\ new.id \notin ids
      BY <2>1, FS_EmptySet DEF Kept
    <3> QED BY <1>1, <1>3, <3>1
  <2>2. CASE old # None
    <3>1. r.mem = old /\ old.id \in ids /\ Cardinality(ids) <= old.rotations + 1
      BY <2>2 DEF Kept, Fresh
    <3>2. CASE r.change = "rotate"
      BY <1>1, <1>2, <1>3, <3>1, <3>2
    <3>3. CASE r.change # "rotate"
      BY <1>1, <1>2, <1>3, <3>1, <3>3
    <3> QED BY <3>2, <3>3
  <2> QED BY <2>1, <2>2
<1>5. Kept(new, is)
  BY <1>1, <1>3, <1>4 DEF Kept
<1> QED
  BY <1>5 DEF new

LEMMA SessionKept ==
  ASSUME HInv, UInv, NEW p \in Procs, SessionRead(p) \/ SessionWrite(p)
  PROVE  UInv'
<1> DEFINE s == Scope(p)
<1>1. /\ TInv /\ SessionsTyped /\ proc[p] \in Proc /\ proc \in [Procs -> Proc] /\ MemoryTyped(proc[p])
      /\ Inside(p) /\ proc[p].store = "sessions" /\ s \in Scopes
  BY Typed DEF HInv, TInv, StoresTyped, ControlTyped, Entered, SessionRead, SessionWrite, Inside, Scope, Scopes
<1>2. wakes' = wakes /\ enqueued' = enqueued
  BY DEF SessionRead, SessionWrite, wakeVars
<1>3. WakesCounted'
  BY <1>2 DEF UInv, WakesCounted
<1>4. CASE SessionRead(p)
  <2>1. UNCHANGED <<sessions, issued, forgotten>>
    BY <1>4 DEF SessionRead
  <2>2. PICK r : /\ Goto(p, r) /\ r.store = "sessions" /\ <<r.agent, r.task>> = s
                 /\ r.pc = "write" => Fresh(sessions[s], r.mem)
    <3>1. CASE sessions[s] # None /\ proc[p].cmd = "claim"
      <4> DEFINE r == [proc[p] EXCEPT !.pc = "unlock"]
      <4>1. Goto(p, r)
        BY <1>4, <3>1 DEF SessionRead, Jump
      <4>2. r.store = "sessions" /\ <<r.agent, r.task>> = s /\ r.pc = "unlock"
        BY <1>1 DEF Proc, Scope
      <4> QED BY <4>1, <4>2
    <3>2. CASE sessions[s] # None /\ proc[p].cmd # "claim"
      <4> DEFINE r == [proc[p] EXCEPT !.pc = "write", !.mem = sessions[s]]
      <4>1. Goto(p, r)
        BY <1>4, <3>2 DEF SessionRead
      <4>2. r.store = "sessions" /\ <<r.agent, r.task>> = s /\ r.mem = sessions[s]
        BY <1>1 DEF Proc, Scope
      <4> QED BY <3>2, <4>1, <4>2 DEF Fresh
    <3>3. CASE sessions[s] = None
      <4> DEFINE m == [id |-> uuids + 1, rotations |-> 0, resume |-> FALSE]
                 r == [proc[p] EXCEPT !.pc = "write", !.mem = m]
      <4>1. Goto(p, r)
        BY <1>4, <3>3 DEF SessionRead
      <4>2. r.store = "sessions" /\ <<r.agent, r.task>> = s /\ r.mem = m
        BY <1>1 DEF Proc, Scope
      <4>3. m.rotations = 0 /\ m.resume = FALSE
        OBVIOUS
      <4> QED BY <3>3, <4>1, <4>2, <4>3 DEF Fresh
    <3> QED BY <3>1, <3>2, <3>3
  <2>3. /\ proc'[p] = r /\ Scope(p)' = s
        /\ \A q \in Procs : q # p => proc'[q] = proc[q] /\ Scope(q)' = Scope(q)
    BY <1>1, <2>2 DEF Goto, Scope
  <2>4. WakeStillSo'
    BY <1>2, <2>2, <2>3 DEF UInv, WakeStillSo
  <2>5. SessionStillSo'
    BY <2>1, <2>2, <2>3 DEF UInv, SessionStillSo
  <2>6. SessionsKept' /\ ResetsKept'
    BY <2>1 DEF UInv, SessionsKept, ResetsKept
  <2> QED BY <1>3, <2>4, <2>5, <2>6 DEF UInv
<1>5. CASE SessionWrite(p)
  <2> DEFINE new == NewSession(proc[p])
  <2>0. proc[p].mem \in Session /\ uuids \in Nat
    BY <1>1, <1>5 DEF SessionWrite, MemoryTyped, SessionsTyped
  <2>1. new \in Session /\ new # None /\ Kept(new, issued[s] \cup {new.id})
    <3>1. sessions[s] \in Session \cup {None} /\ issued[s] \in SUBSET Nat
      BY <1>1 DEF SessionsTyped
    <3>2. Kept(sessions[s], issued[s]) /\ Fresh(sessions[s], proc[p].mem)
      BY <1>1, <1>5 DEF UInv, SessionsKept, SessionStillSo, SessionWrite
    <3>3. Kept(new, issued[s] \cup {new.id})
      BY <2>0, <3>1, <3>2, SessionWritten
    <3>4. new \in Session
      BY <2>0, NewSessionTyped
    <3> HIDE DEF new
    <3> QED BY <3>3, <3>4, NoneAssumption DEF Memory
  <2>2. /\ sessions' = [sessions EXCEPT ![s] = new]
        /\ issued' = [issued EXCEPT ![s] = @ \cup {new.id}]
        /\ forgotten' = IF proc[p].change \in {"reset", "rotate"} THEN forgotten \cup {s}
                        ELSE IF proc[p].change = "resume" THEN forgotten \ {s}
                        ELSE forgotten
    BY <1>5 DEF SessionWrite
  <2>8. s \in forgotten' => ~new.resume
    <3>1. CASE proc[p].change \in {"reset", "rotate"}
      BY <2>0, <3>1, NewSessionIs
    <3>2. CASE proc[p].change = "resume"
      BY <2>2, <3>2
    <3>3. CASE proc[p].change \notin {"reset", "rotate", "resume"}
      <4>1. new.resume = proc[p].mem.resume
        BY <2>0, <3>3, NewSessionIs
      <4>2. s \in forgotten => ~proc[p].mem.resume
        BY <1>1, <1>5 DEF UInv, ResetsKept, SessionStillSo, SessionWrite, Fresh
      <4> QED BY <2>2, <3>3, <4>1, <4>2
    <3> QED BY <3>1, <3>2, <3>3
  <2> HIDE DEF new
  <2>9. ResetsKept'
    <3> SUFFICES ASSUME NEW u \in forgotten' PROVE sessions'[u] # None /\ ~sessions'[u].resume
      BY DEF ResetsKept
    <3>1. CASE u = s
      BY <1>1, <2>1, <2>2, <2>8, <3>1 DEF SessionsTyped
    <3>2. CASE u # s
      <4>1. u \in forgotten /\ u \in Scopes
        BY <1>1, <2>2, <3>2 DEF SessionsTyped
      <4> QED BY <1>1, <2>2, <3>2, <4>1 DEF SessionsTyped, UInv, ResetsKept
    <3> QED BY <3>1, <3>2
  <2>3. PICK r : Goto(p, r) /\ r.pc = "unlock"
    <3>1. [proc[p] EXCEPT !.pc = "unlock", !.mem = None].pc = "unlock"
      BY <1>1 DEF Proc
    <3> QED BY <1>5, <3>1 DEF SessionWrite
  <2>4. proc'[p] = r /\ \A q \in Procs : q # p => proc'[q] = proc[q] /\ Scope(q)' = Scope(q)
    BY <1>1, <2>3 DEF Goto, Scope
  <2>5. WakeStillSo'
    BY <1>2, <2>3, <2>4 DEF UInv, WakeStillSo
  <2>6. SessionStillSo'
    <3> SUFFICES ASSUME NEW q \in Procs, q # p, proc[q].pc = "write", proc[q].store = "sessions"
                 PROVE  sessions'[Scope(q)] = sessions[Scope(q)]
      BY <2>3, <2>4 DEF UInv, SessionStillSo
    <3>1. Scope(q) # s /\ Scope(q) \in Scopes
      BY <1>1, Excluded, Typed DEF Inside, ControlTyped, Entered, Scope, Scopes
    <3> QED BY <1>1, <2>2, <3>1 DEF SessionsTyped
  <2>7. SessionsKept'
    <3> SUFFICES ASSUME NEW u \in Scopes PROVE Kept(sessions'[u], issued'[u])
      BY DEF SessionsKept
    <3>1. CASE u = s
      <4>1. sessions'[s] = new /\ issued'[s] = issued[s] \cup {new.id}
        BY <1>1, <2>2 DEF SessionsTyped
      <4> QED BY <2>1, <3>1, <4>1
    <3>2. CASE u # s
      <4>1. sessions'[u] = sessions[u] /\ issued'[u] = issued[u]
        BY <1>1, <2>2, <3>2 DEF SessionsTyped
      <4> QED BY <4>1 DEF UInv, SessionsKept
    <3> QED BY <3>1, <3>2
  <2> QED BY <1>3, <2>5, <2>6, <2>7, <2>9 DEF UInv
<1> QED
  BY <1>4, <1>5

LEMMA StepKept == HInv /\ UInv /\ [Next]_vars => UInv'
<1> SUFFICES ASSUME HInv, UInv, [Next]_vars PROVE UInv'
  OBVIOUS
<1>0. TInv
  BY DEF HInv
<1>1. ASSUME NEW p \in Procs, WakeRead(p) \/ WakeWrite(p) \/ SessionRead(p) \/ SessionWrite(p)
      PROVE  UInv'
  BY <1>1, WakeKept, SessionKept
<1>2. ASSUME NEW p \in Procs,
             Begin(p) \/ Kill(p) \/ TimeOut(p) \/ Release(p) \/ FindClaim(p) \/ FrontStep(p)
      PROVE  UInv'
  <2>1. PICK r : Goto(p, r) /\ r.pc \notin InsidePCs
    BY <1>0, <1>2, Outside
  <2>2. UNCHANGED <<wakes, enqueued, sessions, issued, forgotten>>
    BY <1>2 DEF Begin, Kill, TimeOut, Release, FindClaim, FrontStep, Look, Check, FrontRead,
       FrontOpen, FrontWrite, wakeVars, sessionVars
  <2> QED BY <1>0, <2>1, <2>2, UpdatesStay DEF InsidePCs
<1>3. ASSUME NEW p \in Procs,
             \/ ClaimRead(p) \/ ClaimWrite(p) \/ ReleaseRead(p) \/ ReleaseWrite(p)
             \/ DocsRead(p) \/ PutFile(p) \/ DocsWrite(p)
      PROVE  UInv'
  <2>1. PICK r : Goto(p, r) /\ r.store = proc[p].store
    BY <1>0, <1>3, Within DEF Alike
  <2>2. proc[p].store \in {"claims", "docs"}
    BY <1>0, <1>3, Typed DEF ClaimRead, ClaimWrite, ReleaseRead, ReleaseWrite, DocsRead, PutFile,
       DocsWrite, ControlTyped
  <2>3. UNCHANGED <<wakes, enqueued, sessions, issued, forgotten>>
    BY <1>3 DEF ClaimRead, ClaimWrite, ReleaseRead, ReleaseWrite, DocsRead, PutFile, DocsWrite,
       wakeVars, sessionVars
  <2> QED BY <1>0, <2>1, <2>2, <2>3, UpdatesStay
<1>4. ASSUME NEW p \in Procs, Acquire(p)
      PROVE  UInv'
  <2>1. UNCHANGED <<wakes, enqueued, sessions, issued, forgotten>>
    BY <1>4 DEF Acquire, wakeVars, sessionVars
  <2>2. PICK r : Goto(p, r) /\ r.pc = "read"
    <3>1. [proc[p] EXCEPT !.pc = "read"].pc = "read"
      BY <1>0, Typed DEF Proc
    <3> QED BY <1>4, <3>1 DEF Acquire, Jump
  <2> QED BY <1>0, <2>1, <2>2, UpdatesStay
<1>6. ASSUME NEW p \in Procs, Fail(p)
      PROVE  UInv'
  <2>1. UNCHANGED <<wakes, enqueued, sessions, issued, forgotten>>
    BY <1>6 DEF Fail, wakeVars, sessionVars
  <2>2. PICK r : Goto(p, r) /\ r.pc = "unlock"
    <3>1. [proc[p] EXCEPT !.pc = "unlock", !.outcome = "refused"].pc = "unlock"
      BY <1>0, Typed DEF Proc
    <3> QED BY <1>6, <3>1 DEF Fail
  <2> QED BY <1>0, <2>1, <2>2, UpdatesStay
<1>5. CASE UNCHANGED vars
  <2>1. UNCHANGED <<wakes, enqueued, sessions, issued, forgotten, proc>>
    BY <1>5 DEF vars, wakeVars, sessionVars
  <2>2. WakesCounted' /\ SessionsKept' /\ ResetsKept'
    BY <2>1 DEF UInv, WakesCounted, SessionsKept, ResetsKept
  <2>3. WakeStillSo' /\ SessionStillSo'
    BY <2>1 DEF UInv, WakeStillSo, SessionStillSo, Scope
  <2> QED BY <2>2, <2>3 DEF UInv
<1> QED
  BY <1>1, <1>2, <1>3, <1>4, <1>5, <1>6 DEF Next, StoreStep

LEMMA InitKept == Init => UInv
<1> SUFFICES ASSUME Init PROVE UInv
  OBVIOUS
<1>1. \A p \in Procs : proc[p].pc = "idle"
  BY DEF Init, Idle
<1>2. WakesCounted /\ WakeStillSo /\ SessionStillSo
  BY <1>1 DEF Init, WakesCounted, WakeStillSo, SessionStillSo
<1>3. SessionsKept /\ ResetsKept
  BY FS_EmptySet DEF Init, SessionsKept, Kept, ResetsKept
<1> QED
  BY <1>2, <1>3 DEF UInv

\* No wake that a command coalesces into the file of another is lost, a session
\* gets another id by rotation only, and one that was reset stays without a
\* resume handle: however many commands share a scope, and whichever of them
\* are killed between the read and the write or give up waiting for the lock.
THEOREM NoUpdateLost == Spec => []UpdatesKept
<1>1. HInv /\ UInv => UpdatesKept
  <2> SUFFICES ASSUME HInv, UInv PROVE UpdatesKept
    OBVIOUS
  <2>1. WakesCounted
    BY DEF UInv
  <2>2. SessionNotForked
    BY DEF UInv, SessionsKept, Kept, SessionNotForked
  <2>3. ResetForgets
    BY DEF UInv, ResetsKept, ResetForgets
  <2> QED BY <2>1, <2>2, <2>3 DEF UpdatesKept
<1> QED
  BY InitTyped, InitHeld, InitKept, StepHeld, StepKept, <1>1, PTL DEF Spec, HInv

------------------------------------------------------------------------------
(* Documents and their manifest *)

\* What a process has read of a manifest is still there when it writes it.
PuttersKnow ==
  \A p \in Procs : proc[p].pc \in {"put", "write"} /\ proc[p].store = "docs" =>
    proc[p].mem.of = manifests[proc[p].task]

DInv == DocsDescribed /\ PuttersKnow

\* A step that puts and describes no document, and cuts none off unnoticed.
LEMMA DocsStay ==
  ASSUME TInv, DInv, NEW p \in Procs, NEW r, Goto(p, r), UNCHANGED <<docs, manifests>>,
         undescribed \cup Cut(p) \subseteq undescribed',
         r.pc \in {"put", "write"} => r.store # "docs"
  PROVE  DInv'
<1>1. proc'[p] = r /\ \A q \in Procs : q # p => proc'[q] = proc[q]
  BY DEF TInv, Goto
<1>2. \A q \in Procs : q # p => Cut(q)' = Cut(q)
  BY <1>1 DEF Cut
<1>3. DocsDescribed'
  BY <1>2 DEF DInv, DocsDescribed
<1>4. PuttersKnow'
  BY <1>1 DEF DInv, PuttersKnow
<1> QED
  BY <1>3, <1>4 DEF DInv

\* A step inside the documents of a task touches those of no other task, nor
\* what another process knows.
LEMMA PutKept ==
  ASSUME HInv, DInv, NEW p \in Procs, NEW r, Goto(p, r), Inside(p), proc[p].store = "docs",
         r.pc \in {"put", "write"} => r.mem.of = manifests'[r.task],
         \A u \in Tasks \ {proc[p].task} : manifests'[u] = manifests[u]
  PROVE  PuttersKnow'
<1>1. TInv /\ proc \in [Procs -> Proc]
  BY DEF HInv, TInv
<1>2. proc'[p] = r /\ \A q \in Procs : q # p => proc'[q] = proc[q]
  BY <1>1 DEF Goto
<1> SUFFICES ASSUME NEW q \in Procs, proc'[q].pc \in {"put", "write"}, proc'[q].store = "docs"
             PROVE  proc'[q].mem.of = manifests'[proc'[q].task]
  BY DEF PuttersKnow
<1>3. CASE q = p
  BY <1>2, <1>3
<1>4. CASE q # p
  <2>1. proc'[q] = proc[q] /\ Inside(q) /\ proc[q].store = "docs" /\ proc[q].task \in Tasks
    BY <1>1, <1>2, <1>4, Typed DEF Inside, ControlTyped
  <2>2. proc[q].task # proc[p].task
    BY <1>4, <2>1, Excluded
  <2> QED BY <2>1, <2>2 DEF DInv, PuttersKnow
<1> QED
  BY <1>3, <1>4

LEMMA DocKept ==
  ASSUME HInv, DInv, NEW p \in Procs, DocsRead(p) \/ PutFile(p) \/ DocsWrite(p)
  PROVE  DInv'
<1> DEFINE t == proc[p].task
           x == proc[p].path
<1>1. /\ TInv /\ DocsTyped /\ proc[p] \in Proc /\ MemoryTyped(proc[p]) /\ proc \in [Procs -> Proc]
      /\ t \in Tasks /\ x \in Paths /\ Inside(p) /\ proc[p].store = "docs"
  BY Typed DEF HInv, TInv, StoresTyped, ControlTyped, Entered, DocsRead, PutFile, DocsWrite, Inside
<1>2. proc[p].pc \in {"put", "write"} => proc[p].mem.of = manifests[t]
  BY <1>1 DEF DInv, PuttersKnow
<1>3. CASE DocsRead(p)
  <2> DEFINE m == [of |-> manifests[t]]
             r == [proc[p] EXCEPT !.pc = "put", !.mem = m]
  <2>1. Goto(p, r) /\ UNCHANGED <<docs, manifests, undescribed>> /\ proc[p].pc = "read"
    BY <1>3 DEF DocsRead, docVars
  <2>2. r.pc = "put" /\ r.task = t /\ r.mem = m
    BY <1>1 DEF Proc
  <2>3. m.of = manifests[t]
    OBVIOUS
  <2> HIDE DEF r, m
  <2>4. PICK s : s = r
    OBVIOUS
  <2>5. PuttersKnow'
    BY <1>1, <2>1, <2>2, <2>3, <2>4, PutKept
  <2>6. \A q \in Procs : Cut(q) \subseteq Cut(q)'
    BY <1>1, <2>1, <2>2 DEF Goto, Cut
  <2>7. DocsDescribed'
    BY <2>1, <2>6 DEF DInv, DocsDescribed
  <2> QED BY <2>5, <2>7 DEF DInv
<1>4. CASE PutFile(p)
  <2>0. manifests' = manifests /\ undescribed' = undescribed /\ proc[p].pc = "put"
    BY <1>4 DEF PutFile
  <2>1. CASE docs' = docs /\ Goto(p, [proc[p] EXCEPT !.pc = "unlock", !.mem = None])
    <3> DEFINE r == [proc[p] EXCEPT !.pc = "unlock", !.mem = None]
    <3>1. r.pc = "unlock"
      BY <1>1 DEF Proc
    <3>2. Goto(p, r)
      BY <2>1
    <3> HIDE DEF r
    <3>3. Cut(p) = {}
      BY <2>0 DEF Cut
    <3>4. PICK s : s = r
      OBVIOUS
    <3> QED BY <1>1, <2>0, <2>1, <3>1, <3>2, <3>3, <3>4, DocsStay
  <2>2. CASE docs' = [docs EXCEPT ![t][x] = @ + 1] /\ Jump(p, "write")
    <3> DEFINE r == [proc[p] EXCEPT !.pc = "write"]
    <3>1. r.pc = "write" /\ r.task = t /\ r.path = x /\ r.mem = proc[p].mem /\ r.store = "docs"
      BY <1>1 DEF Proc
    <3>2. Goto(p, r)
      BY <2>2 DEF Jump
    <3> HIDE DEF r
    <3>3. PICK s : s = r
      OBVIOUS
    <3>4. PuttersKnow'
      BY <1>1, <1>2, <2>0, <3>1, <3>2, <3>3, PutKept
    <3>5. \A u \in Tasks, y \in Paths : <<u, y>> # <<t, x>> => docs'[u][y] = docs[u][y]
      BY <1>1, <2>2 DEF DocsTyped, Versions
    <3>6. /\ \A q \in Procs : Cut(q) \subseteq Cut(q)'
          /\ <<t, x>> \in Cut(p)'
      BY <1>1, <2>0, <3>1, <3>2 DEF Goto, Cut
    <3>7. DocsDescribed'
      BY <2>0, <3>5, <3>6 DEF DInv, DocsDescribed
    <3> QED BY <3>4, <3>7 DEF DInv
  <2> QED BY <1>4, <2>1, <2>2 DEF PutFile
<1>5. CASE DocsWrite(p)
  <2> DEFINE r == [proc[p] EXCEPT !.pc = "unlock", !.mem = None]
             m == [proc[p].mem.of EXCEPT ![x] = docs[t][x]]
  <2>1. /\ Goto(p, r) /\ docs' = docs /\ manifests' = [manifests EXCEPT ![t] = m]
        /\ undescribed' = undescribed \ {<<t, x>>} /\ proc[p].pc = "write"
    BY <1>5 DEF DocsWrite
  <2>2. r.pc = "unlock"
    BY <1>1 DEF Proc
  <2>3. m[x] = docs[t][x] /\ \A y \in Paths \ {x} : m[y] = manifests[t][y]
    BY <1>1, <1>2, <2>1 DEF DocsTyped, Versions
  <2> HIDE DEF r, m
  <2>4. PICK s : s = r
    OBVIOUS
  <2>5. manifests'[t] = m /\ \A u \in Tasks \ {t} : manifests'[u] = manifests[u]
    BY <1>1, <2>1 DEF DocsTyped
  <2>6. PuttersKnow'
    BY <1>1, <2>1, <2>2, <2>4, <2>5, PutKept
  <2>7. \A u \in Tasks, y \in Paths : <<u, y>> # <<t, x>> => manifests'[u][y] = manifests[u][y]
    BY <2>3, <2>5
  <2>8. \A q \in Procs, d \in Tasks \X Paths : d # <<t, x>> /\ d \in Cut(q) => d \in Cut(q)'
    BY <1>1, <2>1 DEF Goto, Cut
  <2>9. DocsDescribed'
    <3> SUFFICES ASSUME NEW u \in Tasks, NEW y \in Paths
                 PROVE  \/ manifests'[u][y] = docs'[u][y]
                        \/ <<u, y>> \in undescribed'
                        \/ \E q \in Procs : <<u, y>> \in Cut(q)'
      BY DEF DocsDescribed
    <3>1. CASE <<u, y>> = <<t, x>>
      BY <2>1, <2>3, <2>5, <3>1
    <3>2. CASE <<u, y>> # <<t, x>>
      <4>1. \/ manifests[u][y] = docs[u][y]
            \/ <<u, y>> \in undescribed
            \/ \E q \in Procs : <<u, y>> \in Cut(q)
        BY DEF DInv, DocsDescribed
      <4> QED BY <2>1, <2>7, <2>8, <3>2, <4>1
    <3> QED BY <3>1, <3>2
  <2> QED BY <2>6, <2>9 DEF DInv
<1> QED
  BY <1>3, <1>4, <1>5

LEMMA StepDescribed == HInv /\ DInv /\ [Next]_vars => DInv'
<1> SUFFICES ASSUME HInv, DInv, [Next]_vars PROVE DInv'
  OBVIOUS
<1>0. TInv
  BY DEF HInv
<1>1. ASSUME NEW p \in Procs, DocsRead(p) \/ PutFile(p) \/ DocsWrite(p)
      PROVE  DInv'
  BY <1>1, DocKept
<1>2. ASSUME NEW p \in Procs, Kill(p) \/ Fail(p)
      PROVE  DInv'
  <2>1. PICK r : Goto(p, r) /\ r.pc \notin {"put", "write"}
    <3>1. /\ Idle.pc = "idle"
          /\ [proc[p] EXCEPT !.pc = "unlock", !.outcome = "refused"].pc = "unlock"
      BY <1>0, Typed DEF Idle, Proc
    <3> QED BY <1>2, <3>1 DEF Kill, Fail, Return
  <2>2. UNCHANGED <<docs, manifests>> /\ undescribed \cup Cut(p) \subseteq undescribed'
    BY <1>2 DEF Kill, Fail
  <2> QED BY <1>0, <2>1, <2>2, DocsStay
<1>3. ASSUME NEW p \in Procs,
             Begin(p) \/ TimeOut(p) \/ Release(p) \/ FindClaim(p) \/ FrontStep(p)
      PROVE  DInv'
  <2>1. PICK r : Goto(p, r) /\ r.pc \notin InsidePCs
    BY <1>0, <1>3, Outside
  <2>2. UNCHANGED <<docs, manifests, undescribed>>
    BY <1>3 DEF Begin, TimeOut, Release, FindClaim, FrontStep, Look, Check, FrontRead, FrontOpen,
       FrontWrite, docVars
  <2>3. Cut(p) = {}
    BY <1>3 DEF Begin, TimeOut, Release, FindClaim, FrontStep, Look, Check, FrontRead, FrontOpen,
       FrontWrite, Cut
  <2> QED BY <1>0, <2>1, <2>2, <2>3, DocsStay DEF InsidePCs
<1>4. ASSUME NEW p \in Procs,
             \/ ClaimRead(p) \/ ClaimWrite(p) \/ ReleaseRead(p) \/ ReleaseWrite(p)
             \/ WakeRead(p) \/ WakeWrite(p) \/ SessionRead(p) \/ SessionWrite(p)
      PROVE  DInv'
  <2>1. PICK r : Goto(p, r) /\ r.store = proc[p].store
    BY <1>0, <1>4, Within DEF Alike
  <2>2. proc[p].store # "docs"
    BY <1>4 DEF ClaimRead, ClaimWrite, ReleaseRead, ReleaseWrite, WakeRead, WakeWrite, SessionRead,
       SessionWrite
  <2>3. UNCHANGED <<docs, manifests, undescribed>> /\ Cut(p) = {}
    BY <1>4, <2>2 DEF ClaimRead, ClaimWrite, ReleaseRead, ReleaseWrite, WakeRead, WakeWrite,
       SessionRead, SessionWrite, docVars, Cut
  <2> QED BY <1>0, <2>1, <2>2, <2>3, DocsStay
<1>5. ASSUME NEW p \in Procs, Acquire(p)
      PROVE  DInv'
  <2>1. PICK r : Goto(p, r) /\ r.pc = "read"
    <3>1. [proc[p] EXCEPT !.pc = "read"].pc = "read"
      BY <1>0, Typed DEF Proc
    <3> QED BY <1>5, <3>1 DEF Acquire, Jump
  <2>2. UNCHANGED <<docs, manifests, undescribed>> /\ Cut(p) = {}
    BY <1>5 DEF Acquire, docVars, Cut
  <2> QED BY <1>0, <2>1, <2>2, DocsStay
<1>6. CASE UNCHANGED vars
  <2>1. UNCHANGED <<docs, manifests, undescribed, proc>>
    BY <1>6 DEF vars, docVars
  <2> QED BY <2>1 DEF DInv, DocsDescribed, PuttersKnow, Cut
<1> QED
  BY <1>1, <1>2, <1>3, <1>4, <1>5, <1>6 DEF Next, StoreStep

LEMMA InitDescribed == Init => DInv
<1> SUFFICES ASSUME Init PROVE DInv
  OBVIOUS
<1>1. \A p \in Procs : proc[p].pc = "idle"
  BY DEF Init, Idle
<1> QED
  BY <1>1 DEF Init, DInv, DocsDescribed, PuttersKnow

\* The manifest of a task describes its documents, but for those that a process has
\* put and is about to describe or was cut off before it described, killed or by an
\* exception: put_document describes what it puts, undoes no other's description and
\* puts nothing it refuses, whatever else is put meanwhile.
THEOREM ManifestRight == Spec => []DocsDescribed
<1>1. DInv => DocsDescribed
  BY DEF DInv
<1> QED
  BY InitTyped, InitHeld, InitDescribed, StepHeld, StepDescribed, <1>1, PTL DEF Spec, HInv

------------------------------------------------------------------------------
(* A task that is dealt with by one command at a time *)

FrontPCs == {"fm_read", "fm_open", "fm_write"}

\* Which command rewrites the front matter, and how.
Orderly(r) ==
  /\ r.pc = "idle" => r.task = None
  /\ r.pc \in FrontPCs => \/ r.cmd = "claim" /\ r.put = "in_progress"
                          \/ r.cmd = "release"
                          \/ r.cmd = "done" /\ r.put \in {"done", "keep"}

\* A wake is due that the command has still to write.
Owed(r) ==
  \/ r.store = "wakes" /\ r.pc \in {"lock", "read", "write"}
  \/ /\ r.cmd = "claim" /\ r.outcome = "ok"
     /\ r.pc \in FrontPCs \/ (r.pc = "unlock" /\ r.store = "claims")

\* The command has changed the claim, or found it its own, and the front matter
\* is to follow.
Following(r) ==
  /\ r.cmd \in {"claim", "release"}
  /\ \/ r.pc \in FrontPCs \cup {"check"}
     \/ r.pc = "unlock" /\ r.store = "claims" /\ r.outcome # "refused"

\* The status of the task is the one its claim calls for, or it has been done.
Agrees(t, status) ==
  claims[t] # None =>
    status \in {"done", IF claims[t].status = "claimed" THEN "in_progress" ELSE claims[t].status}

\* The front matter; a command that has truncated it has it in memory.
FrontNow(t, r) == IF r.pc = "fm_write" THEN r.mem ELSE board[t]

\* A task that no command deals with ...
Settled(t) ==
  /\ \A l \in locks : l.task # t
  /\ \A a \in Agents : due[<<a, t>>] = wakes[<<a, t>>]
  /\ board[t].whole /\ Agrees(t, board[t].status)

\* ... and one that a command is dealing with.
FrontKept(t, r) ==
  /\ FrontNow(t, r).whole
  /\ Following(r) \/ Agrees(t, FrontNow(t, r).status)
  /\ Following(r) => claims[t].status = (IF r.cmd = "claim" THEN "claimed" ELSE r.put)
  /\ r.pc = "fm_open" => r.mem = board[t]
  /\ r.cmd = "claim" /\ r.store = "claims" /\ r.pc \in InsidePCs \cup {"lock"} => r.seen = Shown(board[t])

WakesOwed(t, r) ==
  \A a \in Agents : due[<<a, t>>] = wakes[<<a, t>>] + (IF Owed(r) /\ a = r.agent THEN 1 ELSE 0)

OwnLock(t, r) == \A l \in locks : l.task = t => r.pc \in InsidePCs /\ l = LockOf(r)

AtWork(t, r) == OwnLock(t, r) /\ WakesOwed(t, r) /\ FrontKept(t, r)

Only(p, t) == proc[p].task = t /\ \A q \in Procs \ {p} : proc[q].task # t

Undisturbed(t) ==
  \/ Quiet(t) /\ Settled(t)
  \/ \E p \in Procs : Only(p, t) /\ AtWork(t, proc[p])

BInv == (\A p \in Procs : Orderly(proc[p])) /\ \A t \in Tasks \ disturbed : Undisturbed(t)

\* Nothing of a task is touched.
Untouched(t) ==
  /\ claims'[t] = claims[t] /\ board'[t] = board[t]
  /\ \A a \in Agents : due'[<<a, t>>] = due[<<a, t>>] /\ wakes'[<<a, t>>] = wakes[<<a, t>>]

\* A step of a command that deals with another task.
LEMMA Apart ==
  ASSUME TInv, NEW p \in Procs, NEW r, Goto(p, r), NEW t \in Tasks, NEW u \in Tasks, u # t,
         proc[p].task \in {t, None}, r.task \in {t, None}, Untouched(u),
         \A l \in locks' : l \in locks \/ l.task = t, Undisturbed(u)
  PROVE  Undisturbed(u)'
<1>1. proc \in [Procs -> Proc] /\ proc[p].task # u /\ r.task # u
  BY BoardAssumption DEF TInv
<1>2. proc'[p] = r /\ \A q \in Procs : q # p => proc'[q] = proc[q]
  BY <1>1 DEF Goto
<1>3. CASE Quiet(u) /\ Settled(u)
  <2>1. Quiet(u)'
    BY <1>1, <1>2, <1>3 DEF Quiet
  <2>2. Settled(u)'
    BY <1>3 DEF Settled, Untouched, Agrees
  <2> QED BY <2>1, <2>2 DEF Undisturbed
<1>4. CASE \E q \in Procs : Only(q, u) /\ AtWork(u, proc[q])
  <2>1. PICK q \in Procs : Only(q, u) /\ AtWork(u, proc[q])
    BY <1>4
  <2>2. q # p /\ proc'[q] = proc[q]
    BY <1>1, <1>2, <2>1 DEF Only
  <2>3. Only(q, u)'
    BY <1>1, <1>2, <2>1, <2>2 DEF Only
  <2>4. OwnLock(u, proc[q])'
    BY <2>1, <2>2 DEF AtWork, OwnLock, LockOf
  <2>5. WakesOwed(u, proc[q])'
    BY <2>1, <2>2 DEF AtWork, WakesOwed, Untouched, Owed
  <2>6. FrontKept(u, proc[q])'
    BY <2>1, <2>2 DEF AtWork, FrontKept, FrontNow, Following, Agrees, Shown, Untouched
  <2> QED BY <2>3, <2>4, <2>5, <2>6 DEF Undisturbed, AtWork
<1> QED
  BY <1>3, <1>4 DEF Undisturbed

\* What a step of a command on task t has to show.
LEMMA WorkGoesOn ==
  ASSUME TInv, BInv, NEW p \in Procs, NEW r, Goto(p, r), Orderly(r), NEW t \in Tasks,
         proc[p].task \in {t, None}, r.task \in {t, None}, disturbed \subseteq disturbed',
         \A u \in Tasks \ {t} : Untouched(u),
         \A l \in locks' : l \in locks \/ l.task = t,
         t \notin disturbed' => /\ \A q \in Procs \ {p} : proc[q].task # t
                                /\ r.task = t => AtWork(t, r)'
                                /\ r.task = None => Settled(t)'
  PROVE  BInv'
<1>1. proc'[p] = r /\ \A q \in Procs : q # p => proc'[q] = proc[q]
  BY DEF TInv, Goto
<1>2. ASSUME NEW q \in Procs PROVE Orderly(proc[q])'
  BY <1>1 DEF BInv, Orderly
<1>3. ASSUME NEW u \in Tasks \ disturbed', u # t PROVE Undisturbed(u)'
  BY <1>3, Apart DEF BInv
<1>4. ASSUME t \notin disturbed' PROVE Undisturbed(t)'
  <2>1. CASE r.task = t
    <3>1. Only(p, t)'
      BY <1>1, <1>4, <2>1 DEF Only
    <3>2. AtWork(t, r)'
      BY <1>4, <2>1
    <3>3. AtWork(t, proc[p])'
      BY <1>1, <3>2 DEF AtWork, OwnLock, LockOf, WakesOwed, Owed, FrontKept, FrontNow, Following, Agrees, Shown
    <3> QED BY <3>1, <3>3 DEF Undisturbed
  <2>2. CASE r.task = None
    <3>1. Quiet(t)'
      BY <1>1, <1>4, <2>2, BoardAssumption DEF Quiet
    <3> QED BY <1>4, <2>2, <3>1 DEF Undisturbed
  <2> QED BY <2>1, <2>2
<1> QED
  BY <1>2, <1>3, <1>4 DEF BInv

\* A command deals with its task alone, if that is not disturbed.
LEMMA Alone ==
  ASSUME BInv, NEW p \in Procs, proc[p].task \in Tasks \ disturbed
  PROVE  AtWork(proc[p].task, proc[p]) /\ \A q \in Procs \ {p} : proc[q].task # proc[p].task
<1> DEFINE t == proc[p].task
<1>1. Undisturbed(t) /\ ~Quiet(t)
  BY DEF BInv, Quiet
<1>2. PICK q \in Procs : Only(q, t) /\ AtWork(t, proc[q])
  BY <1>1 DEF Undisturbed
<1>3. q = p
  BY <1>2 DEF Only
<1> QED
  BY <1>2, <1>3 DEF Only

LEMMA StartedOrderly ==
  ASSUME NEW c \in Commands, NEW a \in Agents, NEW t \in Tasks, NEW r \in Started(c, a, t)
  PROVE  /\ r.task = t /\ r.cmd = c
         /\ c = "wake" => r.pc = "lock" /\ r.store = "wakes" /\ r.agent = a
         /\ c # "wake" => r.store # "wakes"
         /\ c = "claim" => r.pc = "look"
<1> DEFINE s == [Idle EXCEPT !.cmd = c, !.task = t, !.agent = a]
<1>1. c \in {"claim", "release", "done", "wake", "session", "put"}
  BY BoardAssumption
<1>2. Idle \in Proc
  BY IdleGood DEF Good
<1>3. s \in Proc /\ s.cmd = c /\ s.task = t /\ s.agent = a /\ s.store = "claims"
  BY <1>2 DEF Proc, Idle
<1> HIDE DEF s
<1>4. CASE c = "claim"
  <2>1. r = [s EXCEPT !.pc = "look"]
    BY <1>4 DEF Started, s
  <2> QED BY <1>3, <1>4, <2>1 DEF Proc
<1>5. CASE c = "done"
  <2>1. r = [s EXCEPT !.pc = "look", !.agent = None]
    BY <1>5 DEF Started, s
  <2> QED BY <1>3, <1>5, <2>1 DEF Proc
<1>6. CASE c = "release"
  <2>1. PICK x \in {"released", "blocked"} : r = [s EXCEPT !.pc = "exists", !.put = x]
    BY <1>6 DEF Started, s
  <2> QED BY <1>3, <1>6, <2>1 DEF Proc
<1>7. CASE c = "wake"
  <2>1. r = ToLock(s, "wakes")
    BY <1>7 DEF Started, s
  <2> QED BY <1>3, <1>7, <2>1 DEF Proc, ToLock
<1>8. CASE c = "session"
  <2>1. PICK x \in {"update", "resume", "reset", "rotate"} : r = [ToLock(s, "sessions") EXCEPT !.change = x]
    BY <1>8 DEF Started, s
  <2> QED BY <1>3, <1>8, <2>1 DEF Proc, ToLock
<1>9. CASE c = "put"
  <2>1. PICK x \in Paths : r = [ToLock(s, "docs") EXCEPT !.path = x, !.agent = None]
    BY <1>9 DEF Started, s
  <2> QED BY <1>3, <1>9, <2>1 DEF Proc, ToLock
<1> QED
  BY <1>1, <1>4, <1>5, <1>6, <1>7, <1>8, <1>9

LEMMA BeginUndisturbed ==
  ASSUME TInv, BInv, NEW p \in Procs, Begin(p)
  PROVE  BInv'
<1>1. PICK c \in Commands, a \in Agents, t \in Tasks :
        /\ \E r \in Started(c, a, t) : Goto(p, r)
        /\ due' = IF c = "wake" THEN [due EXCEPT ![<<a, t>>] = @ + 1] ELSE due
        /\ disturbed' = IF \E q \in Procs : proc[q].task = t THEN disturbed \cup {t} ELSE disturbed
  BY DEF Begin
<1>2. PICK r \in Started(c, a, t) : Goto(p, r)
  BY <1>1
<1>3. /\ r.task = t /\ r.cmd = c /\ r.pc \in {"look", "exists", "lock"}
      /\ c = "wake" => r.pc = "lock" /\ r.store = "wakes" /\ r.agent = a
      /\ c # "wake" => r.store # "wakes"
      /\ c = "claim" => r.pc = "look"
  BY StartedGood, StartedOrderly
<1>4. /\ UNCHANGED <<claims, board, wakes, locks>> /\ proc[p].task = None
      /\ due \in [Scopes -> Nat] /\ wakes \in [Scopes -> Nat]
  BY Typed DEF Begin, claimVars, wakeVars, BInv, Orderly, StoresTyped, ClaimsTyped, WakesTyped
<1>5. Orderly(r)
  BY <1>3 DEF Orderly, FrontPCs
<1>6. \A u \in Tasks \ {t} : Untouched(u)
  <2> SUFFICES ASSUME NEW u \in Tasks, u # t, NEW b \in Agents PROVE due'[<<b, u>>] = due[<<b, u>>]
    BY <1>4 DEF Untouched
  <2> QED BY <1>1, <1>4 DEF Scopes
<1>7. ASSUME t \notin disturbed'
      PROVE  (\A q \in Procs \ {p} : proc[q].task # t) /\ AtWork(t, r)'
  <2>1. Quiet(t) /\ t \notin disturbed
    BY <1>1, <1>7 DEF Quiet
  <2>2. Settled(t)
    BY <2>1 DEF BInv, Undisturbed, Only, Quiet
  <2>3. OwnLock(t, r)'
    BY <1>4, <2>2 DEF Settled, OwnLock
  <2>4. WakesOwed(t, r)'
    <3>1. Owed(r) <=> c = "wake"
      BY <1>3 DEF Owed, FrontPCs
    <3> SUFFICES ASSUME NEW b \in Agents
                 PROVE  due'[<<b, t>>] = wakes'[<<b, t>>] + (IF Owed(r) /\ b = r.agent THEN 1 ELSE 0)
      BY DEF WakesOwed, Owed
    <3>2. due[<<b, t>>] = wakes[<<b, t>>] /\ <<b, t>> \in Scopes /\ wakes[<<b, t>>] \in Nat
      BY <1>4, <2>2 DEF Settled, Scopes
    <3>3. CASE c = "wake" /\ b = a
      <4>1. due'[<<b, t>>] = due[<<b, t>>] + 1
        BY <1>1, <1>4, <3>2, <3>3
      <4> QED BY <1>3, <1>4, <3>1, <3>2, <3>3, <4>1
    <3>4. CASE ~(c = "wake" /\ b = a)
      <4>1. due'[<<b, t>>] = due[<<b, t>>]
        BY <1>1, <1>4, <3>2, <3>4
      <4>2. ~(Owed(r) /\ b = r.agent)
        BY <1>3, <3>1, <3>4
      <4> QED BY <1>4, <3>2, <4>1, <4>2
    <3> QED BY <3>3, <3>4
  <2>5. FrontKept(t, r)'
    <3>1. ~Following(r) /\ r.pc \notin FrontPCs
      BY <1>3 DEF Following, FrontPCs
    <3>2. ~(r.cmd = "claim" /\ r.pc \in InsidePCs \cup {"lock"})
      BY <1>3 DEF InsidePCs
    <3> QED BY <1>4, <2>2, <3>1, <3>2 DEF Settled, FrontKept, FrontNow, FrontPCs, Following, Agrees
  <2> QED BY <2>1, <2>3, <2>4, <2>5 DEF Quiet, AtWork
<1>8. disturbed \subseteq disturbed'
  BY <1>1
<1>9. \A l \in locks' : l \in locks \/ l.task = t
  BY <1>4
<1>10. r.task # None
  BY <1>3, BoardAssumption
<1> QED
  BY <1>2, <1>3, <1>4, <1>5, <1>6, <1>7, <1>8, <1>9, <1>10, WorkGoesOn

LEMMA KillUndisturbed ==
  ASSUME TInv, BInv, NEW p \in Procs, Kill(p)
  PROVE  BInv'
<1>1. /\ Goto(p, Idle) /\ proc[p].task \in Tasks /\ disturbed' = disturbed \cup {proc[p].task}
      /\ UNCHANGED <<claims, board, due, wakes, locks>>
  BY Typed DEF Kill, Return, ControlTyped, claimVars, wakeVars
<1>2. Orderly(Idle) /\ Idle.task = None
  BY DEF Orderly, Idle, FrontPCs
<1>3. \A u \in Tasks : Untouched(u)
  BY <1>1 DEF Untouched
<1>4. PICK r : r = Idle
  OBVIOUS
<1> QED
  BY <1>1, <1>2, <1>3, <1>4, WorkGoesOn

LEMMA FailUndisturbed ==
  ASSUME TInv, BInv, NEW p \in Procs, Fail(p)
  PROVE  BInv'
<1> DEFINE r == [proc[p] EXCEPT !.pc = "unlock", !.outcome = "refused"]
<1>1. /\ Goto(p, r) /\ proc[p].task \in Tasks /\ disturbed' = disturbed \cup {proc[p].task}
      /\ UNCHANGED <<claims, board, due, wakes, locks>> /\ proc[p] \in Proc
  BY Typed DEF Fail, ControlTyped, claimVars, wakeVars
<1>2. r.pc = "unlock" /\ r.task = proc[p].task
  BY <1>1 DEF Proc
<1> HIDE DEF r
<1>3. Orderly(r)
  BY <1>2 DEF Orderly, FrontPCs
<1>4. \A u \in Tasks : Untouched(u)
  BY <1>1 DEF Untouched
<1>5. PICK s : s = r
  OBVIOUS
<1> QED
  BY <1>1, <1>2, <1>3, <1>4, <1>5, WorkGoesOn

\* The same, in terms of what holds if the task is not disturbed.
LEMMA Works ==
  ASSUME TInv, BInv, NEW p \in Procs, NEW r, Goto(p, r), Orderly(r), NEW t \in Tasks,
         proc[p].task = t, r.task \in {t, None}, disturbed' = disturbed,
         \A u \in Tasks \ {t} : Untouched(u),
         \A l \in locks' : l \in locks \/ l.task = t,
         t \notin disturbed /\ AtWork(t, proc[p]) =>
           (r.task = t => AtWork(t, r)') /\ (r.task = None => Settled(t)')
  PROVE  BInv'
<1>1. t \notin disturbed' => /\ \A q \in Procs \ {p} : proc[q].task # t
                             /\ r.task = t => AtWork(t, r)'
                             /\ r.task = None => Settled(t)'
  BY Alone
<1> QED
  BY <1>1, WorkGoesOn

\* A step before or after the claim and the front matter are changed, which
\* writes no wake.
LEMMA SameWork ==
  ASSUME NEW t, NEW o, NEW r, AtWork(t, o), UNCHANGED <<claims, board, due, wakes>>,
         OwnLock(t, r)', Owed(r) <=> Owed(o), Owed(r) => r.agent = o.agent,
         ~Following(o), ~Following(r), o.pc # "fm_write", r.pc \notin {"fm_open", "fm_write"},
         r.cmd = "claim" /\ r.store = "claims" /\ r.pc \in InsidePCs \cup {"lock"} =>
           r.seen = Shown(board[t])
  PROVE  AtWork(t, r)'
<1>1. WakesOwed(t, r)'
  <2>1. \A a \in Agents : Owed(r) /\ a = r.agent <=> Owed(o) /\ a = o.agent
    OBVIOUS
  <2> SUFFICES ASSUME NEW a \in Agents
               PROVE  due[<<a, t>>] = wakes[<<a, t>>] + (IF Owed(r) /\ a = r.agent THEN 1 ELSE 0)
    BY DEF WakesOwed, Owed
  <2>2. due[<<a, t>>] = wakes[<<a, t>>] + (IF Owed(o) /\ a = o.agent THEN 1 ELSE 0)
    BY DEF AtWork, WakesOwed
  <2>3. CASE Owed(r) /\ a = r.agent
    BY <2>1, <2>2, <2>3
  <2>4. CASE ~(Owed(r) /\ a = r.agent)
    BY <2>1, <2>2, <2>4
  <2> QED BY <2>3, <2>4
<1>2. FrontKept(t, r)'
  BY DEF AtWork, FrontKept, FrontNow, Following, Agrees, Shown
<1> QED
  BY <1>1, <1>2 DEF AtWork

\* A command that has nothing more to do with the task leaves it settled.
LEMMA Finished ==
  ASSUME NEW t, NEW o, AtWork(t, o), UNCHANGED <<claims, board, due, wakes>>,
         wakes \in [Scopes -> Nat], t \in Tasks,
         \A l \in locks' : l.task # t, ~Owed(o), o.pc # "fm_write",
         ~Following(o) \/ Agrees(t, board[t].status)
  PROVE  Settled(t)'
<1>1. ASSUME NEW a \in Agents PROVE due[<<a, t>>] = wakes[<<a, t>>]
  <2>1. due[<<a, t>>] = wakes[<<a, t>>] + 0
    BY DEF AtWork, WakesOwed
  <2>2. <<a, t>> \in Scopes
    BY DEF Scopes
  <2>3. wakes[<<a, t>>] \in Nat
    BY <2>2
  <2> QED BY <2>1, <2>3
<1>2. board[t].whole /\ Agrees(t, board[t].status)
  BY DEF AtWork, FrontKept, FrontNow
<1> QED
  BY <1>1, <1>2 DEF Settled, Agrees

\* What the proofs about a step of process p start from.
LEMMA AtStep ==
  ASSUME TInv, BInv, NEW p \in Procs, proc[p].pc # "idle"
  PROVE  /\ proc[p] \in Proc /\ Good(proc[p]) /\ ControlTyped(proc[p]) /\ Orderly(proc[p])
         /\ proc[p].task \in Tasks /\ proc[p].task # None
         /\ wakes \in [Scopes -> Nat] /\ due \in [Scopes -> Nat]
         /\ claims \in [Tasks -> Claim \cup {None}] /\ board \in [Tasks -> Front]
         /\ locks \subseteq Lock /\ LockOf(proc[p]).task = proc[p].task
<1>1. LockOf(proc[p]).task = proc[p].task
  BY DEF LockOf
<1> QED
  BY <1>1, Typed, BoardAssumption DEF BInv, ControlTyped, StoresTyped, ClaimsTyped, WakesTyped, BoardTyped

\* The command stays in its store and keeps its lock.
LEMMA LockKept ==
  ASSUME NEW t, NEW o, NEW r, AtWork(t, o), locks' = locks, Alike(r, o), r.pc \in InsidePCs
  PROVE  OwnLock(t, r)'
  BY DEF AtWork, OwnLock, LockOf, Alike

\* Sessions and documents.
LEMMA AsideUndisturbed ==
  ASSUME TInv, BInv, NEW p \in Procs,
         SessionRead(p) \/ SessionWrite(p) \/ DocsRead(p) \/ PutFile(p) \/ DocsWrite(p)
  PROVE  BInv'
<1>1. /\ UNCHANGED <<claims, board, due, wakes, locks, disturbed>>
      /\ proc[p].store \in {"sessions", "docs"} /\ proc[p].pc \in {"read", "put", "write"}
  BY Typed DEF SessionRead, SessionWrite, DocsRead, PutFile, DocsWrite, claimVars, wakeVars, bounds, ControlTyped
<1>2. PICK t \in Tasks : t = proc[p].task
  BY <1>1, AtStep
<1>3. PICK r : Goto(p, r) /\ r.pc \in InsidePCs /\ Alike(r, proc[p])
  BY Within
<1>4. Orderly(r) /\ ~Owed(r) /\ ~Owed(proc[p]) /\ ~Following(r) /\ ~Following(proc[p])
  BY <1>1, <1>3 DEF Orderly, Owed, Following, Alike, InsidePCs, FrontPCs
<1>5. ASSUME AtWork(t, proc[p]) PROVE AtWork(t, r)'
  <2>1. OwnLock(t, r)'
    BY <1>1, <1>2, <1>3, <1>5, LockKept
  <2>2. r.store # "claims" /\ r.pc \notin FrontPCs /\ proc[p].pc # "fm_write"
    BY <1>1, <1>3 DEF Alike, InsidePCs, FrontPCs
  <2> QED BY <1>1, <1>4, <1>5, <2>1, <2>2, SameWork DEF FrontPCs
<1>6. \A u \in Tasks : Untouched(u)
  BY <1>1 DEF Untouched
<1>7. r.task = t
  BY <1>2, <1>3 DEF Alike
<1>8. t # None
  BY <1>2, BoardAssumption
<1> QED
  BY <1>1, <1>2, <1>3, <1>4, <1>5, <1>6, <1>7, <1>8, Works

LEMMA WakeUndisturbed ==
  ASSUME TInv, UInv, BInv, NEW p \in Procs, WakeRead(p) \/ WakeWrite(p)
  PROVE  BInv'
<1>1. /\ UNCHANGED <<claims, board, due, locks, disturbed>>
      /\ proc[p].store = "wakes" /\ proc[p].pc \in {"read", "write"} /\ proc[p].agent \in Agents
  BY Typed DEF WakeRead, WakeWrite, claimVars, bounds, ControlTyped, Entered
<1>0. PICK t \in Tasks, b \in Agents : t = proc[p].task /\ b = proc[p].agent
  BY <1>1, AtStep
<1>2. /\ t # None /\ wakes \in [Scopes -> Nat] /\ proc[p] \in Proc
      /\ proc \in [Procs -> Proc]
  BY <1>0, <1>1, AtStep DEF TInv
<1>3. PICK r : Goto(p, r) /\ r.pc \in InsidePCs /\ Alike(r, proc[p])
  BY Within
<1>4. Orderly(r) /\ Owed(proc[p]) /\ ~Following(r) /\ ~Following(proc[p])
      /\ r.store # "claims" /\ r.pc \notin FrontPCs /\ proc[p].pc # "fm_write" /\ r.task = t
  BY <1>0, <1>1, <1>3 DEF Orderly, Owed, Following, Alike, InsidePCs, FrontPCs
<1>5. proc'[p] = r
  BY <1>2, <1>3 DEF Goto
<1>6. CASE WakeRead(p)
  <2>1. wakes' = wakes
    BY <1>6 DEF WakeRead, wakeVars
  <2>2. Owed(r)
    <3>1. [proc[p] EXCEPT !.pc = "write", !.mem = [count |-> wakes[Scope(p)]]].pc = "write"
      BY <1>2 DEF Proc
    <3>2. r.pc = "write"
      BY <1>2, <1>5, <1>6, <3>1 DEF WakeRead, Goto
    <3> QED BY <1>1, <1>3, <3>2 DEF Owed, Alike
  <2>3. ASSUME AtWork(t, proc[p]) PROVE AtWork(t, r)'
    <3>1. OwnLock(t, r)' /\ r.agent = b
      BY <1>0, <1>1, <1>3, <2>3, LockKept DEF Alike
    <3> QED BY <1>0, <1>1, <1>4, <2>1, <2>2, <2>3, <3>1, SameWork DEF FrontPCs
  <2>4. \A u \in Tasks : Untouched(u)
    BY <1>1, <2>1 DEF Untouched
  <2> QED BY <1>1, <1>2, <1>0, <1>3, <1>4, <2>3, <2>4, Works
<1>7. CASE WakeWrite(p)
  <2>1. wakes' = [wakes EXCEPT ![<<b, t>>] = wakes[<<b, t>>] + 1] /\ <<b, t>> \in Scopes
    BY <1>0, <1>1, <1>2, <1>7 DEF WakeWrite, UInv, WakeStillSo, Scope, Scopes
  <2>2. ~Owed(r)
    <3>1. [proc[p] EXCEPT !.pc = "unlock", !.mem = None].pc = "unlock"
      BY <1>2 DEF Proc
    <3>2. r.pc = "unlock"
      BY <1>2, <1>5, <1>7, <3>1 DEF WakeWrite, Goto
    <3> QED BY <1>1, <1>3, <3>2 DEF Owed, Alike, FrontPCs
  <2>3. ASSUME AtWork(t, proc[p]) PROVE AtWork(t, r)'
    <3>1. OwnLock(t, r)'
      BY <1>0, <1>1, <1>3, <2>3, LockKept
    <3>2. WakesOwed(t, r)'
      <4> SUFFICES ASSUME NEW a \in Agents PROVE due[<<a, t>>] = wakes'[<<a, t>>] + 0
        BY <1>1, <2>2 DEF WakesOwed, Owed
      <4>1. /\ due[<<a, t>>] = wakes[<<a, t>>] + (IF a = b THEN 1 ELSE 0)
            /\ <<a, t>> \in Scopes /\ wakes[<<a, t>>] \in Nat
        BY <1>0, <1>2, <1>4, <2>3 DEF AtWork, WakesOwed, Scopes
      <4>2. CASE a = b
        BY <1>2, <2>1, <4>1, <4>2
      <4>3. CASE a # b
        BY <1>2, <2>1, <4>1, <4>3
      <4> QED BY <4>2, <4>3
    <3>3. FrontKept(t, r)'
      BY <1>1, <1>4, <2>3 DEF AtWork, FrontKept, FrontNow, FrontPCs, Following, Agrees
    <3> QED BY <3>1, <3>2, <3>3 DEF AtWork
  <2>4. \A u \in Tasks \ {t} : Untouched(u)
    <3> SUFFICES ASSUME NEW u \in Tasks, u # t, NEW a \in Agents PROVE wakes'[<<a, u>>] = wakes[<<a, u>>]
      BY <1>1 DEF Untouched
    <3> QED BY <1>2, <2>1 DEF Scopes
  <2> QED BY <1>1, <1>2, <1>0, <1>3, <1>4, <2>3, <2>4, Works
<1> QED
  BY <1>6, <1>7

LEMMA IdleIs == Idle.pc = "idle" /\ Idle.cmd = "none" /\ Idle.task = None /\ Idle.store = "claims"
  BY DEF Idle

\* Claims: what is read and written under their lock.
LEMMA ClaimUndisturbed ==
  ASSUME TInv, BInv, NEW p \in Procs, ClaimRead(p) \/ ReleaseRead(p)
  PROVE  BInv'
<1>1. /\ UNCHANGED <<claims, board, due, wakes, locks, disturbed>>
      /\ proc[p].store = "claims" /\ proc[p].pc = "read"
      /\ proc[p].cmd \in {"claim", "release"}
  BY DEF ClaimRead, ReleaseRead, claimVars, wakeVars, bounds
<1>2. PICK t \in Tasks : t = proc[p].task
  BY <1>1, AtStep
<1>3. t # None /\ proc[p] \in Proc /\ \A u \in Tasks : Untouched(u)
  BY <1>1, BoardAssumption, AtStep DEF Untouched
<1>4. PICK r : /\ Goto(p, r) /\ Alike(r, proc[p])
               /\ \/ r.pc = "write"
                  \/ r.pc = "unlock" /\ r.outcome = "refused"
                  \/ /\ r.pc = "unlock" /\ r.outcome = "already" /\ r.cmd = "claim"
                     /\ claims[t].status = "claimed"
  <2> DEFINE Next1(o) == [proc[p] EXCEPT !.pc = "unlock", !.outcome = o]
             Next2 == [proc[p] EXCEPT !.pc = "write"]
  <2>1. /\ \A o : Next1(o).pc = "unlock" /\ Alike(Next1(o), proc[p])
        /\ \A o \in {"refused", "already"} : Next1(o).outcome = o
        /\ Next2.pc = "write" /\ Alike(Next2, proc[p])
    BY <1>3 DEF Proc, Alike
  <2>2. \/ Goto(p, Next1("refused"))
        \/ /\ Goto(p, Next1("already")) /\ proc[p].cmd = "claim"
           /\ claims[t].status = "claimed"
        \/ Goto(p, Next2)
    BY <1>2 DEF ClaimRead, ReleaseRead, Jump
  <2> HIDE DEF Next1, Next2
  <2>3. Alike(Next1("already"), proc[p]) /\ proc[p].cmd = "claim" => Next1("already").cmd = "claim"
    BY DEF Alike
  <2> QED BY <2>1, <2>2, <2>3
<1>5. /\ Orderly(r) /\ ~Owed(proc[p]) /\ ~Owed(r) /\ ~Following(proc[p]) /\ r.task = t
      /\ r.pc \in InsidePCs /\ r.pc \notin FrontPCs /\ proc[p].pc # "fm_write"
      /\ r.seen = proc[p].seen /\ r.cmd = proc[p].cmd /\ r.store = "claims"
  BY <1>1, <1>2, <1>4 DEF Orderly, Owed, Following, Alike, InsidePCs, FrontPCs
<1>6. ASSUME AtWork(t, proc[p]) PROVE AtWork(t, r)'
  <2>1. OwnLock(t, r)'
    BY <1>1, <1>4, <1>5, <1>6, LockKept
  <2>2. r.cmd = "claim" => r.seen = Shown(board[t])
    BY <1>1, <1>5, <1>6 DEF AtWork, FrontKept, InsidePCs
  <2>3. CASE ~Following(r)
    BY <1>1, <1>5, <1>6, <2>1, <2>2, <2>3, SameWork DEF FrontPCs
  <2>4. CASE Following(r)
    <3>1. r.cmd = "claim" /\ claims[t].status = "claimed"
      BY <1>4, <2>4 DEF Following, FrontPCs
    <3>2. board[t].whole /\ FrontNow(t, r) = board[t]
      BY <1>5, <1>6 DEF AtWork, FrontKept, FrontNow, FrontPCs
    <3>3. FrontKept(t, r)'
      BY <1>1, <1>5, <2>2, <2>4, <3>1, <3>2 DEF FrontKept, FrontNow, FrontPCs, Following, Shown
    <3>4. WakesOwed(t, r)'
      BY <1>1, <1>5, <1>6 DEF AtWork, WakesOwed, Owed
    <3> QED BY <2>1, <3>3, <3>4 DEF AtWork
  <2> QED BY <2>3, <2>4
<1> QED
  BY <1>1, <1>2, <1>3, <1>4, <1>5, <1>6, Works

LEMMA ClaimWriteUndisturbed ==
  ASSUME TInv, BInv, NEW p \in Procs, ClaimWrite(p)
  PROVE  BInv'
<1>1. /\ UNCHANGED <<board, wakes, locks, disturbed>>
      /\ proc[p].store = "claims" /\ proc[p].pc = "write" /\ proc[p].cmd = "claim"
      /\ proc[p].agent \in Agents
  BY Typed DEF ClaimWrite, wakeVars, bounds, ControlTyped
<1>2. PICK t \in Tasks, b \in Agents : t = proc[p].task /\ b = proc[p].agent
  BY <1>1, AtStep
<1>3. /\ t # None /\ proc[p] \in Proc /\ wakes \in [Scopes -> Nat] /\ due \in [Scopes -> Nat]
      /\ claims \in [Tasks -> Claim \cup {None}]
  BY <1>1, BoardAssumption, AtStep
<1>4. PICK o \in {"ok", "quiet"} :
        /\ Goto(p, [proc[p] EXCEPT !.pc = "unlock", !.outcome = o])
        /\ due' = IF o = "ok" THEN [due EXCEPT ![<<b, t>>] = @ + 1] ELSE due
  BY <1>2 DEF ClaimWrite
<1>5. claims' = [claims EXCEPT ![t] = [status |-> "claimed", owner |-> b]]
  BY <1>2 DEF ClaimWrite
<1>6. PICK r : Goto(p, r) /\ Alike(r, proc[p]) /\ r.pc = "unlock" /\ r.outcome = o
  <2> DEFINE r == [proc[p] EXCEPT !.pc = "unlock", !.outcome = o]
  <2>1. Alike(r, proc[p]) /\ r.pc = "unlock" /\ r.outcome = o
    BY <1>3 DEF Proc, Alike
  <2> QED BY <1>4, <2>1
<1>7. /\ Orderly(r) /\ ~Owed(proc[p]) /\ Following(r) /\ r.task = t /\ r.agent = b
      /\ Owed(r) <=> o = "ok"
      /\ r.pc \in InsidePCs /\ r.pc \notin FrontPCs /\ proc[p].pc # "fm_write"
      /\ r.seen = proc[p].seen /\ r.cmd = "claim" /\ r.store = "claims"
  BY <1>1, <1>2, <1>6 DEF Orderly, Owed, Following, Alike, InsidePCs, FrontPCs
<1>8. \A u \in Tasks \ {t} : Untouched(u)
  <2> SUFFICES ASSUME NEW u \in Tasks, u # t PROVE Untouched(u)
    OBVIOUS
  <2>1. claims'[u] = claims[u]
    BY <1>3, <1>5
  <2>2. ASSUME NEW a \in Agents PROVE due'[<<a, u>>] = due[<<a, u>>]
    BY <1>3, <1>4 DEF Scopes
  <2> QED BY <1>1, <2>1, <2>2 DEF Untouched
<1>9. ASSUME AtWork(t, proc[p]) PROVE AtWork(t, r)'
  <2>1. OwnLock(t, r)'
    BY <1>1, <1>6, <1>7, <1>9, LockKept
  <2>2. WakesOwed(t, r)'
    <3> SUFFICES ASSUME NEW a \in Agents
                 PROVE  due'[<<a, t>>] = wakes[<<a, t>>] + (IF Owed(r) /\ a = r.agent THEN 1 ELSE 0)
      BY <1>1 DEF WakesOwed, Owed
    <3>1. /\ due[<<a, t>>] = wakes[<<a, t>>] + 0
          /\ <<a, t>> \in Scopes /\ wakes[<<a, t>>] \in Nat /\ due[<<a, t>>] \in Nat
      BY <1>3, <1>7, <1>9 DEF AtWork, WakesOwed, Scopes
    <3>2. CASE o = "ok" /\ a = b
      <4>1. due'[<<a, t>>] = due[<<a, t>>] + 1
        BY <1>3, <1>4, <3>1, <3>2
      <4> QED BY <1>7, <3>1, <3>2, <4>1
    <3>3. CASE ~(o = "ok" /\ a = b)
      <4>1. due'[<<a, t>>] = due[<<a, t>>]
        BY <1>3, <1>4, <3>1, <3>3
      <4>2. ~(Owed(r) /\ a = r.agent)
        BY <1>7, <3>3
      <4> QED BY <3>1, <4>1, <4>2
    <3> QED BY <3>2, <3>3
  <2>3. FrontKept(t, r)'
    <3>1. board[t].whole /\ FrontNow(t, r) = board[t] /\ r.seen = Shown(board[t])
      BY <1>1, <1>7, <1>9 DEF AtWork, FrontKept, FrontNow, FrontPCs, InsidePCs
    <3>2. claims'[t].status = "claimed"
      BY <1>3, <1>5
    <3> QED BY <1>1, <1>7, <3>1, <3>2 DEF FrontKept, FrontNow, FrontPCs, Following, Shown
  <2> QED BY <2>1, <2>2, <2>3 DEF AtWork
<1> QED
  BY <1>1, <1>2, <1>3, <1>6, <1>7, <1>8, <1>9, Works

LEMMA ReleaseWriteUndisturbed ==
  ASSUME TInv, BInv, NEW p \in Procs, ReleaseWrite(p)
  PROVE  BInv'
<1>1. /\ UNCHANGED <<board, due, wakes, locks, disturbed>>
      /\ proc[p].store = "claims" /\ proc[p].pc = "write" /\ proc[p].cmd = "release"
  BY DEF ReleaseWrite, wakeVars, bounds
<1>2. PICK t \in Tasks : t = proc[p].task
  BY <1>1, AtStep
<1>3. t # None /\ proc[p] \in Proc /\ claims \in [Tasks -> Claim \cup {None}]
  BY <1>1, BoardAssumption, AtStep
<1>4. PICK r : Goto(p, r) /\ Alike(r, proc[p]) /\ r.pc = "unlock" /\ r.outcome = "ok"
  <2> DEFINE r == [proc[p] EXCEPT !.pc = "unlock", !.outcome = "ok"]
  <2>1. Alike(r, proc[p]) /\ r.pc = "unlock" /\ r.outcome = "ok"
    BY <1>3 DEF Proc, Alike
  <2> QED BY <2>1 DEF ReleaseWrite
<1>5. /\ Orderly(r) /\ ~Owed(proc[p]) /\ ~Owed(r) /\ Following(r) /\ r.task = t
      /\ r.pc \in InsidePCs /\ r.pc \notin FrontPCs /\ proc[p].pc # "fm_write"
      /\ r.cmd = "release" /\ r.store = "claims" /\ r.put = proc[p].put
  BY <1>1, <1>2, <1>4 DEF Orderly, Owed, Following, Alike, InsidePCs, FrontPCs
<1>6. claims' = [claims EXCEPT ![t] = [status |-> proc[p].put, owner |-> proc[p].agent]]
  BY <1>2 DEF ReleaseWrite
<1>7. \A u \in Tasks \ {t} : Untouched(u)
  BY <1>1, <1>3, <1>6 DEF Untouched
<1>8. ASSUME AtWork(t, proc[p]) PROVE AtWork(t, r)'
  <2>1. OwnLock(t, r)'
    BY <1>1, <1>4, <1>5, <1>8, LockKept
  <2>2. WakesOwed(t, r)'
    BY <1>1, <1>5, <1>8 DEF AtWork, WakesOwed, Owed
  <2>3. FrontKept(t, r)'
    <3>1. board[t].whole /\ FrontNow(t, r) = board[t]
      BY <1>5, <1>8 DEF AtWork, FrontKept, FrontNow, FrontPCs
    <3>2. claims'[t].status = r.put
      BY <1>3, <1>5, <1>6
    <3> QED BY <1>1, <1>5, <3>1, <3>2 DEF FrontKept, FrontNow, FrontPCs, Following
  <2> QED BY <2>1, <2>2, <2>3 DEF AtWork
<1> QED
  BY <1>1, <1>2, <1>3, <1>4, <1>5, <1>7, <1>8, Works

LEMMA FindUndisturbed ==
  ASSUME TInv, BInv, NEW p \in Procs, FindClaim(p)
  PROVE  BInv'
<1>1. /\ UNCHANGED <<claims, board, due, wakes, locks, disturbed>> /\ proc[p].pc = "exists"
  BY DEF FindClaim, claimVars, wakeVars, bounds
<1>2. PICK t \in Tasks : t = proc[p].task
  BY <1>1, AtStep
<1>3. /\ t # None /\ proc[p] \in Proc /\ wakes \in [Scopes -> Nat] /\ proc[p].cmd = "release"
      /\ \A u \in Tasks : Untouched(u)
  BY <1>1, BoardAssumption, AtStep DEF Untouched, ControlTyped
<1>4. PICK r : /\ Goto(p, r)
               /\ \/ r.pc = "idle" /\ r.store = "claims" /\ r.cmd = "none" /\ r.task = None
                  \/ r.pc = "lock" /\ r.store = "claims" /\ r.cmd = "release" /\ r.task = t
  <2>1. ToLock(proc[p], "claims").pc = "lock" /\ ToLock(proc[p], "claims").store = "claims"
        /\ ToLock(proc[p], "claims").cmd = "release" /\ ToLock(proc[p], "claims").task = t
    BY <1>2, <1>3 DEF ToLock, Proc
  <2>2. Goto(p, Idle) \/ Goto(p, ToLock(proc[p], "claims"))
    BY DEF FindClaim, Return
  <2> QED BY <2>1, <2>2, IdleIs
<1>5. /\ Orderly(r) /\ ~Owed(proc[p]) /\ ~Owed(r) /\ ~Following(proc[p]) /\ ~Following(r)
      /\ r.task \in {t, None}
  BY <1>1, <1>3, <1>4 DEF Orderly, Owed, Following, FrontPCs
<1>6. ASSUME AtWork(t, proc[p]), r.task = t PROVE AtWork(t, r)'
  <2>1. r.pc = "lock" /\ r.cmd = "release"
    BY <1>3, <1>4, <1>6
  <2>2. OwnLock(t, r)'
    BY <1>1, <1>6 DEF AtWork, OwnLock, InsidePCs
  <2> QED BY <1>1, <1>5, <1>6, <2>1, <2>2, SameWork
<1>7. ASSUME AtWork(t, proc[p]) PROVE Settled(t)'
  <2>1. \A l \in locks' : l.task # t
    BY <1>1, <1>7 DEF AtWork, OwnLock, InsidePCs
  <2> QED BY <1>1, <1>3, <1>5, <1>7, <2>1, Finished
<1> QED
  BY <1>1, <1>2, <1>3, <1>4, <1>5, <1>6, <1>7, Works

LEMMA AcquireUndisturbed ==
  ASSUME TInv, BInv, NEW p \in Procs, Acquire(p)
  PROVE  BInv'
<1>1. /\ UNCHANGED <<claims, board, due, wakes, disturbed>> /\ proc[p].pc = "lock"
      /\ locks' = locks \cup {LockOf(proc[p])}
  BY DEF Acquire, claimVars, wakeVars, bounds
<1>2. PICK t \in Tasks : t = proc[p].task
  BY <1>1, AtStep
<1>3. t # None /\ proc[p] \in Proc /\ LockOf(proc[p]).task = t /\ \A u \in Tasks : Untouched(u)
  BY <1>1, <1>2, BoardAssumption, AtStep DEF Untouched
<1>4. PICK r : Goto(p, r) /\ Alike(r, proc[p]) /\ r.pc = "read"
  <2> DEFINE r == [proc[p] EXCEPT !.pc = "read"]
  <2>1. Alike(r, proc[p]) /\ r.pc = "read"
    BY <1>3 DEF Proc, Alike
  <2> QED BY <2>1 DEF Acquire, Jump
<1>5. /\ Orderly(r) /\ (Owed(r) <=> Owed(proc[p])) /\ ~Following(proc[p]) /\ ~Following(r) /\ r.task = t
      /\ r.agent = proc[p].agent /\ r.seen = proc[p].seen /\ r.cmd = proc[p].cmd
      /\ r.store = proc[p].store /\ LockOf(r) = LockOf(proc[p])
  BY <1>1, <1>2, <1>4 DEF Orderly, Owed, Following, FrontPCs, Alike, LockOf
<1>6. ASSUME AtWork(t, proc[p]) PROVE AtWork(t, r)'
  <2>1. \A l \in locks' : l.task = t => l = LockOf(r)
    BY <1>1, <1>5, <1>6 DEF AtWork, OwnLock, InsidePCs
  <2>2. OwnLock(t, r)'
    BY <1>4, <2>1 DEF OwnLock, InsidePCs, LockOf
  <2>3. r.cmd = "claim" /\ r.store = "claims" => r.seen = Shown(board[t])
    BY <1>1, <1>5, <1>6 DEF AtWork, FrontKept
  <2> QED BY <1>1, <1>4, <1>5, <1>6, <2>2, <2>3, SameWork
<1>7. \A l \in locks' : l \in locks \/ l.task = t
  BY <1>1, <1>3
<1> QED
  BY <1>1, <1>2, <1>3, <1>4, <1>5, <1>6, <1>7, Works

\* Where a command that leaves a store, or gives up, goes.
LEMMA LeavingStore ==
  ASSUME NEW r, r \in Proc, ControlTyped(r), r.pc \in {"lock", "unlock"}
  PROVE  /\ AfterStore(r).task \in {r.task, None} /\ Orderly(AfterStore(r))
         /\ Good(r) => AfterStore(r).pc \in {"lock", "fm_read", "check", "idle"}
<1>1. r.task \in Tasks /\ <<r.cmd, r.store>> \in Entered
  BY DEF ControlTyped
<1>2. CASE r.cmd = "claim" /\ r.store = "claims" /\ r.outcome # "refused"
  <2>1. CASE Outdated(r)
    <3> DEFINE s == ToBoard(r, "in_progress")
    <3>1. s.task = r.task /\ s.pc = "fm_read" /\ s.cmd = r.cmd /\ s.put = "in_progress"
      BY DEF Proc, ToBoard
    <3>2. AfterStore(r) = s
      BY <1>2, <2>1 DEF AfterStore
    <3> HIDE DEF s
    <3> QED BY <1>2, <3>1, <3>2 DEF Orderly
  <2>2. CASE ~Outdated(r)
    <3> DEFINE s(x) == ToLock(r, x)
    <3>1. \A x : s(x).task = r.task /\ s(x).pc = "lock"
      BY DEF Proc, ToLock
    <3>2. AfterStore(r) = s("wakes") \/ AfterStore(r) = s("sessions")
      BY <1>2, <2>2 DEF AfterStore, Claimed
    <3> HIDE DEF s
    <3> QED BY <3>1, <3>2 DEF Orderly, FrontPCs
  <2> QED BY <2>1, <2>2
<1>3. CASE r.cmd = "claim" /\ r.store = "wakes"
  <2> DEFINE s == ToLock(r, "sessions")
  <2>1. s.task = r.task /\ s.pc = "lock"
    BY DEF Proc, ToLock
  <2>2. AfterStore(r) = s
    BY <1>3 DEF AfterStore
  <2> HIDE DEF s
  <2> QED BY <2>1, <2>2 DEF Orderly, FrontPCs
<1>4. CASE r.cmd = "release" /\ r.outcome # "refused"
  <2> DEFINE s == [r EXCEPT !.pc = "check"]
  <2>1. s.task = r.task /\ s.pc = "check"
    BY DEF Proc
  <2>2. AfterStore(r) = s
    BY <1>4 DEF AfterStore
  <2> HIDE DEF s
  <2> QED BY <2>1, <2>2 DEF Orderly, FrontPCs
<1>5. CASE ~(\/ r.cmd = "claim" /\ r.store = "claims" /\ r.outcome # "refused"
             \/ r.cmd = "claim" /\ r.store = "wakes"
             \/ r.cmd = "release" /\ r.outcome # "refused")
  <2>1. AfterStore(r) = Idle
    BY <1>5 DEF AfterStore
  <2> QED BY <2>1, IdleIs DEF Orderly, FrontPCs
<1> QED
  BY <1>2, <1>3, <1>4, <1>5, AfterStoreGood

LEMMA TimeOutUndisturbed ==
  ASSUME TInv, BInv, NEW p \in Procs, TimeOut(p)
  PROVE  BInv'
<1>1. /\ UNCHANGED <<claims, board, due, wakes, locks, disturbed>> /\ proc[p].pc = "lock"
      /\ LockOf(proc[p]) \in locks
  BY DEF TimeOut, claimVars, wakeVars, bounds
<1>2. PICK t \in Tasks : t = proc[p].task
  BY <1>1, AtStep
<1>3. LockOf(proc[p]).task = t /\ \A u \in Tasks : Untouched(u)
  BY <1>1, <1>2, AtStep DEF Untouched
<1>4. PICK r : Goto(p, r) /\ r.task \in {t, None} /\ Orderly(r)
  <2>1. AfterStore(proc[p]).task \in {t, None} /\ Orderly(AfterStore(proc[p]))
    BY <1>1, <1>2, AtStep, LeavingStore
  <2>2. Idle.task = None /\ Orderly(Idle)
    BY IdleIs DEF Orderly, FrontPCs
  <2> QED BY <2>1, <2>2 DEF TimeOut, Return
<1>5. ~AtWork(t, proc[p])
  BY <1>1, <1>3 DEF AtWork, OwnLock, InsidePCs
<1> QED
  BY <1>1, <1>2, <1>3, <1>4, <1>5, Works

LEMMA ReleaseUndisturbed ==
  ASSUME TInv, BInv, NEW p \in Procs, Release(p)
  PROVE  BInv'
<1>1. /\ UNCHANGED <<claims, board, due, wakes, disturbed>> /\ proc[p].pc = "unlock"
      /\ locks' = locks \ {LockOf(proc[p])} /\ Goto(p, AfterStore(proc[p]))
  BY DEF Release, claimVars, wakeVars, bounds
<1>2. PICK t \in Tasks, o \in Proc : t = proc[p].task /\ o = proc[p]
  BY <1>1, AtStep
<1>3. /\ t # None /\ \A u \in Tasks : Untouched(u) /\ ControlTyped(o) /\ o.task = t /\ o.pc = "unlock"
      /\ wakes \in [Scopes -> Nat] /\ board \in [Tasks -> Front] /\ claims \in [Tasks -> Claim \cup {None}]
      /\ <<o.cmd, o.store>> \in Entered
  BY <1>1, <1>2, BoardAssumption, AtStep DEF Untouched, ControlTyped
<1>4. PICK r : r = AfterStore(o)
  OBVIOUS
<1>5. Goto(p, r) /\ r.task \in {t, None} /\ Orderly(r)
  BY <1>1, <1>2, <1>3, <1>4, LeavingStore
<1>6. ASSUME AtWork(t, o)
      PROVE  (r.task = t => AtWork(t, r)') /\ (r.task = None => Settled(t)')
  <2>1. \A l \in locks' : l.task # t
    BY <1>1, <1>2, <1>6 DEF AtWork, OwnLock
  <2>2. OwnLock(t, r)'
    BY <2>1 DEF OwnLock
  <2>3. board[t].whole /\ FrontNow(t, o) = board[t]
    BY <1>3, <1>6 DEF AtWork, FrontKept, FrontNow
  <2>4. CASE o.cmd = "claim" /\ o.store = "claims" /\ o.outcome # "refused"
    <3>1. claims[t].status = "claimed" /\ o.seen = Shown(board[t]) /\ (Owed(o) <=> o.outcome = "ok")
      BY <1>3, <1>6, <2>4 DEF AtWork, FrontKept, Following, InsidePCs, FrontPCs, Owed
    <3>2. CASE Outdated(o)
      <4> DEFINE s == ToBoard(o, "in_progress")
      <4>1. s.task = t /\ s.pc = "fm_read" /\ s.cmd = "claim" /\ s.outcome = o.outcome /\ s.agent = o.agent
            /\ s.store = "claims"
        BY <1>3, <2>4 DEF Proc, ToBoard
      <4>2. r = s
        BY <1>4, <2>4, <3>2 DEF AfterStore
      <4> HIDE DEF s
      <4>3. Owed(r) <=> Owed(o)
        BY <3>1, <4>1, <4>2 DEF Owed, FrontPCs
      <4>4. WakesOwed(t, r)'
        BY <1>1, <1>6, <4>1, <4>2, <4>3 DEF AtWork, WakesOwed, Owed
      <4>5. FrontKept(t, r)'
        BY <1>1, <2>3, <3>1, <4>1, <4>2 DEF FrontKept, FrontNow, Following, FrontPCs, InsidePCs
      <4> QED BY <1>3, <2>2, <4>1, <4>2, <4>4, <4>5 DEF AtWork
    <3>3. CASE ~Outdated(o)
      <4> DEFINE x == IF o.outcome = "ok" THEN "wakes" ELSE "sessions"
                 s == ToLock(o, x)
      <4>1. s.task = t /\ s.pc = "lock" /\ s.cmd = "claim" /\ s.agent = o.agent /\ s.store = x
        BY <1>3, <2>4 DEF Proc, ToLock
      <4>2. r = s
        BY <1>4, <2>4, <3>3 DEF AfterStore, Claimed
      <4> HIDE DEF s
      <4>3. Owed(r) <=> Owed(o)
        BY <3>1, <4>1, <4>2 DEF Owed, FrontPCs
      <4>4. WakesOwed(t, r)'
        BY <1>1, <1>6, <4>1, <4>2, <4>3 DEF AtWork, WakesOwed, Owed
      <4>5. board[t].status = "in_progress"
        BY <3>1, <3>3 DEF Outdated, Shown
      <4>6. ~Following(r) /\ Agrees(t, board[t].status)
        BY <3>1, <4>1, <4>2, <4>5 DEF Following, FrontPCs, Agrees
      <4>7. FrontKept(t, r)'
        BY <1>1, <2>3, <4>1, <4>2, <4>6 DEF FrontKept, FrontNow, Following, Agrees
      <4> QED BY <1>3, <2>2, <4>1, <4>2, <4>4, <4>7 DEF AtWork
    <3> QED BY <3>2, <3>3
  <2>5. CASE o.cmd = "claim" /\ o.store = "wakes"
    <3> DEFINE s == ToLock(o, "sessions")
    <3>1. s.task = t /\ s.pc = "lock" /\ s.cmd = "claim" /\ s.store = "sessions"
      BY <1>3, <2>5 DEF Proc, ToLock
    <3>2. r = s
      BY <1>4, <2>5 DEF AfterStore
    <3> HIDE DEF s
    <3>3. ~Owed(r) /\ ~Owed(o) /\ ~Following(r) /\ ~Following(o)
      BY <1>3, <2>5, <3>1, <3>2 DEF Owed, Following, FrontPCs
    <3>4. AtWork(t, r)'
      BY <1>1, <1>3, <1>6, <2>2, <3>1, <3>2, <3>3, SameWork
    <3> QED BY <1>3, <3>1, <3>2, <3>4
  <2>6. CASE o.cmd = "release" /\ o.outcome # "refused"
    <3> DEFINE s == [o EXCEPT !.pc = "check"]
    <3>1. s.task = t /\ s.pc = "check" /\ s.cmd = "release" /\ s.put = o.put /\ s.store = "claims" /\ o.store = "claims"
      BY <1>3, <2>6 DEF Proc, Entered
    <3>2. r = s
      BY <1>4, <2>6 DEF AfterStore
    <3> HIDE DEF s
    <3>3. ~Owed(r) /\ ~Owed(o) /\ Following(r) /\ Following(o)
      BY <1>3, <2>6, <3>1, <3>2 DEF Owed, Following, FrontPCs
    <3>4. WakesOwed(t, r)'
      BY <1>1, <1>6, <3>3 DEF AtWork, WakesOwed, Owed
    <3>5. FrontKept(t, r)'
      BY <1>1, <1>6, <2>3, <2>6, <3>1, <3>2, <3>3 DEF AtWork, FrontKept, FrontNow, Following
    <3> QED BY <1>3, <2>2, <3>1, <3>2, <3>4, <3>5 DEF AtWork
  <2>7. CASE ~(\/ o.cmd = "claim" /\ o.store = "claims" /\ o.outcome # "refused"
               \/ o.cmd = "claim" /\ o.store = "wakes"
               \/ o.cmd = "release" /\ o.outcome # "refused")
    <3>1. r = Idle
      BY <1>4, <2>7 DEF AfterStore
    <3>2. ~Owed(o) /\ ~Following(o)
      BY <1>3, <2>7 DEF Owed, Following, FrontPCs
    <3> QED BY <1>1, <1>3, <1>6, <2>1, <3>1, <3>2, Finished, IdleIs
  <2> QED BY <2>4, <2>5, <2>6, <2>7
<1>7. \A l \in locks' : l \in locks \/ l.task = t
  BY <1>1
<1> QED
  BY <1>1, <1>2, <1>3, <1>5, <1>6, <1>7, Works

\* The front matter: looked at ...
LEMMA LookUndisturbed ==
  ASSUME TInv, BInv, NEW p \in Procs, Look(p)
  PROVE  BInv'
<1>1. UNCHANGED <<claims, board, due, wakes, locks, disturbed>> /\ proc[p].pc = "look"
  BY DEF Look, claimVars, wakeVars, bounds
<1>2. PICK t \in Tasks, o \in Proc : t = proc[p].task /\ o = proc[p]
  BY <1>1, AtStep
<1>3. /\ t # None /\ \A u \in Tasks : Untouched(u) /\ o.task = t /\ o.pc = "look"
      /\ wakes \in [Scopes -> Nat]
  BY <1>1, <1>2, BoardAssumption, AtStep DEF Untouched
<1>4. PICK r : /\ Goto(p, r)
               /\ \/ r.pc = "idle" /\ r.store = "claims" /\ r.cmd = "none" /\ r.task = None
                  \/ r.pc = "lock" /\ r.store = "claims" /\ r.task = t /\ r.seen = Shown(board[t])
                  \/ r.pc = "fm_read" /\ r.cmd = "done" /\ r.put = "done" /\ r.task = t
  <2> DEFINE s == [ToLock(o, "claims") EXCEPT !.seen = Shown(board[t])]
             d == ToBoard(o, "done")
  <2>1. s.pc = "lock" /\ s.store = "claims" /\ s.task = t /\ s.seen = Shown(board[t])
    BY <1>3 DEF Proc, ToLock
  <2>2. d.pc = "fm_read" /\ d.cmd = o.cmd /\ d.put = "done" /\ d.task = t
    BY <1>3 DEF Proc, ToBoard
  <2>3. Goto(p, Idle) \/ Goto(p, s) \/ (Goto(p, d) /\ o.cmd = "done")
    BY <1>2 DEF Look, Return
  <2> HIDE DEF s, d
  <2> QED BY <2>1, <2>2, <2>3, IdleIs
<1>5. /\ Orderly(r) /\ ~Owed(o) /\ ~Owed(r) /\ ~Following(o) /\ ~Following(r)
      /\ r.task \in {t, None} /\ r.pc \notin {"fm_open", "fm_write"} /\ r.pc \notin InsidePCs
  BY <1>3, <1>4 DEF Orderly, Owed, Following, FrontPCs, InsidePCs
<1>6. ASSUME AtWork(t, o) PROVE \A l \in locks' : l.task # t
  BY <1>1, <1>3, <1>6 DEF AtWork, OwnLock, InsidePCs
<1>7. ASSUME AtWork(t, o), r.task = t PROVE AtWork(t, r)'
  <2>1. OwnLock(t, r)'
    BY <1>6, <1>7 DEF OwnLock
  <2>2. r.pc = "lock" => r.seen = Shown(board[t])
    BY <1>4
  <2> QED BY <1>1, <1>3, <1>5, <1>7, <2>1, <2>2, SameWork
<1>8. ASSUME AtWork(t, o) PROVE Settled(t)'
  BY <1>1, <1>3, <1>5, <1>6, <1>8, Finished
<1> QED
  BY <1>1, <1>2, <1>3, <1>4, <1>5, <1>7, <1>8, Works

LEMMA CheckUndisturbed ==
  ASSUME TInv, BInv, NEW p \in Procs, Check(p)
  PROVE  BInv'
<1>1. UNCHANGED <<claims, board, due, wakes, locks, disturbed>> /\ proc[p].pc = "check"
  BY DEF Check, claimVars, wakeVars, bounds
<1>2. PICK t \in Tasks, o \in Proc : t = proc[p].task /\ o = proc[p]
  BY <1>1, AtStep
<1>3. /\ t # None /\ \A u \in Tasks : Untouched(u) /\ o.task = t /\ o.pc = "check"
      /\ wakes \in [Scopes -> Nat] /\ o.cmd = "release"
  BY <1>1, <1>2, BoardAssumption, AtStep DEF Untouched, ControlTyped
<1>4. ~Owed(o) /\ Following(o)
  BY <1>3 DEF Owed, Following, FrontPCs
<1>5. ASSUME AtWork(t, o) PROVE \A l \in locks' : l.task # t
  BY <1>1, <1>3, <1>5 DEF AtWork, OwnLock, InsidePCs
<1>6. CASE Shown(board[t]) = "done"
  <2>1. PICK r : r = Idle
    OBVIOUS
  <2>2. Goto(p, r) /\ r.task = None /\ Orderly(r)
    BY <1>2, <1>6, <2>1, IdleIs DEF Check, Return, Orderly, FrontPCs
  <2>3. Agrees(t, board[t].status)
    BY <1>6 DEF Shown, Agrees
  <2>4. ASSUME AtWork(t, o) PROVE Settled(t)'
    BY <1>1, <1>3, <1>4, <1>5, <2>3, <2>4, Finished
  <2> QED BY <1>1, <1>2, <1>3, <2>2, <2>4, Works
<1>7. CASE Shown(board[t]) # "done"
  <2>1. PICK r : /\ Goto(p, r) /\ r.pc = "fm_read" /\ r.cmd = "release"
                 /\ r.put = o.put /\ r.task = t
    <3> DEFINE s == ToBoard(o, o.put)
    <3>1. s.pc = "fm_read" /\ s.cmd = "release" /\ s.put = o.put /\ s.task = t
      BY <1>3 DEF Proc, ToBoard
    <3>2. Goto(p, s)
      BY <1>2, <1>7 DEF Check
    <3> QED BY <3>1, <3>2
  <2>2. Orderly(r) /\ ~Owed(r) /\ Following(r)
    BY <2>1 DEF Orderly, Owed, Following, FrontPCs
  <2>3. ASSUME AtWork(t, o) PROVE AtWork(t, r)'
    <3>1. OwnLock(t, r)'
      BY <1>5, <2>3 DEF OwnLock
    <3>2. WakesOwed(t, r)'
      BY <1>1, <1>4, <2>2, <2>3 DEF AtWork, WakesOwed, Owed
    <3>3. FrontKept(t, r)'
      BY <1>1, <1>3, <1>4, <2>1, <2>2, <2>3 DEF AtWork, FrontKept, FrontNow, Following
    <3> QED BY <3>1, <3>2, <3>3 DEF AtWork
  <2> QED BY <1>1, <1>2, <1>3, <2>1, <2>2, <2>3, Works
<1> QED
  BY <1>6, <1>7

\* ... read and truncated ...
LEMMA OpenUndisturbed ==
  ASSUME TInv, BInv, NEW p \in Procs, FrontRead(p) \/ FrontOpen(p)
  PROVE  BInv'
<1>1. UNCHANGED <<claims, due, wakes, locks, disturbed>> /\ proc[p].pc \in {"fm_read", "fm_open"}
  BY DEF FrontRead, FrontOpen, claimVars, wakeVars, bounds
<1>2. PICK t \in Tasks, o \in Proc : t = proc[p].task /\ o = proc[p]
  BY <1>1, AtStep
<1>3. /\ t # None /\ o.task = t /\ o.pc \in {"fm_read", "fm_open"}
      /\ Orderly(o) /\ board \in [Tasks -> Front]
  BY <1>1, <1>2, BoardAssumption, AtStep
<1>4. PICK r : /\ Goto(p, r) /\ Alike(r, o) /\ r.outcome = o.outcome
               /\ \/ o.pc = "fm_read" /\ r.pc = "fm_open" /\ r.mem = board[t] /\ board' = board
                  \/ /\ o.pc = "fm_open" /\ r.pc = "fm_write" /\ r.mem = o.mem
                     /\ board' = [board EXCEPT ![t] = Empty]
  <2>1. CASE FrontRead(p)
    <3> DEFINE m == board[t]
               s == [o EXCEPT !.pc = "fm_open", !.mem = m]
    <3>1. Goto(p, s) /\ o.pc = "fm_read" /\ board' = board
      BY <1>2, <2>1 DEF FrontRead
    <3> HIDE DEF m
    <3>2. Alike(s, o) /\ s.outcome = o.outcome /\ s.pc = "fm_open" /\ s.mem = m
      BY DEF Proc, Alike
    <3> QED BY <3>1, <3>2 DEF m
  <2>2. CASE FrontOpen(p)
    <3> DEFINE s == [o EXCEPT !.pc = "fm_write"]
    <3>1. Goto(p, s) /\ o.pc = "fm_open" /\ board' = [board EXCEPT ![t] = Empty]
      BY <1>2, <2>2 DEF FrontOpen, Jump
    <3>2. Alike(s, o) /\ s.outcome = o.outcome /\ s.pc = "fm_write" /\ s.mem = o.mem
      BY DEF Proc, Alike
    <3> QED BY <3>1, <3>2
  <2> QED BY <2>1, <2>2
<1>5. \A u \in Tasks \ {t} : Untouched(u)
  BY <1>1, <1>3, <1>4 DEF Untouched
<1>6. /\ Orderly(r) /\ (Owed(r) <=> Owed(o)) /\ (Following(r) <=> Following(o)) /\ r.task = t
      /\ r.agent = o.agent /\ r.cmd = o.cmd /\ r.put = o.put /\ r.pc \in {"fm_open", "fm_write"}
  BY <1>3, <1>4 DEF Orderly, Owed, Following, FrontPCs, Alike
<1>7. ASSUME AtWork(t, o) PROVE AtWork(t, r)'
  <2>1. OwnLock(t, r)'
    BY <1>1, <1>3, <1>7 DEF AtWork, OwnLock, InsidePCs
  <2>2. WakesOwed(t, r)'
    BY <1>1, <1>6, <1>7 DEF AtWork, WakesOwed, Owed
  <2>3. r.mem = board[t] /\ FrontNow(t, o) = board[t]
    BY <1>3, <1>4, <1>7 DEF AtWork, FrontKept, FrontNow
  <2>4. FrontNow(t, r)' = board[t] /\ (r.pc = "fm_open" => board' = board)
    BY <1>4, <2>3 DEF FrontNow
  <2>5. board[t].whole /\ (Following(r) \/ Agrees(t, board[t].status))
    BY <1>6, <1>7, <2>3 DEF AtWork, FrontKept
  <2>6. Following(r) => claims[t].status = (IF r.cmd = "claim" THEN "claimed" ELSE r.put)
    BY <1>6, <1>7 DEF AtWork, FrontKept
  <2>7. FrontKept(t, r)'
    BY <1>1, <1>6, <2>3, <2>4, <2>5, <2>6 DEF FrontKept, Following, Agrees, InsidePCs
  <2> QED BY <2>1, <2>2, <2>7 DEF AtWork
<1> QED
  BY <1>1, <1>2, <1>3, <1>4, <1>5, <1>6, <1>7, Works

\* ... and written.
LEMMA WriteUndisturbed ==
  ASSUME TInv, BInv, NEW p \in Procs, FrontWrite(p)
  PROVE  BInv'
<1>1. UNCHANGED <<claims, due, wakes, locks, disturbed>> /\ proc[p].pc = "fm_write"
  BY DEF FrontWrite, claimVars, wakeVars, bounds
<1>2. PICK t \in Tasks, o \in Proc : t = proc[p].task /\ o = proc[p]
  BY <1>1, AtStep
<1>3. /\ t # None /\ o.task = t /\ o.pc = "fm_write" /\ Orderly(o) /\ o.mem \in Front
      /\ board \in [Tasks -> Front] /\ wakes \in [Scopes -> Nat]
      /\ o.cmd = "release" => o.put \in {"released", "blocked"}
  BY <1>1, <1>2, BoardAssumption, AtStep, Typed DEF MemoryTyped, ControlTyped
<1>4. PICK new : /\ new = (IF o.put = "keep" THEN o.mem ELSE [o.mem EXCEPT !.status = o.put])
                 /\ board' = [board EXCEPT ![t] = new]
  BY <1>2 DEF FrontWrite
<1>5. board'[t] = new /\ \A u \in Tasks \ {t} : Untouched(u)
  BY <1>1, <1>3, <1>4 DEF Untouched
<1>6. new.whole = o.mem.whole /\ new.status = IF o.put = "keep" THEN o.mem.status ELSE o.put
  BY <1>3, <1>4 DEF Front
<1>7. ASSUME AtWork(t, o)
      PROVE  new.whole /\ Agrees(t, new.status) /\ \A l \in locks' : l.task # t
  <2>1. o.mem.whole /\ (Following(o) \/ Agrees(t, o.mem.status))
        /\ (Following(o) => claims[t].status = (IF o.cmd = "claim" THEN "claimed" ELSE o.put))
    BY <1>3, <1>7 DEF AtWork, FrontKept, FrontNow
  <2>2. \A l \in locks' : l.task # t
    BY <1>1, <1>3, <1>7 DEF AtWork, OwnLock, InsidePCs
  <2>3. Agrees(t, new.status)
    <3>1. CASE o.cmd = "claim"
      BY <1>3, <1>6, <2>1, <3>1 DEF Orderly, Following, FrontPCs, Agrees
    <3>2. CASE o.cmd = "release"
      BY <1>3, <1>6, <2>1, <3>2 DEF Orderly, Following, FrontPCs, Agrees
    <3>3. CASE o.cmd = "done" /\ o.put = "done"
      BY <1>6, <3>3 DEF Agrees
    <3>4. CASE o.cmd = "done" /\ o.put = "keep"
      BY <1>6, <2>1, <3>4 DEF Following
    <3> QED BY <1>3, <3>1, <3>2, <3>3, <3>4 DEF Orderly, FrontPCs
  <2> QED BY <1>6, <2>1, <2>2, <2>3
<1>8. CASE o.cmd = "claim"
  <2> DEFINE x == IF o.outcome = "ok" THEN "wakes" ELSE "sessions"
             s == ToLock(o, x)
  <2>1. s.pc = "lock" /\ s.cmd = "claim" /\ s.agent = o.agent /\ s.store = x /\ s.task = t
    BY <1>3, <1>8 DEF Proc, ToLock
  <2>2. Goto(p, s)
    BY <1>2, <1>8 DEF FrontWrite, Claimed
  <2> HIDE DEF s
  <2>3. PICK r : r = s
    OBVIOUS
  <2>4. /\ r.pc = "lock" /\ r.agent = o.agent /\ r.task = t /\ Orderly(r) /\ ~Following(r)
        /\ (Owed(r) <=> Owed(o)) /\ r.store # "claims"
    BY <1>3, <1>8, <2>1, <2>3 DEF Orderly, Following, Owed, FrontPCs
  <2>5. ASSUME AtWork(t, o) PROVE AtWork(t, r)'
    <3>1. OwnLock(t, r)'
      BY <1>7, <2>5 DEF OwnLock
    <3>2. WakesOwed(t, r)'
      BY <1>1, <2>4, <2>5 DEF AtWork, WakesOwed, Owed
    <3>3. FrontKept(t, r)'
      BY <1>1, <1>5, <1>7, <2>4, <2>5 DEF FrontKept, FrontNow, Following, Agrees
    <3> QED BY <3>1, <3>2, <3>3 DEF AtWork
  <2> QED BY <1>1, <1>2, <1>3, <1>5, <2>2, <2>3, <2>4, <2>5, Works
<1>9. CASE o.cmd = "done" /\ o.put = "done"
  <2> DEFINE s == [ToBoard(o, "keep") EXCEPT !.mem = None]
  <2>1. s.pc = "fm_read" /\ s.cmd = "done" /\ s.put = "keep" /\ s.task = t
    BY <1>3, <1>9 DEF Proc, ToBoard
  <2>2. Goto(p, s)
    BY <1>2, <1>9 DEF FrontWrite
  <2> HIDE DEF s
  <2>3. PICK r : r = s
    OBVIOUS
  <2>4. /\ r.pc = "fm_read" /\ r.cmd = "done" /\ r.task = t /\ Orderly(r) /\ ~Following(r)
        /\ ~Owed(r) /\ ~Owed(o)
    BY <1>3, <1>9, <2>1, <2>3 DEF Orderly, Following, Owed, FrontPCs
  <2>5. ASSUME AtWork(t, o) PROVE AtWork(t, r)'
    <3>1. OwnLock(t, r)'
      BY <1>7, <2>5 DEF OwnLock
    <3>2. WakesOwed(t, r)'
      BY <1>1, <2>4, <2>5 DEF AtWork, WakesOwed, Owed
    <3>3. FrontKept(t, r)'
      BY <1>1, <1>5, <1>7, <2>4, <2>5 DEF FrontKept, FrontNow, Following, Agrees
    <3> QED BY <3>1, <3>2, <3>3 DEF AtWork
  <2> QED BY <1>1, <1>2, <1>3, <1>5, <2>2, <2>3, <2>4, <2>5, Works
<1>10. CASE o.cmd # "claim" /\ ~(o.cmd = "done" /\ o.put = "done")
  <2>1. PICK r : r = Idle
    OBVIOUS
  <2>2. Goto(p, r) /\ r.task = None /\ Orderly(r) /\ ~Owed(o)
    BY <1>2, <1>3, <1>10, <2>1, IdleIs DEF FrontWrite, Orderly, Owed, FrontPCs
  <2>3. ASSUME AtWork(t, o) PROVE Settled(t)'
    <3>1. \A a \in Agents : due[<<a, t>>] = wakes[<<a, t>>]
      <4> SUFFICES ASSUME NEW a \in Agents PROVE due[<<a, t>>] = wakes[<<a, t>>]
        OBVIOUS
      <4>1. due[<<a, t>>] = wakes[<<a, t>>] + 0 /\ <<a, t>> \in Scopes
        BY <2>2, <2>3 DEF AtWork, WakesOwed, Scopes
      <4>2. wakes[<<a, t>>] \in Nat
        BY <1>3, <4>1
      <4> QED BY <4>1, <4>2
    <3> QED BY <1>1, <1>5, <1>7, <2>3, <3>1 DEF Settled, Agrees
  <2> QED BY <1>1, <1>2, <1>3, <1>5, <2>2, <2>3, Works
<1> QED
  BY <1>8, <1>9, <1>10

LEMMA StepUndisturbed == TInv /\ UInv /\ BInv /\ [Next]_vars => BInv'
<1> SUFFICES ASSUME TInv, UInv, BInv, [Next]_vars PROVE BInv'
  OBVIOUS
<1>1. ASSUME NEW p \in Procs, Begin(p) \/ Kill(p) \/ Fail(p)
      PROVE  BInv'
  BY <1>1, BeginUndisturbed, KillUndisturbed, FailUndisturbed
<1>2. ASSUME NEW p \in Procs, StoreStep(p)
      PROVE  BInv'
  BY <1>2, AcquireUndisturbed, TimeOutUndisturbed, ReleaseUndisturbed, ClaimUndisturbed,
     ClaimWriteUndisturbed, FindUndisturbed, ReleaseWriteUndisturbed, WakeUndisturbed,
     AsideUndisturbed DEF StoreStep
<1>3. ASSUME NEW p \in Procs, FrontStep(p)
      PROVE  BInv'
  BY <1>3, LookUndisturbed, CheckUndisturbed, OpenUndisturbed, WriteUndisturbed DEF FrontStep
<1>4. CASE UNCHANGED vars
  <2>1. UNCHANGED <<claims, board, due, wakes, locks, disturbed, proc>>
    BY <1>4 DEF vars, claimVars, wakeVars, bounds
  <2>2. \A p \in Procs : Orderly(proc[p])'
    BY <2>1 DEF BInv, Orderly
  <2>3. ASSUME NEW t \in Tasks \ disturbed PROVE Undisturbed(t)'
    <3>1. CASE Quiet(t) /\ Settled(t)
      <4>1. Quiet(t)' /\ Settled(t)'
        BY <2>1, <3>1 DEF Quiet, Settled, Agrees
      <4> QED BY <4>1 DEF Undisturbed
    <3>2. CASE \E p \in Procs : Only(p, t) /\ AtWork(t, proc[p])
      <4>1. PICK p \in Procs : Only(p, t) /\ AtWork(t, proc[p])
        BY <3>2
      <4>2. Only(p, t)' /\ AtWork(t, proc[p])'
        BY <2>1, <4>1 DEF Only, AtWork, OwnLock, LockOf, WakesOwed, Owed, FrontKept, FrontNow,
           Following, Agrees, Shown
      <4> QED BY <4>2 DEF Undisturbed
    <3> QED BY <2>3, <3>1, <3>2 DEF BInv, Undisturbed
  <2> QED BY <2>1, <2>2, <2>3 DEF BInv
<1> QED
  BY <1>1, <1>2, <1>3, <1>4 DEF Next

LEMMA InitUndisturbed == Init => BInv
<1> SUFFICES ASSUME Init PROVE BInv
  OBVIOUS
<1>1. \A p \in Procs : proc[p] = Idle
  BY DEF Init
<1>2. \A p \in Procs : Orderly(proc[p])
  BY <1>1, IdleIs DEF Orderly, FrontPCs
<1>3. ASSUME NEW t \in Tasks PROVE Quiet(t) /\ Settled(t)
  <2>1. Quiet(t)
    BY <1>1, IdleIs, BoardAssumption DEF Quiet
  <2>2. \A a \in Agents : due[<<a, t>>] = wakes[<<a, t>>]
    BY DEF Init, Scopes
  <2> QED BY <2>1, <2>2 DEF Init, Settled, Agrees
<1> QED
  BY <1>2, <1>3 DEF BInv, Undisturbed

\* A task that one command at a time has dealt with, none of them killed or failed,
\* shows the status its claim calls for once no command is under way, has kept the
\* rest of its front matter, and every wake that was due has been written: what
\* the unlocked rewrites of the front matter spoil, they spoil for tasks that
\* two commands deal with at once, or that a killed or failed one leaves behind.
THEOREM UndisturbedRight == Spec => []UndisturbedTask
<1>1. BInv => UndisturbedTask
  <2> SUFFICES ASSUME BInv, NEW t \in Tasks \ disturbed, Quiet(t)
               PROVE  /\ claims[t] # None => board[t].status \in
                           {"done", IF claims[t].status = "claimed" THEN "in_progress" ELSE claims[t].status}
                      /\ board[t].whole
                      /\ \A a \in Agents : wakes[<<a, t>>] = due[<<a, t>>]
    BY DEF UndisturbedTask
  <2>1. Settled(t)
    BY DEF BInv, Undisturbed, Only, Quiet
  <2> QED BY <2>1 DEF Settled, Agrees
<1> QED
  BY InitTyped, InitHeld, InitKept, InitUndisturbed, StepHeld, StepKept, StepUndisturbed, <1>1, PTL
  DEF Spec, HInv
==============================================================================
