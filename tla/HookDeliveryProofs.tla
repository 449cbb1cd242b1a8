-------------------------- MODULE HookDeliveryProofs --------------------------
(***************************************************************************)
(* Why delivery works while processes take turns: what is announced and    *)
(* not accepted stays where it is looked for, no payload is lost, the      *)
(* listener is not called too often, and result.json tells where the hook  *)
(* lies.  Processes may be killed between any two file operations.         *)
(***************************************************************************)
EXTENDS HookDelivery, TLAPS

------------------------------------------------------------------------------
(* The inductive invariant.  p is the local state of the process a, the only *)
(* one that may be at work.                                                  *)

Working(p) == p.pc \notin {"idle", "judge", "open"}
Storing(p) == p.pc \in {"store", "sweep"}
Stored(p) == p.pc \in {"sweep", "persist_read", "persist_write", "finish"}

\* The hook a process works on is known.
TInv == TypeOK /\ \A a \in Procs : Working(proc[a]) => proc[a].slot \in Slot

\* What executors and sessions can be at.
Shape(a, p) ==
  /\ p.pc = "idle" => p = Idle
  /\ p.announcing => Storing(p) /\ p.goal = "pending" /\ a \in Executors
  /\ a \in Executors => p.todo = {} /\ p.kind = "execute" /\ p.pc \notin {"judge", "open"}
  /\ a \in Senders => p.pc \notin {"agent", "finish", "hookless"} /\ (p.pc # "idle" => p.kind # "execute")
  /\ p.kind = "dispatch" => /\ \A s \in p.todo : s.status = "pending"
                            /\ Working(p) => p.slot.status = "pending"
  /\ p.kind = "reconcile" => p.command
  /\ p.kind = "execute" /\ p.pc = "call" => p.slot.status = "pending"
  /\ p.pc = "sweep" => \A i \in DOMAIN p.sweep : p.sweep[i] # p.goal
  /\ \A s \in p.todo : s.status # "sent"
  /\ Working(p) => p.slot \notin p.todo

\* What has been stored is there, and nothing beside it but what is yet to be
\* removed; what is stored as sent has been accepted.
Filed(p) ==
  /\ Stored(p) => hooks[At(p.slot.run, p.goal)] # NoFile
  /\ Stored(p) => \A st \in Statuses :
       hooks[At(p.slot.run, st)] # NoFile =>
         st = p.goal \/ (p.pc = "sweep" /\ \E i \in DOMAIN p.sweep : p.sweep[i] = st)
  /\ Storing(p) /\ p.goal = "sent" => accepted[p.slot.run]

\* An executor works on a run whose result is provisional, and the result a
\* process has read is the one on disk.
Noted(a, p) ==
  /\ a \in Executors /\ p.pc # "idle" => ~result[p.slot.run].final
  /\ p.pc = "persist_write" => p.result = result[p.slot.run]

\* Without a crash there is one copy of a hook, a session finds what it listed,
\* and the result of a run nobody works on tells where its hook lies.
OneCopy(r) ==
  \A st, su \in Statuses : hooks[At(r, st)] # NoFile /\ hooks[At(r, su)] # NoFile => st = su

Unharmed(p) ==
  /\ \A s \in Slot : hooks[s] # NoFile => hooks[s].full
  /\ \A r \in Runs : OneCopy(r) \/ (Storing(p) /\ p.slot.run = r)
  /\ p.pc \in {"call", "store", "sweep", "persist_read", "persist_write"} => p.mem.full
  /\ p.pc = "call" /\ p.kind # "wake" =>
       hooks[p.slot] # NoFile /\ (p.slot.status = "failed" => ~IsDeadLetter(hooks[p.slot]))
  /\ p.pc # "hookless"
  /\ \A s \in p.todo : hooks[s] # NoFile /\ (Working(p) => s.run # p.slot.run)
  /\ \A r \in Runs :
       result[r].final => \/ result[r].told \in Statuses /\ hooks[At(r, result[r].told)] # NoFile
                          \/ Working(p) /\ p.slot.run = r

\* The calls for an announcement are on record in its files, but for those a
\* crash has cost; of two copies one lacks a crash's worth.
Spent == MaxTries * crashes
Waits(r) == hooks[At(r, "pending")] # NoFile
Fails(r) == hooks[At(r, "failed")] # NoFile

Counted(r) ==
  /\ Waits(r) => calls[r] <= Spent
  /\ Fails(r) => calls[r] <= Spent + hooks[At(r, "failed")].tries
  /\ Waits(r) /\ Fails(r) => calls[r] + MaxTries <= Spent + 1

Tried(p) ==
  \A r \in Runs : /\ calls[r] <= Spent + MaxTries
                  /\ Waits(r) => hooks[At(r, "pending")].tries = 0
                  /\ Fails(r) => hooks[At(r, "failed")].tries > 0
                  /\ Counted(r) \/ (Storing(p) /\ p.slot.run = r)

\* What a process that calls has counted.
CallCount(p) ==
  LET r == p.slot.run
  IN  p.pc = "call" =>
        /\ calls[r] <= Spent + p.mem.tries
        /\ p.slot.status = "pending" => p.mem.tries = 0
        /\ p.slot.status # "pending" => p.slot.status = "failed" /\ hooks[p.slot] # NoFile
        /\ p.kind # "wake" => p.mem.tries < MaxTries
        /\ p.kind # "wake" /\ At(r, "pending") \in p.todo => calls[r] + 1 <= Spent

\* What a process that stores has counted.
StoreCount(p) ==
  LET r == p.slot.run
  IN  Storing(p) =>
        /\ Waits(r) /\ (Fails(r) \/ p.goal = "failed") => calls[r] <= Spent + 1
        /\ p.goal = "failed" => p.mem.tries > 0 /\ calls[r] <= Spent + p.mem.tries
        /\ p.goal = "pending" => /\ p.mem.tries = 0
                                 /\ (p.announcing /\ p.pc = "store") \/ calls[r] <= Spent
        /\ p.pc = "sweep" => hooks[At(r, p.goal)].tries = p.mem.tries

\* What a session may still come to.
TodoCount(p) ==
  \A s \in p.todo :
    /\ s.status = "pending" => calls[s.run] <= Spent
    /\ p.kind = "reconcile" /\ s.status = "failed" =>
         /\ hooks[s] # NoFile
         /\ Working(p) => p.slot.run # s.run
         /\ At(s.run, "pending") \in p.todo => calls[s.run] + MaxTries <= Spent + 1

Work(a, p) ==
  /\ Shape(a, p)
  /\ Filed(p)
  /\ UndeliveredKept
  /\ Noted(a, p)
  /\ crashes = 0 => Unharmed(p)
  /\ Tried(p)
  /\ CallCount(p)
  /\ StoreCount(p)
  /\ TodoCount(p)

Alone(a) == \A b \in Procs \ {a} : proc[b] = Idle

HInv == TInv /\ \E a \in Procs : Alone(a) /\ Work(a, proc[a])

------------------------------------------------------------------------------
(* How a step moves the process that takes it. *)

LEMMA PayloadPieces ==
  /\ Fresh \in Payload /\ Blank \in Payload /\ NoFile \notin Payload
  /\ Idle \in Proc
BY SentinelAssumption DEF Fresh, Blank, Payload, Idle, Proc, PCs, NoResult, Result, Statuses

LEMMA Recount ==
  ASSUME NEW m \in Payload, NEW b \in BOOLEAN, NEW c \in BOOLEAN
  PROVE  /\ [m EXCEPT !.tries = @ + 1, !.dead = b] \in Payload
         /\ [m EXCEPT !.tries = @ + 1, !.aged = c, !.dead = b] \in Payload
<1>1. PICK n \in Nat : n = m.tries + 1
  BY DEF Payload
<1>2. [m EXCEPT !.tries = n, !.dead = b] \in Payload
  BY DEF Payload
<1>3. [m EXCEPT !.tries = n, !.aged = c, !.dead = b] \in Payload
  BY DEF Payload
<1> QED BY <1>1, <1>2, <1>3

LEMMA AttemptedPieces ==
  ASSUME NEW m \in Payload, NEW ok \in BOOLEAN
  PROVE  /\ Attempted(m, ok) \in Payload
         /\ Attempted(m, ok).tries = m.tries + 1 /\ Attempted(m, ok).full = m.full
<1>1. PICK b \in BOOLEAN : b = (m.dead \/ (~ok /\ m.tries + 1 >= MaxTries))
  OBVIOUS
<1>2. Attempted(m, ok) = [m EXCEPT !.tries = @ + 1, !.aged = FALSE, !.dead = b]
  BY <1>1 DEF Attempted, Payload
<1>3. [m EXCEPT !.tries = @ + 1, !.aged = FALSE, !.dead = b] \in Payload
  BY Recount
<1>4. PICK n : n = [m EXCEPT !.tries = @ + 1, !.aged = FALSE, !.dead = b]
  OBVIOUS
<1>5. n.tries = m.tries + 1 /\ n.full = m.full
  BY <1>4 DEF Payload
<1> QED BY <1>2, <1>3, <1>4, <1>5

LEMMA Sweeps ==
  ASSUME NEW st \in Statuses
  PROVE  /\ OtherStatuses(st) \in Seq(Statuses)
         /\ \A i \in DOMAIN OtherStatuses(st) : OtherStatuses(st)[i] # st
         /\ \A su \in Statuses : su = st \/ \E i \in DOMAIN OtherStatuses(st) : OtherStatuses(st)[i] = su
<1>1. CASE st = "pending"
  BY <1>1 DEF OtherStatuses, Statuses
<1>2. CASE st = "sent"
  BY <1>2 DEF OtherStatuses, Statuses
<1>3. CASE st = "failed"
  BY <1>3 DEF OtherStatuses, Statuses
<1> QED BY <1>1, <1>2, <1>3 DEF Statuses

LEMMA SlotPieces ==
  ASSUME NEW r \in Runs, NEW st \in Statuses
  PROVE  At(r, st) \in Slot /\ At(r, st).run = r /\ At(r, st).status = st
BY DEF At, Slot

LEMMA SlotIsAt ==
  ASSUME NEW s \in Slot
  PROVE  s.run \in Runs /\ s.status \in Statuses /\ s = At(s.run, s.status)
BY DEF At, Slot

LEMMA ReadTyped ==
  ASSUME TInv, NEW s \in Slot
  PROVE  ReadHook(s) \in Payload
BY PayloadPieces DEF ReadHook, TInv, TypeOK

\* What a step leaves of the other processes.
Moved(a, r) ==
  /\ proc' = [proc EXCEPT ![a] = r]
  /\ r \in Proc
  /\ Working(r) => r.slot \in Slot

LEMMA ExecuteMoves ==
  ASSUME TInv, NEW a \in Executors, Execute(a)
  PROVE  \E run \in Runs, c \in BOOLEAN :
           /\ result' = [result EXCEPT ![run].final = FALSE]
           /\ Moved(a, [Idle EXCEPT !.pc = "agent", !.slot = At(run, "pending"), !.command = c])
<1>1. PICK run \in Runs, c \in BOOLEAN :
        /\ result' = [result EXCEPT ![run].final = FALSE]
        /\ proc' = [proc EXCEPT ![a] = [Idle EXCEPT !.pc = "agent", !.slot = At(run, "pending"), !.command = c]]
  BY DEF Execute, Become
<1>2. At(run, "pending") \in Slot
  BY SlotPieces DEF Statuses
<1>3. [Idle EXCEPT !.pc = "agent", !.slot = At(run, "pending"), !.command = c] \in Proc
  BY <1>2, PayloadPieces DEF Proc, PCs, Idle
<1> QED BY <1>1, <1>2, <1>3 DEF Moved, Idle

LEMMA AgentEndsMoves ==
  ASSUME TInv, NEW a \in Executors, AgentEnds(a)
  PROVE  Moved(a, [proc[a] EXCEPT !.pc = "store", !.mem = Fresh, !.goal = "pending", !.announcing = TRUE])
BY PayloadPieces DEF AgentEnds, Become, Moved, TInv, TypeOK, Procs, Working, Proc, PCs, Statuses

\* A session that begins.
Begun(kind, c) ==
  [Idle EXCEPT !.pc = IF kind = "reconcile" THEN "judge" ELSE "open",
               !.kind = kind, !.command = c, !.todo = Listing(kind)]

LEMMA BeginMoves ==
  ASSUME TInv, NEW a \in Senders, Begin(a)
  PROVE  \E kind \in Kinds, c \in BOOLEAN :
           (kind = "reconcile" => c) /\ Moved(a, Begun(kind, c))
<1>1. PICK kind \in Kinds, c \in BOOLEAN :
        /\ kind = "reconcile" => c
        /\ proc' = [proc EXCEPT ![a] = Begun(kind, c)]
  BY DEF Begin, Become, Begun
<1>2. Listing(kind) \subseteq Slot /\ kind \in {"dispatch", "reconcile", "wake"}
  BY HookAssumption DEF Listing, Files
<1>3. Begun(kind, c) \in Proc
  BY <1>2, PayloadPieces DEF Proc, PCs, Idle, Begun
<1>4. ~Working(Begun(kind, c))
  BY DEF Working, Begun, Idle
<1> QED BY <1>1, <1>3, <1>4 DEF Moved

\* A reconciliation that has judged what it has listed.
Judged(a) ==
  [proc[a] EXCEPT !.pc = "open", !.todo = {s \in @ : s.status = "failed" \/ ReadHook(s).aged}]

LEMMA JudgeMoves ==
  ASSUME TInv, NEW a \in Procs, Judge(a)
  PROVE  Moved(a, Judged(a))
<1>1. proc[a] \in Proc
  BY DEF TInv, TypeOK
<1>2. Judged(a) \in Proc /\ Judged(a).pc = "open"
  BY <1>1 DEF Judged, Proc, PCs
<1> QED BY <1>2 DEF Judge, Become, Moved, Working, Judged

\* An executor whose hook has failed.
Hookless(a) == [Idle EXCEPT !.pc = "hookless", !.slot = proc[a].slot]

LEMMA HookFailsMoves ==
  ASSUME TInv, NEW a \in Executors, HookFails(a)
  PROVE  Moved(a, Hookless(a))
<1>1. a \in Procs /\ proc[a] \in Proc /\ Working(proc[a])
  BY DEF TInv, TypeOK, Procs, HookFails, Working
<1>2. proc[a].slot \in Slot
  BY <1>1 DEF TInv
<1>3. Hookless(a) \in Proc /\ Hookless(a).slot = proc[a].slot
  BY <1>2, PayloadPieces DEF Hookless, Proc, PCs, Idle
<1> QED BY <1>2, <1>3 DEF HookFails, Become, Moved, Hookless

\* The four ways in which a session visits a hook.
Opened(a, s) == [proc[a] EXCEPT !.slot = s, !.mem = ReadHook(s), !.todo = @ \ {s}]
Skipping(a, s) == [proc[a] EXCEPT !.todo = @ \ {s}]
Calling(a, s) == [Opened(a, s) EXCEPT !.pc = "call"]
Handing(a, s) == [Opened(a, s) EXCEPT !.pc = "store", !.goal = "sent", !.mem.tries = @ + 1, !.mem.dead = FALSE]
Restoring(a, s) == [Opened(a, s) EXCEPT !.pc = "store", !.goal = s.status]

LEMMA OpenMoves ==
  ASSUME TInv, NEW a \in Procs, Open(a)
  PROVE  \E s \in NextSlots(a) :
           /\ s \in proc[a].todo /\ s \in Slot
           /\ \/ Skips(a, s) /\ Moved(a, Skipping(a, s)) /\ UNCHANGED accepted
              \/ ~Skips(a, s) /\ proc[a].command /\ Moved(a, Calling(a, s)) /\ UNCHANGED accepted
              \/ /\ ~Skips(a, s) /\ ~proc[a].command /\ proc[a].kind = "wake"
                 /\ Moved(a, Handing(a, s)) /\ accepted' = [accepted EXCEPT ![s.run] = TRUE]
              \/ /\ ~Skips(a, s) /\ ~proc[a].command /\ proc[a].kind # "wake"
                 /\ Moved(a, Restoring(a, s))
                 /\ s.status = "sent" \/ UNCHANGED accepted
<1>0. proc[a] \in Proc /\ proc[a].pc = "open" /\ accepted \in [Runs -> BOOLEAN]
  BY DEF Open, TInv, TypeOK
<1>1. PICK s \in NextSlots(a) :
        /\ proc' = [proc EXCEPT ![a] = Visit(a, s)]
        /\ accepted' = [accepted EXCEPT ![s.run] = @ \/ (Visit(a, s).pc = "store" /\ Visit(a, s).goal = "sent")]
  BY DEF Open, Become
<1>2. s \in proc[a].todo /\ s \in Slot /\ ReadHook(s) \in Payload /\ s.status \in Statuses /\ s.run \in Runs
  BY <1>0, ReadTyped, SlotIsAt DEF NextSlots, Proc
<1>3. Opened(a, s) \in Proc /\ Opened(a, s).slot = s /\ Opened(a, s).mem \in Payload
  BY <1>0, <1>2 DEF Opened, Proc
<1>4. CASE Skips(a, s)
  <2>1. Visit(a, s) = Skipping(a, s)
    BY <1>4 DEF Visit, Skipping
  <2>2. Skipping(a, s) \in Proc /\ Skipping(a, s).pc = "open"
    BY <1>0 DEF Skipping, Proc
  <2>3. accepted' = accepted
    BY <1>0, <1>1, <1>2, <2>1, <2>2
  <2> QED BY <1>1, <1>2, <1>4, <2>1, <2>2, <2>3 DEF Moved, Working
<1>5. CASE ~Skips(a, s) /\ proc[a].command
  <2>1. Visit(a, s) = Calling(a, s)
    BY <1>5 DEF Visit, Calling, Opened
  <2>2. Calling(a, s) \in Proc /\ Calling(a, s).pc = "call" /\ Calling(a, s).slot = s
    BY <1>3 DEF Calling, Proc, PCs
  <2>3. accepted' = accepted
    BY <1>0, <1>1, <1>2, <2>1, <2>2
  <2> QED BY <1>1, <1>2, <1>5, <2>1, <2>2, <2>3 DEF Moved
<1>6. CASE ~Skips(a, s) /\ ~proc[a].command /\ proc[a].kind = "wake"
  <2>1. Visit(a, s) = Handing(a, s)
    BY <1>6 DEF Visit, Handing, Opened
  <2>2. [Opened(a, s).mem EXCEPT !.tries = @ + 1, !.dead = FALSE] \in Payload
    BY <1>3, Recount
  <2>3. Handing(a, s) = [Opened(a, s) EXCEPT !.pc = "store", !.goal = "sent",
                            !.mem = [Opened(a, s).mem EXCEPT !.tries = @ + 1, !.dead = FALSE]]
    BY <1>3 DEF Handing, Proc, Payload
  <2>4. Handing(a, s) \in Proc /\ Handing(a, s).slot = s /\ Handing(a, s).pc = "store" /\ Handing(a, s).goal = "sent"
    BY <1>3, <2>2, <2>3 DEF Proc, PCs, Statuses
  <2>5. accepted' = [accepted EXCEPT ![s.run] = TRUE]
    BY <1>0, <1>1, <1>2, <2>1, <2>4
  <2> QED BY <1>1, <1>2, <1>6, <2>1, <2>4, <2>5 DEF Moved
<1>7. CASE ~Skips(a, s) /\ ~proc[a].command /\ proc[a].kind # "wake"
  <2>1. Visit(a, s) = Restoring(a, s)
    BY <1>7 DEF Visit, Restoring, Opened
  <2>2. Restoring(a, s) \in Proc /\ Restoring(a, s).slot = s /\ Restoring(a, s).goal = s.status
    BY <1>2, <1>3 DEF Restoring, Proc, PCs
  <2>3. s.status = "sent" \/ accepted' = accepted
    BY <1>0, <1>1, <1>2, <2>1, <2>2
  <2> QED BY <1>1, <1>2, <1>7, <2>1, <2>2, <2>3 DEF Moved
<1> QED BY <1>1, <1>2, <1>4, <1>5, <1>6, <1>7

LEMMA IdleMoves ==
  ASSUME TInv, NEW a \in Procs, EndSession(a) \/ FinishRun(a) \/ FinishHookless(a) \/ Crash(a)
  PROVE  Moved(a, Idle)
BY PayloadPieces DEF EndSession, FinishRun, FinishHookless, Crash, Become, Moved, Working, Idle

LEMMA CallMoves ==
  ASSUME TInv, NEW a \in Procs, Call(a)
  PROVE  \E ok, taken \in BOOLEAN :
           /\ ok => taken
           /\ accepted' = [accepted EXCEPT ![proc[a].slot.run] = @ \/ taken]
           /\ Moved(a, [proc[a] EXCEPT !.pc = "store", !.mem = Attempted(@, ok),
                                       !.goal = IF ok THEN "sent" ELSE "failed"])
<1>0. proc[a] \in Proc /\ proc[a].pc = "call" /\ proc[a].slot \in Slot
  BY DEF Call, TInv, TypeOK, Working
<1>1. PICK ok, taken \in BOOLEAN :
        /\ ok => taken
        /\ accepted' = [accepted EXCEPT ![proc[a].slot.run] = @ \/ taken]
        /\ proc' = [proc EXCEPT ![a] = [proc[a] EXCEPT !.pc = "store", !.mem = Attempted(@, ok),
                                                       !.goal = IF ok THEN "sent" ELSE "failed"]]
  BY DEF Call, Become
<1>2. PICK m \in Payload : m = Attempted(proc[a].mem, ok)
  BY <1>0, AttemptedPieces DEF Proc
<1>3. PICK st \in Statuses : st = IF ok THEN "sent" ELSE "failed"
  BY DEF Statuses
<1>4. PICK r : r = [proc[a] EXCEPT !.pc = "store", !.mem = Attempted(@, ok), !.goal = IF ok THEN "sent" ELSE "failed"]
  OBVIOUS
<1>5. r = [proc[a] EXCEPT !.pc = "store", !.mem = m, !.goal = st]
  BY <1>0, <1>2, <1>3, <1>4 DEF Proc
<1>6. r \in Proc /\ r.slot = proc[a].slot
  BY <1>0, <1>5 DEF Proc, PCs
<1> QED BY <1>0, <1>1, <1>4, <1>6 DEF Moved

LEMMA StoreMoves ==
  ASSUME TInv, NEW a \in Procs, Store(a)
  PROVE  Moved(a, [proc[a] EXCEPT !.pc = "sweep", !.sweep = OtherStatuses(proc[a].goal)])
<1>0. proc[a] \in Proc /\ proc[a].pc = "store" /\ proc[a].slot \in Slot
  BY DEF Store, TInv, TypeOK, Working
<1>1. proc[a].goal \in Statuses
  BY <1>0 DEF Proc
<1>2. PICK q \in Seq(Statuses) : q = OtherStatuses(proc[a].goal)
  BY <1>1, Sweeps
<1>3. [proc[a] EXCEPT !.pc = "sweep", !.sweep = q] \in Proc
  BY <1>0 DEF Proc, PCs
<1> QED BY <1>0, <1>2, <1>3 DEF Store, Become, Moved, Proc

LEMMA SweepMoves ==
  ASSUME TInv, NEW a \in Procs, Sweep(a)
  PROVE  /\ Moved(a, [proc[a] EXCEPT !.sweep = Tail(@)])
         /\ proc[a].sweep \in Seq(Statuses) /\ proc[a].sweep # <<>> /\ Head(proc[a].sweep) \in Statuses
<1>0. proc[a] \in Proc /\ proc[a].pc = "sweep" /\ proc[a].slot \in Slot /\ proc[a].sweep # <<>>
  BY DEF Sweep, TInv, TypeOK, Working
<1>1. proc[a].sweep \in Seq(Statuses)
  BY <1>0 DEF Proc
<1>2. Tail(proc[a].sweep) \in Seq(Statuses) /\ Head(proc[a].sweep) \in Statuses
  BY <1>0, <1>1
<1>3. [proc[a] EXCEPT !.sweep = Tail(proc[a].sweep)] \in Proc
  BY <1>0, <1>2 DEF Proc
<1> QED BY <1>0, <1>1, <1>2, <1>3 DEF Sweep, Become, Moved, Proc

\* What the executor that has announced its run goes on with.
Reopened(a) == [proc[a] EXCEPT !.slot = At(proc[a].slot.run, "pending"),
                               !.mem = ReadHook(At(proc[a].slot.run, "pending")),
                               !.announcing = FALSE]

LEMMA SweptMoves ==
  ASSUME TInv, NEW a \in Procs, Swept(a)
  PROVE  \/ ~proc[a].announcing /\ Moved(a, [proc[a] EXCEPT !.pc = "persist_read"])
         \/ proc[a].announcing /\ proc[a].command /\ Moved(a, [Reopened(a) EXCEPT !.pc = "call"])
         \/ proc[a].announcing /\ ~proc[a].command /\ Moved(a, [Reopened(a) EXCEPT !.pc = "store", !.goal = "pending"])
<1>0. proc[a] \in Proc /\ proc[a].pc = "sweep" /\ proc[a].slot \in Slot
  BY DEF Swept, TInv, TypeOK, Working
<1>1. PICK s \in Slot : s = At(proc[a].slot.run, "pending")
  BY <1>0, SlotPieces, SlotIsAt DEF Statuses
<1>2. ReadHook(s) \in Payload
  BY ReadTyped
<1>3. Reopened(a) \in Proc /\ Reopened(a).slot = s
  BY <1>0, <1>1, <1>2 DEF Reopened, Proc
<1>4. CASE ~proc[a].announcing
  BY <1>0, <1>4 DEF Swept, Become, Moved, Proc, PCs
<1>5. CASE proc[a].announcing /\ proc[a].command
  <2>1. [Reopened(a) EXCEPT !.pc = "call"] \in Proc /\ [Reopened(a) EXCEPT !.pc = "call"].slot = s
    BY <1>3 DEF Proc, PCs
  <2> QED BY <1>5, <2>1 DEF Swept, Become, Moved, Reopened
<1>6. CASE proc[a].announcing /\ ~proc[a].command
  <2>1. /\ [Reopened(a) EXCEPT !.pc = "store", !.goal = "pending"] \in Proc
        /\ [Reopened(a) EXCEPT !.pc = "store", !.goal = "pending"].slot = s
    BY <1>3 DEF Proc, PCs, Statuses
  <2> QED BY <1>6, <2>1 DEF Swept, Become, Moved, Reopened
<1> QED BY <1>4, <1>5, <1>6

LEMMA PersistReadMoves ==
  ASSUME TInv, NEW a \in Procs, PersistRead(a)
  PROVE  \/ proc[a].mem.full /\ Moved(a, [proc[a] EXCEPT !.pc = "persist_write", !.result = result[proc[a].slot.run]])
         \/ ~proc[a].mem.full /\ Moved(a, [proc[a] EXCEPT !.pc = AfterPersist(a)])
<1>0. proc[a] \in Proc /\ proc[a].pc = "persist_read" /\ proc[a].slot \in Slot
  BY DEF PersistRead, TInv, TypeOK, Working
<1>1. result[proc[a].slot.run] \in Result
  BY <1>0, SlotIsAt DEF TInv, TypeOK
<1>2. /\ [proc[a] EXCEPT !.pc = "persist_write", !.result = result[proc[a].slot.run]] \in Proc
      /\ [proc[a] EXCEPT !.pc = "persist_write", !.result = result[proc[a].slot.run]].slot = proc[a].slot
      /\ [proc[a] EXCEPT !.pc = AfterPersist(a)] \in Proc
      /\ [proc[a] EXCEPT !.pc = AfterPersist(a)].slot = proc[a].slot
  BY <1>0, <1>1 DEF Proc, PCs, AfterPersist
<1> QED BY <1>0, <1>2 DEF PersistRead, Become, Moved

LEMMA PersistWriteMoves ==
  ASSUME TInv, NEW a \in Procs, PersistWrite(a)
  PROVE  Moved(a, [proc[a] EXCEPT !.pc = AfterPersist(a), !.result = NoResult])
<1>0. proc[a] \in Proc /\ proc[a].pc = "persist_write" /\ proc[a].slot \in Slot
  BY DEF PersistWrite, TInv, TypeOK, Working
<1>1. NoResult \in Result
  BY DEF NoResult, Result
<1>2. /\ [proc[a] EXCEPT !.pc = AfterPersist(a), !.result = NoResult] \in Proc
      /\ [proc[a] EXCEPT !.pc = AfterPersist(a), !.result = NoResult].slot = proc[a].slot
  BY <1>0, <1>1 DEF Proc, PCs, AfterPersist
<1> QED BY <1>0, <1>2 DEF PersistWrite, Become, Moved

------------------------------------------------------------------------------
(* Types *)

LEMMA TypedAfter ==
  ASSUME TInv, NEW a \in Procs, NEW r, Moved(a, r),
         hooks' \in [Slot -> Payload \cup {NoFile}], result' \in [Runs -> Result],
         executions' \in 0 .. MaxExecutions, sessions' \in 0 .. MaxSessions,
         crashes' \in 0 .. MaxCrashes, announced' \subseteq Runs,
         calls' \in [Runs -> Nat], accepted' \in [Runs -> BOOLEAN]
  PROVE  TInv'
<1>1. \A b \in Procs : proc'[b] = IF b = a THEN r ELSE proc[b]
  BY DEF Moved, TInv, TypeOK
<1>2. proc' \in [Procs -> Proc]
  BY DEF Moved, TInv, TypeOK
<1>3. \A b \in Procs : Working(proc'[b]) => proc'[b].slot \in Slot
  BY <1>1 DEF Moved, TInv
<1>4. TypeOK'
  BY <1>2 DEF TypeOK
<1> QED BY <1>3, <1>4 DEF TInv, Working

LEMMA ResultTyped ==
  ASSUME TInv, NEW run \in Runs, NEW x \in Result, NEW b \in BOOLEAN
  PROVE  /\ [result EXCEPT ![run] = x] \in [Runs -> Result]
         /\ [result EXCEPT ![run].final = b] \in [Runs -> Result]
<1>1. PICK y \in Result : y = [result[run] EXCEPT !.final = b]
  BY DEF TInv, TypeOK, Result
<1> QED BY <1>1 DEF TInv, TypeOK

LEMMA TypedExecutor ==
  ASSUME TInv, NEW a \in Executors,
         Execute(a) \/ AgentEnds(a) \/ FinishRun(a) \/ HookFails(a) \/ FinishHookless(a)
  PROVE  TInv'
<1>0. a \in Procs /\ TypeOK
  BY DEF Procs, TInv
<1>1. CASE Execute(a)
  <2>0. /\ executions < MaxExecutions /\ executions' = executions + 1
        /\ executions \in 0 .. MaxExecutions /\ MaxExecutions \in Nat
    BY <1>0, <1>1, HookAssumption DEF Execute, TypeOK
  <2>1. executions' \in 0 .. MaxExecutions
    BY <2>0
  <2>2. result' \in [Runs -> Result]
    <3>1. PICK run \in Runs : result' = [result EXCEPT ![run].final = FALSE]
      BY <1>1, ExecuteMoves
    <3>2. NoResult \in Result
      BY DEF NoResult, Result
    <3> QED BY <3>1, <3>2, ResultTyped
  <2> QED BY <1>0, <1>1, <2>1, <2>2, ExecuteMoves, TypedAfter DEF Execute, TypeOK
<1>2. CASE AgentEnds(a)
  BY <1>0, <1>2, AgentEndsMoves, TypedAfter DEF AgentEnds, TypeOK
<1>3. CASE FinishRun(a)
  <2>1. proc[a] \in Proc /\ proc[a].slot.run \in Runs
    BY <1>0, <1>3, SlotIsAt DEF FinishRun, TypeOK, TInv, Working
  <2>2. [final |-> TRUE, told |-> proc[a].goal] \in Result
    BY <2>1 DEF Result, Proc
  <2>3. result' \in [Runs -> Result]
    BY <1>3, <2>1, <2>2, ResultTyped DEF FinishRun
  <2> QED BY <1>0, <1>3, <2>3, IdleMoves, TypedAfter DEF FinishRun, TypeOK
<1>4. CASE HookFails(a)
  <2>1. crashes' \in 0 .. MaxCrashes
    BY <1>0, <1>4, HookAssumption DEF HookFails, TypeOK
  <2> QED BY <1>0, <1>4, <2>1, HookFailsMoves, TypedAfter DEF HookFails, TypeOK
<1>5. CASE FinishHookless(a)
  <2>1. proc[a].slot.run \in Runs
    BY <1>0, <1>5, SlotIsAt DEF FinishHookless, TInv, Working
  <2>2. [final |-> TRUE, told |-> "none"] \in Result
    BY DEF Result
  <2>3. result' \in [Runs -> Result]
    BY <1>5, <2>1, <2>2, ResultTyped DEF FinishHookless
  <2> QED BY <1>0, <1>5, <2>3, IdleMoves, TypedAfter DEF FinishHookless, TypeOK
<1> QED BY <1>1, <1>2, <1>3, <1>4, <1>5

LEMMA TypedBegin ==
  ASSUME TInv, NEW a \in Senders, Begin(a)
  PROVE  TInv'
<1>0. a \in Procs /\ TypeOK
  BY DEF Procs, TInv
<1>1. sessions' \in 0 .. MaxSessions
  BY <1>0, HookAssumption DEF Begin, TypeOK
<1> QED BY <1>0, <1>1, BeginMoves, TypedAfter DEF Begin, TypeOK

LEMMA TypedDelivery ==
  ASSUME TInv, NEW a \in Procs, Deliver(a)
  PROVE  TInv'
<1>0. TypeOK /\ proc[a] \in Proc
  BY DEF TInv, TypeOK
<1>1. CASE Open(a)
  <2>1. accepted' \in [Runs -> BOOLEAN]
    BY <1>0, <1>1 DEF Open, TypeOK
  <2> QED BY <1>0, <1>1, <2>1, OpenMoves, TypedAfter DEF Open, TypeOK
<1>2. CASE EndSession(a)
  BY <1>0, <1>2, IdleMoves, TypedAfter DEF EndSession, TypeOK
<1>3. CASE Call(a)
  <2>1. proc[a].slot.run \in Runs
    BY <1>3, SlotIsAt DEF Call, TInv, Working
  <2>2. calls' \in [Runs -> Nat]
    BY <1>0, <1>3, <2>1 DEF Call, TypeOK
  <2>3. accepted' \in [Runs -> BOOLEAN]
    BY <1>0, <1>3, <2>1, CallMoves DEF TypeOK
  <2> QED BY <1>0, <1>3, <2>2, <2>3, CallMoves, TypedAfter DEF Call, TypeOK
<1>4. CASE Store(a)
  <2>1. proc[a].slot \in Slot /\ proc[a].slot.run \in Runs /\ proc[a].mem \in Payload /\ proc[a].goal \in Statuses
    BY <1>0, <1>4, SlotIsAt DEF Store, TInv, Working, Proc
  <2>2. PICK t \in Slot : t = [proc[a].slot EXCEPT !.status = proc[a].goal]
    BY <2>1 DEF Slot
  <2>3. hooks' \in [Slot -> Payload \cup {NoFile}] /\ announced' \subseteq Runs
    BY <1>0, <1>4, <2>1, <2>2, SlotIsAt DEF Store, TypeOK
  <2>4. calls' \in [Runs -> Nat] /\ accepted' \in [Runs -> BOOLEAN]
    BY <1>0, <1>4, <2>1, <2>2, SlotIsAt DEF Store, TypeOK
  <2> QED BY <1>0, <1>4, <2>3, <2>4, StoreMoves, TypedAfter DEF Store, TypeOK
<1>5. CASE Sweep(a)
  <2>1. hooks' \in [Slot -> Payload \cup {NoFile}]
    BY <1>0, <1>5 DEF Sweep, TypeOK
  <2> QED BY <1>0, <1>5, <2>1, SweepMoves, TypedAfter DEF Sweep, TypeOK
<1>6. CASE Swept(a)
  BY <1>0, <1>6, SweptMoves, TypedAfter DEF Swept, TypeOK
<1>7. CASE PersistRead(a)
  BY <1>0, <1>7, PersistReadMoves, TypedAfter DEF PersistRead, TypeOK
<1>8. CASE PersistWrite(a)
  <2>1. proc[a].slot.run \in Runs
    BY <1>8, SlotIsAt DEF PersistWrite, TInv, Working
  <2>2. [proc[a].result EXCEPT !.told = proc[a].goal] \in Result
    BY <1>0 DEF Proc, Result
  <2>3. result' \in [Runs -> Result]
    BY <1>8, <2>1, <2>2, ResultTyped DEF PersistWrite
  <2> QED BY <1>0, <1>8, <2>3, PersistWriteMoves, TypedAfter DEF PersistWrite, TypeOK
<1>9. CASE Judge(a)
  BY <1>0, <1>9, JudgeMoves, TypedAfter DEF Judge, TypeOK
<1> QED BY <1>1, <1>2, <1>3, <1>4, <1>5, <1>6, <1>7, <1>8, <1>9 DEF Deliver

LEMMA TypedCrash ==
  ASSUME TInv, NEW a \in Procs, Crash(a)
  PROVE  TInv'
<1>1. crashes' \in 0 .. MaxCrashes
  BY HookAssumption DEF Crash, TInv, TypeOK
<1> QED BY <1>1, IdleMoves, TypedAfter DEF Crash, TInv, TypeOK

LEMMA TypedAges ==
  ASSUME TInv, NEW s \in Slot, Ages(s)
  PROVE  TInv'
<1>1. PICK x \in Payload : x = [hooks[s] EXCEPT !.aged = TRUE]
  BY DEF Ages, TInv, TypeOK, Payload
<1>2. hooks' \in [Slot -> Payload \cup {NoFile}]
  BY <1>1 DEF Ages, TInv, TypeOK
<1> QED BY <1>2 DEF Ages, TInv, TypeOK, Working

LEMMA Typed == ASSUME TInv, [Next]_vars PROVE TInv'
<1>1. ASSUME NEW a \in Executors,
             Execute(a) \/ AgentEnds(a) \/ FinishRun(a) \/ HookFails(a) \/ FinishHookless(a)
      PROVE  TInv'
  BY <1>1, TypedExecutor
<1>2. ASSUME NEW a \in Senders, Begin(a) PROVE TInv'
  BY <1>2, TypedBegin
<1>3. ASSUME NEW a \in Procs, Deliver(a) PROVE TInv'
  BY <1>3, TypedDelivery
<1>4. ASSUME NEW a \in Procs, Crash(a) PROVE TInv'
  BY <1>4, TypedCrash
<1>5. ASSUME NEW s \in Slot, Ages(s) PROVE TInv'
  BY <1>5, TypedAges
<1>6. CASE UNCHANGED vars
  BY <1>6 DEF vars, TInv, TypeOK, Working
<1> QED BY <1>1, <1>2, <1>3, <1>4, <1>5, <1>6 DEF Next

LEMMA TypedInit == ASSUME Init PROVE TInv
<1>1. proc \in [Procs -> Proc] /\ \A a \in Procs : ~Working(proc[a])
  BY PayloadPieces DEF Init, Working, Idle
<1>2. result \in [Runs -> Result]
  BY DEF Init, NoResult, Result
<1> QED BY <1>1, <1>2, HookAssumption DEF Init, TInv, TypeOK

\* The state is well-typed, however the processes interleave.
THEOREM TypeCorrect == Spec => []TypeOK
<1>1. Init => TInv
  BY TypedInit
<1>2. TInv /\ [Next]_vars => TInv'
  BY Typed
<1>3. TInv => TypeOK
  BY DEF TInv
<1> QED BY <1>1, <1>2, <1>3, PTL DEF Spec

------------------------------------------------------------------------------
(* What each step does to the invariant: p is the process before, r after.   *)

LEMMA SpentPieces ==
  ASSUME TInv
  PROVE  Spent \in Nat /\ MaxTries \in Nat /\ MaxTries > 0 /\ crashes \in Nat
BY HookAssumption DEF TInv, TypeOK, Spent

LEMMA SlotEqual ==
  ASSUME NEW q, NEW st, NEW o, NEW su
  PROVE  At(q, st) = At(o, su) <=> q = o /\ st = su
<1>1. At(q, st).run = q /\ At(q, st).status = st /\ At(o, su).run = o /\ At(o, su).status = su
  BY DEF At
<1> QED BY <1>1

LEMMA AtWork ==
  ASSUME TInv, NEW a \in Procs, NEW p, p = proc[a]
  PROVE  /\ p \in Proc
         /\ Working(p) => p.slot \in Slot /\ p.slot.run \in Runs /\ p.slot.status \in Statuses
                          /\ p.slot = At(p.slot.run, p.slot.status)
BY SlotIsAt DEF TInv, TypeOK

LEMMA WorkStore ==
  ASSUME TInv, NEW a \in Procs, NEW p, NEW r, p = proc[a], Work(a, p), Store(a),
         r = [p EXCEPT !.pc = "sweep", !.sweep = OtherStatuses(p.goal)]
  PROVE  Work(a, r)'
<1> DEFINE run == p.slot.run
           target == At(run, p.goal)
<1>0. /\ p \in Proc /\ p.pc = "store" /\ Working(p) /\ Storing(p)
      /\ p.slot \in Slot /\ run \in Runs /\ p.goal \in Statuses /\ p.mem \in Payload
  BY AtWork DEF Store, Working, Storing, Proc
<1>1. /\ r.pc = "sweep" /\ r.kind = p.kind /\ r.todo = p.todo /\ r.slot = p.slot /\ r.mem = p.mem
      /\ r.goal = p.goal /\ r.sweep = OtherStatuses(p.goal) /\ r.announcing = p.announcing
      /\ r.command = p.command /\ r.result = p.result
  BY <1>0 DEF Proc
<1>2. Working(r) /\ Storing(r) /\ Stored(r)
  BY <1>1 DEF Working, Storing, Stored
<1>3. [p.slot EXCEPT !.status = p.goal] = target /\ target \in Slot /\ target.run = run
  BY <1>0, SlotPieces DEF Slot, At
<1>4. /\ \A s \in Slot : hooks'[s] = IF s = target THEN p.mem ELSE hooks[s]
      /\ p.mem # NoFile
  BY <1>0, <1>3, PayloadPieces DEF Store, TInv, TypeOK
<1>5. /\ UNCHANGED <<result, crashes>> /\ announced' = announced \cup {run}
      /\ \A q \in Runs : calls'[q] = IF q = run /\ p.announcing THEN 0 ELSE calls[q]
      /\ \A q \in Runs : accepted'[q] = IF q = run /\ p.announcing THEN FALSE ELSE accepted[q]
  <2>1. [p.slot EXCEPT !.status = p.goal].run = run
    BY <1>3
  <2>2. /\ UNCHANGED <<result, crashes>> /\ announced' = announced \cup {run}
        /\ calls' = [calls EXCEPT ![run] = IF p.announcing THEN 0 ELSE @]
        /\ accepted' = [accepted EXCEPT ![run] = @ /\ ~p.announcing]
    BY <2>1 DEF Store
  <2>3. calls \in [Runs -> Nat] /\ accepted \in [Runs -> BOOLEAN] /\ p.announcing \in BOOLEAN
    BY <1>0 DEF TInv, TypeOK, Proc
  <2>4. \A q \in Runs : calls'[q] = IF q = run /\ p.announcing THEN 0 ELSE calls[q]
    BY <1>0, <2>2, <2>3
  <2>5. \A q \in Runs : accepted'[q] = IF q = run /\ p.announcing THEN FALSE ELSE accepted[q]
    BY <1>0, <2>2, <2>3
  <2> QED BY <2>2, <2>4, <2>5
<1>6. \A q \in Runs, st \in Statuses : hooks'[At(q, st)] = IF q = run /\ st = p.goal THEN p.mem ELSE hooks[At(q, st)]
  BY <1>4, SlotEqual, SlotPieces
<1>7. Spent' = Spent /\ Spent \in Nat /\ MaxTries \in Nat /\ \A q \in Runs : calls[q] \in Nat /\ calls'[q] <= calls[q]
  BY <1>5, SpentPieces DEF Spent, TInv, TypeOK
<1> HIDE DEF run, target
<1>a. Shape(a, r)'
  BY <1>0, <1>1, <1>2, Sweeps DEF Work, Shape
<1>b. Filed(r)'
  <2>1. hooks'[At(run, p.goal)] # NoFile
    BY <1>0, <1>4, <1>6
  <2>2. p.goal = "sent" => accepted'[run]
    BY <1>0, <1>5 DEF Work, Filed, Shape, run
  <2> QED BY <1>0, <1>1, <1>2, <2>1, <2>2, Sweeps DEF Filed, run
<1>c. UndeliveredKept'
  <2> SUFFICES ASSUME NEW q \in announced', ~accepted'[q]
               PROVE  hooks'[At(q, "pending")] # NoFile \/ hooks'[At(q, "failed")] # NoFile
    BY DEF UndeliveredKept
  <2>0. q \in Runs
    BY <1>0, <1>5 DEF TInv, TypeOK
  <2>1. CASE q = run
    <3>1. p.goal # "sent"
      BY <1>0, <1>5, <2>1 DEF Work, Filed, Shape, run
    <3> QED BY <1>0, <1>4, <1>6, <2>0, <2>1, <3>1 DEF Statuses
  <2>2. CASE q # run
    BY <1>5, <1>6, <2>0, <2>2 DEF Work, UndeliveredKept, Statuses
  <2> QED BY <2>1, <2>2
<1>d. Noted(a, r)'
  BY <1>0, <1>1, <1>5 DEF Work, Noted
<1>e. (crashes = 0)' => Unharmed(r)'
  <2> SUFFICES ASSUME crashes = 0 PROVE Unharmed(r)'
    BY <1>5
  <2>0. Unharmed(p) /\ p.mem.full
    BY <1>0 DEF Work, Unharmed
  <2>1. \A s \in Slot : hooks'[s] # NoFile => hooks'[s].full
    BY <1>4, <2>0 DEF Unharmed
  <2>2. \A q \in Runs : OneCopy(q)' \/ run = q
    BY <1>6, <2>0 DEF Unharmed, OneCopy, run
  <2>3. \A s \in r.todo : hooks'[s] # NoFile /\ s.run # run
    BY <1>0, <1>1, <1>4, <2>0 DEF Unharmed, run, Proc
  <2>4. \A q \in Runs : result'[q].final => \/ result'[q].told \in Statuses /\ hooks'[At(q, result'[q].told)] # NoFile
                                            \/ run = q
    BY <1>4, <1>5, <1>6, <2>0 DEF Unharmed, run
  <2> QED BY <1>1, <1>2, <2>0, <2>1, <2>2, <2>3, <2>4 DEF Unharmed, run
<1>f. Tried(r)'
  <2> SUFFICES ASSUME NEW q \in Runs
               PROVE  /\ calls'[q] <= Spent + MaxTries
                      /\ Waits(q)' => hooks'[At(q, "pending")].tries = 0
                      /\ Fails(q)' => hooks'[At(q, "failed")].tries > 0
                      /\ Counted(q)' \/ run = q
    BY <1>1, <1>2, <1>7 DEF Tried, run
  <2>1. Tried(p) /\ StoreCount(p)
    BY DEF Work
  <2>2. calls'[q] <= Spent + MaxTries
    <3>1. calls[q] <= Spent + MaxTries
      BY <2>1 DEF Tried
    <3>2. calls'[q] \in Nat /\ calls[q] \in Nat
      BY <1>5, <1>7
    <3> QED BY <1>7, <3>1, <3>2
  <2>4. /\ Waits(q)' => hooks'[At(q, "pending")].tries = 0
        /\ Fails(q)' => hooks'[At(q, "failed")].tries > 0
    BY <1>0, <1>6, <2>1 DEF Tried, StoreCount, Waits, Fails, Statuses
  <2>3. CASE q # run
    BY <1>5, <1>6, <1>7, <2>1, <2>3 DEF Tried, Counted, Waits, Fails, Statuses, run
  <2> QED BY <2>2, <2>3, <2>4
<1>g. CallCount(r)'
  BY <1>1 DEF CallCount
<1>h. StoreCount(r)'
  <2>1. StoreCount(p)
    BY DEF Work
  <2>2. Waits(run)' /\ (Fails(run)' \/ p.goal = "failed") => calls'[run] <= Spent + 1
    BY <1>0, <1>5, <1>6, <1>7, <2>1 DEF StoreCount, Waits, Fails, Statuses, run
  <2>3. /\ p.goal = "failed" => p.mem.tries > 0 /\ calls'[run] <= Spent + p.mem.tries
        /\ p.goal = "pending" => p.mem.tries = 0 /\ calls'[run] <= Spent
    BY <1>0, <1>5, <1>7, <2>1 DEF StoreCount, run, Payload
  <2>4. hooks'[At(run, p.goal)].tries = p.mem.tries
    BY <1>0, <1>6
  <2> QED BY <1>1, <1>7, <2>2, <2>3, <2>4 DEF StoreCount, run
<1>i. TodoCount(r)'
  <2> SUFFICES ASSUME NEW s \in p.todo
               PROVE  /\ s.status = "pending" => calls'[s.run] <= Spent
                      /\ p.kind = "reconcile" /\ s.status = "failed" =>
                           /\ hooks'[s] # NoFile
                           /\ run # s.run
                           /\ At(s.run, "pending") \in p.todo => calls'[s.run] + MaxTries <= Spent + 1
    BY <1>1, <1>2, <1>7 DEF TodoCount, run
  <2>1. s \in Slot /\ s.run \in Runs
    BY <1>0, SlotIsAt DEF Proc
  <2>2. TodoCount(p)
    BY DEF Work
  <2>3. /\ calls'[s.run] <= calls[s.run] /\ calls'[s.run] \in Nat /\ calls[s.run] \in Nat
        /\ Spent \in Nat /\ MaxTries \in Nat
    BY <1>5, <1>7, <2>1
  <2>4. hooks[s] # NoFile => hooks'[s] # NoFile
    BY <1>4, <2>1
  <2>5. /\ s.status = "pending" => calls[s.run] <= Spent
        /\ p.kind = "reconcile" /\ s.status = "failed" =>
             /\ hooks[s] # NoFile
             /\ run # s.run
             /\ At(s.run, "pending") \in p.todo => calls[s.run] + MaxTries <= Spent + 1
    BY <1>0, <2>2 DEF TodoCount, run
  <2> QED BY <2>3, <2>4, <2>5
<1> QED BY <1>a, <1>b, <1>c, <1>d, <1>e, <1>f, <1>g, <1>h, <1>i DEF Work

LEMMA Tails ==
  ASSUME NEW S, NEW q \in Seq(S), q # <<>>
  PROVE  /\ Head(q) = q[1] /\ 1 \in DOMAIN q
         /\ \A i \in DOMAIN Tail(q) : i + 1 \in DOMAIN q /\ Tail(q)[i] = q[i + 1]
         /\ \A i \in DOMAIN q : q[i] = Head(q) \/ \E j \in DOMAIN Tail(q) : Tail(q)[j] = q[i]
<1>1. Len(q) \in Nat /\ Len(q) > 0 /\ DOMAIN q = 1 .. Len(q)
  OBVIOUS
<1>2. DOMAIN Tail(q) = 1 .. Len(q) - 1 /\ \A i \in 1 .. Len(q) - 1 : Tail(q)[i] = q[i + 1]
  BY <1>1
<1>3. ASSUME NEW i \in DOMAIN q, i # 1
      PROVE  \E j \in DOMAIN Tail(q) : Tail(q)[j] = q[i]
  <2>1. i - 1 \in DOMAIN Tail(q) /\ (i - 1) + 1 = i
    BY <1>1, <1>2, <1>3
  <2> QED BY <1>2, <2>1
<1>4. Head(q) = q[1]
  OBVIOUS
<1> QED BY <1>1, <1>2, <1>3, <1>4

LEMMA WorkSweep ==
  ASSUME TInv, NEW a \in Procs, NEW p, NEW r, p = proc[a], Work(a, p), Sweep(a),
         r = [p EXCEPT !.sweep = Tail(@)]
  PROVE  Work(a, r)'
<1> DEFINE run == p.slot.run
           head == Head(p.sweep)
<1>0. /\ p \in Proc /\ p.pc = "sweep" /\ Working(p) /\ Storing(p) /\ Stored(p)
      /\ p.slot \in Slot /\ run \in Runs /\ p.goal \in Statuses /\ p.mem \in Payload
  BY AtWork DEF Sweep, Working, Storing, Stored, Proc
<1>1. /\ r.pc = "sweep" /\ r.kind = p.kind /\ r.todo = p.todo /\ r.slot = p.slot /\ r.mem = p.mem
      /\ r.goal = p.goal /\ r.sweep = Tail(p.sweep) /\ r.announcing = p.announcing
      /\ r.command = p.command /\ r.result = p.result
  BY <1>0 DEF Proc
<1>2. Working(r) /\ Storing(r) /\ Stored(r)
  BY <1>1 DEF Working, Storing, Stored
<1>3. p.sweep \in Seq(Statuses) /\ p.sweep # <<>> /\ head \in Statuses
  BY SweepMoves
<1>4. /\ \A i \in DOMAIN p.sweep : p.sweep[i] # p.goal
      /\ \A i \in DOMAIN r.sweep : r.sweep[i] # p.goal
      /\ head # p.goal
      /\ \A i \in DOMAIN p.sweep : p.sweep[i] = head \/ \E j \in DOMAIN r.sweep : r.sweep[j] = p.sweep[i]
  BY <1>0, <1>1, <1>3, Tails DEF Work, Shape
<1>5. \A s \in Slot : hooks'[s] = IF s = At(run, head) THEN NoFile ELSE hooks[s]
  BY <1>0, <1>3, SlotPieces DEF Sweep, TInv, TypeOK
<1>6. UNCHANGED <<result, crashes, announced, calls, accepted>>
  BY DEF Sweep
<1>7. \A q \in Runs, st \in Statuses : hooks'[At(q, st)] = IF q = run /\ st = head THEN NoFile ELSE hooks[At(q, st)]
  BY <1>5, SlotEqual, SlotPieces
<1>8. hooks'[At(run, p.goal)] = hooks[At(run, p.goal)] /\ hooks[At(run, p.goal)] # NoFile
  BY <1>0, <1>4, <1>7 DEF Work, Filed
<1>9. Spent' = Spent /\ \A s \in p.todo : s \in Slot /\ s.run \in Runs
  BY <1>0, <1>6, SlotIsAt DEF Spent, Proc
<1> HIDE DEF run, head
<1>a. Shape(a, r)'
  BY <1>0, <1>1, <1>2, <1>4 DEF Work, Shape
<1>b. Filed(r)'
  <2>1. \A st \in Statuses : hooks'[At(run, st)] # NoFile =>
          st = p.goal \/ \E j \in DOMAIN r.sweep : r.sweep[j] = st
    BY <1>0, <1>4, <1>7 DEF Work, Filed, run
  <2> QED BY <1>0, <1>1, <1>2, <1>6, <1>8, <2>1 DEF Work, Filed, run
<1>c. UndeliveredKept'
  <2> SUFFICES ASSUME NEW q \in announced, ~accepted[q]
               PROVE  hooks'[At(q, "pending")] # NoFile \/ hooks'[At(q, "failed")] # NoFile
    BY <1>6 DEF UndeliveredKept
  <2>0. q \in Runs
    BY DEF TInv, TypeOK
  <2>1. CASE q = run
    <3>1. p.goal # "sent"
      BY <1>0, <2>1 DEF Work, Filed, run
    <3> QED BY <1>0, <1>8, <2>1, <3>1 DEF Statuses
  <2>2. CASE q # run
    BY <1>7, <2>0, <2>2 DEF Work, UndeliveredKept, Statuses
  <2> QED BY <2>1, <2>2
<1>d. Noted(a, r)'
  BY <1>0, <1>1, <1>6 DEF Work, Noted
<1>e. (crashes = 0)' => Unharmed(r)'
  <2> SUFFICES ASSUME crashes = 0 PROVE Unharmed(r)'
    BY <1>6
  <2>0. Unharmed(p)
    BY DEF Work
  <2>1. \A s \in Slot : hooks'[s] # NoFile => hooks'[s].full
    BY <1>5, <2>0 DEF Unharmed
  <2>2. \A q \in Runs : OneCopy(q)' \/ run = q
    BY <1>7, <2>0 DEF Unharmed, OneCopy, run
  <2>3. \A s \in r.todo : hooks'[s] # NoFile /\ s.run # run
    <3>1. \A s \in p.todo : hooks[s] # NoFile /\ s.run # run
      BY <1>0, <2>0 DEF Unharmed, run
    <3> QED BY <1>0, <1>1, <1>3, <1>5, <1>9, <3>1, SlotPieces
  <2>4. \A q \in Runs : result'[q].final => \/ result'[q].told \in Statuses /\ hooks'[At(q, result'[q].told)] # NoFile
                                            \/ run = q
    BY <1>6, <1>7, <2>0 DEF Unharmed, run
  <2> QED BY <1>0, <1>1, <1>2, <2>0, <2>1, <2>2, <2>3, <2>4 DEF Unharmed, run
<1>f. Tried(r)'
  <2>1. \A q \in Runs : /\ Waits(q)' => Waits(q) /\ hooks'[At(q, "pending")] = hooks[At(q, "pending")]
                        /\ Fails(q)' => Fails(q) /\ hooks'[At(q, "failed")] = hooks[At(q, "failed")]
    BY <1>7 DEF Waits, Fails, Statuses
  <2> QED BY <1>1, <1>2, <1>6, <1>9, <2>1 DEF Work, Tried, Counted, run
<1>g. CallCount(r)'
  BY <1>1 DEF CallCount
<1>h. StoreCount(r)'
  <2>1. Waits(run)' => Waits(run)
    BY <1>0, <1>7 DEF Waits, Statuses
  <2>2. Fails(run)' => Fails(run)
    BY <1>0, <1>7 DEF Fails, Statuses
  <2> QED BY <1>0, <1>1, <1>2, <1>6, <1>8, <1>9, <2>1, <2>2 DEF Work, StoreCount, run
<1>i. TodoCount(r)'
  <2>1. TodoCount(p)
    BY DEF Work
  <2>2. \A s \in p.todo : p.kind = "reconcile" /\ s.status = "failed" => s.run # run /\ hooks[s] # NoFile
    BY <1>0, <2>1 DEF TodoCount, run
  <2>3. \A s \in p.todo : s.run # run => hooks'[s] = hooks[s]
    BY <1>0, <1>3, <1>5, <1>9, SlotPieces
  <2> QED BY <1>0, <1>1, <1>2, <1>6, <1>9, <2>1, <2>2, <2>3 DEF TodoCount, run
<1> QED BY <1>a, <1>b, <1>c, <1>d, <1>e, <1>f, <1>g, <1>h, <1>i DEF Work

\* Steps that touch no hook and count no call.
LEMMA Untouched ==
  ASSUME TInv, NEW a \in Procs, NEW p, NEW r, Work(a, p),
         UNCHANGED <<hooks, crashes, calls, announced>>,
         \A q \in Runs : accepted[q] => accepted'[q],
         Storing(p) => (Storing(r) /\ r.slot = p.slot) \/ Counted(p.slot.run)
  PROVE  UndeliveredKept' /\ Tried(r)' /\ Spent' = Spent /\ \A q \in Runs : Counted(q)' <=> Counted(q)
<1>1. UndeliveredKept'
  BY DEF Work, UndeliveredKept, TInv, TypeOK
<1>2. Spent' = Spent /\ \A q \in Runs : Counted(q)' <=> Counted(q)
  BY DEF Spent, Counted, Waits, Fails
<1>3. Tried(r)'
  BY <1>2 DEF Work, Tried, Waits, Fails
<1> QED BY <1>1, <1>2, <1>3

\* Once the other copies are gone, the file says what is known of the hook.
LEMMA SweptAway ==
  ASSUME TInv, NEW a \in Procs, NEW p, p = proc[a], Work(a, p), Swept(a)
  PROVE  /\ hooks[At(p.slot.run, p.goal)] # NoFile
         /\ \A st \in Statuses : hooks[At(p.slot.run, st)] # NoFile => st = p.goal
         /\ Counted(p.slot.run)
         /\ crashes = 0 => \A q \in Runs : OneCopy(q)
<1> DEFINE run == p.slot.run
<1>0. /\ p \in Proc /\ p.pc = "sweep" /\ p.sweep = <<>> /\ Working(p) /\ Storing(p) /\ Stored(p)
      /\ run \in Runs /\ p.goal \in Statuses /\ p.mem.tries \in Nat /\ Spent \in Nat
  BY AtWork, SpentPieces DEF Swept, Working, Storing, Stored, Proc, Payload
<1>1. /\ hooks[At(run, p.goal)] # NoFile
      /\ \A st \in Statuses : hooks[At(run, st)] # NoFile => st = p.goal
  BY <1>0 DEF Work, Filed
<1>2. StoreCount(p)
  BY DEF Work
<1>3. ASSUME p.goal = "pending" PROVE Counted(run)
  <2>1. ~Fails(run) /\ calls[run] <= Spent
    BY <1>0, <1>1, <1>2, <1>3 DEF Fails, StoreCount, Statuses
  <2> QED BY <1>0, <1>1, <2>1 DEF Counted
<1>4. ASSUME p.goal = "failed" PROVE Counted(run)
  <2>1. ~Waits(run) /\ calls[run] <= Spent + hooks[At(run, "failed")].tries
    BY <1>0, <1>1, <1>2, <1>4 DEF Waits, StoreCount, Statuses
  <2> QED BY <1>0, <1>1, <2>1 DEF Counted
<1>5. ASSUME p.goal = "sent" PROVE Counted(run)
  BY <1>1, <1>5 DEF Counted, Waits, Fails, Statuses
<1>6. crashes = 0 => \A q \in Runs : OneCopy(q)
  BY <1>0, <1>1 DEF Work, Unharmed, OneCopy
<1> QED BY <1>0, <1>1, <1>3, <1>4, <1>5, <1>6 DEF Statuses

LEMMA WorkSweptOn ==
  ASSUME TInv, NEW a \in Procs, NEW p, NEW r, p = proc[a], Work(a, p), Swept(a), ~p.announcing,
         r = [p EXCEPT !.pc = "persist_read"]
  PROVE  Work(a, r)'
<1> DEFINE run == p.slot.run
<1>0. /\ p \in Proc /\ p.pc = "sweep" /\ p.sweep = <<>> /\ Working(p) /\ Storing(p) /\ Stored(p)
      /\ p.slot \in Slot /\ run \in Runs /\ p.goal \in Statuses
  BY AtWork DEF Swept, Working, Storing, Stored, Proc
<1>1. /\ r.pc = "persist_read" /\ r.kind = p.kind /\ r.todo = p.todo /\ r.slot = p.slot /\ r.mem = p.mem
      /\ r.goal = p.goal /\ r.sweep = <<>> /\ r.announcing = FALSE
      /\ r.command = p.command /\ r.result = p.result
  BY <1>0 DEF Proc
<1>2. Working(r) /\ ~Storing(r) /\ Stored(r)
  BY <1>1 DEF Working, Storing, Stored
<1>3. UNCHANGED <<hooks, result, crashes, announced, calls, accepted>>
  BY DEF Swept
<1>4. UndeliveredKept' /\ Tried(r)' /\ Spent' = Spent
  BY <1>3, SweptAway, Untouched
<1>a. Shape(a, r)'
  BY <1>0, <1>1, <1>2 DEF Work, Shape
<1>b. Filed(r)'
  BY <1>0, <1>1, <1>2, <1>3, SweptAway DEF Filed
<1>d. Noted(a, r)'
  BY <1>0, <1>1, <1>3 DEF Work, Noted
<1>e. (crashes = 0)' => Unharmed(r)'
  <2> SUFFICES ASSUME crashes = 0 PROVE Unharmed(r)'
    BY <1>3
  <2>0. Unharmed(p)
    BY DEF Work
  <2>1. \A q \in Runs : OneCopy(q)'
    BY <1>3, SweptAway DEF OneCopy
  <2> QED BY <1>0, <1>1, <1>2, <1>3, <2>0, <2>1 DEF Unharmed
<1>g. CallCount(r)' /\ StoreCount(r)'
  BY <1>1, <1>2 DEF CallCount, StoreCount
<1>i. TodoCount(r)'
  BY <1>0, <1>1, <1>2, <1>3, <1>4 DEF Work, TodoCount
<1> QED BY <1>4, <1>a, <1>b, <1>d, <1>e, <1>g, <1>i DEF Work

LEMMA WorkSweptAnnounced ==
  ASSUME TInv, NEW a \in Procs, NEW p, NEW r, p = proc[a], Work(a, p), Swept(a), p.announcing,
         \/ r = [Reopened(a) EXCEPT !.pc = "call"]
         \/ r = [Reopened(a) EXCEPT !.pc = "store", !.goal = "pending"]
  PROVE  Work(a, r)'
<1> DEFINE run == p.slot.run
           slot == At(run, "pending")
<1>0. /\ p \in Proc /\ p.pc = "sweep" /\ p.sweep = <<>> /\ Working(p) /\ Storing(p) /\ Stored(p)
      /\ p.slot \in Slot /\ run \in Runs /\ p.goal = "pending"
      /\ a \in Executors /\ p.todo = {} /\ p.kind = "execute"
  BY AtWork DEF Swept, Working, Storing, Stored, Proc, Work, Shape
<1>1. slot \in Slot /\ slot.run = run /\ slot.status = "pending" /\ a \notin Senders
  BY <1>0, SlotPieces, HookAssumption DEF Statuses
<1>2. /\ hooks[slot] # NoFile /\ hooks[slot] \in Payload
      /\ hooks[slot].tries = 0
      /\ ~Fails(run) /\ Counted(run) /\ calls[run] <= Spent /\ Waits(run)
  <2>1. hooks[slot] # NoFile
    BY <1>0, SweptAway
  <2>2. hooks[slot] \in Payload
    BY <1>1, <2>1 DEF TInv, TypeOK
  <2>3. hooks[slot].tries = 0
    BY <1>0, <2>1 DEF Work, Tried, Waits
  <2>4. Counted(run) /\ Waits(run)
    BY <2>1, SweptAway DEF Waits
  <2>5. ~Fails(run)
    BY <1>0, SweptAway DEF Fails, Statuses
  <2> QED BY <2>1, <2>2, <2>3, <2>4, <2>5 DEF Counted
<1>3. /\ r.pc \in {"call", "store"} /\ r.kind = "execute" /\ r.todo = {} /\ r.slot = slot /\ r.mem = hooks[slot]
      /\ r.goal = "pending" /\ r.announcing = FALSE
      /\ r.command = p.command
  BY <1>0, <1>2 DEF Proc, Reopened, ReadHook
<1>4. Working(r) /\ ~Stored(r) /\ r.pc # "sweep" /\ r.pc # "persist_write" /\ r.pc # "idle"
  BY <1>3 DEF Working, Stored
<1>5. UNCHANGED <<hooks, result, crashes, announced, calls, accepted>>
  BY DEF Swept
<1>6. UndeliveredKept' /\ Tried(r)' /\ Spent' = Spent
  BY <1>5, SweptAway, Untouched
<1>7. Spent \in Nat /\ MaxTries \in Nat /\ MaxTries > 0 /\ calls[run] \in Nat
  BY <1>0, SpentPieces DEF TInv, TypeOK
<1> HIDE DEF run, slot
<1>a. Shape(a, r)'
  BY <1>0, <1>1, <1>3, <1>4 DEF Shape
<1>b. Filed(r)'
  BY <1>3, <1>4 DEF Filed
<1>d. Noted(a, r)'
  BY <1>0, <1>1, <1>3, <1>4, <1>5 DEF Work, Noted, run
<1>e. (crashes = 0)' => Unharmed(r)'
  <2> SUFFICES ASSUME crashes = 0 PROVE Unharmed(r)'
    BY <1>5
  <2>0. Unharmed(p)
    BY DEF Work
  <2>1. \A q \in Runs : OneCopy(q)'
    BY <1>5, SweptAway DEF OneCopy
  <2>2. r.mem.full
    BY <1>1, <1>2, <1>3, <2>0 DEF Unharmed
  <2>3. \A q \in Runs : result[q].final => \/ result[q].told \in Statuses /\ hooks[At(q, result[q].told)] # NoFile
                                           \/ run = q
    BY <2>0 DEF Unharmed, run
  <2>4. hooks[r.slot] # NoFile /\ r.slot.status = "pending"
    BY <1>1, <1>2, <1>3
  <2> QED BY <1>1, <1>3, <1>4, <1>5, <2>0, <2>1, <2>2, <2>3, <2>4 DEF Unharmed
<1>g. CallCount(r)'
  BY <1>1, <1>2, <1>3, <1>5, <1>6, <1>7 DEF CallCount
<1>h. StoreCount(r)'
  <2>1. Fails(run)' <=> Fails(run)
    BY <1>5 DEF Fails
  <2> QED BY <1>1, <1>2, <1>3, <1>4, <1>5, <1>6, <1>7, <2>1 DEF StoreCount
<1>i. TodoCount(r)'
  BY <1>3 DEF TodoCount
<1> QED BY <1>6, <1>a, <1>b, <1>d, <1>e, <1>g, <1>h, <1>i DEF Work

LEMMA WorkPersistRead ==
  ASSUME TInv, NEW a \in Procs, NEW p, NEW r, p = proc[a], Work(a, p), PersistRead(a),
         \/ p.mem.full /\ r = [p EXCEPT !.pc = "persist_write", !.result = result[p.slot.run]]
         \/ ~p.mem.full /\ r = [p EXCEPT !.pc = AfterPersist(a)]
  PROVE  Work(a, r)'
<1>0. /\ p \in Proc /\ p.pc = "persist_read" /\ Working(p) /\ ~Storing(p) /\ Stored(p)
      /\ p.slot.run \in Runs
  BY AtWork DEF PersistRead, Working, Storing, Stored
<1>1. /\ r.kind = p.kind /\ r.todo = p.todo /\ r.slot = p.slot /\ r.mem = p.mem
      /\ r.goal = p.goal /\ r.announcing = p.announcing /\ r.command = p.command
      /\ \/ p.mem.full /\ r.pc = "persist_write" /\ r.result = result[p.slot.run]
         \/ ~p.mem.full /\ r.pc = AfterPersist(a)
  BY <1>0 DEF Proc
<1>2. r.pc \in {"persist_write", "finish", "open"} /\ (r.pc = "open" => a \notin Executors)
      /\ (r.pc = "finish" => a \in Executors)
  BY <1>1 DEF AfterPersist
<1>3. ~Storing(r) /\ (Stored(r) => Working(r)) /\ (Working(r) => r.pc # "open")
  BY <1>2 DEF Working, Storing, Stored
<1>4. UNCHANGED <<hooks, result, crashes, announced, calls, accepted>>
  BY DEF PersistRead
<1>5. UndeliveredKept' /\ Tried(r)' /\ Spent' = Spent
  BY <1>0, <1>4, Untouched
<1>a. Shape(a, r)'
  BY <1>0, <1>1, <1>2, <1>3, HookAssumption DEF Work, Shape
<1>b. Filed(r)'
  BY <1>0, <1>1, <1>2, <1>3, <1>4 DEF Work, Filed
<1>d. Noted(a, r)'
  BY <1>0, <1>1, <1>2, <1>4, HookAssumption DEF Work, Noted, AfterPersist
<1>e. (crashes = 0)' => Unharmed(r)'
  <2> SUFFICES ASSUME crashes = 0 PROVE Unharmed(r)'
    BY <1>4
  <2>0. Unharmed(p)
    BY DEF Work
  <2>1. p.mem.full /\ r.pc = "persist_write" /\ Working(r)
    BY <1>0, <1>1, <2>0 DEF Unharmed, Working
  <2>2. \A q \in Runs : OneCopy(q)'
    BY <1>0, <1>4, <2>0 DEF Unharmed, OneCopy
  <2> QED BY <1>0, <1>1, <1>4, <2>0, <2>1, <2>2 DEF Unharmed
<1>g. CallCount(r)' /\ StoreCount(r)'
  BY <1>2, <1>3 DEF CallCount, StoreCount
<1>i. TodoCount(r)'
  BY <1>0, <1>1, <1>4, <1>5 DEF Work, TodoCount
<1> QED BY <1>5, <1>a, <1>b, <1>d, <1>e, <1>g, <1>i DEF Work

LEMMA WorkPersistWrite ==
  ASSUME TInv, NEW a \in Procs, NEW p, NEW r, p = proc[a], Work(a, p), PersistWrite(a),
         r = [p EXCEPT !.pc = AfterPersist(a), !.result = NoResult]
  PROVE  Work(a, r)'
<1>0. /\ p \in Proc /\ p.pc = "persist_write" /\ Working(p) /\ ~Storing(p) /\ Stored(p)
      /\ p.slot.run \in Runs /\ p.goal \in Statuses /\ p.result \in Result
  BY AtWork DEF PersistWrite, Working, Storing, Stored, Proc
<1>1. /\ r.kind = p.kind /\ r.todo = p.todo /\ r.slot = p.slot /\ r.mem = p.mem
      /\ r.goal = p.goal /\ r.announcing = p.announcing /\ r.command = p.command
      /\ r.pc = AfterPersist(a)
  BY <1>0 DEF Proc
<1>2. r.pc \in {"finish", "open"} /\ (r.pc = "open" => a \notin Executors)
      /\ (r.pc = "finish" => a \in Executors)
  BY <1>1 DEF AfterPersist
<1>3. ~Storing(r) /\ (Stored(r) => Working(r)) /\ (Working(r) => r.pc # "open")
  BY <1>2 DEF Working, Storing, Stored
<1>4. UNCHANGED <<hooks, crashes, announced, calls, accepted>>
  BY DEF PersistWrite
<1>5. UndeliveredKept' /\ Tried(r)' /\ Spent' = Spent
  BY <1>0, <1>4, Untouched
<1>6. \A q \in Runs : /\ result'[q].final = result[q].final
                      /\ result'[q].told = IF q = p.slot.run THEN p.goal ELSE result[q].told
  <2>1. \A q \in Runs : result'[q] = IF q = p.slot.run THEN [p.result EXCEPT !.told = p.goal] ELSE result[q]
    BY <1>0 DEF PersistWrite, TInv, TypeOK
  <2>2. p.result = result[p.slot.run]
    BY <1>0 DEF Work, Noted
  <2> QED BY <1>0, <2>1, <2>2 DEF Result
<1>a. Shape(a, r)'
  BY <1>0, <1>1, <1>2, <1>3, HookAssumption DEF Work, Shape
<1>b. Filed(r)'
  BY <1>0, <1>1, <1>2, <1>3, <1>4 DEF Work, Filed
<1>d. Noted(a, r)'
  BY <1>0, <1>1, <1>2, <1>6 DEF Work, Noted
<1>e. (crashes = 0)' => Unharmed(r)'
  <2> SUFFICES ASSUME crashes = 0 PROVE Unharmed(r)'
    BY <1>4
  <2>0. Unharmed(p)
    BY DEF Work
  <2>1. hooks[At(p.slot.run, p.goal)] # NoFile
    BY <1>0 DEF Work, Filed
  <2>2. \A q \in Runs : OneCopy(q)'
    BY <1>0, <1>4, <2>0 DEF Unharmed, OneCopy
  <2>3. \A q \in Runs : result'[q].final => result'[q].told \in Statuses /\ hooks'[At(q, result'[q].told)] # NoFile
    BY <1>0, <1>4, <1>6, <2>0, <2>1 DEF Unharmed
  <2> QED BY <1>0, <1>1, <1>2, <1>4, <2>0, <2>2, <2>3 DEF Unharmed
<1>g. CallCount(r)' /\ StoreCount(r)'
  BY <1>2, <1>3 DEF CallCount, StoreCount
<1>i. TodoCount(r)'
  BY <1>0, <1>1, <1>4, <1>5 DEF Work, TodoCount
<1> QED BY <1>5, <1>a, <1>b, <1>d, <1>e, <1>g, <1>i DEF Work

LEMMA IdlePieces ==
  /\ Idle.pc = "idle" /\ Idle.todo = {} /\ Idle.announcing = FALSE /\ Idle.kind = "execute"
  /\ ~Working(Idle) /\ ~Storing(Idle) /\ ~Stored(Idle)
  /\ \A a \in Procs : Shape(a, Idle) /\ Noted(a, Idle)
  /\ Filed(Idle) /\ CallCount(Idle) /\ StoreCount(Idle) /\ TodoCount(Idle)
<1>1. /\ Idle.pc = "idle" /\ Idle.todo = {} /\ Idle.announcing = FALSE /\ Idle.kind = "execute"
      /\ ~Working(Idle) /\ ~Storing(Idle) /\ ~Stored(Idle)
  BY DEF Idle, Working, Storing, Stored
<1> QED BY <1>1 DEF Shape, Noted, Filed, CallCount, StoreCount, TodoCount

LEMMA WorkFinish ==
  ASSUME TInv, NEW a \in Procs, NEW p, p = proc[a], Work(a, p), FinishRun(a)
  PROVE  Work(a, Idle)'
<1>0. /\ p \in Proc /\ p.pc = "finish" /\ Working(p) /\ ~Storing(p) /\ Stored(p)
      /\ p.slot.run \in Runs /\ p.goal \in Statuses
  BY AtWork DEF FinishRun, Working, Storing, Stored, Proc
<1>1. UNCHANGED <<hooks, crashes, announced, calls, accepted>>
  BY DEF FinishRun
<1>2. UndeliveredKept' /\ Tried(Idle)'
  BY <1>0, <1>1, Untouched
<1>3. \A q \in Runs : result'[q] = IF q = p.slot.run THEN [final |-> TRUE, told |-> p.goal] ELSE result[q]
  BY <1>0 DEF FinishRun, TInv, TypeOK
<1>4. ASSUME crashes = 0 PROVE Unharmed(Idle)'
  <2>0. Unharmed(p)
    BY <1>4 DEF Work
  <2>1. hooks[At(p.slot.run, p.goal)] # NoFile
    BY <1>0 DEF Work, Filed
  <2>2. \A q \in Runs : OneCopy(q)'
    BY <1>0, <1>1, <2>0 DEF Unharmed, OneCopy
  <2>3. \A q \in Runs : result'[q].final => result'[q].told \in Statuses /\ hooks'[At(q, result'[q].told)] # NoFile
    BY <1>0, <1>1, <1>3, <2>0, <2>1 DEF Unharmed
  <2> QED BY <1>1, <2>0, <2>2, <2>3, IdlePieces DEF Unharmed
<1>5. /\ Shape(a, Idle)' /\ Noted(a, Idle)' /\ Filed(Idle)'
      /\ CallCount(Idle)' /\ StoreCount(Idle)' /\ TodoCount(Idle)'
  BY IdlePieces DEF Shape, Noted, Filed, CallCount, StoreCount, TodoCount
<1> QED BY <1>1, <1>2, <1>4, <1>5 DEF Work

LEMMA WorkEndSession ==
  ASSUME TInv, NEW a \in Procs, NEW p, p = proc[a], Work(a, p), EndSession(a)
  PROVE  Work(a, Idle)'
<1>0. /\ p \in Proc /\ p.pc = "open" /\ ~Working(p) /\ ~Storing(p)
  BY AtWork DEF EndSession, Working, Storing
<1>1. UNCHANGED <<hooks, result, crashes, announced, calls, accepted>>
  BY DEF EndSession
<1>2. UndeliveredKept' /\ Tried(Idle)'
  BY <1>0, <1>1, Untouched
<1>4. ASSUME crashes = 0 PROVE Unharmed(Idle)'
  <2>0. Unharmed(p)
    BY <1>4 DEF Work
  <2>2. \A q \in Runs : OneCopy(q)'
    BY <1>0, <1>1, <2>0 DEF Unharmed, OneCopy
  <2> QED BY <1>0, <1>1, <2>0, <2>2, IdlePieces DEF Unharmed
<1>5. /\ Shape(a, Idle)' /\ Noted(a, Idle)' /\ Filed(Idle)'
      /\ CallCount(Idle)' /\ StoreCount(Idle)' /\ TodoCount(Idle)'
  BY IdlePieces DEF Shape, Noted, Filed, CallCount, StoreCount, TodoCount
<1> QED BY <1>1, <1>2, <1>4, <1>5 DEF Work

\* The result says that the hook is missing; a crash has been counted.
LEMMA WorkFinishHookless ==
  ASSUME TInv, NEW a \in Procs, NEW p, p = proc[a], Work(a, p), FinishHookless(a)
  PROVE  Work(a, Idle)'
<1>0. /\ p \in Proc /\ p.pc = "hookless" /\ ~Storing(p)
      /\ crashes # 0
  BY AtWork DEF FinishHookless, Storing, Work, Unharmed
<1>1. UNCHANGED <<hooks, crashes, announced, calls, accepted>>
  BY DEF FinishHookless
<1>2. UndeliveredKept' /\ Tried(Idle)'
  BY <1>0, <1>1, Untouched
<1>3. /\ Shape(a, Idle)' /\ Noted(a, Idle)' /\ Filed(Idle)'
      /\ CallCount(Idle)' /\ StoreCount(Idle)' /\ TodoCount(Idle)'
  BY IdlePieces DEF Shape, Noted, Filed, CallCount, StoreCount, TodoCount
<1> QED BY <1>0, <1>1, <1>2, <1>3 DEF Work

LEMMA WorkJudge ==
  ASSUME TInv, NEW a \in Procs, NEW p, NEW r, p = proc[a], Work(a, p), Judge(a), r = Judged(a)
  PROVE  Work(a, r)'
<1>0. p \in Proc /\ p.pc = "judge" /\ ~Working(p) /\ ~Storing(p) /\ a \notin Executors
  BY AtWork DEF Judge, Working, Storing, Work, Shape
<1>1. /\ r.pc = "open" /\ r.kind = p.kind /\ r.command = p.command /\ r.announcing = p.announcing
      /\ r.todo \subseteq p.todo
  BY <1>0 DEF Judged, Proc
<1>2. ~Working(r) /\ ~Storing(r) /\ ~Stored(r)
  BY <1>1 DEF Working, Storing, Stored
<1>3. UNCHANGED <<hooks, result, crashes, announced, calls, accepted>>
  BY DEF Judge
<1>4. UndeliveredKept' /\ Tried(r)' /\ Spent' = Spent
  BY <1>0, <1>3, Untouched
<1>a. Shape(a, r)'
  BY <1>0, <1>1, <1>2 DEF Work, Shape
<1>b. Filed(r)' /\ Noted(a, r)' /\ CallCount(r)' /\ StoreCount(r)'
  BY <1>0, <1>1, <1>2 DEF Filed, Noted, CallCount, StoreCount
<1>e. (crashes = 0)' => Unharmed(r)'
  <2> SUFFICES ASSUME crashes = 0 PROVE Unharmed(r)'
    BY <1>3
  <2>0. Unharmed(p)
    BY DEF Work
  <2>1. \A q \in Runs : OneCopy(q)'
    BY <1>0, <1>3, <2>0 DEF Unharmed, OneCopy
  <2> QED BY <1>0, <1>1, <1>2, <1>3, <2>0, <2>1 DEF Unharmed
<1>i. TodoCount(r)'
  BY <1>0, <1>1, <1>2, <1>3, <1>4 DEF Work, TodoCount
<1> QED BY <1>4, <1>a, <1>b, <1>e, <1>i DEF Work

\* What is stopped forgets the calls of one announcement; the bounds have room for it.
LEMMA WorkStopped ==
  ASSUME TInv, NEW a \in Procs, NEW p, p = proc[a], Work(a, p),
         UNCHANGED <<hooks, result, announced, calls, accepted>>, crashes' = crashes + 1,
         NEW r, ~Storing(r)
  PROVE  UndeliveredKept' /\ Tried(r)' /\ crashes' # 0
<1>1. UNCHANGED <<hooks, result, announced, calls, accepted>> /\ crashes' = crashes + 1
  OBVIOUS
<1>2. Spent' = Spent + MaxTries /\ Spent \in Nat /\ MaxTries \in Nat /\ crashes' # 0
  BY <1>1, SpentPieces DEF Spent
<1>3. UndeliveredKept'
  BY <1>1 DEF Work, UndeliveredKept
<1>4. Tried(r)'
  <2> SUFFICES ASSUME NEW q \in Runs
               PROVE  /\ calls[q] <= Spent' + MaxTries
                      /\ Waits(q) => hooks[At(q, "pending")].tries = 0
                      /\ Fails(q) => hooks[At(q, "failed")].tries > 0
                      /\ Counted(q)'
    BY <1>1 DEF Tried, Waits, Fails
  <2>1. /\ calls[q] <= Spent + MaxTries /\ calls[q] \in Nat
        /\ Waits(q) => hooks[At(q, "pending")].tries = 0
        /\ Fails(q) => hooks[At(q, "failed")].tries > 0 /\ hooks[At(q, "failed")].tries \in Nat
    BY SlotPieces DEF Work, Tried, Fails, TInv, TypeOK, Payload, Statuses
  <2>2. CASE Counted(q)
    BY <1>1, <1>2, <2>1, <2>2 DEF Counted, Waits, Fails
  <2>3. CASE Storing(p) /\ p.slot.run = q
    <3>1. Waits(q) /\ Fails(q) => calls[q] <= Spent + 1
      BY <2>3 DEF Work, StoreCount
    <3> QED BY <1>1, <1>2, <2>1, <3>1 DEF Counted, Waits, Fails
  <2>4. Counted(q) \/ (Storing(p) /\ p.slot.run = q)
    BY DEF Work, Tried
  <2> QED BY <1>2, <2>1, <2>2, <2>3, <2>4
<1> QED BY <1>2, <1>3, <1>4

LEMMA WorkCrash ==
  ASSUME TInv, NEW a \in Procs, NEW p, p = proc[a], Work(a, p), Crash(a)
  PROVE  Work(a, Idle)'
<1>1. UNCHANGED <<hooks, result, announced, calls, accepted>> /\ crashes' = crashes + 1
  BY DEF Crash
<1>2. UndeliveredKept' /\ Tried(Idle)' /\ crashes' # 0
  BY <1>1, IdlePieces, WorkStopped
<1>3. /\ Shape(a, Idle)' /\ Noted(a, Idle)' /\ Filed(Idle)'
      /\ CallCount(Idle)' /\ StoreCount(Idle)' /\ TodoCount(Idle)'
  BY IdlePieces DEF Shape, Noted, Filed, CallCount, StoreCount, TodoCount
<1> QED BY <1>2, <1>3 DEF Work

LEMMA WorkHookFails ==
  ASSUME TInv, NEW a \in Executors, NEW p, NEW r, p = proc[a], Work(a, p), HookFails(a), r = Hookless(a)
  PROVE  Work(a, r)'
<1>0. a \in Procs /\ a \notin Senders /\ p.pc # "idle"
  BY HookAssumption DEF Procs, HookFails
<1>1. UNCHANGED <<hooks, result, announced, calls, accepted>> /\ crashes' = crashes + 1
  BY DEF HookFails
<1>2. /\ r.pc = "hookless" /\ r.todo = {} /\ ~r.announcing /\ r.kind = "execute" /\ r.slot = p.slot
      /\ ~Storing(r) /\ ~Stored(r)
  BY DEF Hookless, Idle, Storing, Stored
<1>3. UndeliveredKept' /\ Tried(r)' /\ crashes' # 0
  BY <1>0, <1>1, <1>2, WorkStopped
<1>4. Shape(a, r)' /\ Filed(r)' /\ CallCount(r)' /\ StoreCount(r)' /\ TodoCount(r)'
  BY <1>0, <1>2 DEF Shape, Filed, CallCount, StoreCount, TodoCount
<1>5. Noted(a, r)'
  BY <1>0, <1>1, <1>2 DEF Work, Noted
<1> QED BY <1>3, <1>4, <1>5 DEF Work

LEMMA WorkExecute ==
  ASSUME TInv, NEW a \in Executors, NEW p, NEW r, p = proc[a], Work(a, p), Execute(a),
         NEW run \in Runs, NEW c \in BOOLEAN, result' = [result EXCEPT ![run].final = FALSE],
         r = [Idle EXCEPT !.pc = "agent", !.slot = At(run, "pending"), !.command = c]
  PROVE  Work(a, r)'
<1>0. p = Idle /\ a \in Procs /\ a \notin Senders
  BY HookAssumption DEF Execute, Turn, Work, Shape, Procs
<1>1. /\ r.kind = "execute" /\ r.todo = {} /\ r.slot = At(run, "pending")
      /\ r.announcing = FALSE /\ r.pc = "agent"
  BY DEF Idle
<1>2. ~Storing(r) /\ ~Stored(r) /\ Working(r) /\ r.slot.run = run
  BY <1>1, SlotPieces DEF Working, Storing, Stored, Statuses
<1>3. UNCHANGED <<hooks, crashes, announced, calls, accepted>>
  BY DEF Execute
<1>4. UndeliveredKept' /\ Tried(r)' /\ Spent' = Spent
  BY <1>0, <1>3, IdlePieces, Untouched
<1>5. \A q \in Runs : /\ result'[q].final = IF q = run THEN FALSE ELSE result[q].final
                      /\ q # run => result'[q] = result[q]
  BY DEF TInv, TypeOK, Result
<1>a. Shape(a, r)'
  BY <1>0, <1>1, <1>2 DEF Shape
<1>b. Filed(r)' /\ Noted(a, r)'
  BY <1>1, <1>2, <1>5 DEF Filed, Noted
<1>e. (crashes = 0)' => Unharmed(r)'
  <2> SUFFICES ASSUME crashes = 0 PROVE Unharmed(r)'
    BY <1>3
  <2>0. Unharmed(p)
    BY DEF Work
  <2>1. \A q \in Runs : OneCopy(q)'
    BY <1>0, <1>3, <2>0, IdlePieces DEF Unharmed, OneCopy
  <2>2. \A q \in Runs : result'[q].final => result'[q].told \in Statuses /\ hooks[At(q, result'[q].told)] # NoFile
    BY <1>0, <1>5, <2>0, IdlePieces DEF Unharmed
  <2> QED BY <1>1, <1>3, <2>0, <2>1, <2>2 DEF Unharmed
<1>g. CallCount(r)' /\ StoreCount(r)' /\ TodoCount(r)'
  BY <1>1, <1>2 DEF CallCount, StoreCount, TodoCount
<1> QED BY <1>4, <1>a, <1>b, <1>e, <1>g DEF Work

LEMMA WorkAgentEnds ==
  ASSUME TInv, NEW a \in Executors, NEW p, NEW r, p = proc[a], Work(a, p), AgentEnds(a),
         r = [p EXCEPT !.pc = "store", !.mem = Fresh, !.goal = "pending", !.announcing = TRUE]
  PROVE  Work(a, r)'
<1> DEFINE run == p.slot.run
<1>0. /\ p \in Proc /\ p.pc = "agent" /\ Working(p) /\ ~Storing(p) /\ a \in Procs /\ a \notin Senders
      /\ run \in Runs /\ p.todo = {} /\ p.kind = "execute"
  BY AtWork, HookAssumption DEF AgentEnds, Working, Storing, Procs, Work, Shape
<1>1. /\ r.kind = "execute" /\ r.todo = {} /\ r.slot = p.slot /\ r.mem = Fresh
      /\ r.announcing = TRUE /\ r.pc = "store" /\ r.goal = "pending"
  BY <1>0 DEF Proc
<1>2. Storing(r) /\ ~Stored(r) /\ Working(r)
  BY <1>1 DEF Working, Storing, Stored
<1>3. UNCHANGED <<hooks, result, crashes, announced, calls, accepted>>
  BY DEF AgentEnds
<1>4. UndeliveredKept' /\ Tried(r)' /\ Spent' = Spent
  BY <1>0, <1>3, Untouched
<1>a. Shape(a, r)'
  BY <1>0, <1>1, <1>2 DEF Shape
<1>b. Filed(r)' /\ Noted(a, r)'
  BY <1>0, <1>1, <1>2, <1>3 DEF Work, Filed, Noted
<1>e. (crashes = 0)' => Unharmed(r)'
  <2> SUFFICES ASSUME crashes = 0 PROVE Unharmed(r)'
    BY <1>3
  <2>0. Unharmed(p)
    BY DEF Work
  <2>1. \A q \in Runs : OneCopy(q)'
    BY <1>0, <1>3, <2>0 DEF Unharmed, OneCopy
  <2>2. r.mem.full
    BY <1>1 DEF Fresh
  <2> QED BY <1>0, <1>1, <1>2, <1>3, <2>0, <2>1, <2>2 DEF Unharmed
<1>g. StoreCount(r)'
  <2>1. Counted(run)
    BY <1>0 DEF Work, Tried
  <2>2. calls[run] \in Nat /\ Spent \in Nat /\ MaxTries \in Nat /\ MaxTries > 0
    BY <1>0, SpentPieces DEF TInv, TypeOK
  <2>3. Waits(run) /\ Fails(run) => calls[run] <= Spent + 1
    BY <2>1, <2>2 DEF Counted
  <2>4. Waits(run)' = Waits(run) /\ Fails(run)' = Fails(run) /\ Fresh.tries = 0
    BY <1>3 DEF Waits, Fails, Fresh
  <2> QED BY <1>1, <1>3, <1>4, <2>3, <2>4 DEF StoreCount
<1>h. CallCount(r)' /\ TodoCount(r)'
  BY <1>1 DEF CallCount, TodoCount
<1> QED BY <1>4, <1>a, <1>b, <1>e, <1>g, <1>h DEF Work

LEMMA WorkBegin ==
  ASSUME TInv, NEW a \in Senders, NEW p, NEW r, p = proc[a], Work(a, p), Begin(a),
         NEW kind \in Kinds, NEW c \in BOOLEAN, kind = "reconcile" => c, r = Begun(kind, c)
  PROVE  Work(a, r)'
<1>0. p = Idle /\ a \in Procs /\ a \notin Executors
  BY HookAssumption DEF Begin, Turn, Work, Shape, Procs
<1>1. /\ r.kind = kind /\ r.todo = Listing(kind) /\ r.command = c
      /\ r.announcing = FALSE /\ r.pc \in {"judge", "open"}
  BY DEF Idle, Begun
<1>2. ~Storing(r) /\ ~Stored(r) /\ ~Working(r)
  BY <1>1 DEF Working, Storing, Stored
<1>3. UNCHANGED <<hooks, result, crashes, announced, calls, accepted>>
  BY DEF Begin
<1>4. UndeliveredKept' /\ Tried(r)' /\ Spent' = Spent
  BY <1>0, <1>3, IdlePieces, Untouched
<1>5. kind \in {"dispatch", "reconcile", "wake"}
  BY HookAssumption
<1>6. \A s \in Listing(kind) : /\ s \in Slot /\ hooks[s] # NoFile /\ s.status \in {"pending", "failed"}
                               /\ kind = "dispatch" => s.status = "pending"
  BY <1>5 DEF Listing, Files
<1>a. Shape(a, r)'
  BY <1>0, <1>1, <1>2, <1>5, <1>6 DEF Shape
<1>b. Filed(r)' /\ Noted(a, r)'
  BY <1>0, <1>1, <1>2 DEF Filed, Noted
<1>e. (crashes = 0)' => Unharmed(r)'
  <2> SUFFICES ASSUME crashes = 0 PROVE Unharmed(r)'
    BY <1>3
  <2>0. Unharmed(p)
    BY DEF Work
  <2>1. \A q \in Runs : OneCopy(q)'
    BY <1>0, <1>3, <2>0, IdlePieces DEF Unharmed, OneCopy
  <2>2. \A q \in Runs : result[q].final => result[q].told \in Statuses /\ hooks[At(q, result[q].told)] # NoFile
    BY <1>0, <2>0, IdlePieces DEF Unharmed
  <2> QED BY <1>1, <1>2, <1>3, <1>6, <2>0, <2>1, <2>2 DEF Unharmed
<1>g. CallCount(r)' /\ StoreCount(r)'
  BY <1>1, <1>2 DEF CallCount, StoreCount
<1>i. TodoCount(r)'
  <2>1. \A q \in Runs : Counted(q)
    BY <1>0, IdlePieces DEF Work, Tried
  <2>2. ASSUME NEW s \in Listing(kind)
        PROVE  /\ s.run \in Runs
               /\ s.status = "pending" => Waits(s.run)
               /\ s.status = "failed" => Fails(s.run)
               /\ At(s.run, "pending") \in Listing(kind) => Waits(s.run)
    <3>1. s \in Slot /\ s = At(s.run, s.status)
      BY <1>6, SlotIsAt
    <3> QED BY <1>6, <3>1, SlotIsAt DEF Waits, Fails
  <2>3. ASSUME NEW s \in Listing(kind)
        PROVE  /\ s.status = "pending" => calls[s.run] <= Spent
               /\ s.status = "failed" =>
                    /\ hooks[s] # NoFile
                    /\ At(s.run, "pending") \in Listing(kind) => calls[s.run] + MaxTries <= Spent + 1
    BY <1>6, <2>1, <2>2 DEF Counted
  <2> QED BY <1>1, <1>2, <1>3, <1>4, <2>3 DEF TodoCount
<1> QED BY <1>4, <1>a, <1>b, <1>e, <1>g, <1>i DEF Work

LEMMA WorkAges ==
  ASSUME TInv, NEW a \in Procs, NEW p, p = proc[a], Work(a, p), NEW s \in Slot, Ages(s)
  PROVE  Work(a, p)'
<1>0. /\ p \in Proc
      /\ Working(p) => p.slot \in Slot /\ p.slot.run \in Runs
      /\ Stored(p) => Working(p)
      /\ Storing(p) => Working(p)
      /\ p.goal \in Statuses /\ p.todo \subseteq Slot
  BY AtWork DEF Stored, Storing, Working, Proc
<1>1. UNCHANGED <<result, crashes, announced, calls, accepted>>
  BY DEF Ages
<1>2. \A t \in Slot : /\ hooks'[t] # NoFile <=> hooks[t] # NoFile
                      /\ hooks[t] # NoFile => hooks'[t].tries = hooks[t].tries /\ hooks'[t].full = hooks[t].full
  <2>1. hooks[s] \in Payload /\ hooks[s] # NoFile
    BY DEF Ages, TInv, TypeOK
  <2>2. PICK x : x = [hooks[s] EXCEPT !.aged = TRUE]
    OBVIOUS
  <2>3. x \in Payload /\ x.tries = hooks[s].tries /\ x.full = hooks[s].full
    BY <2>1, <2>2 DEF Payload
  <2>4. \A t \in Slot : hooks'[t] = IF t = s THEN x ELSE hooks[t]
    BY <2>2 DEF Ages, TInv, TypeOK
  <2> QED BY <2>1, <2>3, <2>4, PayloadPieces
<1>3. \A q \in Runs, st \in Statuses :
        /\ hooks'[At(q, st)] # NoFile <=> hooks[At(q, st)] # NoFile
        /\ hooks[At(q, st)] # NoFile => hooks'[At(q, st)].tries = hooks[At(q, st)].tries
  BY <1>2, SlotPieces
<1>4. Spent' = Spent /\ \A q \in Runs : (Waits(q)' <=> Waits(q)) /\ (Fails(q)' <=> Fails(q)) /\ (Counted(q)' <=> Counted(q))
  BY <1>1, <1>3 DEF Spent, Waits, Fails, Counted, Statuses
<1>a. Shape(a, p)'
  BY DEF Work, Shape
<1>b. Filed(p)'
  BY <1>0, <1>1, <1>3 DEF Work, Filed
<1>c. UndeliveredKept'
  BY <1>1, <1>3 DEF Work, UndeliveredKept, TInv, TypeOK, Statuses
<1>d. Noted(a, p)'
  BY <1>1 DEF Work, Noted
<1>e. (crashes = 0)' => Unharmed(p)'
  <2> SUFFICES ASSUME crashes = 0 PROVE Unharmed(p)'
    BY <1>1
  <2>0. Unharmed(p)
    BY DEF Work
  <2>1. \A t \in Slot : hooks'[t] # NoFile => hooks'[t].full
    BY <1>2, <2>0 DEF Unharmed
  <2>2. \A q \in Runs : OneCopy(q)' <=> OneCopy(q)
    BY <1>3 DEF OneCopy
  <2>3. \A q \in Runs : result[q].final => \/ result[q].told \in Statuses /\ hooks'[At(q, result[q].told)] # NoFile
                                           \/ Working(p) /\ p.slot.run = q
    BY <1>3, <2>0 DEF Unharmed
  <2>4. \A t \in p.todo : hooks'[t] # NoFile /\ (Working(p) => t.run # p.slot.run)
    BY <1>0, <1>2, <2>0 DEF Unharmed
  <2>5. p.pc = "call" /\ p.kind # "wake" =>
          hooks'[p.slot] # NoFile /\ (p.slot.status = "failed" => ~IsDeadLetter(hooks'[p.slot]))
    <3>1. p.slot.status = "failed" => p.slot # s
      BY DEF Ages
    <3>2. p.slot # s => hooks'[p.slot] = hooks[p.slot]
      BY DEF Ages
    <3> QED BY <1>0, <1>2, <2>0, <3>1, <3>2 DEF Unharmed, Working
  <2> QED BY <1>1, <2>0, <2>1, <2>2, <2>3, <2>4, <2>5 DEF Unharmed
<1>f. Tried(p)'
  BY <1>1, <1>3, <1>4 DEF Work, Tried, Waits, Fails, Statuses
<1>g. CallCount(p)'
  BY <1>0, <1>1, <1>2, <1>4 DEF Work, CallCount, Working
<1>h. StoreCount(p)'
  <2>1. p.pc = "sweep" => hooks[At(p.slot.run, p.goal)] # NoFile
    BY DEF Work, Filed, Stored
  <2> QED BY <1>0, <1>1, <1>3, <1>4, <2>1 DEF Work, StoreCount, Storing
<1>i. TodoCount(p)'
  BY <1>0, <1>1, <1>2, <1>4 DEF Work, TodoCount
<1> QED BY <1>a, <1>b, <1>c, <1>d, <1>e, <1>f, <1>g, <1>h, <1>i DEF Work

LEMMA WorkCall ==
  ASSUME TInv, NEW a \in Procs, NEW p, NEW r, p = proc[a], Work(a, p), Call(a),
         NEW ok \in BOOLEAN, NEW taken \in BOOLEAN, ok => taken,
         accepted' = [accepted EXCEPT ![p.slot.run] = @ \/ taken],
         r = [p EXCEPT !.pc = "store", !.mem = Attempted(@, ok), !.goal = IF ok THEN "sent" ELSE "failed"]
  PROVE  Work(a, r)'
<1> DEFINE run == p.slot.run
           goal == IF ok THEN "sent" ELSE "failed"
<1>0. /\ p \in Proc /\ p.pc = "call" /\ Working(p) /\ ~Storing(p) /\ p.slot \in Slot
      /\ run \in Runs /\ p.mem \in Payload /\ p.slot = At(run, p.slot.status) /\ ~p.announcing
  BY AtWork DEF Call, Working, Storing, Proc, Work, Shape
<1>1. /\ r.pc = "store" /\ r.kind = p.kind /\ r.todo = p.todo /\ r.slot = p.slot /\ r.mem = Attempted(p.mem, ok)
      /\ r.goal = goal /\ r.announcing = FALSE /\ r.command = p.command
  BY <1>0 DEF Proc
<1>2. Storing(r) /\ ~Stored(r) /\ Working(r) /\ goal # "pending"
  BY <1>1 DEF Working, Storing, Stored
<1>3. UNCHANGED <<hooks, result, crashes, announced>>
  BY DEF Call
<1>4. r.mem.tries = p.mem.tries + 1 /\ r.mem.full = p.mem.full /\ p.mem.tries \in Nat
  BY <1>0, <1>1, AttemptedPieces DEF Payload
<1>5. /\ \A q \in Runs : calls'[q] = IF q = run /\ p.kind # "wake" THEN calls[q] + 1 ELSE calls[q]
      /\ \A q \in Runs : calls[q] \in Nat
  BY <1>0 DEF Call, TInv, TypeOK
<1>6. /\ \A q \in Runs : accepted[q] => accepted'[q]
      /\ ok => accepted'[run]
  BY <1>0 DEF TInv, TypeOK
<1>7. Spent' = Spent /\ Spent \in Nat /\ MaxTries \in Nat /\ MaxTries > 0
  BY <1>3, SpentPieces DEF Spent
<1>8. \A q \in Runs : Waits(q)' = Waits(q) /\ Fails(q)' = Fails(q)
  BY <1>3 DEF Waits, Fails
<1>9. /\ \A q \in Runs : Counted(q)
      /\ calls[run] <= Spent + p.mem.tries
      /\ p.slot.status = "pending" => p.mem.tries = 0
      /\ p.slot.status # "pending" => Fails(run)
      /\ p.kind # "wake" => p.mem.tries < MaxTries
      /\ p.kind # "wake" /\ At(run, "pending") \in p.todo => calls[run] + 1 <= Spent
  BY <1>0 DEF Work, Tried, CallCount, Fails
<1> HIDE DEF run, goal
<1>a. Shape(a, r)'
  BY <1>0, <1>1, <1>2 DEF Work, Shape
<1>b. Filed(r)'
  BY <1>1, <1>2, <1>6 DEF Filed, goal, run
<1>c. UndeliveredKept'
  BY <1>3, <1>6 DEF Work, UndeliveredKept, TInv, TypeOK
<1>d. Noted(a, r)'
  BY <1>0, <1>1, <1>3 DEF Work, Noted
<1>e. (crashes = 0)' => Unharmed(r)'
  <2> SUFFICES ASSUME crashes = 0 PROVE Unharmed(r)'
    BY <1>3
  <2>0. Unharmed(p)
    BY DEF Work
  <2>1. \A q \in Runs : OneCopy(q)'
    BY <1>0, <1>3, <2>0 DEF Unharmed, OneCopy
  <2> QED BY <1>0, <1>1, <1>2, <1>3, <1>4, <2>0, <2>1 DEF Unharmed
<1>f. Tried(r)'
  <2> SUFFICES ASSUME NEW q \in Runs
               PROVE  /\ calls'[q] <= Spent + MaxTries
                      /\ Waits(q) => hooks[At(q, "pending")].tries = 0
                      /\ Fails(q) => hooks[At(q, "failed")].tries > 0
                      /\ Counted(q)' \/ run = q
    BY <1>1, <1>2, <1>3, <1>7, <1>8 DEF Tried, run
  <2>1. /\ Waits(q) => hooks[At(q, "pending")].tries = 0
        /\ Fails(q) => hooks[At(q, "failed")].tries > 0
        /\ calls[q] <= Spent + MaxTries
    BY DEF Work, Tried
  <2>2. calls'[q] <= Spent + MaxTries
    <3>1. CASE q = run /\ p.kind # "wake"
      <4>1. calls'[q] = calls[run] + 1 /\ calls[run] \in Nat
        BY <1>5, <3>1
      <4> QED BY <1>4, <1>7, <1>9, <3>1, <4>1
    <3>2. CASE ~(q = run /\ p.kind # "wake")
      BY <1>5, <2>1, <3>2
    <3> QED BY <3>1, <3>2
  <2>3. q # run => Counted(q)'
    BY <1>3, <1>5, <1>7, <1>8, <1>9 DEF Counted
  <2> QED BY <2>1, <2>2, <2>3
<1>g. CallCount(r)'
  BY <1>1 DEF CallCount
<1>h. StoreCount(r)'
  <2>0. calls[run] \in Nat /\ calls'[run] \in Nat /\ calls'[run] <= calls[run] + 1
    BY <1>0, <1>5
  <2>1. Waits(run) => calls'[run] <= Spent + 1
    <3>1. CASE Fails(run) /\ Waits(run)
      <4>1. calls[run] + MaxTries <= Spent + 1
        BY <1>0, <1>9, <3>1 DEF Counted
      <4>2. CASE p.kind = "wake"
        BY <1>0, <1>5, <1>7, <2>0, <4>1, <4>2
      <4>3. CASE p.slot.status = "pending"
        BY <1>7, <1>9, <2>0, <4>3
      <4>4. CASE p.slot.status # "pending" /\ p.kind # "wake"
        BY <1>7, <2>0, <4>1
      <4> QED BY <4>2, <4>3, <4>4
    <3>2. CASE ~Fails(run)
      BY <1>7, <1>9, <2>0, <3>2
    <3> QED BY <3>1, <3>2
  <2>2. calls'[run] <= Spent + r.mem.tries /\ r.mem.tries > 0
    BY <1>4, <1>7, <1>9, <2>0
  <2> QED BY <1>1, <1>2, <1>7, <1>8, <1>0, <2>1, <2>2 DEF StoreCount, run
<1>i. TodoCount(r)'
  <2> SUFFICES ASSUME NEW s \in p.todo
               PROVE  /\ s.status = "pending" => calls'[s.run] <= Spent
                      /\ p.kind = "reconcile" /\ s.status = "failed" =>
                           /\ hooks[s] # NoFile
                           /\ run # s.run
                           /\ At(s.run, "pending") \in p.todo => calls'[s.run] + MaxTries <= Spent + 1
    BY <1>1, <1>2, <1>3, <1>7 DEF TodoCount, run
  <2>1. s \in Slot /\ s.run \in Runs /\ s = At(s.run, s.status)
    BY <1>0, SlotIsAt DEF Proc
  <2>2. /\ s.status = "pending" => calls[s.run] <= Spent
        /\ p.kind = "reconcile" /\ s.status = "failed" =>
             /\ hooks[s] # NoFile
             /\ run # s.run
             /\ At(s.run, "pending") \in p.todo => calls[s.run] + MaxTries <= Spent + 1
    BY <1>0 DEF Work, TodoCount, run
  <2>3. s.status = "pending" => calls'[s.run] <= Spent
    <3>1. CASE s.run = run /\ p.kind # "wake" /\ s.status = "pending"
      <4>1. calls[run] + 1 <= Spent
        BY <1>9, <2>1, <3>1
      <4> QED BY <1>0, <1>5, <3>1, <4>1
    <3>2. CASE ~(s.run = run /\ p.kind # "wake")
      BY <1>5, <2>1, <2>2, <3>2
    <3> QED BY <3>1, <3>2
  <2>4. run # s.run => calls'[s.run] = calls[s.run]
    BY <1>5, <2>1
  <2> QED BY <2>2, <2>3, <2>4
<1> QED BY <1>a, <1>b, <1>c, <1>d, <1>e, <1>f, <1>g, <1>h, <1>i DEF Work

\* A session at its listing, about to visit s.
LEMMA Visiting ==
  ASSUME TInv, NEW a \in Procs, NEW p, p = proc[a], Work(a, p), Open(a), NEW s \in NextSlots(a)
  PROVE  /\ p \in Proc /\ p.pc = "open" /\ ~Working(p) /\ ~Storing(p) /\ ~p.announcing
         /\ a \notin Executors /\ p.kind \in {"dispatch", "reconcile", "wake"}
         /\ s \in p.todo /\ p.todo \subseteq Slot /\ s = At(s.run, s.status) /\ s.run \in Runs
         /\ s.status \in {"pending", "failed"}
         /\ p.kind = "dispatch" => s.status = "pending"
         /\ p.kind = "reconcile" => p.command
         /\ p.kind = "reconcile" => \A t \in p.todo : t.status = "failed" => s.status = "failed"
         /\ \A q \in Runs : Counted(q)
         /\ UNCHANGED <<hooks, result, crashes, announced, calls>>
         /\ \A q \in Runs : accepted[q] => accepted'[q]
<1>0. p \in Proc /\ p.pc = "open" /\ ~Working(p) /\ ~Storing(p) /\ ~p.announcing
  BY AtWork DEF Open, Working, Storing, Work, Shape
<1>1. a \notin Executors /\ p.kind \in {"dispatch", "reconcile", "wake"}
  BY <1>0 DEF Work, Shape, Procs, Proc
<1>2. s \in p.todo /\ p.todo \subseteq Slot
  BY <1>0 DEF NextSlots, Proc
<1>3. s = At(s.run, s.status) /\ s.run \in Runs /\ s.status \in {"pending", "failed"}
  BY <1>2, SlotIsAt DEF Work, Shape, Statuses
<1>4. /\ p.kind = "dispatch" => s.status = "pending"
      /\ p.kind = "reconcile" => p.command
  BY <1>2 DEF Work, Shape
<1>5. p.kind = "reconcile" => \A t \in p.todo : t.status = "failed" => s.status = "failed"
  BY DEF NextSlots, Foremost
<1>6. \A q \in Runs : Counted(q)
  BY <1>0 DEF Work, Tried
<1>7. UNCHANGED <<hooks, result, crashes, announced, calls>>
  BY DEF Open
<1>8. \A q \in Runs : accepted[q] => accepted'[q]
  <2>1. accepted \in [Runs -> BOOLEAN]
    BY DEF TInv, TypeOK
  <2>2. PICK t : \E b : accepted' = [accepted EXCEPT ![t.run] = @ \/ b]
    BY DEF Open
  <2> QED BY <2>1, <2>2
<1> QED BY <1>0, <1>1, <1>2, <1>3, <1>4, <1>5, <1>6, <1>7, <1>8

LEMMA WorkSkip ==
  ASSUME TInv, NEW a \in Procs, NEW p, NEW r, p = proc[a], Work(a, p), Open(a),
         NEW s \in NextSlots(a), r = [p EXCEPT !.todo = @ \ {s}]
  PROVE  Work(a, r)'
<1>0. p \in Proc /\ p.pc = "open" /\ ~Working(p) /\ ~Storing(p) /\ a \notin Executors
  BY Visiting
<1>1. /\ r.pc = "open" /\ r.kind = p.kind /\ r.todo = p.todo \ {s} /\ r.command = p.command
      /\ r.announcing = p.announcing
  BY <1>0 DEF Proc
<1>2. ~Working(r) /\ ~Storing(r) /\ ~Stored(r)
  BY <1>1 DEF Working, Storing, Stored
<1>3. UNCHANGED <<hooks, result, crashes, announced, calls>>
  BY Visiting
<1>4. UndeliveredKept' /\ Tried(r)' /\ Spent' = Spent
  BY <1>0, <1>3, Visiting, Untouched
<1>a. Shape(a, r)'
  BY <1>0, <1>1, <1>2 DEF Work, Shape
<1>b. Filed(r)' /\ Noted(a, r)' /\ CallCount(r)' /\ StoreCount(r)'
  BY <1>0, <1>1, <1>2 DEF Filed, Noted, CallCount, StoreCount
<1>e. (crashes = 0)' => Unharmed(r)'
  <2> SUFFICES ASSUME crashes = 0 PROVE Unharmed(r)'
    BY <1>3
  <2>0. Unharmed(p)
    BY DEF Work
  <2>1. \A q \in Runs : OneCopy(q)'
    BY <1>0, <1>3, <2>0 DEF Unharmed, OneCopy
  <2> QED BY <1>0, <1>1, <1>2, <1>3, <2>0, <2>1 DEF Unharmed
<1>i. TodoCount(r)'
  BY <1>1, <1>2, <1>3, <1>4 DEF Work, TodoCount
<1> QED BY <1>4, <1>a, <1>b, <1>e, <1>i DEF Work

\* What holds of a session that has opened s, whatever it does with it.
LEMMA OpenedPieces ==
  ASSUME TInv, NEW a \in Procs, NEW p, NEW r, p = proc[a], Work(a, p), Open(a),
         NEW s \in NextSlots(a), r.pc \in {"call", "store"}, r.kind = p.kind, r.todo = p.todo \ {s},
         r.slot = s, r.command = p.command, ~r.announcing,
         r.pc = "call" => r.command /\ ~Skips(a, s),
         r.mem.full = ReadHook(s).full
  PROVE  /\ Shape(a, r)' /\ Noted(a, r)' /\ (crashes = 0 => Unharmed(r))' /\ TodoCount(r)'
         /\ UndeliveredKept' /\ Tried(r)' /\ Spent' = Spent
<1>0. /\ p \in Proc /\ p.pc = "open" /\ ~Working(p) /\ ~Storing(p) /\ ~p.announcing
      /\ a \notin Executors /\ p.kind \in {"dispatch", "reconcile", "wake"}
      /\ s \in p.todo /\ p.todo \subseteq Slot /\ s = At(s.run, s.status) /\ s.run \in Runs
      /\ p.kind = "dispatch" => s.status = "pending"
      /\ p.kind = "reconcile" => p.command
      /\ p.kind = "reconcile" => \A t \in p.todo : t.status = "failed" => s.status = "failed"
  BY Visiting
<1>1. Working(r) /\ ~Stored(r) /\ r.pc \notin {"idle", "open", "agent", "finish", "sweep", "persist_read", "persist_write"}
  BY DEF Working, Stored
<1>2. UNCHANGED <<hooks, result, crashes, announced, calls>>
  BY Visiting
<1>3. UndeliveredKept' /\ Tried(r)' /\ Spent' = Spent
  BY <1>0, <1>2, Visiting, Untouched
<1>a. Shape(a, r)'
  BY <1>0, <1>1 DEF Work, Shape
<1>d. Noted(a, r)'
  BY <1>0, <1>1 DEF Noted
<1>e. (crashes = 0 => Unharmed(r))'
  <2> SUFFICES ASSUME crashes = 0 PROVE Unharmed(r)'
    BY <1>2
  <2>0. Unharmed(p)
    BY DEF Work
  <2>1. \A q \in Runs : OneCopy(q) /\ OneCopy(q)'
    BY <1>0, <1>2, <2>0 DEF Unharmed, OneCopy
  <2>2. hooks[s] # NoFile /\ r.mem.full
    BY <1>0, <2>0 DEF Unharmed, ReadHook
  <2>3. ASSUME NEW t \in p.todo, t # s
        PROVE  t.run # s.run
    <3>1. hooks[t] # NoFile /\ t = At(t.run, t.status) /\ t.status \in Statuses /\ s.status \in Statuses
      BY <1>0, <2>0, SlotIsAt DEF Unharmed
    <3> QED BY <1>0, <2>1, <2>2, <2>3, <3>1 DEF OneCopy
  <2>4. \A q \in Runs : result[q].final => result[q].told \in Statuses /\ hooks[At(q, result[q].told)] # NoFile
    BY <1>0, <2>0 DEF Unharmed
  <2>5. r.pc = "call" /\ r.kind # "wake" /\ s.status = "failed" => ~IsDeadLetter(hooks[s])
    BY <1>0, <2>2 DEF Skips, ReadHook
  <2> QED BY <1>0, <1>2, <2>0, <2>1, <2>2, <2>3, <2>4, <2>5 DEF Unharmed
<1>i. TodoCount(r)'
  <2> SUFFICES ASSUME NEW t \in p.todo, t # s
               PROVE  /\ t.status = "pending" => calls[t.run] <= Spent
                      /\ p.kind = "reconcile" /\ t.status = "failed" =>
                           /\ hooks[t] # NoFile
                           /\ s.run # t.run
                           /\ At(t.run, "pending") \in p.todo => calls[t.run] + MaxTries <= Spent + 1
    BY <1>2, <1>3 DEF TodoCount
  <2>1. t = At(t.run, t.status)
    BY <1>0, SlotIsAt
  <2> QED BY <1>0, <2>1 DEF Work, TodoCount
<1> QED BY <1>3, <1>a, <1>d, <1>e, <1>i

LEMMA WorkVisit ==
  ASSUME TInv, NEW a \in Procs, NEW p, NEW r, p = proc[a], Work(a, p), Open(a),
         NEW s \in NextSlots(a), ~Skips(a, s),
         \/ p.command /\ r = Calling(a, s)
         \/ ~p.command /\ p.kind = "wake" /\ r = Handing(a, s) /\ accepted' = [accepted EXCEPT ![s.run] = TRUE]
         \/ ~p.command /\ p.kind # "wake" /\ r = Restoring(a, s)
  PROVE  Work(a, r)'
<1>0. /\ p \in Proc /\ p.pc = "open" /\ ~p.announcing
      /\ a \notin Executors /\ p.kind \in {"dispatch", "reconcile", "wake"}
      /\ s \in p.todo /\ s \in Slot /\ s = At(s.run, s.status) /\ s.run \in Runs
      /\ s.status \in {"pending", "failed"}
      /\ p.kind = "dispatch" => s.status = "pending"
      /\ p.kind = "reconcile" => p.command
      /\ \A q \in Runs : Counted(q)
  BY Visiting
<1>1. UNCHANGED <<hooks, calls, crashes>>
  BY Visiting
<1>2. PICK m \in Payload : m = ReadHook(s)
  BY <1>0, ReadTyped
<1>3. PICK o : o = Opened(a, s)
  OBVIOUS
<1>4. /\ o \in Proc /\ o.pc = "open" /\ o.kind = p.kind /\ o.todo = p.todo \ {s} /\ o.slot = s /\ o.mem = m
      /\ o.command = p.command /\ ~o.announcing
  BY <1>0, <1>2, <1>3 DEF Opened, Proc
<1>5. /\ r.kind = p.kind /\ r.todo = p.todo \ {s} /\ r.slot = s /\ r.command = p.command /\ ~r.announcing
      /\ r.mem.full = m.full
      /\ \/ p.command /\ r.pc = "call" /\ r.mem = m
         \/ p.kind = "wake" /\ r.pc = "store" /\ r.goal = "sent" /\ accepted'[s.run]
         \/ ~p.command /\ p.kind # "wake" /\ r.pc = "store" /\ r.goal = s.status /\ r.mem = m
  <2>1. CASE r = Calling(a, s) /\ p.command
    BY <1>3, <1>4, <2>1 DEF Calling, Proc
  <2>2. CASE r = Handing(a, s) /\ p.kind = "wake" /\ accepted' = [accepted EXCEPT ![s.run] = TRUE]
    <3>1. PICK n : n = [m EXCEPT !.tries = @ + 1, !.dead = FALSE]
      OBVIOUS
    <3>2. n.full = m.full
      BY <3>1 DEF Payload
    <3>3. r = [o EXCEPT !.pc = "store", !.goal = "sent", !.mem = n]
      BY <1>3, <1>4, <2>2, <3>1 DEF Handing, Proc, Payload
    <3>4. accepted'[s.run]
      BY <1>0, <2>2 DEF TInv, TypeOK
    <3> QED BY <1>4, <2>2, <3>2, <3>3, <3>4 DEF Proc
  <2>3. CASE r = Restoring(a, s) /\ ~p.command /\ p.kind # "wake"
    BY <1>3, <1>4, <2>3 DEF Restoring, Proc
  <2> QED BY <2>1, <2>2, <2>3
<1>6. /\ Shape(a, r)' /\ Noted(a, r)' /\ (crashes = 0 => Unharmed(r))' /\ TodoCount(r)'
      /\ UndeliveredKept' /\ Tried(r)' /\ Spent' = Spent
  BY <1>2, <1>5, OpenedPieces
<1>7. Spent \in Nat /\ MaxTries \in Nat /\ MaxTries > 0 /\ calls[s.run] \in Nat /\ m.tries \in Nat
  BY <1>0, SpentPieces DEF TInv, TypeOK, Payload
<1>8. s.status = "pending" => calls[s.run] <= Spent /\ m.tries = 0
  <2>1. s.status = "pending" => calls[s.run] <= Spent
    BY <1>0 DEF Work, TodoCount
  <2>2. s.status = "pending" => m.tries = 0
    BY <1>0, <1>2 DEF Work, Tried, Waits, ReadHook, Blank
  <2> QED BY <2>1, <2>2
<1>9. s.status = "failed" /\ p.kind # "dispatch" =>
        /\ hooks[s] # NoFile /\ m = hooks[s] /\ Fails(s.run)
        /\ calls[s.run] <= Spent + m.tries /\ m.tries > 0
  <2> SUFFICES ASSUME s.status = "failed", p.kind # "dispatch"
               PROVE  /\ hooks[s] # NoFile /\ m = hooks[s] /\ Fails(s.run)
                      /\ calls[s.run] <= Spent + m.tries /\ m.tries > 0
    OBVIOUS
  <2>1. hooks[s] # NoFile
    BY <1>0 DEF Work, TodoCount, Skips
  <2>2. m = hooks[s] /\ Fails(s.run)
    BY <1>0, <1>2, <2>1 DEF ReadHook, Fails
  <2>3. m.tries > 0
    BY <1>0, <2>2 DEF Work, Tried
  <2>4. calls[s.run] <= Spent + m.tries
    BY <1>0, <2>2 DEF Counted
  <2> QED BY <2>1, <2>2, <2>3, <2>4
<1>10. p.kind = "reconcile" => m.tries < MaxTries
  BY <1>0, <1>2, <1>7 DEF Skips, IsDeadLetter
<1>b. Filed(r)'
  BY <1>0, <1>5 DEF Filed, Storing, Stored
<1>g. CallCount(r)'
  <2> SUFFICES ASSUME r.pc = "call"
               PROVE  /\ calls[s.run] <= Spent + m.tries
                      /\ s.status = "pending" => m.tries = 0
                      /\ s.status # "pending" => s.status = "failed" /\ hooks[s] # NoFile
                      /\ p.kind # "wake" => m.tries < MaxTries
                      /\ p.kind # "wake" /\ At(s.run, "pending") \in p.todo \ {s} => calls[s.run] + 1 <= Spent
    BY <1>1, <1>5, <1>6 DEF CallCount
  <2>1. calls[s.run] <= Spent + m.tries
    BY <1>0, <1>7, <1>8, <1>9
  <2>2. p.kind # "wake" => m.tries < MaxTries
    BY <1>0, <1>7, <1>8, <1>10
  <2>3. ASSUME p.kind # "wake", At(s.run, "pending") \in p.todo \ {s}
        PROVE  calls[s.run] + 1 <= Spent
    <3>1. s.status = "failed" /\ p.kind = "reconcile"
      BY <1>0, <2>3
    <3>2. calls[s.run] + MaxTries <= Spent + 1
      BY <1>0, <2>3, <3>1 DEF Work, TodoCount
    <3> QED BY <1>7, <1>9, <1>10, <3>1, <3>2
  <2> QED BY <1>0, <1>8, <1>9, <2>1, <2>2, <2>3
<1>h. StoreCount(r)'
  <2>1. Waits(s.run) /\ Fails(s.run) => calls[s.run] <= Spent + 1
    BY <1>0, <1>7 DEF Counted
  <2>2. (Waits(s.run)' <=> Waits(s.run)) /\ (Fails(s.run)' <=> Fails(s.run))
    BY <1>1 DEF Waits, Fails
  <2>3. CASE r.pc = "call"
    BY <2>3 DEF StoreCount, Storing
  <2>4. CASE r.pc = "store" /\ r.goal = "sent"
    BY <1>1, <1>5, <1>6, <2>1, <2>2, <2>4 DEF StoreCount
  <2>5. CASE r.pc = "store" /\ r.goal # "sent"
    <3>1. p.kind = "dispatch" /\ r.goal = "pending" /\ r.mem = m /\ s.status = "pending"
      BY <1>0, <1>5, <2>5
    <3> QED BY <1>1, <1>5, <1>6, <1>8, <2>1, <2>2, <2>5, <3>1 DEF StoreCount
  <2> QED BY <1>5, <2>3, <2>4, <2>5
<1> QED BY <1>1, <1>6, <1>b, <1>g, <1>h DEF Work

------------------------------------------------------------------------------
(* The invariant is inductive. *)

LEMMA TakesTurn ==
  ASSUME HInv, Serial, NEW a \in Procs, proc[a].pc # "idle" \/ Turn(a)
  PROVE  TInv /\ Alone(a) /\ Work(a, proc[a])
<1>1. PICK w \in Procs : Alone(w) /\ Work(w, proc[w])
  BY DEF HInv
<1>2. CASE a = w
  BY <1>1, <1>2 DEF HInv
<1>3. CASE a # w
  <2>1. proc[a] = Idle
    BY <1>1, <1>3 DEF Alone
  <2>2. Turn(a)
    BY <2>1, IdlePieces
  <2>3. proc[w] = Idle
    BY <1>1, <2>2 DEF Turn, Work, Shape
  <2>4. Alone(a)
    BY <1>1, <2>3 DEF Alone
  <2>5. UndeliveredKept /\ (crashes = 0 => Unharmed(Idle)) /\ Tried(Idle)
    BY <1>1, <2>3 DEF Work
  <2> QED BY <2>1, <2>4, <2>5, IdlePieces DEF Work, HInv
<1> QED BY <1>2, <1>3

LEMMA Onward ==
  ASSUME TInv, TInv', NEW a \in Procs, NEW r, Moved(a, r), Alone(a), Work(a, r)'
  PROVE  HInv'
<1>1. \A b \in Procs : proc'[b] = IF b = a THEN r ELSE proc[b]
  BY DEF Moved, TInv, TypeOK
<1>2. Alone(a)'
  BY <1>1 DEF Alone
<1>3. proc'[a] = r
  BY <1>1
<1>4. Work(a, proc[a])'
  BY <1>3 DEF Work, Shape, Filed, Noted, Unharmed, Tried, CallCount, StoreCount, TodoCount,
              Working, Storing, Stored
<1> QED BY <1>2, <1>4 DEF HInv

LEMMA ExecutorStep ==
  ASSUME HInv, Serial, NEW a \in Executors,
         Execute(a) \/ AgentEnds(a) \/ FinishRun(a) \/ HookFails(a) \/ FinishHookless(a)
  PROVE  HInv'
<1>0. a \in Procs
  BY DEF Procs
<1>1. TInv /\ Alone(a) /\ Work(a, proc[a])
  BY <1>0, TakesTurn DEF Execute, AgentEnds, FinishRun, HookFails, FinishHookless
<1>2. TInv'
  BY <1>1, TypedExecutor
<1>3. PICK p : p = proc[a]
  OBVIOUS
<1>4. CASE Execute(a)
  <2>1. PICK run \in Runs, c \in BOOLEAN :
          /\ result' = [result EXCEPT ![run].final = FALSE]
          /\ Moved(a, [Idle EXCEPT !.pc = "agent", !.slot = At(run, "pending"), !.command = c])
    BY <1>1, <1>4, ExecuteMoves
  <2>2. PICK r : r = [Idle EXCEPT !.pc = "agent", !.slot = At(run, "pending"), !.command = c]
    OBVIOUS
  <2>3. Work(a, r)'
    BY <1>1, <1>3, <1>4, <2>1, <2>2, WorkExecute
  <2> QED BY <1>0, <1>1, <1>2, <2>1, <2>2, <2>3, Onward
<1>5. CASE AgentEnds(a)
  <2>1. PICK r : r = [p EXCEPT !.pc = "store", !.mem = Fresh, !.goal = "pending", !.announcing = TRUE]
    OBVIOUS
  <2>2. Moved(a, r)
    BY <1>1, <1>3, <1>5, <2>1, AgentEndsMoves
  <2>3. Work(a, r)'
    BY <1>1, <1>3, <1>5, <2>1, WorkAgentEnds
  <2> QED BY <1>0, <1>1, <1>2, <2>2, <2>3, Onward
<1>6. CASE FinishRun(a)
  <2>1. Moved(a, Idle) /\ Work(a, Idle)'
    BY <1>0, <1>1, <1>3, <1>6, IdleMoves, WorkFinish
  <2> QED BY <1>0, <1>1, <1>2, <2>1, Onward
<1>7. CASE HookFails(a)
  <2>1. PICK r : r = Hookless(a)
    OBVIOUS
  <2>2. Moved(a, r) /\ Work(a, r)'
    BY <1>1, <1>3, <1>7, <2>1, HookFailsMoves, WorkHookFails
  <2> QED BY <1>0, <1>1, <1>2, <2>2, Onward
<1>8. CASE FinishHookless(a)
  <2>1. Moved(a, Idle) /\ Work(a, Idle)'
    BY <1>0, <1>1, <1>3, <1>8, IdleMoves, WorkFinishHookless
  <2> QED BY <1>0, <1>1, <1>2, <2>1, Onward
<1> QED BY <1>4, <1>5, <1>6, <1>7, <1>8

LEMMA BeginStep ==
  ASSUME HInv, Serial, NEW a \in Senders, Begin(a)
  PROVE  HInv'
<1>0. a \in Procs
  BY DEF Procs
<1>1. TInv /\ Alone(a) /\ Work(a, proc[a])
  BY <1>0, TakesTurn DEF Begin
<1>2. TInv'
  BY <1>1, TypedBegin
<1>3. PICK kind \in Kinds, c \in BOOLEAN : (kind = "reconcile" => c) /\ Moved(a, Begun(kind, c))
  BY <1>1, BeginMoves
<1>4. PICK r : r = Begun(kind, c)
  OBVIOUS
<1>5. PICK p : p = proc[a]
  OBVIOUS
<1>6. Work(a, r)'
  BY <1>1, <1>3, <1>4, <1>5, WorkBegin
<1> QED BY <1>0, <1>1, <1>2, <1>3, <1>4, <1>6, Onward

LEMMA OpenStep ==
  ASSUME HInv, Serial, NEW a \in Procs, Open(a)
  PROVE  HInv'
<1>1. TInv /\ Alone(a) /\ Work(a, proc[a])
  BY TakesTurn DEF Open
<1>2. TInv'
  BY <1>1, TypedDelivery DEF Deliver
<1>3. PICK p : p = proc[a]
  OBVIOUS
<1>4. PICK s \in NextSlots(a) :
        \/ Skips(a, s) /\ Moved(a, Skipping(a, s))
        \/ ~Skips(a, s) /\ p.command /\ Moved(a, Calling(a, s))
        \/ /\ ~Skips(a, s) /\ ~p.command /\ p.kind = "wake"
           /\ Moved(a, Handing(a, s)) /\ accepted' = [accepted EXCEPT ![s.run] = TRUE]
        \/ ~Skips(a, s) /\ ~p.command /\ p.kind # "wake" /\ Moved(a, Restoring(a, s))
  BY <1>1, <1>3, OpenMoves
<1>5. CASE Skips(a, s)
  <2>1. PICK r : r = [p EXCEPT !.todo = @ \ {s}]
    OBVIOUS
  <2>2. Moved(a, r)
    BY <1>3, <1>4, <1>5, <2>1 DEF Skipping
  <2>3. Work(a, r)'
    BY <1>1, <1>3, <2>1, WorkSkip
  <2> QED BY <1>1, <1>2, <2>2, <2>3, Onward
<1>6. CASE ~Skips(a, s)
  <2>1. PICK r : /\ Moved(a, r)
                 /\ \/ p.command /\ r = Calling(a, s)
                    \/ ~p.command /\ p.kind = "wake" /\ r = Handing(a, s) /\ accepted' = [accepted EXCEPT ![s.run] = TRUE]
                    \/ ~p.command /\ p.kind # "wake" /\ r = Restoring(a, s)
    BY <1>4, <1>6
  <2>2. Work(a, r)'
    BY <1>1, <1>3, <1>6, <2>1, WorkVisit
  <2> QED BY <1>1, <1>2, <2>1, <2>2, Onward
<1> QED BY <1>5, <1>6

LEMMA DeliveryStep ==
  ASSUME HInv, Serial, NEW a \in Procs, Deliver(a)
  PROVE  HInv'
<1>1. TInv /\ Alone(a) /\ Work(a, proc[a])
  BY TakesTurn DEF Deliver, Judge, Open, EndSession, Call, Store, Sweep, Swept, PersistRead, PersistWrite
<1>2. TInv'
  BY <1>1, TypedDelivery
<1>3. PICK p : p = proc[a]
  OBVIOUS
<1>4. ASSUME NEW r, Moved(a, r), Work(a, r)' PROVE HInv'
  BY <1>1, <1>2, <1>4, Onward
<1>5. CASE Open(a)
  BY <1>5, OpenStep
<1>6. CASE EndSession(a)
  BY <1>1, <1>3, <1>4, <1>6, IdleMoves, WorkEndSession
<1>7. CASE Call(a)
  <2>1. PICK ok, taken \in BOOLEAN :
          /\ ok => taken
          /\ accepted' = [accepted EXCEPT ![p.slot.run] = @ \/ taken]
          /\ Moved(a, [p EXCEPT !.pc = "store", !.mem = Attempted(@, ok), !.goal = IF ok THEN "sent" ELSE "failed"])
    BY <1>1, <1>3, <1>7, CallMoves
  <2>2. PICK r : r = [p EXCEPT !.pc = "store", !.mem = Attempted(@, ok), !.goal = IF ok THEN "sent" ELSE "failed"]
    OBVIOUS
  <2>3. Work(a, r)'
    BY <1>1, <1>3, <1>7, <2>1, <2>2, WorkCall
  <2> QED BY <1>4, <2>1, <2>2, <2>3
<1>8. CASE Store(a)
  <2>1. PICK r : r = [p EXCEPT !.pc = "sweep", !.sweep = OtherStatuses(p.goal)]
    OBVIOUS
  <2>2. Moved(a, r) /\ Work(a, r)'
    BY <1>1, <1>3, <1>8, <2>1, StoreMoves, WorkStore
  <2> QED BY <1>4, <2>2
<1>9. CASE Sweep(a)
  <2>1. PICK r : r = [p EXCEPT !.sweep = Tail(@)]
    OBVIOUS
  <2>2. Moved(a, r) /\ Work(a, r)'
    BY <1>1, <1>3, <1>9, <2>1, SweepMoves, WorkSweep
  <2> QED BY <1>4, <2>2
<1>10. CASE Swept(a)
  <2>1. CASE ~p.announcing
    <3>1. PICK r : r = [p EXCEPT !.pc = "persist_read"]
      OBVIOUS
    <3>2. Moved(a, r) /\ Work(a, r)'
      BY <1>1, <1>3, <1>10, <2>1, <3>1, SweptMoves, WorkSweptOn
    <3> QED BY <1>4, <3>2
  <2>2. CASE p.announcing
    <3>1. PICK r : /\ Moved(a, r)
                   /\ \/ r = [Reopened(a) EXCEPT !.pc = "call"]
                      \/ r = [Reopened(a) EXCEPT !.pc = "store", !.goal = "pending"]
      BY <1>1, <1>3, <1>10, <2>2, SweptMoves
    <3>2. Work(a, r)'
      BY <1>1, <1>3, <1>10, <2>2, <3>1, WorkSweptAnnounced
    <3> QED BY <1>4, <3>1, <3>2
  <2> QED BY <2>1, <2>2
<1>11. CASE PersistRead(a)
  <2>1. PICK r : /\ Moved(a, r)
                 /\ \/ p.mem.full /\ r = [p EXCEPT !.pc = "persist_write", !.result = result[p.slot.run]]
                    \/ ~p.mem.full /\ r = [p EXCEPT !.pc = AfterPersist(a)]
    BY <1>1, <1>3, <1>11, PersistReadMoves
  <2>2. Work(a, r)'
    BY <1>1, <1>3, <1>11, <2>1, WorkPersistRead
  <2> QED BY <1>4, <2>1, <2>2
<1>12. CASE PersistWrite(a)
  <2>1. PICK r : r = [p EXCEPT !.pc = AfterPersist(a), !.result = NoResult]
    OBVIOUS
  <2>2. Moved(a, r) /\ Work(a, r)'
    BY <1>1, <1>3, <1>12, <2>1, PersistWriteMoves, WorkPersistWrite
  <2> QED BY <1>4, <2>2
<1>13. CASE Judge(a)
  <2>1. PICK r : r = Judged(a)
    OBVIOUS
  <2>2. Moved(a, r) /\ Work(a, r)'
    BY <1>1, <1>3, <1>13, <2>1, JudgeMoves, WorkJudge
  <2> QED BY <1>4, <2>2
<1> QED BY <1>5, <1>6, <1>7, <1>8, <1>9, <1>10, <1>11, <1>12, <1>13 DEF Deliver

LEMMA CrashStep ==
  ASSUME HInv, Serial, NEW a \in Procs, Crash(a)
  PROVE  HInv'
<1>1. TInv /\ Alone(a) /\ Work(a, proc[a])
  BY TakesTurn DEF Crash
<1>2. TInv' /\ Moved(a, Idle)
  BY <1>1, TypedCrash, IdleMoves
<1>3. PICK p : p = proc[a]
  OBVIOUS
<1>4. Work(a, Idle)'
  BY <1>1, <1>3, WorkCrash
<1> QED BY <1>1, <1>2, <1>4, Onward

LEMMA Waiting ==
  ASSUME HInv, TInv', UNCHANGED proc, NEW w \in Procs, Alone(w), NEW p, p = proc[w], Work(w, p)'
  PROVE  HInv'
<1>1. Alone(w)' /\ proc'[w] = p
  BY DEF Alone
<1>2. Work(w, proc[w])'
  BY <1>1 DEF Work, Shape, Filed, Noted, Unharmed, Tried, CallCount, StoreCount, TodoCount,
              Working, Storing, Stored
<1> QED BY <1>1, <1>2 DEF HInv

LEMMA Inductive ==
  ASSUME HInv, Serial, [Next]_vars
  PROVE  HInv'
<1>0. PICK w \in Procs : Alone(w) /\ Work(w, proc[w])
  BY DEF HInv
<1>1. ASSUME NEW a \in Executors,
             Execute(a) \/ AgentEnds(a) \/ FinishRun(a) \/ HookFails(a) \/ FinishHookless(a)
      PROVE  HInv'
  BY <1>1, ExecutorStep
<1>2. ASSUME NEW a \in Senders, Begin(a) PROVE HInv'
  BY <1>2, BeginStep
<1>3. ASSUME NEW a \in Procs, Deliver(a) PROVE HInv'
  BY <1>3, DeliveryStep
<1>4. ASSUME NEW a \in Procs, Crash(a) PROVE HInv'
  BY <1>4, CrashStep
<1>5. ASSUME NEW s \in Slot, Ages(s) PROVE HInv'
  <2>1. TInv /\ TInv' /\ UNCHANGED proc
    BY <1>5, TypedAges DEF HInv, Ages
  <2>2. PICK p : p = proc[w]
    OBVIOUS
  <2>3. Work(w, p)'
    BY <1>0, <1>5, <2>1, <2>2, WorkAges
  <2> QED BY <1>0, <2>1, <2>2, <2>3, Waiting
<1>6. CASE UNCHANGED vars
  <2>1. TInv'
    BY <1>6, Typed DEF HInv
  <2>2. PICK p : p = proc[w]
    OBVIOUS
  <2>3. Work(w, p)'
    BY <1>0, <1>6, <2>2 DEF vars, Work, Shape, Filed, UndeliveredKept, Noted, Unharmed, OneCopy, Tried,
          Counted, Waits, Fails, Spent, CallCount, StoreCount, TodoCount
  <2> QED BY <1>0, <1>6, <2>1, <2>2, <2>3, Waiting DEF vars
<1> QED BY <1>1, <1>2, <1>3, <1>4, <1>5, <1>6 DEF Next

LEMMA Initially == ASSUME Init PROVE HInv
<1>1. PICK w \in Procs : TRUE
  BY HookAssumption
<1>2. Alone(w) /\ proc[w] = Idle
  BY DEF Init, Alone
<1>3. Spent = 0 /\ MaxTries \in Nat
  BY HookAssumption DEF Init, Spent
<1>4. UndeliveredKept /\ Unharmed(Idle)
  BY SlotPieces, IdlePieces DEF Init, UndeliveredKept, Unharmed, OneCopy, NoResult
<1>5. Tried(Idle)
  <2>1. \A q \in Runs : calls[q] = 0 /\ ~Waits(q) /\ ~Fails(q)
    BY SlotPieces DEF Init, Waits, Fails, Statuses
  <2> QED BY <1>3, <2>1 DEF Tried, Counted
<1>6. Work(w, Idle)
  BY <1>4, <1>5, IdlePieces DEF Work
<1> QED BY <1>2, <1>6, TypedInit DEF HInv

------------------------------------------------------------------------------
(* Theorems *)

LEMMA Consequences == ASSUME HInv PROVE HooksAccounted
<1>1. PICK a \in Procs : Alone(a) /\ Work(a, proc[a])
  BY DEF HInv
<1>2. UndeliveredKept
  BY <1>1 DEF Work
<1>3. PayloadComplete
  BY <1>1 DEF Work, Unharmed, PayloadComplete
<1>4. RetriesBounded
  <2> SUFFICES ASSUME NEW r \in Runs PROVE calls[r] <= MaxTries * (1 + crashes)
    BY DEF RetriesBounded
  <2>1. calls[r] <= Spent + MaxTries
    BY <1>1 DEF Work, Tried
  <2>2. MaxTries \in Nat /\ crashes \in Nat
    BY SpentPieces DEF HInv
  <2>3. MaxTries * (1 + crashes) = MaxTries * crashes + MaxTries
    BY <2>2
  <2> QED BY <2>1, <2>3 DEF Spent
<1>5. ResultAgrees
  <2> SUFFICES ASSUME AllIdle, crashes = 0, NEW r \in Runs, result[r].final
               PROVE  result[r].told = Located(r)
    BY DEF ResultAgrees
  <2>1. ~Storing(proc[a]) /\ ~Working(proc[a])
    BY DEF AllIdle, Storing, Working
  <2>2. OneCopy(r) /\ result[r].told \in Statuses /\ hooks[At(r, result[r].told)] # NoFile
    BY <1>1, <2>1 DEF Work, Unharmed
  <2> QED BY <2>2 DEF OneCopy, Located, Statuses
<1> QED BY <1>2, <1>3, <1>4, <1>5 DEF HooksAccounted

\* While processes take turns, and whichever of them are killed, an announcement
\* that has not been taken stays pending or failed, the listener is called
\* max_delivery_attempts times at most (and as often again for each process
\* killed); without a crash no payload is lost and result.json names the
\* directory the hook lies in.
THEOREM Accounted ==
  ASSUME Serial
  PROVE  Spec => []HooksAccounted
<1>1. Init => HInv
  BY Initially
<1>2. HInv /\ [Next]_vars => HInv'
  BY Inductive
<1>3. HInv => HooksAccounted
  BY Consequences
<1> QED BY <1>1, <1>2, <1>3, PTL DEF Spec

LEMMA LeftAlone == ASSUME HInv PROVE SettledLeftAlone
<1> SUFFICES ASSUME crashes = 0, NEW b \in Procs, proc[b].pc = "call", proc[b].kind # "wake"
             PROVE  ~Settled(proc[b].slot.run)
  BY DEF SettledLeftAlone
<1>1. PICK a \in Procs : Alone(a) /\ Work(a, proc[a])
  BY DEF HInv
<1>2. b = a
  BY <1>1, IdlePieces DEF Alone
<1>3. PICK p : p = proc[b]
  OBVIOUS
<1>4. /\ p.slot.run \in Runs /\ p.slot.status \in {"pending", "failed"} /\ ~Storing(p)
      /\ p.slot = At(p.slot.run, p.slot.status)
  BY <1>1, <1>2, <1>3, AtWork DEF HInv, Working, Storing, Work, CallCount
<1>5. /\ OneCopy(p.slot.run) /\ hooks[p.slot] # NoFile
      /\ p.slot.status = "failed" => ~IsDeadLetter(hooks[p.slot])
  BY <1>1, <1>2, <1>3, <1>4 DEF Work, Unharmed
<1>6. hooks[At(p.slot.run, "sent")] = NoFile
  BY <1>4, <1>5 DEF OneCopy, Statuses
<1>7. hooks[At(p.slot.run, "failed")] # NoFile => p.slot.status = "failed"
  BY <1>4, <1>5 DEF OneCopy, Statuses
<1> QED BY <1>3, <1>4, <1>5, <1>6, <1>7 DEF Settled

\* While processes take turns and none is stopped, a hook that is on record as sent or
\* as a dead letter is left alone by every session but wake, however many there are.
THEOREM SettledStays ==
  ASSUME Serial
  PROVE  Spec => []SettledLeftAlone
<1>1. Init => HInv
  BY Initially
<1>2. HInv /\ [Next]_vars => HInv'
  BY Inductive
<1>3. HInv => SettledLeftAlone
  BY LeftAlone
<1> QED BY <1>1, <1>2, <1>3, PTL DEF Spec

==============================================================================
