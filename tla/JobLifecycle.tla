---------------------------- MODULE JobLifecycle ----------------------------
(***************************************************************************)
(* What the queue of _system/engine/file_queue.py promises of a job: it is *)
(* in one state at a time, it moves along the edges of the lifecycle in    *)
(* single steps (README.md: "atomic transitions: pending -> running ->     *)
(* done|failed|dead_letter", with awaiting_approval beside it), one worker *)
(* at a time claims it and each claim starts at most one execution.        *)
(*                                                                         *)
(* where[j] is the set of states job j is found in; the promise is that it *)
(* never has two members.                                                  *)
(***************************************************************************)
CONSTANTS Jobs, Workers

VARIABLES
  where,      \* Jobs -> set of queue states
  claimants,  \* Jobs -> workers that have claimed the job and not started it
  executors   \* Jobs -> workers executing the job

lifecycle == <<where, claimants, executors>>

Init ==
  /\ where = [j \in Jobs |-> {}]
  /\ claimants = [j \in Jobs |-> {}]
  /\ executors = [j \in Jobs |-> {}]

Goes(j, from, to) == where[j] = {from} /\ where' = [where EXCEPT ![j] = {to}]

Submit(j) ==
  /\ where[j] = {}
  /\ \E d \in {"pending", "awaiting_approval"} : where' = [where EXCEPT ![j] = {d}]
  /\ UNCHANGED <<claimants, executors>>

Claim(j, w) ==
  /\ Goes(j, "pending", "running")
  /\ claimants[j] = {} /\ executors[j] = {}
  /\ claimants' = [claimants EXCEPT ![j] = {w}]
  /\ UNCHANGED executors

Start(j, w) ==
  /\ where[j] = {"running"}
  /\ claimants[j] = {w} /\ executors[j] = {}
  /\ claimants' = [claimants EXCEPT ![j] = {}]
  /\ executors' = [executors EXCEPT ![j] = {w}]
  /\ UNCHANGED where

\* The run ends, the guardrails pause it, or its worker dies.
Release(j) ==
  /\ claimants' = [claimants EXCEPT ![j] = {}]
  /\ executors' = [executors EXCEPT ![j] = {}]
  /\ UNCHANGED where

\* pending is where a reclaimed job goes.
Settle(j) ==
  /\ claimants[j] = {} /\ executors[j] = {}
  /\ \E d \in {"done", "failed", "dead_letter", "awaiting_approval", "pending"} :
       Goes(j, "running", d)
  /\ UNCHANGED <<claimants, executors>>

Retry(j) == Goes(j, "failed", "pending") /\ UNCHANGED <<claimants, executors>>

Decide(j) ==
  /\ Goes(j, "awaiting_approval", "pending") \/ Goes(j, "awaiting_approval", "failed")
  /\ UNCHANGED <<claimants, executors>>

Next ==
  \E j \in Jobs :
    \/ Submit(j) \/ Release(j) \/ Settle(j) \/ Retry(j) \/ Decide(j)
    \/ \E w \in Workers : Claim(j, w) \/ Start(j, w)

\* What operators may do besides, and break the promise with when a worker has the
\* job: withdraw one that nobody has claimed, and drop one in whatever state it is.
Cancel(j) == Goes(j, "pending", "failed") /\ UNCHANGED <<claimants, executors>>

Drop(j) ==
  /\ where[j] # {} /\ where' = [where EXCEPT ![j] = {}]
  /\ UNCHANGED <<claimants, executors>>

Spec == Init /\ [][Next]_lifecycle
=============================================================================
