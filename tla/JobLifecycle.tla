---------------------------- MODULE JobLifecycle ----------------------------
(***************************************************************************)
(* What the worker job queue promises to the orchestrators and to the pull *)
(* request flow, which only ever look at a job's status: a job is created  *)
(* once, is started at most MaxAttempts times, and once it is finished it  *)
(* stays finished, although its verdict may still be replaced by another.  *)
(***************************************************************************)
EXTENDS Integers

CONSTANTS Jobs, MaxAttempts

VARIABLES status, claims

vars == <<status, claims>>

Verdicts == {"passed", "failed", "cancelled", "timed_out"}

Init ==
  /\ status = [j \in Jobs |-> "absent"]
  /\ claims = [j \in Jobs |-> 0]

Create(j) ==
  /\ status[j] = "absent"
  /\ status' = [status EXCEPT ![j] = "queued"]
  /\ UNCHANGED claims

\* Jobs in S are declared failed while the queue looks for one to start.
GiveUp(S) ==
  [k \in Jobs |-> IF k \in S THEN "failed" ELSE status[k]]

Unfinished == {k \in Jobs : status[k] \in {"queued", "running"}}

Start(j) ==
  /\ status[j] \in {"queued", "running"}
  /\ claims[j] < MaxAttempts
  /\ claims' = [claims EXCEPT ![j] = claims[j] + 1]
  /\ \E S \in SUBSET (Unfinished \ {j}) :
       /\ \A k \in S : claims[k] >= MaxAttempts
       /\ status' = [GiveUp(S) EXCEPT ![j] = "running"]

Exhaust ==
  /\ \E S \in SUBSET Unfinished :
       /\ \A k \in S : claims[k] >= MaxAttempts
       /\ status' = GiveUp(S)
  /\ UNCHANGED claims

\* A worker or a cancel request settles a job; only a cancel may settle one
\* that was never started.
Settle(j) ==
  /\ status[j] # "absent"
  /\ \E v \in Verdicts :
       /\ claims[j] = 0 => v = "cancelled"
       /\ status' = [status EXCEPT ![j] = v]
  /\ UNCHANGED claims

Next == Exhaust \/ \E j \in Jobs : Create(j) \/ Start(j) \/ Settle(j)

Spec == Init /\ [][Next]_vars

=============================================================================
