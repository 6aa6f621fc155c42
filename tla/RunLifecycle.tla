---------------------------- MODULE RunLifecycle ----------------------------
(***************************************************************************)
(* What the async orchestrator promises of an orchestration run to the     *)
(* pages and scripts that watch it: it starts in round 1, advances one     *)
(* round at a time up to MaxRounds, and once decided never changes again.  *)
(***************************************************************************)
EXTENDS Naturals

CONSTANTS Runs, MaxRounds

VARIABLES status, round

vars == <<status, round>>

Decisions == {"passed", "failed", "needs_revision", "cancelled"}

Init ==
  /\ status = [r \in Runs |-> "absent"]
  /\ round = [r \in Runs |-> 1]

Begin(r) ==
  /\ status[r] = "absent"
  /\ status' = [status EXCEPT ![r] = "running"]
  /\ UNCHANGED round

\* A test job of the current round is linked to the run.
Await(r) ==
  /\ status[r] \in {"running", "waiting_for_worker"}
  /\ status' = [status EXCEPT ![r] = "waiting_for_worker"]
  /\ UNCHANGED round

Advance(r) ==
  /\ status[r] = "waiting_for_worker"
  /\ round[r] < MaxRounds
  /\ round' = [round EXCEPT ![r] = round[r] + 1]
  /\ UNCHANGED status

Decide(r) ==
  /\ status[r] \in {"running", "waiting_for_worker"}
  /\ \E d \in Decisions : status' = [status EXCEPT ![r] = d]
  /\ UNCHANGED round

Next == \E r \in Runs : Begin(r) \/ Await(r) \/ Advance(r) \/ Decide(r)

Spec == Init /\ [][Next]_vars

=============================================================================
