----------------------------- MODULE MCConsole -----------------------------
(***************************************************************************)
(* Instances of Console for TLC; the configurations give every constant.   *)
(***************************************************************************)
EXTENDS Console

\* Health, and verdicts written anew, matter to the button alone: neither comes
\* with a run.
VerdictReplaced == \E j \in green : jobs[j].status # "passed"
HealthAsked == health # "null" \/ \E c \in calls : c.kind = "health"
MCBound == HealthAsked \/ VerdictReplaced => run = NoRun

=============================================================================
