---------------------------- MODULE MCAsyncRuns ----------------------------
(***************************************************************************)
(* Instances of AsyncRuns for TLC.                                         *)
(***************************************************************************)
EXTENDS AsyncRuns, TLC

\* Every cron process locks under a name of its own (Owners = Crons).
MCOwnName == [c \in Crons |-> c]

MCSymmetry == Permutations(Crons) \cup Permutations(Jobs)

=============================================================================
