--------------------------- MODULE MCPullRequests ---------------------------
(***************************************************************************)
(* Instances of PullRequests for TLC.                                      *)
(***************************************************************************)
EXTENDS PullRequests, FiniteSets, TLC

CONSTANTS f1, f2, f3, MCExtra

MCActionOf == (f1 :> "modify") @@ (f2 :> "create") @@ (f3 :> "delete")

MCOneFile == {{f1}}
MCShapes  == {{f1}, {f3}, {f1, f2}}

Setting(dry, inl, strict, del) ==
  [dryRun |-> dry, inline |-> inl, strict |-> strict, canDelete |-> del]

MCDefault == Setting(FALSE, FALSE, FALSE, TRUE)
MCLive    == {MCDefault}
MCAll     == {MCDefault, Setting(TRUE, FALSE, FALSE, TRUE), Setting(FALSE, FALSE, TRUE, FALSE),
              Setting(FALSE, TRUE, FALSE, TRUE)}

\* Bound on what may go on in one behaviour beyond one call for one patch of one
\* modified file under the default settings, with one job that one worker executes:
\* a unit for a commit, for other files, for a deleted one, and for an execution in hand
\* when a patch of two files meets a commit; two for other settings, a decision, a
\* cancelled job, a green verdict taken back, and a further patch, set, job, call or
\* execution.
MCBound ==
  LET Past(n)  == IF n > 1 THEN n - 1 ELSE 0
      If(P)    == IF P THEN 1 ELSE 0
      started  == {r \in Requests : req[r].pc # "idle"}
      stored   == {p \in PatchSets : sets[p].status # "none"}
      queued   == {j \in Jobs : jobs[j].status # "none"}
      busy     == {w \in Workers : execution[w].pc # "idle"}
      dropped  == cancelling \cup {j \in Jobs : jobs[j].status = "cancelled"}
      gone     == {g \in greens : \A j \in Jobs : ~Green(j, g.set)}
  IN  moves + If(touched # {f1}) + If(f3 \in touched)
        + If(moves > 0 /\ Cardinality(touched) > 1 /\ busy # {})
        + 2 * (If(config # MCDefault) + decisions + Cardinality(dropped) + Cardinality(gone)
               + Past(latest) + Past(Cardinality(started)) + Past(Cardinality(stored))
               + Past(Cardinality(queued)) + Past(Cardinality(busy))) <= MCExtra

MCSymmetry == Permutations(Requests) \cup Permutations(Workers)

=============================================================================
