--------------------------- MODULE ReviewedChange ---------------------------
(***************************************************************************)
(* What the pull request flow promises to the people who own the target    *)
(* repository: a patch set is opened as a pull request only after it was   *)
(* validated and after its tests were green, in that order, and never      *)
(* before a person or the judge agreed to the session it comes from.       *)
(* Opening it twice is allowed: the flow has no promise against that.      *)
(***************************************************************************)
CONSTANT PatchSets

VARIABLES stage, agreed

vars == <<stage, agreed>>

Stages == {"absent", "validated", "tested", "published"}

Init ==
  /\ stage = [p \in PatchSets |-> "absent"]
  /\ agreed = FALSE

Agree == agreed' = TRUE /\ UNCHANGED stage

Advance(p, from, to) ==
  /\ stage[p] \in from
  /\ stage' = [stage EXCEPT ![p] = to]
  /\ UNCHANGED agreed

Validate(p) == Advance(p, {"absent"}, "validated")
Test(p)     == Advance(p, {"validated"}, "tested")
Publish(p)  == agreed /\ Advance(p, {"tested", "published"}, "published")

Next == Agree \/ \E p \in PatchSets : Validate(p) \/ Test(p) \/ Publish(p)

Spec == Init /\ [][Next]_vars

=============================================================================
