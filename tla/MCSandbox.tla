----------------------------- MODULE MCSandbox -----------------------------
(***************************************************************************)
(* Instances of Sandbox for TLC: one file of each kind.                    *)
(***************************************************************************)
EXTENDS Sandbox, TLC

CONSTANTS f1, f2, f3, v1, v2

MCActionOf == (f1 :> "modify") @@ (f2 :> "create") @@ (f3 :> "delete")

MCClones == {[f \in Files |-> CASE f = f1 -> c [] f = f2 -> Absent [] OTHER -> v1] :
               c \in {v1, v2}}

Job(kind, strict, prod, keep, h) ==
  [kind |-> kind, strict |-> strict, production |-> prod, keep |-> keep,
   blocked |-> IF kind = "branch" THEN {2} ELSE {},
   hash |-> [f \in Files |-> CASE f = f1 -> h [] f = f2 -> NoHash [] OTHER -> v1]]

MCSettings == {Job("branch", FALSE, FALSE, TRUE, NoHash), Job("patch", TRUE, TRUE, FALSE, v1),
               Job("patch", FALSE, FALSE, TRUE, NoHash), Job("debug", FALSE, FALSE, FALSE, v1),
               Job("debug", TRUE, TRUE, FALSE, v1), Job("unlinked", TRUE, TRUE, TRUE, NoHash)}

=============================================================================
