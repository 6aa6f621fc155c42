---------------------------- MODULE MCSyncRounds ----------------------------
(***************************************************************************)
(* Instances of SyncRounds for TLC.                                        *)
(***************************************************************************)
EXTENDS SyncRounds

Setting(worker, execute, production, override) ==
  [worker |-> worker, execute |-> execute, production |-> production, override |-> override]

\* Worker mode in production, and inline: executed, dry, refused and overridden.
MCModes == {Setting(TRUE, FALSE, TRUE, FALSE), Setting(FALSE, TRUE, FALSE, FALSE),
            Setting(FALSE, FALSE, FALSE, FALSE), Setting(FALSE, TRUE, TRUE, FALSE),
            Setting(FALSE, TRUE, TRUE, TRUE)}

=============================================================================
