---------------------------- MODULE MCWorkerJobs ----------------------------
(***************************************************************************)
(* Instances of WorkerJobs for TLC.                                        *)
(***************************************************************************)
EXTENDS WorkerJobs, TLC

\* Every executor under a worker id of its own (WorkerIds = Executors), or all
\* executors under one, as the loops of one worker process are.
MCOwnId    == [e \in Executors |-> e]
MCSharedId == [e \in Executors |-> CHOOSE w \in WorkerIds : TRUE]

\* The default of the priority column.
MCPriority == [j \in Jobs |-> 5]

MCSymmetry == Permutations(Executors) \cup Permutations(Jobs)

=============================================================================
