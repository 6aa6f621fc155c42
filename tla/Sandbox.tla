------------------------------ MODULE Sandbox ------------------------------
(***************************************************************************)
(* What happens between the claim of a worker job and its verdict: the     *)
(* workspace is prepared, the patch set applied to it file by file, and    *)
(* the commands run one after the other, each a child process that races   *)
(* its timeout and the job's abort signal.                                 *)
(*                                                                         *)
(* A job may be claimed again after its worker died; all executions of a   *)
(* job use one directory, which is named after the job.                    *)
(***************************************************************************)
EXTENDS Naturals

CONSTANTS
  MaxClaims,     \* executions of the job
  MaxCommands,   \* length of its command list
  Files,         \* files of the patch set
  ActionOf,      \* create, modify, delete or, for one the applier refuses, other
  Settings,      \* kinds of job and configurations of the worker
  Clones,        \* what the branch may hold at the time of a clone
  Absent,        \* no such file
  Patched,       \* the content a patch writes
  NoHash,        \* old_content_hash = null
  Alone          \* an execution starts only after all that is left of the last has ended

Execs    == 1 .. MaxClaims
Contents == UNION {{c[f] : f \in Files} : c \in Clones}

ASSUME SandboxAssumption ==
  /\ MaxClaims \in Nat /\ MaxCommands \in Nat /\ Alone \in BOOLEAN
  /\ ActionOf \in [Files -> {"create", "modify", "delete", "other"}]
  /\ \A s \in Settings : /\ s.kind \in {"branch", "patch", "debug", "unlinked"}
                         /\ {s.strict, s.production, s.keep} \subseteq BOOLEAN
                         /\ s.blocked \subseteq Nat
                         /\ s.hash \in [Files -> Contents \cup {NoHash}]
  /\ \A c \in Clones : c \in [Files -> Contents]
  /\ Patched \notin Contents \cup {Absent} /\ NoHash \notin Contents \cup {Absent, Patched}

VARIABLES
  job,        \* the job and the configuration: kind, strict, production, keep, hash,
              \* and the positions of commands that are not on the allowlist (any more)
  cancelled,  \* the job's row says cancelled
  ws,         \* the workspace directory
  ex,         \* executions: where they are and what they will return
  child,      \* the child process of each: none, alive, or termed (it got a SIGTERM)
  found,      \* history: the content each execution replaced
  clean       \* history: each command of the execution ran in a clone of its own

vars == <<job, cancelled, ws, ex, child, found, clean>>

-----------------------------------------------------------------------------

NewExec == [pc |-> "idle", status |-> "passed", n |-> 0, todo |-> {}, fits |-> {},
            applied |-> FALSE, checked |-> TRUE, timedOut |-> FALSE, aborted |-> FALSE,
            result |-> "none"]

NoDir == [there |-> FALSE, by |-> {}, files |-> [f \in Files |-> Absent]]

Init ==
  /\ job \in Settings
  /\ cancelled = FALSE
  /\ ws = NoDir
  /\ ex = [e \in Execs |-> NewExec]
  /\ child = [e \in Execs |-> "none"]
  /\ found = [e \in Execs |-> [f \in Files |-> Absent]]
  /\ clean = [e \in Execs |-> TRUE]

Over    == {"returned", "rejected", "crashed"}
Live(e) == ex[e].pc \notin Over \cup {"idle"}

Becomes(e, upd) == ex' = [ex EXCEPT ![e] = upd]
At(e, pc)       == [ex[e] EXCEPT !.pc = pc]
Verdict(e, s)   == [At(e, "finally") EXCEPT !.status = s]

Quiet(e) == UNCHANGED <<job, cancelled, child, found, clean>>

\* The abort signal is set, or the row says cancelled.
Stop(e) == ex[e].aborted \/ cancelled

-----------------------------------------------------------------------------
(* Before the commands.                                                    *)

\* Claims follow one another; Alone is what an exclusive queue and a container
\* that ends the children of a dead worker before its replacement starts provide.
Claim(e) ==
  /\ ex[e].pc = "idle"
  /\ \A d \in 1 .. (e - 1) : /\ ex[d].pc \notin {"idle", "returned"}
                             /\ Alone => ex[d].pc \in Over /\ child[d] = "none"
  /\ Becomes(e, At(e, "starting"))
  /\ UNCHANGED ws /\ Quiet(e)

\* prepareWorkspace removes what is left at the job's path and makes it anew.
FreshDirKept == [ws EXCEPT !.there = TRUE]
FreshDir == [NoDir EXCEPT !.there = TRUE]

Prepare(e) ==
  /\ ex[e].pc = "starting"
  /\ IF Stop(e)
     THEN /\ Becomes(e, [At(e, "returned") EXCEPT !.status = "cancelled"])
          /\ UNCHANGED ws
     ELSE /\ Becomes(e, At(e, "cloning"))
          /\ ws' = FreshDir
  /\ Quiet(e)

\* Clone or copy; the step after it depends on the kind of job.
Clone(e) ==
  /\ ex[e].pc = "cloning" /\ ws.there
  /\ \E c \in Clones : ws' = [ws EXCEPT !.by = @ \cup {e}, !.files = c]
  /\ Becomes(e, CASE job.kind = "patch"    -> At(e, "applying")
                  [] job.kind = "unlinked" -> Verdict(e, "failed")
                  [] job.kind = "debug" /\ job.production -> Verdict(e, "failed")
                  [] OTHER -> At(e, "between"))
  /\ Quiet(e)

\* The set and its files are read; a set that is not found, has no files or may
\* not be applied fails the job.
ReadPatch(e) ==
  /\ ex[e].pc = "applying"
  /\ \/ Files # {} /\ Becomes(e, [At(e, "files") EXCEPT !.todo = Files, !.fits = {}])
     \/ Becomes(e, [Verdict(e, "failed") EXCEPT !.checked = FALSE])
  /\ UNCHANGED ws /\ Quiet(e)

\* checkBaseHash: the recorded hash, if there is one, is that of the file here.
HashFits(f) == IF job.hash[f] = NoHash THEN ~job.strict ELSE job.hash[f] = ws.files[f]

\* base_hash_checked survives a file that is created or whose hash was compared.
KeepsCheckedAlways(f) == TRUE
KeepsChecked(f) == ActionOf[f] = "create" \/ job.hash[f] # NoHash

\* A file to be modified or deleted is there and has its hash compared.  The comparison
\* is awaited: what another execution does to the directory comes before the write.
CheckFile(e, f) ==
  /\ ex[e].pc = "files" /\ f \in ex[e].todo /\ ex[e].fits = {} /\ ws.there
  /\ ActionOf[f] \in {"modify", "delete"} /\ ws.files[f] # Absent /\ HashFits(f)
  /\ Becomes(e, [ex[e] EXCEPT !.fits = {f}])
  /\ UNCHANGED ws /\ Quiet(e)

\* The write; a file to be created is looked for and written without an await between.
ApplyFile(e, f) ==
  /\ ex[e].pc = "files" /\ f \in ex[e].todo /\ ws.there
  /\ IF ActionOf[f] = "create" THEN ex[e].fits = {} /\ ws.files[f] = Absent
                              ELSE f \in ex[e].fits
  /\ ws' = [ws EXCEPT !.by = @ \cup {e},
                      !.files[f] = IF ActionOf[f] = "delete" THEN Absent ELSE Patched]
  /\ found' = [found EXCEPT ![e][f] = ws.files[f]]
  /\ Becomes(e, [ex[e] EXCEPT !.todo = @ \ {f}, !.fits = {},
                              !.checked = @ /\ KeepsChecked(f)])
  /\ UNCHANGED <<job, cancelled, child, clean>>

\* The first file that does not fit, or an I/O error at any of them: what was
\* written stays, and nothing runs.
ApplyStops(e) ==
  /\ ex[e].pc = "files" /\ ex[e].todo # {}
  /\ Becomes(e, Verdict(e, "failed"))
  /\ UNCHANGED ws /\ Quiet(e)

Applied(e) ==
  /\ ex[e].pc = "files" /\ ex[e].todo = {}
  /\ Becomes(e, [At(e, "between") EXCEPT !.applied = TRUE])
  /\ UNCHANGED ws /\ Quiet(e)

-----------------------------------------------------------------------------
(* The commands.                                                           *)

\* The directory holds what this execution put there and nothing else.
OwnDir(e) ==
  /\ ws.there /\ ws.by = {e}
  /\ job.kind = "patch" =>
       \A f \in Files : ws.files[f] = IF ActionOf[f] = "delete" THEN Absent ELSE Patched

\* Between two commands: all done, stopped, blocked, or the next one is spawned.
MoreCounted(e) == ex[e].n <= MaxCommands
More(e) == ex[e].n < MaxCommands

Finished(e) ==
  /\ ex[e].pc = "between" /\ ~More(e)
  /\ Becomes(e, At(e, "finally"))
  /\ UNCHANGED ws /\ Quiet(e)

StopsBetween(e) ==
  /\ ex[e].pc = "between" /\ More(e) /\ Stop(e)
  /\ Becomes(e, Verdict(e, "cancelled"))
  /\ UNCHANGED ws /\ Quiet(e)

NextIsBlocked(e) ==
  /\ ex[e].pc = "between" /\ More(e) /\ ~Stop(e)
  /\ (ex[e].n + 1) \in job.blocked
  /\ Becomes(e, Verdict(e, "failed"))
  /\ UNCHANGED ws /\ Quiet(e)

\* The check is behind; a log line is written before the command starts.
NextCommand(e) ==
  /\ ex[e].pc = "between" /\ More(e) /\ ~Stop(e)
  /\ (ex[e].n + 1) \notin job.blocked
  /\ Becomes(e, [At(e, "spawning") EXCEPT !.n = @ + 1])
  /\ UNCHANGED ws /\ Quiet(e)

\* runWorkerCommand does not start an aborted command; a spawn may fail, and it
\* does without a directory.
NotSpawned(e) ==
  /\ ex[e].pc = "spawning"
  /\ Becomes(e, [At(e, "settled") EXCEPT !.result = IF ex[e].aborted THEN "aborted" ELSE "failed"])
  /\ UNCHANGED ws /\ Quiet(e)

Spawn(e) ==
  /\ ex[e].pc = "spawning" /\ ~ex[e].aborted /\ ws.there
  /\ child' = [child EXCEPT ![e] = "alive"]
  /\ clean' = [clean EXCEPT ![e] = @ /\ OwnDir(e)]
  /\ Becomes(e, [At(e, "running") EXCEPT !.timedOut = FALSE])
  /\ UNCHANGED <<job, cancelled, ws, found>>

\* SIGTERM to the process group.
KilledNot(e) == child
Killed(e) == [child EXCEPT ![e] = IF @ = "alive" THEN "termed" ELSE @]

TimerFires(e) ==
  /\ ex[e].pc = "running" /\ ~ex[e].timedOut
  /\ child' = Killed(e)
  /\ Becomes(e, [ex[e] EXCEPT !.timedOut = TRUE])
  /\ UNCHANGED <<job, cancelled, ws, found, clean>>

\* The heartbeat aborts the job: it was cancelled, or the lease is lost.
Abort(e) ==
  /\ Live(e) /\ ~ex[e].aborted
  /\ child' = Killed(e)
  /\ Becomes(e, [ex[e] EXCEPT !.aborted = TRUE])
  /\ UNCHANGED <<job, cancelled, ws, found, clean>>

\* What a child writes lands in the directory that has the name now.
Scribble(e) == IF ws.there THEN [ws EXCEPT !.by = @ \cup {e}] ELSE ws

\* The child ends, by itself or killed.
ChildEnds(e) ==
  /\ child[e] # "none"
  /\ child' = [child EXCEPT ![e] = "none"]
  /\ ws' = Scribble(e)

\* What the command is reported as, once it is over: a timeout or an abort hides
\* the exit code, and the runner looks at the abort first.
ResultOf(e, code) ==
  IF ex[e].aborted THEN "aborted"
  ELSE IF ex[e].timedOut THEN "timed_out"
  ELSE IF code = 0 THEN "ok" ELSE "failed"

SettlesOnKill(e) == child[e] = "termed" /\ UNCHANGED <<child, ws>>
Settles(e) == ChildEnds(e)

Close(e, code) ==
  /\ ex[e].pc = "running"
  /\ Settles(e)
  /\ Becomes(e, [At(e, "settled") EXCEPT !.result = ResultOf(e, code)])
  /\ clean' = [clean EXCEPT ![e] = @ /\ OwnDir(e)]
  /\ UNCHANGED <<job, cancelled, found>>

Settled(e) ==
  /\ ex[e].pc = "settled"
  /\ Becomes(e, CASE ex[e].result = "aborted"   -> Verdict(e, "cancelled")
                  [] ex[e].result = "timed_out" -> Verdict(e, "timed_out")
                  [] ex[e].result = "failed"    -> Verdict(e, "failed")
                  [] OTHER -> At(e, "between"))
  /\ UNCHANGED ws /\ Quiet(e)

-----------------------------------------------------------------------------
(* Endings.                                                                *)

\* A call that throws, a log line included, fails the job; the log line about it
\* may throw as well, and then the promise rejects.  A running command never does.
Throws(e) ==
  /\ ex[e].pc \in {"applying", "files", "between", "spawning", "settled"}
  /\ \/ Becomes(e, Verdict(e, "failed"))
     \/ Becomes(e, At(e, "rejecting"))
  /\ UNCHANGED ws /\ Quiet(e)

\* The finally block: a workspace that was prepared is removed unless it is kept.
Ending(e) ==
  /\ ex[e].pc \in {"finally", "rejecting"}
  /\ Becomes(e, At(e, IF ex[e].pc = "finally" THEN "returned" ELSE "rejected"))
  /\ ws' = IF job.keep THEN ws ELSE NoDir
  /\ Quiet(e)

\* Until prepareWorkspace returns there is no workspaceDir and nothing is removed.
PrepareFails(e) ==
  /\ ex[e].pc \in {"starting", "cloning"}
  /\ \/ Becomes(e, [At(e, "returned") EXCEPT !.status = "failed"])
     \/ Becomes(e, At(e, "rejected"))
  /\ UNCHANGED ws /\ Quiet(e)

\* The worker dies; its child may live on.
Crash(e) ==
  /\ Live(e)
  /\ Becomes(e, At(e, "crashed"))
  /\ UNCHANGED ws /\ Quiet(e)

\* A child whose worker is gone.
OrphanEnds(e) ==
  /\ ex[e].pc = "crashed"
  /\ ChildEnds(e)
  /\ UNCHANGED <<job, cancelled, ex, found, clean>>

Cancel ==
  /\ ~cancelled /\ cancelled' = TRUE
  /\ UNCHANGED <<job, ws, ex, child, found, clean>>

Own(e) == \/ Prepare(e) \/ Clone(e) \/ ReadPatch(e) \/ ApplyStops(e) \/ Applied(e)
          \/ \E f \in Files : CheckFile(e, f) \/ ApplyFile(e, f)
          \/ Finished(e) \/ StopsBetween(e) \/ NextIsBlocked(e) \/ NextCommand(e)
          \/ NotSpawned(e) \/ Spawn(e) \/ Settled(e) \/ Ending(e) \/ PrepareFails(e)

Event(e) == \/ Claim(e) \/ Abort(e) \/ Throws(e) \/ Crash(e) \/ TimerFires(e) \/ OrphanEnds(e)
            \/ \E code \in {0, 1} : Close(e, code)

Next == Cancel \/ \E e \in Execs : Own(e) \/ Event(e)

Spec == Init /\ [][Next]_vars

\* Calls answer and timers fire.  A child that got a SIGTERM ends: nothing in the
\* code sees to that, there is no SIGKILL.  One that got none may run for ever.
FairSpec ==
  /\ Spec
  /\ \A e \in Execs : /\ WF_vars(Own(e)) /\ WF_vars(TimerFires(e))
                      /\ WF_vars(child[e] = "termed" /\ \E code \in {0, 1} : Close(e, code))

-----------------------------------------------------------------------------
(* Properties.                                                             *)

Pcs == {"idle", "starting", "cloning", "applying", "files", "between", "spawning", "running",
        "settled", "finally", "rejecting"} \cup Over

TypeOK ==
  /\ job \in Settings /\ cancelled \in BOOLEAN
  /\ ws \in [there : BOOLEAN, by : SUBSET Execs,
             files : [Files -> Contents \cup {Absent, Patched}]]
  /\ ex \in [Execs -> [pc : Pcs, status : {"passed", "failed", "cancelled", "timed_out"},
                       n : 0 .. MaxCommands, todo : SUBSET Files, fits : SUBSET Files,
                       applied : BOOLEAN, checked : BOOLEAN, timedOut : BOOLEAN, aborted : BOOLEAN,
                       result : {"none", "ok", "failed", "aborted", "timed_out"}]]
  /\ child \in [Execs -> {"none", "alive", "termed"}]
  /\ found \in [Execs -> [Files -> Contents \cup {Absent, Patched}]]
  /\ clean \in [Execs -> BOOLEAN]

\* A passed verdict is about the whole command list and about this execution's own
\* clone with the whole patch on it, whatever an execution before it that died on
\* the way has left at the same path.
GreenMeansTested ==
  \A e \in Execs :
    ex[e].pc = "returned" /\ ex[e].status = "passed" =>
      /\ ex[e].n = MaxCommands /\ job.blocked \cap (1 .. MaxCommands) = {}
      /\ clean[e]
      /\ job.kind = "patch" => ex[e].applied

\* The child is gone before the job returns and its directory is taken away: timeout,
\* abort and exit race, but only the end of the child settles a command.
NoChildOutlivesJob ==
  \A e \in Execs : child[e] # "none" => ex[e].pc \in {"running", "crashed"}

\* base_hash_checked, on which a strict pull request relies: each file the execution
\* replaced or deleted was the one the patch was validated against when it was
\* replaced, not only when it was looked at.
CheckedMeansUnmoved ==
  \A e \in Execs :
    ex[e].applied /\ ex[e].checked =>
      \A f \in Files : ActionOf[f] # "create" => found[e][f] = job.hash[f]

\* However commands hang and signals race, an execution that starts comes to an end.
ExecutionEnds == \A e \in Execs : Live(e) ~> ex[e].pc \in Over

=============================================================================
