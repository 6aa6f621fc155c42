--------------------------- MODULE Sandbox_proofs ---------------------------
(***************************************************************************)
(* Theorems about Sandbox, for any jobs, settings, files and numbers of    *)
(* executions.  What holds of one execution by itself is proved without    *)
(* assuming anything of the others; that its directory is its own, and a   *)
(* file still what it was when its hash was compared, needs Alone.         *)
(***************************************************************************)
EXTENDS Sandbox, TLAPS

ExecRow == [pc : Pcs, status : {"passed", "failed", "cancelled", "timed_out"},
            n : 0 .. MaxCommands, todo : SUBSET Files, fits : SUBSET Files,
            applied : BOOLEAN, checked : BOOLEAN, timedOut : BOOLEAN, aborted : BOOLEAN,
            result : {"none", "ok", "failed", "aborted", "timed_out"}]

FileMaps == [Files -> Contents \cup {Absent, Patched}]
Dirs == [there : BOOLEAN, by : SUBSET Execs, files : FileMaps]

ChildStates == {"none", "alive", "termed"}

Commanding == {"between", "spawning", "running", "settled"}

\* What holds of an execution by itself: its row, its child, what it replaced.
ExecOK(r, c, was) ==
  /\ c # "none" => r.pc \in {"running", "crashed"}
  /\ r.pc \in {"idle", "starting", "cloning", "applying", "files"} => ~r.applied
  /\ r.applied => r.todo = {}
  /\ Alone /\ (r.applied \/ r.pc = "files") /\ r.checked =>
       \A f \in Files \ r.todo : ActionOf[f] # "create" => was[f] = job.hash[f]
  /\ r.pc \in {"applying", "files"} => job.kind = "patch"
  /\ r.pc \in Commanding /\ job.kind = "patch" => r.applied
  /\ r.pc \notin Over \cup {"finally", "rejecting"} => r.status = "passed"
  /\ job.blocked \cap (1 .. r.n) = {}
  /\ r.pc \in {"finally", "returned"} /\ r.status = "passed" =>
       r.n = MaxCommands /\ (job.kind = "patch" => r.applied)

\* Between the comparison of a hash and the write the file is what it was.
StillFits(e) ==
  ex[e].pc = "files" => \A f \in ex[e].fits : KeepsChecked(f) => ws.files[f] = job.hash[f]

Still == Alone => \A e \in Execs : StillFits(e)

\* The inductive invariant, but for what it needs of Still.
Inv == TypeOK /\ \A e \in Execs : ExecOK(ex[e], child[e], found[e])

-----------------------------------------------------------------------------
(* Types.                                                                  *)

LEMMA ClonesAreFiles ==
  ASSUME NEW c \in Clones
  PROVE  c \in FileMaps
<1>1. c \in [Files -> Contents]  BY SandboxAssumption
<1> QED  BY <1>1, Zenon DEF FileMaps

LEMMA NewTypes == NewExec \in ExecRow /\ NoDir \in Dirs
<1>1. 0 \in 0 .. MaxCommands  BY SandboxAssumption
<1>2. [f \in Files |-> Absent] \in FileMaps  BY DEF FileMaps
<1> QED  BY <1>1, <1>2 DEF NewExec, ExecRow, Pcs, Over, NoDir, Dirs

LEMMA TypeOKIs ==
  TypeOK <=> /\ job \in Settings /\ cancelled \in BOOLEAN /\ ws \in Dirs
             /\ ex \in [Execs -> ExecRow] /\ child \in [Execs -> ChildStates]
             /\ found \in [Execs -> FileMaps] /\ clean \in [Execs -> BOOLEAN]
BY Zenon DEF TypeOK, Dirs, ExecRow, FileMaps, ChildStates

LEMMA InvInit == Init => Inv
<1> SUFFICES ASSUME Init PROVE Inv  OBVIOUS
<1>1. [e \in Execs |-> [f \in Files |-> Absent]] \in [Execs -> FileMaps]  BY DEF FileMaps
<1>2. TypeOK  BY <1>1, NewTypes, TypeOKIs DEF Init, ChildStates
<1>3. ASSUME NEW e \in Execs PROVE ExecOK(ex[e], child[e], found[e])
  <2>1. ex[e] = NewExec /\ child[e] = "none"  BY DEF Init
  <2> QED  BY <2>1 DEF ExecOK, NewExec, Over, Commanding
<1> QED  BY <1>2, <1>3 DEF Inv

-----------------------------------------------------------------------------
(* Steps of one execution.                                                 *)

\* A step of e writes its row, and nobody else's row, child or history.
Steps(e, r) ==
  /\ Becomes(e, r) /\ r \in ExecRow
  /\ job' = job /\ cancelled' \in BOOLEAN /\ ws' \in Dirs
  /\ child' \in [Execs -> ChildStates] /\ found' \in [Execs -> FileMaps]
  /\ clean' \in [Execs -> BOOLEAN]
  /\ \A d \in Execs \ {e} : child'[d] = child[d] /\ found'[d] = found[d]

LEMMA StepsKeep ==
  ASSUME Inv, NEW e \in Execs, NEW r, Steps(e, r), ExecOK(r, child'[e], found'[e])
  PROVE  Inv'
<1>1. /\ ex' \in [Execs -> ExecRow] /\ ex'[e] = r
      /\ \A d \in Execs \ {e} : ex'[d] = ex[d]
  BY TypeOKIs DEF Inv, Steps, Becomes
<1>2. TypeOK'
  <2>1. job' \in Settings  BY TypeOKIs DEF Inv, Steps
  <2> QED  BY <1>1, <2>1, Zenon DEF Steps, TypeOK, Dirs, ExecRow, FileMaps, ChildStates
<1>3. ASSUME NEW d \in Execs PROVE ExecOK(ex[d], child[d], found[d])'
  <2>1. CASE d = e  BY <1>1, <2>1 DEF Steps, ExecOK
  <2>2. CASE d # e  BY <1>1, <2>2 DEF Inv, Steps, ExecOK
  <2> QED  BY <2>1, <2>2
<1> QED  BY <1>2, <1>3 DEF Inv

\* Most steps write nothing but the row and, perhaps, the directory.
LEMMA QuietKeeps ==
  ASSUME Inv, NEW e \in Execs, NEW r \in ExecRow, Becomes(e, r), Quiet(e),
         ws' \in Dirs, ExecOK(r, child[e], found[e])
  PROVE  Inv'
<1>1. Steps(e, r)  BY TypeOKIs DEF Inv, Steps, Quiet
<1> QED  BY <1>1, StepsKeep DEF Quiet

LEMMA Before ==
  ASSUME Inv, NEW e \in Execs
  PROVE  /\ ex[e] \in ExecRow /\ child[e] \in ChildStates /\ found[e] \in FileMaps
         /\ ws \in Dirs /\ job \in Settings
         /\ ExecOK(ex[e], child[e], found[e])
BY TypeOKIs DEF Inv

\* Rows with another pc or a verdict are rows.
LEMMA RowsTyped ==
  ASSUME NEW e \in Execs, ex[e] \in ExecRow, NEW pc \in Pcs
  PROVE  /\ At(e, pc) \in ExecRow
         /\ \A s \in {"passed", "failed", "cancelled", "timed_out"} :
              Verdict(e, s) \in ExecRow /\ [At(e, pc) EXCEPT !.status = s] \in ExecRow
BY DEF At, Verdict, ExecRow, Pcs

LEMMA ClaimKeeps ==
  ASSUME Inv, NEW e \in Execs, Claim(e) PROVE Inv'
<1>1. At(e, "starting") \in ExecRow  BY Before, RowsTyped DEF Pcs
<1>2. ExecOK(At(e, "starting"), child[e], found[e])
  BY Before DEF Claim, At, ExecOK, ExecRow, Over, Commanding
<1> QED  BY <1>1, <1>2, QuietKeeps, Before DEF Claim

LEMMA PrepareKeeps ==
  ASSUME Inv, NEW e \in Execs, Prepare(e) PROVE Inv'
<1>1. FreshDir \in Dirs  BY NewTypes DEF FreshDir, Dirs
<1>2. CASE Stop(e)
  <2> DEFINE r == [At(e, "returned") EXCEPT !.status = "cancelled"]
  <2>1. r \in ExecRow  BY Before, RowsTyped DEF Pcs, Over
  <2>2. ExecOK(r, child[e], found[e])
    BY Before DEF Prepare, At, ExecOK, ExecRow, Over, Commanding
  <2> QED  BY <1>2, <2>1, <2>2, QuietKeeps, Before DEF Prepare
<1>3. CASE ~ Stop(e)
  <2>1. At(e, "cloning") \in ExecRow  BY Before, RowsTyped DEF Pcs
  <2>2. ExecOK(At(e, "cloning"), child[e], found[e])
    BY Before DEF Prepare, At, ExecOK, ExecRow, Over, Commanding
  <2> QED  BY <1>1, <1>3, <2>1, <2>2, QuietKeeps DEF Prepare
<1> QED  BY <1>2, <1>3

LEMMA CloneKeeps ==
  ASSUME Inv, NEW e \in Execs, Clone(e) PROVE Inv'
<1>1. ws' \in Dirs
  <2>1. PICK c \in Clones : ws' = [ws EXCEPT !.by = @ \cup {e}, !.files = c]  BY DEF Clone
  <2> QED  BY <2>1, ClonesAreFiles, Before DEF Dirs
<1>2. CASE job.kind = "patch"
  <2>1. Becomes(e, At(e, "applying"))  BY <1>2 DEF Clone
  <2>2. At(e, "applying") \in ExecRow  BY Before, RowsTyped DEF Pcs
  <2>3. ExecOK(At(e, "applying"), child[e], found[e])
    BY <1>2, Before DEF Clone, At, ExecOK, ExecRow, Over, Commanding
  <2> QED  BY <1>1, <2>1, <2>2, <2>3, QuietKeeps DEF Clone
<1>3. CASE job.kind # "patch" /\ Becomes(e, Verdict(e, "failed"))
  <2>1. Verdict(e, "failed") \in ExecRow  BY Before, RowsTyped DEF Pcs
  <2>2. ExecOK(Verdict(e, "failed"), child[e], found[e])
    BY Before DEF Clone, At, Verdict, ExecOK, ExecRow, Over, Commanding
  <2> QED  BY <1>1, <1>3, <2>1, <2>2, QuietKeeps DEF Clone
<1>4. CASE job.kind # "patch" /\ Becomes(e, At(e, "between"))
  <2>1. At(e, "between") \in ExecRow  BY Before, RowsTyped DEF Pcs
  <2>2. ExecOK(At(e, "between"), child[e], found[e])
    BY <1>4, Before DEF Clone, At, ExecOK, ExecRow, Over, Commanding
  <2> QED  BY <1>1, <1>4, <2>1, <2>2, QuietKeeps DEF Clone
<1>5. job.kind \in {"branch", "patch", "debug", "unlinked"}
  BY SandboxAssumption, Before
<1> QED  BY <1>2, <1>3, <1>4, <1>5 DEF Clone

LEMMA ReadPatchKeeps ==
  ASSUME Inv, NEW e \in Execs, ReadPatch(e) PROVE Inv'
<1>1. CASE Becomes(e, [At(e, "files") EXCEPT !.todo = Files, !.fits = {}])
  <2> DEFINE r == [At(e, "files") EXCEPT !.todo = Files, !.fits = {}]
  <2>1. r \in ExecRow  BY Before DEF At, ExecRow, Pcs
  <2>2. ExecOK(r, child[e], found[e])
    BY Before DEF ReadPatch, At, ExecOK, ExecRow, Over, Commanding
  <2> QED  BY <1>1, <2>1, <2>2, QuietKeeps, Before DEF ReadPatch
<1>2. CASE Becomes(e, [Verdict(e, "failed") EXCEPT !.checked = FALSE])
  <2> DEFINE r == [Verdict(e, "failed") EXCEPT !.checked = FALSE]
  <2>1. r \in ExecRow  BY Before DEF Verdict, At, ExecRow, Pcs
  <2>2. ExecOK(r, child[e], found[e])
    BY Before DEF ReadPatch, At, Verdict, ExecOK, ExecRow, Over, Commanding
  <2> QED  BY <1>2, <2>1, <2>2, QuietKeeps, Before DEF ReadPatch
<1> QED  BY <1>1, <1>2 DEF ReadPatch

LEMMA CheckFileKeeps ==
  ASSUME Inv, NEW e \in Execs, NEW f \in Files, CheckFile(e, f) PROVE Inv'
<1> DEFINE r == [ex[e] EXCEPT !.fits = {f}]
<1>1. r \in ExecRow  BY Before DEF ExecRow
<1>2. ExecOK(r, child[e], found[e])
  BY Before DEF CheckFile, ExecOK, ExecRow, Over, Commanding
<1> QED  BY <1>1, <1>2, QuietKeeps, Before DEF CheckFile

LEMMA ApplyFileKeeps ==
  ASSUME Inv, Still, NEW e \in Execs, NEW f \in Files, ApplyFile(e, f) PROVE Inv'
<1> DEFINE r == [ex[e] EXCEPT !.todo = @ \ {f}, !.fits = {},
                              !.checked = @ /\ KeepsChecked(f)]
<1>1. r \in ExecRow  BY Before DEF ExecRow, KeepsChecked
<1>2. /\ found'[e] = [found[e] EXCEPT ![f] = ws.files[f]] /\ ws.files \in FileMaps
      /\ found' \in [Execs -> FileMaps] /\ \A d \in Execs \ {e} : found'[d] = found[d]
  BY Before, TypeOKIs DEF ApplyFile, Inv, Dirs, FileMaps
<1>3. ws' \in Dirs  BY Before DEF ApplyFile, Dirs, FileMaps
<1>4. ASSUME Alone, KeepsChecked(f), ActionOf[f] # "create" PROVE found'[e][f] = job.hash[f]
  BY <1>2, <1>4 DEF ApplyFile, Still, StillFits, FileMaps
<1>5. \A g \in Files \ {f} : found'[e][g] = found[e][g]  BY <1>2, Before DEF FileMaps
<1>6. ExecOK(r, child'[e], found'[e])
  <2>1. /\ r.pc = "files" /\ r.todo = ex[e].todo \ {f}
        /\ r.checked => ex[e].checked /\ KeepsChecked(f)
        /\ r.applied = ex[e].applied /\ r.n = ex[e].n /\ r.status = ex[e].status
    BY Before DEF ApplyFile, ExecRow
  <2>2. ASSUME Alone, r.checked, NEW g \in Files \ r.todo, ActionOf[g] # "create"
        PROVE  found'[e][g] = job.hash[g]
    <3>1. CASE g = f  BY <1>4, <2>1, <2>2, <3>1
    <3>2. CASE g # f
      <4>1. found[e][g] = job.hash[g]
        BY <2>1, <2>2, <3>2, Before DEF ApplyFile, ExecOK
      <4> QED  BY <1>5, <3>2, <4>1
    <3> QED  BY <3>1, <3>2
  <2> QED  BY <2>1, <2>2, Before DEF ApplyFile, ExecOK, Over, Commanding
<1>7. Steps(e, r)
  BY <1>1, <1>2, <1>3, TypeOKIs DEF ApplyFile, Inv, Steps
<1> QED  BY <1>6, <1>7, StepsKeep

LEMMA ApplyStopsKeeps ==
  ASSUME Inv, NEW e \in Execs, ApplyStops(e) PROVE Inv'
<1> DEFINE r == Verdict(e, "failed")
<1>1. r \in ExecRow  BY Before DEF ApplyStops, At, Verdict, ExecRow, Pcs, Over
<1>2. ExecOK(r, child[e], found[e])
  BY Before DEF ApplyStops, At, Verdict, ExecOK, ExecRow, Over, Commanding
<1> QED  BY <1>1, <1>2, QuietKeeps, Before DEF ApplyStops

LEMMA AppliedKeeps ==
  ASSUME Inv, NEW e \in Execs, Applied(e) PROVE Inv'
<1> DEFINE r == [At(e, "between") EXCEPT !.applied = TRUE]
<1>1. r \in ExecRow  BY Before DEF Applied, At, Verdict, ExecRow, Pcs, Over
<1>2. ExecOK(r, child[e], found[e])
  BY Before DEF Applied, At, Verdict, ExecOK, ExecRow, Over, Commanding
<1> QED  BY <1>1, <1>2, QuietKeeps, Before DEF Applied

LEMMA FinishedKeeps ==
  ASSUME Inv, NEW e \in Execs, Finished(e) PROVE Inv'
<1> DEFINE r == At(e, "finally")
<1>1. r \in ExecRow  BY Before, SandboxAssumption DEF Finished, At, Verdict, ExecRow, Pcs, Over
<1>2. ExecOK(r, child[e], found[e])
  BY Before, SandboxAssumption DEF Finished, At, Verdict, ExecOK, ExecRow, Over, Commanding, More
<1> QED  BY <1>1, <1>2, QuietKeeps, Before DEF Finished

LEMMA StopsBetweenKeeps ==
  ASSUME Inv, NEW e \in Execs, StopsBetween(e) PROVE Inv'
<1> DEFINE r == Verdict(e, "cancelled")
<1>1. r \in ExecRow  BY Before DEF StopsBetween, At, Verdict, ExecRow, Pcs, Over
<1>2. ExecOK(r, child[e], found[e])
  BY Before DEF StopsBetween, At, Verdict, ExecOK, ExecRow, Over, Commanding
<1> QED  BY <1>1, <1>2, QuietKeeps, Before DEF StopsBetween

LEMMA NextIsBlockedKeeps ==
  ASSUME Inv, NEW e \in Execs, NextIsBlocked(e) PROVE Inv'
<1> DEFINE r == Verdict(e, "failed")
<1>1. r \in ExecRow  BY Before DEF NextIsBlocked, At, Verdict, ExecRow, Pcs, Over
<1>2. ExecOK(r, child[e], found[e])
  BY Before DEF NextIsBlocked, At, Verdict, ExecOK, ExecRow, Over, Commanding
<1> QED  BY <1>1, <1>2, QuietKeeps, Before DEF NextIsBlocked

LEMMA NextCommandKeeps ==
  ASSUME Inv, NEW e \in Execs, NextCommand(e) PROVE Inv'
<1> DEFINE r == [At(e, "spawning") EXCEPT !.n = @ + 1]
<1>1. ex[e].n \in 0 .. MaxCommands /\ ex[e].n + 1 \in 0 .. MaxCommands /\ At(e, "spawning").n = ex[e].n
  BY Before, SandboxAssumption DEF NextCommand, More, At, ExecRow
<1>2. r \in ExecRow  BY <1>1, Before DEF At, ExecRow, Pcs
<1>3. ExecOK(r, child[e], found[e])
  BY Before, SandboxAssumption DEF NextCommand, At, Verdict, ExecOK, ExecRow, Over, Commanding, More
<1> QED  BY <1>2, <1>3, QuietKeeps, Before DEF NextCommand

LEMMA NotSpawnedKeeps ==
  ASSUME Inv, NEW e \in Execs, NotSpawned(e) PROVE Inv'
<1> DEFINE r == [At(e, "settled") EXCEPT !.result = IF ex[e].aborted THEN "aborted" ELSE "failed"]
<1>1. r \in ExecRow  BY Before DEF NotSpawned, At, Verdict, ExecRow, Pcs, Over
<1>2. ExecOK(r, child[e], found[e])
  BY Before DEF NotSpawned, At, Verdict, ExecOK, ExecRow, Over, Commanding
<1> QED  BY <1>1, <1>2, QuietKeeps, Before DEF NotSpawned

LEMMA CrashKeeps ==
  ASSUME Inv, NEW e \in Execs, Crash(e) PROVE Inv'
<1> DEFINE r == At(e, "crashed")
<1>1. r \in ExecRow  BY Before DEF Crash, At, Verdict, ExecRow, Pcs, Over
<1>2. ExecOK(r, child[e], found[e])
  BY Before DEF Crash, At, Verdict, ExecOK, ExecRow, Over, Commanding, Live
<1> QED  BY <1>1, <1>2, QuietKeeps, Before DEF Crash

LEMMA SettledKeeps ==
  ASSUME Inv, NEW e \in Execs, Settled(e) PROVE Inv'
<1>1. ASSUME NEW v \in {"cancelled", "timed_out", "failed"}, Becomes(e, Verdict(e, v)) PROVE Inv'
  <2>1. Verdict(e, v) \in ExecRow  BY Before, RowsTyped DEF Pcs
  <2>2. ExecOK(Verdict(e, v), child[e], found[e])
    BY Before DEF Settled, At, Verdict, ExecOK, ExecRow, Over, Commanding
  <2> QED  BY <1>1, <2>1, <2>2, QuietKeeps, Before DEF Settled
<1>2. CASE Becomes(e, At(e, "between"))
  <2>1. At(e, "between") \in ExecRow  BY Before, RowsTyped DEF Pcs
  <2>2. ExecOK(At(e, "between"), child[e], found[e])
    BY Before DEF Settled, At, ExecOK, ExecRow, Over, Commanding
  <2> QED  BY <1>2, <2>1, <2>2, QuietKeeps, Before DEF Settled
<1> QED  BY <1>1, <1>2 DEF Settled

LEMMA ThrowsKeeps ==
  ASSUME Inv, NEW e \in Execs, Throws(e) PROVE Inv'
<1>1. CASE Becomes(e, Verdict(e, "failed"))
  <2> DEFINE r == Verdict(e, "failed")
  <2>1. r \in ExecRow  BY Before DEF At, Verdict, ExecRow, Pcs, Over
  <2>2. ExecOK(r, child[e], found[e])
    BY Before DEF Throws, At, Verdict, ExecOK, ExecRow, Over, Commanding
  <2> QED  BY <1>1, <2>1, <2>2, QuietKeeps, Before DEF Throws
<1>2. CASE Becomes(e, At(e, "rejecting"))
  <2> DEFINE r == At(e, "rejecting")
  <2>1. r \in ExecRow  BY Before DEF At, Verdict, ExecRow, Pcs, Over
  <2>2. ExecOK(r, child[e], found[e])
    BY Before DEF Throws, At, Verdict, ExecOK, ExecRow, Over, Commanding
  <2> QED  BY <1>2, <2>1, <2>2, QuietKeeps, Before DEF Throws
<1> QED  BY <1>1, <1>2 DEF Throws

LEMMA EndingKeeps ==
  ASSUME Inv, NEW e \in Execs, Ending(e) PROVE Inv'
<1> DEFINE r == At(e, IF ex[e].pc = "finally" THEN "returned" ELSE "rejected")
<1>1. r \in ExecRow  BY Before, RowsTyped DEF Pcs, Over
<1>2. ExecOK(r, child[e], found[e])
  BY Before DEF Ending, At, ExecOK, ExecRow, Over, Commanding
<1>3. ws' \in Dirs  BY Before, NewTypes DEF Ending
<1> QED  BY <1>1, <1>2, <1>3, QuietKeeps DEF Ending

LEMMA PrepareFailsKeeps ==
  ASSUME Inv, NEW e \in Execs, PrepareFails(e) PROVE Inv'
<1>1. CASE Becomes(e, [At(e, "returned") EXCEPT !.status = "failed"])
  <2> DEFINE r == [At(e, "returned") EXCEPT !.status = "failed"]
  <2>1. r \in ExecRow  BY Before DEF At, Verdict, ExecRow, Pcs, Over
  <2>2. ExecOK(r, child[e], found[e])
    BY Before DEF PrepareFails, At, Verdict, ExecOK, ExecRow, Over, Commanding
  <2> QED  BY <1>1, <2>1, <2>2, QuietKeeps, Before DEF PrepareFails
<1>2. CASE Becomes(e, At(e, "rejected"))
  <2> DEFINE r == At(e, "rejected")
  <2>1. r \in ExecRow  BY Before DEF At, Verdict, ExecRow, Pcs, Over
  <2>2. ExecOK(r, child[e], found[e])
    BY Before DEF PrepareFails, At, Verdict, ExecOK, ExecRow, Over, Commanding
  <2> QED  BY <1>2, <2>1, <2>2, QuietKeeps, Before DEF PrepareFails
<1> QED  BY <1>1, <1>2 DEF PrepareFails

-----------------------------------------------------------------------------
(* Steps that move a child.                                                *)

LEMMA SpawnKeeps ==
  ASSUME Inv, NEW e \in Execs, Spawn(e) PROVE Inv'
<1> DEFINE r == [At(e, "running") EXCEPT !.timedOut = FALSE]
<1>1. r \in ExecRow  BY Before DEF At, ExecRow, Pcs
<1>2. ExecOK(r, child'[e], found'[e])
  BY Before DEF Spawn, At, ExecOK, ExecRow, Over, Commanding
<1>3. (clean[e] /\ OwnDir(e)) \in BOOLEAN  OBVIOUS
<1>4. clean' \in [Execs -> BOOLEAN]  BY <1>3, TypeOKIs, Zenon DEF Spawn, Inv
<1>5. Steps(e, r)
  BY <1>1, <1>4, TypeOKIs DEF Spawn, Inv, Steps, ChildStates
<1> QED  BY <1>2, <1>5, StepsKeep

\* A signal reaches a child or finds none.
LEMMA Signals ==
  ASSUME Inv, NEW e \in Execs
  PROVE  /\ Killed(e) \in [Execs -> ChildStates]
         /\ Killed(e)[e] # "none" => child[e] # "none"
         /\ \A d \in Execs \ {e} : Killed(e)[d] = child[d]
BY TypeOKIs DEF Inv, Killed, ChildStates

LEMMA TimerFiresKeeps ==
  ASSUME Inv, NEW e \in Execs, TimerFires(e) PROVE Inv'
<1> DEFINE r == [ex[e] EXCEPT !.timedOut = TRUE]
<1>1. r \in ExecRow  BY Before DEF ExecRow
<1>2. ExecOK(r, child'[e], found'[e])
  BY Before, Signals DEF TimerFires, ExecOK, ExecRow, Over, Commanding
<1>3. Steps(e, r)  BY <1>1, Signals, TypeOKIs DEF TimerFires, Inv, Steps
<1> QED  BY <1>2, <1>3, StepsKeep

LEMMA AbortKeeps ==
  ASSUME Inv, NEW e \in Execs, Abort(e) PROVE Inv'
<1> DEFINE r == [ex[e] EXCEPT !.aborted = TRUE]
<1>1. r \in ExecRow  BY Before DEF ExecRow
<1>2. ExecOK(r, child'[e], found'[e])
  BY Before, Signals DEF Abort, Live, ExecOK, ExecRow, Over, Commanding
<1>3. Steps(e, r)  BY <1>1, Signals, TypeOKIs DEF Abort, Inv, Steps
<1> QED  BY <1>2, <1>3, StepsKeep

LEMMA ChildGone ==
  ASSUME Inv, NEW e \in Execs, ChildEnds(e)
  PROVE  /\ child' \in [Execs -> ChildStates] /\ child'[e] = "none"
         /\ \A d \in Execs \ {e} : child'[d] = child[d]
         /\ ws' \in Dirs
BY TypeOKIs DEF Inv, ChildEnds, ChildStates, Scribble, Dirs

LEMMA CloseKeeps ==
  ASSUME Inv, NEW e \in Execs, NEW code \in {0, 1}, Close(e, code) PROVE Inv'
<1> DEFINE r == [At(e, "settled") EXCEPT !.result = ResultOf(e, code)]
<1>1. ResultOf(e, code) \in {"ok", "failed", "aborted", "timed_out"}  BY DEF ResultOf
<1>2. r \in ExecRow  BY <1>1, Before DEF At, ExecRow, Pcs
<1>3. ChildEnds(e)  BY DEF Close, Settles
<1>4. ExecOK(r, child'[e], found'[e])
  BY <1>3, ChildGone, Before DEF Close, At, ExecOK, ExecRow, Over, Commanding
<1>5. (clean[e] /\ OwnDir(e)) \in BOOLEAN  OBVIOUS
<1>6. clean' \in [Execs -> BOOLEAN]  BY <1>5, TypeOKIs, Zenon DEF Close, Inv
<1>7. Steps(e, r)  BY <1>2, <1>3, <1>6, ChildGone, TypeOKIs DEF Close, Inv, Steps
<1> QED  BY <1>4, <1>7, StepsKeep

LEMMA OrphanEndsKeeps ==
  ASSUME Inv, NEW e \in Execs, OrphanEnds(e) PROVE Inv'
<1>1. ChildEnds(e)  BY DEF OrphanEnds
<1>2. Steps(e, ex[e])
  BY <1>1, ChildGone, Before, TypeOKIs DEF OrphanEnds, Inv, Steps, Becomes
<1>3. ExecOK(ex[e], child'[e], found'[e])
  BY <1>1, ChildGone, Before DEF OrphanEnds, ExecOK
<1> QED  BY <1>2, <1>3, StepsKeep

LEMMA InvStep == Inv /\ Still /\ [Next]_vars => Inv'
<1> SUFFICES ASSUME Inv, Still, [Next]_vars PROVE Inv'  OBVIOUS
<1>1. CASE UNCHANGED vars  BY <1>1 DEF vars, Inv, TypeOK, ExecOK
<1>2. CASE Cancel  BY <1>2 DEF Cancel, Inv, TypeOK, ExecOK
<1>3. ASSUME NEW e \in Execs, Own(e) PROVE Inv'
  <2>1. CASE Prepare(e) \/ Clone(e) \/ ReadPatch(e) \/ ApplyStops(e) \/ Applied(e)
    BY <2>1, PrepareKeeps, CloneKeeps, ReadPatchKeeps, ApplyStopsKeeps, AppliedKeeps
  <2>2. CASE \E f \in Files : CheckFile(e, f) \/ ApplyFile(e, f)
    BY <2>2, CheckFileKeeps, ApplyFileKeeps
  <2>3. CASE Finished(e) \/ StopsBetween(e) \/ NextIsBlocked(e) \/ NextCommand(e)
    BY <2>3, FinishedKeeps, StopsBetweenKeeps, NextIsBlockedKeeps, NextCommandKeeps
  <2>4. CASE NotSpawned(e) \/ Spawn(e) \/ Settled(e) \/ Ending(e) \/ PrepareFails(e)
    BY <2>4, NotSpawnedKeeps, SpawnKeeps, SettledKeeps, EndingKeeps, PrepareFailsKeeps
  <2> QED  BY <1>3, <2>1, <2>2, <2>3, <2>4 DEF Own
<1>4. ASSUME NEW e \in Execs, Event(e) PROVE Inv'
  BY <1>4, ClaimKeeps, AbortKeeps, ThrowsKeeps, CrashKeeps, TimerFiresKeeps, OrphanEndsKeeps,
     CloseKeeps DEF Event
<1> QED  BY <1>1, <1>2, <1>3, <1>4 DEF Next

-----------------------------------------------------------------------------
(* One after the other: what Alone adds.                                   *)

Cloned == {"applying", "files"} \cup Commanding

\* What the patch makes of a file.
Target(f) == IF ActionOf[f] = "delete" THEN Absent ELSE Patched

\* The directory of an execution that prepared it is its own.
DirOK(e) ==
  /\ ex[e].pc = "cloning" => ws.there /\ ws.by = {}
  /\ ex[e].pc \in Cloned => ws.there /\ ws.by = {e}
  /\ ex[e].pc = "files" => \A f \in Files \ ex[e].todo : ws.files[f] = Target(f)
  /\ ex[e].pc \in Commanding /\ job.kind = "patch" => \A f \in Files : ws.files[f] = Target(f)
  /\ StillFits(e)

\* Once an execution has started, nothing is left of those before it.
Ended(e) == ex[e].pc \in Over /\ child[e] = "none"

Sequential ==
  \A e \in Execs : ex[e].pc # "idle" => \A d \in 1 .. (e - 1) : Ended(d)

AloneInv ==
  /\ Inv /\ Sequential
  /\ \A e \in Execs : DirOK(e) /\ clean[e]

LEMMA AloneInit == Init => AloneInv
<1> SUFFICES ASSUME Init PROVE AloneInv  OBVIOUS
<1>1. \A e \in Execs : ex[e].pc = "idle" /\ clean[e]  BY DEF Init, NewExec
<1> QED  BY <1>1, InvInit DEF AloneInv, Sequential, DirOK, StillFits, Cloned, Commanding

\* While e is at work no other execution is, and those after it have not begun.
LEMMA OnlyOne ==
  ASSUME AloneInv, NEW e \in Execs, NEW d \in Execs \ {e},
         ex[e].pc \notin Over \/ child[e] # "none", ex[e].pc # "idle"
  PROVE  IF d < e THEN Ended(d) ELSE ex[d].pc = "idle" /\ child[d] = "none"
<1>0. e \in Nat /\ d \in Nat /\ e >= 1 /\ d >= 1  BY SandboxAssumption DEF Execs
<1>1. CASE d < e  BY <1>0, <1>1 DEF AloneInv, Sequential
<1>2. CASE d > e
  <2>1. ex[d].pc = "idle"  BY <1>0, <1>2 DEF AloneInv, Sequential, Ended
  <2>2. child[d] = "none"  BY <2>1, Before DEF AloneInv, ExecOK
  <2> QED  BY <1>0, <1>2, <2>1, <2>2
<1> QED  BY <1>0, <1>1, <1>2

\* So a step of e has to show of e alone what is claimed of all.
LEMMA AloneKeeps ==
  ASSUME AloneInv, Inv', NEW e \in Execs,
         ex[e].pc \notin Over \/ child[e] # "none", ex[e].pc # "idle", ex'[e].pc # "idle",
         \A d \in Execs \ {e} : ex'[d] = ex[d] /\ child'[d] = child[d] /\ clean'[d] = clean[d],
         DirOK(e)', clean'[e]
  PROVE  AloneInv'
<1>0. e \in Nat /\ e >= 1 /\ Execs \subseteq Nat  BY SandboxAssumption DEF Execs
<1>1. ASSUME NEW d \in Execs \ {e}
      PROVE  DirOK(d)' /\ clean'[d]
  <2>1. ex'[d].pc \in Over \cup {"idle"}  BY OnlyOne, <1>1 DEF Ended
  <2> QED  BY <2>1, <1>1 DEF DirOK, StillFits, Cloned, Commanding, Over, AloneInv
<1>2. ASSUME NEW c \in Execs, ex'[c].pc # "idle", NEW d \in 1 .. (c - 1) PROVE Ended(d)'
  <2>1. c <= e
    <3>1. CASE c # e  BY <1>0, <1>2, <3>1, OnlyOne
    <3> QED  BY <1>0, <3>1
  <2>2. d \in Execs /\ d # e /\ d < e  BY SandboxAssumption, <1>2, <2>1 DEF Execs
  <2> QED  BY <1>0, <2>2, OnlyOne DEF Ended
<1> QED  BY <1>1, <1>2 DEF AloneInv, Sequential

\* Steps that write the row alone, and do not go back before the clone.
RowStep(e) ==
  \/ ReadPatch(e) \/ ApplyStops(e) \/ Applied(e) \/ Finished(e) \/ StopsBetween(e)
  \/ NextIsBlocked(e) \/ NextCommand(e) \/ NotSpawned(e) \/ Settled(e) \/ Throws(e)
  \/ PrepareFails(e) \/ Crash(e)

\* What a row says after a step, its fields taken one at a time.
LEMMA Written ==
  ASSUME Inv, NEW e \in Execs, NEW r, Becomes(e, r)
  PROVE  ex'[e] = r /\ \A d \in Execs \ {e} : ex'[d] = ex[d]
BY TypeOKIs DEF Inv, Becomes

LEMMA RowFields ==
  ASSUME Inv, NEW e \in Execs
  PROVE  /\ \A pc : At(e, pc).pc = pc /\ At(e, pc).todo = ex[e].todo
         /\ \A v : Verdict(e, v).pc = "finally"
BY Before DEF At, Verdict, ExecRow

Advances(e) ==
  /\ ex[e].pc \notin Over \cup {"idle"}
  /\ \/ ex'[e].pc \in Over \cup {"finally", "rejecting"}
     \/ ex[e].pc = "applying" /\ ex'[e].pc = "files" /\ ex'[e].todo = Files
        /\ ex'[e].fits = {}
     \/ ex[e].pc = "files" /\ ex[e].todo = {} /\ ex'[e].pc = "between"
     \/ ex[e].pc \in Commanding /\ ex'[e].pc \in Commanding

LEMMA RowStepMoves ==
  ASSUME Inv, NEW e \in Execs, RowStep(e)
  PROVE  /\ ws' = ws /\ Quiet(e) /\ \A d \in Execs \ {e} : ex'[d] = ex[d]
         /\ Advances(e)
<1>1. /\ ws' = ws /\ Quiet(e) /\ \E r : Becomes(e, r)
  BY DEF RowStep, ReadPatch, ApplyStops, Applied, Finished, StopsBetween, NextIsBlocked, NextCommand, NotSpawned, Settled, Throws, PrepareFails, Crash
<1>2. \A d \in Execs \ {e} : ex'[d] = ex[d]  BY <1>1, Written
<1>3. CASE ReadPatch(e)
  <2>1. CASE Becomes(e, [At(e, "files") EXCEPT !.todo = Files, !.fits = {}])
    BY <1>3, <2>1, Before, TypeOKIs
       DEF ReadPatch, Inv, Becomes, At, Verdict, ExecRow, Advances, Over, Commanding
  <2>2. CASE Becomes(e, [Verdict(e, "failed") EXCEPT !.checked = FALSE])
    BY <1>3, <2>2, Before, TypeOKIs
       DEF ReadPatch, Inv, Becomes, At, Verdict, ExecRow, Advances, Over, Commanding
  <2> QED  BY <1>3, <2>1, <2>2 DEF ReadPatch
<1>4. CASE ApplyStops(e)
  BY <1>4, Written, RowFields DEF ApplyStops, Advances, Over, Commanding
<1>5. CASE Applied(e)
  BY <1>5, Before, TypeOKIs
     DEF Applied, Inv, Becomes, At, Verdict, ExecRow, Advances, Over, Commanding
<1>6. CASE Finished(e)
  BY <1>6, Written, RowFields DEF Finished, Advances, Over, Commanding
<1>7. CASE StopsBetween(e)
  BY <1>7, Written, RowFields DEF StopsBetween, Advances, Over, Commanding
<1>8. CASE NextIsBlocked(e)
  BY <1>8, Written, RowFields DEF NextIsBlocked, Advances, Over, Commanding
<1>9. CASE NextCommand(e)
  BY <1>9, Before, TypeOKIs
     DEF NextCommand, Inv, Becomes, At, Verdict, ExecRow, Advances, Over, Commanding
<1>10. CASE NotSpawned(e)
  BY <1>10, Before, TypeOKIs
     DEF NotSpawned, Inv, Becomes, At, Verdict, ExecRow, Advances, Over, Commanding
<1>11. CASE Settled(e)
  BY <1>11, Written, RowFields DEF Settled, Advances, Over, Commanding
<1>12. CASE Throws(e)
  BY <1>12, Written, RowFields DEF Throws, Advances, Over, Commanding
<1>13. CASE PrepareFails(e)
  <2>1. CASE Becomes(e, [At(e, "returned") EXCEPT !.status = "failed"])
    BY <1>13, <2>1, Before, TypeOKIs
       DEF PrepareFails, Inv, Becomes, At, Verdict, ExecRow, Advances, Over, Commanding
  <2>2. CASE Becomes(e, At(e, "rejected"))
    BY <1>13, <2>2, Before, TypeOKIs
       DEF PrepareFails, Inv, Becomes, At, Verdict, ExecRow, Advances, Over, Commanding
  <2> QED  BY <1>13, <2>1, <2>2 DEF PrepareFails
<1>14. CASE Crash(e)
  BY <1>14, Written, RowFields DEF Crash, Live, Advances, Over, Commanding
<1> QED  BY <1>1, <1>2, <1>3, <1>4, <1>5, <1>6, <1>7, <1>8, <1>9, <1>10, <1>11, <1>12, <1>13, <1>14 DEF RowStep

LEMMA RowStepAlone ==
  ASSUME AloneInv, Inv', NEW e \in Execs, RowStep(e) PROVE AloneInv'
<1>1. DirOK(e)'
  BY RowStepMoves DEF Advances, AloneInv, DirOK, StillFits, Cloned, Commanding, Over, Quiet
<1>2. clean'[e] /\ ex'[e].pc # "idle"
  BY RowStepMoves DEF Advances, AloneInv, Quiet, Commanding, Over
<1> QED  BY <1>1, <1>2, RowStepMoves, AloneKeeps DEF Advances, AloneInv, Quiet, Over

LEMMA ClaimAlone ==
  ASSUME Alone, AloneInv, Inv', NEW e \in Execs, Claim(e) PROVE AloneInv'
<1>0. Execs \subseteq Nat /\ \A c \in Execs : \A d \in 1 .. (c - 1) : d \in Execs /\ d < c
  BY SandboxAssumption DEF Execs
<1>1. /\ ex[e].pc = "idle" /\ ex'[e].pc = "starting" /\ \A d \in Execs \ {e} : ex'[d] = ex[d]
      /\ child' = child /\ clean' = clean /\ ws' = ws /\ job' = job
      /\ \A d \in 1 .. (e - 1) : Ended(d)
  BY Before, TypeOKIs DEF AloneInv, Inv, Claim, Becomes, At, Quiet, Ended, ExecRow
<1>2. ASSUME NEW c \in Execs PROVE DirOK(c)' /\ clean'[c]
  <2>1. CASE c = e  BY <1>1, <2>1 DEF DirOK, StillFits, Cloned, Commanding, AloneInv
  <2>2. CASE c # e  BY <1>1, <2>2 DEF DirOK, StillFits, KeepsChecked, AloneInv
  <2> QED  BY <2>1, <2>2
<1>3. ASSUME NEW c \in Execs, ex'[c].pc # "idle", NEW d \in 1 .. (c - 1) PROVE Ended(d)'
  <2>1. Ended(d)  BY <1>1, <1>3 DEF AloneInv, Sequential
  <2>2. d # e  BY <1>1, <2>1 DEF Ended, Over
  <2> QED  BY <1>0, <1>1, <2>1, <2>2 DEF Ended
<1> QED  BY <1>2, <1>3 DEF AloneInv, Sequential

LEMMA PrepareAlone ==
  ASSUME AloneInv, Inv', NEW e \in Execs, Prepare(e) PROVE AloneInv'
<1>1. /\ ex[e].pc = "starting" /\ \A d \in Execs \ {e} : ex'[d] = ex[d]
      /\ \/ ex'[e].pc = "returned"
         \/ ex'[e].pc = "cloning" /\ ws'.there /\ ws'.by = {}
  <2>1. CASE Stop(e)
    <3>1. Becomes(e, [At(e, "returned") EXCEPT !.status = "cancelled"])  BY <2>1 DEF Prepare
    <3> QED  BY <3>1, Before, TypeOKIs DEF AloneInv, Inv, Prepare, Becomes, At, ExecRow
  <2>2. CASE ~ Stop(e)
    <3>1. FreshDir.there /\ FreshDir.by = {}  BY DEF FreshDir, NoDir
    <3> QED  BY <2>2, <3>1, Written, RowFields DEF AloneInv, Prepare
  <2> QED  BY <2>1, <2>2
<1>2. DirOK(e)'  BY <1>1 DEF DirOK, StillFits, Cloned, Commanding
<1> QED  BY <1>1, <1>2, AloneKeeps DEF AloneInv, Prepare, Quiet, Over

LEMMA CloneAlone ==
  ASSUME AloneInv, Inv', NEW e \in Execs, Clone(e) PROVE AloneInv'
<1>1. /\ ex[e].pc = "cloning" /\ \A d \in Execs \ {e} : ex'[d] = ex[d]
      /\ ex'[e].pc \in {"applying", "finally", "between"}
      /\ ex'[e].pc = "between" => job.kind # "patch"
  <2>1. job.kind \in {"branch", "patch", "debug", "unlinked"}
    BY SandboxAssumption, Before DEF AloneInv
  <2>2. CASE job.kind = "patch"  BY <2>2, Written, RowFields DEF AloneInv, Clone
  <2>3. CASE job.kind # "patch" /\ Becomes(e, Verdict(e, "failed"))
    BY <2>3, Written, RowFields DEF AloneInv, Clone
  <2>4. CASE job.kind # "patch" /\ Becomes(e, At(e, "between"))
    BY <2>4, Written, RowFields DEF AloneInv, Clone
  <2> QED  BY <2>1, <2>2, <2>3, <2>4 DEF Clone
<1>2. ws'.there /\ ws'.by = {e}
  BY Before DEF AloneInv, Clone, DirOK, Dirs
<1>3. DirOK(e)'  BY <1>1, <1>2 DEF DirOK, StillFits, Cloned, Commanding, Clone, Quiet
<1> QED  BY <1>1, <1>3, AloneKeeps DEF AloneInv, Clone, Quiet, Over

LEMMA CheckFileAlone ==
  ASSUME AloneInv, Inv', NEW e \in Execs, NEW f \in Files, CheckFile(e, f) PROVE AloneInv'
<1>1. /\ ex[e].pc = "files" /\ \A d \in Execs \ {e} : ex'[d] = ex[d]
      /\ ex'[e].pc = "files" /\ ex'[e].todo = ex[e].todo /\ ex'[e].fits = {f}
      /\ ws' = ws /\ Quiet(e)
  BY Before, TypeOKIs DEF AloneInv, Inv, CheckFile, Becomes, ExecRow
<1>2. KeepsChecked(f) => ws.files[f] = job.hash[f]
  BY DEF CheckFile, HashFits, KeepsChecked
<1>3. DirOK(e)'
  BY <1>1, <1>2 DEF AloneInv, DirOK, StillFits, KeepsChecked, Cloned, Commanding, Quiet
<1> QED  BY <1>1, <1>3, AloneKeeps DEF AloneInv, Quiet, Over

LEMMA ApplyFileAlone ==
  ASSUME AloneInv, Inv', NEW e \in Execs, NEW f \in Files, ApplyFile(e, f) PROVE AloneInv'
<1>1. /\ ex[e].pc = "files" /\ \A d \in Execs \ {e} : ex'[d] = ex[d]
      /\ ex'[e].pc = "files" /\ ex'[e].todo = ex[e].todo \ {f} /\ ex'[e].fits = {}
  BY Before, TypeOKIs DEF AloneInv, Inv, ApplyFile, Becomes, ExecRow
<1>2. /\ ws'.there /\ ws'.by = {e} /\ ws'.files[f] = Target(f)
      /\ \A g \in Files \ {f} : ws'.files[g] = ws.files[g]
  BY Before DEF AloneInv, ApplyFile, DirOK, Cloned, Dirs, FileMaps, Target
<1>3. DirOK(e)'  BY <1>1, <1>2 DEF AloneInv, DirOK, StillFits, Cloned, Commanding
<1> QED  BY <1>1, <1>3, AloneKeeps DEF AloneInv, ApplyFile, Over

LEMMA EndingAlone ==
  ASSUME AloneInv, Inv', NEW e \in Execs, Ending(e) PROVE AloneInv'
<1>1. /\ ex[e].pc \in {"finally", "rejecting"} /\ \A d \in Execs \ {e} : ex'[d] = ex[d]
      /\ ex'[e].pc \in Over
  BY Before, TypeOKIs DEF AloneInv, Inv, Ending, Becomes, At, ExecRow, Over
<1>2. DirOK(e)'  BY <1>1 DEF DirOK, StillFits, Cloned, Commanding, Over
<1> QED  BY <1>1, <1>2, AloneKeeps DEF AloneInv, Ending, Quiet, Over

\* Spawn and Close look at the directory, and find it as OwnDir says.
LEMMA DirIsOwn ==
  ASSUME AloneInv, NEW e \in Execs, ex[e].pc \in Commanding PROVE OwnDir(e)
BY DEF AloneInv, DirOK, Cloned, OwnDir, Target

\* ... and what they note of it is that it was so.
LEMMA StaysClean ==
  ASSUME AloneInv, NEW e \in Execs, ex[e].pc \in Commanding,
         clean' = [clean EXCEPT ![e] = @ /\ OwnDir(e)]
  PROVE  \A d \in Execs : clean'[d]
<1>1. OwnDir(e) /\ \A d \in Execs : clean[d]  BY DirIsOwn DEF AloneInv
<1>2. clean \in [Execs -> BOOLEAN]  BY TypeOKIs DEF AloneInv, Inv
<1>3. (clean[e] /\ OwnDir(e)) = TRUE  BY <1>1, <1>2
<1>4. clean' = [clean EXCEPT ![e] = TRUE]  BY <1>3
<1> QED  BY <1>1, <1>2, <1>4

LEMMA SpawnAlone ==
  ASSUME AloneInv, Inv', NEW e \in Execs, Spawn(e) PROVE AloneInv'
<1>1. /\ ex[e].pc = "spawning" /\ ex'[e].pc = "running"
      /\ \A d \in Execs \ {e} : ex'[d] = ex[d]
  BY Before, TypeOKIs DEF AloneInv, Inv, Spawn, Becomes, At, ExecRow
<1>2. \A d \in Execs : clean'[d] /\ clean[d]
  BY <1>1, StaysClean DEF Spawn, Commanding, AloneInv
<1>3. \A d \in Execs \ {e} : child'[d] = child[d] /\ clean'[d] = clean[d]
  BY TypeOKIs DEF AloneInv, Inv, Spawn
<1>4. DirOK(e)'  BY <1>1 DEF AloneInv, Spawn, DirOK, StillFits, Cloned, Commanding
<1> QED  BY <1>1, <1>2, <1>3, <1>4, AloneKeeps DEF Over

LEMMA CloseAlone ==
  ASSUME AloneInv, Inv', NEW e \in Execs, NEW code \in {0, 1}, Close(e, code) PROVE AloneInv'
<1>1. /\ ex[e].pc = "running" /\ ex'[e].pc = "settled"
      /\ \A d \in Execs \ {e} : ex'[d] = ex[d]
  BY Before, TypeOKIs DEF AloneInv, Inv, Close, Becomes, At, ExecRow
<1>2. \A d \in Execs : clean'[d] /\ clean[d]
  BY <1>1, StaysClean DEF Close, Commanding, AloneInv
<1>3. \A d \in Execs \ {e} : child'[d] = child[d] /\ clean'[d] = clean[d]
  BY TypeOKIs DEF AloneInv, Inv, Close, Settles, ChildEnds
<1>4. ws'.there /\ ws'.by = {e} /\ ws'.files = ws.files
  BY <1>1, Before
     DEF AloneInv, Close, Settles, ChildEnds, Scribble, DirOK, Cloned, Commanding, Dirs
<1>5. DirOK(e)'  BY <1>1, <1>4 DEF AloneInv, Close, DirOK, StillFits, Cloned, Commanding
<1> QED  BY <1>1, <1>2, <1>3, <1>5, AloneKeeps DEF Over

LEMMA SignalAlone ==
  ASSUME AloneInv, Inv', NEW e \in Execs, TimerFires(e) \/ Abort(e) PROVE AloneInv'
<1>1. /\ ex[e].pc \notin Over \cup {"idle"} /\ ex'[e].pc = ex[e].pc /\ ex'[e].todo = ex[e].todo
      /\ ex'[e].fits = ex[e].fits
      /\ \A d \in Execs \ {e} : ex'[d] = ex[d] /\ child'[d] = child[d]
      /\ ws' = ws /\ job' = job /\ clean' = clean
  BY Before, TypeOKIs, Signals
     DEF AloneInv, Inv, TimerFires, Abort, Live, Becomes, ExecRow, Over
<1>2. DirOK(e)'  BY <1>1 DEF AloneInv, DirOK, StillFits, KeepsChecked
<1> QED  BY <1>1, <1>2, AloneKeeps DEF AloneInv

LEMMA OrphanEndsAlone ==
  ASSUME AloneInv, Inv', NEW e \in Execs, OrphanEnds(e) PROVE AloneInv'
<1>1. /\ ex[e].pc = "crashed" /\ child[e] # "none" /\ ex' = ex /\ clean' = clean
      /\ \A d \in Execs \ {e} : child'[d] = child[d]
  BY TypeOKIs DEF AloneInv, Inv, OrphanEnds, ChildEnds
<1>2. DirOK(e)'  BY <1>1 DEF DirOK, StillFits, Cloned, Commanding
<1> QED  BY <1>1, <1>2, AloneKeeps DEF AloneInv

LEMMA AloneStep ==
  ASSUME Alone PROVE AloneInv /\ [Next]_vars => AloneInv'
<1> SUFFICES ASSUME AloneInv, [Next]_vars PROVE AloneInv'  OBVIOUS
<1>0. Inv'  BY InvStep DEF AloneInv, Still, DirOK
<1>1. CASE UNCHANGED vars  BY <1>0, <1>1 DEF vars, AloneInv, Sequential, Ended, DirOK, StillFits, KeepsChecked
<1>2. CASE Cancel  BY <1>0, <1>2 DEF Cancel, AloneInv, Sequential, Ended, DirOK, StillFits, KeepsChecked
<1>3. ASSUME NEW e \in Execs, Own(e) PROVE AloneInv'
  <2>1. \/ RowStep(e) \/ Prepare(e) \/ Clone(e) \/ Spawn(e) \/ Ending(e)
        \/ \E f \in Files : CheckFile(e, f) \/ ApplyFile(e, f)
    BY <1>3 DEF Own, RowStep
  <2> QED  BY <1>0, <2>1, RowStepAlone, PrepareAlone, CloneAlone, SpawnAlone, EndingAlone,
              CheckFileAlone, ApplyFileAlone
<1>4. ASSUME NEW e \in Execs, Event(e) PROVE AloneInv'
  <2>1. \/ RowStep(e) \/ Claim(e) \/ Abort(e) \/ TimerFires(e) \/ OrphanEnds(e)
        \/ \E code \in {0, 1} : Close(e, code)
    BY <1>4 DEF Event, RowStep
  <2> QED  BY <1>0, <2>1, RowStepAlone, ClaimAlone, SignalAlone, OrphanEndsAlone, CloseAlone
<1> QED  BY <1>1, <1>2, <1>3, <1>4 DEF Next

\* Without Alone nothing is claimed of the files between check and write.
LEMMA Invariant == Spec => []Inv
<1>1. CASE Alone
  <2>1. AloneInv /\ [Next]_vars => AloneInv'  BY <1>1, AloneStep
  <2>2. AloneInv => Inv  BY DEF AloneInv
  <2> QED  BY <2>1, <2>2, AloneInit, PTL DEF Spec
<1>2. CASE ~ Alone
  <2>1. Inv /\ [Next]_vars => Inv'  BY <1>2, InvStep DEF Still
  <2> QED  BY <2>1, InvInit, PTL DEF Spec
<1> QED  BY <1>1, <1>2

-----------------------------------------------------------------------------
(* The theorems.                                                           *)

\* Every variable keeps its type; in particular no command past the list is run.
THEOREM TypeCorrect == Spec => []TypeOK
<1>1. Inv => TypeOK  BY DEF Inv
<1> QED  BY <1>1, Invariant, PTL

\* However timeout, abort and exit race, no child is left when its job is over,
\* unless the worker itself died.
THEOREM NoOrphans == Spec => []NoChildOutlivesJob
<1>1. Inv => NoChildOutlivesJob  BY DEF Inv, ExecOK, NoChildOutlivesJob
<1> QED  BY <1>1, Invariant, PTL

\* One execution after the other, hashes reported as checked were those of the files
\* at the moment they were replaced, though the write comes after the await.
THEOREM ChecksHold == ASSUME Alone PROVE Spec => []CheckedMeansUnmoved
<1>1. Inv => CheckedMeansUnmoved  BY DEF Inv, ExecOK, CheckedMeansUnmoved
<1> QED  BY <1>1, Invariant, PTL

\* One execution after the other, a passed verdict is about the whole command list,
\* each command run in this execution's own clone with the whole patch on it.
THEOREM GreenIsTested == ASSUME Alone PROVE Spec => []GreenMeansTested
<1>1. AloneInv => GreenMeansTested
  <2> SUFFICES ASSUME AloneInv, NEW e \in Execs, ex[e].pc = "returned", ex[e].status = "passed"
               PROVE  /\ ex[e].n = MaxCommands /\ job.blocked \cap (1 .. MaxCommands) = {}
                      /\ clean[e]
                      /\ job.kind = "patch" => ex[e].applied
    BY DEF GreenMeansTested
  <2> QED  BY Before DEF AloneInv, ExecOK
<1> QED  BY <1>1, AloneInit, AloneStep, PTL DEF Spec

=============================================================================
