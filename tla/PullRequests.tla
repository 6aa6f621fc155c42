---------------------------- MODULE PullRequests ----------------------------
(***************************************************************************)
(* From a session's patch to a pull request on GitHub: the orchestration   *)
(* that still proposes patches and writes the session, the person who      *)
(* approves or rejects it, the validate and test-job requests, the workers *)
(* and whoever cancels their jobs, and any number of pull request calls,   *)
(* over one session.                                                       *)
(*                                                                         *)
(* No transaction spans two steps: every call reads rows, works with its   *)
(* copies and writes by id.  A pull request call works with the session it *)
(* read first, reads the latest patch artifact and the latest validated    *)
(* patch set separately, and passes its gates one after the other.         *)
(*                                                                         *)
(* A patch artifact is its number, a patch set the number of its row, and  *)
(* a file's content a version of the base branch or the artifact that      *)
(* wrote it.  Gates on environment variables are one refusal (Leave).      *)
(***************************************************************************)
EXTENDS Naturals

CONSTANTS
  Requests,      \* calls of POST /sessions/[id]/pull-request
  Files,         \* files of the target repository
  ActionOf,      \* what the session's patches do to each: create, modify or delete
  Shapes,        \* the sets of files they may touch
  Unsafe,        \* the artifacts the validator refuses
  Configs,       \* settings of a deployment, with the callers' right to delete
  WorkerStrict,  \* AI_ORCHESTRATOR_PATCH_HASH_STRICT of the worker
  Versions,      \* contents a file may have on the base branch
  First,         \* ... and had when the session began
  Absent,        \* ... and there is no such file
  NoHash,        \* old_content_hash = null
  Workers,       \* executions of test jobs under way at one time
  Stamps,        \* values of Date.now() at a call
  MaxNames,      \* branch names tried for one call
  MaxArtifacts,  \* bound on proposed patches
  MaxSets,       \* bound on patch sets
  MaxJobs,       \* bound on test jobs
  MaxDecisions,  \* bound on approvals and rejections
  MaxMoves       \* bound on commits to the base branch

None == 0
Artifacts == 1 .. MaxArtifacts
PatchSets == 1 .. MaxSets
Jobs      == 1 .. MaxJobs
Blobs     == Versions \cup {Absent}
Names     == Stamps \X (1 .. MaxNames)

ASSUME PullAssumption ==
  /\ MaxNames \in Nat \ {0}
  /\ \A n \in {MaxArtifacts, MaxSets, MaxJobs, MaxDecisions, MaxMoves} : n \in Nat
  /\ ActionOf \in [Files -> {"create", "modify", "delete"}]
  /\ Shapes \subseteq SUBSET Files /\ {} \notin Shapes
  /\ First \in Versions /\ Absent \notin Versions /\ NoHash \notin Blobs
  /\ Blobs \cap Artifacts = {} /\ Files # {} /\ Stamps # {} /\ Configs # {}
  /\ WorkerStrict \in BOOLEAN
  /\ \A c \in Configs : /\ {c.dryRun, c.inline, c.strict, c.canDelete} \subseteq BOOLEAN

VARIABLES
  config,     \* the settings in force
  session,    \* the row of ai_sessions: status and approval
  agreed,     \* history: the session was once approved or passed
  run,        \* the orchestration: what it is about to write, over which copy
  touched,    \* the files the session's patches touch
  latest,     \* number of patch artifacts so far
  approver,   \* a person's decision in flight, with the status it read
  decisions,  \* decisions so far
  sets,       \* rows of ai_patch_sets with their ai_patch_files
  validator,  \* the validate request in flight
  tester,     \* the patch set the test-job request read
  jobs,       \* rows of test_patch jobs, numbered in the order of created_at
  execution,  \* what each worker is about to write to its job
  cancelling, \* jobs a cancel found unfinished and has yet to write
  greens,     \* history: the passed verdicts written, with the files they tested
  base,       \* the base branch: the content of each file
  moves,      \* commits to the base branch so far
  branches,   \* the session's branches on GitHub
  opened,     \* pull requests on GitHub
  rows,       \* rows of ai_pull_requests
  greenInline,\* history: patch sets whose inline tests were green
  req         \* pull request calls

sessionVars == <<config, session, agreed, run, touched, latest, approver, decisions>>
jobVars     == <<tester, jobs, execution, cancelling, greens>>
patchVars   == <<sets, validator, jobVars, greenInline>>
githubVars  == <<base, moves, branches, opened>>
vars == <<sessionVars, patchVars, githubVars, rows, req>>

-----------------------------------------------------------------------------

Start == [status |-> "running", approval |-> "pending"]

RunAt(pc) == [pc |-> pc, copy |-> Start]

Undecided == [decision |-> "none", status |-> "running"]

NoSet    == [status |-> "none", ok |-> FALSE, artifact |-> None,
             stored |-> {}, hash |-> [f \in Files |-> NoHash]]
NoResult == [applied |-> FALSE, checked |-> FALSE, files |-> {}]
NoJobYet == [status |-> "none", set |-> None, result |-> NoResult]
NoExecution == [pc |-> "idle", job |-> None, clone |-> [f \in Files |-> Absent],
                result |-> NoResult]
NoRequest == [set |-> None, artifact |-> None, todo |-> {}]
NoBranch == [owners |-> {}, cut |-> [f \in Files |-> Absent],
             files |-> [f \in Files |-> Absent],
             over |-> [f \in Files |-> Absent]]   \* history: what a write replaced
NewCall  == [pc |-> "idle", row |-> Start,
             text |-> None, set |-> None,
             unread |-> {"text", "set"}, todo |-> {},
             name |-> <<CHOOSE t \in Stamps : TRUE, 1>>, copied |-> "none",
             cut |-> [f \in Files |-> Absent],
             file |-> CHOOSE f \in Files : TRUE, seen |-> Absent]

Init ==
  /\ config \in Configs
  /\ session = Start
  /\ agreed = FALSE
  /\ run = RunAt("working")
  /\ touched \in Shapes
  /\ latest = 0
  /\ approver = Undecided
  /\ decisions = 0
  /\ sets = [p \in PatchSets |-> NoSet]
  /\ validator = NoRequest
  /\ tester = None
  /\ jobs = [j \in Jobs |-> NoJobYet]
  /\ execution = [w \in Workers |-> NoExecution]
  /\ cancelling = {}
  /\ greens = {}
  /\ base = [f \in Files |-> IF ActionOf[f] = "create" THEN Absent ELSE First]
  /\ moves = 0
  /\ branches = [n \in Names |-> NoBranch]
  /\ opened = {}
  /\ rows = {}
  /\ greenInline = {}
  /\ req = [r \in Requests |-> NewCall]

-----------------------------------------------------------------------------
(* The session: the orchestration and the person.                          *)

Agreed(s) == s.approval = "approved" \/ s.status = "passed"

WriteSession(s) == session' = s /\ agreed' = (agreed \/ Agreed(s))

\* updateSession reads the row; what the patch leaves out comes from here.
RunReads ==
  /\ run.pc = "working"
  /\ run' = [pc |-> "saving", copy |-> session]
  /\ UNCHANGED <<config, session, agreed, touched, latest, approver, decisions, patchVars, githubVars, rows, req>>

\* A round begins with its number written to the session; a verdict ends the
\* run (failed also stands for needs_revision, which nothing here tells apart).
RunWrites ==
  /\ run.pc = "saving"
  /\ \/ /\ latest < MaxArtifacts
        /\ WriteSession(run.copy)
        /\ run' = RunAt("proposing")
     \/ /\ \E v \in {"passed", "failed"} :
             WriteSession([run.copy EXCEPT !.status = v])
        /\ run' = RunAt("over")
  /\ UNCHANGED <<config, touched, latest, approver, decisions, patchVars, githubVars, rows, req>>

\* The implementer's output of the round is stored.
Propose ==
  /\ run.pc = "proposing"
  /\ latest' = latest + 1
  /\ run' = RunAt("working")
  /\ UNCHANGED <<config, session, agreed, touched, approver, decisions, patchVars, githubVars, rows, req>>

\* setApproval reads the session for its status ...
Decide(d) ==
  /\ approver.decision = "none" /\ decisions < MaxDecisions
  /\ decisions' = decisions + 1
  /\ approver' = [decision |-> d, status |-> session.status]
  /\ UNCHANGED <<config, session, agreed, run, touched, latest, patchVars, githubVars, rows, req>>

\* ... and writes both columns.
SetApproval ==
  /\ approver.decision # "none"
  /\ WriteSession([approval |-> approver.decision,
                   status |-> IF approver.decision = "rejected" THEN "rejected"
                              ELSE approver.status])
  /\ approver' = Undecided
  /\ UNCHANGED <<config, run, touched, latest, decisions, patchVars, githubVars, rows, req>>

-----------------------------------------------------------------------------
(* Validation and storage of a patch.                                      *)

\* An unsafe patch fails for everybody, one that deletes for those who may not.
Valid(artifact) ==
  /\ artifact \notin Unsafe
  /\ config.canDelete \/ \A f \in touched : ActionOf[f] # "delete"

FreeSets == {p \in PatchSets : sets[p].status = "none"}

\* The new row is the first free one: rows are numbered in the order of created_at.
CreatePatchSet(p, artifact, ok) ==
  /\ p \in FreeSets /\ \A q \in FreeSets : p <= q
  /\ sets' = [sets EXCEPT ![p] = [NoSet EXCEPT !.status = IF ok THEN "validated" ELSE "failed",
                                               !.ok = ok, !.artifact = artifact]]

AddPatchFile(p, f, hash) ==
  sets' = [sets EXCEPT ![p].stored = sets[p].stored \cup {f}, ![p].hash[f] = hash]

\* The most recent patch set whose status is validated.
LatestValidated ==
  LET V == {p \in PatchSets : sets[p].status = "validated"}
  IN  IF V = {} THEN None ELSE CHOOSE p \in V : \A q \in V : q <= p

\* The validate route reads the latest artifact ...
ValidateReads ==
  /\ validator.artifact = None /\ latest > 0 /\ FreeSets # {}
  /\ validator' = [NoRequest EXCEPT !.artifact = latest]
  /\ UNCHANGED <<sessionVars, sets, jobVars, greenInline, githubVars, rows, req>>

\* ... stores the set with its outcome, before any of its files ...
ValidateStores ==
  /\ validator.artifact # None /\ validator.set = None
  /\ \E p \in PatchSets :
       /\ CreatePatchSet(p, validator.artifact, Valid(validator.artifact))
       /\ validator' = [validator EXCEPT !.set = p, !.todo = touched]
  /\ UNCHANGED <<sessionVars, jobVars, greenInline, githubVars, rows, req>>

\* The drift hash of a file on the base branch, none if it is not there.
HashOfMissing(f) == base[f]
HashOf(f) == IF base[f] = Absent THEN NoHash ELSE base[f]

\* ... and adds the files, each with the hash of the base branch at that time,
\* or none when GitHub does not answer.
ValidateAdds(f) ==
  /\ f \in validator.todo
  /\ \E h \in {NoHash, HashOf(f)} :
       /\ ActionOf[f] = "create" => h = NoHash
       /\ AddPatchFile(validator.set, f, h)
  /\ validator' = IF validator.todo = {f}
                  THEN NoRequest
                  ELSE [validator EXCEPT !.todo = validator.todo \ {f}]
  /\ UNCHANGED <<sessionVars, jobVars, greenInline, githubVars, rows, req>>

\* A failing call, or the end of the process, leaves the set as it is.
ValidateDies ==
  /\ validator.artifact # None
  /\ validator' = NoRequest
  /\ UNCHANGED <<sessionVars, sets, jobVars, greenInline, githubVars, rows, req>>

-----------------------------------------------------------------------------
(* Test jobs.  Which of several executions of a job still owns it is the   *)
(* business of WorkerJobs: here any of them may write its verdict, and     *)
(* cancel its own, over whatever the row says by then.                     *)

TestReads ==
  /\ tester = None /\ LatestValidated # None /\ \E j \in Jobs : jobs[j].status = "none"
  /\ tester' = LatestValidated
  /\ UNCHANGED <<jobs, execution, cancelling, greens>>

TestEnqueues ==
  /\ tester # None
  /\ \E j \in Jobs :
       /\ jobs[j].status = "none" /\ \A i \in 1 .. (j - 1) : jobs[i].status # "none"
       /\ jobs' = [jobs EXCEPT ![j] = [NoJobYet EXCEPT !.status = "queued", !.set = tester]]
  /\ tester' = None
  /\ UNCHANGED <<execution, cancelling, greens>>

Unfinished(j) == jobs[j].status \in {"queued", "running"}

\* The only columns the claim and cancel write here are the status.
Marks(j, status) == jobs' = [jobs EXCEPT ![j].status = status]

\* A worker claims the job, perhaps again after a lost lease, and clones the branch.
JobStarts(w, j) ==
  /\ execution[w].pc = "idle" /\ Unfinished(j)
  /\ Marks(j, "running")
  /\ execution' = [execution EXCEPT ![w] = [NoExecution EXCEPT !.pc = "cloned", !.job = j,
                                                               !.clone = base]]
  /\ UNCHANGED <<tester, cancelling, greens>>

SetOf(w) == jobs[execution[w].job].set

\* A file of the set fits the clone: create finds nothing, the others their file
\* with the hash of validation time, or none stored and the worker not strict.
Fits(w, f) ==
  LET here == execution[w].clone[f]
      hash == sets[SetOf(w)].hash[f]
  IN  IF ActionOf[f] = "create" THEN here = Absent
      ELSE here # Absent /\ (hash = here \/ (hash = NoHash /\ ~WorkerStrict))

\* The applier takes the files stored so far.
JobApplies(w) ==
  LET s == sets[SetOf(w)]
      applied == /\ s.status \in {"validated", "applied"}
                 /\ s.stored # {}
                 /\ \A f \in s.stored : Fits(w, f)
      checked == \A f \in s.stored : ActionOf[f] # "create" => s.hash[f] # NoHash
  IN  /\ execution[w].pc = "cloned"
      /\ execution' = [execution EXCEPT ![w] =
           [NoExecution EXCEPT !.pc = "ending", !.job = execution[w].job,
              !.result = IF applied THEN [applied |-> TRUE, checked |-> checked, files |-> s.stored]
                         ELSE NoResult]]
      /\ UNCHANGED <<tester, jobs, cancelling, greens>>

\* What a passed verdict says was tested.
Tested(p, result) == [set |-> p, files |-> result.files, checked |-> result.checked]

\* Verdict and result are written together, over what is there.
JobEnds(w, v) ==
  LET j == execution[w].job
      result == execution[w].result
  IN  /\ execution[w].pc = "ending"
      /\ v = "passed" => result.applied
      /\ jobs' = [jobs EXCEPT ![j].status = v, ![j].result = result]
      /\ greens' = IF v = "passed" THEN greens \cup {Tested(SetOf(w), result)} ELSE greens
      /\ execution' = [execution EXCEPT ![w] = NoExecution]
      /\ UNCHANGED <<tester, cancelling>>

\* The execution dies, or finds the job taken over and writes nothing.
JobLost(w) ==
  /\ execution[w].pc # "idle"
  /\ execution' = [execution EXCEPT ![w] = NoExecution]
  /\ UNCHANGED <<tester, jobs, cancelling, greens>>

\* A claim fails the job that has used up its attempts.
JobGivenUp(j) ==
  /\ jobs[j].status = "running"
  /\ Marks(j, "failed")
  /\ UNCHANGED <<tester, execution, cancelling, greens>>

\* cancelWorkerJob reads an unfinished job ...
CancelReads(j) ==
  /\ Unfinished(j) /\ j \notin cancelling
  /\ cancelling' = cancelling \cup {j}
  /\ UNCHANGED <<tester, jobs, execution, greens>>

\* ... and marks it, be there a verdict by now; the result stays.
CancelWrites(j) ==
  /\ j \in cancelling
  /\ Marks(j, "cancelled")
  /\ cancelling' = cancelling \ {j}
  /\ UNCHANGED <<tester, execution, greens>>

\* Failed also stands for timed_out, which the gates do not tell apart.
Verdicts == {"passed", "failed", "cancelled"}

JobStep ==
  /\ \/ TestReads \/ TestEnqueues
     \/ \E w \in Workers, j \in Jobs : JobStarts(w, j)
     \/ \E w \in Workers : JobApplies(w) \/ JobLost(w)
     \/ \E w \in Workers, v \in Verdicts : JobEnds(w, v)
     \/ \E j \in Jobs : JobGivenUp(j) \/ CancelReads(j) \/ CancelWrites(j)
  /\ UNCHANGED <<sessionVars, sets, validator, greenInline, githubVars, rows, req>>

-----------------------------------------------------------------------------
(* Pull request calls.                                                     *)

Goes(r, upd) == req' = [req EXCEPT ![r] = upd]
At(r, pc)    == [req[r] EXCEPT !.pc = pc]
Ends(r)      == Goes(r, [NewCall EXCEPT !.pc = "done"])

\* The route reads the session.
Open(r) ==
  /\ req[r].pc = "idle"
  /\ Goes(r, [At(r, "reading") EXCEPT !.row = session])
  /\ UNCHANGED <<sessionVars, patchVars, githubVars, rows>>

ReadText(r) ==
  /\ req[r].pc = "reading" /\ "text" \in req[r].unread
  /\ Goes(r, [req[r] EXCEPT !.unread = @ \ {"text"}, !.text = latest])
  /\ UNCHANGED <<sessionVars, patchVars, githubVars, rows>>

ReadSet(r) ==
  /\ req[r].pc = "reading" /\ "set" \in req[r].unread
  /\ Goes(r, [req[r] EXCEPT !.unread = @ \ {"set"}, !.set = LatestValidated])
  /\ UNCHANGED <<sessionVars, patchVars, githubVars, rows>>

Ready(r) == req[r].pc = "reading" /\ req[r].unread = {}

\* The approval gate looks at the session as the route read it.
Gate(r) ==
  IF Agreed(req[r].row) THEN Goes(r, At(r, IF config.dryRun THEN "dry" ELSE "live"))
  ELSE Ends(r)

Reuse(r) ==
  /\ Ready(r) /\ req[r].set # None
  /\ Gate(r)
  /\ UNCHANGED <<sessionVars, patchVars, githubVars, rows>>

MaySubmit(r) == req[r].text # None /\ Valid(req[r].text)

\* Without a validated set the call validates and stores the artifact itself.
Store(r) ==
  /\ Ready(r) /\ req[r].set = None /\ req[r].text # None
  /\ \E p \in PatchSets :
       /\ CreatePatchSet(p, req[r].text, MaySubmit(r))
       /\ Goes(r, [At(r, "storing") EXCEPT !.set = p, !.todo = touched])
  /\ UNCHANGED <<sessionVars, validator, jobVars, greenInline, githubVars, rows>>

\* No base hashes on this path.
StoreFile(r, f) ==
  /\ req[r].pc = "storing" /\ f \in req[r].todo
  /\ AddPatchFile(req[r].set, f, NoHash)
  /\ Goes(r, [req[r] EXCEPT !.todo = @ \ {f}])
  /\ UNCHANGED <<sessionVars, validator, jobVars, greenInline, githubVars, rows>>

Stored(r) ==
  /\ req[r].pc = "storing" /\ req[r].todo = {}
  /\ IF MaySubmit(r) THEN Gate(r) ELSE Ends(r)
  /\ UNCHANGED <<sessionVars, patchVars, githubVars, rows>>

Row(r, status) == [call |-> r, set |-> req[r].set, status |-> status]

DryRun(r) ==
  /\ req[r].pc = "dry"
  /\ rows' = rows \cup {Row(r, "dry_run")}
  /\ Ends(r)
  /\ UNCHANGED <<sessionVars, patchVars, githubVars>>

\* The patch to publish is parsed from the artifact text the route read, and must
\* be valid again; the set that is blamed for it was read separately.
Recheck(r) ==
  /\ req[r].pc = "live" /\ req[r].text # None /\ ~MaySubmit(r)
  /\ sets' = [sets EXCEPT ![req[r].set].status = "failed"]
  /\ Ends(r)
  /\ UNCHANGED <<sessionVars, validator, jobVars, greenInline, githubVars, rows>>

InlineTests(r) ==
  /\ req[r].pc = "live" /\ MaySubmit(r) /\ config.inline
  /\ \/ /\ greenInline' = greenInline \cup {req[r].set}
        /\ Goes(r, At(r, "cut"))
        /\ UNCHANGED sets
     \/ /\ sets' = [sets EXCEPT ![req[r].set].status = "failed"]
        /\ Ends(r)
        /\ UNCHANGED greenInline
  /\ UNCHANGED <<sessionVars, validator, jobVars, githubVars, rows>>

\* A green sandbox job of this set, which applied it and, in strict mode, checked
\* the hashes of the files it replaced.
Green(j, p) == jobs[j].status = "passed" /\ jobs[j].result.applied /\ jobs[j].set = p

ProvesAnySet(j, p) == \E q \in PatchSets : Green(j, q)
Proves(j, p) == Green(j, p) /\ (config.strict => jobs[j].result.checked)

\* Only the latest test_patch job counts.
SandboxGate(r) ==
  /\ req[r].pc = "live" /\ MaySubmit(r) /\ ~config.inline
  /\ LET known == {j \in Jobs : jobs[j].status # "none"}
         ok == \E j \in known : /\ \A i \in known : i <= j
                                /\ Proves(j, req[r].set)
     IN  IF ok THEN Goes(r, At(r, "cut")) ELSE Ends(r)
  /\ UNCHANGED <<sessionVars, patchVars, githubVars, rows>>

\* createSessionBranch: the base commit is read, then a name is looked for.
ReadBase(r) ==
  /\ req[r].pc = "cut"
  /\ \E t \in Stamps : Goes(r, [At(r, "probe") EXCEPT !.cut = base, !.name = <<t, 1>>])
  /\ UNCHANGED <<sessionVars, patchVars, githubVars, rows>>

Taken(n) == branches[n].owners # {}

MoreNames(n) == n[2] < MaxNames

Probe(r) ==
  /\ req[r].pc = "probe"
  /\ LET n == req[r].name
     IN  IF ~Taken(n) THEN Goes(r, At(r, "branch"))
         ELSE IF MoreNames(n) THEN Goes(r, [req[r] EXCEPT !.name = <<n[1], n[2] + 1>>])
         ELSE Goes(r, At(r, "error"))
  /\ UNCHANGED <<sessionVars, patchVars, githubVars, rows>>

\* GitHub refuses to create a ref that exists.
RefusedNever(n) == FALSE
Refused(n) == Taken(n)

CreateBranch(r) ==
  /\ req[r].pc = "branch"
  /\ IF Refused(req[r].name)
     THEN Goes(r, At(r, "error")) /\ UNCHANGED branches
     ELSE /\ branches' = [branches EXCEPT ![req[r].name] =
                            [owners |-> @.owners \cup {r}, cut |-> req[r].cut,
                             files |-> req[r].cut, over |-> @.over]]
          /\ Goes(r, [At(r, "copy") EXCEPT !.todo = touched, !.cut = NewCall.cut])
  /\ UNCHANGED <<sessionVars, patchVars, base, moves, opened, rows>>

\* updatePatchSet stores base_sha: it reads the row and writes it back, status included.
CopySet(r) ==
  /\ req[r].pc = "copy"
  /\ Goes(r, [At(r, "save") EXCEPT !.copied = sets[req[r].set].status])
  /\ UNCHANGED <<sessionVars, patchVars, githubVars, rows>>

SaveSetApplied(r) ==
  /\ req[r].pc = "save"
  /\ sets' = [sets EXCEPT ![req[r].set].status = "applied"]
  /\ Goes(r, [At(r, "fetch") EXCEPT !.copied = "none"])
  /\ UNCHANGED <<sessionVars, validator, jobVars, greenInline, githubVars, rows>>

SaveSet(r) ==
  /\ req[r].pc = "save"
  /\ sets' = [sets EXCEPT ![req[r].set].status = req[r].copied]
  /\ Goes(r, [At(r, "fetch") EXCEPT !.copied = "none"])
  /\ UNCHANGED <<sessionVars, validator, jobVars, greenInline, githubVars, rows>>

\* applyPatchFiles reads each file from the base branch of now ...
Fetch(r, f) ==
  /\ req[r].pc = "fetch" /\ f \in req[r].todo
  /\ IF (base[f] = Absent) = (ActionOf[f] = "create")
     THEN Goes(r, [At(r, "put") EXCEPT !.file = f, !.seen = base[f]])
     ELSE Goes(r, At(r, "error"))
  /\ UNCHANGED <<sessionVars, patchVars, githubVars, rows>>

\* GitHub's contents API: a write carries the sha of the blob it replaces, none
\* for a new file.
AcceptsAnySha(onBranch, sha) == TRUE
Accepts(onBranch, sha) == onBranch = sha

Written(r, f) == IF ActionOf[f] = "delete" THEN Absent ELSE req[r].text

\* ... and writes it to the new branch with the sha it read there.
Put(r) ==
  /\ req[r].pc = "put"
  /\ LET n == req[r].name
         f == req[r].file
     IN  IF Accepts(branches[n].files[f], req[r].seen)
         THEN /\ branches' = [branches EXCEPT ![n].files[f] = Written(r, f),
                                               ![n].over[f] = req[r].seen]
              /\ Goes(r, [At(r, IF req[r].todo = {f} THEN "open" ELSE "fetch") EXCEPT
                            !.todo = @ \ {f}, !.seen = Absent])
         ELSE Goes(r, At(r, "error")) /\ UNCHANGED branches
  /\ UNCHANGED <<sessionVars, patchVars, base, moves, opened, rows>>

OpenPullRequest(r) ==
  /\ req[r].pc = "open"
  /\ opened' = opened \cup {[call |-> r, name |-> req[r].name, set |-> req[r].set,
                             artifact |-> req[r].text, approval |-> req[r].row.approval]}
  /\ Goes(r, At(r, "record"))
  /\ UNCHANGED <<sessionVars, patchVars, base, moves, branches, rows>>

Record(r) ==
  /\ req[r].pc = "record"
  /\ rows' = rows \cup {Row(r, "created")}
  /\ Goes(r, At(r, "mark"))
  /\ UNCHANGED <<sessionVars, patchVars, githubVars>>

MarkApplied(r) ==
  /\ req[r].pc = "mark"
  /\ sets' = [sets EXCEPT ![req[r].set].status = "applied"]
  /\ Ends(r)
  /\ UNCHANGED <<sessionVars, validator, jobVars, greenInline, githubVars, rows>>

Github == {"cut", "probe", "branch", "copy", "save", "fetch", "put", "open", "record", "mark", "error"}

\* Any error of these steps ends in a failed row, if that can be written.
Fails(r) ==
  /\ req[r].pc \in Github
  /\ rows' \in {rows, rows \cup {Row(r, "failed")}}
  /\ Ends(r)
  /\ UNCHANGED <<sessionVars, patchVars, githubVars>>

\* Refused by a gate on permissions, environment, smoke or health; or the
\* process ends.
Leave(r) ==
  /\ req[r].pc \notin {"idle", "done"}
  /\ Ends(r)
  /\ UNCHANGED <<sessionVars, patchVars, githubVars, rows>>

-----------------------------------------------------------------------------

\* Somebody commits to the base branch.
Commit ==
  /\ moves < MaxMoves
  /\ moves' = moves + 1
  /\ \E f \in Files, b \in Blobs : b # base[f] /\ base' = [base EXCEPT ![f] = b]
  /\ UNCHANGED <<sessionVars, patchVars, branches, opened, rows, req>>

SessionStep == \/ Propose \/ RunReads \/ RunWrites \/ SetApproval
               \/ \E d \in {"approved", "rejected"} : Decide(d)

PatchStep == \/ ValidateReads \/ ValidateStores \/ ValidateDies \/ JobStep
             \/ \E f \in Files : ValidateAdds(f)

GateStep(r) == \/ Open(r) \/ ReadText(r) \/ ReadSet(r) \/ Reuse(r) \/ Store(r) \/ Stored(r)
               \/ \E f \in Files : StoreFile(r, f)
               \/ DryRun(r) \/ Recheck(r) \/ InlineTests(r) \/ SandboxGate(r)
               \/ Leave(r)

GithubStep(r) == \/ ReadBase(r) \/ Probe(r) \/ CreateBranch(r) \/ CopySet(r) \/ SaveSet(r) \/ Put(r)
                 \/ \E f \in Files : Fetch(r, f)
                 \/ OpenPullRequest(r) \/ Record(r) \/ MarkApplied(r) \/ Fails(r)

Next == SessionStep \/ PatchStep \/ Commit \/ \E r \in Requests : GateStep(r) \/ GithubStep(r)

Spec == Init /\ [][Next]_vars

-----------------------------------------------------------------------------
(* Properties.                                                             *)

Pcs == {"idle", "reading", "storing", "dry", "live", "done"} \cup Github

Sessions == [status : {"running", "passed", "failed", "rejected"},
             approval : {"pending", "approved", "rejected"}]

SetStatus == {"none", "validated", "applied", "failed"}

Call == [pc : Pcs, row : Sessions, text : 0 .. MaxArtifacts, set : 0 .. MaxSets,
         unread : SUBSET {"text", "set"}, todo : SUBSET Files, name : Names,
         copied : SetStatus, cut : [Files -> Blobs], file : Files, seen : Blobs]

Greens  == [set : PatchSets, files : SUBSET Files, checked : BOOLEAN]
Results == [applied : BOOLEAN, checked : BOOLEAN, files : SUBSET Files]

\* Every variable keeps its type; in particular a call never leaves the branch
\* names createSessionBranch may try.
TypeOK ==
  /\ config \in Configs /\ session \in Sessions /\ agreed \in BOOLEAN
  /\ run \in [pc : {"working", "saving", "proposing", "over"}, copy : Sessions]
  /\ touched \in Shapes /\ latest \in 0 .. MaxArtifacts
  /\ approver \in [decision : {"none", "approved", "rejected"},
                   status : {"running", "passed", "failed", "rejected"}]
  /\ decisions \in 0 .. MaxDecisions
  /\ sets \in [PatchSets -> [status : SetStatus, ok : BOOLEAN, artifact : 0 .. MaxArtifacts,
                             stored : SUBSET Files, hash : [Files -> Versions \cup {NoHash}]]]
  /\ validator \in [set : 0 .. MaxSets, artifact : 0 .. MaxArtifacts, todo : SUBSET Files]
  /\ tester \in 0 .. MaxSets
  /\ jobs \in [Jobs -> [status : {"none", "queued", "running"} \cup Verdicts,
                        set : 0 .. MaxSets, result : Results]]
  /\ execution \in [Workers -> [pc : {"idle", "cloned", "ending"}, job : 0 .. MaxJobs,
                                clone : [Files -> Blobs], result : Results]]
  /\ cancelling \subseteq Jobs /\ greens \subseteq Greens
  /\ base \in [Files -> Blobs] /\ moves \in 0 .. MaxMoves
  /\ branches \in [Names -> [owners : SUBSET Requests, cut : [Files -> Blobs],
                             files : [Files -> Blobs \cup Artifacts],
                             over : [Files -> Blobs]]]
  /\ opened \subseteq [call : Requests, name : Names, set : PatchSets, artifact : Artifacts,
                      approval : {"pending", "approved", "rejected"}]
  /\ rows \subseteq [call : Requests, set : PatchSets, status : {"dry_run", "created", "failed"}]
  /\ greenInline \subseteq PatchSets
  /\ req \in [Requests -> Call]

\* The diff of a pull request is the patch and nothing else, although the checks
\* look at a base branch that moves while the branch does not: what the call saw of
\* a file is what its branch had there, nothing for one it creates, and each file
\* ends as the patch says.
DiffIsThePatch ==
  \A o \in opened, f \in Files :
    LET b == branches[o.name]
    IN  IF f \in touched
        THEN /\ b.cut[f] = b.over[f]
             /\ (b.over[f] = Absent) = (ActionOf[f] = "create")
             /\ b.files[f] = IF ActionOf[f] = "delete" THEN Absent ELSE o.artifact
        ELSE b.files[f] = b.cut[f]

\* No two calls ever write to one branch, although both may find its name free.
OneWriterPerBranch ==
  /\ \A n \in Names : \A r, q \in branches[n].owners : r = q
  /\ \A r \in Requests : req[r].pc \in {"fetch", "put", "open", "record"} =>
       branches[req[r].name].owners = {r}

\* The ledger never claims what GitHub does not have: a created row has its pull
\* request, for that patch set, and an applied patch set has a created row.
LedgerIsTrue ==
  /\ \A w \in rows : w.status = "created" => \E o \in opened : o.call = w.call /\ o.set = w.set
  /\ \A p \in PatchSets : sets[p].status = "applied" =>
       \E w \in rows : w.set = p /\ w.status = "created"

\* Whatever happens between its gates, a patch set is opened only after it was once
\* validated, its tests were once green and somebody once agreed, in this order: the
\* flow implements ReviewedChange.  A verdict may be gone again by the time its set
\* is opened, to a cancel or to another execution that writes late; that a green one
\* was written for this very set is what counts here.
WasGreen(p) == p \in greenInline \/ \E g \in greens : g.set = p

Stage(p) ==
  IF \E o \in opened : o.set = p THEN "published"
  ELSE IF WasGreen(p) THEN "tested"
  ELSE IF sets[p].ok THEN "validated"
  ELSE "absent"

Reviewed == INSTANCE ReviewedChange
              WITH stage <- [p \in PatchSets |-> Stage(p)]

ImplementsReviewedChange == Reviewed!Spec

\* What src/README.md:756 says: a pull request is blocked until a sandbox job has
\* passed for the exact patch (whatever the job's row says later).
ExactPatchWasTested ==
  \A o \in opened : config.inline \/
    \E g \in greens : sets[g.set].artifact = o.artifact /\ g.files = touched

=============================================================================
