------------------------ MODULE PullRequests_proofs ------------------------
(***************************************************************************)
(* Theorems about PullRequests, for any number of calls, files, patch      *)
(* sets, jobs and artifacts, any settings and any commits to the base.     *)
(***************************************************************************)
EXTENDS PullRequests, WellFoundedInduction, TLAPS

USE DEF jobVars

SetRow == [status : SetStatus, ok : BOOLEAN, artifact : 0 .. MaxArtifacts,
           stored : SUBSET Files, hash : [Files -> Versions \cup {NoHash}]]

JobStatus == {"none", "queued", "running"} \cup Verdicts

Trees == [Files -> Blobs]

JobRow == [status : JobStatus, set : 0 .. MaxSets, result : Results]

Execution == [pc : {"idle", "cloned", "ending"}, job : 0 .. MaxJobs, clone : Trees, result : Results]

Branch == [owners : SUBSET Requests, cut : Trees, files : [Files -> Blobs \cup Artifacts],
           over : Trees]

PullRequest == [call : Requests, name : Names, set : PatchSets, artifact : Artifacts,
                approval : {"pending", "approved", "rejected"}]

LedgerRow == [call : Requests, set : PatchSets, status : {"dry_run", "created", "failed"}]

RunRow == [pc : {"working", "saving", "proposing", "over"}, copy : Sessions]

Decision == [decision : {"none", "approved", "rejected"},
             status : {"running", "passed", "failed", "rejected"}]

SessionTypes ==
  /\ config \in Configs /\ session \in Sessions
  /\ run \in RunRow
  /\ touched \in Shapes /\ latest \in 0 .. MaxArtifacts
  /\ approver \in Decision
  /\ decisions \in 0 .. MaxDecisions
  /\ run.pc = "proposing" => latest < MaxArtifacts

JobTypes ==
  /\ tester \in 0 .. MaxSets
  /\ jobs \in [Jobs -> JobRow]
  /\ \A j \in Jobs : jobs[j].status # "none" => jobs[j].set \in PatchSets
  /\ execution \in [Workers -> Execution]
  /\ \A w \in Workers : execution[w].pc # "idle" =>
       execution[w].job \in Jobs /\ jobs[execution[w].job].status # "none"
  /\ cancelling \subseteq Jobs
  /\ \A j \in cancelling : jobs[j].status # "none"
  /\ greens \subseteq Greens

PatchTypes ==
  /\ JobTypes
  /\ sets \in [PatchSets -> SetRow]
  /\ validator \in [set : 0 .. MaxSets, artifact : 0 .. MaxArtifacts, todo : SUBSET Files]
  /\ greenInline \subseteq PatchSets

GithubTypes ==
  /\ base \in Trees /\ moves \in 0 .. MaxMoves
  /\ branches \in [Names -> Branch]
  /\ opened \subseteq PullRequest
  /\ rows \subseteq LedgerRow

CallTypes == req \in [Requests -> Call]

Types == agreed \in BOOLEAN /\ SessionTypes /\ PatchTypes /\ GithubTypes /\ CallTypes

LEMMA TypesAreTypeOK == Types => TypeOK
BY Zenon DEF Types, SessionTypes, PatchTypes, JobTypes, GithubTypes, CallTypes, TypeOK, SetRow, JobStatus,
   Trees, JobRow, Execution, Branch, PullRequest, LedgerRow, RunRow, Decision

\* What the constants are.
LEMMA Sizes ==
  /\ MaxNames \in Nat /\ MaxArtifacts \in Nat /\ MaxSets \in Nat /\ MaxJobs \in Nat
  /\ MaxDecisions \in Nat /\ MaxMoves \in Nat
  /\ PatchSets \subseteq Nat \ {0} /\ Artifacts \subseteq Nat \ {0} /\ Jobs \subseteq Nat
  /\ PatchSets \subseteq 0 .. MaxSets /\ Artifacts \subseteq 0 .. MaxArtifacts
  /\ 0 \in 0 .. MaxSets /\ 0 \in 0 .. MaxArtifacts
BY PullAssumption DEF PatchSets, Artifacts, Jobs

LEMMA FilesTyped ==
  /\ Absent \in Blobs /\ First \in Blobs /\ Versions \subseteq Blobs
  /\ \A t \in Shapes : t \subseteq Files /\ t # {}
  /\ [f \in Files |-> Absent] \in Trees
  /\ [f \in Files |-> NoHash] \in [Files -> Versions \cup {NoHash}]
BY PullAssumption DEF Blobs, Trees

LEMMA NewTyped ==
  /\ Start \in Sessions /\ NoSet \in SetRow /\ NoJobYet \in JobRow /\ NoBranch \in Branch
  /\ NewCall \in Call
<1>1. /\ Start \in Sessions /\ NoSet \in SetRow /\ NoJobYet \in JobRow
  BY FilesTyped, Sizes DEF Start, Sessions, NoSet, SetRow, SetStatus, NoJobYet, JobRow, JobStatus, None, NoResult, Results
<1>2. NoBranch \in Branch
  <2>1. Trees \subseteq [Files -> Blobs \cup Artifacts]  BY DEF Trees
  <2> QED  BY <2>1, FilesTyped DEF NoBranch, Branch
<1>3. NewCall.name \in Names
  BY PullAssumption DEF NewCall, Names
<1>4. NewCall \in Call
  <2>1. (CHOOSE f \in Files : TRUE) \in Files  BY PullAssumption
  <2> QED  BY <1>1, <1>3, <2>1, FilesTyped, Sizes DEF NewCall, Call, Pcs, SetStatus, None, Trees
<1> QED  BY <1>1, <1>2, <1>4

LEMMA IdleTyped ==
  /\ NoResult \in Results /\ ~ NoResult.applied
  /\ NoExecution \in Execution /\ NoExecution.pc = "idle" /\ ~ NoExecution.result.applied
BY FilesTyped, Sizes DEF NoResult, Results, NoExecution, Execution, None

-----------------------------------------------------------------------------
(* Types.                                                                  *)

LEMMA RunsTyped ==
  /\ \A pc \in {"working", "saving", "proposing", "over"} : RunAt(pc) \in RunRow
  /\ Undecided \in Decision /\ 0 \in 0 .. MaxDecisions /\ 0 \in 0 .. MaxMoves
BY NewTyped, Sizes DEF RunAt, RunRow, Undecided, Decision

LEMMA RunPc == \A pc : RunAt(pc).pc = pc
BY DEF RunAt

LEMMA InitTypes == Init => Types
<1> SUFFICES ASSUME Init PROVE Types  OBVIOUS
<1>1. SessionTypes
  BY RunsTyped, NewTyped, Sizes, RunPc DEF Init, SessionTypes
<1>2. PatchTypes
  BY NewTyped, IdleTyped, Sizes DEF Init, PatchTypes, JobTypes, NoRequest, NoJobYet, None
<1>3. GithubTypes
  BY NewTyped, FilesTyped, Sizes DEF Init, GithubTypes, Trees
<1>4. CallTypes  BY NewTyped DEF Init, CallTypes
<1>5. agreed \in BOOLEAN  BY DEF Init
<1> QED  BY <1>1, <1>2, <1>3, <1>4, <1>5 DEF Types

\* Somebody writes the session, or leaves it.
LEMMA SessionStepTypes ==
  ASSUME Types, SessionStep PROVE Types'
<1>1. UNCHANGED <<patchVars, githubVars, rows, req>>
  BY DEF SessionStep, Propose, RunReads, RunWrites, SetApproval, Decide
<1>2. PatchTypes' /\ GithubTypes' /\ CallTypes'
  BY <1>1 DEF Types, PatchTypes, JobTypes, GithubTypes, CallTypes, patchVars, githubVars
<1>3. SessionTypes /\ MaxArtifacts \in Nat /\ MaxDecisions \in Nat  BY Sizes DEF Types
<1>4. ASSUME Propose PROVE SessionTypes'
  <2>1. run' \in RunRow /\ run'.pc = "working"  BY <1>4, RunsTyped, RunPc DEF Propose
  <2>2. latest' \in 0 .. MaxArtifacts  BY <1>3, <1>4 DEF Propose, SessionTypes
  <2> QED  BY <1>3, <1>4, <2>1, <2>2 DEF Propose, SessionTypes
<1>5. ASSUME RunReads PROVE SessionTypes'
  <2>1. run' \in RunRow /\ run'.pc = "saving"  BY <1>3, <1>5 DEF RunReads, SessionTypes, RunRow
  <2> QED  BY <1>3, <1>5, <2>1 DEF RunReads, SessionTypes
<1>6. ASSUME NEW s \in Sessions, WriteSession(s)
      PROVE  session' \in Sessions
  BY <1>6 DEF WriteSession
<1>7. ASSUME RunWrites PROVE SessionTypes'
  <2>1. run.copy \in Sessions /\ \A v \in {"passed", "failed"} : [run.copy EXCEPT !.status = v] \in Sessions
    BY <1>3 DEF SessionTypes, RunRow, Sessions
  <2>2. PICK s \in Sessions : WriteSession(s)  BY <1>7, <2>1 DEF RunWrites
  <2>3. /\ run' \in RunRow /\ latest' = latest
        /\ run'.pc = "proposing" => latest < MaxArtifacts
    BY <1>7, RunsTyped, RunPc DEF RunWrites
  <2> QED  BY <1>3, <1>6, <1>7, <2>2, <2>3 DEF RunWrites, SessionTypes
<1>8. ASSUME SetApproval PROVE SessionTypes'
  <2>1. PICK s \in Sessions : WriteSession(s)
    BY <1>3, <1>8 DEF SetApproval, SessionTypes, Decision, Sessions
  <2>2. approver' \in Decision  BY <1>8, RunsTyped DEF SetApproval
  <2> QED  BY <1>3, <1>6, <1>8, <2>1, <2>2 DEF SetApproval, SessionTypes
<1>9. ASSUME NEW d \in {"approved", "rejected"}, Decide(d) PROVE SessionTypes'
  BY <1>3, <1>9 DEF Decide, SessionTypes, Sessions, Decision
<1>10. agreed' \in BOOLEAN
  <2>1. agreed \in BOOLEAN /\ (agreed' = agreed \/ \E s : agreed' = (agreed \/ Agreed(s)))
    BY Zenon DEF Types, SessionStep, Propose, RunReads, RunWrites, SetApproval, Decide, WriteSession
  <2> QED  BY <2>1, Zenon DEF Agreed
<1> QED
  BY <1>2, <1>4, <1>5, <1>7, <1>8, <1>9, <1>10 DEF SessionStep, Types

\* What the writes of a patch set do.
LEMMA SetCreated ==
  ASSUME PatchTypes, NEW p \in PatchSets, NEW a \in 0 .. MaxArtifacts, NEW ok \in BOOLEAN,
         CreatePatchSet(p, a, ok)
  PROVE  /\ sets' \in [PatchSets -> SetRow] /\ sets[p].status = "none"
         /\ sets'[p].ok = ok /\ sets'[p].status = (IF ok THEN "validated" ELSE "failed")
         /\ \A q \in PatchSets \ {p} : sets'[q] = sets[q]
<1> DEFINE r == [NoSet EXCEPT !.status = IF ok THEN "validated" ELSE "failed", !.ok = ok, !.artifact = a]
<1>1. r \in SetRow /\ r.ok = ok /\ r.status = (IF ok THEN "validated" ELSE "failed")
  BY FilesTyped DEF NoSet, SetRow, SetStatus
<1>2. sets' = [sets EXCEPT ![p] = r] /\ sets[p].status = "none"
  BY DEF CreatePatchSet, FreeSets
<1> HIDE DEF r
<1> QED  BY <1>1, <1>2 DEF PatchTypes

LEMMA FileAdded ==
  ASSUME PatchTypes, NEW p, NEW f \in Files, NEW h \in Versions \cup {NoHash}, AddPatchFile(p, f, h)
  PROVE  /\ sets' \in [PatchSets -> SetRow]
         /\ \A q \in PatchSets : sets'[q].status = sets[q].status /\ sets'[q].ok = sets[q].ok
<1>1. CASE p \notin PatchSets
  <2>1. sets' = sets  BY <1>1 DEF AddPatchFile, PatchTypes
  <2> QED  BY <2>1 DEF PatchTypes
<1>2. CASE p \in PatchSets
  <2> DEFINE r == [sets[p] EXCEPT !.stored = sets[p].stored \cup {f}, !.hash[f] = h]
  <2>1. r \in SetRow /\ r.status = sets[p].status /\ r.ok = sets[p].ok
    BY <1>2 DEF PatchTypes, SetRow
  <2>2. sets' = [sets EXCEPT ![p] = r]  BY <1>2 DEF AddPatchFile, PatchTypes
  <2> HIDE DEF r
  <2> QED  BY <1>2, <2>1, <2>2 DEF PatchTypes
<1> QED  BY <1>1, <1>2

LEMMA SetMarked ==
  ASSUME PatchTypes, NEW p \in PatchSets, NEW s \in SetStatus, sets' = [sets EXCEPT ![p].status = s]
  PROVE  /\ sets' \in [PatchSets -> SetRow] /\ sets'[p].status = s /\ sets'[p].ok = sets[p].ok
         /\ \A q \in PatchSets \ {p} : sets'[q] = sets[q]
<1> DEFINE r == [sets[p] EXCEPT !.status = s]
<1>1. r \in SetRow /\ r.status = s /\ r.ok = sets[p].ok  BY DEF PatchTypes, SetRow
<1>2. sets' = [sets EXCEPT ![p] = r]  BY DEF PatchTypes
<1> HIDE DEF r
<1> QED  BY <1>1, <1>2 DEF PatchTypes

\* A set of numbers up to N has a last one.
LEMMA LastExists ==
  ASSUME NEW N \in Nat, NEW V \in SUBSET (1 .. N), V # {}
  PROVE  \E p \in V : \A q \in V : q <= p
<1> DEFINE T == {N - p : p \in V}
<1>1. T \subseteq Nat
  <2>1. \A p \in V : N - p \in Nat  OBVIOUS
  <2> QED  BY <2>1
<1>2. T # {}  OBVIOUS
<1>3. PICK x \in T : \A y \in T : ~ (<<y, x>> \in OpToRel(<, Nat))
  BY <1>1, <1>2, NatLessThanWellFounded, WFMin, Zenon
<1>4. \A y \in T : ~ (y < x)
  BY <1>1, <1>3 DEF OpToRel
<1>5. PICK p \in V : x = N - p  OBVIOUS
<1>6. ASSUME NEW q \in V PROVE q <= p
  BY <1>4, <1>5
<1> QED  BY <1>6

LEMMA LatestTyped ==
  /\ LatestValidated \in 0 .. MaxSets
  /\ LatestValidated # None =>
       LatestValidated \in PatchSets /\ sets[LatestValidated].status = "validated"
<1> DEFINE V == {p \in PatchSets : sets[p].status = "validated"}
<1>1. CASE V = {}  BY <1>1, Sizes DEF LatestValidated, None
<1>2. CASE V # {}
  <2>1. \E p \in V : \A q \in V : q <= p  BY <1>2, Sizes, LastExists DEF PatchSets
  <2>2. LatestValidated = CHOOSE p \in V : \A q \in V : q <= p
    BY <1>2 DEF LatestValidated
  <2>3. LatestValidated \in V  BY <2>1, <2>2
  <2> QED  BY <2>3, Sizes
<1> QED  BY <1>1, <1>2

-----------------------------------------------------------------------------
(* The inductive invariant.                                                *)

Sound(p)     == p \in PatchSets /\ sets[p].status # "none" /\ sets[p].ok
Recorded(p)  == \E w \in rows : w.set = p /\ w.status = "created"
Usable(a)    == a # None /\ Valid(a)

\* A file of a branch is as artifact a makes it, or as it was cut.
Made(n, f, a) ==
  /\ branches[n].cut[f] = branches[n].over[f]
  /\ (branches[n].over[f] = Absent) <=> (ActionOf[f] = "create")
  /\ branches[n].files[f] = IF ActionOf[f] = "delete" THEN Absent ELSE a
Untouched(n, f) == branches[n].files[f] = branches[n].cut[f]

Writing == {"copy", "save", "fetch", "put", "open"}
Owning  == Writing \cup {"record"}
After   == {"record", "mark", "error", "done"}

\* What call r may rely on when its record is c: the consent it saw, the patch set
\* it works with, the tests of that set, the branch that is its own, the pull request.
Consented(c) == Agreed(c.row) => agreed

ReadFine(c) == c.pc \in {"idle", "reading"} /\ c.set # None => Sound(c.set)

StoreFine(c) == c.pc = "storing" =>
  /\ c.set \in PatchSets /\ sets[c.set].status # "none"
  /\ Usable(c.text) => sets[c.set].ok

GateFine(c) ==
  /\ c.pc \in {"dry", "live"} \cup Github => agreed
  /\ c.pc \in {"dry", "live"} \cup Github => Sound(c.set)
  /\ c.pc \in Github => WasGreen(c.set) /\ c.text # None

BranchFine(r, c) ==
  /\ c.pc \in Owning => branches[c.name].owners = {r}
  /\ c.pc \in Writing => c.todo \subseteq touched
  /\ c.pc \in Writing => \A f \in touched \ c.todo : Made(c.name, f, c.text)
  /\ c.pc \in Writing => \A f \in (Files \ touched) \cup c.todo : Untouched(c.name, f)

FileFine(c) ==
  /\ c.pc = "put" => c.file \in c.todo /\ (c.seen = Absent <=> ActionOf[c.file] = "create")
  /\ c.pc = "open" => c.todo = {}

MarkFine(r, c) ==
  /\ c.pc = "save" => c.copied # "none"
  /\ c.pc = "save" /\ c.copied = "applied" => Recorded(c.set)
  /\ c.pc = "record" => \E o \in opened : o.call = r /\ o.set = c.set
  /\ c.pc = "mark" => Recorded(c.set)

CallFine(r, c) ==
  /\ Consented(c) /\ ReadFine(c) /\ StoreFine(c) /\ GateFine(c)
  /\ BranchFine(r, c) /\ FileFine(c) /\ MarkFine(r, c)

\* A patch set that counts was found valid, one applied has its row.
SetsOK ==
  \A p \in PatchSets :
    /\ sets[p].status = "none" => ~ sets[p].ok
    /\ sets[p].status \in {"validated", "applied"} => sets[p].ok
    /\ sets[p].status = "applied" => Recorded(p)
    /\ p \in greenInline => sets[p].ok

\* A job is of a stored set; what is applied, and what is green, was found valid; a
\* row that says passed has its evidence, although its verdict may be gone any time.
JobsOK ==
  /\ tester # None => sets[tester].status # "none"
  /\ \A j \in Jobs :
       /\ jobs[j].status # "none" => sets[jobs[j].set].status # "none"
       /\ jobs[j].status = "passed" /\ jobs[j].result.applied =>
            Tested(jobs[j].set, jobs[j].result) \in greens
  /\ \A w \in Workers : execution[w].result.applied =>
       execution[w].pc # "idle" /\ sets[SetOf(w)].ok
  /\ \A g \in greens : sets[g.set].ok

\* A pull request is the patch of a tested set, and its call is done with its branch.
OpenedOK ==
  \A o \in opened :
    /\ WasGreen(o.set) /\ branches[o.name].owners = {o.call}
    /\ req[o.call].pc \in After
    /\ \A f \in touched : Made(o.name, f, o.artifact)
    /\ \A f \in Files \ touched : Untouched(o.name, f)

RowsOK ==
  \A w \in rows : w.status = "created" => \E o \in opened : o.call = w.call /\ o.set = w.set

OneOwner == \A n \in Names : \A r, q \in branches[n].owners : r = q

Inv ==
  /\ Types /\ (Agreed(session) => agreed)
  /\ SetsOK /\ JobsOK /\ OpenedOK /\ RowsOK /\ OneOwner
  /\ \A r \in Requests : CallFine(r, req[r])

LEMMA InvInit == Init => Inv
<1> SUFFICES ASSUME Init PROVE Inv  OBVIOUS
<1>1. Types  BY InitTypes
<1>2. ~ Agreed(Start) /\ NewCall.pc = "idle" /\ NewCall.set = None /\ NewCall.row = Start /\ NoSet.status = "none" /\ ~ NoSet.ok
      /\ NoJobYet.status = "none" /\ ~ NoExecution.result.applied /\ NoBranch.owners = {}
  BY DEF Agreed, Start, NewCall, NoSet, NoJobYet, NoBranch, NoExecution, NoResult
<1>3. SetsOK /\ JobsOK /\ OpenedOK /\ RowsOK /\ OneOwner
  BY <1>2 DEF Init, SetsOK, JobsOK, OpenedOK, RowsOK, OneOwner, None
<1>4. \A r \in Requests : req[r] = NewCall  BY DEF Init
<1>5. \A r \in Requests : CallFine(r, req[r])
  BY <1>2, <1>4 DEF CallFine, Consented, ReadFine, StoreFine, GateFine, BranchFine, FileFine, MarkFine,
     Github, Owning, Writing
<1> QED  BY <1>1, <1>2, <1>3, <1>5 DEF Init, Inv

\* Nothing a call relies on is taken back.
Grow ==
  /\ agreed => agreed'
  /\ \A p \in PatchSets : sets[p].status # "none" => sets'[p].status # "none" /\ sets'[p].ok = sets[p].ok
  /\ greenInline \subseteq greenInline'
  /\ greens \subseteq greens'
  /\ rows \subseteq rows' /\ opened \subseteq opened'
  /\ UNCHANGED <<config, touched>>

LEMMA GrowKeeps ==
  ASSUME Types, Grow
  PROVE  /\ \A p \in PatchSets : Sound(p) => Sound(p)'
         /\ \A p \in PatchSets : WasGreen(p) => WasGreen(p)'
         /\ \A p : Recorded(p) => Recorded(p)'
         /\ \A a : Usable(a)' = Usable(a)
<1>1. \A p \in PatchSets : Sound(p) => Sound(p)'  BY DEF Grow, Sound
<1>2. \A p \in PatchSets : WasGreen(p) => WasGreen(p)'  BY DEF Grow, WasGreen
<1>3. \A p : Recorded(p) => Recorded(p)'  BY DEF Grow, Recorded
<1>4. \A a : Usable(a)' = Usable(a)  BY DEF Grow, Usable, Valid
<1> QED  BY <1>1, <1>2, <1>3, <1>4

LEMMA CallStays ==
  ASSUME Types, Grow, NEW q \in Requests, NEW c \in Call, CallFine(q, c),
         c.pc \in Owning => branches'[c.name] = branches[c.name]
  PROVE  CallFine(q, c)'
<1>1. c.set \in PatchSets \/ c.set = None  BY DEF Call, PatchSets, None
<1>2. Consented(c)'  BY Zenon DEF CallFine, Consented, Grow, Agreed
<1>3. Sound(c.set) => Sound(c.set)'  BY GrowKeeps DEF Sound
<1>4. Sound(c.set) /\ WasGreen(c.set) => WasGreen(c.set)'  BY GrowKeeps DEF Sound
<1>5. Recorded(c.set) => Recorded(c.set)'  BY GrowKeeps
<1>6. ReadFine(c)'  BY <1>3 DEF CallFine, ReadFine
<1>7. StoreFine(c)'  BY GrowKeeps DEF CallFine, StoreFine, Grow
<1>8. GateFine(c)'
  <2>1. GateFine(c)  BY DEF CallFine
  <2>2. (c.pc \in {"dry", "live"} \cup Github => agreed)'  BY <2>1, Zenon DEF GateFine, Grow
  <2>3. (c.pc \in {"dry", "live"} \cup Github => Sound(c.set))'  BY <1>3, <2>1 DEF GateFine
  <2>4. (c.pc \in Github => WasGreen(c.set) /\ c.text # None)'  BY <1>4, <2>1 DEF GateFine
  <2> QED  BY <2>2, <2>3, <2>4, Zenon DEF GateFine
<1>9. BranchFine(q, c)'
  BY DEF CallFine, BranchFine, Grow, Made, Untouched, Owning
<1>10. FileFine(c)'  BY DEF CallFine, FileFine
<1>11. MarkFine(q, c)'  BY <1>5 DEF CallFine, MarkFine, Grow
<1> QED  BY <1>2, <1>6, <1>7, <1>8, <1>9, <1>10, <1>11 DEF CallFine

\* A step that leaves everything but the calls alone takes nothing back.
LEMMA StillGrow ==
  ASSUME Types, UNCHANGED <<sessionVars, patchVars, opened, rows>>
  PROVE  Grow
BY DEF Grow, sessionVars, patchVars, Green

LEMMA JobsStay ==
  ASSUME Types, SetsOK, JobsOK, Grow, UNCHANGED jobVars
  PROVE  JobsOK'
<1>1. /\ JobTypes /\ \A p \in PatchSets : sets[p].status # "none" => sets'[p].status # "none" /\ sets'[p].ok = sets[p].ok
  BY DEF Types, PatchTypes, Grow
<1>2. tester # None => tester \in PatchSets  BY <1>1 DEF JobTypes, PatchSets, None
<1>3. tester' # None => sets'[tester'].status # "none"  BY <1>1, <1>2 DEF JobsOK
<1>4. ASSUME NEW j \in Jobs
      PROVE  /\ jobs'[j].status # "none" => sets'[jobs'[j].set].status # "none"
             /\ jobs'[j].status = "passed" /\ jobs'[j].result.applied =>
                  Tested(jobs'[j].set, jobs'[j].result) \in greens'
  <2>1. jobs[j].status # "none" => jobs[j].set \in PatchSets  BY <1>1 DEF JobTypes
  <2> QED  BY <1>1, <2>1 DEF JobsOK
<1>5. ASSUME NEW w \in Workers, execution'[w].result.applied
      PROVE  execution'[w].pc # "idle" /\ sets'[SetOf(w)'].ok
  <2>1. execution[w].pc # "idle" /\ sets[SetOf(w)].ok  BY <1>5 DEF JobsOK
  <2>2. SetOf(w) \in PatchSets  BY <1>1, <2>1 DEF JobTypes, SetOf
  <2>3. SetOf(w)' = SetOf(w)  BY DEF SetOf
  <2> QED  BY <1>1, <2>1, <2>2, <2>3 DEF SetsOK
<1>6. ASSUME NEW g \in greens' PROVE sets'[g.set].ok
  <2>1. g.set \in PatchSets /\ sets[g.set].ok  BY <1>1 DEF JobTypes, JobsOK, Greens
  <2> QED  BY <1>1, <2>1 DEF SetsOK
<1> QED  BY <1>3, <1>4, <1>5, <1>6 DEF JobsOK, Tested

LEMMA RowsStay ==
  ASSUME RowsOK, Grow, rows' = rows
  PROVE  RowsOK'
BY DEF RowsOK, Grow

\* The record of one call is written.
LEMMA CallMoves ==
  ASSUME Types, NEW r \in Requests, NEW c \in Call, Goes(r, c)
  PROVE  CallTypes' /\ req'[r] = c /\ \A q \in Requests \ {r} : req'[q] = req[q]
BY DEF Types, CallTypes, Goes

\* Pull requests stay what they are while a call moves on and writes at most to a
\* branch that is its own.
LEMMA OpenedStays ==
  ASSUME Types, OpenedOK, Grow, NEW r \in Requests, NEW c \in Call, Goes(r, c),
         req[r].pc \in After => c.pc \in After,
         \A n \in Names : branches'[n] = branches[n] \/
                            (branches[n].owners \subseteq {r} /\ req[r].pc \notin After)
  PROVE  \A o \in opened : /\ WasGreen(o.set)' /\ branches'[o.name].owners = {o.call}
                           /\ req'[o.call].pc \in After
                           /\ \A f \in touched' : Made(o.name, f, o.artifact)'
                           /\ \A f \in Files \ touched' : Untouched(o.name, f)'
<1> TAKE o \in opened
<1>1. o.call \in Requests /\ o.name \in Names /\ o.set \in PatchSets
  BY DEF Types, GithubTypes, PullRequest
<1>2. req'[r] = c /\ \A q \in Requests \ {r} : req'[q] = req[q]  BY CallMoves
<1>3. req[o.call].pc \in After /\ branches[o.name].owners = {o.call} /\ WasGreen(o.set)  BY DEF OpenedOK
<1>4. req'[o.call].pc \in After  BY <1>1, <1>2, <1>3
<1>5. WasGreen(o.set)'  BY <1>1, <1>3, GrowKeeps
<1>6. branches'[o.name] = branches[o.name]
  BY <1>1, <1>3
<1>7. /\ \A f \in touched' : Made(o.name, f, o.artifact)'
      /\ \A f \in Files \ touched' : Untouched(o.name, f)'
  BY <1>6 DEF OpenedOK, Made, Untouched, Grow
<1> QED  BY <1>3, <1>4, <1>5, <1>6, <1>7

\* The other calls are none the worse for it.
LEMMA OthersStay ==
  ASSUME Inv, Grow, NEW r \in Requests, NEW c \in Call, Goes(r, c), CallFine(r, c)',
         \A n \in Names : branches'[n] = branches[n] \/ branches[n].owners \subseteq {r}
  PROVE  \A q \in Requests : CallFine(q, req[q])'
<1>1. Types /\ \A q \in Requests : CallFine(q, req[q])  BY DEF Inv
<1>2. req'[r] = c /\ \A q \in Requests \ {r} : req'[q] = req[q]  BY <1>1, CallMoves
<1>3. CallFine(r, req[r])'  BY <1>2
<1>4. ASSUME NEW q \in Requests \ {r} PROVE CallFine(q, req[q])'
  <2> DEFINE d == req[q]
  <2>1. d \in Call /\ d.name \in Names  BY <1>1 DEF Types, CallTypes, Call
  <2>2. d.pc \in Owning => branches[d.name].owners = {q}  BY <1>1 DEF CallFine, BranchFine
  <2>3. d.pc \in Owning => branches'[d.name] = branches[d.name]  BY <2>1, <2>2
  <2>4. CallFine(q, d)  BY <1>1
  <2> HIDE DEF d
  <2>5. req'[q] = d  BY <1>2 DEF d
  <2>6. \A e \in Call : CallFine(q, e) /\ (e.pc \in Owning => branches'[e.name] = branches[e.name]) => CallFine(q, e)'
    BY <1>1, CallStays
  <2> QED  BY <2>1, <2>3, <2>4, <2>5, <2>6
<1> QED  BY <1>3, <1>4

\* What a step of a call has to show.
LEMMA RequestKeeps ==
  ASSUME Inv, Grow, NEW r \in Requests, NEW c \in Call, Goes(r, c), CallFine(r, c)',
         req[r].pc \in After => c.pc \in After,
         \A n \in Names : branches'[n] = branches[n] \/
                            (branches[n].owners \subseteq {r} /\ req[r].pc \notin After),
         UNCHANGED <<sessionVars, jobVars, opened>>,
         PatchTypes', GithubTypes', SetsOK', RowsOK', OneOwner'
  PROVE  Inv'
<1>1. Types /\ OpenedOK /\ JobsOK /\ (Agreed(session) => agreed)  BY DEF Inv
<1>2. SessionTypes' /\ agreed' \in BOOLEAN
  BY <1>1, Zenon DEF Types, SessionTypes, sessionVars
<1>3. Types'  BY <1>1, <1>2, CallMoves, Zenon DEF Types
<1>4. (Agreed(session) => agreed)'  BY <1>1, Zenon DEF Agreed, sessionVars
<1>5. JobsOK'  BY <1>1, JobsStay DEF Inv
<1>6. OpenedOK'  BY <1>1, OpenedStays DEF OpenedOK
<1>7. \A q \in Requests : CallFine(q, req[q])'  BY OthersStay
<1> QED  BY <1>3, <1>4, <1>5, <1>6, <1>7, Zenon DEF Inv

\* A step that writes the call's own record and nothing else.
LEMMA QuietKeeps ==
  ASSUME Inv, NEW r \in Requests, NEW c \in Call, Goes(r, c), CallFine(r, c),
         req[r].pc \in After => c.pc \in After,
         UNCHANGED <<sessionVars, patchVars, githubVars, rows>>
  PROVE  Inv'
<1>1. Types /\ SetsOK /\ RowsOK /\ OneOwner  BY DEF Inv
<1>2. Grow  BY <1>1, StillGrow DEF githubVars
<1>3. UNCHANGED <<jobVars, opened, branches>>  BY DEF patchVars, githubVars
<1>4. CallFine(r, c)'  BY <1>1, <1>2, <1>3, CallStays
<1>5. PatchTypes' /\ GithubTypes'
  BY <1>1 DEF Types, PatchTypes, JobTypes, GithubTypes, patchVars, githubVars
<1>6. SetsOK' /\ RowsOK' /\ OneOwner'
  BY <1>1, <1>3 DEF SetsOK, RowsOK, OneOwner, Recorded, patchVars
<1> QED  BY <1>2, <1>3, <1>4, <1>5, <1>6, RequestKeeps

LEMMA EndIsFine ==
  ASSUME NEW r
  PROVE  /\ [NewCall EXCEPT !.pc = "done"] \in Call /\ [NewCall EXCEPT !.pc = "done"].pc = "done"
         /\ CallFine(r, [NewCall EXCEPT !.pc = "done"]) /\ CallFine(r, [NewCall EXCEPT !.pc = "done"])'
<1> DEFINE c == [NewCall EXCEPT !.pc = "done"]
<1>1. c \in Call /\ c.pc = "done" /\ c.row = Start
  BY NewTyped DEF Call, Pcs, NewCall
<1> HIDE DEF c
<1>2. ~ Agreed(c.row)  BY <1>1 DEF Agreed, Start
<1>3. CallFine(r, c) /\ CallFine(r, c)'
  BY <1>1, <1>2 DEF CallFine, Consented, ReadFine, StoreFine, GateFine, BranchFine, FileFine, MarkFine,
     Github, Owning, Writing, Agreed
<1> QED  BY <1>1, <1>3 DEF c

\* A call that ends, whatever it leaves behind.
LEMMA QuietEnd ==
  ASSUME Inv, NEW r \in Requests, Ends(r), UNCHANGED <<sessionVars, patchVars, githubVars, rows>>
  PROVE  Inv'
BY EndIsFine, QuietKeeps DEF Ends, After

LEMMA LeaveKeeps == ASSUME Inv, NEW r \in Requests, Leave(r) PROVE Inv'
BY QuietEnd DEF Leave

-----------------------------------------------------------------------------
(* The steps of a call that write its own record only.                     *)

LEMMA AtTyped ==
  ASSUME Types, NEW r \in Requests, NEW pc \in Pcs
  PROVE  /\ At(r, pc) \in Call /\ At(r, pc).pc = pc
         /\ At(r, pc).row = req[r].row /\ At(r, pc).text = req[r].text /\ At(r, pc).set = req[r].set
         /\ At(r, pc).unread = req[r].unread /\ At(r, pc).todo = req[r].todo
         /\ At(r, pc).name = req[r].name /\ At(r, pc).copied = req[r].copied
         /\ At(r, pc).cut = req[r].cut /\ At(r, pc).file = req[r].file /\ At(r, pc).seen = req[r].seen
BY DEF Types, CallTypes, Call, At

\* A call that has passed no gate relies on little.
LEMMA EarlyFine ==
  ASSUME NEW r, NEW c, c.pc \in {"idle", "reading"}, Consented(c), ReadFine(c)
  PROVE  CallFine(r, c)
BY DEF CallFine, StoreFine, GateFine, BranchFine, FileFine, MarkFine, Github, Owning, Writing

LEMMA OpenKeeps == ASSUME Inv, NEW r \in Requests, Open(r) PROVE Inv'
<1> DEFINE c == [At(r, "reading") EXCEPT !.row = session]
<1>1. Types /\ (Agreed(session) => agreed) /\ req[r] \in Call /\ CallFine(r, req[r])
  BY DEF Inv, Types, CallTypes
<1>2. /\ req[r].pc = "idle" /\ Goes(r, c) /\ UNCHANGED <<sessionVars, patchVars, githubVars, rows>>
  BY DEF Open
<1>3. c \in Call /\ c.pc = "reading" /\ c.row = session /\ c.set = req[r].set
  BY <1>1 DEF Types, SessionTypes, At, Call, Pcs
<1> HIDE DEF c
<1>4. Consented(c)  BY <1>1, <1>3, Zenon DEF Consented
<1>5. ReadFine(c)  BY <1>1, <1>2, <1>3 DEF CallFine, ReadFine
<1> QED  BY <1>2, <1>3, <1>4, <1>5, EarlyFine, QuietKeeps DEF After

LEMMA ReadTextKeeps == ASSUME Inv, NEW r \in Requests, ReadText(r) PROVE Inv'
<1> DEFINE c == [req[r] EXCEPT !.unread = @ \ {"text"}, !.text = latest]
<1>1. Types /\ req[r] \in Call /\ CallFine(r, req[r])  BY DEF Inv, Types, CallTypes
<1>2. /\ req[r].pc = "reading" /\ Goes(r, c) /\ UNCHANGED <<sessionVars, patchVars, githubVars, rows>>
  BY DEF ReadText
<1>3. c \in Call /\ c.pc = "reading" /\ c.row = req[r].row /\ c.set = req[r].set
  BY <1>1, <1>2 DEF Types, SessionTypes, Call
<1> HIDE DEF c
<1>4. Consented(c)  BY <1>1, <1>3, Zenon DEF CallFine, Consented
<1>5. ReadFine(c)  BY <1>1, <1>2, <1>3 DEF CallFine, ReadFine
<1> QED  BY <1>2, <1>3, <1>4, <1>5, EarlyFine, QuietKeeps DEF After

LEMMA ReadSetKeeps == ASSUME Inv, NEW r \in Requests, ReadSet(r) PROVE Inv'
<1> DEFINE c == [req[r] EXCEPT !.unread = @ \ {"set"}, !.set = LatestValidated]
<1>1. Types /\ req[r] \in Call /\ CallFine(r, req[r]) /\ SetsOK  BY DEF Inv, Types, CallTypes
<1>2. /\ req[r].pc = "reading" /\ Goes(r, c) /\ UNCHANGED <<sessionVars, patchVars, githubVars, rows>>
  BY DEF ReadSet
<1>3. c \in Call /\ c.pc = "reading" /\ c.row = req[r].row /\ c.set = LatestValidated
  BY <1>1, <1>2, LatestTyped DEF Types, Call
<1> HIDE DEF c
<1>4. Consented(c)  BY <1>1, <1>3, Zenon DEF CallFine, Consented
<1>5. ReadFine(c)  BY <1>1, <1>3, LatestTyped DEF SetsOK, ReadFine, Sound
<1> QED  BY <1>2, <1>3, <1>4, <1>5, EarlyFine, QuietKeeps DEF After

\* The approval gate is passed with a patch set that was found valid.
LEMMA GateKeeps ==
  ASSUME Inv, NEW r \in Requests, Gate(r), Sound(req[r].set), req[r].pc \notin After,
         UNCHANGED <<sessionVars, patchVars, githubVars, rows>>
  PROVE  Inv'
<1>1. Types /\ req[r] \in Call /\ CallFine(r, req[r])  BY DEF Inv, Types, CallTypes
<1>2. CASE ~ Agreed(req[r].row)  BY <1>2, QuietEnd DEF Gate
<1>3. CASE Agreed(req[r].row)
  <2> DEFINE pc == IF config.dryRun THEN "dry" ELSE "live"
             c  == At(r, pc)
  <2>1. Goes(r, c)  BY <1>3 DEF Gate
  <2>2. pc \in {"dry", "live"} /\ pc \in Pcs  BY DEF Pcs
  <2> HIDE DEF pc
  <2>3. c \in Call /\ c.pc \in {"dry", "live"} /\ c.row = req[r].row /\ c.set = req[r].set
    BY <1>1, <2>2, AtTyped
  <2> HIDE DEF c
  <2>4. agreed /\ Consented(c)  BY <1>1, <1>3, <2>3, Zenon DEF CallFine, Consented
  <2>5. ReadFine(c) /\ StoreFine(c) /\ BranchFine(r, c) /\ FileFine(c) /\ MarkFine(r, c)
    BY <2>3 DEF ReadFine, StoreFine, BranchFine, FileFine, MarkFine, Owning, Writing
  <2>6. c.pc \notin Github  BY <2>3 DEF Github
  <2>7. GateFine(c)  BY <2>3, <2>4, <2>6, Zenon DEF GateFine
  <2> QED  BY <2>1, <2>3, <2>4, <2>5, <2>7, QuietKeeps DEF CallFine
<1> QED  BY <1>2, <1>3

LEMMA ReuseKeeps == ASSUME Inv, NEW r \in Requests, Reuse(r) PROVE Inv'
<1>1. req[r].pc = "reading" /\ req[r].set # None  BY DEF Reuse, Ready
<1>2. Sound(req[r].set)  BY <1>1 DEF Inv, CallFine, ReadFine
<1> QED  BY <1>1, <1>2, GateKeeps DEF Reuse, After

LEMMA StoredKeeps == ASSUME Inv, NEW r \in Requests, Stored(r) PROVE Inv'
<1>1. CASE ~ MaySubmit(r)  BY <1>1, QuietEnd DEF Stored
<1>2. CASE MaySubmit(r)
  <2>1. req[r].pc = "storing" /\ Usable(req[r].text)  BY <1>2 DEF Stored, MaySubmit, Usable
  <2>2. Sound(req[r].set)  BY <2>1 DEF Inv, CallFine, StoreFine, Sound
  <2> QED  BY <1>2, <2>1, <2>2, GateKeeps DEF Stored, After
<1> QED  BY <1>1, <1>2

\* Past the gates consent, patch set and tests stay what they are.
LEMMA GithubFine ==
  ASSUME NEW r, NEW c, NEW d, CallFine(r, d), d.pc \in Github, c.pc \in Github,
         c.row = d.row, c.set = d.set, c.text = d.text
  PROVE  Consented(c) /\ ReadFine(c) /\ StoreFine(c) /\ GateFine(c)
<1>1. Consented(c)  BY Zenon DEF CallFine, Consented
<1>2. ReadFine(c) /\ StoreFine(c)  BY DEF ReadFine, StoreFine, Github
<1>3. agreed  BY Zenon DEF CallFine, GateFine
<1>4. Sound(c.set) /\ WasGreen(c.set) /\ c.text # None  BY DEF CallFine, GateFine
<1>5. GateFine(c)  BY <1>3, <1>4, Zenon DEF GateFine
<1> QED  BY <1>1, <1>2, <1>5

LEMMA SandboxGateKeeps == ASSUME Inv, NEW r \in Requests, SandboxGate(r) PROVE Inv'
<1>1. Types /\ req[r] \in Call /\ CallFine(r, req[r])  BY DEF Inv, Types, CallTypes
<1>2. /\ req[r].pc = "live" /\ MaySubmit(r) /\ UNCHANGED <<sessionVars, patchVars, githubVars, rows>>
      /\ Ends(r) \/ (Goes(r, At(r, "cut")) /\ \E j \in Jobs : Proves(j, req[r].set))
  BY DEF SandboxGate
<1>3. CASE Ends(r)  BY <1>2, <1>3, QuietEnd
<1>4. CASE Goes(r, At(r, "cut")) /\ \E j \in Jobs : Proves(j, req[r].set)
  <2> DEFINE c == At(r, "cut")
  <2>1. c \in Call /\ c.pc = "cut" /\ c.row = req[r].row /\ c.set = req[r].set /\ c.text = req[r].text
    BY <1>1, AtTyped DEF Pcs, Github
  <2>2. Goes(r, c)  BY <1>4
  <2> HIDE DEF c
  <2>3. agreed /\ Consented(c)
    BY <1>1, <1>2, <2>1, Zenon DEF CallFine, GateFine, Consented
  <2>4. Sound(c.set)  BY <1>1, <1>2, <2>1 DEF CallFine, GateFine
  <2>5. WasGreen(c.set) /\ c.text # None
    <3>1. JobsOK  BY DEF Inv
    <3>2. PICK j \in Jobs : Green(j, c.set)  BY <1>4, <2>1 DEF Proves
    <3>3. PICK g \in greens : g = Tested(c.set, jobs[j].result)  BY <3>1, <3>2 DEF Green, JobsOK
    <3>4. g.set = c.set  BY <3>3 DEF Tested
    <3> QED  BY <1>2, <2>1, <3>4 DEF WasGreen, MaySubmit
  <2>6. GateFine(c)  BY <2>3, <2>4, <2>5, Zenon DEF GateFine
  <2>7. ReadFine(c) /\ StoreFine(c) /\ BranchFine(r, c) /\ FileFine(c) /\ MarkFine(r, c)
    BY <2>1 DEF ReadFine, StoreFine, BranchFine, FileFine, MarkFine, Owning, Writing
  <2> QED  BY <1>2, <2>1, <2>2, <2>3, <2>6, <2>7, QuietKeeps DEF CallFine, After
<1> QED  BY <1>2, <1>3, <1>4

\* A call past its gates moves to a point where it owns no branch.
LEMMA LooseKeeps ==
  ASSUME Inv, NEW r \in Requests, NEW c \in Call, Goes(r, c), req[r].pc \in Github \ After,
         c.pc \in {"cut", "probe", "branch", "error"},
         c.row = req[r].row, c.set = req[r].set, c.text = req[r].text,
         UNCHANGED <<sessionVars, patchVars, githubVars, rows>>
  PROVE  Inv'
<1>1. CallFine(r, req[r])  BY DEF Inv
<1>2. c.pc \in Github  BY DEF Github
<1>3. Consented(c) /\ ReadFine(c) /\ StoreFine(c) /\ GateFine(c)  BY <1>1, <1>2, GithubFine
<1>4. BranchFine(r, c) /\ FileFine(c) /\ MarkFine(r, c)
  BY DEF BranchFine, FileFine, MarkFine, Owning, Writing
<1> QED  BY <1>3, <1>4, QuietKeeps DEF CallFine

LEMMA ReadBaseKeeps == ASSUME Inv, NEW r \in Requests, ReadBase(r) PROVE Inv'
<1>1. Types /\ req[r] \in Call /\ base \in Trees  BY DEF Inv, Types, CallTypes, GithubTypes
<1>2. PICK t \in Stamps : Goes(r, [At(r, "probe") EXCEPT !.cut = base, !.name = <<t, 1>>])
  BY DEF ReadBase
<1> DEFINE c == [At(r, "probe") EXCEPT !.cut = base, !.name = <<t, 1>>]
<1>3. <<t, 1>> \in Names  BY PullAssumption DEF Names
<1>4. /\ c \in Call /\ c.pc = "probe" /\ c.row = req[r].row /\ c.set = req[r].set /\ c.text = req[r].text
  BY <1>1, <1>3 DEF Call, At, Pcs, Github, Trees
<1> HIDE DEF c
<1>5. Goes(r, c) /\ req[r].pc = "cut"  BY <1>2 DEF c, ReadBase
<1> QED  BY <1>4, <1>5, LooseKeeps DEF ReadBase, Github, After

LEMMA ProbeKeeps == ASSUME Inv, NEW r \in Requests, Probe(r) PROVE Inv'
<1>1. Types /\ req[r] \in Call /\ req[r].name \in Names  BY DEF Inv, Types, CallTypes, Call
<1>2. req[r].pc = "probe" /\ req[r].pc \in Github \ After  BY DEF Probe, Github, After
<1>3. ASSUME NEW pc \in {"branch", "error"}, Goes(r, At(r, pc)) PROVE Inv'
  <2>1. pc \in Pcs  BY DEF Pcs, Github
  <2> QED  BY <1>1, <1>2, <1>3, <2>1, AtTyped, LooseKeeps DEF Probe
<1>4. ASSUME MoreNames(req[r].name),
             Goes(r, [req[r] EXCEPT !.name = <<req[r].name[1], req[r].name[2] + 1>>])
      PROVE  Inv'
  <2> DEFINE c == [req[r] EXCEPT !.name = <<req[r].name[1], req[r].name[2] + 1>>]
  <2>1. <<req[r].name[1], req[r].name[2] + 1>> \in Names
    BY <1>1, <1>4, PullAssumption DEF Names, MoreNames
  <2>2. c \in Call /\ c.pc = "probe" /\ c.row = req[r].row /\ c.set = req[r].set /\ c.text = req[r].text
    BY <1>1, <1>2, <2>1 DEF Call
  <2> HIDE DEF c
  <2>3. Goes(r, c)  BY <1>4 DEF c
  <2> QED  BY <1>2, <2>2, <2>3, LooseKeeps DEF Probe
<1> QED  BY <1>3, <1>4 DEF Probe

\* Reading a row of a patch set, for it to be written back later.
LEMMA CopySetKeeps == ASSUME Inv, NEW r \in Requests, CopySet(r) PROVE Inv'
<1> DEFINE c == [At(r, "save") EXCEPT !.copied = sets[req[r].set].status]
<1>1. Types /\ req[r] \in Call /\ CallFine(r, req[r]) /\ SetsOK  BY DEF Inv, Types, CallTypes
<1>2. /\ req[r].pc = "copy" /\ req[r].pc \in Github /\ Goes(r, c)
      /\ UNCHANGED <<sessionVars, patchVars, githubVars, rows>>
  BY DEF CopySet, Github
<1>3. Sound(req[r].set)  BY <1>1, <1>2 DEF CallFine, GateFine
<1>4. sets[req[r].set].status \in SetStatus /\ sets[req[r].set].status # "none"
  BY <1>1, <1>3 DEF Types, PatchTypes, SetRow, Sound
<1>5. /\ c \in Call /\ c.pc = "save" /\ c.row = req[r].row /\ c.set = req[r].set /\ c.text = req[r].text
      /\ c.name = req[r].name /\ c.todo = req[r].todo /\ c.copied = sets[c.set].status
  BY <1>1, <1>4 DEF Call, At, Pcs, Github
<1> HIDE DEF c
<1>6. Consented(c) /\ ReadFine(c) /\ StoreFine(c) /\ GateFine(c)
  BY <1>1, <1>2, <1>5, GithubFine DEF Github
<1>7. BranchFine(r, c)  BY <1>1, <1>2, <1>5 DEF CallFine, BranchFine, Owning, Writing
<1>8. FileFine(c)  BY <1>5 DEF FileFine
<1>9. MarkFine(r, c)
  BY <1>1, <1>3, <1>4, <1>5 DEF MarkFine, SetsOK, Sound
<1> QED  BY <1>2, <1>5, <1>6, <1>7, <1>8, <1>9, QuietKeeps DEF CallFine, After

LEMMA FetchKeeps == ASSUME Inv, NEW r \in Requests, NEW f \in Files, Fetch(r, f) PROVE Inv'
<1>1. Types /\ req[r] \in Call /\ CallFine(r, req[r]) /\ base[f] \in Blobs
  BY DEF Inv, Types, CallTypes, GithubTypes, Trees
<1>2. /\ req[r].pc = "fetch" /\ req[r].pc \in Github \ After /\ f \in req[r].todo
      /\ UNCHANGED <<sessionVars, patchVars, githubVars, rows>>
  BY DEF Fetch, Github, After
<1>3. CASE Goes(r, At(r, "error"))
  BY <1>1, <1>2, <1>3, AtTyped, LooseKeeps DEF Pcs, Github
<1>4. CASE /\ (base[f] = Absent) = (ActionOf[f] = "create")
           /\ Goes(r, [At(r, "put") EXCEPT !.file = f, !.seen = base[f]])
  <2> DEFINE c == [At(r, "put") EXCEPT !.file = f, !.seen = base[f]]
  <2>1. /\ c \in Call /\ c.pc = "put" /\ c.row = req[r].row /\ c.set = req[r].set /\ c.text = req[r].text
        /\ c.name = req[r].name /\ c.todo = req[r].todo /\ c.file = f /\ c.seen = base[f]
    BY <1>1 DEF Call, At, Pcs, Github
  <2>2. Goes(r, c)  BY <1>4
  <2> HIDE DEF c
  <2>3. Consented(c) /\ ReadFine(c) /\ StoreFine(c) /\ GateFine(c)
    BY <1>1, <1>2, <2>1, GithubFine DEF Github
  <2>4. BranchFine(r, c)  BY <1>1, <1>2, <2>1 DEF CallFine, BranchFine, Owning, Writing
  <2>5. FileFine(c)  BY <1>2, <1>4, <2>1 DEF FileFine
  <2>6. MarkFine(r, c)  BY <2>1 DEF MarkFine
  <2> QED  BY <1>2, <2>1, <2>2, <2>3, <2>4, <2>5, <2>6, QuietKeeps DEF CallFine
<1> QED  BY <1>3, <1>4 DEF Fetch

-----------------------------------------------------------------------------
(* The steps of a call that write a patch set or a row of the ledger.      *)

\* Only the patch sets grow, by a row or by a mark.
LEMMA SetsGrow ==
  ASSUME Types, UNCHANGED <<sessionVars, jobVars, rows, opened>>, greenInline \subseteq greenInline',
         \A p \in PatchSets : sets[p].status # "none" => sets'[p].status # "none" /\ sets'[p].ok = sets[p].ok
  PROVE  Grow
BY DEF Grow, sessionVars, Green

LEMMA MarkKeeps ==
  ASSUME Inv, NEW r \in Requests, NEW c \in Call, Goes(r, c), CallFine(r, c),
         req[r].pc \in After => c.pc \in After,
         NEW p \in PatchSets, Sound(p), NEW s \in SetStatus \ {"none"}, s = "applied" => Recorded(p),
         sets' = [sets EXCEPT ![p].status = s],
         UNCHANGED <<sessionVars, validator, jobVars, greenInline, githubVars, rows>>
  PROVE  Inv'
<1>1. Types /\ PatchTypes /\ SetsOK /\ RowsOK /\ OneOwner  BY DEF Inv, Types
<1>2. /\ sets' \in [PatchSets -> SetRow] /\ sets'[p].status = s /\ sets'[p].ok = sets[p].ok
      /\ \A q \in PatchSets \ {p} : sets'[q] = sets[q]
  BY <1>1, SetMarked
<1>3. UNCHANGED <<jobVars, opened, branches, greenInline, rows>>  BY DEF githubVars
<1>4. Grow  BY <1>1, <1>2, <1>3, SetsGrow
<1>5. CallFine(r, c)'  BY <1>1, <1>3, <1>4, CallStays
<1>6. PatchTypes' /\ GithubTypes'
  BY <1>1, <1>2, <1>3 DEF Types, PatchTypes, JobTypes, GithubTypes, githubVars
<1>7. SetsOK'
  <2>1. ASSUME NEW q \in PatchSets
        PROVE  /\ sets'[q].status = "none" => ~ sets'[q].ok
               /\ sets'[q].status \in {"validated", "applied"} => sets'[q].ok
               /\ sets'[q].status = "applied" => Recorded(q)'
               /\ q \in greenInline' => sets'[q].ok
    <3>1. CASE q = p  BY <1>1, <1>2, <1>3, <3>1 DEF SetsOK, Sound, Recorded
    <3>2. CASE q # p  BY <1>1, <1>2, <1>3, <3>2 DEF SetsOK, Recorded
    <3> QED  BY <3>1, <3>2
  <2> QED  BY <2>1 DEF SetsOK
<1>8. RowsOK' /\ OneOwner'  BY <1>1, <1>3 DEF RowsOK, OneOwner
<1> QED  BY <1>3, <1>4, <1>5, <1>6, <1>7, <1>8, RequestKeeps

\* A call that ends with its patch set marked as failed.
LEMMA FailedEnd ==
  ASSUME Inv, NEW r \in Requests, Ends(r), Sound(req[r].set),
         sets' = [sets EXCEPT ![req[r].set].status = "failed"],
         UNCHANGED <<sessionVars, validator, jobVars, greenInline, githubVars, rows>>
  PROVE  Inv'
<1> DEFINE c == [NewCall EXCEPT !.pc = "done"]
<1>1. c \in Call /\ c.pc = "done" /\ CallFine(r, c)  BY EndIsFine
<1>2. Goes(r, c)  BY DEF Ends
<1> HIDE DEF c
<1>3. PICK p \in PatchSets : p = req[r].set  BY DEF Sound
<1>4. PICK s \in SetStatus \ {"none"} : s = "failed" /\ s # "applied"  BY DEF SetStatus
<1>5. Sound(p) /\ sets' = [sets EXCEPT ![p].status = s]  BY <1>3, <1>4
<1>6. req[r].pc \in After => c.pc \in After  BY <1>1 DEF After
<1> QED  BY <1>1, <1>2, <1>4, <1>5, <1>6, MarkKeeps

LEMMA RecheckKeeps == ASSUME Inv, NEW r \in Requests, Recheck(r) PROVE Inv'
<1>1. Sound(req[r].set)  BY DEF Recheck, Inv, CallFine, GateFine
<1> QED  BY <1>1, FailedEnd DEF Recheck

LEMMA MarkAppliedKeeps == ASSUME Inv, NEW r \in Requests, MarkApplied(r) PROVE Inv'
<1>1. Types /\ req[r] \in Call /\ CallFine(r, req[r])  BY DEF Inv, Types, CallTypes
<1>2. Sound(req[r].set) /\ req[r].set \in PatchSets /\ Recorded(req[r].set)
  BY <1>1 DEF MarkApplied, CallFine, GateFine, MarkFine, Sound, Github
<1> DEFINE c == [NewCall EXCEPT !.pc = "done"]
<1>3. c \in Call /\ c.pc = "done" /\ CallFine(r, c)  BY EndIsFine
<1>4. Goes(r, c)  BY DEF MarkApplied, Ends
<1> HIDE DEF c
<1> QED  BY <1>2, <1>3, <1>4, MarkKeeps DEF MarkApplied, SetStatus, After

LEMMA SaveSetKeeps == ASSUME Inv, NEW r \in Requests, SaveSet(r) PROVE Inv'
<1> DEFINE c == [At(r, "fetch") EXCEPT !.copied = "none"]
<1>1. Types /\ req[r] \in Call /\ CallFine(r, req[r])  BY DEF Inv, Types, CallTypes
<1>2. req[r].pc = "save" /\ req[r].pc \in Github /\ req[r].pc \notin After /\ Goes(r, c)
  BY DEF SaveSet, Github, After
<1>3. Sound(req[r].set) /\ req[r].set \in PatchSets  BY <1>1, <1>2 DEF CallFine, GateFine, Sound
<1>4. req[r].copied \in SetStatus \ {"none"} /\ (req[r].copied = "applied" => Recorded(req[r].set))
  BY <1>1, <1>2 DEF Call, CallFine, MarkFine
<1>5. /\ c \in Call /\ c.pc = "fetch" /\ c.row = req[r].row /\ c.set = req[r].set /\ c.text = req[r].text
      /\ c.name = req[r].name /\ c.todo = req[r].todo
  BY <1>1 DEF Call, At, Pcs, Github, SetStatus
<1> HIDE DEF c
<1>6. Consented(c) /\ ReadFine(c) /\ StoreFine(c) /\ GateFine(c)
  BY <1>1, <1>2, <1>5, GithubFine DEF Github
<1>7. BranchFine(r, c)  BY <1>1, <1>2, <1>5 DEF CallFine, BranchFine, Owning, Writing
<1>8. FileFine(c) /\ MarkFine(r, c)  BY <1>5 DEF FileFine, MarkFine
<1> QED  BY <1>2, <1>3, <1>4, <1>5, <1>6, <1>7, <1>8, MarkKeeps DEF CallFine, SaveSet

\* The inline tests of a patch set are green, or it is marked as failed.
LEMMA InlineTestsKeeps == ASSUME Inv, NEW r \in Requests, InlineTests(r) PROVE Inv'
<1>1. Types /\ PatchTypes /\ SetsOK /\ RowsOK /\ OneOwner /\ req[r] \in Call /\ CallFine(r, req[r])
  BY DEF Inv, Types, CallTypes
<1>2. /\ req[r].pc = "live" /\ req[r].text # None
      /\ UNCHANGED <<sessionVars, validator, jobVars, githubVars, rows>>
  BY DEF InlineTests, MaySubmit
<1>3. Sound(req[r].set) /\ req[r].set \in PatchSets  BY <1>1, <1>2 DEF CallFine, GateFine, Sound
<1>4. CASE UNCHANGED greenInline /\ sets' = [sets EXCEPT ![req[r].set].status = "failed"] /\ Ends(r)
  BY <1>2, <1>3, <1>4, FailedEnd
<1>5. CASE greenInline' = greenInline \cup {req[r].set} /\ Goes(r, At(r, "cut")) /\ UNCHANGED sets
  <2>1. PICK c \in Call : c = At(r, "cut")  BY <1>1, AtTyped DEF Pcs, Github
  <2>2. Goes(r, c) /\ c.pc = "cut" /\ c.row = req[r].row /\ c.set = req[r].set /\ c.text = req[r].text
    BY <1>1, <1>5, <2>1, AtTyped DEF Pcs, Github
  <2>3. UNCHANGED <<jobVars, opened, branches, rows, sets, validator>>  BY <1>2, <1>5 DEF githubVars
  <2>4. Grow  BY <1>1, <1>2, <1>5, <2>3, SetsGrow
  <2>5. agreed /\ Consented(c)
    BY <1>1, <1>2, <2>2, Zenon DEF CallFine, GateFine, Consented
  <2>6. agreed' = agreed /\ Agreed(c.row)' = Agreed(c.row)  BY <1>2, Zenon DEF sessionVars, Agreed
  <2>7. Consented(c)'  BY <2>5, <2>6, Zenon DEF Consented
  <2>8. Sound(c.set)'  BY <1>3, <2>2, <2>3 DEF Sound
  <2>9. WasGreen(c.set)' /\ c.text # None  BY <1>2, <1>5, <2>2 DEF WasGreen
  <2>10. GateFine(c)'  BY <2>5, <2>6, <2>8, <2>9, Zenon DEF GateFine
  <2>11. ReadFine(c)' /\ StoreFine(c)' /\ BranchFine(r, c)' /\ FileFine(c)' /\ MarkFine(r, c)'
    BY <2>2 DEF ReadFine, StoreFine, BranchFine, FileFine, MarkFine, Owning, Writing
  <2>12. CallFine(r, c)'  BY <2>7, <2>10, <2>11 DEF CallFine
  <2>13. PatchTypes' /\ GithubTypes'
    BY <1>1, <1>2, <1>3, <1>5, <2>3 DEF Types, PatchTypes, JobTypes, GithubTypes, githubVars
  <2>14. SetsOK' /\ RowsOK' /\ OneOwner'
    BY <1>1, <1>3, <1>5, <2>3 DEF SetsOK, Sound, Recorded, RowsOK, OneOwner
  <2> QED  BY <1>2, <2>2, <2>3, <2>4, <2>12, <2>13, <2>14, RequestKeeps DEF After
<1> QED  BY <1>4, <1>5 DEF InlineTests

\* A new patch set takes nothing back, nor does a file added to one.
LEMMA CreateGrows ==
  ASSUME Inv, NEW p \in PatchSets, NEW a \in 0 .. MaxArtifacts, NEW ok \in BOOLEAN,
         CreatePatchSet(p, a, ok),
         UNCHANGED <<sessionVars, jobVars, greenInline, githubVars, rows>>
  PROVE  Grow /\ SetsOK' /\ sets' \in [PatchSets -> SetRow] /\ sets'[p].status # "none" /\ sets'[p].ok = ok
<1>1. Types /\ PatchTypes /\ SetsOK  BY DEF Inv, Types
<1>2. /\ sets' \in [PatchSets -> SetRow] /\ sets[p].status = "none"
      /\ sets'[p].ok = ok /\ sets'[p].status = (IF ok THEN "validated" ELSE "failed")
      /\ \A q \in PatchSets \ {p} : sets'[q] = sets[q]
  BY <1>1, SetCreated
<1>3. UNCHANGED <<jobVars, opened, greenInline, rows>>  BY DEF githubVars
<1>4. \A q \in PatchSets : sets[q].status # "none" => sets'[q].status # "none" /\ sets'[q].ok = sets[q].ok
  BY <1>2
<1>5. Grow  BY <1>1, <1>3, <1>4, SetsGrow
<1>6. ASSUME NEW q \in PatchSets
      PROVE  /\ sets'[q].status = "none" => ~ sets'[q].ok
             /\ sets'[q].status \in {"validated", "applied"} => sets'[q].ok
             /\ sets'[q].status = "applied" => Recorded(q)'
             /\ q \in greenInline' => sets'[q].ok
  <2>1. CASE q = p  BY <1>1, <1>2, <1>3, <2>1 DEF SetsOK
  <2>2. CASE q # p  BY <1>1, <1>2, <1>3, <2>2 DEF SetsOK, Recorded
  <2> QED  BY <2>1, <2>2
<1>7. SetsOK'  BY <1>6 DEF SetsOK
<1> QED  BY <1>2, <1>5, <1>7

LEMMA AddGrows ==
  ASSUME Inv, NEW p, NEW f \in Files, NEW h \in Versions \cup {NoHash}, AddPatchFile(p, f, h),
         UNCHANGED <<sessionVars, jobVars, greenInline, githubVars, rows>>
  PROVE  /\ Grow /\ SetsOK' /\ sets' \in [PatchSets -> SetRow]
         /\ \A q \in PatchSets : sets'[q].status = sets[q].status /\ sets'[q].ok = sets[q].ok
<1>1. Types /\ PatchTypes /\ SetsOK  BY DEF Inv, Types
<1>2. /\ sets' \in [PatchSets -> SetRow]
      /\ \A q \in PatchSets : sets'[q].status = sets[q].status /\ sets'[q].ok = sets[q].ok
  BY <1>1, FileAdded
<1>3. UNCHANGED <<jobVars, opened, greenInline, rows>>  BY DEF githubVars
<1>4. Grow  BY <1>1, <1>2, <1>3, SetsGrow
<1>5. SetsOK'  BY <1>1, <1>2, <1>3 DEF SetsOK, Recorded
<1> QED  BY <1>2, <1>4, <1>5

LEMMA StoreKeeps == ASSUME Inv, NEW r \in Requests, Store(r) PROVE Inv'
<1>1. Types /\ PatchTypes /\ RowsOK /\ OneOwner /\ req[r] \in Call /\ CallFine(r, req[r])
      /\ touched \subseteq Files
  BY FilesTyped DEF Inv, Types, CallTypes, SessionTypes
<1>2. PICK p \in PatchSets : /\ CreatePatchSet(p, req[r].text, MaySubmit(r))
                             /\ Goes(r, [At(r, "storing") EXCEPT !.set = p, !.todo = touched])
  BY DEF Store
<1>3. /\ req[r].pc = "reading" /\ UNCHANGED <<sessionVars, validator, jobVars, greenInline, githubVars, rows>>
      /\ req[r].text \in 0 .. MaxArtifacts /\ MaySubmit(r) \in BOOLEAN
      /\ MaySubmit(r) <=> Usable(req[r].text)
  BY <1>1 DEF Store, Ready, Call, MaySubmit, Usable, Valid
<1>4. Grow /\ SetsOK' /\ sets' \in [PatchSets -> SetRow] /\ sets'[p].status # "none" /\ sets'[p].ok = MaySubmit(r)
  BY <1>2, <1>3, CreateGrows
<1>5. PICK c \in Call : c = [At(r, "storing") EXCEPT !.set = p, !.todo = touched]
  BY <1>1, Sizes DEF Call, At, Pcs
<1>6. c.pc = "storing" /\ c.row = req[r].row /\ c.text = req[r].text /\ c.set = p /\ Goes(r, c)
  BY <1>1, <1>2, <1>5 DEF Call, At
<1>7. Consented(c)  BY <1>1, <1>6, Zenon DEF CallFine, Consented
<1>8. agreed' = agreed /\ Agreed(c.row)' = Agreed(c.row)  BY <1>3, Zenon DEF sessionVars, Agreed
<1>9. Consented(c)'  BY <1>7, <1>8, Zenon DEF Consented
<1>10. Usable(c.text)' = Usable(c.text)  BY <1>1, <1>4, GrowKeeps
<1>11. StoreFine(c)'
  BY <1>3, <1>4, <1>6, <1>10 DEF StoreFine
<1>12. ReadFine(c)' /\ GateFine(c)' /\ BranchFine(r, c)' /\ FileFine(c)' /\ MarkFine(r, c)'
  BY <1>6 DEF ReadFine, GateFine, BranchFine, FileFine, MarkFine, Owning, Writing, Github
<1>13. CallFine(r, c)'  BY <1>9, <1>11, <1>12 DEF CallFine
<1>14. UNCHANGED <<jobVars, opened, branches, validator, greenInline, rows>>  BY <1>3 DEF githubVars
<1>15. PatchTypes' /\ GithubTypes' /\ RowsOK' /\ OneOwner'
  BY <1>1, <1>3, <1>4, <1>14 DEF Types, PatchTypes, JobTypes, GithubTypes, githubVars, RowsOK, OneOwner
<1> QED  BY <1>3, <1>4, <1>6, <1>13, <1>14, <1>15, RequestKeeps DEF After

LEMMA StoreFileKeeps == ASSUME Inv, NEW r \in Requests, NEW f \in Files, StoreFile(r, f) PROVE Inv'
<1>1. Types /\ PatchTypes /\ RowsOK /\ OneOwner /\ req[r] \in Call /\ CallFine(r, req[r])
  BY DEF Inv, Types, CallTypes
<1>2. /\ req[r].pc = "storing" /\ AddPatchFile(req[r].set, f, NoHash)
      /\ UNCHANGED <<sessionVars, validator, jobVars, greenInline, githubVars, rows>>
  BY DEF StoreFile
<1>3. Grow /\ SetsOK' /\ sets' \in [PatchSets -> SetRow]  BY <1>2, AddGrows
<1>4. PICK c \in Call : c = [req[r] EXCEPT !.todo = @ \ {f}]  BY <1>1 DEF Call
<1>5. /\ c.pc = "storing" /\ c.row = req[r].row /\ c.text = req[r].text /\ c.set = req[r].set /\ Goes(r, c)
  BY <1>1, <1>2, <1>4 DEF Call, StoreFile
<1>6. Consented(c)  BY <1>1, <1>5, Zenon DEF CallFine, Consented
<1>7. StoreFine(c)  BY <1>1, <1>2, <1>5 DEF CallFine, StoreFine
<1>8. ReadFine(c) /\ GateFine(c) /\ BranchFine(r, c) /\ FileFine(c) /\ MarkFine(r, c)
  BY <1>5 DEF ReadFine, GateFine, BranchFine, FileFine, MarkFine, Owning, Writing, Github
<1>9. UNCHANGED <<jobVars, opened, branches, validator, greenInline, rows>>  BY <1>2 DEF githubVars
<1>10. CallFine(r, c)'  BY <1>1, <1>3, <1>6, <1>7, <1>8, <1>9, CallStays DEF CallFine
<1>11. PatchTypes' /\ GithubTypes' /\ RowsOK' /\ OneOwner'
  BY <1>1, <1>2, <1>3, <1>9 DEF Types, PatchTypes, JobTypes, GithubTypes, githubVars, RowsOK, OneOwner
<1> QED  BY <1>2, <1>3, <1>5, <1>9, <1>10, <1>11, RequestKeeps DEF After

\* A row for a call that has a patch set; a created row needs its pull request.
LEMMA RowKeeps ==
  ASSUME Inv, NEW r \in Requests, NEW c \in Call, Goes(r, c), CallFine(r, c) \/ CallFine(r, c)',
         c.pc \in After, Sound(req[r].set), NEW s \in {"dry_run", "created", "failed"},
         s = "created" => \E o \in opened : o.call = r /\ o.set = req[r].set,
         rows' \in {rows, rows \cup {Row(r, s)}},
         UNCHANGED <<sessionVars, patchVars, githubVars>>
  PROVE  Inv'
<1>1. Types /\ PatchTypes /\ SetsOK /\ RowsOK /\ OneOwner  BY DEF Inv, Types
<1>2. UNCHANGED <<sets, validator, jobVars, opened, branches, greenInline, base, moves>>
  BY DEF patchVars, githubVars
<1>3. rows \subseteq rows'  OBVIOUS
<1>4. Grow
  BY <1>1, <1>2, <1>3 DEF Grow, sessionVars, Green
<1>5. CallFine(r, c)'  BY <1>1, <1>2, <1>4, CallStays
<1>6. req[r].set \in PatchSets /\ Row(r, s) \in LedgerRow
  BY DEF Sound, Row, LedgerRow
<1>7. PatchTypes' /\ GithubTypes'
  BY <1>1, <1>2, <1>6 DEF Types, PatchTypes, JobTypes, GithubTypes
<1>8. RowsOK'  BY <1>1, <1>2 DEF RowsOK, Row
<1>9. \A p : Recorded(p) => Recorded(p)'  BY <1>1, <1>4, GrowKeeps
<1>10. SetsOK' /\ OneOwner'
  BY <1>1, <1>2, <1>9 DEF SetsOK, OneOwner
<1> QED  BY <1>2, <1>4, <1>5, <1>7, <1>8, <1>10, RequestKeeps

LEMMA DryRunKeeps == ASSUME Inv, NEW r \in Requests, DryRun(r) PROVE Inv'
<1>1. Sound(req[r].set)  BY DEF DryRun, Inv, CallFine, GateFine
<1>2. PICK c \in Call : c = [NewCall EXCEPT !.pc = "done"]  BY EndIsFine
<1>3. Goes(r, c) /\ c.pc \in After /\ CallFine(r, c)  BY <1>2, EndIsFine DEF DryRun, Ends, After
<1>4. PICK s \in {"dry_run", "created", "failed"} : s = "dry_run" /\ s # "created"  OBVIOUS
<1> QED  BY <1>1, <1>3, <1>4, RowKeeps DEF DryRun

LEMMA FailsKeeps == ASSUME Inv, NEW r \in Requests, Fails(r) PROVE Inv'
<1>1. Sound(req[r].set)  BY DEF Fails, Inv, CallFine, GateFine
<1>2. PICK c \in Call : c = [NewCall EXCEPT !.pc = "done"]  BY EndIsFine
<1>3. Goes(r, c) /\ c.pc \in After /\ CallFine(r, c)  BY <1>2, EndIsFine DEF Fails, Ends, After
<1>4. PICK s \in {"dry_run", "created", "failed"} : s = "failed" /\ s # "created"  OBVIOUS
<1> QED  BY <1>1, <1>3, <1>4, RowKeeps DEF Fails

LEMMA RecordKeeps == ASSUME Inv, NEW r \in Requests, Record(r) PROVE Inv'
<1>1. Types /\ req[r] \in Call /\ CallFine(r, req[r])  BY DEF Inv, Types, CallTypes
<1>2. /\ req[r].pc = "record" /\ req[r].pc \in Github /\ rows' = rows \cup {Row(r, "created")}
      /\ UNCHANGED <<sessionVars, patchVars, githubVars>>
  BY DEF Record, Github
<1>3. Sound(req[r].set) /\ \E o \in opened : o.call = r /\ o.set = req[r].set
  BY <1>1, <1>2 DEF CallFine, GateFine, MarkFine
<1>4. PICK c \in Call : c = At(r, "mark")  BY <1>1, AtTyped DEF Pcs, Github
<1>5. /\ c.pc = "mark" /\ c.row = req[r].row /\ c.set = req[r].set /\ c.text = req[r].text /\ Goes(r, c)
  BY <1>1, <1>4, AtTyped DEF Record, Pcs, Github
<1>6. Consented(c) /\ ReadFine(c) /\ StoreFine(c) /\ GateFine(c)
  BY <1>1, <1>2, <1>5, GithubFine DEF Github
<1>7. UNCHANGED <<sets, jobVars, greenInline, opened>> /\ rows \subseteq rows'
  BY <1>2 DEF patchVars, githubVars
<1>8. Grow  BY <1>1, <1>2, <1>7 DEF Grow, sessionVars, Green
<1>9. GateFine(c)' /\ Consented(c)'
  <2>1. agreed' = agreed /\ Agreed(c.row)' = Agreed(c.row)  BY <1>2, Zenon DEF sessionVars, Agreed
  <2>2. Sound(c.set)' /\ WasGreen(c.set)'
    BY <1>1, <1>3, <1>5, <1>6, <1>8, GrowKeeps DEF GateFine, Sound, Github
  <2>3. c.text # None  BY <1>5, <1>6 DEF GateFine, Github
  <2>4. agreed  BY <1>5, <1>6, Zenon DEF GateFine, Github
  <2>5. GateFine(c)'  BY <2>1, <2>2, <2>3, <2>4, Zenon DEF GateFine
  <2>6. Consented(c)'  BY <1>6, <2>1, Zenon DEF Consented
  <2> QED  BY <2>5, <2>6
<1>10. Recorded(c.set)'
  <2>1. PICK w : w = Row(r, "created")  OBVIOUS
  <2>2. w \in rows' /\ w.set = c.set /\ w.status = "created"  BY <1>2, <1>5, <2>1 DEF Row
  <2> QED  BY <2>2 DEF Recorded
<1>11. ReadFine(c)' /\ StoreFine(c)' /\ BranchFine(r, c)' /\ FileFine(c)' /\ MarkFine(r, c)'
  BY <1>5, <1>10 DEF ReadFine, StoreFine, BranchFine, FileFine, MarkFine, Owning, Writing
<1>12. CallFine(r, c)' /\ c.pc \in After  BY <1>5, <1>9, <1>11 DEF CallFine, After
<1>13. PICK s \in {"dry_run", "created", "failed"} : s = "created"  OBVIOUS
<1> QED  BY <1>2, <1>3, <1>5, <1>12, <1>13, RowKeeps

-----------------------------------------------------------------------------
(* The steps of a call that write to GitHub.                               *)

\* A call writes to a branch that nobody else owns.
LEMMA BranchKeeps ==
  ASSUME Inv, NEW r \in Requests, NEW c \in Call, Goes(r, c), req[r].pc \in Github \ After,
         c.pc \in Github, c.row = req[r].row, c.set = req[r].set, c.text = req[r].text,
         NEW n \in Names, NEW b \in Branch, branches' = [branches EXCEPT ![n] = b],
         branches[n].owners \subseteq {r}, b.owners = {r},
         BranchFine(r, c)', FileFine(c), c.pc \notin {"save", "record", "mark"},
         UNCHANGED <<sessionVars, patchVars, base, moves, opened, rows>>
  PROVE  Inv'
<1>1. Types /\ SetsOK /\ RowsOK /\ OneOwner /\ CallFine(r, req[r])  BY DEF Inv
<1>2. Grow  BY <1>1, StillGrow
<1>3. Consented(c) /\ ReadFine(c) /\ StoreFine(c) /\ GateFine(c)  BY <1>1, GithubFine
<1>4. UNCHANGED <<sets, validator, jobVars, greenInline>>  BY DEF patchVars
<1>5. CallFine(r, c)'
  <2>1. agreed' = agreed /\ Agreed(c.row)' = Agreed(c.row)  BY Zenon DEF sessionVars, Agreed
  <2>2. agreed /\ Consented(c)'  BY <1>3, <2>1, Zenon DEF GateFine, Consented
  <2>3. Sound(c.set)' /\ WasGreen(c.set)' /\ c.text # None
    BY <1>3, <1>4 DEF GateFine, Sound, WasGreen
  <2>4. GateFine(c)'  BY <2>1, <2>2, <2>3, Zenon DEF GateFine
  <2>5. ReadFine(c)' /\ StoreFine(c)' /\ FileFine(c)' /\ MarkFine(r, c)'
    BY DEF ReadFine, StoreFine, FileFine, MarkFine, Github
  <2> QED  BY <2>2, <2>4, <2>5 DEF CallFine
<1>6. branches' \in [Names -> Branch] /\ branches'[n] = b /\ \A m \in Names \ {n} : branches'[m] = branches[m]
  BY <1>1 DEF Types, GithubTypes
<1>7. PatchTypes' /\ GithubTypes'
  BY <1>1, <1>4, <1>6 DEF Types, PatchTypes, JobTypes, GithubTypes
<1>8. SetsOK' /\ RowsOK'  BY <1>1, <1>4 DEF SetsOK, RowsOK, Recorded
<1>9. OneOwner'  BY <1>1, <1>6 DEF OneOwner
<1>10. \A m \in Names : branches'[m] = branches[m] \/ (branches[m].owners \subseteq {r} /\ req[r].pc \notin After)
  BY <1>6
<1> QED  BY <1>2, <1>4, <1>5, <1>7, <1>8, <1>9, <1>10, RequestKeeps

LEMMA CreateBranchKeeps == ASSUME Inv, NEW r \in Requests, CreateBranch(r) PROVE Inv'
<1>1. /\ Types /\ req[r] \in Call /\ req[r].name \in Names /\ req[r].cut \in Trees
      /\ branches \in [Names -> Branch] /\ touched \subseteq Files
  BY FilesTyped DEF Inv, Types, CallTypes, Call, GithubTypes, SessionTypes, Trees
<1>2. /\ req[r].pc = "branch" /\ req[r].pc \in Github \ After
      /\ UNCHANGED <<sessionVars, patchVars, base, moves, opened, rows>>
  BY DEF CreateBranch, Github, After
<1>3. CASE Refused(req[r].name)
  <2>1. UNCHANGED <<sessionVars, patchVars, githubVars, rows>> /\ Goes(r, At(r, "error"))
    BY <1>2, <1>3 DEF CreateBranch, githubVars
  <2> QED  BY <1>1, <1>2, <2>1, AtTyped, LooseKeeps DEF Pcs, Github
<1>4. CASE ~ Refused(req[r].name)
  <2>1. PICK n \in Names : n = req[r].name  BY <1>1
  <2>2. branches[n].owners = {}  BY <1>4, <2>1 DEF Refused, Taken
  <2>3. Trees \subseteq [Files -> Blobs \cup Artifacts]  BY DEF Trees
  <2>4. PICK b \in Branch : b = [owners |-> branches[n].owners \cup {r}, cut |-> req[r].cut,
                                 files |-> req[r].cut, over |-> branches[n].over]
    BY <1>1, <2>3 DEF Branch
  <2>5. branches' = [branches EXCEPT ![n] = b] /\ b.owners = {r} /\ b.files = b.cut
    BY <1>1, <1>4, <2>1, <2>2, <2>4 DEF CreateBranch
  <2>6. PICK c \in Call : c = [At(r, "copy") EXCEPT !.todo = touched, !.cut = NewCall.cut]
    BY <1>1, FilesTyped DEF Call, At, Pcs, Github, NewCall, Trees
  <2>7. /\ c.pc = "copy" /\ c.row = req[r].row /\ c.set = req[r].set /\ c.text = req[r].text
        /\ c.name = n /\ c.todo = touched /\ Goes(r, c)
    BY <1>1, <1>4, <2>1, <2>6 DEF CreateBranch, At, Call
  <2>8. branches'[n] = b  BY <1>1, <2>5
  <2>9. BranchFine(r, c)'
    BY <1>2, <2>5, <2>7, <2>8 DEF BranchFine, Untouched, sessionVars
  <2>10. FileFine(c) /\ c.pc \in Github  BY <2>7 DEF FileFine, Github
  <2> QED  BY <1>2, <2>2, <2>5, <2>7, <2>9, <2>10, BranchKeeps
<1> QED  BY <1>3, <1>4

LEMMA PutKeeps == ASSUME Inv, NEW r \in Requests, Put(r) PROVE Inv'
<1>1. /\ Types /\ req[r] \in Call /\ CallFine(r, req[r]) /\ req[r].name \in Names
      /\ branches \in [Names -> Branch] /\ req[r].seen \in Blobs
  BY DEF Inv, Types, CallTypes, Call, GithubTypes
<1>2. /\ req[r].pc = "put" /\ req[r].pc \in Github \ After
      /\ UNCHANGED <<sessionVars, patchVars, base, moves, opened, rows>>
  BY DEF Put, Github, After
<1>n. PICK n \in Names : n = req[r].name  BY <1>1
<1>f. PICK f \in Files : f = req[r].file  BY <1>1 DEF Call
<1>3. CASE ~ Accepts(branches[n].files[f], req[r].seen)
  <2>1. UNCHANGED <<sessionVars, patchVars, githubVars, rows>> /\ Goes(r, At(r, "error"))
    BY <1>2, <1>3, <1>n, <1>f DEF Put, githubVars
  <2> QED  BY <1>1, <1>2, <2>1, AtTyped, LooseKeeps DEF Pcs, Github
<1>4. CASE Accepts(branches[n].files[f], req[r].seen)
  <2>1. /\ branches[n].owners = {r} /\ req[r].todo \subseteq touched
        /\ \A g \in touched \ req[r].todo : Made(n, g, req[r].text)
        /\ \A g \in (Files \ touched) \cup req[r].todo : Untouched(n, g)
        /\ f \in req[r].todo /\ (req[r].seen = Absent <=> ActionOf[f] = "create")
        /\ req[r].text # None
    BY <1>1, <1>2, <1>n, <1>f DEF CallFine, BranchFine, FileFine, GateFine, Owning, Writing
  <2>2. Written(r, f) \in Blobs \cup Artifacts /\ branches[n] \in Branch
    BY <1>1, <2>1, FilesTyped DEF Call, Written, Artifacts, None
  <2>3. PICK b \in Branch : b = [branches[n] EXCEPT !.files[f] = Written(r, f), !.over[f] = req[r].seen]
    BY <1>1, <2>2 DEF Branch, Trees
  <2>4. branches' = [branches EXCEPT ![n] = b]
    BY <1>1, <1>4, <1>n, <1>f, <2>3 DEF Put
  <2>5. /\ b.owners = {r} /\ b.cut = branches[n].cut
        /\ b.files[f] = Written(r, f) /\ b.over[f] = req[r].seen
        /\ \A g \in Files \ {f} : b.files[g] = branches[n].files[g] /\ b.over[g] = branches[n].over[g]
    BY <2>1, <2>2, <2>3 DEF Branch, Trees
  <2>6. PICK pc \in Pcs : pc = IF req[r].todo = {f} THEN "open" ELSE "fetch"  BY DEF Pcs, Github
  <2>7. PICK c \in Call : c = [At(r, pc) EXCEPT !.todo = @ \ {f}, !.seen = Absent]
    BY <1>1, FilesTyped DEF Call, At
  <2>8. /\ c.pc = pc /\ c.row = req[r].row /\ c.set = req[r].set /\ c.text = req[r].text
        /\ c.name = n /\ c.todo = req[r].todo \ {f} /\ Goes(r, c)
    BY <1>1, <1>4, <1>n, <1>f, <2>6, <2>7 DEF Put, At, Call
  <2>9. branches'[n] = b /\ touched' = touched  BY <1>1, <1>2, <2>4 DEF sessionVars
  <2>10. ASSUME NEW g \in touched \ c.todo PROVE Made(n, g, c.text)'
    <3>1. CASE g = f
      BY <1>4, <2>1, <2>5, <2>8, <2>9, <3>1 DEF Made, Untouched, Accepts, Written
    <3>2. CASE g # f
      <4>1. g \in touched \ req[r].todo /\ g \in Files \ {f}
        BY <1>1, <2>8, <3>2, FilesTyped DEF Types, SessionTypes
      <4> QED  BY <2>1, <2>5, <2>8, <2>9, <4>1 DEF Made
    <3> QED  BY <3>1, <3>2
  <2>11. ASSUME NEW g \in (Files \ touched) \cup c.todo PROVE Untouched(n, g)'
    <3>1. g \in (Files \ touched) \cup req[r].todo /\ g \in Files \ {f}
      BY <1>1, <2>1, <2>8, FilesTyped DEF Types, SessionTypes
    <3> QED  BY <2>1, <2>5, <2>9, <3>1 DEF Untouched
  <2>12. BranchFine(r, c)'
    BY <2>1, <2>5, <2>8, <2>9, <2>10, <2>11 DEF BranchFine
  <2>13. FileFine(c) /\ c.pc \in Github /\ c.pc \notin {"save", "record", "mark"}
    BY <2>6, <2>8 DEF FileFine, Github
  <2> QED  BY <1>1, <1>2, <2>1, <2>4, <2>5, <2>8, <2>12, <2>13, BranchKeeps
<1> QED  BY <1>3, <1>4

LEMMA OpenPullRequestKeeps == ASSUME Inv, NEW r \in Requests, OpenPullRequest(r) PROVE Inv'
<1>1. /\ Types /\ SetsOK /\ RowsOK /\ OneOwner /\ JobsOK /\ OpenedOK /\ (Agreed(session) => agreed)
      /\ req[r] \in Call /\ CallFine(r, req[r])
  BY DEF Inv, Types, CallTypes
<1>2. /\ req[r].pc = "open" /\ req[r].pc \in Github \ After
      /\ UNCHANGED <<sessionVars, patchVars, base, moves, branches, rows>>
  BY DEF OpenPullRequest, Github, After
<1>3. PICK o : o = [call |-> r, name |-> req[r].name, set |-> req[r].set,
                    artifact |-> req[r].text, approval |-> req[r].row.approval]
  OBVIOUS
<1>4. opened' = opened \cup {o}  BY <1>3 DEF OpenPullRequest
<1>5. /\ Sound(req[r].set) /\ WasGreen(req[r].set) /\ req[r].text # None
      /\ branches[req[r].name].owners = {r} /\ req[r].todo = {}
      /\ \A f \in touched \ req[r].todo : Made(req[r].name, f, req[r].text)
      /\ \A f \in (Files \ touched) \cup req[r].todo : Untouched(req[r].name, f)
  BY <1>1, <1>2 DEF CallFine, GateFine, BranchFine, FileFine, Owning, Writing
<1>6. o \in PullRequest
  BY <1>1, <1>3, <1>5 DEF PullRequest, Call, Sessions, Sound, Artifacts, None
<1>7. PICK c \in Call : c = At(r, "record")  BY <1>1, AtTyped DEF Pcs, Github
<1>8. /\ c.pc = "record" /\ c.row = req[r].row /\ c.set = req[r].set /\ c.text = req[r].text
      /\ c.name = req[r].name /\ Goes(r, c)
  BY <1>1, <1>7, AtTyped DEF OpenPullRequest, Pcs, Github
<1>9. UNCHANGED <<sets, validator, jobVars, greenInline>>  BY <1>2 DEF patchVars
<1>10. Grow  BY <1>1, <1>2, <1>4, <1>9 DEF Grow, sessionVars, Green
<1>11. Consented(c) /\ ReadFine(c) /\ StoreFine(c) /\ GateFine(c)
  BY <1>1, <1>2, <1>8, GithubFine DEF Github
<1>12. CallFine(r, c)'
  <2>1. agreed' = agreed /\ Agreed(c.row)' = Agreed(c.row)  BY <1>2, Zenon DEF sessionVars, Agreed
  <2>2. Consented(c)'  BY <1>11, <2>1, Zenon DEF Consented
  <2>3. agreed  BY <1>8, <1>11, Zenon DEF GateFine, Github
  <2>4. Sound(c.set)' /\ WasGreen(c.set)' /\ c.text # None
    BY <1>5, <1>8, <1>9 DEF Sound, WasGreen
  <2>5. GateFine(c)'  BY <2>1, <2>3, <2>4, Zenon DEF GateFine
  <2>6. BranchFine(r, c)'  BY <1>2, <1>5, <1>8 DEF BranchFine, Writing
  <2>7. MarkFine(r, c)'  BY <1>3, <1>4, <1>8 DEF MarkFine
  <2>8. ReadFine(c)' /\ StoreFine(c)' /\ FileFine(c)'
    BY <1>8 DEF ReadFine, StoreFine, FileFine
  <2> QED  BY <2>2, <2>5, <2>6, <2>7, <2>8 DEF CallFine
<1>13. \A q \in Requests : CallFine(q, req[q])'  BY <1>2, <1>8, <1>10, <1>12, OthersStay
<1>14. Types'
  <2>1. SessionTypes' /\ agreed' \in BOOLEAN
    BY <1>1, <1>2, Zenon DEF Types, SessionTypes, sessionVars
  <2>2. PatchTypes' /\ GithubTypes'
    BY <1>1, <1>2, <1>4, <1>6, <1>9 DEF Types, PatchTypes, JobTypes, GithubTypes
  <2> QED  BY <1>1, <1>8, <2>1, <2>2, CallMoves, Zenon DEF Types
<1>15. OpenedOK'
  <2>1. \A p \in opened : /\ WasGreen(p.set)' /\ branches'[p.name].owners = {p.call}
                          /\ req'[p.call].pc \in After
                          /\ \A f \in touched' : Made(p.name, f, p.artifact)'
                          /\ \A f \in Files \ touched' : Untouched(p.name, f)'
    BY <1>1, <1>2, <1>8, <1>10, OpenedStays
  <2>2. /\ o.call = r /\ o.name = req[r].name /\ o.set = req[r].set /\ o.artifact = req[r].text
        /\ req'[r] = c
    BY <1>1, <1>3, <1>8, CallMoves
  <2>3. WasGreen(o.set)'  BY <1>5, <1>9, <2>2 DEF WasGreen
  <2>4. /\ \A f \in touched' : Made(o.name, f, o.artifact)'
        /\ \A f \in Files \ touched' : Untouched(o.name, f)'
    BY <1>2, <1>5, <2>2 DEF Made, Untouched, sessionVars
  <2>5. branches'[o.name].owners = {o.call} /\ req'[o.call].pc \in After
    BY <1>2, <1>5, <1>8, <2>2 DEF After
  <2> QED  BY <1>4, <2>1, <2>3, <2>4, <2>5 DEF OpenedOK
<1>16. (Agreed(session) => agreed)'  BY <1>1, <1>2, Zenon DEF Agreed, sessionVars
<1>17. SetsOK' /\ RowsOK' /\ OneOwner' /\ JobsOK'
  BY <1>1, <1>2, <1>4, <1>9 DEF SetsOK, RowsOK, OneOwner, JobsOK, Tested, SetOf, Recorded
<1> QED  BY <1>13, <1>14, <1>15, <1>16, <1>17, Zenon DEF Inv

-----------------------------------------------------------------------------
(* The steps of everybody else.                                            *)

\* A step that writes no call's record, no branch and no ledger.
LEMMA BystanderKeeps ==
  ASSUME Inv, Types', Grow, UNCHANGED <<branches, opened, rows, req>>,
         SetsOK', JobsOK', (Agreed(session) => agreed)'
  PROVE  Inv'
<1>1. Types /\ RowsOK /\ OneOwner /\ OpenedOK /\ \A r \in Requests : CallFine(r, req[r])  BY DEF Inv
<1>2. RowsOK' /\ OneOwner'  BY <1>1, RowsStay DEF OneOwner
<1>3. \A r \in Requests : CallFine(r, req[r])'
  <2> TAKE r \in Requests
  <2>1. PICK c \in Call : c = req[r]  BY <1>1 DEF Types, CallTypes
  <2>2. CallFine(r, c) /\ req'[r] = c  BY <1>1, <2>1
  <2>3. CallFine(r, c)'  BY <1>1, <2>2, CallStays
  <2> QED  BY <2>2, <2>3
<1>4. OpenedOK'
  <2>1. ASSUME NEW o \in opened PROVE WasGreen(o.set)'
    BY <1>1, GrowKeeps DEF OpenedOK, Types, GithubTypes, PullRequest
  <2> QED  BY <1>1, <2>1 DEF OpenedOK, Made, Untouched, Grow
<1> QED  BY <1>2, <1>3, <1>4, Zenon DEF Inv

LEMMA SessionStepKeeps == ASSUME Inv, SessionStep PROVE Inv'
<1>1. Types /\ SetsOK /\ JobsOK /\ (Agreed(session) => agreed)  BY DEF Inv
<1>2. Types'  BY <1>1, SessionStepTypes
<1>3. UNCHANGED <<config, touched, patchVars, githubVars, rows, req>>
  BY DEF SessionStep, Propose, RunReads, RunWrites, SetApproval, Decide
<1>4. (session' = session /\ agreed' = agreed) \/ \E s : WriteSession(s)
  BY Zenon DEF SessionStep, Propose, RunReads, RunWrites, SetApproval, Decide
<1>5. agreed => agreed'  BY <1>4, Zenon DEF WriteSession
<1>6. (Agreed(session) => agreed)'
  BY <1>1, <1>4, Zenon DEF WriteSession, Agreed
<1>7. UNCHANGED <<sets, jobVars, greenInline, branches, opened>>  BY <1>3 DEF patchVars, githubVars
<1>8. Grow
  <2>2. sets' = sets /\ greenInline' = greenInline /\ opened' = opened /\ rows' = rows  BY <1>3, <1>7
  <2>3. \A p \in PatchSets : sets[p].status # "none" => sets'[p].status # "none" /\ sets'[p].ok = sets[p].ok
    BY <2>2
  <2>4. /\ greenInline \subseteq greenInline' /\ rows \subseteq rows' /\ opened \subseteq opened'
        /\ greens \subseteq greens'
    BY <1>7, <2>2
  <2> QED  BY <1>3, <1>5, <2>3, <2>4, Zenon DEF Grow
<1>9. SetsOK' /\ JobsOK'  BY <1>1, <1>3, <1>7 DEF SetsOK, JobsOK, Tested, SetOf, Recorded
<1> QED  BY <1>2, <1>3, <1>6, <1>7, <1>8, <1>9, BystanderKeeps

-----------------------------------------------------------------------------
(* The test jobs.                                                          *)

\* One row is written: it keeps its set, and has its evidence if it says passed.
LEMMA JobWritten ==
  ASSUME JobTypes, JobsOK, NEW j \in Jobs, NEW d \in JobRow, jobs' = [jobs EXCEPT ![j] = d],
         d.status # "none", d.set \in PatchSets, sets[d.set].status # "none",
         jobs[j].status # "none" => d.set = jobs[j].set,
         greens \subseteq greens',
         d.status = "passed" /\ d.result.applied => Tested(d.set, d.result) \in greens'
  PROVE  /\ jobs' \in [Jobs -> JobRow]
         /\ \A i \in Jobs : jobs'[i].status # "none" =>
              jobs'[i].set \in PatchSets /\ sets[jobs'[i].set].status # "none"
         /\ \A i \in Jobs : jobs[i].status # "none" =>
              jobs'[i].status # "none" /\ jobs'[i].set = jobs[i].set
         /\ \A i \in Jobs : jobs'[i].status = "passed" /\ jobs'[i].result.applied =>
              Tested(jobs'[i].set, jobs'[i].result) \in greens'
<1>1. jobs'[j] = d /\ \A i \in Jobs \ {j} : jobs'[i] = jobs[i]  BY DEF JobTypes
<1>2. ASSUME NEW i \in Jobs
      PROVE  /\ jobs'[i].status # "none" =>
                  jobs'[i].set \in PatchSets /\ sets[jobs'[i].set].status # "none"
             /\ jobs[i].status # "none" => jobs'[i].status # "none" /\ jobs'[i].set = jobs[i].set
             /\ jobs'[i].status = "passed" /\ jobs'[i].result.applied =>
                  Tested(jobs'[i].set, jobs'[i].result) \in greens'
  <2>1. CASE i = j  BY <1>1, <2>1
  <2>2. CASE i # j  BY <1>1, <2>2 DEF JobTypes, JobsOK
  <2> QED  BY <2>1, <2>2
<1>3. jobs' \in [Jobs -> JobRow]  BY DEF JobTypes
<1> QED  BY <1>2, <1>3

\* A status is written by id, the rest of the row stays.
LEMMA JobMarked ==
  ASSUME JobTypes, NEW j \in Jobs, jobs[j].status # "none",
         NEW s \in {"running", "failed", "cancelled"}, Marks(j, s)
  PROVE  \E d \in JobRow : /\ jobs' = [jobs EXCEPT ![j] = d] /\ d.status = s
                           /\ d.set = jobs[j].set /\ d.set \in PatchSets
<1> DEFINE d == [jobs[j] EXCEPT !.status = s]
<1>1. jobs[j] \in JobRow /\ jobs[j].set \in PatchSets  BY DEF JobTypes
<1>2. d \in JobRow /\ d.status = s /\ d.set = jobs[j].set
  BY <1>1 DEF JobRow, JobStatus, Verdicts
<1>3. jobs' = [jobs EXCEPT ![j] = d]  BY DEF Marks, JobTypes
<1> HIDE DEF d
<1> QED  BY <1>1, <1>2, <1>3

\* The executions are about jobs that stay what they are.
LEMMA ExecutionsStay ==
  ASSUME JobTypes, JobsOK, UNCHANGED <<sets, execution>>,
         \A i \in Jobs : jobs[i].status # "none" => jobs'[i].status # "none" /\ jobs'[i].set = jobs[i].set
  PROVE  /\ execution' \in [Workers -> Execution]
         /\ \A v \in Workers : execution'[v].pc # "idle" =>
              execution'[v].job \in Jobs /\ jobs'[execution'[v].job].status # "none"
         /\ \A v \in Workers : execution'[v].result.applied =>
              execution'[v].pc # "idle" /\ sets'[SetOf(v)'].ok
BY DEF JobTypes, JobsOK, SetOf

\* One of them is written.
LEMMA ExecutionWritten ==
  ASSUME JobTypes, JobsOK, sets' = sets, NEW w \in Workers, NEW x \in Execution,
         execution' = [execution EXCEPT ![w] = x],
         \A i \in Jobs : jobs[i].status # "none" => jobs'[i].status # "none" /\ jobs'[i].set = jobs[i].set,
         x.pc # "idle" => x.job \in Jobs /\ jobs'[x.job].status # "none",
         x.result.applied => x.pc # "idle" /\ sets[jobs'[x.job].set].ok
  PROVE  /\ execution' \in [Workers -> Execution]
         /\ \A v \in Workers : execution'[v].pc # "idle" =>
              execution'[v].job \in Jobs /\ jobs'[execution'[v].job].status # "none"
         /\ \A v \in Workers : execution'[v].result.applied =>
              execution'[v].pc # "idle" /\ sets'[SetOf(v)'].ok
<1>1. execution'[w] = x /\ \A v \in Workers \ {w} : execution'[v] = execution[v]  BY DEF JobTypes
<1>2. ASSUME NEW v \in Workers
      PROVE  /\ execution'[v].pc # "idle" =>
                  execution'[v].job \in Jobs /\ jobs'[execution'[v].job].status # "none"
             /\ execution'[v].result.applied => execution'[v].pc # "idle" /\ sets'[SetOf(v)'].ok
  <2>1. CASE v = w  BY <1>1, <2>1 DEF SetOf
  <2>2. CASE v # w  BY <1>1, <2>2 DEF JobTypes, JobsOK, SetOf
  <2> QED  BY <2>1, <2>2
<1>3. execution' \in [Workers -> Execution]  BY DEF JobTypes
<1> QED  BY <1>2, <1>3

\* What a job's step leaves behind, and the evidence it may add.
JobsFine ==
  /\ JobTypes' /\ JobsOK'
  /\ \/ greens' = greens
     \/ \E g \in Greens : sets[g.set].ok /\ greens' = greens \cup {g}

\* A status written, to a row that has one.
LEMMA MarkedFine ==
  ASSUME PatchTypes, JobsOK, NEW j \in Jobs, jobs[j].status # "none",
         NEW s \in {"running", "failed", "cancelled"}, Marks(j, s),
         UNCHANGED <<sets, tester, execution, greens>>, cancelling' \subseteq cancelling
  PROVE  JobsFine
<1>1. JobTypes  BY DEF PatchTypes
<1>2. PICK d \in JobRow : /\ jobs' = [jobs EXCEPT ![j] = d] /\ d.status = s
                          /\ d.set = jobs[j].set /\ d.set \in PatchSets
  BY <1>1, JobMarked
<1>3. sets[d.set].status # "none"  BY <1>2 DEF JobsOK
<1>4. /\ jobs' \in [Jobs -> JobRow]
      /\ \A i \in Jobs : jobs'[i].status # "none" =>
           jobs'[i].set \in PatchSets /\ sets[jobs'[i].set].status # "none"
      /\ \A i \in Jobs : jobs[i].status # "none" => jobs'[i].status # "none" /\ jobs'[i].set = jobs[i].set
      /\ \A i \in Jobs : jobs'[i].status = "passed" /\ jobs'[i].result.applied =>
           Tested(jobs'[i].set, jobs'[i].result) \in greens'
  BY <1>1, <1>2, <1>3, JobWritten
<1>5. /\ execution' \in [Workers -> Execution]
      /\ \A v \in Workers : execution'[v].pc # "idle" =>
           execution'[v].job \in Jobs /\ jobs'[execution'[v].job].status # "none"
      /\ \A v \in Workers : execution'[v].result.applied =>
           execution'[v].pc # "idle" /\ sets'[SetOf(v)'].ok
  BY <1>1, <1>4, ExecutionsStay
<1>6. JobTypes'  BY <1>1, <1>4, <1>5 DEF JobTypes
<1>7. JobsOK'  BY <1>4, <1>5 DEF JobsOK, Tested
<1> QED  BY <1>6, <1>7 DEF JobsFine

\* An execution written, to no row yet.
LEMMA ExecutingFine ==
  ASSUME PatchTypes, JobsOK, NEW w \in Workers, NEW x \in Execution,
         execution' = [execution EXCEPT ![w] = x], UNCHANGED <<sets, tester, jobs, cancelling, greens>>,
         x.pc # "idle" => x.job \in Jobs /\ jobs[x.job].status # "none",
         x.result.applied => x.pc # "idle" /\ sets[jobs[x.job].set].ok
  PROVE  JobsFine
<1>1. JobTypes  BY DEF PatchTypes
<1>2. /\ execution' \in [Workers -> Execution]
      /\ \A v \in Workers : execution'[v].pc # "idle" =>
           execution'[v].job \in Jobs /\ jobs'[execution'[v].job].status # "none"
      /\ \A v \in Workers : execution'[v].result.applied =>
           execution'[v].pc # "idle" /\ sets'[SetOf(v)'].ok
  BY <1>1, ExecutionWritten
<1>3. JobTypes'  BY <1>1, <1>2 DEF JobTypes
<1>4. JobsOK'  BY <1>2 DEF JobsOK, Tested
<1> QED  BY <1>3, <1>4 DEF JobsFine

LEMMA JobStepFine ==
  ASSUME PatchTypes, SetsOK, JobsOK, base \in Trees, JobStep
  PROVE  JobsFine
<1>1. JobTypes /\ sets' = sets  BY DEF PatchTypes, JobStep
<1>2. CASE TestReads
  <2>1. tester' \in 0 .. MaxSets /\ (tester' # None => sets[tester'].status # "none")
    BY <1>2, LatestTyped DEF TestReads, PatchTypes
  <2>2. UNCHANGED <<jobs, execution, cancelling, greens>>  BY <1>2 DEF TestReads
  <2>3. JobTypes'  BY <1>1, <2>1, <2>2 DEF JobTypes
  <2>4. JobsOK'  BY <1>1, <2>1, <2>2 DEF JobsOK, Tested, SetOf
  <2> QED  BY <2>2, <2>3, <2>4 DEF JobsFine
<1>3. CASE TestEnqueues
  <2> DEFINE d == [NoJobYet EXCEPT !.status = "queued", !.set = tester]
  <2>1. d \in JobRow /\ d.set = tester /\ d.status = "queued"
    BY <1>1, IdleTyped DEF JobTypes, NoJobYet, JobRow, JobStatus
  <2>2. PICK j \in Jobs : jobs' = [jobs EXCEPT ![j] = d] /\ jobs[j].status = "none"
    BY <1>3 DEF TestEnqueues
  <2>3. tester' = None /\ tester # None /\ UNCHANGED <<execution, cancelling, greens>>
    BY <1>3 DEF TestEnqueues
  <2>4. tester \in PatchSets /\ sets[tester].status # "none"
    BY <1>1, <2>3 DEF JobTypes, JobsOK, PatchSets, None
  <2> HIDE DEF d
  <2>5. /\ jobs' \in [Jobs -> JobRow]
        /\ \A i \in Jobs : jobs'[i].status # "none" =>
             jobs'[i].set \in PatchSets /\ sets[jobs'[i].set].status # "none"
        /\ \A i \in Jobs : jobs[i].status # "none" => jobs'[i].status # "none" /\ jobs'[i].set = jobs[i].set
        /\ \A i \in Jobs : jobs'[i].status = "passed" /\ jobs'[i].result.applied =>
             Tested(jobs'[i].set, jobs'[i].result) \in greens'
    BY <1>1, <2>1, <2>2, <2>3, <2>4, JobWritten
  <2>6. /\ execution' \in [Workers -> Execution]
        /\ \A v \in Workers : execution'[v].pc # "idle" =>
             execution'[v].job \in Jobs /\ jobs'[execution'[v].job].status # "none"
        /\ \A v \in Workers : execution'[v].result.applied =>
             execution'[v].pc # "idle" /\ sets'[SetOf(v)'].ok
    BY <1>1, <2>3, <2>5, ExecutionsStay
  <2>7. JobTypes'  BY <1>1, <2>3, <2>5, <2>6, Sizes DEF JobTypes, None
  <2>8. JobsOK'  BY <1>1, <2>3, <2>5, <2>6 DEF JobsOK, Tested
  <2> QED  BY <2>3, <2>7, <2>8 DEF JobsFine
<1>4. ASSUME NEW w \in Workers, NEW j \in Jobs, JobStarts(w, j) PROVE JobsFine
  <2>1. jobs[j].status # "none" /\ Marks(j, "running") /\ UNCHANGED <<tester, cancelling, greens>>
    BY <1>4 DEF JobStarts, Unfinished
  <2>2. PICK d \in JobRow : /\ jobs' = [jobs EXCEPT ![j] = d] /\ d.status = "running"
                            /\ d.set = jobs[j].set /\ d.set \in PatchSets
    BY <1>1, <2>1, JobMarked
  <2>3. sets[d.set].status # "none"  BY <2>1, <2>2 DEF JobsOK
  <2>4. /\ jobs' \in [Jobs -> JobRow]
        /\ \A i \in Jobs : jobs'[i].status # "none" =>
             jobs'[i].set \in PatchSets /\ sets[jobs'[i].set].status # "none"
        /\ \A i \in Jobs : jobs[i].status # "none" => jobs'[i].status # "none" /\ jobs'[i].set = jobs[i].set
        /\ \A i \in Jobs : jobs'[i].status = "passed" /\ jobs'[i].result.applied =>
             Tested(jobs'[i].set, jobs'[i].result) \in greens'
    BY <1>1, <2>1, <2>2, <2>3, JobWritten
  <2> DEFINE x == [NoExecution EXCEPT !.pc = "cloned", !.job = j, !.clone = base]
  <2>5. x \in Execution /\ x.pc = "cloned" /\ x.job = j /\ ~ x.result.applied
    <3>1. j \in 0 .. MaxJobs  BY Sizes DEF Jobs
    <3>2. NoExecution \in Execution /\ ~ NoExecution.result.applied  BY IdleTyped
    <3> QED  BY <3>1, <3>2 DEF Execution
  <2>6. execution' = [execution EXCEPT ![w] = x]  BY <1>4 DEF JobStarts
  <2> HIDE DEF x
  <2>7. /\ execution' \in [Workers -> Execution]
        /\ \A v \in Workers : execution'[v].pc # "idle" =>
             execution'[v].job \in Jobs /\ jobs'[execution'[v].job].status # "none"
        /\ \A v \in Workers : execution'[v].result.applied =>
             execution'[v].pc # "idle" /\ sets'[SetOf(v)'].ok
    BY <1>1, <2>1, <2>4, <2>5, <2>6, ExecutionWritten
  <2>8. JobTypes'  BY <1>1, <2>1, <2>4, <2>7 DEF JobTypes
  <2>9. JobsOK'  BY <1>1, <2>1, <2>4, <2>7 DEF JobsOK, Tested
  <2> QED  BY <2>1, <2>8, <2>9 DEF JobsFine
<1>5. ASSUME NEW w \in Workers, JobApplies(w) PROVE JobsFine
  <2> DEFINE s == sets[SetOf(w)]
             applied == /\ s.status \in {"validated", "applied"}
                        /\ s.stored # {}
                        /\ \A f \in s.stored : Fits(w, f)
             checked == \A f \in s.stored : ActionOf[f] # "create" => s.hash[f] # NoHash
             result == IF applied THEN [applied |-> TRUE, checked |-> checked, files |-> s.stored]
                       ELSE NoResult
             x == [NoExecution EXCEPT !.pc = "ending", !.job = execution[w].job, !.result = result]
  <2>1. /\ execution[w] \in Execution /\ execution[w].job \in Jobs
        /\ jobs[execution[w].job].status # "none" /\ SetOf(w) \in PatchSets
    BY <1>1, <1>5 DEF JobApplies, JobTypes, SetOf
  <2>2. s.stored \subseteq Files /\ checked \in BOOLEAN  BY <2>1 DEF PatchTypes, SetRow
  <2>3. result \in Results /\ (result.applied => applied)
    BY <2>2, IdleTyped DEF Results
  <2>4. applied => s.ok  BY <2>1 DEF SetsOK
  <2>5. execution' = [execution EXCEPT ![w] = x] /\ UNCHANGED <<tester, jobs, cancelling, greens>>
    BY <1>5 DEF JobApplies
  <2> HIDE DEF result
  <2>6. x \in Execution /\ x.pc = "ending" /\ x.job = execution[w].job /\ x.result = result
    BY <2>1, <2>3, IdleTyped DEF NoExecution, Execution
  <2> HIDE DEF x, applied
  <2>7. x.result.applied => sets[jobs[x.job].set].ok  BY <2>3, <2>4, <2>6 DEF SetOf
  <2> QED  BY <1>1, <2>1, <2>5, <2>6, <2>7, ExecutingFine
<1>6. ASSUME NEW w \in Workers, JobLost(w) PROVE JobsFine
  BY <1>1, <1>6, IdleTyped, ExecutingFine DEF JobLost
<1>7. ASSUME NEW w \in Workers, NEW v \in Verdicts, JobEnds(w, v) PROVE JobsFine
  <2> DEFINE j == execution[w].job
             result == execution[w].result
             d == [jobs[j] EXCEPT !.status = v, !.result = result]
             g == Tested(SetOf(w), result)
  <2>1. /\ j \in Jobs /\ jobs[j] \in JobRow /\ jobs[j].set \in PatchSets /\ result \in Results
        /\ jobs[j].status # "none" /\ sets[jobs[j].set].status # "none" /\ SetOf(w) = jobs[j].set
    BY <1>1, <1>7 DEF JobEnds, JobTypes, JobsOK, Execution, SetOf
  <2>2. /\ d \in JobRow /\ d.status = v /\ d.set = jobs[j].set /\ d.result = result
    BY <2>1 DEF JobRow, JobStatus
  <2>3. jobs' = [jobs EXCEPT ![j] = d] /\ UNCHANGED <<tester, cancelling>>
    BY <1>1, <1>7, <2>1 DEF JobEnds, JobTypes
  <2>4. g \in Greens  BY <2>1 DEF Tested, Greens, Results
  <2>5. /\ v = "passed" => result.applied /\ greens' = greens \cup {g}
        /\ v # "passed" => greens' = greens
        /\ execution' = [execution EXCEPT ![w] = NoExecution]
    BY <1>7 DEF JobEnds
  <2>6. g.set = jobs[j].set /\ (v = "passed" => sets[g.set].ok)
    BY <2>1, <2>5 DEF Tested, JobsOK
  <2>7. v = "passed" => Tested(d.set, d.result) \in greens'  BY <2>1, <2>2, <2>5
  <2> HIDE DEF d, g, j, result
  <2>8. v \in Verdicts /\ v # "none"  BY DEF Verdicts
  <2>9. /\ jobs' \in [Jobs -> JobRow]
        /\ \A i \in Jobs : jobs'[i].status # "none" =>
             jobs'[i].set \in PatchSets /\ sets[jobs'[i].set].status # "none"
        /\ \A i \in Jobs : jobs[i].status # "none" => jobs'[i].status # "none" /\ jobs'[i].set = jobs[i].set
        /\ \A i \in Jobs : jobs'[i].status = "passed" /\ jobs'[i].result.applied =>
             Tested(jobs'[i].set, jobs'[i].result) \in greens'
    <3>1. greens \subseteq greens'  BY <2>5
    <3> QED  BY <1>1, <2>1, <2>2, <2>3, <2>7, <2>8, <3>1, JobWritten
  <2>10. /\ execution' \in [Workers -> Execution]
         /\ \A u \in Workers : execution'[u].pc # "idle" =>
              execution'[u].job \in Jobs /\ jobs'[execution'[u].job].status # "none"
         /\ \A u \in Workers : execution'[u].result.applied =>
              execution'[u].pc # "idle" /\ sets'[SetOf(u)'].ok
    BY <1>1, <2>5, <2>9, IdleTyped, ExecutionWritten
  <2>11. greens' \subseteq Greens /\ \A h \in greens' : sets[h.set].ok
    BY <1>1, <2>4, <2>5, <2>6 DEF JobTypes, JobsOK
  <2>12. JobTypes'  BY <1>1, <2>3, <2>9, <2>10, <2>11 DEF JobTypes
  <2>13. JobsOK'  BY <1>1, <2>3, <2>9, <2>10, <2>11 DEF JobsOK, Tested
  <2> QED  BY <2>4, <2>5, <2>6, <2>12, <2>13 DEF JobsFine
<1>8. ASSUME NEW j \in Jobs, JobGivenUp(j) PROVE JobsFine
  BY <1>1, <1>8, MarkedFine DEF JobGivenUp
<1>9. ASSUME NEW j \in Jobs, CancelReads(j) PROVE JobsFine
  <2>1. /\ cancelling' = cancelling \cup {j} /\ jobs[j].status # "none"
        /\ UNCHANGED <<tester, jobs, execution, greens>>
    BY <1>9 DEF CancelReads, Unfinished
  <2>2. JobTypes'  BY <1>1, <2>1 DEF JobTypes
  <2>3. JobsOK'  BY <1>1, <2>1 DEF JobsOK, Tested, SetOf
  <2> QED  BY <2>1, <2>2, <2>3 DEF JobsFine
<1>10. ASSUME NEW j \in Jobs, CancelWrites(j) PROVE JobsFine
  <2>1. /\ jobs[j].status # "none" /\ Marks(j, "cancelled") /\ cancelling' \subseteq cancelling
        /\ UNCHANGED <<tester, execution, greens>>
    BY <1>1, <1>10 DEF CancelWrites, JobTypes
  <2> QED  BY <1>1, <2>1, MarkedFine
<1> QED  BY <1>2, <1>3, <1>4, <1>5, <1>6, <1>7, <1>8, <1>9, <1>10 DEF JobStep

\* The validate request, and the jobs.
LEMMA PatchStepTypes ==
  ASSUME Inv, PatchStep
  PROVE  Types'
<1>1. /\ Types /\ PatchTypes /\ JobTypes /\ SetsOK /\ JobsOK
      /\ latest \in 0 .. MaxArtifacts /\ base \in Trees /\ touched \subseteq Files
  BY FilesTyped DEF Inv, Types, PatchTypes, SessionTypes, GithubTypes
<1>2. UNCHANGED <<sessionVars, githubVars, rows, req>> /\ agreed' = agreed
  BY DEF PatchStep, ValidateReads, ValidateStores, ValidateDies, ValidateAdds, JobStep, sessionVars
<1>3. SessionTypes' /\ GithubTypes' /\ CallTypes'
  BY <1>1, <1>2 DEF Types, SessionTypes, GithubTypes, CallTypes, sessionVars, githubVars
<1>4. jobVars' = jobVars => JobTypes'  BY <1>1 DEF JobTypes
<1>5. ASSUME ValidateReads PROVE PatchTypes'
  BY <1>1, <1>4, <1>5, Sizes DEF ValidateReads, PatchTypes, NoRequest, None
<1>6. ASSUME ValidateStores PROVE PatchTypes'
  <2>1. PICK p \in PatchSets :
          /\ CreatePatchSet(p, validator.artifact, Valid(validator.artifact))
          /\ validator' = [validator EXCEPT !.set = p, !.todo = touched]
    BY <1>6 DEF ValidateStores
  <2>2. Valid(validator.artifact) \in BOOLEAN /\ validator.artifact \in 0 .. MaxArtifacts
    BY <1>1 DEF Valid, PatchTypes
  <2>3. sets' \in [PatchSets -> SetRow]  BY <1>1, <2>1, <2>2, SetCreated
  <2>4. validator' \in [set : 0 .. MaxSets, artifact : 0 .. MaxArtifacts, todo : SUBSET Files]
    BY <1>1, <2>1, Sizes DEF PatchTypes
  <2> QED  BY <1>1, <1>4, <1>6, <2>3, <2>4 DEF ValidateStores, PatchTypes
<1>7. ASSUME NEW f \in Files, ValidateAdds(f) PROVE PatchTypes'
  <2>1. PICK h \in {NoHash, HashOf(f)} : AddPatchFile(validator.set, f, h)
    BY <1>7 DEF ValidateAdds
  <2>2. h \in Versions \cup {NoHash}  BY <1>1, <2>1 DEF HashOf, Trees, Blobs
  <2>3. sets' \in [PatchSets -> SetRow]  BY <1>1, <2>1, <2>2, FileAdded
  <2> QED  BY <1>1, <1>4, <1>7, <2>3, Sizes DEF ValidateAdds, PatchTypes, NoRequest, None
<1>8. ASSUME ValidateDies PROVE PatchTypes'
  BY <1>1, <1>4, <1>8, Sizes DEF ValidateDies, PatchTypes, NoRequest, None
<1>9. ASSUME JobStep PROVE PatchTypes'
  BY <1>1, <1>9, JobStepFine DEF JobsFine, JobStep, PatchTypes
<1> QED
  BY <1>1, <1>2, <1>3, <1>5, <1>6, <1>7, <1>8, <1>9 DEF PatchStep, Types

LEMMA PatchStepKeeps == ASSUME Inv, PatchStep PROVE Inv'
<1>1. /\ Types /\ PatchTypes /\ JobTypes /\ SetsOK /\ JobsOK /\ (Agreed(session) => agreed)
      /\ latest \in 0 .. MaxArtifacts /\ base \in Trees
  BY DEF Inv, Types, PatchTypes, SessionTypes, GithubTypes
<1>2. Types'  BY PatchStepTypes
<1>3. UNCHANGED <<sessionVars, githubVars, rows, req>>
  BY DEF PatchStep, ValidateReads, ValidateStores, ValidateDies, ValidateAdds, JobStep
<1>4. UNCHANGED <<opened, branches, rows, req>>  BY <1>3 DEF githubVars
<1>5. (Agreed(session) => agreed)'  BY <1>1, <1>3, Zenon DEF sessionVars, Agreed
<1>6. SUFFICES Grow /\ SetsOK' /\ JobsOK'  BY <1>2, <1>4, <1>5, BystanderKeeps
<1>7. ASSUME ValidateReads \/ ValidateDies PROVE Grow /\ SetsOK' /\ JobsOK'
  <2>1. UNCHANGED <<sets, jobVars, greenInline>>  BY <1>7 DEF ValidateReads, ValidateDies
  <2>2. Grow  BY <1>1, <1>3, <1>4, <2>1, SetsGrow
  <2>3. SetsOK'  BY <1>1, <1>4, <2>1 DEF SetsOK, Recorded
  <2> QED  BY <1>1, <2>1, <2>2, <2>3, JobsStay
<1>8. ASSUME ValidateStores PROVE Grow /\ SetsOK' /\ JobsOK'
  <2>1. PICK p \in PatchSets, ok \in BOOLEAN : CreatePatchSet(p, validator.artifact, ok)
    BY <1>8 DEF ValidateStores, Valid
  <2>2. validator.artifact \in 0 .. MaxArtifacts /\ UNCHANGED <<jobVars, greenInline>>
    BY <1>1, <1>8 DEF ValidateStores, PatchTypes
  <2>3. Grow /\ SetsOK'  BY <1>3, <2>1, <2>2, CreateGrows
  <2> QED  BY <1>1, <2>2, <2>3, JobsStay
<1>9. ASSUME NEW f \in Files, ValidateAdds(f) PROVE Grow /\ SetsOK' /\ JobsOK'
  <2>1. PICK h \in {NoHash, HashOf(f)} : AddPatchFile(validator.set, f, h)  BY <1>9 DEF ValidateAdds
  <2>2. h \in Versions \cup {NoHash}  BY <1>1, <2>1 DEF HashOf, Trees, Blobs
  <2>3. UNCHANGED <<jobVars, greenInline>>  BY <1>9 DEF ValidateAdds
  <2>4. Grow /\ SetsOK'  BY <1>3, <2>1, <2>2, <2>3, AddGrows
  <2> QED  BY <1>1, <2>3, <2>4, JobsStay
<1>10. ASSUME JobStep PROVE Grow /\ SetsOK' /\ JobsOK'
  <2>1. UNCHANGED <<sets, greenInline>>  BY <1>10 DEF JobStep
  <2>2. JobsFine  BY <1>1, <1>10, JobStepFine
  <2>3. greens \subseteq greens'  BY <2>2 DEF JobsFine
  <2>4. Grow  BY <1>1, <1>3, <1>4, <2>1, <2>3 DEF Grow, sessionVars
  <2>5. SetsOK'  BY <1>1, <1>4, <2>1 DEF SetsOK, Recorded
  <2> QED  BY <2>2, <2>4, <2>5 DEF JobsFine
<1> QED  BY <1>7, <1>8, <1>9, <1>10 DEF PatchStep

LEMMA CommitKeeps == ASSUME Inv, Commit PROVE Inv'
<1>1. Types /\ SetsOK /\ JobsOK /\ (Agreed(session) => agreed)  BY DEF Inv
<1>2. UNCHANGED <<sessionVars, patchVars, branches, opened, rows, req>>  BY DEF Commit
<1>3. base' \in Trees /\ moves' \in 0 .. MaxMoves
  BY <1>1, Sizes DEF Commit, Types, GithubTypes, Trees
<1>4. SessionTypes' /\ agreed' \in BOOLEAN  BY <1>1, <1>2, Zenon DEF Types, SessionTypes, sessionVars
<1>5. PatchTypes' /\ GithubTypes' /\ CallTypes'
  BY <1>1, <1>2, <1>3 DEF Types, PatchTypes, JobTypes, GithubTypes, CallTypes, patchVars
<1>6. Types'  BY <1>4, <1>5, Zenon DEF Types
<1>7. Grow  BY <1>1, <1>2, StillGrow
<1>8. SetsOK' /\ JobsOK'  BY <1>1, <1>2 DEF SetsOK, JobsOK, Tested, SetOf, Recorded, patchVars
<1>9. (Agreed(session) => agreed)'  BY <1>1, <1>2, Zenon DEF sessionVars, Agreed
<1> QED  BY <1>2, <1>6, <1>7, <1>8, <1>9, BystanderKeeps

LEMMA StutterKeeps == ASSUME Inv, UNCHANGED vars PROVE Inv'
<1>1. Types /\ SetsOK /\ JobsOK /\ (Agreed(session) => agreed)  BY DEF Inv
<1>2. UNCHANGED <<sessionVars, patchVars, githubVars, rows, req>>  BY DEF vars
<1>3. SessionTypes' /\ agreed' \in BOOLEAN  BY <1>1, <1>2, Zenon DEF Types, SessionTypes, sessionVars
<1>4. PatchTypes' /\ GithubTypes' /\ CallTypes'
  BY <1>1, <1>2 DEF Types, PatchTypes, JobTypes, GithubTypes, CallTypes, patchVars, githubVars
<1>5. Types'  BY <1>3, <1>4, Zenon DEF Types
<1>6. UNCHANGED <<branches, opened>>  BY <1>2 DEF githubVars
<1>7. Grow  BY <1>1, <1>2, <1>6, StillGrow
<1>8. SetsOK' /\ JobsOK'  BY <1>1, <1>2 DEF SetsOK, JobsOK, Tested, SetOf, Recorded, patchVars
<1>9. (Agreed(session) => agreed)'  BY <1>1, <1>2, Zenon DEF sessionVars, Agreed
<1> QED  BY <1>2, <1>5, <1>6, <1>7, <1>8, <1>9, BystanderKeeps

LEMMA GateStepKeeps == ASSUME Inv, NEW r \in Requests, GateStep(r) PROVE Inv'
BY OpenKeeps, ReadTextKeeps, ReadSetKeeps, ReuseKeeps, StoreKeeps, StoredKeeps, StoreFileKeeps, DryRunKeeps,
   RecheckKeeps, InlineTestsKeeps, SandboxGateKeeps, LeaveKeeps DEF GateStep

LEMMA GithubStepKeeps == ASSUME Inv, NEW r \in Requests, GithubStep(r) PROVE Inv'
BY ReadBaseKeeps, ProbeKeeps, CreateBranchKeeps, CopySetKeeps, SaveSetKeeps, PutKeeps, FetchKeeps,
   OpenPullRequestKeeps, RecordKeeps, MarkAppliedKeeps, FailsKeeps DEF GithubStep

LEMMA InvNext == Inv /\ [Next]_vars => Inv'
BY SessionStepKeeps, PatchStepKeeps, CommitKeeps, GateStepKeeps, GithubStepKeeps, StutterKeeps DEF Next

\* What a call has relied on stays true, so no gate it passed is taken back behind it
\* (pull-request-service.ts checks each of them once).
THEOREM Invariance == Spec => []Inv
BY InvInit, InvNext, PTL DEF Spec

-----------------------------------------------------------------------------
(* The theorems.                                                           *)

\* The variables keep their types for any settings, files, calls, patch sets, jobs and
\* artifacts; a call keeps to the names createSessionBranch may try.
THEOREM TypeCorrect == Spec => []TypeOK
<1>1. Inv => TypeOK  BY TypesAreTypeOK DEF Inv
<1> QED  BY <1>1, Invariance, PTL

\* However many calls want one branch name, whoever commits to a branch created it
\* (branch-service.ts, createSessionBranch).
THEOREM OneWriter == Spec => []OneWriterPerBranch
<1>1. Inv => OneWriterPerBranch
  BY DEF Inv, OneWriterPerBranch, OneOwner, CallFine, BranchFine, Owning, Writing
<1> QED  BY <1>1, Invariance, PTL

\* The diff of a pull request is the patch, however the base branch moves
\* (pull-request-service.ts, applyPatchFiles).
THEOREM Diffs == Spec => []DiffIsThePatch
<1>1. Inv => DiffIsThePatch
  BY DEF Inv, DiffIsThePatch, OpenedOK, Made, Untouched
<1> QED  BY <1>1, Invariance, PTL

\* A created row has its pull request, an applied patch set its created row,
\* wherever a call fails and whatever stale status it writes back.
THEOREM Ledger == Spec => []LedgerIsTrue
<1>1. Inv => LedgerIsTrue
  BY DEF Inv, LedgerIsTrue, RowsOK, SetsOK, Recorded
<1> QED  BY <1>1, Invariance, PTL

-----------------------------------------------------------------------------
(* The flow implements ReviewedChange.                                     *)

Published(p) == \E o \in opened : o.set = p

\* The stage of a patch set, now and after a step.
LEMMA StageIs ==
  ASSUME NEW p \in PatchSets
  PROVE  /\ Stage(p) = IF Published(p) THEN "published" ELSE IF WasGreen(p) THEN "tested"
                       ELSE IF sets[p].ok THEN "validated" ELSE "absent"
         /\ Stage(p)' = IF Published(p)' THEN "published" ELSE IF WasGreen(p)' THEN "tested"
                        ELSE IF sets'[p].ok THEN "validated" ELSE "absent"
BY DEF Stage, Published, WasGreen

\* Tests and pull requests are of sets found valid.
LEMMA TestedIsOk ==
  ASSUME Inv, NEW p \in PatchSets
  PROVE  /\ WasGreen(p) => sets[p].ok
         /\ Published(p) => WasGreen(p)
BY DEF Inv, SetsOK, JobsOK, OpenedOK, WasGreen, Published, Green

\* One patch set moves on, or none.
LEMMA OneMoves ==
  ASSUME NEW p \in PatchSets, agreed' = agreed,
         \A q \in PatchSets \ {p} : Stage(q)' = Stage(q),
         \/ Stage(p)' = Stage(p)
         \/ Stage(p) = "absent" /\ Stage(p)' = "validated"
         \/ Stage(p) = "validated" /\ Stage(p)' = "tested"
         \/ agreed /\ Stage(p) \in {"tested", "published"} /\ Stage(p)' = "published"
  PROVE  [Reviewed!Next]_(Reviewed!vars)
<1> DEFINE old == [q \in PatchSets |-> Stage(q)]
           new == [q \in PatchSets |-> Stage(q)']
<1>1. CASE Stage(p)' = Stage(p)
  <2>1. new = old  BY <1>1
  <2> QED  BY <2>1 DEF Reviewed!vars
<1>2. ASSUME NEW to, Stage(p)' = to PROVE new = [old EXCEPT ![p] = to]  BY <1>2
<1>3. CASE Stage(p) = "absent" /\ Stage(p)' = "validated"
  <2>1. new = [old EXCEPT ![p] = "validated"] /\ old[p] \in {"absent"}  BY <1>2, <1>3
  <2>2. Reviewed!Validate(p)  BY <2>1 DEF Reviewed!Validate, Reviewed!Advance
  <2> QED  BY <2>2 DEF Reviewed!Next
<1>4. CASE Stage(p) = "validated" /\ Stage(p)' = "tested"
  <2>1. new = [old EXCEPT ![p] = "tested"] /\ old[p] \in {"validated"}  BY <1>2, <1>4
  <2>2. Reviewed!Test(p)  BY <2>1 DEF Reviewed!Test, Reviewed!Advance
  <2> QED  BY <2>2 DEF Reviewed!Next
<1>5. CASE agreed /\ Stage(p) \in {"tested", "published"} /\ Stage(p)' = "published"
  <2>1. new = [old EXCEPT ![p] = "published"] /\ old[p] \in {"tested", "published"}  BY <1>2, <1>5
  <2>2. Reviewed!Publish(p)  BY <1>5, <2>1 DEF Reviewed!Publish, Reviewed!Advance
  <2> QED  BY <2>2 DEF Reviewed!Next
<1> QED  BY <1>1, <1>3, <1>4, <1>5

\* A step that finds no set valid, ends no test and opens nothing.
LEMMA NoneMoves ==
  ASSUME agreed' = agreed, UNCHANGED <<greens, greenInline, opened>>,
         \A q \in PatchSets : sets'[q].ok = sets[q].ok
  PROVE  [Reviewed!Next]_(Reviewed!vars)
<1>1. ASSUME NEW q \in PatchSets PROVE Stage(q)' = Stage(q)
  <2>1. (Published(q)' <=> Published(q)) /\ (WasGreen(q)' <=> WasGreen(q))
    BY DEF Published, WasGreen
  <2> QED  BY <2>1, StageIs
<1>2. [q \in PatchSets |-> Stage(q)'] = [q \in PatchSets |-> Stage(q)]  BY <1>1
<1> QED  BY <1>2 DEF Reviewed!vars

\* A status written to a set leaves the outcome of its validation.
LEMMA OkStays ==
  ASSUME PatchTypes, NEW p, NEW s, sets' = [sets EXCEPT ![p].status = s]
  PROVE  \A q \in PatchSets : sets'[q].ok = sets[q].ok
<1> TAKE q \in PatchSets
<1>1. sets[q] \in SetRow  BY DEF PatchTypes
<1>2. CASE p = q  BY <1>1, <1>2 DEF PatchTypes, SetRow
<1>3. CASE p # q  BY <1>3 DEF PatchTypes
<1> QED  BY <1>2, <1>3

LEMMA SessionStepMaps == ASSUME Inv, SessionStep PROVE [Reviewed!Next]_(Reviewed!vars)
<1>1. UNCHANGED <<patchVars, opened>>
  BY DEF SessionStep, Propose, RunReads, RunWrites, SetApproval, Decide, githubVars
<1>2. UNCHANGED <<sets, jobVars, greenInline, opened>>  BY <1>1 DEF patchVars
<1>3. agreed \in BOOLEAN  BY DEF Inv, Types
<1>4. agreed' = agreed \/ \E s : agreed' = (agreed \/ Agreed(s))
  BY Zenon DEF SessionStep, Propose, RunReads, RunWrites, SetApproval, Decide, WriteSession
<1>5. agreed' = agreed \/ agreed' = TRUE  BY <1>3, <1>4, Zenon DEF Agreed
<1>6. CASE agreed' = agreed  BY <1>2, <1>6, NoneMoves
<1>7. CASE agreed' = TRUE
  <2>1. ASSUME NEW q \in PatchSets PROVE Stage(q)' = Stage(q)
    BY <1>2, StageIs DEF Published, WasGreen
  <2>2. [q \in PatchSets |-> Stage(q)'] = [q \in PatchSets |-> Stage(q)]  BY <2>1
  <2> QED  BY <1>7, <2>2 DEF Reviewed!Next, Reviewed!Agree
<1> QED  BY <1>5, <1>6, <1>7

\* A new patch set was not there, or not found valid.
LEMMA CreateMaps ==
  ASSUME Inv, NEW p \in PatchSets, NEW a \in 0 .. MaxArtifacts, NEW ok \in BOOLEAN,
         CreatePatchSet(p, a, ok), UNCHANGED <<sessionVars, jobVars, greenInline, opened>>
  PROVE  [Reviewed!Next]_(Reviewed!vars)
<1>1. /\ sets[p].status = "none" /\ sets'[p].ok = ok
      /\ \A q \in PatchSets \ {p} : sets'[q] = sets[q]
  BY SetCreated DEF Inv, Types
<1>2. ~ sets[p].ok  BY <1>1 DEF Inv, SetsOK
<1>3. ~ WasGreen(p) /\ ~ Published(p)  BY <1>2, TestedIsOk
<1>4. \A q \in PatchSets : (WasGreen(q)' <=> WasGreen(q)) /\ (Published(q)' <=> Published(q))
  BY DEF WasGreen, Published
<1>5. ASSUME NEW q \in PatchSets \ {p} PROVE Stage(q)' = Stage(q)
  BY <1>1, <1>4, StageIs
<1>6. Stage(p) = "absent" /\ Stage(p)' = IF ok THEN "validated" ELSE "absent"
  BY <1>1, <1>2, <1>3, <1>4, StageIs
<1>7. agreed' = agreed  BY DEF sessionVars
<1> QED  BY <1>5, <1>6, <1>7, OneMoves

\* A set may become tested only after it was found valid.
LEMMA TestMaps ==
  ASSUME Inv, NEW p \in PatchSets, sets[p].ok, UNCHANGED <<sessionVars, sets, opened>>,
         WasGreen(p) => WasGreen(p)',
         \A q \in PatchSets \ {p} : WasGreen(q)' <=> WasGreen(q)
  PROVE  [Reviewed!Next]_(Reviewed!vars)
<1>1. \A q \in PatchSets : Published(q)' <=> Published(q)  BY DEF Published
<1>2. ASSUME NEW q \in PatchSets \ {p} PROVE Stage(q)' = Stage(q)  BY <1>1, StageIs
<1>3. Stage(p)' = Stage(p) \/ (Stage(p) = "validated" /\ Stage(p)' = "tested")
  BY <1>1, StageIs
<1>4. agreed' = agreed  BY DEF sessionVars
<1> QED  BY <1>2, <1>3, <1>4, OneMoves

LEMMA PatchStepMaps == ASSUME Inv, PatchStep PROVE [Reviewed!Next]_(Reviewed!vars)
<1>1. /\ PatchTypes /\ SetsOK /\ JobsOK /\ latest \in 0 .. MaxArtifacts /\ base \in Trees
  BY DEF Inv, Types, SessionTypes, GithubTypes
<1>2. UNCHANGED <<sessionVars, githubVars>>
  BY DEF PatchStep, ValidateReads, ValidateStores, ValidateDies, ValidateAdds, JobStep
<1>3. agreed' = agreed /\ opened' = opened  BY <1>2 DEF sessionVars, githubVars
<1>4. CASE ValidateReads \/ ValidateDies
  <2>1. UNCHANGED <<sets, jobVars, greenInline>>  BY <1>4 DEF ValidateReads, ValidateDies
  <2> QED  BY <1>3, <2>1, NoneMoves
<1>5. CASE ValidateStores
  <2>1. PICK p \in PatchSets, ok \in BOOLEAN : CreatePatchSet(p, validator.artifact, ok)
    BY <1>5 DEF ValidateStores, Valid
  <2>2. PICK a \in 0 .. MaxArtifacts : a = validator.artifact  BY <1>1 DEF PatchTypes
  <2>3. UNCHANGED <<jobVars, greenInline>>  BY <1>5 DEF ValidateStores
  <2> QED  BY <1>2, <1>3, <2>1, <2>2, <2>3, CreateMaps
<1>6. ASSUME NEW f \in Files, ValidateAdds(f) PROVE [Reviewed!Next]_(Reviewed!vars)
  <2>1. PICK h \in {NoHash, HashOf(f)} : AddPatchFile(validator.set, f, h)  BY <1>6 DEF ValidateAdds
  <2>2. h \in Versions \cup {NoHash}  BY <1>1, <2>1 DEF HashOf, Trees, Blobs
  <2>3. UNCHANGED <<jobVars, greenInline>>  BY <1>6 DEF ValidateAdds
  <2>4. \A q \in PatchSets : sets'[q].ok = sets[q].ok  BY <1>1, <2>1, <2>2, FileAdded
  <2> QED  BY <1>3, <2>3, <2>4, NoneMoves
<1>7. CASE JobStep
  <2>1. UNCHANGED <<sets, greenInline>>  BY <1>7 DEF JobStep
  <2>2. greens' = greens \/ \E g \in Greens : sets[g.set].ok /\ greens' = greens \cup {g}
    BY <1>1, <1>7, JobStepFine DEF JobsFine
  <2>3. CASE greens' = greens  BY <1>3, <2>1, <2>3, NoneMoves
  <2>4. ASSUME NEW g \in Greens, sets[g.set].ok, greens' = greens \cup {g}
        PROVE  [Reviewed!Next]_(Reviewed!vars)
    <3>1. g.set \in PatchSets  BY DEF Greens
    <3>2. PICK p \in PatchSets : p = g.set  BY <3>1
    <3>3. /\ WasGreen(p) => WasGreen(p)'
          /\ \A q \in PatchSets \ {p} : WasGreen(q)' <=> WasGreen(q)
      BY <2>1, <2>4, <3>2 DEF WasGreen
    <3> QED  BY <1>2, <1>3, <2>1, <2>4, <3>2, <3>3, TestMaps
  <2> QED  BY <2>2, <2>3, <2>4
<1> QED  BY <1>4, <1>5, <1>6, <1>7 DEF PatchStep

\* Only storing a set and running inline tests move one on among the gates.
LEMMA GateStepMaps ==
  ASSUME Inv, NEW r \in Requests, GateStep(r) PROVE [Reviewed!Next]_(Reviewed!vars)
<1>1. /\ PatchTypes /\ req[r] \in Call /\ CallFine(r, req[r]) /\ agreed \in BOOLEAN
  BY DEF Inv, Types, CallTypes
<1>2. UNCHANGED <<sessionVars, githubVars>>
  BY DEF GateStep, Open, ReadText, ReadSet, Reuse, Store, Stored, StoreFile, DryRun, Recheck, InlineTests,
     SandboxGate, Leave
<1>3. agreed' = agreed /\ opened' = opened  BY <1>2 DEF sessionVars, githubVars
<1>4. CASE \/ Open(r) \/ ReadText(r) \/ ReadSet(r) \/ Reuse(r) \/ Stored(r) \/ DryRun(r)
           \/ SandboxGate(r) \/ Leave(r)
  <2>1. UNCHANGED patchVars
    BY <1>4 DEF Open, ReadText, ReadSet, Reuse, Stored, DryRun, SandboxGate, Leave
  <2>2. UNCHANGED <<sets, jobVars, greenInline>>  BY <2>1 DEF patchVars
  <2> QED  BY <1>3, <2>2, NoneMoves
<1>5. CASE Store(r)
  <2>1. PICK p \in PatchSets : CreatePatchSet(p, req[r].text, MaySubmit(r))  BY <1>5 DEF Store
  <2>2. PICK a \in 0 .. MaxArtifacts : a = req[r].text  BY <1>1 DEF Call
  <2>3. PICK ok \in BOOLEAN : ok = MaySubmit(r)  BY Zenon DEF MaySubmit
  <2>4. UNCHANGED <<jobVars, greenInline>>  BY <1>5 DEF Store
  <2> QED  BY <1>2, <1>3, <2>1, <2>2, <2>3, <2>4, CreateMaps
<1>6. ASSUME NEW f \in Files, StoreFile(r, f) PROVE [Reviewed!Next]_(Reviewed!vars)
  <2>1. UNCHANGED <<jobVars, greenInline>> /\ AddPatchFile(req[r].set, f, NoHash)
    BY <1>6 DEF StoreFile
  <2>2. \A q \in PatchSets : sets'[q].ok = sets[q].ok  BY <1>1, <2>1, FileAdded
  <2> QED  BY <1>3, <2>1, <2>2, NoneMoves
<1>7. CASE UNCHANGED <<jobVars, greenInline>> /\ sets' = [sets EXCEPT ![req[r].set].status = "failed"]
  <2>1. \A q \in PatchSets : sets'[q].ok = sets[q].ok  BY <1>1, <1>7, OkStays
  <2> QED  BY <1>3, <1>7, <2>1, NoneMoves
<1>8. CASE /\ req[r].pc = "live" /\ greenInline' = greenInline \cup {req[r].set}
           /\ UNCHANGED <<sets, jobVars>>
  <2>1. PICK p \in PatchSets : p = req[r].set /\ sets[p].ok
    BY <1>1, <1>8 DEF CallFine, GateFine, Sound
  <2>2. /\ WasGreen(p) => WasGreen(p)'
        /\ \A q \in PatchSets \ {p} : WasGreen(q)' <=> WasGreen(q)
    BY <1>8, <2>1 DEF WasGreen
  <2> QED  BY <1>2, <1>3, <1>8, <2>1, <2>2, TestMaps
<1>9. CASE Recheck(r)  BY <1>7, <1>9 DEF Recheck
<1>10. CASE InlineTests(r)  BY <1>7, <1>8, <1>10 DEF InlineTests
<1> QED  BY <1>4, <1>5, <1>6, <1>9, <1>10 DEF GateStep

\* Of the calls to GitHub, only the last one publishes.
LEMMA GithubStepMaps ==
  ASSUME Inv, NEW r \in Requests, GithubStep(r) PROVE [Reviewed!Next]_(Reviewed!vars)
<1>1. PatchTypes /\ CallFine(r, req[r])  BY DEF Inv, Types
<1>2. UNCHANGED <<sessionVars, jobVars, greenInline>>
  BY DEF GithubStep, ReadBase, Probe, CreateBranch, CopySet, SaveSet, Put, Fetch, OpenPullRequest, Record,
     MarkApplied, Fails, patchVars
<1>3. agreed' = agreed  BY <1>2 DEF sessionVars
<1>4. ASSUME \/ ReadBase(r) \/ Probe(r) \/ CreateBranch(r) \/ CopySet(r) \/ Put(r) \/ Record(r) \/ Fails(r)
             \/ \E f \in Files : Fetch(r, f)
      PROVE  UNCHANGED <<sets, opened>>
  BY <1>4 DEF ReadBase, Probe, CreateBranch, CopySet, Put, Fetch, Record, Fails, patchVars, githubVars
<1>5. ASSUME SaveSet(r) \/ MarkApplied(r)
      PROVE  opened' = opened /\ \A q \in PatchSets : sets'[q].ok = sets[q].ok
  <2>1. opened' = opened  BY <1>5 DEF SaveSet, MarkApplied, githubVars
  <2>2. PICK s : sets' = [sets EXCEPT ![req[r].set].status = s]  BY <1>5 DEF SaveSet, MarkApplied
  <2> QED  BY <1>1, <2>1, <2>2, OkStays
<1>6. CASE OpenPullRequest(r)
  <2>1. agreed /\ WasGreen(req[r].set) /\ req[r].set \in PatchSets /\ sets' = sets
    BY <1>1, <1>6 DEF OpenPullRequest, CallFine, GateFine, Sound, Github, patchVars
  <2>2. PICK p \in PatchSets : p = req[r].set  BY <2>1
  <2>3. PICK o : opened' = opened \cup {o} /\ o.set = p
    <3> DEFINE o == [call |-> r, name |-> req[r].name, set |-> req[r].set,
                     artifact |-> req[r].text, approval |-> req[r].row.approval]
    <3>1. opened' = opened \cup {o} /\ o.set = p  BY <1>6, <2>2 DEF OpenPullRequest
    <3> QED  BY <3>1
  <2>4. Published(p)' /\ \A q \in PatchSets \ {p} : Published(q)' <=> Published(q)
    BY <2>3 DEF Published
  <2>5. WasGreen(p) /\ \A q \in PatchSets : WasGreen(q)' <=> WasGreen(q)
    BY <1>2, <2>1, <2>2 DEF WasGreen
  <2>6. ASSUME NEW q \in PatchSets \ {p} PROVE Stage(q)' = Stage(q)
    BY <2>1, <2>4, <2>5, StageIs
  <2>7. Stage(p) \in {"tested", "published"} /\ Stage(p)' = "published"
    BY <2>4, <2>5, StageIs
  <2> QED  BY <1>3, <2>1, <2>6, <2>7, OneMoves
<1>7. OpenPullRequest(r) \/ (opened' = opened /\ \A q \in PatchSets : sets'[q].ok = sets[q].ok)
  BY <1>4, <1>5 DEF GithubStep
<1> QED  BY <1>2, <1>3, <1>6, <1>7, NoneMoves

LEMMA InitMaps == Init => Reviewed!Init
<1> SUFFICES ASSUME Init PROVE Reviewed!Init  OBVIOUS
<1>1. ASSUME NEW p \in PatchSets PROVE Stage(p) = "absent"
  BY DEF Init, Stage, WasGreen, NoSet, NoJobYet
<1>2. [p \in PatchSets |-> Stage(p)] = [p \in PatchSets |-> "absent"]  BY <1>1
<1> QED  BY <1>2 DEF Init, Reviewed!Init

LEMMA NextMaps == Inv /\ [Next]_vars => [Reviewed!Next]_(Reviewed!vars)
<1> SUFFICES ASSUME Inv, [Next]_vars PROVE [Reviewed!Next]_(Reviewed!vars)  OBVIOUS
<1>1. CASE Commit \/ UNCHANGED vars
  <2>1. UNCHANGED <<sessionVars, patchVars, opened>>  BY <1>1 DEF Commit, vars, githubVars
  <2>2. agreed' = agreed /\ UNCHANGED <<sets, jobVars, greenInline, opened>>
    BY <2>1 DEF sessionVars, patchVars
  <2> QED  BY <2>2, NoneMoves
<1> QED
  BY <1>1, SessionStepMaps, PatchStepMaps, GateStepMaps, GithubStepMaps DEF Next

\* Initial states map to initial states and every step to a step or a stutter: a patch
\* set is opened only after validation, green tests of that set and consent, in this
\* order, whatever happens between the gates of createPullRequestForSession.
THEOREM Implementation == Spec => ImplementsReviewedChange
BY InitMaps, NextMaps, Invariance, PTL DEF Spec, ImplementsReviewedChange, Reviewed!Spec

-----------------------------------------------------------------------------
(* What the sandbox gate can count on.                                     *)

\* A stored set is of some artifact and has files of the patch only; what an
\* execution has applied, and what is green, is some of the files of its set.
SetFits(p) ==
  /\ sets[p].status # "none" => sets[p].artifact # None
  /\ sets[p].stored \subseteq touched
SomeOf(files, p) == files # {} /\ files \subseteq sets[p].stored

\* Without inline tests a job once passed for the set, and in strict mode it had
\* checked the hashes of the files it replaced.
TestedFor(p) ==
  config.inline \/ \E g \in greens : g.set = p /\ (config.strict => g.checked)

SetsFit == \A p \in PatchSets : SetFits(p)
ExecutionFits(w) == execution[w].result.applied => SomeOf(execution[w].result.files, SetOf(w))
JobsFit ==
  /\ \A w \in Workers : ExecutionFits(w)
  /\ \A g \in greens : SomeOf(g.files, g.set)
CallsFit ==
  /\ validator.todo \subseteq touched
  /\ \A r \in Requests : req[r].pc = "storing" => req[r].todo \subseteq touched
  /\ \A r \in Requests : req[r].pc \in Github => TestedFor(req[r].set)
OpenedFit == \A o \in opened : TestedFor(o.set)

GateFit == SetsFit /\ JobsFit /\ CallsFit /\ OpenedFit

LEMMA CreateFits ==
  ASSUME PatchTypes, SetsFit, touched' = touched,
         NEW p \in PatchSets, NEW a \in 0 .. MaxArtifacts, a # None, NEW ok \in BOOLEAN,
         CreatePatchSet(p, a, ok)
  PROVE  SetsFit' /\ \A q \in PatchSets : sets[q].status # "none" => sets'[q] = sets[q]
<1> DEFINE r == [NoSet EXCEPT !.status = IF ok THEN "validated" ELSE "failed", !.ok = ok, !.artifact = a]
<1>1. r.artifact = a /\ r.stored = {}  BY DEF NoSet
<1>2. sets' = [sets EXCEPT ![p] = r] /\ sets[p].status = "none"  BY DEF CreatePatchSet, FreeSets
<1> HIDE DEF r
<1>3. sets'[p] = r /\ \A q \in PatchSets \ {p} : sets'[q] = sets[q]  BY <1>2 DEF PatchTypes
<1> QED  BY <1>1, <1>2, <1>3 DEF SetsFit, SetFits

LEMMA AddFits ==
  ASSUME PatchTypes, SetsFit, touched' = touched,
         NEW p, NEW f \in touched, NEW h, AddPatchFile(p, f, h)
  PROVE  SetsFit' /\ \A q \in PatchSets : sets[q].stored \subseteq sets'[q].stored
<1>1. CASE p \notin PatchSets
  <2>1. sets' = sets  BY <1>1 DEF AddPatchFile, PatchTypes
  <2> QED  BY <2>1 DEF SetsFit, SetFits
<1>2. CASE p \in PatchSets
  <2> DEFINE r == [sets[p] EXCEPT !.stored = sets[p].stored \cup {f}, !.hash[f] = h]
  <2>1. /\ r.stored = sets[p].stored \cup {f}
        /\ r.status = sets[p].status /\ r.artifact = sets[p].artifact
    BY <1>2 DEF PatchTypes, SetRow
  <2>2. sets' = [sets EXCEPT ![p] = r]  BY <1>2 DEF AddPatchFile, PatchTypes
  <2> HIDE DEF r
  <2>3. sets'[p] = r /\ \A q \in PatchSets \ {p} : sets'[q] = sets[q]  BY <1>2, <2>2 DEF PatchTypes
  <2> QED  BY <1>2, <2>1, <2>3 DEF SetsFit, SetFits
<1> QED  BY <1>1, <1>2

LEMMA MarkFits ==
  ASSUME PatchTypes, SetsFit, touched' = touched, NEW p, Sound(p), NEW s,
         sets' = [sets EXCEPT ![p].status = s]
  PROVE  SetsFit' /\ \A q \in PatchSets : sets'[q].stored = sets[q].stored
<1> DEFINE r == [sets[p] EXCEPT !.status = s]
<1>1. p \in PatchSets /\ sets[p].status # "none"  BY DEF Sound
<1>2. r.stored = sets[p].stored /\ r.artifact = sets[p].artifact  BY <1>1 DEF PatchTypes, SetRow
<1>3. sets' = [sets EXCEPT ![p] = r]  BY <1>1 DEF PatchTypes
<1> HIDE DEF r
<1>4. sets'[p] = r /\ \A q \in PatchSets \ {p} : sets'[q] = sets[q]  BY <1>1, <1>3 DEF PatchTypes
<1> QED  BY <1>1, <1>2, <1>4 DEF SetsFit, SetFits

\* The files of a set that is there are never taken away, so what was tested is
\* still among them.
LEMMA JobsFitStay ==
  ASSUME Inv, JobsFit, UNCHANGED jobVars,
         \A q \in PatchSets : sets[q].status # "none" => sets[q].stored \subseteq sets'[q].stored
  PROVE  JobsFit'
<1>1. JobTypes /\ SetsOK /\ JobsOK  BY DEF Inv, Types, PatchTypes
<1>2. ASSUME NEW w \in Workers, execution[w].result.applied PROVE ExecutionFits(w)'
  <2>1. execution[w].pc # "idle" /\ SomeOf(execution[w].result.files, SetOf(w))
    BY <1>1, <1>2 DEF JobsFit, JobsOK, ExecutionFits
  <2>2. SetOf(w) \in PatchSets /\ sets[SetOf(w)].status # "none"
    BY <1>1, <2>1 DEF JobTypes, JobsOK, SetOf
  <2>3. SetOf(w)' = SetOf(w)  BY DEF SetOf
  <2> QED  BY <2>1, <2>2, <2>3 DEF SomeOf, ExecutionFits
<1>3. ASSUME NEW g \in greens' PROVE SomeOf(g.files, g.set)'
  <2>1. g.set \in PatchSets /\ sets[g.set].status # "none" /\ SomeOf(g.files, g.set)
    BY <1>1, <1>3 DEF JobTypes, JobsOK, SetsOK, Greens, JobsFit
  <2> QED  BY <2>1 DEF SomeOf
<1> QED  BY <1>2, <1>3 DEF JobsFit, ExecutionFits

\* A job tests the files its set had when it was applied, and not without any.
LEMMA JobStepFits ==
  ASSUME Inv, SetsFit, JobsFit, JobStep
  PROVE  JobsFit'
<1>1. JobTypes /\ PatchTypes /\ JobsOK /\ sets' = sets  BY DEF Inv, Types, PatchTypes, JobStep
<1>2. \A p : \A F : SomeOf(F, p)' <=> SomeOf(F, p)  BY <1>1 DEF SomeOf
<1>3. JobTypes'
  <2>1. base \in Trees /\ SetsOK  BY DEF Inv, Types, GithubTypes
  <2> QED  BY <1>1, <2>1, JobStepFine DEF JobsFine
<1>4. \A j \in Jobs : jobs[j].status # "none" => jobs'[j].set = jobs[j].set
  <2>1. \A j \in Jobs : \A s : jobs[j].status # "none" /\ Marks(j, s) =>
          \A i \in Jobs : jobs[i].status # "none" => jobs'[i].set = jobs[i].set
    BY <1>1 DEF JobTypes, Marks, JobRow
  <2>2. ASSUME TestReads \/ \E w \in Workers : JobApplies(w) \/ JobLost(w) PROVE jobs' = jobs
    BY <2>2 DEF TestReads, JobApplies, JobLost
  <2>3. ASSUME TestEnqueues
        PROVE  \A i \in Jobs : jobs[i].status # "none" => jobs'[i].set = jobs[i].set
    BY <1>1, <2>3 DEF TestEnqueues, JobTypes
  <2>4. ASSUME NEW w \in Workers, NEW v \in Verdicts, JobEnds(w, v)
        PROVE  \A i \in Jobs : jobs'[i].set = jobs[i].set
    BY <1>1, <2>4 DEF JobEnds, JobTypes, JobRow
  <2>5. ASSUME NEW j \in Jobs, (\E w \in Workers : JobStarts(w, j)) \/ JobGivenUp(j) \/ CancelWrites(j)
        PROVE  jobs[j].status # "none" /\ \E s : Marks(j, s)
    BY <1>1, <2>5 DEF JobStarts, JobGivenUp, CancelWrites, Unfinished, JobTypes
  <2>6. ASSUME NEW j \in Jobs, CancelReads(j) PROVE jobs' = jobs  BY <2>6 DEF CancelReads
  <2> QED  BY <2>1, <2>2, <2>3, <2>4, <2>5, <2>6 DEF JobStep
<1>5. ASSUME NEW w \in Workers, execution'[w] = execution[w] PROVE ExecutionFits(w)'
  <2>1. CASE ~ execution[w].result.applied  BY <1>5, <2>1 DEF ExecutionFits
  <2>2. CASE execution[w].result.applied
    <3>1. execution[w].pc # "idle" /\ SomeOf(execution[w].result.files, SetOf(w))
      BY <1>1, <2>2 DEF JobsFit, JobsOK, ExecutionFits
    <3>2. SetOf(w)' = SetOf(w)  BY <1>1, <1>4, <1>5, <3>1 DEF JobTypes, SetOf
    <3> QED  BY <1>2, <1>5, <3>1, <3>2 DEF ExecutionFits, SomeOf
  <2> QED  BY <2>1, <2>2
<1>6. ASSUME execution' = execution, greens' = greens PROVE JobsFit'
  <2>1. \A w \in Workers : ExecutionFits(w)'  BY <1>5, <1>6
  <2> QED  BY <1>2, <1>6, <2>1 DEF JobsFit
<1>7. ASSUME NEW w \in Workers, NEW x, execution' = [execution EXCEPT ![w] = x], ~ x.result.applied,
             greens' = greens
      PROVE  JobsFit'
  <2>1. execution'[w] = x /\ \A v \in Workers \ {w} : execution'[v] = execution[v]
    BY <1>1, <1>7 DEF JobTypes
  <2>2. ASSUME NEW v \in Workers PROVE ExecutionFits(v)'
    <3>1. CASE v = w  BY <1>7, <2>1, <3>1 DEF ExecutionFits
    <3>2. CASE v # w  BY <1>5, <2>1, <3>2
    <3> QED  BY <3>1, <3>2
  <2> QED  BY <1>2, <1>7, <2>2 DEF JobsFit
<1>8. CASE TestReads  BY <1>6, <1>8 DEF TestReads
<1>9. CASE TestEnqueues  BY <1>6, <1>9 DEF TestEnqueues
<1>10. ASSUME NEW w \in Workers, NEW j \in Jobs, JobStarts(w, j) PROVE JobsFit'
  <2>1. ~ [NoExecution EXCEPT !.pc = "cloned", !.job = j, !.clone = base].result.applied
    BY DEF NoExecution, NoResult
  <2> QED  BY <1>7, <1>10, <2>1 DEF JobStarts
<1>11. ASSUME NEW w \in Workers, JobLost(w) PROVE JobsFit'
  BY <1>7, <1>11, IdleTyped DEF JobLost
<1>12. ASSUME NEW w \in Workers, JobApplies(w) PROVE JobsFit'
  <2> DEFINE s == sets[SetOf(w)]
             applied == /\ s.status \in {"validated", "applied"}
                        /\ s.stored # {}
                        /\ \A f \in s.stored : Fits(w, f)
             checked == \A f \in s.stored : ActionOf[f] # "create" => s.hash[f] # NoHash
             result == IF applied THEN [applied |-> TRUE, checked |-> checked, files |-> s.stored]
                       ELSE NoResult
             x == [NoExecution EXCEPT !.pc = "ending", !.job = execution[w].job, !.result = result]
  <2>1. result.applied => SomeOf(result.files, SetOf(w))  BY IdleTyped DEF SomeOf
  <2>2. execution' = [execution EXCEPT ![w] = x] /\ UNCHANGED <<jobs, greens>>
    BY <1>12 DEF JobApplies
  <2> HIDE DEF result
  <2>3. x.job = execution[w].job /\ x.result = result  BY DEF NoExecution
  <2> HIDE DEF x
  <2>4. execution'[w] = x /\ \A v \in Workers \ {w} : execution'[v] = execution[v]
    BY <1>1, <2>2 DEF JobTypes
  <2>5. SetOf(w)' = SetOf(w)  BY <2>2, <2>3, <2>4 DEF SetOf
  <2>6. ASSUME NEW v \in Workers PROVE ExecutionFits(v)'
    <3>1. CASE v = w  BY <1>1, <2>1, <2>3, <2>4, <2>5, <3>1 DEF ExecutionFits, SomeOf
    <3>2. CASE v # w  BY <1>5, <2>4, <3>2
    <3> QED  BY <3>1, <3>2
  <2> QED  BY <1>2, <2>2, <2>6 DEF JobsFit
<1>13. ASSUME NEW w \in Workers, NEW v \in Verdicts, JobEnds(w, v) PROVE JobsFit'
  <2> DEFINE g == Tested(SetOf(w), execution[w].result)
  <2>1. /\ execution' = [execution EXCEPT ![w] = NoExecution]
        /\ greens' = greens \/ (greens' = greens \cup {g} /\ execution[w].result.applied)
    BY <1>13 DEF JobEnds
  <2>2. /\ execution'[w] = NoExecution /\ ~ NoExecution.result.applied
        /\ \A u \in Workers \ {w} : execution'[u] = execution[u]
    BY <1>1, <2>1, IdleTyped DEF JobTypes
  <2>3. ASSUME NEW u \in Workers PROVE ExecutionFits(u)'
    <3>1. CASE u = w  BY <2>2, <3>1 DEF ExecutionFits
    <3>2. CASE u # w  BY <1>5, <2>2, <3>2
    <3> QED  BY <3>1, <3>2
  <2>4. execution[w].result.applied => SomeOf(g.files, g.set)  BY DEF JobsFit, ExecutionFits, Tested
  <2> HIDE DEF g
  <2>5. \A h \in greens' : SomeOf(h.files, h.set)  BY <2>1, <2>4 DEF JobsFit
  <2> QED  BY <1>2, <2>3, <2>5 DEF JobsFit
<1>14. ASSUME NEW j \in Jobs, JobGivenUp(j) \/ CancelReads(j) \/ CancelWrites(j) PROVE JobsFit'
  BY <1>6, <1>14 DEF JobGivenUp, CancelReads, CancelWrites
<1> QED
  BY <1>8, <1>9, <1>10, <1>11, <1>12, <1>13, <1>14 DEF JobStep

\* The evidence of a set is not lost.
LEMMA TestedForStays ==
  ASSUME config' = config, greens \subseteq greens'
  PROVE  \A p : TestedFor(p) => TestedFor(p)'
BY DEF TestedFor

\* A step that leaves what the gate is about alone.
LEMMA GateFitStays ==
  ASSUME Inv, GateFit, UNCHANGED <<config, touched, sets, jobVars, validator, opened, req>>
  PROVE  GateFit'
<1>1. SetsFit /\ JobsFit /\ CallsFit /\ OpenedFit  BY DEF GateFit
<1>2. SetsFit'  BY <1>1 DEF SetsFit, SetFits
<1>3. JobsFit'  BY <1>1, JobsFitStay
<1>4. CallsFit' /\ OpenedFit'  BY <1>1 DEF CallsFit, OpenedFit, TestedFor
<1> QED  BY <1>2, <1>3, <1>4 DEF GateFit

LEMMA PatchStepFits ==
  ASSUME Inv, GateFit, PatchStep PROVE GateFit'
<1>1. /\ PatchTypes /\ SetsFit /\ JobsFit /\ CallsFit /\ OpenedFit
      /\ latest \in 0 .. MaxArtifacts /\ touched \subseteq Files /\ base \in Trees
      /\ SetsOK /\ JobsOK
  BY FilesTyped DEF GateFit, Inv, Types, SessionTypes, GithubTypes
<1>2. UNCHANGED <<config, touched, latest, greenInline, req, opened>>
  BY DEF PatchStep, ValidateReads, ValidateStores, ValidateDies, ValidateAdds, JobStep, sessionVars,
     githubVars
<1>3. greens \subseteq greens' => OpenedFit'  BY <1>1, <1>2, TestedForStays DEF OpenedFit
<1>4. greens \subseteq greens' /\ validator'.todo \subseteq touched => CallsFit'
  BY <1>1, <1>2, TestedForStays DEF CallsFit
<1>5. sets' = sets => SetsFit'  BY <1>1, <1>2 DEF SetsFit, SetFits
<1>6. CASE ValidateReads \/ ValidateDies
  <2>1. validator'.todo = {} /\ UNCHANGED <<sets, jobVars>>
    BY <1>1, <1>6 DEF ValidateReads, ValidateDies, NoRequest
  <2>2. JobsFit'  BY <1>1, <2>1, JobsFitStay
  <2> QED  BY <1>3, <1>4, <1>5, <2>1, <2>2 DEF GateFit
<1>7. CASE ValidateStores
  <2>1. PICK p \in PatchSets, ok \in BOOLEAN : CreatePatchSet(p, validator.artifact, ok)
    BY <1>7 DEF ValidateStores, Valid
  <2>2. validator.artifact \in 0 .. MaxArtifacts /\ validator.artifact # None /\ UNCHANGED jobVars
        /\ validator'.todo = touched
    BY <1>1, <1>7 DEF ValidateStores, PatchTypes
  <2>3. SetsFit' /\ \A q \in PatchSets : sets[q].status # "none" => sets'[q] = sets[q]
    BY <1>1, <1>2, <2>1, <2>2, CreateFits
  <2>4. JobsFit'  BY <1>1, <2>2, <2>3, JobsFitStay
  <2> QED  BY <1>3, <1>4, <2>2, <2>3, <2>4 DEF GateFit
<1>8. ASSUME NEW f \in Files, ValidateAdds(f) PROVE GateFit'
  <2>1. PICK h \in {NoHash, HashOf(f)} : AddPatchFile(validator.set, f, h)  BY <1>8 DEF ValidateAdds
  <2>2. f \in touched /\ UNCHANGED jobVars /\ validator'.todo \subseteq touched
    BY <1>1, <1>8 DEF ValidateAdds, CallsFit, NoRequest, PatchTypes
  <2>3. SetsFit' /\ \A q \in PatchSets : sets[q].stored \subseteq sets'[q].stored
    BY <1>1, <1>2, <2>1, <2>2, AddFits
  <2>4. JobsFit'  BY <1>1, <2>2, <2>3, JobsFitStay
  <2> QED  BY <1>3, <1>4, <2>2, <2>3, <2>4 DEF GateFit
<1>9. CASE JobStep
  <2>1. UNCHANGED <<sets, validator>>  BY <1>9 DEF JobStep
  <2>2. greens \subseteq greens'  BY <1>1, <1>9, JobStepFine DEF JobsFine
  <2>3. JobsFit'  BY <1>1, <1>9, JobStepFits
  <2>4. CallsFit'  BY <1>1, <1>4, <2>1, <2>2 DEF CallsFit
  <2> QED  BY <1>3, <1>5, <2>1, <2>2, <2>3, <2>4 DEF GateFit
<1> QED  BY <1>6, <1>7, <1>8, <1>9 DEF PatchStep

\* A call that stores files of the patch only, and is past the gates with evidence.
LEMMA CallFits ==
  ASSUME Inv, GateFit, NEW r \in Requests, NEW c, Goes(r, c),
         UNCHANGED <<config, touched, validator, greens>>,
         c.pc = "storing" => c.todo \subseteq touched,
         c.pc \in Github => TestedFor(c.set)
  PROVE  CallsFit'
<1>1. /\ CallsFit /\ req'[r] = c /\ \A q \in Requests \ {r} : req'[q] = req[q]
  BY DEF GateFit, Inv, Types, CallTypes, Goes
<1> QED  BY <1>1, TestedForStays DEF CallsFit

LEMMA EndFits ==
  ASSUME Inv, GateFit, NEW r \in Requests, Ends(r), UNCHANGED <<config, touched, validator, greens>>
  PROVE  CallsFit'
<1>1. PICK c : c = [NewCall EXCEPT !.pc = "done"]  OBVIOUS
<1>2. c.pc = "done" /\ c.pc \notin Github /\ Goes(r, c)  BY <1>1 DEF Ends, NewCall, Github
<1> QED  BY <1>2, CallFits

\* The gates of a call leave what was tested alone, and the sandbox gate finds it.
LEMMA GateStepFits ==
  ASSUME Inv, GateFit, NEW r \in Requests, GateStep(r) PROVE GateFit'
<1>1. /\ PatchTypes /\ SetsFit /\ JobsFit /\ CallsFit /\ OpenedFit /\ touched \subseteq Files /\ JobsOK
      /\ req[r] \in Call /\ CallFine(r, req[r])
  BY FilesTyped DEF GateFit, Inv, Types, SessionTypes, CallTypes
<1>2. UNCHANGED <<config, touched, jobVars, validator, opened>>
  BY DEF GateStep, Open, ReadText, ReadSet, Reuse, Store, Stored, StoreFile, DryRun, Recheck, InlineTests,
     SandboxGate, Leave, sessionVars, patchVars, githubVars
<1>3. OpenedFit'  BY <1>1, <1>2, TestedForStays DEF OpenedFit
<1>4. sets' = sets => SetsFit' /\ JobsFit'  BY <1>1, <1>2, JobsFitStay DEF SetsFit, SetFits
<1>5. \A pc : At(r, pc).pc = pc /\ At(r, pc).set = req[r].set  BY <1>1 DEF At, Call
<1>6. CASE Open(r) \/ ReadText(r) \/ ReadSet(r)
  <2>1. PICK c : Goes(r, c) /\ c.pc = "reading"
    <3>1. CASE Open(r)
      <4>1. [At(r, "reading") EXCEPT !.row = session].pc = "reading"  BY <1>1 DEF At, Call
      <4> QED  BY <3>1, <4>1 DEF Open, Goes
    <3>2. CASE ReadText(r)
      <4>1. [req[r] EXCEPT !.unread = @ \ {"text"}, !.text = latest].pc = req[r].pc  BY <1>1 DEF Call
      <4> QED  BY <3>2, <4>1 DEF ReadText, Goes
    <3>3. CASE ReadSet(r)
      <4>1. [req[r] EXCEPT !.unread = @ \ {"set"}, !.set = LatestValidated].pc = req[r].pc
        BY <1>1 DEF Call
      <4> QED  BY <3>3, <4>1 DEF ReadSet, Goes
    <3> QED  BY <1>6, <3>1, <3>2, <3>3
  <2>2. sets' = sets  BY <1>6 DEF Open, ReadText, ReadSet, patchVars
  <2>3. c.pc \notin Github  BY <2>1 DEF Github
  <2>4. CallsFit'  BY <1>2, <2>1, <2>3, CallFits
  <2> QED  BY <1>3, <1>4, <2>2, <2>4 DEF GateFit
<1>7. CASE Reuse(r) \/ Stored(r) \/ DryRun(r) \/ Leave(r)
  <2>1. Ends(r) \/ \E pc \in {"dry", "live"} : Goes(r, At(r, pc))
    BY <1>7 DEF Reuse, Stored, DryRun, Leave, Gate
  <2>2. \A pc \in {"dry", "live"} : pc \notin Github  BY DEF Github
  <2>3. CallsFit'  BY <1>2, <1>5, <2>1, <2>2, CallFits, EndFits
  <2>4. sets' = sets  BY <1>7 DEF Reuse, Stored, DryRun, Leave, patchVars
  <2> QED  BY <1>3, <1>4, <2>3, <2>4 DEF GateFit
<1>8. CASE SandboxGate(r)
  <2>1. Ends(r) \/ (Goes(r, At(r, "cut")) /\ \E j \in Jobs : Proves(j, req[r].set))
    BY <1>8 DEF SandboxGate
  <2>2. ASSUME NEW j \in Jobs, Proves(j, req[r].set) PROVE TestedFor(req[r].set)
    <3> DEFINE g == Tested(jobs[j].set, jobs[j].result)
    <3>1. g \in greens /\ jobs[j].set = req[r].set /\ (config.strict => jobs[j].result.checked)
      BY <1>1, <2>2 DEF Proves, Green, JobsOK
    <3>2. g.set = jobs[j].set /\ g.checked = jobs[j].result.checked  BY DEF Tested
    <3> HIDE DEF g
    <3> QED  BY <3>1, <3>2 DEF TestedFor
  <2>3. CallsFit'  BY <1>2, <1>5, <2>1, <2>2, CallFits, EndFits
  <2>4. sets' = sets  BY <1>8 DEF SandboxGate, patchVars
  <2> QED  BY <1>3, <1>4, <2>3, <2>4 DEF GateFit
<1>9. CASE Store(r)
  <2>1. PICK p \in PatchSets :
          /\ CreatePatchSet(p, req[r].text, MaySubmit(r))
          /\ Goes(r, [At(r, "storing") EXCEPT !.set = p, !.todo = touched])
    BY <1>9 DEF Store
  <2>2. req[r].text \in 0 .. MaxArtifacts /\ req[r].text # None /\ MaySubmit(r) \in BOOLEAN
    BY <1>1, <1>9 DEF Store, Call, MaySubmit, Valid
  <2>3. SetsFit' /\ \A q \in PatchSets : sets[q].status # "none" => sets'[q] = sets[q]
    BY <1>1, <1>2, <2>1, <2>2, CreateFits
  <2>4. JobsFit'  BY <1>1, <1>2, <2>3, JobsFitStay
  <2>5. PICK c : c = [At(r, "storing") EXCEPT !.set = p, !.todo = touched]  OBVIOUS
  <2>6. Goes(r, c) /\ c.pc = "storing" /\ c.pc \notin Github /\ c.todo \subseteq touched
    BY <1>1, <2>1, <2>5 DEF At, Call, Github
  <2>7. CallsFit'  BY <1>2, <2>6, CallFits
  <2> QED  BY <1>3, <2>3, <2>4, <2>7 DEF GateFit
<1>10. ASSUME NEW f \in Files, StoreFile(r, f) PROVE GateFit'
  <2>1. f \in touched /\ AddPatchFile(req[r].set, f, NoHash)
    BY <1>1, <1>10 DEF StoreFile, CallsFit
  <2>2. SetsFit' /\ \A q \in PatchSets : sets[q].stored \subseteq sets'[q].stored
    BY <1>1, <1>2, <2>1, AddFits
  <2>3. JobsFit'  BY <1>1, <1>2, <2>2, JobsFitStay
  <2>4. PICK c : c = [req[r] EXCEPT !.todo = @ \ {f}]  OBVIOUS
  <2>5. Goes(r, c) /\ c.pc = "storing" /\ c.pc \notin Github /\ c.todo \subseteq touched
    BY <1>1, <1>10, <2>4 DEF StoreFile, CallsFit, Call, Github
  <2>6. CallsFit'  BY <1>2, <2>5, CallFits
  <2> QED  BY <1>3, <2>2, <2>3, <2>6 DEF GateFit
<1>11. CASE Recheck(r) \/ InlineTests(r)
  <2>1. Sound(req[r].set)
    BY <1>1, <1>11 DEF Recheck, InlineTests, CallFine, GateFine
  <2>2. Ends(r) \/ (Goes(r, At(r, "cut")) /\ config.inline)  BY <1>11 DEF Recheck, InlineTests
  <2>3. config.inline => TestedFor(req[r].set)  BY DEF TestedFor
  <2>4. CallsFit'  BY <1>2, <1>5, <2>2, <2>3, CallFits, EndFits
  <2>5. sets' = sets \/ sets' = [sets EXCEPT ![req[r].set].status = "failed"]
    BY <1>11 DEF Recheck, InlineTests
  <2>6. SetsFit' /\ \A q \in PatchSets : sets'[q].stored = sets[q].stored
    BY <1>1, <1>2, <1>4, <2>1, <2>5, MarkFits
  <2>7. JobsFit'  BY <1>1, <1>2, <2>6, JobsFitStay
  <2> QED  BY <1>3, <2>4, <2>6, <2>7 DEF GateFit
<1> QED  BY <1>6, <1>7, <1>8, <1>9, <1>10, <1>11 DEF GateStep

LEMMA GithubStepFits ==
  ASSUME Inv, GateFit, NEW r \in Requests, GithubStep(r) PROVE GateFit'
<1>1. /\ PatchTypes /\ SetsFit /\ JobsFit /\ CallsFit /\ OpenedFit /\ req[r] \in Call /\ CallFine(r, req[r])
  BY DEF GateFit, Inv, Types, CallTypes
<1>2. UNCHANGED <<config, touched, jobVars, validator>> /\ req[r].pc \in Github
  BY DEF GithubStep, ReadBase, Probe, CreateBranch, CopySet, SaveSet, Put, Fetch, OpenPullRequest, Record,
     MarkApplied, Fails, sessionVars, patchVars, Github
<1>3. Sound(req[r].set) /\ TestedFor(req[r].set)  BY <1>1, <1>2 DEF CallFine, GateFine, CallsFit
<1>4. sets' = sets \/ \E s : sets' = [sets EXCEPT ![req[r].set].status = s]
  BY DEF GithubStep, ReadBase, Probe, CreateBranch, CopySet, SaveSet, Put, Fetch, OpenPullRequest, Record,
     MarkApplied, Fails, patchVars
<1>5. SetsFit' /\ \A q \in PatchSets : sets'[q].stored = sets[q].stored
  <2>1. sets' = sets => SetsFit'  BY <1>1, <1>2 DEF SetsFit, SetFits
  <2> QED  BY <1>1, <1>2, <1>3, <1>4, <2>1, MarkFits
<1>6. JobsFit'  BY <1>1, <1>2, <1>5, JobsFitStay
<1>7. OpenedFit'
  <2>1. opened' = opened \/ \E o : o.set = req[r].set /\ opened' = opened \cup {o}
    <3>1. CASE OpenPullRequest(r)
      <4>1. PICK o : o = [call |-> r, name |-> req[r].name, set |-> req[r].set,
                          artifact |-> req[r].text, approval |-> req[r].row.approval]
        OBVIOUS
      <4>2. opened' = opened \cup {o} /\ o.set = req[r].set  BY <3>1, <4>1 DEF OpenPullRequest
      <4> QED  BY <4>2
    <3> QED
      BY <3>1 DEF GithubStep, ReadBase, Probe, CreateBranch, CopySet, SaveSet, Put, Fetch, Record,
         MarkApplied, Fails, githubVars
  <2> QED  BY <1>1, <1>2, <1>3, <2>1, TestedForStays DEF OpenedFit
<1>8. Ends(r) \/ \E c : Goes(r, c) /\ c.pc # "storing" /\ c.set = req[r].set
  <2>1. CASE MarkApplied(r) \/ Fails(r)  BY <2>1 DEF MarkApplied, Fails
  <2>2. \A pc : At(r, pc).pc = pc /\ At(r, pc).set = req[r].set  BY <1>1 DEF At, Call
  <2>3. CASE ReadBase(r)
    <3>1. PICK t \in Stamps : Goes(r, [At(r, "probe") EXCEPT !.cut = base, !.name = <<t, 1>>])
      BY <2>3 DEF ReadBase
    <3>2. PICK c : c = [At(r, "probe") EXCEPT !.cut = base, !.name = <<t, 1>>]  OBVIOUS
    <3>3. c.pc = "probe" /\ c.set = req[r].set  BY <1>1, <3>2 DEF At, Call
    <3> QED  BY <3>1, <3>2, <3>3
  <2>4. CASE Probe(r)
    <3>1. req[r].pc = "probe"  BY <2>4 DEF Probe
    <3>2. PICK c : c = [req[r] EXCEPT !.name = <<req[r].name[1], req[r].name[2] + 1>>]  OBVIOUS
    <3>3. c.pc = "probe" /\ c.set = req[r].set  BY <1>1, <3>1, <3>2 DEF Call
    <3>4. Goes(r, c) \/ \E pc \in {"branch", "error"} : Goes(r, At(r, pc))  BY <2>4, <3>2 DEF Probe
    <3> QED  BY <2>2, <3>3, <3>4
  <2>5. CASE CreateBranch(r)
    <3>1. PICK c : c = [At(r, "copy") EXCEPT !.todo = touched, !.cut = NewCall.cut]  OBVIOUS
    <3>2. c.pc = "copy" /\ c.set = req[r].set  BY <1>1, <3>1 DEF At, Call
    <3>3. Goes(r, c) \/ Goes(r, At(r, "error"))  BY <2>5, <3>1 DEF CreateBranch
    <3> QED  BY <2>2, <3>2, <3>3
  <2>6. CASE CopySet(r) \/ SaveSet(r)
    <3>1. PICK c : c = [At(r, "save") EXCEPT !.copied = sets[req[r].set].status]  OBVIOUS
    <3>2. PICK d : d = [At(r, "fetch") EXCEPT !.copied = "none"]  OBVIOUS
    <3>3. c.pc = "save" /\ c.set = req[r].set /\ d.pc = "fetch" /\ d.set = req[r].set
      BY <1>1, <3>1, <3>2 DEF At, Call
    <3>4. Goes(r, c) \/ Goes(r, d)  BY <2>6, <3>1, <3>2 DEF CopySet, SaveSet
    <3> QED  BY <3>3, <3>4
  <2>7. ASSUME NEW f \in Files, Fetch(r, f)
        PROVE  \E c : Goes(r, c) /\ c.pc # "storing" /\ c.set = req[r].set
    <3>1. PICK c : c = [At(r, "put") EXCEPT !.file = f, !.seen = base[f]]  OBVIOUS
    <3>2. c.pc = "put" /\ c.set = req[r].set  BY <1>1, <3>1 DEF At, Call
    <3>3. Goes(r, c) \/ Goes(r, At(r, "error"))  BY <2>7, <3>1 DEF Fetch
    <3> QED  BY <2>2, <3>2, <3>3
  <2>8. CASE Put(r)
    <3> DEFINE pc == IF req[r].todo = {req[r].file} THEN "open" ELSE "fetch"
               c  == [At(r, pc) EXCEPT !.todo = @ \ {req[r].file}, !.seen = Absent]
    <3>1. c.pc # "storing" /\ c.set = req[r].set  BY <1>1 DEF At, Call
    <3>2. Goes(r, c) \/ Goes(r, At(r, "error"))  BY <2>8 DEF Put
    <3> HIDE DEF c
    <3> QED  BY <2>2, <3>1, <3>2 DEF Goes
  <2>9. CASE OpenPullRequest(r) \/ Record(r)  BY <2>2, <2>9 DEF OpenPullRequest, Record
  <2> QED  BY <2>1, <2>3, <2>4, <2>5, <2>6, <2>7, <2>8, <2>9 DEF GithubStep
<1>9. CallsFit'  BY <1>2, <1>3, <1>8, CallFits, EndFits
<1> QED  BY <1>5, <1>6, <1>7, <1>9 DEF GateFit

LEMMA GateFitInit == Init => GateFit
<1> SUFFICES ASSUME Init PROVE GateFit  OBVIOUS
<1>1. SetsFit  BY DEF Init, SetsFit, SetFits, NoSet
<1>2. JobsFit  BY IdleTyped DEF Init, JobsFit, ExecutionFits
<1>3. CallsFit /\ OpenedFit  BY DEF Init, CallsFit, OpenedFit, NoRequest, NewCall, Github
<1> QED  BY <1>1, <1>2, <1>3 DEF GateFit

LEMMA GateFitNext == Inv /\ GateFit /\ [Next]_vars => GateFit'
<1> SUFFICES ASSUME Inv, GateFit, [Next]_vars PROVE GateFit'  OBVIOUS
<1>1. CASE SessionStep \/ Commit \/ UNCHANGED vars
  BY <1>1, GateFitStays DEF SessionStep, Propose, RunReads, RunWrites, SetApproval, Decide, Commit, vars,
     sessionVars, patchVars, githubVars
<1> QED  BY <1>1, PatchStepFits, GateStepFits, GithubStepFits DEF Next

\* What is true of src/README.md:756, "blocked until a sandbox job has passed for the
\* exact patch": behind every pull request without inline tests a job once passed for
\* its patch set; it had applied some of the files stored for that set, files of the
\* patch all of them, and in strict mode found a hash of each it replaced.  That the
\* set is of the published artifact, or that all its files were tested, is not: that
\* is what run PullUntested refutes.
GateMeansTested ==
  \A o \in opened : config.inline \/
    \E g \in greens : /\ g.set = o.set
                      /\ g.files # {} /\ g.files \subseteq sets[o.set].stored
                      /\ sets[o.set].stored \subseteq touched
                      /\ config.strict => g.checked

\* No call gets past the sandbox gate on the word of another set's job, of a
\* job that applied nothing, or of one that a late writer has since replaced and that
\* never passed; the evidence stays however validations, cancels and late verdicts go.
THEOREM GateEvidence == Spec => []GateMeansTested
<1>1. ASSUME Inv, GateFit PROVE GateMeansTested
  <2> SUFFICES ASSUME NEW o \in opened, ~ config.inline
               PROVE  \E g \in greens : /\ g.set = o.set
                                        /\ g.files # {} /\ g.files \subseteq sets[o.set].stored
                                        /\ sets[o.set].stored \subseteq touched
                                        /\ config.strict => g.checked
    BY DEF GateMeansTested
  <2>1. o.set \in PatchSets  BY <1>1 DEF Inv, Types, GithubTypes, PullRequest
  <2>2. PICK g \in greens : g.set = o.set /\ (config.strict => g.checked)
    BY <1>1 DEF GateFit, OpenedFit, TestedFor
  <2> QED  BY <1>1, <2>1, <2>2 DEF GateFit, JobsFit, SomeOf, SetsFit, SetFits
<1> QED  BY <1>1, GateFitInit, GateFitNext, Invariance, PTL DEF Spec

=============================================================================
