--------------------------- MODULE Console_proofs ---------------------------
(***************************************************************************)
(* Proofs about Console for any sessions, sets, jobs, rounds, clicks and   *)
(* calls in flight.  An answer is taken from the rows of one moment and    *)
(* shown at another, so the invariant is about what stays true of an old   *)
(* copy of a row: it names its row, and if it says passed, the row did.    *)
(***************************************************************************)
EXTENDS Console, TLAPS, NaturalsInduction, WellFoundedInduction

MaybeSession == Sessions \cup {NoSession}
DetailRows == [session : MaybeSession, running : BOOLEAN]
SetNames == [session : MaybeSession, set : 0 .. MaxSets]
SetRows == [made : 0 .. MaxSets, validated : SUBSET (1 .. MaxSets)]
Bodies == [detail : DetailRows, run : RunRows, job : JobRows, latest : SetNames]

\* What a call is about.
OfRun == {"poll", "resume", "cancel_run"}
OfJob == {"job", "cancel_job"}
OfSession == {"open", "refresh", "decide", "gh", "validate", "test", "create_pr"}
Kinds == {"me", "run", "health"} \cup OfRun \cup OfJob \cup OfSession

CallRows ==
  [kind : Kinds, session : MaybeSession, job : 0 .. MaxJobs,
   auth : BOOLEAN, answered : BOOLEAN, body : Bodies]

\* A row that exists is that of its own id; what says passed was passed.
ServerOK ==
  /\ sets \in [Sessions -> SetRows] /\ jobs \in [Ids -> JobRows] /\ run \in RunRows
  /\ \A j \in Ids : jobs[j] # NoJob => jobs[j].id = j
  /\ green \subseteq Ids /\ \A j \in Ids : jobs[j].status = "passed" => j \in green

\* A copy of a job's row, however old.
Seen(j) ==
  j # NoJob =>
    /\ j.id \in Ids /\ jobs[j.id].id = j.id
    /\ jobs[j.id].session = j.session /\ jobs[j.id].set = j.set
    /\ j.status = "passed" => j.id \in green

\* What is shown of a session is a session, or nothing.
DetailOK(d) == d \in DetailRows /\ (d = NoDetail \/ d.session \in Sessions)

\* A call about a job, or about a session, names one; a created job is in the answer.
CallOK(c) ==
  /\ c \in CallRows
  /\ c.kind \in OfJob => c.job \in Ids
  /\ c.kind \in OfSession => c.session \in Sessions
  /\ c.kind = "test" /\ c.answered => c.body.job.id \in Ids
  /\ DetailOK(c.body.detail) /\ Seen(c.body.job)

CallsOK == \A c \in calls : CallOK(c)

SessionOK ==
  /\ {key, me} \subseteq BOOLEAN /\ health \in {"null", "open", "gated"}
  /\ DetailOK(detail) /\ latest \in SetNames

RunPageOK ==
  /\ asyncRun \in RunRows /\ {autoResumed, runTimer, quietRun} \subseteq BOOLEAN
  /\ runTimer => RunActive(asyncRun)

JobPageOK ==
  /\ jobView \in JobRows /\ {jobTimer, quietJob} \subseteq BOOLEAN /\ Seen(jobView)
  /\ jobTimer => JobActive(jobView)

\* The parts of KeepsPolling.
PollsRun == RunActive(asyncRun) => runTimer \/ quietRun \/ \E c \in calls : ReadsRun(c)
PollsJob == JobActive(jobView) => jobTimer \/ quietJob \/ \E c \in calls : ReadsJob(c)

Inv ==
  /\ ServerOK /\ CallsOK /\ SessionOK
  /\ RunPageOK /\ PollsRun
  /\ JobPageOK /\ PollsJob

-----------------------------------------------------------------------------
(* Rows and calls.                                                         *)

LEMMA Sizes ==
  /\ MaxSets \in Nat /\ MaxJobs \in Nat /\ MaxRounds \in Nat /\ 1 <= MaxRounds
  /\ Ids \subseteq 0 .. MaxJobs /\ 0 \notin Ids
  BY ConsoleAssumption DEF Ids

LEMMA NothingTyped ==
  /\ NoJob \in JobRows /\ NoRun \in RunRows /\ NoSet \in SetNames /\ NoDetail \in DetailRows
  /\ Nothing \in Bodies
  BY Sizes
  DEF NoJob, NoRun, NoSet, NoDetail, Nothing, Bodies, JobRows, RunRows, SetNames, DetailRows,
      JobStatuses, RunStatuses, MaybeSession

LEMMA NothingSeen == Seen(NoJob) /\ DetailOK(NoDetail)
  BY NothingTyped DEF Seen, DetailOK

\* A call that is being made.
LEMMA CallMade ==
  ASSUME NEW auth \in BOOLEAN, NEW kind \in Kinds, NEW s \in MaybeSession, NEW j \in 0 .. MaxJobs,
         kind \in OfJob => j \in Ids, kind \in OfSession => s \in Sessions
  PROVE  CallOK(CallWith(auth, kind, s, j))
<1> DEFINE c == CallWith(auth, kind, s, j)
<1>1. /\ c \in CallRows /\ c.kind = kind /\ c.session = s /\ c.job = j /\ ~ c.answered
      /\ c.body = Nothing
  BY NothingTyped DEF CallWith, CallRows
<1>2. c.body.detail = NoDetail /\ c.body.job = NoJob
  BY <1>1 DEF Nothing
<1> QED  BY <1>1, <1>2, NothingSeen DEF CallOK

\* What no step takes back from the rows of jobs.
Kept ==
  /\ green \subseteq green'
  /\ \A j \in Ids : jobs[j] # NoJob =>
       jobs'[j].id = jobs[j].id /\ jobs'[j].session = jobs[j].session /\ jobs'[j].set = jobs[j].set

LEMMA StaysSeen == ASSUME ServerOK, Kept, NEW j, Seen(j) PROVE Seen(j)'
<1>1. CASE j = NoJob  BY <1>1 DEF Seen
<1>2. CASE j # NoJob
  <2>1. j.id \in Ids /\ jobs[j.id] # NoJob
    BY <1>2, Sizes DEF Seen, NoJob
  <2> QED  BY <1>2, <2>1 DEF Seen, Kept
<1> QED  BY <1>1, <1>2

LEMMA StaysOK == ASSUME ServerOK, Kept, NEW c, CallOK(c) PROVE CallOK(c)'
  BY StaysSeen DEF CallOK, CallRows, Bodies, DetailOK

LEMMA Replaced ==
  ASSUME Inv, Kept, NEW old, NEW new, \A c \in new : CallOK(c)', Replace(old, new)
  PROVE  CallsOK'
  BY StaysOK DEF Inv, CallsOK, Replace

-----------------------------------------------------------------------------
(* Setting state.                                                          *)

LEMMA RunSet ==
  ASSUME NEW auth \in BOOLEAN, NEW r \in RunRows, NEW resumed \in BOOLEAN, NEW old, NEW new,
         setAsyncRunWith(auth, r, resumed, old, new)
  PROVE  /\ RunPageOK' /\ PollsRun'
         /\ calls' \subseteq (calls \ old) \cup new \cup {CallWith(auth, "resume", NoSession, 0)}
<1> DEFINE resuming == RunActive(r) /\ AutoResumes(r, resumed)
           resume == CallWith(auth, "resume", NoSession, 0)
<1>1. /\ asyncRun' = r /\ autoResumed' = (resumed \/ resuming)
      /\ runTimer' = (RunActive(r) /\ ~ resuming) /\ quietRun' = FALSE
      /\ Replace(old, new \cup (IF resuming THEN {resume} ELSE {}))
  BY DEF setAsyncRunWith, Arms
<1>2. RunPageOK'
  BY <1>1 DEF RunPageOK, RunActive
<1>3. PollsRun'
  <2>1. CASE resuming
    <3>1. resume \in calls' /\ ReadsRun(resume)
      BY <1>1, <2>1 DEF Replace, CallWith, ReadsRun
    <3> QED  BY <3>1 DEF PollsRun
  <2>2. CASE ~ resuming
    BY <1>1, <2>2 DEF PollsRun, RunActive
  <2> QED  BY <2>1, <2>2
<1>4. calls' \subseteq (calls \ old) \cup new \cup {resume}  BY <1>1 DEF Replace
<1> QED  BY <1>1, <1>2, <1>3, <1>4

LEMMA JobSet ==
  ASSUME NEW j \in JobRows, Seen(j)', setJobView(j)
  PROVE  JobPageOK' /\ PollsJob'
  BY DEF setJobView, JobPageOK, PollsJob, ArmsJob, JobActive, Seen

\* Where the page of a run or of a job is left alone, it is polled as before as
\* long as the call that is taken away leaves another, or a note that it failed.
LEMMA RunLeft ==
  ASSUME Inv, NEW old, NEW new, Replace(old, new), UNCHANGED <<asyncRun, autoResumed, runTimer>>,
         quietRun' \in BOOLEAN, quietRun => quietRun',
         \A c \in old : ReadsRun(c) => quietRun' \/ \E d \in new : ReadsRun(d)
  PROVE  RunPageOK' /\ PollsRun'
  BY DEF Inv, RunPageOK, PollsRun, Replace, RunActive, ReadsRun

LEMMA JobLeft ==
  ASSUME Inv, Kept, NEW old, NEW new, Replace(old, new), UNCHANGED <<jobView, jobTimer>>,
         quietJob' \in BOOLEAN, quietJob => quietJob',
         \A c \in old : ReadsJob(c) => quietJob' \/ \E d \in new : ReadsJob(d)
  PROVE  JobPageOK' /\ PollsJob'
<1>1. Seen(jobView)'  BY StaysSeen DEF Inv, JobPageOK, Seen
<1> QED  BY <1>1 DEF Inv, JobPageOK, PollsJob, Replace, JobActive, ReadsJob

-----------------------------------------------------------------------------
(* The server.                                                             *)

\* The CHOOSE of latestValidated chooses: a set of numbers below a bound has a last one.
LEMMA LastOfSet ==
  ASSUME NEW V \in SUBSET (1 .. MaxSets), V # {}
  PROVE  \E n \in V : \A m \in V : m <= n
<1> DEFINE Below == {MaxSets - n : n \in V}
<1>1. Below \subseteq Nat
  <2>1. \A n \in V : MaxSets - n \in Nat  BY Sizes
  <2> QED  BY <2>1
<1>2. Below # {}  OBVIOUS
<1>3. PICK x \in Below : \A y \in Below : ~ (<<y, x>> \in OpToRel(<, Nat))
  BY <1>1, <1>2, NatLessThanWellFounded, WFMin, Zenon
<1>4. \A y \in Below : ~ (y < x)
  BY <1>1, <1>3 DEF OpToRel
<1>5. PICK n \in V : x = MaxSets - n  OBVIOUS
<1>6. ASSUME NEW m \in V PROVE m <= n
  BY <1>4, <1>5, Sizes
<1> QED  BY <1>6

LEMMA LatestTyped ==
  ASSUME ServerOK, NEW s \in Sessions
  PROVE  latestValidated(s) \in SetNames
<1>1. sets[s].validated \in SUBSET (1 .. MaxSets)
  BY DEF ServerOK, SetRows
<1>2. CASE sets[s].validated = {}
  BY <1>2, NothingTyped DEF latestValidated
<1>3. CASE sets[s].validated # {}
  <2>1. PICK n \in sets[s].validated : \A m \in sets[s].validated : m <= n
    BY <1>1, <1>3, LastOfSet
  <2> DEFINE last == CHOOSE k \in sets[s].validated : \A m \in sets[s].validated : m <= k
  <2>2. last \in sets[s].validated
    BY <2>1
  <2>3. latestValidated(s) = [session |-> s, set |-> last]
    BY <1>3 DEF latestValidated
  <2> HIDE DEF last
  <2>4. last \in 0 .. MaxSets
    BY <1>1, <2>2, Sizes
  <2> QED  BY <2>3, <2>4 DEF SetNames, MaybeSession
<1> QED  BY <1>2, <1>3

\* A verdict is written; the job keeps what it is.
LEMMA JobMoves ==
  ASSUME ServerOK, NEW j \in Ids, jobs[j] # NoJob, NEW st \in TERMINAL_JOB,
         Settle(j, st), UNCHANGED <<sets, run>>
  PROVE  ServerOK' /\ Kept
<1>1. jobs[j] \in JobRows /\ jobs[j].id = j
  BY DEF ServerOK
<1>2. /\ jobs'[j] = [jobs[j] EXCEPT !.status = st]
      /\ \A i \in Ids \ {j} : jobs'[i] = jobs[i]
      /\ jobs' \in [Ids -> JobRows]
  BY <1>1 DEF ServerOK, JobRows, JobStatuses, Settle
<1>3. /\ jobs'[j].id = jobs[j].id /\ jobs'[j].session = jobs[j].session
      /\ jobs'[j].set = jobs[j].set /\ jobs'[j].status = st
  BY <1>1, <1>2 DEF JobRows
<1>4. green \subseteq green' /\ green' \subseteq green \cup {j} /\ (st = "passed" => j \in green')
  BY DEF Settle
<1>5. Kept
  BY <1>2, <1>3, <1>4 DEF Kept
<1>6. ServerOK'
  BY <1>1, <1>2, <1>3, <1>4 DEF ServerOK
<1> QED  BY <1>5, <1>6

LEMMA Unmoved ==
  ASSUME ServerOK, UNCHANGED jobRows
  PROVE  /\ Kept /\ UNCHANGED jobs /\ green' \subseteq Ids
         /\ \A j \in Ids : jobs'[j] # NoJob => jobs'[j].id = j
         /\ \A j \in Ids : jobs'[j].status = "passed" => j \in green'
  BY DEF Kept, ServerOK, jobRows

LEMMA AdvanceOK ==
  ASSUME ServerOK, Advance PROVE run' \in RunRows
<1>1. run \in RunRows /\ run.round \in 0 .. MaxRounds
  BY DEF ServerOK, RunRows
<1>2. CASE \E st \in {"passed", "failed"} : run' = [run EXCEPT !.status = st]
  BY <1>1, <1>2 DEF RunRows, RunStatuses, TERMINAL_ORCH
<1>3. CASE run.round < MaxRounds /\ run' = [run EXCEPT !.round = @ + 1, !.job = "queued"]
  <2>1. run.round + 1 \in 0 .. MaxRounds  BY <1>1, <1>3, Sizes
  <2> QED  BY <1>1, <1>3, <2>1 DEF RunRows, JobStatuses
<1> QED  BY <1>2, <1>3 DEF Advance

LEMMA ServeKeeps ==
  ASSUME Inv, NEW c \in calls, Serve(c) PROVE ServerOK' /\ Kept
<1> USE DEF Inv
<1>1. CallOK(c) /\ c \in CallRows
  BY DEF CallsOK, CallOK
<1>2. CASE Read(c)
  BY <1>2, Unmoved DEF Read, server, ServerOK
<1>3. CASE ServeRun(c)
  <2>1. run' \in RunRows
    BY <1>3, Sizes DEF ServeRun, ServerOK, RunRows, RunStatuses, JobStatuses
  <2> QED  BY <1>3, <2>1, Unmoved DEF ServeRun, ServerOK
<1>4. CASE ServeResume(c)
  <2>1. run' \in RunRows
    BY <1>4, AdvanceOK DEF ServeResume, ServerOK
  <2> QED  BY <1>4, <2>1, Unmoved DEF ServeResume, ServerOK
<1>5. CASE ServeCancelRun(c)
  <2>1. run' \in RunRows
    BY <1>5 DEF ServeCancelRun, ServerOK, RunRows, RunStatuses, TERMINAL_ORCH
  <2> QED  BY <1>5, <2>1, Unmoved DEF ServeCancelRun, ServerOK
<1>6. CASE ServeValidate(c)
  <2>1. c.session \in Sessions
    BY <1>1, <1>6 DEF ServeValidate, CallOK, OfSession
  <2>2. sets' \in [Sessions -> SetRows]
    BY <1>6, <2>1, Sizes DEF ServeValidate, ServerOK, SetRows
  <2> QED  BY <1>6, <2>2, Unmoved DEF ServeValidate, ServerOK
<1>7. CASE ServeCreatePr(c)
  <2>1. c.session \in Sessions
    BY <1>1, <1>7 DEF ServeCreatePr, CallOK, OfSession
  <2>2. sets' \in [Sessions -> SetRows]
    BY <1>7, <2>1 DEF ServeCreatePr, ServerOK, SetRows
  <2> QED  BY <1>7, <2>2, Unmoved DEF ServeCreatePr, ServerOK
<1>8. CASE ServeTest(c)
  <2>1. PICK j \in Ids :
          /\ jobs[j] = NoJob /\ green' = green
          /\ jobs' = [jobs EXCEPT ![j] = [id |-> j, session |-> c.session, status |-> "queued",
                                          set |-> latestValidated(c.session).set]]
    BY <1>8 DEF ServeTest
  <2>2. c.session \in Sessions /\ latestValidated(c.session).set \in 0 .. MaxSets
    BY <1>1, <1>8, LatestTyped DEF ServeTest, CallOK, OfSession, SetNames
  <2> DEFINE row == [id |-> j, session |-> c.session, status |-> "queued",
                     set |-> latestValidated(c.session).set]
  <2>3. row \in JobRows /\ row.id = j /\ row.status = "queued"
    BY <2>2, Sizes DEF JobRows, JobStatuses
  <2> HIDE DEF row
  <2>4. jobs' = [jobs EXCEPT ![j] = row]  BY <2>1 DEF row
  <2>5. ServerOK'
    BY <1>8, <2>1, <2>3, <2>4 DEF ServeTest, ServerOK
  <2>6. Kept
    BY <2>1, <2>4 DEF Kept, ServerOK
  <2> QED  BY <2>5, <2>6
<1>9. CASE ServeCancelJob(c)
  <2>1. c.job \in Ids
    BY <1>1, <1>9 DEF ServeCancelJob, CallOK, OfJob
  <2>2. CASE JobActive(jobs[c.job])
    BY <1>9, <2>1, <2>2, JobMoves DEF ServeCancelJob, TERMINAL_JOB, JobActive, NoJob
  <2>3. CASE ~ JobActive(jobs[c.job])
    BY <1>9, <2>3, Unmoved DEF ServeCancelJob, ServerOK
  <2> QED  BY <2>2, <2>3
<1> QED  BY <1>2, <1>3, <1>4, <1>5, <1>6, <1>7, <1>8, <1>9 DEF Serve

LEMMA WorkerKeeps ==
  ASSUME ServerOK, Worker \/ CronResume \/ \E j \in Ids : ReplaceVerdict(j) PROVE ServerOK' /\ Kept
<1>1. CASE FinishRunJob
  <2>1. run' \in RunRows
    BY <1>1 DEF FinishRunJob, ServerOK, RunRows, JobStatuses, TERMINAL_JOB
  <2> QED  BY <1>1, <2>1, Unmoved DEF FinishRunJob, ServerOK
<1>2. ASSUME NEW j \in Ids, FinishJob(j) PROVE ServerOK' /\ Kept
  BY <1>2, JobMoves DEF FinishJob, TERMINAL_JOB, JobActive, NoJob
<1>3. CASE CronResume
  BY <1>3, AdvanceOK, Unmoved DEF CronResume, ServerOK
<1>4. ASSUME NEW j \in Ids, ReplaceVerdict(j) PROVE ServerOK' /\ Kept
  BY <1>4, JobMoves DEF ReplaceVerdict, TERMINAL_JOB, NoJob
<1> QED  BY <1>1, <1>2, <1>3, <1>4 DEF Worker

-----------------------------------------------------------------------------
(* Steps that leave the page as it is: calls are made, answered, continued.*)

LEMMA ServerLeft == ASSUME ServerOK, UNCHANGED server PROVE ServerOK' /\ Kept
  BY Unmoved DEF ServerOK, server

LEMMA PageLeft ==
  ASSUME Inv, ServerOK', Kept, UNCHANGED page,
         NEW old, NEW new, Replace(old, new), \A d \in new : CallOK(d)',
         \A c \in old : ReadsRun(c) => \E d \in new : ReadsRun(d),
         \A c \in old : ReadsJob(c) => \E d \in new : ReadsJob(d)
  PROVE  Inv'
<1>1. /\ UNCHANGED <<asyncRun, autoResumed, runTimer, quietRun, jobView, jobTimer, quietJob>>
      /\ UNCHANGED <<key, me, health, detail, latest>>
  BY DEF page, identity, runPage, jobPage
<1>2. quietRun' \in BOOLEAN /\ quietJob' \in BOOLEAN
  BY <1>1 DEF Inv, RunPageOK, JobPageOK
<1>3. RunPageOK' /\ PollsRun'
  BY <1>1, <1>2, RunLeft
<1>4. JobPageOK' /\ PollsJob'
  BY <1>1, <1>2, JobLeft
<1>5. CallsOK'
  BY Replaced
<1>6. SessionOK'
  BY <1>1 DEF Inv, SessionOK, DetailOK
<1> QED  BY <1>3, <1>4, <1>5, <1>6 DEF Inv

LEMMA AskKeeps ==
  ASSUME Inv, UNCHANGED server, NEW c, CallOK(c), Ask(c)
  PROVE  Inv'
<1>1. ServerOK' /\ Kept
  BY ServerLeft DEF Inv
<1>2. CallOK(c)'
  BY <1>1, StaysOK DEF Inv
<1>3. Replace({}, {c}) /\ UNCHANGED page
  BY DEF Ask
<1> QED  BY <1>1, <1>2, <1>3, PageLeft

LEMMA PageIsOfASession ==
  ASSUME Inv
  PROVE  /\ key \in BOOLEAN /\ NoSession \in MaybeSession /\ 0 \in 0 .. MaxJobs
         /\ detail # NoDetail => detail.session \in Sessions
         /\ detail.running => detail.session \in Sessions
         /\ JobActive(jobView) => jobView.id \in Ids
         /\ Sessions \subseteq MaybeSession /\ Ids \subseteq 0 .. MaxJobs
  BY Sizes DEF Inv, SessionOK, DetailOK, NoDetail, JobPageOK, Seen, JobActive, NoJob, MaybeSession

LEMMA ClickKeeps ==
  ASSUME Inv,
         \/ StartRun \/ Decide \/ ResumeRun \/ CancelRun \/ ValidatePatch \/ RunSandboxTests
         \/ CancelJob \/ CreatePr \/ RefreshSession \/ \E s \in Sessions : OpenSession(s)
  PROVE  Inv'
<1> USE PageIsOfASession
<1>1. ASSUME NEW kind \in {"run", "resume", "cancel_run"}, UNCHANGED server,
             Ask(Call(kind, NoSession, 0))
      PROVE  Inv'
  <2>1. kind \in Kinds /\ kind \notin OfJob /\ kind \notin OfSession
    BY DEF Kinds, OfRun, OfJob, OfSession
  <2>2. CallOK(Call(kind, NoSession, 0))
    BY <2>1, CallMade DEF Call
  <2> QED  BY <1>1, <2>2, AskKeeps
<1>2. ASSUME NEW kind \in OfSession, NEW s \in Sessions, UNCHANGED server, Ask(Call(kind, s, 0))
      PROVE  Inv'
  <2>1. kind \in Kinds /\ kind \notin OfJob
    BY DEF Kinds, OfJob, OfSession
  <2>2. CallOK(Call(kind, s, 0))
    BY <2>1, CallMade DEF Call
  <2> QED  BY <1>2, <2>2, AskKeeps
<1>3. CASE StartRun \/ ResumeRun \/ CancelRun
  BY <1>1, <1>3 DEF StartRun, ResumeRun, CancelRun, Click
<1>4. CASE Decide \/ ValidatePatch \/ RunSandboxTests \/ CreatePr \/ RefreshSession
  BY <1>2, <1>4 DEF Decide, ValidatePatch, RunSandboxTests, CreatePr, RefreshSession, Click,
     OfSession
<1>5. ASSUME NEW s \in Sessions, OpenSession(s) PROVE Inv'
  BY <1>2, <1>5 DEF OpenSession, Click, OfSession
<1>6. CASE CancelJob
  <2>1. CallOK(Call("cancel_job", NoSession, jobView.id))
    BY <1>6, CallMade DEF CancelJob, Call, Kinds, OfJob, OfSession
  <2> QED  BY <1>6, <2>1, AskKeeps DEF CancelJob, Click
<1> QED  BY <1>3, <1>4, <1>5, <1>6

\* An answer leaves a call of the same kind in flight.
LEMMA Answered ==
  ASSUME Inv, ServerOK', Kept, NEW c \in calls, NEW body \in Bodies, Answer(c, body),
         DetailOK(body.detail), Seen(body.job)', c.kind = "test" => body.job.id \in Ids
  PROVE  Inv'
<1> DEFINE d == [c EXCEPT !.answered = TRUE, !.body = body]
<1>1. CallOK(c)
  BY DEF Inv, CallsOK
<1>2. /\ d \in CallRows /\ d.kind = c.kind /\ d.session = c.session /\ d.job = c.job
      /\ d.body = body
  BY <1>1 DEF CallOK, CallRows
<1>3. CallOK(d)'
  BY <1>1, <1>2 DEF CallOK, CallRows, Bodies, DetailOK
<1>4. Replace({c}, {d}) /\ UNCHANGED page
  BY DEF Answer
<1> HIDE DEF d
<1>5. (ReadsRun(c) => ReadsRun(d)) /\ (ReadsJob(c) => ReadsJob(d))
  BY <1>2 DEF ReadsRun, ReadsJob
<1> QED  BY <1>3, <1>4, <1>5, PageLeft

\* Bodies that carry one thing.
LEMMA BodyTyped ==
  /\ \A d \in DetailRows : LET b == [Nothing EXCEPT !.detail = d] IN
       b \in Bodies /\ b.detail = d /\ b.job = NoJob
  /\ \A r \in RunRows : LET b == [Nothing EXCEPT !.run = r] IN
       b \in Bodies /\ b.detail = NoDetail /\ b.job = NoJob
  /\ \A j \in JobRows : LET b == [Nothing EXCEPT !.job = j] IN
       b \in Bodies /\ b.detail = NoDetail /\ b.job = j
  /\ \A l \in SetNames : LET b == [Nothing EXCEPT !.latest = l] IN
       b \in Bodies /\ b.detail = NoDetail /\ b.job = NoJob
  /\ Nothing \in Bodies /\ Nothing.detail = NoDetail /\ Nothing.job = NoJob
  BY NothingTyped DEF Bodies, Nothing

LEMMA ServeStep ==
  ASSUME Inv, NEW c \in calls, Serve(c) PROVE Inv'
<1>1. ServerOK' /\ Kept /\ CallOK(c) /\ ServerOK
  BY ServeKeeps DEF Inv, CallsOK
<1>2. Seen(NoJob)' /\ DetailOK(NoDetail)
  BY NothingSeen DEF Seen
<1>3. ASSUME Answer(c, Nothing), c.kind # "test" PROVE Inv'
  BY <1>1, <1>2, <1>3, BodyTyped, Answered
<1>4. ASSUME NEW d, DetailOK(d), Answer(c, [Nothing EXCEPT !.detail = d]), c.kind # "test"
      PROVE  Inv'
  <2>1. d \in DetailRows  BY <1>4 DEF DetailOK
  <2> QED  BY <1>1, <1>2, <1>4, <2>1, BodyTyped, Answered
<1>5. ASSUME NEW r \in RunRows, Answer(c, [Nothing EXCEPT !.run = r]), c.kind # "test" PROVE Inv'
  BY <1>1, <1>2, <1>5, BodyTyped, Answered
<1>6. ASSUME NEW j \in JobRows, Seen(j)', Answer(c, [Nothing EXCEPT !.job = j]),
             c.kind = "test" => j.id \in Ids
      PROVE  Inv'
  BY <1>1, <1>2, <1>6, BodyTyped, Answered
<1>7. CASE Read(c)
  <2>1. CASE c.kind \in {"me", "health"} /\ Answer(c, Nothing)
    BY <1>3, <2>1
  <2>2. CASE c.kind = "poll" /\ Answer(c, [Nothing EXCEPT !.run = run])
    BY <1>1, <1>5, <2>2 DEF ServerOK
  <2>3. CASE c.kind = "job" /\ Answer(c, [Nothing EXCEPT !.job = jobs[c.job]])
    <3>1. c.job \in Ids /\ jobs[c.job] \in JobRows /\ UNCHANGED <<jobs, green>>
      BY <1>1, <1>7, <2>3 DEF CallOK, OfJob, ServerOK, Read, server, jobRows
    <3>2. Seen(jobs[c.job])
      BY <1>1, <3>1 DEF ServerOK, Seen
    <3>3. Seen(jobs[c.job])'
      BY <3>1, <3>2 DEF Seen
    <3> QED  BY <1>6, <2>3, <3>1, <3>3
  <2>4. CASE c.kind = "gh" /\ Answer(c, [Nothing EXCEPT !.latest = latestValidated(c.session)])
    <3>1. latestValidated(c.session) \in SetNames
      BY <1>1, <2>4, LatestTyped DEF CallOK, OfSession
    <3> QED  BY <1>1, <1>2, <2>4, <3>1, BodyTyped, Answered
  <2>5. CASE /\ c.kind \in {"open", "refresh", "decide"}
             /\ Answer(c, [Nothing EXCEPT !.detail =
                  [session |-> c.session, running |-> c.session = RunSession /\ RunActive(run)]])
    <3> DEFINE d == [session |-> c.session, running |-> c.session = RunSession /\ RunActive(run)]
    <3>1. DetailOK(d)
      BY <1>1, <2>5 DEF CallOK, OfSession, DetailOK, DetailRows, MaybeSession
    <3> HIDE DEF d
    <3>2. Answer(c, [Nothing EXCEPT !.detail = d])  BY <2>5 DEF d
    <3> QED  BY <1>4, <2>5, <3>1, <3>2
  <2> QED  BY <1>7, <2>1, <2>2, <2>3, <2>4, <2>5 DEF Read
<1>8. CASE ServeRun(c)
  <2>1. CASE Answer(c, [Nothing EXCEPT !.run = run'])
    BY <1>1, <1>5, <1>8, <2>1 DEF ServeRun, ServerOK
  <2>2. ASSUME NEW s \in Sessions,
               Answer(c, [Nothing EXCEPT !.detail = [session |-> s, running |-> FALSE]])
        PROVE  Inv'
    <3>1. DetailOK([session |-> s, running |-> FALSE])
      BY DEF DetailOK, DetailRows, MaybeSession
    <3> QED  BY <1>4, <1>8, <2>2, <3>1 DEF ServeRun
  <2> QED  BY <1>8, <2>1, <2>2 DEF ServeRun
<1>9. CASE \/ ServeResume(c) \/ ServeCancelRun(c) \/ ServeValidate(c)
           \/ ServeCreatePr(c) \/ ServeCancelJob(c)
  BY <1>3, <1>9 DEF ServeResume, ServeCancelRun, ServeValidate, ServeCreatePr, ServeCancelJob
<1>10. CASE ServeTest(c)
  <2>1. PICK j \in Ids :
          /\ jobs' = [jobs EXCEPT ![j] = [id |-> j, session |-> c.session, status |-> "queued",
                                          set |-> latestValidated(c.session).set]]
          /\ Answer(c, [Nothing EXCEPT !.job = jobs'[j]])
    BY <1>10 DEF ServeTest
  <2>2. jobs'[j] \in JobRows /\ jobs'[j].id = j
    BY <1>1, <2>1 DEF ServerOK
  <2>3. PICK made \in JobRows : made = jobs'[j] /\ made.id = j
    BY <2>2
  <2>4. Seen(made)'
    BY <1>1, <2>3 DEF Seen, ServerOK
  <2> QED  BY <1>6, <2>1, <2>3, <2>4
<1> QED  BY <1>7, <1>8, <1>9, <1>10 DEF Serve

LEMMA WorkerStep ==
  ASSUME Inv, Worker \/ CronResume \/ \E j \in Ids : ReplaceVerdict(j) PROVE Inv'
<1>1. ServerOK' /\ Kept
  BY WorkerKeeps DEF Inv
<1>2. UNCHANGED page /\ Replace({}, {})
  BY DEF Worker, CronResume, FinishRunJob, FinishJob, ReplaceVerdict, Replace
<1> QED  BY <1>1, <1>2, PageLeft

-----------------------------------------------------------------------------
(* Steps that set what the page shows.                                     *)

LEMMA LoginStep == ASSUME Inv, Login PROVE Inv'
<1>1. /\ ServerOK' /\ Kept /\ setJobView(jobView) /\ key' = TRUE
      /\ UNCHANGED <<me, health, detail, latest>>
      /\ setAsyncRunWith(TRUE, asyncRun, autoResumed, {}, {CallWith(TRUE, "me", NoSession, 0)})
  BY ServerLeft DEF Login, Click, Inv
<1>2. asyncRun \in RunRows /\ autoResumed \in BOOLEAN /\ jobView \in JobRows /\ Seen(jobView)
  BY DEF Inv, RunPageOK, JobPageOK
<1>3. /\ RunPageOK' /\ PollsRun'
      /\ calls' \subseteq (calls \ {}) \cup {CallWith(TRUE, "me", NoSession, 0)}
                          \cup {CallWith(TRUE, "resume", NoSession, 0)}
  <2>1. PICK auth \in BOOLEAN, r \in RunRows, resumed \in BOOLEAN :
          auth = TRUE /\ r = asyncRun /\ resumed = autoResumed
    BY <1>2
  <2>2. setAsyncRunWith(auth, r, resumed, {}, {CallWith(TRUE, "me", NoSession, 0)})
    BY <1>1, <2>1 DEF setAsyncRunWith
  <2> DEFINE new == {CallWith(TRUE, "me", NoSession, 0)}
  <2>3. setAsyncRunWith(auth, r, resumed, {}, new)
    BY <2>2
  <2> HIDE DEF new
  <2>4. /\ RunPageOK' /\ PollsRun'
        /\ calls' \subseteq (calls \ {}) \cup new \cup {CallWith(auth, "resume", NoSession, 0)}
    BY <2>3, RunSet
  <2> QED  BY <2>1, <2>4 DEF new
<1>4. JobPageOK' /\ PollsJob'
  <2>1. PICK j \in JobRows : j = jobView  BY <1>2
  <2>2. Seen(j)'  BY <1>1, <1>2, <2>1, StaysSeen DEF Inv
  <2> QED  BY <1>1, <2>1, <2>2, JobSet
<1>5. ASSUME NEW kind \in {"me", "resume"} PROVE CallOK(CallWith(TRUE, kind, NoSession, 0))
  BY PageIsOfASession, CallMade DEF Kinds, OfRun, OfJob, OfSession
<1>6. ASSUME NEW kind \in {"me", "resume"} PROVE CallOK(CallWith(TRUE, kind, NoSession, 0))'
  <2> DEFINE c == CallWith(TRUE, kind, NoSession, 0)
  <2>1. CallOK(c)  BY <1>5
  <2> QED  BY <1>1, <2>1, StaysOK DEF Inv
<1>7. CallsOK'
  BY <1>1, <1>3, <1>6, StaysOK DEF Inv, CallsOK
<1>8. SessionOK'
  BY <1>1 DEF Inv, SessionOK, DetailOK
<1> QED  BY <1>1, <1>3, <1>4, <1>7, <1>8 DEF Inv

\* The step of RunSet in a page that holds a key, or none.
LEMMA RunShown ==
  ASSUME Inv, Kept, NEW r \in RunRows, NEW resumed \in BOOLEAN, NEW old, NEW new,
         \A c \in new : CallOK(c)', setAsyncRun(r, resumed, old, new)
  PROVE  RunPageOK' /\ PollsRun' /\ CallsOK'
<1>1. PICK auth \in BOOLEAN : auth = key  BY PageIsOfASession
<1> DEFINE resume == CallWith(auth, "resume", NoSession, 0)
<1>2. setAsyncRunWith(auth, r, resumed, old, new)
  BY <1>1 DEF setAsyncRun, setAsyncRunWith
<1>3. /\ RunPageOK' /\ PollsRun'
      /\ calls' \subseteq (calls \ old) \cup new \cup {resume}
  BY <1>2, RunSet
<1>4. CallOK(resume)
  BY PageIsOfASession, CallMade DEF Kinds, OfRun, OfJob, OfSession
<1>5. CallOK(resume)'
  BY <1>4, StaysOK DEF Inv
<1> HIDE DEF resume
<1>6. CallsOK'
  BY <1>3, <1>5, StaysOK DEF Inv, CallsOK
<1> QED  BY <1>3, <1>6

\* Showing a session: another one resets what is shown of its job.
LEMMA SessionShown ==
  ASSUME Inv, Kept, NEW d, DetailOK(d), setDetail(d), NEW old, NEW new, Replace(old, new),
         \A c \in old : ~ ReadsJob(c)
  PROVE  /\ detail' = d /\ latest' \in SetNames
         /\ JobPageOK' /\ PollsJob'
<1>1. CASE d.session = detail.session
  <2>1. UNCHANGED <<jobView, jobTimer, quietJob, latest>>
    BY <1>1 DEF setDetail, jobPage
  <2> QED  BY <2>1, JobLeft DEF setDetail, Inv, SessionOK, JobPageOK
<1>2. CASE d.session # detail.session
  <2>1. Seen(NoJob)'  BY DEF Seen
  <2> QED  BY <1>2, <2>1, NothingTyped, JobSet DEF setDetail
<1> QED  BY <1>1, <1>2

LEMMA LogoutStep == ASSUME Inv, Logout PROVE Inv'
<1>1. ServerOK' /\ Kept
  BY ServerLeft DEF Logout, Click, Inv
<1>2. RunPageOK' /\ PollsRun' /\ CallsOK'
  <2>1. setAsyncRun(NoRun, autoResumed, {}, {}) /\ autoResumed \in BOOLEAN
    BY DEF Logout, Inv, RunPageOK
  <2> QED  BY <1>1, <2>1, NothingTyped, RunShown
<1>3. JobPageOK' /\ PollsJob'
  <2>1. PICK j \in JobRows : j \in {jobView, NoJob} /\ setJobView(j)
    BY NothingTyped DEF Logout, Inv, JobPageOK
  <2>2. Seen(j)'
    BY <1>1, <2>1, NothingSeen, StaysSeen DEF Inv, JobPageOK
  <2> QED  BY <2>1, <2>2, JobSet
<1>4. SessionOK'
  BY NothingSeen, NothingTyped DEF Logout, Inv, SessionOK
<1> QED  BY <1>1, <1>2, <1>3, <1>4 DEF Inv

LEMMA MadeNow ==
  ASSUME Inv, Kept, NEW kind \in Kinds, NEW s \in MaybeSession, NEW j \in 0 .. MaxJobs,
         kind \in OfJob => j \in Ids, kind \in OfSession => s \in Sessions
  PROVE  \A c \in {Call(kind, s, j)} : CallOK(c)'
<1>1. CallOK(Call(kind, s, j))
  BY PageIsOfASession, CallMade DEF Call
<1> QED  BY <1>1, StaysOK DEF Inv

LEMMA HealthStep == ASSUME Inv, CheckHealth PROVE Inv'
<1>1. /\ ServerOK' /\ Kept /\ health' = "null" /\ Replace({}, {Call("health", NoSession, 0)})
      /\ UNCHANGED <<key, me, detail, runPage, jobPage, latest>>
  BY ServerLeft DEF CheckHealth, Inv
<1>2. \A c \in {Call("health", NoSession, 0)} : CallOK(c)'
  BY <1>1, MadeNow, PageIsOfASession DEF Kinds, OfRun, OfJob, OfSession
<1>3. CallsOK'  BY <1>1, <1>2, Replaced
<1>4. RunPageOK' /\ PollsRun'
  BY <1>1, RunLeft DEF runPage, Inv, RunPageOK
<1>5. JobPageOK' /\ PollsJob'
  BY <1>1, JobLeft DEF jobPage, Inv, JobPageOK
<1>6. SessionOK'
  BY <1>1 DEF Inv, SessionOK, DetailOK
<1> QED  BY <1>1, <1>3, <1>4, <1>5, <1>6 DEF Inv

LEMMA TimerStep == ASSUME Inv, PollRun \/ PollJob PROVE Inv'
<1>1. CASE PollRun
  <2>1. /\ UNCHANGED <<server, identity, detail, asyncRun, quietRun, jobPage, latest>>
        /\ runTimer' = FALSE /\ autoResumed' = FALSE
        /\ Replace({}, {Call("poll", NoSession, 0)})
    BY <1>1 DEF PollRun
  <2>2. ServerOK' /\ Kept  BY <2>1, ServerLeft DEF Inv
  <2>3. \A c \in {Call("poll", NoSession, 0)} : CallOK(c)'
    BY <2>2, MadeNow, PageIsOfASession DEF Kinds, OfRun, OfJob, OfSession
  <2>4. CallsOK'
    BY <2>1, <2>2, <2>3, Replaced
  <2>5. Call("poll", NoSession, 0) \in calls' /\ ReadsRun(Call("poll", NoSession, 0))
    BY <2>1 DEF Replace, Call, CallWith, ReadsRun
  <2>6. RunPageOK' /\ PollsRun'
    BY <2>1, <2>5 DEF Inv, RunPageOK, PollsRun
  <2>7. JobPageOK' /\ PollsJob'
    BY <2>1, <2>2, JobLeft DEF jobPage, Inv, JobPageOK
  <2>8. SessionOK'
    BY <2>1 DEF Inv, SessionOK, DetailOK, identity
  <2> QED  BY <2>2, <2>4, <2>6, <2>7, <2>8 DEF Inv
<1>2. CASE PollJob
  <2>1. /\ UNCHANGED <<server, identity, detail, runPage, jobView, quietJob, latest>>
        /\ jobTimer' = FALSE /\ jobTimer
        /\ Replace({}, {Call("job", NoSession, jobView.id)})
    BY <1>2 DEF PollJob
  <2>2. ServerOK' /\ Kept  BY <2>1, ServerLeft DEF Inv
  <2>3. \A c \in {Call("job", NoSession, jobView.id)} : CallOK(c)'
    <3>1. jobView.id \in Ids
      BY <2>1, PageIsOfASession DEF Inv, JobPageOK
    <3> QED  BY <2>2, <3>1, MadeNow, PageIsOfASession DEF Kinds, OfJob, OfSession
  <2>4. CallsOK'
    BY <2>1, <2>2, <2>3, Replaced
  <2>5. RunPageOK' /\ PollsRun'
    BY <2>1, RunLeft DEF runPage, Inv, RunPageOK
  <2>6. Seen(jobView)'
    BY <2>1, <2>2, StaysSeen DEF Inv, JobPageOK, Seen
  <2>7. /\ Call("job", NoSession, jobView.id) \in calls'
        /\ ReadsJob(Call("job", NoSession, jobView.id))
    BY <2>1 DEF Replace, Call, CallWith, ReadsJob
  <2>8. JobPageOK' /\ PollsJob'
    BY <2>1, <2>6, <2>7 DEF Inv, JobPageOK, PollsJob
  <2>9. SessionOK'
    BY <2>1 DEF Inv, SessionOK, DetailOK, identity
  <2> QED  BY <2>2, <2>4, <2>5, <2>8, <2>9 DEF Inv
<1> QED  BY <1>1, <1>2

LEMMA DeliverStep ==
  ASSUME Inv, NEW c \in calls, Deliver(c) PROVE Inv'
<1>1. /\ ServerOK' /\ Kept /\ CallOK(c) /\ c.answered
      /\ c.body.detail \in DetailRows /\ DetailOK(c.body.detail) /\ c.body.run \in RunRows
      /\ c.body.job \in JobRows /\ Seen(c.body.job)' /\ c.body.latest \in SetNames
  <2>1. ServerOK' /\ Kept /\ CallOK(c)
    BY ServerLeft DEF Deliver, Inv, CallsOK
  <2>2. Seen(c.body.job)'
    BY <2>1, StaysSeen DEF Inv, CallOK
  <2> QED  BY <2>1, <2>2 DEF Deliver, CallOK, CallRows, Bodies
\* An answer that leads to another call, or to none.
<1>2. ASSUME UNCHANGED page, NEW new, Replace({c}, new), \A d \in new : CallOK(d)',
             ReadsRun(c) => \E d \in new : ReadsRun(d),
             ReadsJob(c) => \E d \in new : ReadsJob(d)
      PROVE  Inv'
  BY <1>1, <1>2, PageLeft
<1>3. CASE /\ c.kind = "me" /\ me' = TRUE /\ Replace({c}, {})
           /\ UNCHANGED <<key, health, detail, runPage, jobPage, latest>>
  <2>1. CallsOK'  BY <1>1, <1>3, Replaced
  <2>2. RunPageOK' /\ PollsRun'
    BY <1>3, RunLeft DEF runPage, Inv, RunPageOK, ReadsRun
  <2>3. JobPageOK' /\ PollsJob'
    BY <1>1, <1>3, JobLeft DEF jobPage, Inv, JobPageOK, ReadsJob
  <2>4. SessionOK'
    BY <1>3 DEF Inv, SessionOK, DetailOK
  <2> QED  BY <1>1, <2>1, <2>2, <2>3, <2>4 DEF Inv
<1>18. CASE /\ c.kind = "health" /\ health' = (IF Gated THEN "gated" ELSE "open")
            /\ Replace({c}, {}) /\ UNCHANGED <<key, me, detail, runPage, jobPage, latest>>
  <2>1. CallsOK'  BY <1>1, <1>18, Replaced
  <2>2. RunPageOK' /\ PollsRun'
    BY <1>18, RunLeft DEF runPage, Inv, RunPageOK, ReadsRun
  <2>3. JobPageOK' /\ PollsJob'
    BY <1>1, <1>18, JobLeft DEF jobPage, Inv, JobPageOK, ReadsJob
  <2>4. SessionOK'
    BY <1>18 DEF Inv, SessionOK, DetailOK
  <2> QED  BY <1>1, <2>1, <2>2, <2>3, <2>4 DEF Inv
\* An answer that shows a run, a session, or both.
<1>4. ASSUME NEW d, DetailOK(d), setDetail(d), NEW r \in RunRows, NEW resumed \in BOOLEAN,
             NEW new, \A e \in new : CallOK(e)', setAsyncRun(r, resumed, {c}, new),
             c.kind = "run", UNCHANGED identity
      PROVE  Inv'
  <2>1. RunPageOK' /\ PollsRun' /\ CallsOK'
    BY <1>1, <1>4, RunShown
  <2>2. PICK more : calls' = (calls \ {c}) \cup more
    BY <1>4 DEF setAsyncRun, setAsyncRunWith, Replace
  <2>3. Replace({c}, more)
    BY <2>2 DEF Replace
  <2>4. /\ detail' = d /\ latest' \in SetNames
        /\ JobPageOK' /\ PollsJob'
    BY <1>1, <1>4, <2>3, SessionShown DEF ReadsJob
  <2>5. SessionOK'
    BY <1>4, <2>4 DEF Inv, SessionOK, identity
  <2> QED  BY <1>1, <2>1, <2>4, <2>5 DEF Inv
<1>5. ASSUME NEW d \in DetailRows, DetailOK(d) PROVE \A e \in GhCall(d) : CallOK(e)'
  <2>1. d # NoDetail => d.session \in Sessions  BY <1>5 DEF DetailOK
  <2>2. d # NoDetail => \A e \in {Call("gh", d.session, 0)} : CallOK(e)'
    BY <1>1, <2>1, MadeNow, PageIsOfASession DEF Kinds, OfJob, OfSession
  <2> QED  BY <2>2 DEF GhCall
<1>6. CASE /\ c.kind = "run" /\ c.body.run # NoRun
           /\ setDetail(NoDetail) /\ setAsyncRun(c.body.run, FALSE, {c}, {}) /\ UNCHANGED identity
  <2>1. PICK resumed \in BOOLEAN : resumed = FALSE  OBVIOUS
  <2>2. setAsyncRun(c.body.run, resumed, {c}, {})
    BY <1>6, <2>1 DEF setAsyncRun, setAsyncRunWith
  <2> QED  BY <1>1, <1>4, <1>6, <2>2, NothingSeen
<1>7. CASE /\ c.kind = "run" /\ setDetail(c.body.detail)
           /\ setAsyncRun(NoRun, autoResumed, {c}, GhCall(c.body.detail)) /\ UNCHANGED identity
  <2>1. PICK resumed \in BOOLEAN : resumed = autoResumed
    BY DEF Inv, RunPageOK
  <2>2. PICK new : new = GhCall(c.body.detail) /\ \A e \in new : CallOK(e)'
    BY <1>1, <1>5
  <2>3. setAsyncRun(NoRun, resumed, {c}, new)
    BY <1>7, <2>1, <2>2 DEF setAsyncRun, setAsyncRunWith
  <2> QED  BY <1>1, <1>4, <1>7, <2>2, <2>3, NothingTyped
<1>8. CASE /\ c.kind = "poll" /\ setAsyncRun(c.body.run, autoResumed, {c}, {})
           /\ UNCHANGED <<identity, detail, jobPage, latest>>
  <2>1. PICK resumed \in BOOLEAN : resumed = autoResumed
    BY DEF Inv, RunPageOK
  <2>2. setAsyncRun(c.body.run, resumed, {c}, {})
    BY <1>8, <2>1 DEF setAsyncRun, setAsyncRunWith
  <2>3. RunPageOK' /\ PollsRun' /\ CallsOK'
    BY <1>1, <2>2, RunShown
  <2>4. PICK more : calls' = (calls \ {c}) \cup more
    BY <1>8 DEF setAsyncRun, setAsyncRunWith, Replace
  <2>5. Replace({c}, more)
    BY <2>4 DEF Replace
  <2>6. JobPageOK' /\ PollsJob'
    BY <1>1, <1>8, <2>5, JobLeft DEF jobPage, Inv, JobPageOK, ReadsJob
  <2>7. SessionOK'
    BY <1>8 DEF Inv, SessionOK, DetailOK, identity
  <2> QED  BY <1>1, <2>3, <2>6, <2>7 DEF Inv
<1>9. CASE /\ c.kind \in {"resume", "cancel_run"}
            /\ Replace({c}, {Call("poll", NoSession, 0)}) /\ UNCHANGED page
  <2>1. \A d \in {Call("poll", NoSession, 0)} : CallOK(d)'
    BY <1>1, MadeNow, PageIsOfASession DEF Kinds, OfRun, OfJob, OfSession
  <2>2. ReadsRun(Call("poll", NoSession, 0)) /\ ~ ReadsJob(c)
    BY <1>9 DEF ReadsRun, ReadsJob, Call, CallWith
  <2> QED  BY <1>2, <1>9, <2>1, <2>2
<1>10. CASE /\ c.kind \in {"open", "refresh", "decide"} /\ setDetail(c.body.detail)
            /\ Replace({c}, GhCall(c.body.detail)) /\ UNCHANGED <<identity, runPage>>
  <2>1. CallsOK'
    BY <1>1, <1>5, <1>10, Replaced
  <2>2. RunPageOK' /\ PollsRun'
    BY <1>10, RunLeft DEF runPage, Inv, RunPageOK, ReadsRun
  <2>3. detail' = c.body.detail /\ latest' \in SetNames /\ JobPageOK' /\ PollsJob'
    BY <1>1, <1>10, SessionShown DEF ReadsJob
  <2>4. SessionOK'
    BY <1>1, <1>10, <2>3 DEF Inv, SessionOK, identity
  <2> QED  BY <1>1, <2>1, <2>2, <2>3, <2>4 DEF Inv
<1>11. CASE /\ c.kind = "gh" /\ latest' = c.body.latest
            /\ Replace({c}, {}) /\ UNCHANGED <<identity, detail, runPage, jobPage>>
  <2>1. CallsOK'  BY <1>1, <1>11, Replaced
  <2>2. RunPageOK' /\ PollsRun'
    BY <1>11, RunLeft DEF runPage, Inv, RunPageOK, ReadsRun
  <2>3. JobPageOK' /\ PollsJob'
    BY <1>1, <1>11, JobLeft DEF jobPage, Inv, JobPageOK, ReadsJob
  <2>4. SessionOK'
    BY <1>1, <1>11 DEF Inv, SessionOK, DetailOK, identity
  <2> QED  BY <1>1, <2>1, <2>2, <2>3, <2>4 DEF Inv
<1>12. CASE c.kind = "validate" /\ Replace({c}, {Call("gh", c.session, 0)}) /\ UNCHANGED page
  <2>1. \A d \in {Call("gh", c.session, 0)} : CallOK(d)'
    BY <1>1, <1>12, MadeNow, PageIsOfASession DEF Kinds, OfJob, OfSession, CallOK
  <2> QED  BY <1>2, <1>12, <2>1 DEF ReadsRun, ReadsJob
<1>13. CASE c.kind = "create_pr" /\ Replace({c}, {}) /\ UNCHANGED page
  BY <1>2, <1>13 DEF ReadsRun, ReadsJob
<1>14. ASSUME NEW j \in Ids, c.kind \in {"test", "cancel_job"},
              Replace({c}, {Call("job", NoSession, j)}), UNCHANGED page
       PROVE  Inv'
  <2>1. \A d \in {Call("job", NoSession, j)} : CallOK(d)'
    BY <1>1, MadeNow, PageIsOfASession DEF Kinds, OfJob, OfSession
  <2>2. ReadsJob(Call("job", NoSession, j)) /\ ~ ReadsRun(c)
    BY <1>14 DEF ReadsRun, ReadsJob, Call, CallWith
  <2> QED  BY <1>2, <1>14, <2>1, <2>2
<1>15. CASE /\ c.kind = "test" /\ Replace({c}, {Call("job", NoSession, c.body.job.id)})
            /\ UNCHANGED page
  BY <1>1, <1>14, <1>15 DEF CallOK
<1>16. CASE c.kind = "cancel_job" /\ Replace({c}, {Call("job", NoSession, c.job)}) /\ UNCHANGED page
  BY <1>1, <1>14, <1>16 DEF CallOK, OfJob
<1>17. CASE /\ c.kind = "job" /\ setJobView(c.body.job)
            /\ Replace({c}, {}) /\ UNCHANGED <<identity, detail, runPage, latest>>
  <2>1. CallsOK'  BY <1>1, <1>17, Replaced
  <2>2. RunPageOK' /\ PollsRun'
    BY <1>17, RunLeft DEF runPage, Inv, RunPageOK, ReadsRun
  <2>3. JobPageOK' /\ PollsJob'
    BY <1>1, <1>17, JobSet
  <2>4. SessionOK'
    BY <1>17 DEF Inv, SessionOK, DetailOK, identity
  <2> QED  BY <1>1, <2>1, <2>2, <2>3, <2>4 DEF Inv
<1> QED
  BY <1>3, <1>6, <1>7, <1>8, <1>9, <1>10, <1>11, <1>12, <1>13, <1>15, <1>16, <1>17, <1>18 DEF Deliver

LEMMA FailStep ==
  ASSUME Inv, NEW c \in calls, Fail(c) PROVE Inv'
<1>1. /\ ServerOK' /\ Kept /\ CallOK(c)
      /\ UNCHANGED <<key, health, detail, asyncRun, autoResumed, runTimer, jobView, jobTimer, latest>>
      /\ me' \in BOOLEAN /\ quietRun' \in BOOLEAN /\ quietJob' \in BOOLEAN
      /\ (quietRun => quietRun') /\ (quietJob => quietJob')
      /\ (ReadsRun(c) => quietRun') /\ (ReadsJob(c) => quietJob')
  <2>1. quietRun \in BOOLEAN /\ quietJob \in BOOLEAN /\ me \in BOOLEAN
    BY DEF Inv, RunPageOK, JobPageOK, SessionOK
  <2>2. ServerOK' /\ Kept
    BY ServerLeft DEF Fail, Inv
  <2> QED  BY <2>1, <2>2 DEF Fail, ReadsRun, ReadsJob, Inv, CallsOK
<1>2. PICK new : Replace({c}, new) /\ \A d \in new : CallOK(d)'
  <2>1. CASE Replace({c}, {})
    BY <2>1
  <2>2. CASE c.kind = "cancel_run" /\ Replace({c}, {Call("poll", NoSession, 0)})
    <3>1. \A d \in {Call("poll", NoSession, 0)} : CallOK(d)'
      BY <1>1, MadeNow, PageIsOfASession DEF Kinds, OfRun, OfJob, OfSession
    <3> QED  BY <2>2, <3>1
  <2>3. CASE c.kind = "cancel_job" /\ Replace({c}, {Call("job", NoSession, c.job)})
    <3>1. \A d \in {Call("job", NoSession, c.job)} : CallOK(d)'
      BY <1>1, <2>3, MadeNow, PageIsOfASession DEF Kinds, OfJob, OfSession, CallOK
    <3> QED  BY <2>3, <3>1
  <2>4. CASE c.kind = "validate" /\ Replace({c}, {Call("gh", c.session, 0)})
    <3>1. \A d \in {Call("gh", c.session, 0)} : CallOK(d)'
      BY <1>1, <2>4, MadeNow, PageIsOfASession DEF Kinds, OfJob, OfSession, CallOK
    <3> QED  BY <2>4, <3>1
  <2> QED  BY <2>1, <2>2, <2>3, <2>4 DEF Fail
<1>3. CallsOK'  BY <1>1, <1>2, Replaced
<1>4. RunPageOK' /\ PollsRun'
  BY <1>1, <1>2, RunLeft
<1>5. JobPageOK' /\ PollsJob'
  BY <1>1, <1>2, JobLeft
<1>6. SessionOK'
  BY <1>1 DEF Inv, SessionOK, DetailOK
<1> QED  BY <1>1, <1>3, <1>4, <1>5, <1>6 DEF Inv

-----------------------------------------------------------------------------

LEMMA InitInv == Init => Inv
<1> SUFFICES ASSUME Init PROVE Inv
  OBVIOUS
<1>1. ServerOK
  <2>1. NoJob.status # "passed"  BY DEF NoJob
  <2> QED  BY <2>1, NothingTyped, Sizes DEF Init, ServerOK, SetRows
<1>2. CallsOK
  <2>1. PICK auth \in BOOLEAN : auth = TRUE  OBVIOUS
  <2>2. CallOK(CallWith(auth, "me", NoSession, 0))
    BY CallMade, Sizes DEF Kinds, OfRun, OfJob, OfSession, MaybeSession
  <2> QED  BY <2>1, <2>2 DEF Init, CallsOK, Call
<1>3. SessionOK /\ RunPageOK /\ JobPageOK /\ PollsRun /\ PollsJob
  BY NothingTyped, NothingSeen
  DEF Init, SessionOK, RunPageOK, JobPageOK, PollsRun, PollsJob, RunActive, JobActive, NoRun, NoJob
<1> QED  BY <1>1, <1>2, <1>3 DEF Inv

LEMMA Step == Inv /\ [Next]_vars => Inv'
<1> SUFFICES ASSUME Inv, [Next]_vars PROVE Inv'
  OBVIOUS
<1>1. CASE UNCHANGED vars
  <2>1. ServerOK' /\ Kept  BY <1>1, ServerLeft DEF vars, Inv
  <2>2. UNCHANGED page /\ Replace({}, {})  BY <1>1 DEF vars, Replace
  <2> QED  BY <2>1, <2>2, PageLeft
<1>2. CASE User
  BY <1>2, LoginStep, LogoutStep, HealthStep, ClickKeeps DEF User
<1>3. CASE \E c \in calls : Serve(c) \/ Deliver(c) \/ Fail(c)
  BY <1>3, ServeStep, DeliverStep, FailStep
<1> QED  BY <1>1, <1>2, <1>3, TimerStep, ClickKeeps, WorkerStep DEF Next

\* What the page shows and what its calls will bring is never ahead of the server's rows,
\* and what is not over is polled (the effects and handlers of page.tsx).
THEOREM Invariant == Spec => []Inv
  BY InitInv, Step, PTL DEF Spec

\* Every variable keeps its type, and a timer runs only for what is shown and not over.
THEOREM TypeCorrect == Spec => []TypeOK
<1>1. Inv => TypeOK
  BY DEF Inv, ServerOK, SessionOK, DetailOK, RunPageOK, JobPageOK, TypeOK,
         DetailRows, SetNames, MaybeSession
<1> QED  BY <1>1, Invariant, PTL

\* What is shown and not over is polled until a poll fails.
THEOREM Polling == Spec => []KeepsPolling
<1>1. Inv => KeepsPolling
  BY DEF Inv, PollsRun, PollsJob, KeepsPolling
<1> QED  BY <1>1, Invariant, PTL

\* Once the page knows that the deployment is gated, its button is enabled only for a
\* set a worker has passed: what is shown of a job may be old, and its row may have
\* another verdict by now, but it was passed.
THEOREM GateHolds == Spec => []GateMatchesJob
<1>1. Inv => GateMatchesJob
  BY DEF Inv, JobPageOK, Seen, GateMatchesJob, createPrBlockedByWorker, jobMatchesPatch
<1> QED  BY <1>1, Invariant, PTL

=============================================================================
