-------------------------- MODULE AsyncRuns_proofs --------------------------
(***************************************************************************)
(* Proofs about AsyncRuns, for any number of runs, crons and clients.  The *)
(* first part needs no lock: it holds for either backend and every race.   *)
(* The second says what the lock buys where it can be relied on.           *)
(***************************************************************************)
EXTENDS AsyncRuns, TLAPS

\* Some resume saw a green test job of run r.
Green(r) == \E j \in greens : origin[j].run = r

\* What holds of the row w of run r, or of a copy of it that may be stale.
RowOK(r, w) ==
  /\ w.status = "waiting_for_worker" <=> w.pending # NoJob
  /\ w.pending # NoJob => origin[w.pending].run = r
  /\ w.status = "passed" => Green(r)

\* What a person read of a session and may write back.
DecisionsOK ==
  \A d \in People : decision[d].status # "none" =>
    /\ decision[d].run \in Runs
    /\ decision[d].status = "passed" => Green(decision[d].run)

RunsOK ==
  /\ \A r \in Runs : RowOK(r, row[r]) /\ (session[r] = "passed" => Green(r))
  /\ DecisionsOK

\* Only jobs that exist belong to a run.
Created == \A j \in Jobs : origin[j].run \in Runs => job[j] # "absent"

\* What a process has in hand at each await.
ProcOK(p) ==
  /\ pc[p] \notin {"idle", "batch"} => on[p] \in Runs
  /\ pc[p] \notin InResume \cup {"release"} => outcome[p] = "none"
  /\ outcome[p] = "passed" => Green(on[p])
  /\ pc[p] \in {"session_read", "session_write"} => task[p] \in {"implement", "finish"}
  /\ pc[p] = "session_write" => outcome[p] # "none"
  /\ task[p] = "finish" /\ pc[p] \in {"session_read", "session_write", "read", "write"}
       => outcome[p] \in Verdicts
  /\ pc[p] = "read_job" => report[p] \in Jobs /\ origin[report[p]].run = on[p]
  /\ pc[p] = "verdict" \/ (pc[p] \in {"read", "write"} /\ task[p] \in {"review", "judge"})
       => (report[p] # NoJob => report[p] \in greens /\ origin[report[p]].run = on[p])
  /\ pc[p] \in {"read", "write"} /\ task[p] = "link"
       => report[p] \in Jobs /\ origin[report[p]].run = on[p]
  /\ pc[p] = "write" => RowOK(on[p], copy[p])

Inv == TypeOK /\ RunsOK /\ Created /\ \A p \in Procs : ProcOK(p)

-----------------------------------------------------------------------------
(* Frames.                                                                 *)

\* The two halves of TypeOK.
LocalTypes ==
  /\ pc \in [Procs -> {"idle", "batch", "lock", "lock_write", "lock_check", "release",
                       "cancel_job", "cancel_read", "cancel_write"} \cup InResume]
  /\ on \in [Procs -> Runs \cup {NoRun}]
  /\ todo \in [Procs -> SUBSET Runs]
  /\ task \in [Procs -> {"none", "review", "judge", "implement", "link", "finish", "fault"}]
  /\ copy \in [Procs -> Rows]
  /\ round \in [Procs -> 1 .. MaxRounds]
  /\ report \in [Procs -> Jobs \cup {NoJob}]
  /\ outcome \in [Procs -> Sessions \cup {"none"}]

SharedTypes ==
  /\ row \in [Runs -> Rows]
  /\ owner \in [Runs -> Owners \cup {NoOwner}]
  /\ fresh \in [Runs -> BOOLEAN]
  /\ session \in [Runs -> Sessions]
  /\ decision \in [People -> [run : Runs \cup {NoRun}, status : Sessions \cup {"none"}]]
  /\ overruled \in [Runs -> BOOLEAN]
  /\ job \in [Jobs -> {"absent", "queued", "running"} \cup Finished]
  /\ claims \in [Jobs -> Nat]
  /\ origin \in [Jobs -> [run : Runs \cup {NoRun}, round : 1 .. MaxRounds]]
  /\ greens \subseteq Jobs
  /\ faults \in 0 .. MaxFaults

LEMMA TypesSplit == TypeOK <=> LocalTypes /\ SharedTypes
  BY DEF TypeOK, LocalTypes, SharedTypes

\* No step takes a green job away from a run.
Steady ==
  /\ greens \subseteq greens'
  /\ \A j \in Jobs : origin[j].run \in Runs => origin'[j] = origin[j]

\* Only process p moves.
OthersKept(p) ==
  \A q \in Procs \ {p} :
    /\ pc'[q] = pc[q] /\ on'[q] = on[q] /\ task'[q] = task[q] /\ copy'[q] = copy[q]
    /\ report'[q] = report[q] /\ outcome'[q] = outcome[q]

LEMMA GreenKept ==
  ASSUME SharedTypes, Steady, NEW r \in Runs, Green(r)
  PROVE  Green(r)'
  BY DEF SharedTypes, Steady, Green

LEMMA DecisionsStay ==
  ASSUME Inv, Steady, UNCHANGED decision
  PROVE  DecisionsOK'
BY GreenKept, TypesSplit DEF Inv, RunsOK, DecisionsOK

\* A step of p leaves what holds of the other processes as it was.
LEMMA Frame ==
  ASSUME Inv, NEW p \in Procs, SharedTypes', LocalTypes', Steady, OthersKept(p),
         ProcOK(p)', RunsOK', Created'
  PROVE  Inv'
<1>1. ASSUME NEW q \in Procs, q # p
      PROVE  ProcOK(q)'
  <2>1. /\ pc'[q] = pc[q] /\ on'[q] = on[q] /\ task'[q] = task[q] /\ copy'[q] = copy[q]
        /\ report'[q] = report[q] /\ outcome'[q] = outcome[q]
    BY <1>1 DEF OthersKept
  <2>2. SharedTypes /\ LocalTypes /\ ProcOK(q)
    BY TypesSplit DEF Inv
  <2>3. outcome[q] = "passed" => Green(on[q])'
    <3>1. outcome[q] = "passed" => on[q] \in Runs
      BY <2>2 DEF ProcOK, InResume
    <3> QED  BY <3>1, <2>2, GreenKept, <2>1 DEF ProcOK
  <2>4. pc[q] = "write" => RowOK(on[q], copy[q])'
    <3>1. SUFFICES ASSUME pc[q] = "write" PROVE RowOK(on[q], copy[q])'
      OBVIOUS
    <3>2. on[q] \in Runs /\ copy[q] \in Rows /\ RowOK(on[q], copy[q])
      BY <3>1, <2>2 DEF ProcOK, LocalTypes
    <3>3. copy[q].pending # NoJob => origin'[copy[q].pending] = origin[copy[q].pending]
      BY <3>2 DEF Rows, RowOK, Steady
    <3> QED  BY <2>1, <3>2, <3>3, <2>2, GreenKept DEF RowOK
  <2>5. /\ pc[q] = "read_job" => origin'[report[q]] = origin[report[q]]
        /\ pc[q] \in {"read", "write"} /\ task[q] = "link"
             => origin'[report[q]] = origin[report[q]]
    BY <2>2 DEF ProcOK, Steady, LocalTypes
  <2>6. pc[q] = "verdict" \/ (pc[q] \in {"read", "write"} /\ task[q] \in {"review", "judge"})
          => (report[q] # NoJob => report[q] \in greens' /\ origin'[report[q]].run = on[q])
    BY <2>2 DEF ProcOK, Steady, LocalTypes, SharedTypes
  <2> QED  BY <2>1, <2>2, <2>3, <2>4, <2>5, <2>6 DEF ProcOK
<1>2. \A q \in Procs : ProcOK(q)'
  BY <1>1
<1>3. TypeOK'
  BY DEF TypeOK, LocalTypes, SharedTypes
<1> QED  BY <1>2, <1>3 DEF Inv

\* A step of p that touches neither runs nor jobs.
LEMMA Quiet ==
  ASSUME Inv, NEW p \in Procs, SharedTypes', LocalTypes', OthersKept(p), ProcOK(p)',
         UNCHANGED <<row, session, decision, job, origin, greens>>
  PROVE  Inv'
<1>1. Steady /\ RunsOK' /\ Created'
  BY DEF Inv, Steady, RunsOK, DecisionsOK, RowOK, Green, Created
<1> QED  BY <1>1, Frame

-----------------------------------------------------------------------------
(* Moves of one process.                                                   *)

LEMMA ResetMoves ==
  ASSUME Inv, NEW p \in Procs, NEW s \in {"idle", "batch", "lock", "resume"},
         NEW r \in Runs \cup {NoRun}, s \in {"lock", "resume"} => r \in Runs,
         NEW batch \in SUBSET Runs, Reset(p, s, r, batch)
  PROVE  LocalTypes' /\ OthersKept(p) /\ ProcOK(p)'
<1>1. LocalTypes
  BY TypesSplit DEF Inv
<1>2. LocalTypes'
  BY <1>1, AsyncAssumption DEF LocalTypes, Reset, InResume, Rows, NewRow, RunStatus
<1>3. OthersKept(p) /\ ProcOK(p)'
  BY <1>1 DEF LocalTypes, Reset, OthersKept, ProcOK, InResume
<1> QED  BY <1>2, <1>3

\* Goto, where the variables that stay are those the next await expects.
LEMMA GotoMoves ==
  ASSUME Inv, NEW p \in Procs, pc[p] \notin {"idle", "batch"},
         NEW s \in {"batch", "lock_write", "lock_check", "resume", "release",
                    "cancel_read", "cancel_write"},
         s # "release" => outcome[p] = "none",
         Goto(p, s)
  PROVE  LocalTypes' /\ OthersKept(p)
         /\ (UNCHANGED <<row, session, decision, origin, greens>> => ProcOK(p)')
<1>1. LocalTypes /\ ProcOK(p)
  BY TypesSplit DEF Inv
<1>2. LocalTypes'
  BY <1>1 DEF LocalTypes, Goto, InResume
<1>3. OthersKept(p)
  BY <1>1 DEF LocalTypes, Goto, OthersKept
<1>4. ASSUME UNCHANGED <<row, session, decision, origin, greens>>
      PROVE  ProcOK(p)'
  BY <1>1, <1>4 DEF LocalTypes, Goto, ProcOK, InResume, Green
<1> QED  BY <1>2, <1>3, <1>4

\* What the steps of p may change of runs and jobs, and still leave sound.
LEMMA LeaveMoves ==
  ASSUME Inv, NEW p \in Procs, pc[p] \in InResume, Leave(p),
         Steady
  PROVE  LocalTypes' /\ OthersKept(p) /\ ProcOK(p)'
<1>1. LocalTypes /\ SharedTypes /\ ProcOK(p)
  BY TypesSplit DEF Inv
<1>2. CASE p \in Crons
  <2>1. Goto(p, "release")
    BY <1>2 DEF Leave
  <2>2. LocalTypes'
    BY <1>1, <2>1 DEF LocalTypes, Goto, InResume
  <2>3. OthersKept(p)
    BY <1>1, <2>1 DEF LocalTypes, Goto, OthersKept
  <2>4. outcome[p] = "passed" => Green(on[p])'
    <3>1. on'[p] = on[p]
      BY <2>1 DEF Goto
    <3>2. outcome[p] = "passed" => on[p] \in Runs /\ Green(on[p])
      BY <1>1 DEF ProcOK, InResume
    <3> QED  BY <3>1, <3>2, <1>1, GreenKept
  <2>5. ProcOK(p)'
    BY <1>1, <2>1, <2>4 DEF LocalTypes, Goto, ProcOK, InResume
  <2> QED  BY <2>2, <2>3, <2>5
<1>3. CASE p \notin Crons
  BY <1>3, ResetMoves DEF Leave
<1> QED  BY <1>2, <1>3

-----------------------------------------------------------------------------
(* The cron tick.                                                          *)

LEMMA TickInv ==
  ASSUME Inv, NEW c \in Crons, Tick(c)
  PROVE  Inv'
<1> c \in Procs
  BY DEF Procs
<1>1. LocalTypes /\ SharedTypes /\ ProcOK(c)
  BY TypesSplit DEF Inv
<1>2. CASE Scan(c)
  <2>1. SharedTypes' /\ UNCHANGED <<row, session, decision, job, origin, greens>>
    BY <1>1, <1>2 DEF Scan, SharedTypes, rowVars, jobVars
  <2>2. LocalTypes' /\ OthersKept(c) /\ ProcOK(c)'
    <3>1. {r \in Runs : Resumable(r)} \in SUBSET Runs
      OBVIOUS
    <3> QED  BY <1>2, <3>1, ResetMoves DEF Scan
  <2> QED  BY <2>1, <2>2, Quiet
<1>3. CASE NextInBatch(c)
  <2>1. SharedTypes' /\ UNCHANGED <<row, session, decision, job, origin, greens>>
    BY <1>1, <1>3 DEF NextInBatch, SharedTypes, rowVars, jobVars
  <2>2. LocalTypes' /\ OthersKept(c) /\ ProcOK(c)'
    <3>1. CASE Reset(c, "idle", NoRun, {})
      BY <3>1, ResetMoves
    <3>2. CASE \E r \in todo[c] : Reset(c, "lock", r, todo[c] \ {r})
      <4>1. PICK r \in todo[c] : Reset(c, "lock", r, todo[c] \ {r})
        BY <3>2
      <4>2. r \in Runs /\ todo[c] \ {r} \in SUBSET Runs
        BY <1>1 DEF LocalTypes
      <4> QED  BY <4>1, <4>2, ResetMoves
    <3> QED  BY <1>3, <3>1, <3>2 DEF NextInBatch
  <2> QED  BY <2>1, <2>2, Quiet
<1>4. CASE LockAtomic(c) \/ LockRead(c) \/ LockWrite(c) \/ LockCheck(c)
  <2>1. pc[c] \in {"lock", "lock_write", "lock_check"} /\ outcome[c] = "none" /\ on[c] \in Runs
    BY <1>1, <1>4 DEF LockAtomic, LockRead, LockWrite, LockCheck, ProcOK, InResume
  <2>2. SharedTypes' /\ UNCHANGED <<row, session, decision, job, origin, greens>>
    <3>1. /\ UNCHANGED <<row, session, overruled, decision, job, claims, origin, greens, faults>>
          /\ \/ UNCHANGED <<owner, fresh>>
             \/ /\ owner' = [owner EXCEPT ![on[c]] = OwnerOf[c]]
                /\ fresh' = [fresh EXCEPT ![on[c]] = TRUE]
      BY <1>4 DEF LockAtomic, LockRead, LockWrite, LockCheck, SetLock, rowVars, jobVars
    <3> QED  BY <1>1, <2>1, <3>1, AsyncAssumption DEF SharedTypes
  <2>3. \E s \in {"batch", "lock_write", "lock_check", "resume"} : Goto(c, s)
    BY <1>4 DEF LockAtomic, LockRead, LockWrite, LockCheck
  <2>4. LocalTypes' /\ OthersKept(c) /\ ProcOK(c)'
    BY <2>1, <2>2, <2>3, GotoMoves
  <2> QED  BY <2>2, <2>4, Quiet
<1>5. CASE Release(c)
  <2>1. SharedTypes' /\ UNCHANGED <<row, session, decision, job, origin, greens>>
    BY <1>1, <1>5 DEF Release, SharedTypes, jobVars
  <2>2. LocalTypes' /\ OthersKept(c) /\ ProcOK(c)'
    <3>1. todo[c] \in SUBSET Runs
      BY <1>1 DEF LocalTypes
    <3> QED  BY <1>5, <3>1, ResetMoves DEF Release
  <2> QED  BY <2>1, <2>2, Quiet
<1> QED  BY <1>2, <1>3, <1>4, <1>5 DEF Tick, Lock

-----------------------------------------------------------------------------
(* Requests of clients, and the reads.                                     *)

\* One row is written, with contents that are sound for its run.
LEMMA RowWritten ==
  ASSUME Inv, NEW r \in Runs, NEW w \in Rows, RowOK(r, w), row' = [row EXCEPT ![r] = w],
         UNCHANGED <<session, decision, job, origin, greens>>
  PROVE  row' \in [Runs -> Rows] /\ Steady /\ RunsOK' /\ Created'
<1>1. SharedTypes
  BY TypesSplit DEF Inv
<1>2. row' \in [Runs -> Rows] /\ Steady /\ Created'
  BY <1>1 DEF SharedTypes, Steady, Created, Inv
<1>3. ASSUME NEW q \in Runs
      PROVE  RowOK(q, row[q])' /\ (session[q] = "passed" => Green(q))'
  <2>1. row'[q] = IF q = r THEN w ELSE row[q]
    BY <1>1 DEF SharedTypes
  <2>2. RowOK(q, row[q]) /\ (session[q] = "passed" => Green(q))
    BY DEF Inv, RunsOK
  <2>3. Green(q)' <=> Green(q)
    BY DEF Green
  <2> QED  BY <2>1, <2>2, <2>3 DEF RowOK
<1> QED  BY <1>2, <1>3, DecisionsStay DEF RunsOK

LEMMA InitInv == Init => Inv
<1> SUFFICES ASSUME Init PROVE Inv
  OBVIOUS
<1>1. TypeOK
  BY AsyncAssumption
  DEF Init, Worker!Init, TypeOK, Rows, NewRow, RunStatus, Sessions, InResume
<1>2. RunsOK
  BY DEF Init, RunsOK, DecisionsOK, RowOK, NewRow
<1>3. Created
  BY AsyncAssumption DEF Init, Created
<1>4. \A p \in Procs : ProcOK(p)
  BY DEF Init, ProcOK, InResume
<1> QED  BY <1>1, <1>2, <1>3, <1>4 DEF Inv

LEMMA StartInv ==
  ASSUME Inv, NEW p \in Procs, NEW r \in Runs, Start(p, r)
  PROVE  Inv'
<1>1. LocalTypes /\ SharedTypes /\ ProcOK(p)
  BY TypesSplit DEF Inv
<1> DEFINE w == [row[r] EXCEPT !.status = "running"]
<1>2. w \in Rows /\ RowOK(r, w) /\ row' = [row EXCEPT ![r] = w]
  <2>1. row[r] \in Rows /\ RowOK(r, row[r]) /\ row[r].status = "absent"
    BY <1>1 DEF SharedTypes, Inv, RunsOK, Start
  <2> QED  BY <2>1 DEF Rows, RunStatus, RowOK, Start
<1>3. UNCHANGED <<owner, fresh, session, overruled, decision, job, claims, origin, greens, faults>>
  BY DEF Start, jobVars
<1>4. row' \in [Runs -> Rows] /\ Steady /\ RunsOK' /\ Created'
  BY <1>2, <1>3, RowWritten
<1>5. SharedTypes'
  BY <1>1, <1>3, <1>4 DEF SharedTypes
<1>6. LocalTypes' /\ OthersKept(p)
  BY <1>1 DEF LocalTypes, OthersKept, Start, BeginUpdate, InResume
<1>7. ProcOK(p)'
  BY <1>1 DEF LocalTypes, ProcOK, Start, BeginUpdate, InResume
<1> QED  BY <1>4, <1>5, <1>6, <1>7, Frame

LEMMA RequestsInv ==
  ASSUME Inv, NEW p \in Procs, NEW r \in Runs, RequestResume(p, r) \/ RequestCancel(p, r)
  PROVE  Inv'
<1>1. LocalTypes /\ SharedTypes /\ ProcOK(p)
  BY TypesSplit DEF Inv
<1>2. SharedTypes' /\ UNCHANGED <<row, session, decision, job, origin, greens>>
  BY <1>1 DEF RequestResume, RequestCancel, SharedTypes, rowVars, jobVars
<1>3. CASE RequestResume(p, r)
  BY <1>2, <1>3, ResetMoves, Quiet DEF RequestResume
<1>4. CASE RequestCancel(p, r)
  <2>1. row[r].pending \in Jobs \cup {NoJob}
    BY <1>1 DEF SharedTypes, Rows
  <2>2. LocalTypes' /\ OthersKept(p)
    BY <1>1, <1>4, <2>1 DEF LocalTypes, OthersKept, RequestCancel, InResume
  <2>3. ProcOK(p)'
    BY <1>1, <1>4 DEF LocalTypes, ProcOK, RequestCancel, InResume
  <2> QED  BY <1>2, <2>2, <2>3, Quiet
<1> QED  BY <1>3, <1>4

LEMMA ReadRunInv ==
  ASSUME Inv, NEW p \in Procs, ReadRun(p)
  PROVE  Inv'
<1>1. LocalTypes /\ SharedTypes /\ ProcOK(p)
  BY TypesSplit DEF Inv
<1>2. SharedTypes' /\ Steady /\ UNCHANGED <<row, session, decision, job, origin, greens>>
  BY <1>1 DEF ReadRun, SharedTypes, rowVars, jobVars, Steady
<1>3. CASE Leave(p)
  BY <1>2, <1>3, LeaveMoves, Quiet DEF ReadRun, InResume
<1>4. CASE ~Leave(p)
  <2>1. on[p] \in Runs /\ row[on[p]] \in Rows /\ RowOK(on[p], row[on[p]])
    BY <1>1 DEF ReadRun, ProcOK, SharedTypes, Inv, RunsOK
  <2> DEFINE w == row[on[p]]
  <2>2. /\ w.pending \in Jobs /\ origin[w.pending].run = on[p] /\ w.round \in 1 .. MaxRounds
        /\ round' = [round EXCEPT ![p] = w.round]
        /\ report' = [report EXCEPT ![p] = w.pending]
        /\ pc' = [pc EXCEPT ![p] = "read_job"]
        /\ UNCHANGED <<on, todo, task, copy, outcome, origin, greens>>
    BY <1>2, <1>4, <2>1 DEF ReadRun, Rows, RowOK
  <2> HIDE DEF w
  <2>3. LocalTypes' /\ OthersKept(p)
    BY <1>1, <2>2 DEF LocalTypes, OthersKept, InResume
  <2>4. ProcOK(p)'
    BY <1>1, <2>1, <2>2 DEF LocalTypes, ProcOK, InResume, Green, ReadRun
  <2> QED  BY <1>2, <2>3, <2>4, Quiet
<1> QED  BY <1>3, <1>4

LEMMA ReadJobInv ==
  ASSUME Inv, NEW p \in Procs, ReadJob(p)
  PROVE  Inv'
<1>1. LocalTypes /\ SharedTypes /\ ProcOK(p)
  BY TypesSplit DEF Inv
<1>2. /\ pc[p] = "read_job" /\ on[p] \in Runs
      /\ report[p] \in Jobs /\ origin[report[p]].run = on[p]
  BY <1>1 DEF ReadJob, ProcOK, InResume
<1>3. /\ UNCHANGED <<row, owner, fresh, session, overruled, decision, job, claims, origin, faults>>
      /\ greens \subseteq greens' /\ greens' \subseteq Jobs
  BY <1>1, <1>2 DEF ReadJob, rowVars, SharedTypes
<1>4. SharedTypes' /\ Steady
  BY <1>1, <1>3 DEF SharedTypes, Steady
<1>5. RunsOK' /\ Created'
  <2>1. \A r \in Runs : Green(r) => Green(r)'
    BY <1>1, <1>4, GreenKept
  <2>2. DecisionsOK'
    BY <1>3, <1>4, DecisionsStay
  <2> QED  BY <1>3, <2>1, <2>2 DEF Inv, RunsOK, RowOK, Created
<1>6. CASE Leave(p)
  BY <1>2, <1>4, <1>5, <1>6, LeaveMoves, Frame DEF InResume
<1>7. CASE ~Leave(p)
  <2>1. /\ report' = [report EXCEPT ![p] = IF job[report[p]] = "passed" THEN report[p] ELSE NoJob]
        /\ job[report[p]] = "passed" => report[p] \in greens'
        /\ pc' = [pc EXCEPT ![p] = "read"]
        /\ task' = [task EXCEPT ![p] = "review"]
        /\ UNCHANGED <<on, todo, copy, round, outcome>>
    BY <1>7 DEF ReadJob, BeginUpdate
  <2>2. LocalTypes' /\ OthersKept(p)
    BY <1>1, <1>2, <2>1 DEF LocalTypes, OthersKept, InResume
  <2>3. outcome[p] = "passed" => Green(on[p])'
    <3>1. outcome[p] = "passed" => Green(on[p])
      BY <1>1 DEF ProcOK
    <3> QED  BY <3>1, <1>1, <1>2, <1>4, <2>1, GreenKept
  <2>4. ProcOK(p)'
    BY <1>1, <1>2, <1>3, <2>1, <2>3 DEF LocalTypes, ProcOK, InResume
  <2> QED  BY <1>4, <1>5, <2>2, <2>4, Frame
<1> QED  BY <1>6, <1>7

-----------------------------------------------------------------------------
(* The read-merge-write updates.                                           *)

LEMMA SessionReadInv ==
  ASSUME Inv, NEW p \in Procs, SessionRead(p)
  PROVE  Inv'
<1>1. LocalTypes /\ SharedTypes /\ ProcOK(p)
  BY TypesSplit DEF Inv
<1>2. SharedTypes' /\ UNCHANGED <<row, session, decision, job, origin, greens>>
  BY <1>1 DEF SessionRead, SharedTypes, rowVars, jobVars
<1>3. /\ on[p] \in Runs /\ session[on[p]] \in Sessions
      /\ session[on[p]] = "passed" => Green(on[p])
  <2>1. on[p] \in Runs  BY <1>1 DEF SessionRead, ProcOK, InResume
  <2> QED  BY <1>1, <2>1 DEF SharedTypes, Inv, RunsOK
<1>4. LocalTypes' /\ OthersKept(p)
  BY <1>1, <1>3 DEF SessionRead, LocalTypes, OthersKept, InResume
<1>5. ProcOK(p)'
  <2>1. Green(on[p])' <=> Green(on[p])
    BY <1>2 DEF Green, SessionRead
  <2> QED  BY <1>1, <1>3, <2>1 DEF SessionRead, LocalTypes, ProcOK, InResume, Sessions, Verdicts
<1> QED  BY <1>2, <1>4, <1>5, Quiet

LEMMA SessionWriteInv ==
  ASSUME Inv, NEW p \in Procs, SessionWrite(p)
  PROVE  Inv'
<1>1. LocalTypes /\ SharedTypes /\ ProcOK(p)
  BY TypesSplit DEF Inv
<1>2. /\ on[p] \in Runs /\ outcome[p] \in Sessions
      /\ outcome[p] = "passed" => Green(on[p])
  BY <1>1 DEF SessionWrite, ProcOK, InResume, LocalTypes
<1>3. UNCHANGED <<row, owner, fresh, decision, job, claims, origin, greens, faults>>
  BY DEF SessionWrite, jobVars
<1>4. SharedTypes' /\ Steady
  BY <1>1, <1>2, <1>3 DEF SharedTypes, Steady, SessionWrite
<1>5. RunsOK'
  <2>1. \A r \in Runs : session'[r] = IF r = on[p] THEN outcome[p] ELSE session[r]
    BY <1>1 DEF SessionWrite, SharedTypes
  <2>2. DecisionsOK'  BY <1>3, <1>4, DecisionsStay
  <2> QED  BY <1>2, <1>3, <2>1, <2>2 DEF Inv, RunsOK, RowOK, Green
<1>6. Created'
  BY <1>3 DEF Inv, Created
<1>7. LocalTypes' /\ OthersKept(p)
  BY <1>1 DEF SessionWrite, Goto, LocalTypes, OthersKept, InResume
<1>8. ProcOK(p)'
  BY <1>1, <1>3 DEF SessionWrite, Goto, LocalTypes, ProcOK, InResume, Green
<1> QED  BY <1>4, <1>5, <1>6, <1>7, <1>8, Frame

LEMMA UpdateReadInv ==
  ASSUME Inv, NEW p \in Procs, UpdateRead(p)
  PROVE  Inv'
<1>1. LocalTypes /\ SharedTypes /\ ProcOK(p)
  BY TypesSplit DEF Inv
<1>2. SharedTypes' /\ UNCHANGED <<row, session, decision, job, origin, greens>>
  BY <1>1 DEF UpdateRead, SharedTypes, rowVars, jobVars
<1> DEFINE w == row[on[p]]
<1>3. on[p] \in Runs /\ w \in Rows /\ RowOK(on[p], w)
  BY <1>1 DEF UpdateRead, ProcOK, InResume, SharedTypes, Inv, RunsOK
<1>4. copy' = [copy EXCEPT ![p] = w] /\ pc[p] = "read" /\ pc' = [pc EXCEPT ![p] = "write"]
      /\ UNCHANGED <<on, todo, task, round, report, outcome>>
  BY DEF UpdateRead
<1> HIDE DEF w
<1>5. LocalTypes' /\ OthersKept(p)
  BY <1>1, <1>3, <1>4 DEF LocalTypes, OthersKept, InResume
<1>6. ProcOK(p)'
  BY <1>1, <1>2, <1>3, <1>4 DEF LocalTypes, ProcOK, InResume, Green, RowOK
<1> QED  BY <1>2, <1>5, <1>6, Quiet

\* Whatever the copy has missed, merging a patch into it leaves a sound row.
LEMMA MergedSound ==
  ASSUME Inv, NEW p \in Procs, pc[p] = "write"
  PROVE  on[p] \in Runs /\ Merged(p) \in Rows /\ RowOK(on[p], Merged(p))
<1>1. LocalTypes /\ SharedTypes /\ ProcOK(p)
  BY TypesSplit DEF Inv
<1>2. on[p] \in Runs /\ copy[p] \in Rows /\ RowOK(on[p], copy[p])
  BY <1>1 DEF LocalTypes, ProcOK
<1>3. round[p] \in 1 .. MaxRounds /\ report[p] \in Jobs \cup {NoJob}
  BY <1>1 DEF LocalTypes
<1>4. CASE task[p] = "implement"
  <2>1. Merged(p) = [copy[p] EXCEPT !.round = round[p]]
    BY <1>4 DEF Merged
  <2> QED  BY <1>2, <1>3, <2>1 DEF Rows, RowOK
<1>5. CASE task[p] = "link"
  <2>1. Merged(p) = [status |-> "waiting_for_worker", round |-> round[p], pending |-> report[p]]
    BY <1>5 DEF Merged
  <2>2. report[p] \in Jobs /\ origin[report[p]].run = on[p]
    BY <1>1, <1>5 DEF ProcOK
  <2> QED  BY <1>2, <1>3, <2>1, <2>2, AsyncAssumption DEF Rows, RowOK, RunStatus
<1>6. CASE task[p] = "finish"
  <2>1. Merged(p) = [copy[p] EXCEPT !.status = outcome[p], !.pending = NoJob]
    BY <1>6 DEF Merged
  <2>2. outcome[p] \in Verdicts /\ (outcome[p] = "passed" => Green(on[p]))
    BY <1>1, <1>6 DEF ProcOK
  <2>3. Merged(p) = [status |-> outcome[p], round |-> copy[p].round, pending |-> NoJob]
    BY <1>2, <2>1 DEF Rows
  <2> QED  BY <1>2, <2>2, <2>3 DEF Rows, RowOK, RunStatus, Verdicts, Decided
<1>7. CASE task[p] \notin {"implement", "link", "finish"}
  <2>1. Merged(p) = copy[p]
    BY <1>7 DEF Merged
  <2> QED  BY <1>2, <2>1
<1> QED  BY <1>2, <1>4, <1>5, <1>6, <1>7

LEMMA UpdateWriteInv ==
  ASSUME Inv, NEW p \in Procs, UpdateWrite(p)
  PROVE  Inv'
<1>1. LocalTypes /\ SharedTypes /\ ProcOK(p)
  BY TypesSplit DEF Inv
<1>2. pc[p] = "write" /\ on[p] \in Runs /\ Merged(p) \in Rows /\ RowOK(on[p], Merged(p))
  BY MergedSound DEF UpdateWrite
<1>3. /\ row' = [row EXCEPT ![on[p]] = Merged(p)]
      /\ UNCHANGED <<owner, fresh, session, overruled, decision, job, claims, origin, greens, faults>>
  BY DEF UpdateWrite, jobVars
<1>4. row' \in [Runs -> Rows] /\ Steady /\ RunsOK' /\ Created'
  BY <1>2, <1>3, RowWritten
<1>5. SharedTypes'
  BY <1>1, <1>3, <1>4 DEF SharedTypes
<1>6. CASE Leave(p)
  BY <1>2, <1>4, <1>5, <1>6, LeaveMoves, Frame DEF InResume
<1>7. CASE ~Leave(p)
  <2>1. /\ \/ task[p] = "review" /\ BeginUpdate(p, "judge")
           \/ task[p] = "judge" /\ BeginStep(p, "verdict")
           \/ task[p] = "implement" /\ BeginStep(p, "implement")
        /\ copy' = [copy EXCEPT ![p] = NewRow]
        /\ outcome' = [outcome EXCEPT ![p] = "none"]
        /\ UNCHANGED <<on, todo, round, report>>
    BY <1>7 DEF UpdateWrite
  <2>2. NewRow \in Rows
    BY AsyncAssumption DEF NewRow, Rows, RunStatus
  <2>3. LocalTypes' /\ OthersKept(p)
    BY <1>1, <2>1, <2>2 DEF LocalTypes, OthersKept, BeginUpdate, BeginStep, InResume
  <2>4. ProcOK(p)'
    BY <1>1, <1>2, <1>3, <2>1 DEF LocalTypes, ProcOK, BeginUpdate, BeginStep, InResume
  <2> QED  BY <1>4, <1>5, <2>3, <2>4, Frame
<1> QED  BY <1>6, <1>7

-----------------------------------------------------------------------------
(* The verdict and the next round.                                         *)

LEMMA FinishMoves ==
  ASSUME Inv, NEW p \in Procs, NEW v \in Verdicts, Finish(p, v), on[p] \in Runs,
         v = "passed" => Green(on[p]), UNCHANGED greens, UNCHANGED origin
  PROVE  LocalTypes' /\ OthersKept(p) /\ ProcOK(p)'
<1>1. LocalTypes /\ ProcOK(p)
  BY TypesSplit DEF Inv
<1>2. /\ outcome' = [outcome EXCEPT ![p] = v]
      /\ pc' = [pc EXCEPT ![p] = "session_read"]
      /\ task' = [task EXCEPT ![p] = "finish"]
      /\ UNCHANGED <<on, todo, copy, round, report>>
  BY DEF Finish, BeginUpdate
<1>3. LocalTypes' /\ OthersKept(p)
  BY <1>1, <1>2 DEF LocalTypes, OthersKept, InResume, Sessions
<1>4. ProcOK(p)'
  BY <1>1, <1>2 DEF LocalTypes, ProcOK, InResume, Green
<1> QED  BY <1>3, <1>4

LEMMA JudgeInv ==
  ASSUME Inv, NEW p \in Procs, Judge(p)
  PROVE  Inv'
<1>1. LocalTypes /\ SharedTypes /\ ProcOK(p)
  BY TypesSplit DEF Inv
<1>2. SharedTypes' /\ UNCHANGED <<row, session, decision, job, origin, greens>>
  BY <1>1 DEF Judge, SharedTypes, rowVars, jobVars
<1>3. pc[p] = "verdict" /\ on[p] \in Runs
  BY <1>1 DEF Judge, ProcOK, InResume
<1>4. CASE MayPass(p) /\ Finish(p, "passed")
  <2>1. Green(on[p])
    BY <1>1, <1>3, <1>4 DEF MayPass, ProcOK, Green
  <2> QED  BY <1>2, <1>3, <1>4, <2>1, FinishMoves, Quiet DEF Verdicts
<1>5. CASE Finish(p, "failed")
  BY <1>2, <1>3, <1>5, FinishMoves, Quiet DEF Verdicts
<1>6. CASE Finish(p, "needs_revision")
  BY <1>2, <1>3, <1>6, FinishMoves, Quiet DEF Verdicts
<1>7. CASE /\ Another(round[p])
           /\ round' = [round EXCEPT ![p] = round[p] + 1]
           /\ BeginUpdate(p, "implement")
           /\ UNCHANGED <<on, todo, copy, report, outcome>>
  <2>1. round[p] + 1 \in 1 .. MaxRounds
    BY <1>1, <1>7, AsyncAssumption DEF LocalTypes, Another
  <2>2. /\ pc' = [pc EXCEPT ![p] = "session_read"]
        /\ task' = [task EXCEPT ![p] = "implement"]
    BY <1>7 DEF BeginUpdate
  <2>3. LocalTypes' /\ OthersKept(p)
    BY <1>1, <1>7, <2>1, <2>2 DEF LocalTypes, OthersKept, InResume
  <2>4. ProcOK(p)'
    BY <1>1, <1>2, <1>3, <1>7, <2>2 DEF LocalTypes, ProcOK, InResume, Green
  <2> QED  BY <1>2, <2>3, <2>4, Quiet
<1> QED  BY <1>4, <1>5, <1>6, <1>7 DEF Judge

LEMMA BlockedPatchInv ==
  ASSUME Inv, NEW p \in Procs, BlockedPatch(p)
  PROVE  Inv'
<1>1. LocalTypes /\ SharedTypes /\ ProcOK(p)
  BY TypesSplit DEF Inv
<1>2. SharedTypes' /\ UNCHANGED <<row, session, decision, job, origin, greens>>
  BY <1>1 DEF BlockedPatch, SharedTypes, rowVars, jobVars
<1>3. on[p] \in Runs
  BY <1>1 DEF BlockedPatch, ProcOK, InResume
<1> QED  BY <1>2, <1>3, FinishMoves, Quiet DEF BlockedPatch, Verdicts

LEMMA EnqueueTestInv ==
  ASSUME Inv, NEW p \in Procs, EnqueueTest(p)
  PROVE  Inv'
<1>1. LocalTypes /\ SharedTypes /\ ProcOK(p)
  BY TypesSplit DEF Inv
<1>2. pc[p] = "implement" /\ on[p] \in Runs /\ round[p] \in 1 .. MaxRounds
  BY <1>1 DEF EnqueueTest, ProcOK, InResume, LocalTypes
<1>3. PICK j \in Jobs :
        /\ Worker!Create(j)
        /\ origin' = [origin EXCEPT ![j] = [run |-> on[p], round |-> round[p]]]
        /\ report' = [report EXCEPT ![p] = j]
  BY DEF EnqueueTest
<1>4. /\ job[j] = "absent" /\ job' = [job EXCEPT ![j] = "queued"]
      /\ UNCHANGED <<row, owner, fresh, session, overruled, decision, claims, greens, faults>>
  BY <1>3 DEF EnqueueTest, Worker!Create, rowVars
<1>5. SharedTypes'
  BY <1>1, <1>2, <1>3, <1>4 DEF SharedTypes
<1>6. origin[j].run \notin Runs
  BY <1>4 DEF Inv, Created
<1>7. Steady
  BY <1>1, <1>3, <1>4, <1>6 DEF Steady, SharedTypes
<1>8. RunsOK'
  <2>1. ASSUME NEW r \in Runs
        PROVE  RowOK(r, row[r])' /\ (session[r] = "passed" => Green(r))'
    <3>1. row[r] \in Rows /\ RowOK(r, row[r]) /\ (session[r] = "passed" => Green(r))
      BY <1>1 DEF SharedTypes, Inv, RunsOK
    <3>2. Green(r) => Green(r)'
      BY <1>1, <1>7, GreenKept
    <3>3. row[r].pending # NoJob => origin'[row[r].pending] = origin[row[r].pending]
      BY <1>7, <3>1 DEF Rows, RowOK, Steady
    <3> QED  BY <1>4, <3>1, <3>2, <3>3 DEF RowOK
  <2>2. DecisionsOK'  BY <1>4, <1>7, DecisionsStay
  <2> QED  BY <2>1, <2>2 DEF RunsOK
<1>9. Created'
  BY <1>1, <1>3, <1>4 DEF Inv, Created, SharedTypes
<1>10. /\ pc' = [pc EXCEPT ![p] = "read"]
       /\ task' = [task EXCEPT ![p] = "link"]
       /\ UNCHANGED <<on, todo, copy, round, outcome>>
  BY DEF EnqueueTest, BeginUpdate
<1>11. LocalTypes' /\ OthersKept(p)
  BY <1>1, <1>3, <1>10 DEF LocalTypes, OthersKept, InResume
<1>12. ProcOK(p)'
  <2>1. outcome[p] = "passed" => Green(on[p])'
    <3>1. outcome[p] = "passed" => Green(on[p])
      BY <1>1 DEF ProcOK
    <3> QED  BY <3>1, <1>1, <1>2, <1>7, <1>10, GreenKept
  <2>2. origin'[j].run = on[p]
    BY <1>1, <1>3 DEF SharedTypes
  <2> QED  BY <1>1, <1>2, <1>3, <1>10, <2>1, <2>2 DEF LocalTypes, ProcOK, InResume
<1> QED  BY <1>5, <1>7, <1>8, <1>9, <1>11, <1>12, Frame

-----------------------------------------------------------------------------
(* Failures, cancel requests, lock expiry and the worker plane.            *)

LEMMA FaultInv ==
  ASSUME Inv, NEW c \in Crons, Fault(c)
  PROVE  Inv'
<1> c \in Procs
  BY DEF Procs
<1>1. LocalTypes /\ SharedTypes /\ ProcOK(c)
  BY TypesSplit DEF Inv
<1>2. UNCHANGED <<owner, fresh, session, overruled, decision, job, claims, origin, greens>> /\ faults' \in 0 .. MaxFaults
  BY <1>1, AsyncAssumption DEF Fault, jobVars, SharedTypes
<1>3. row' \in [Runs -> Rows] /\ Steady /\ RunsOK' /\ Created'
  <2>1. CASE UNCHANGED row
    BY <1>1, <1>2, <2>1 DEF SharedTypes, Steady, Inv, RunsOK, DecisionsOK, RowOK, Green, Created
  <2>2. CASE pc[c] = "write" /\ row' = [row EXCEPT ![on[c]] = Merged(c)]
    BY <1>2, <2>2, MergedSound, RowWritten
  <2> QED  BY <2>1, <2>2 DEF Fault
<1>4. SharedTypes'
  BY <1>1, <1>2, <1>3 DEF SharedTypes
<1>5. LocalTypes' /\ OthersKept(c) /\ ProcOK(c)'
  <2>1. on[c] \in Runs
    BY <1>1 DEF Fault, ProcOK, InResume
  <2>2. outcome[c] = "passed" => Green(on[c])
    BY <1>1 DEF ProcOK
  <2>3. CASE /\ BeginUpdate(c, "fault")
             /\ UNCHANGED <<on, todo, copy, round, report, outcome>>
             /\ pc[c] \in InResume
    <3>1. pc' = [pc EXCEPT ![c] = "read"] /\ task' = [task EXCEPT ![c] = "fault"]
      BY <2>3 DEF BeginUpdate
    <3>2. LocalTypes' /\ OthersKept(c)
      BY <1>1, <2>3, <3>1 DEF LocalTypes, OthersKept, InResume
    <3>3. ProcOK(c)'
      BY <1>1, <1>2, <2>1, <2>2, <2>3, <3>1 DEF LocalTypes, ProcOK, InResume, Green
    <3> QED  BY <3>2, <3>3
  <2>4. CASE Goto(c, "release") /\ pc[c] \in InResume
    <3>1. LocalTypes' /\ OthersKept(c)
      BY <1>1, <2>4 DEF LocalTypes, OthersKept, Goto, InResume
    <3>2. ProcOK(c)'
      BY <1>1, <1>2, <2>1, <2>2, <2>4 DEF LocalTypes, ProcOK, Goto, InResume, Green
    <3> QED  BY <3>1, <3>2
  <2>5. CASE Reset(c, "batch", NoRun, todo[c])
    <3>1. todo[c] \in SUBSET Runs
      BY <1>1 DEF LocalTypes
    <3> QED  BY <2>5, <3>1, ResetMoves
  <2> QED  BY <2>3, <2>4, <2>5 DEF Fault
<1> QED  BY <1>3, <1>4, <1>5, Frame

LEMMA CrashInv ==
  ASSUME Inv, NEW p \in Procs, Crash(p)
  PROVE  Inv'
<1>1. SharedTypes
  BY TypesSplit DEF Inv
<1>2. SharedTypes' /\ UNCHANGED <<row, session, decision, job, origin, greens>>
  BY <1>1, AsyncAssumption DEF Crash, SharedTypes, rowVars, jobVars
<1>3. LocalTypes' /\ OthersKept(p) /\ ProcOK(p)'
  BY ResetMoves DEF Crash
<1> QED  BY <1>2, <1>3, Quiet

LEMMA CancelInv ==
  ASSUME Inv, NEW p \in Procs, Cancel(p)
  PROVE  Inv'
<1>1. LocalTypes /\ SharedTypes /\ ProcOK(p)
  BY TypesSplit DEF Inv
<1>2. outcome[p] = "none" /\ on[p] \in Runs
  BY <1>1 DEF Cancel, CancelJob, CancelRead, CancelWrite, ProcOK, InResume
<1>3. CASE CancelJob(p)
  <2>1. UNCHANGED <<row, owner, fresh, session, overruled, decision, claims, origin, greens, faults>>
    BY <1>3 DEF CancelJob, rowVars
  <2>2. SharedTypes' /\ Created'
    <3>1. CASE UNCHANGED job
      BY <1>1, <2>1, <3>1 DEF SharedTypes, Inv, Created
    <3>2. CASE /\ report[p] \in Worker!Unfinished
               /\ job' = [job EXCEPT ![report[p]] = "cancelled"]
      BY <1>1, <2>1, <3>2 DEF SharedTypes, Inv, Created, Worker!Unfinished, Finished
    <3> QED  BY <1>3, <3>1, <3>2 DEF CancelJob
  <2>3. Steady /\ RunsOK'
    BY <2>1 DEF Steady, Inv, RunsOK, DecisionsOK, RowOK, Green
  <2>4. LocalTypes' /\ OthersKept(p) /\ ProcOK(p)'
    BY <1>2, <1>3, <2>1, GotoMoves DEF CancelJob
  <2> QED  BY <2>2, <2>3, <2>4, Frame
<1>4. CASE CancelRead(p)
  <2>1. SharedTypes' /\ UNCHANGED <<row, session, decision, job, origin, greens>>
    BY <1>1, <1>4 DEF CancelRead, SharedTypes, rowVars, jobVars
  <2>2. CASE Reset(p, "idle", NoRun, {})
    BY <2>1, <2>2, ResetMoves, Quiet
  <2>3. CASE Goto(p, "cancel_write")
    BY <1>2, <1>4, <2>1, <2>3, GotoMoves, Quiet DEF CancelRead
  <2> QED  BY <1>4, <2>2, <2>3 DEF CancelRead
<1>5. CASE CancelWrite(p)
  <2> DEFINE w == [status |-> "cancelled", round |-> row[on[p]].round, pending |-> NoJob]
  <2>1. row[on[p]] \in Rows
    BY <1>1, <1>2 DEF SharedTypes
  <2>2. w \in Rows /\ RowOK(on[p], w)
    BY <2>1 DEF Rows, RunStatus, Decided, RowOK
  <2>3. row' = [row EXCEPT ![on[p]] = w]
    <3>1. row' = [row EXCEPT ![on[p]].status = "cancelled", ![on[p]].pending = NoJob]
      BY <1>5 DEF CancelWrite
    <3>2. [row[on[p]] EXCEPT !.status = "cancelled", !.pending = NoJob] = w
      <4>1. ASSUME NEW v \in Rows, NEW u,
                   u = [v EXCEPT !.status = "cancelled", !.pending = NoJob]
            PROVE  u = [status |-> "cancelled", round |-> v.round, pending |-> NoJob]
        BY <4>1 DEF Rows
      <4> QED  BY <2>1, <4>1
    <3>3. row' \in [Runs -> {row'[q] : q \in Runs}] /\ \A q \in Runs : q # on[p] => row'[q] = row[q]
      BY <1>1, <1>2, <3>1 DEF SharedTypes
    <3>4. row'[on[p]] = w
      BY <1>1, <1>2, <3>1, <3>2 DEF SharedTypes
    <3> QED  BY <1>1, <1>2, <3>3, <3>4 DEF SharedTypes
  <2>4. UNCHANGED <<owner, fresh, session, overruled, decision, job, claims, origin, greens, faults>>
    BY <1>5 DEF CancelWrite, jobVars
  <2>5. row' \in [Runs -> Rows] /\ Steady /\ RunsOK' /\ Created'
    BY <1>2, <2>2, <2>3, <2>4, RowWritten
  <2>6. SharedTypes'
    BY <1>1, <2>4, <2>5 DEF SharedTypes
  <2>7. LocalTypes' /\ OthersKept(p) /\ ProcOK(p)'
    BY <1>5, ResetMoves DEF CancelWrite
  <2> QED  BY <2>5, <2>6, <2>7, Frame
<1> QED  BY <1>3, <1>4, <1>5 DEF Cancel

\* A step of no process, that changes only locks, jobs' statuses and starts.
LEMMA Outside ==
  ASSUME Inv, SharedTypes', Created',
         UNCHANGED <<row, session, decision, origin, greens, procVars>>
  PROVE  Inv'
<1>1. LocalTypes' /\ RunsOK' /\ \A p \in Procs : ProcOK(p)'
  BY TypesSplit DEF Inv, LocalTypes, procVars, RunsOK, DecisionsOK, RowOK, Green, ProcOK
<1>2. TypeOK'
  BY <1>1 DEF TypeOK, LocalTypes, SharedTypes
<1> QED  BY <1>1, <1>2 DEF Inv

LEMMA LockExpiresInv ==
  ASSUME Inv, NEW r \in Runs, LockExpires(r)
  PROVE  Inv'
<1>1. SharedTypes
  BY TypesSplit DEF Inv
<1>2. UNCHANGED <<row, owner, session, overruled, decision, job, claims, origin, greens, faults, procVars>>
  BY DEF LockExpires, jobVars
<1>3. SharedTypes' /\ Created'
  BY <1>1, <1>2 DEF LockExpires, SharedTypes, Inv, Created
<1> QED  BY <1>2, <1>3, Outside

LEMMA DecideInv ==
  ASSUME Inv, NEW d \in People, SetApproval(d) \/ \E r \in Runs : ReadSession(d, r)
  PROVE  Inv'
<1>1. SharedTypes /\ LocalTypes /\ RunsOK
  BY TypesSplit DEF Inv
<1>2. UNCHANGED <<row, owner, fresh, job, claims, origin, greens, faults, procVars>>
  BY DEF SetApproval, ReadSession, jobVars
<1>3. \A r \in Runs : Green(r)' <=> Green(r)
  BY <1>2 DEF Green
<1>4. ASSUME NEW r \in Runs, ReadSession(d, r)
      PROVE  SharedTypes' /\ RunsOK'
  <2>1. /\ decision' = [decision EXCEPT ![d] = [run |-> r, status |-> session[r]]]
        /\ UNCHANGED <<session, overruled>>
    BY <1>4 DEF ReadSession
  <2>2. session[r] \in Sessions /\ (session[r] = "passed" => Green(r))
    BY <1>1 DEF SharedTypes, RunsOK
  <2>3. decision' \in [People -> [run : Runs \cup {NoRun}, status : Sessions \cup {"none"}]]
    BY <1>1, <2>1, <2>2 DEF SharedTypes
  <2>4. SharedTypes'
    BY <1>1, <1>2, <2>1, <2>3 DEF SharedTypes
  <2>5. DecisionsOK'
    <3> SUFFICES ASSUME NEW e \in People, decision'[e].status # "none"
                 PROVE  (decision'[e].run \in Runs /\ (decision'[e].status = "passed" => Green(decision[e].run)'))
      BY DEF DecisionsOK
    <3>1. CASE e = d
      BY <1>1, <1>3, <2>1, <2>2, <3>1 DEF SharedTypes
    <3>2. CASE e # d
      BY <1>1, <1>3, <2>1, <3>2 DEF SharedTypes, RunsOK, DecisionsOK
    <3> QED  BY <3>1, <3>2
  <2> QED  BY <1>1, <1>2, <1>3, <2>1, <2>4, <2>5 DEF RunsOK, RowOK
<1>5. ASSUME SetApproval(d)
      PROVE  SharedTypes' /\ RunsOK'
  <2>1. PICK r \in Runs : r = decision[d].run
    BY <1>1, <1>5 DEF SetApproval, RunsOK, DecisionsOK
  <2>2. PICK s \in {decision[d].status, "rejected"} : session' = [session EXCEPT ![r] = s]
    BY <1>5, <2>1 DEF SetApproval
  <2>3. /\ overruled' = [overruled EXCEPT ![r] = TRUE]
        /\ decision' = [decision EXCEPT ![d].status = "none"]
        /\ decision[d].status # "none"
    BY <1>5, <2>1 DEF SetApproval
  <2>4. s \in Sessions /\ (s = "passed" => Green(r))
    BY <1>1, <2>1, <2>2, <2>3 DEF SharedTypes, Sessions, RunsOK, DecisionsOK
  <2>5. SharedTypes'
    BY <1>1, <1>2, <2>2, <2>3, <2>4 DEF SharedTypes
  <2>6. DecisionsOK'
    <3> SUFFICES ASSUME NEW e \in People, decision'[e].status # "none"
                 PROVE  (decision'[e].run \in Runs /\ (decision'[e].status = "passed" => Green(decision[e].run)'))
      BY DEF DecisionsOK
    <3>1. CASE e = d
      BY <1>1, <2>3, <3>1 DEF SharedTypes
    <3>2. CASE e # d
      BY <1>1, <1>3, <2>3, <3>2 DEF SharedTypes, RunsOK, DecisionsOK
    <3> QED  BY <3>1, <3>2
  <2>7. \A q \in Runs : session'[q] = IF q = r THEN s ELSE session[q]
    BY <1>1, <2>2 DEF SharedTypes
  <2> QED  BY <1>1, <1>2, <1>3, <2>4, <2>5, <2>6, <2>7 DEF RunsOK, RowOK
<1>6. LocalTypes' /\ Created' /\ \A p \in Procs : ProcOK(p)'
  BY <1>1, <1>2, <1>3 DEF Inv, LocalTypes, procVars, Created, RowOK, Green, ProcOK
<1>7. TypeOK'
  BY <1>4, <1>5, <1>6, TypesSplit DEF TypeOK, LocalTypes, SharedTypes
<1> QED  BY <1>4, <1>5, <1>6, <1>7 DEF Inv

LEMMA WorkerStepInv ==
  ASSUME Inv, WorkerStep
  PROVE  Inv'
<1>1. SharedTypes
  BY TypesSplit DEF Inv
<1>2. UNCHANGED <<row, owner, fresh, session, overruled, decision, origin, greens, faults, procVars>>
  BY DEF WorkerStep, rowVars
<1>3. /\ job' \in [Jobs -> {"absent", "queued", "running"} \cup Finished]
      /\ claims' \in [Jobs -> Nat]
      /\ \A k \in Jobs : job[k] # "absent" => job'[k] # "absent"
  <2>1. CASE Worker!Exhaust
    BY <1>1, <2>1 DEF Worker!Exhaust, Worker!GiveUp, Worker!Unfinished, SharedTypes, Finished
  <2>2. CASE \E j \in Jobs : Worker!Start(j)
    BY <1>1, <2>2 DEF Worker!Start, Worker!GiveUp, Worker!Unfinished, SharedTypes, Finished
  <2>3. CASE \E j \in Jobs : Worker!Settle(j)
    BY <1>1, <2>3 DEF Worker!Settle, Worker!Verdicts, SharedTypes, Finished
  <2> QED  BY <2>1, <2>2, <2>3 DEF WorkerStep
<1>4. SharedTypes' /\ Created'
  BY <1>1, <1>2, <1>3 DEF SharedTypes, Inv, Created
<1> QED  BY <1>2, <1>4, Outside

-----------------------------------------------------------------------------
(* The theorems.                                                           *)

LEMMA StepInv ==
  ASSUME Inv, [Next]_vars
  PROVE  Inv'
<1>1. CASE \E c \in Crons : Tick(c) \/ Fault(c)
  BY <1>1, TickInv, FaultInv
<1>2. CASE \E p \in Clients : Cancel(p) \/ \E r \in Runs :
             Start(p, r) \/ RequestResume(p, r) \/ RequestCancel(p, r)
  BY <1>2, CancelInv, StartInv, RequestsInv DEF Procs
<1>3. CASE \E p \in Procs : Work(p) \/ Crash(p)
  BY <1>3, CrashInv, ReadRunInv, ReadJobInv, UpdateReadInv, UpdateWriteInv, JudgeInv,
     SessionReadInv, SessionWriteInv, BlockedPatchInv, EnqueueTestInv DEF Work
<1>4. CASE \E r \in Runs : LockExpires(r)
  BY <1>4, LockExpiresInv
<1>5. CASE WorkerStep
  BY <1>5, WorkerStepInv
<1>6. CASE UNCHANGED vars
  <2>1. UNCHANGED <<row, session, decision, job, origin, greens, procVars>>
    BY <1>6 DEF vars, rowVars, jobVars
  <2>2. SharedTypes'
    BY <1>6, TypesSplit DEF vars, rowVars, jobVars, Inv, SharedTypes
  <2>3. Created'
    BY <2>1 DEF Inv, Created
  <2> QED  BY <2>1, <2>2, <2>3, Outside
<1>7. CASE \E d \in People : SetApproval(d) \/ \E r \in Runs : ReadSession(d, r)
  BY <1>7, DecideInv
<1> QED  BY <1>1, <1>2, <1>3, <1>4, <1>5, <1>6, <1>7 DEF Next

LEMMA Invariance == Spec => []Inv
<1>1. Inv /\ [Next]_vars => Inv'
  BY StepInv
<1> QED  BY InitInv, <1>1, PTL DEF Spec

\* Every variable keeps its type for any runs, jobs, crons and clients: a merge of a
\* stale copy writes a row of the table's shape, and no round passes max_rounds.
THEOREM RunsTypeCorrect == Spec => []TypeOK
<1>1. Inv => TypeOK
  BY DEF Inv
<1> QED  BY Invariance, <1>1, PTL

\* The fail-safe of the orchestrator over the judge holds with no lock at all: neither
\* a run nor its session is shown as passed before some resume saw a passed test job
\* of that run, whoever resumes, cancels, crashes or writes a stale copy back.
THEOREM NoVerdictWithoutGreen == Spec => []GreenBeforePassed
<1>1. Inv => GreenBeforePassed
  BY DEF Inv, RunsOK, RowOK, Green, GreenBeforePassed
<1> QED  BY Invariance, <1>1, PTL

\* A run waits for a worker exactly while it is linked to a test job of its own, so no
\* race of updates leaves a run that findResumableOrchestrations would never select.
THEOREM LinkedWhileWaiting == Spec => []PendingWhileWaiting
<1>1. Inv => PendingWhileWaiting
  BY DEF Inv, RunsOK, RowOK, PendingWhileWaiting
<1> QED  BY Invariance, <1>1, PTL

-----------------------------------------------------------------------------
(* One resume at a time.  Nobody resumes by hand, and either there is one     *)
(* cron, whose ticks do not overlap, or the lock keeps the crons apart: it is *)
(* one conditional UPDATE, and a resume ends before its lock expires.  Then a *)
(* run has one writer of its rounds and verdicts.                             *)

OneCron  == \A c, d \in Crons : c = d
OneByOne == ~ManualResume /\ (OneCron \/ (Backend = "sqlite" /\ Prompt))

\* From the lock of a run, or the half of it that Postgres takes first, to its release.
Held(p) == pc[p] \in InResume \cup {"lock_write", "lock_check", "release"}
Open    == {"running", "waiting_for_worker", "cancelled"}

OnePerRun == \A p, q \in Procs : p # q /\ Held(p) /\ Held(q) => on[p] # on[q]

Locks(p) == owner[on[p]] = OwnerOf[p] /\ fresh[on[p]]

\* A cron works on a run that was started, under its lock if there are others; a client
\* on the run it started, which waits for nobody.
CronOK(p) == p \in Crons =>
  /\ pc[p] \notin {"cancel_job", "cancel_read", "cancel_write"}
  /\ ~OneCron => pc[p] \notin {"lock_write", "lock_check"} /\ (Held(p) => Locks(p))
  /\ Held(p) => row[on[p]].status \notin {"absent", "running"}
  /\ pc[p] = "write" => copy[p].status # "running"

ClientOK(p) == p \in Clients =>
  /\ pc[p] \notin {"batch", "lock", "lock_write", "lock_check", "resume", "read_job", "verdict", "release"}
  /\ task[p] \notin {"review", "judge", "fault"}
  /\ Held(p) => row[on[p]].status \in {"running", "cancelled"}
  /\ pc[p] = "write" => copy[p].status \in {"running", "cancelled"}
  /\ pc[p] \in {"cancel_job", "cancel_read", "cancel_write"} => Cancels

Updating(p) == pc[p] \in {"read", "write"}
Saving(p)   == pc[p] \in {"session_read", "session_write"}

Untested(r, n) == \A j \in Jobs : origin[j].run = r => origin[j].round < n

\* The round a process works on is that of the row, or the next one, for which there
\* is no job before the row has it.
RoundOK(p) ==
  /\ pc[p] = "idle" => round[p] = 1
  /\ pc[p] \in {"read_job", "verdict", "implement"} => round[p] = row[on[p]].round
  /\ Updating(p) /\ task[p] \in {"review", "judge", "link"} => round[p] = row[on[p]].round
  /\ pc[p] = "implement" => Untested(on[p], round[p])
  /\ (Updating(p) \/ Saving(p)) /\ task[p] = "implement" =>
       /\ Untested(on[p], round[p])
       /\ \/ round[p] = row[on[p]].round
          \/ round[p] = row[on[p]].round + 1 /\ row[on[p]].status # "running"
  /\ pc[p] = "write" => copy[p].round = row[on[p]].round

\* The session of run r shows v, unless a person wrote it since.
Shown(r, v) == session[r] = v \/ overruled[r]

\* A step that leaves the session of r to the processes, or takes it from them.
SessionKept(r) == overruled'[r] \/ (session'[r] = session[r] /\ overruled'[r] = overruled[r])

USE DEF Shown, SessionKept

\* What a process is about to write agrees with what it wrote to the session.
WordOK(p) ==
  /\ task[p] = "fault" => pc[p] \in {"read", "write", "release"}
  /\ Updating(p) => task[p] # "none"
  /\ Progressing(p) /\ task[p] # "fault" => row[on[p]].status \in Open
  /\ Updating(p) /\ task[p] = "finish" => Shown(on[p], outcome[p])
  /\ pc[p] = "write" =>
       /\ copy[p].status # "absent"
       /\ copy[p].status \in Verdicts => task[p] = "fault" /\ Shown(on[p], copy[p].status)
       /\ ~Cancels => copy[p].status = row[on[p]].status

Facts(p) == CronOK(p) /\ ClientOK(p) /\ RoundOK(p) /\ WordOK(p)

RunOK(r) ==
  /\ \A j \in Jobs : origin[j].run = r => origin[j].round <= row[r].round
  /\ row[r].status = "absent" => row[r].round = 1 /\ \A j \in Jobs : origin[j].run # r
  /\ row[r].status \in Verdicts => Shown(r, row[r].status)
  /\ ~Cancels => row[r].status # "cancelled"

Orderly == OnePerRun /\ OneJobPerRound /\ (\A r \in Runs : RunOK(r)) /\ \A p \in Procs : Facts(p)

LEMMA Apart == \A p \in Crons : p \notin Clients /\ p \in Procs
BY AsyncAssumption DEF Procs

\* The other processes stay where they are.
Alone(p) ==
  \A q \in Procs \ {p} :
    /\ pc'[q] = pc[q] /\ on'[q] = on[q] /\ task'[q] = task[q] /\ copy'[q] = copy[q]
    /\ round'[q] = round[q] /\ outcome'[q] = outcome[q]

\* What holds of a process holds as long as nobody touches it or its run.
LEMMA FactsStay ==
  ASSUME NEW q \in Procs, Facts(q),
         pc'[q] = pc[q], on'[q] = on[q], task'[q] = task[q], copy'[q] = copy[q],
         round'[q] = round[q], outcome'[q] = outcome[q],
         Held(q) => /\ row'[on[q]] = row[on[q]] /\ SessionKept(on[q])
                    /\ owner'[on[q]] = owner[on[q]] /\ fresh'[on[q]] = fresh[on[q]]
                    /\ \A j \in Jobs : origin'[j].run = on[q] => origin'[j] = origin[j]
  PROVE  Facts(q)'
<1>1. CronOK(q)'  BY DEF Facts, CronOK, Locks, Held, InResume
<1>2. ClientOK(q)'  BY DEF Facts, ClientOK, Held, InResume
<1>3. RoundOK(q)'  BY DEF Facts, RoundOK, Updating, Saving, Untested, Held, InResume
<1>4. WordOK(q)'  BY DEF Facts, WordOK, Updating, Progressing, Held, InResume
<1> QED  BY <1>1, <1>2, <1>3, <1>4 DEF Facts

\* A step of p that writes no row, session or lock.
LEMMA OnlyLooks ==
  ASSUME Orderly, NEW p \in Procs, Alone(p), UNCHANGED <<row, session, overruled, owner, fresh, origin>>,
         Facts(p)', Held(p)' => Held(p) /\ on'[p] = on[p]
  PROVE  Orderly'
<1>1. \A q \in Procs : Facts(q)'
  <2> TAKE q \in Procs
  <2>1. CASE q = p  BY <2>1
  <2>2. CASE q # p  BY <2>2, FactsStay DEF Orderly, Alone
  <2> QED  BY <2>1, <2>2
<1>2. OnePerRun'  BY DEF Orderly, OnePerRun, Alone, Held
<1>3. OneJobPerRound' /\ \A r \in Runs : RunOK(r)'  BY DEF Orderly, OneJobPerRound, RunOK
<1> QED  BY <1>1, <1>2, <1>3 DEF Orderly

\* A step of p that writes run r, which nobody else has in hand.
LEMMA HasToItself ==
  ASSUME Orderly, NEW p \in Procs, NEW r \in Runs, Alone(p),
         \A s \in Runs \ {r} : /\ row'[s] = row[s] /\ SessionKept(s)
                               /\ owner'[s] = owner[s] /\ fresh'[s] = fresh[s],
         \A j \in Jobs : origin'[j] = origin[j] \/ (origin[j].run \notin Runs /\ origin'[j].run = r),
         \A q \in Procs \ {p} : Held(q) => on[q] \in Runs \ {r},
         Held(p)' => on'[p] = r,
         Facts(p)', RunOK(r)', OneJobPerRound'
  PROVE  Orderly'
<1>1. \A q \in Procs : Facts(q)'
  <2> TAKE q \in Procs
  <2>1. CASE q = p  BY <2>1
  <2>2. CASE q # p
    <3>1. Held(q) => \A j \in Jobs : origin'[j].run = on[q] => origin'[j] = origin[j]
      BY <2>2
    <3>2. Facts(q)  BY DEF Orderly
    <3> QED  BY <2>2, <3>1, <3>2, FactsStay DEF Alone
  <2> QED  BY <2>1, <2>2
<1>2. OnePerRun'  BY DEF Orderly, OnePerRun, Alone, Held
<1>3. ASSUME NEW s \in Runs PROVE RunOK(s)'
  <2>1. CASE s = r  BY <2>1
  <2>2. CASE s # r
    <3>1. \A j \in Jobs : origin'[j].run = s => origin'[j] = origin[j]  BY <2>2
    <3>2. RunOK(s)  BY DEF Orderly
    <3> QED  BY <2>2, <3>1, <3>2 DEF RunOK
  <2> QED  BY <2>1, <2>2
<1> QED  BY <1>1, <1>2, <1>3 DEF Orderly

\* The moves of one process.
LEMMA ResetLocals ==
  ASSUME LocalTypes, NEW p \in Procs, NEW s, NEW r, NEW batch, Reset(p, s, r, batch)
  PROVE  Alone(p) /\ pc'[p] = s /\ on'[p] = r /\ task'[p] = "none" /\ round'[p] = 1
BY DEF LocalTypes, Reset, Alone

LEMMA GotoLocals ==
  ASSUME LocalTypes, NEW p \in Procs, NEW s, Goto(p, s)
  PROVE  /\ Alone(p) /\ pc'[p] = s /\ on'[p] = on[p] /\ task'[p] = task[p] /\ copy'[p] = copy[p]
         /\ round'[p] = round[p] /\ outcome'[p] = outcome[p]
BY DEF LocalTypes, Goto, Alone

\* Between two runs there is nothing to keep.
LEMMA AtRest ==
  ASSUME NEW p \in Procs, pc'[p] \in {"idle", "batch", "lock"}, task'[p] = "none", round'[p] = 1,
         p \in Clients => pc'[p] = "idle"
  PROVE  Facts(p)' /\ ~Held(p)'
<1>1. ~Held(p)' /\ ~Updating(p)' /\ ~Saving(p)' /\ ~Progressing(p)'
  BY DEF Held, Updating, Saving, Progressing, InResume
<1> QED  BY <1>1 DEF Facts, CronOK, Locks, ClientOK, RoundOK, WordOK

\* A process that is done with its run.
LEMMA LeaveFacts ==
  ASSUME LocalTypes, NEW p \in Procs, Leave(p), Facts(p), pc[p] \in InResume,
         p \in Crons => /\ ~OneCron => owner'[on[p]] = OwnerOf[p] /\ fresh'[on[p]]
                        /\ row'[on[p]].status \notin {"absent", "running"}
  PROVE  Alone(p) /\ Facts(p)' /\ (Held(p)' => Held(p) /\ on'[p] = on[p])
<1>1. CASE p \in Crons
  <2>1. Goto(p, "release")  BY <1>1 DEF Leave
  <2>2. Alone(p) /\ pc'[p] = "release" /\ on'[p] = on[p] /\ task'[p] = task[p]
    BY <2>1, GotoLocals
  <2>3. ~Updating(p)' /\ ~Saving(p)' /\ ~Progressing(p)'
    BY <2>2 DEF Updating, Saving, Progressing, InResume
  <2>4. Facts(p)'
    BY <1>1, <2>2, <2>3, Apart DEF Facts, CronOK, Locks, ClientOK, RoundOK, WordOK
  <2> QED  BY <2>2, <2>4 DEF Held
<1>2. CASE p \notin Crons
  <2>1. Reset(p, "idle", NoRun, {})  BY <1>2 DEF Leave
  <2>2. Alone(p) /\ pc'[p] = "idle" /\ task'[p] = "none" /\ round'[p] = 1  BY <2>1, ResetLocals
  <2> QED  BY <2>2, AtRest
<1> QED  BY <1>1, <1>2

\* A cron takes a lock that is free of a run that waits: nobody has that run in hand.
LEMMA TickOrderly ==
  ASSUME OneByOne, Inv, Orderly, NEW c \in Crons, Tick(c)
  PROVE  Orderly'
<1>1. LocalTypes /\ SharedTypes /\ ProcOK(c) /\ Facts(c) /\ c \in Procs /\ c \notin Clients
  BY TypesSplit, Apart DEF Inv, Orderly
<1>2. CASE Scan(c) \/ NextInBatch(c)
  <2>1. UNCHANGED <<row, session, overruled, owner, fresh, origin>>
    BY <1>2 DEF Scan, NextInBatch, rowVars, jobVars
  <2>2. ASSUME NEW s \in {"idle", "batch", "lock"}, NEW r, NEW batch, Reset(c, s, r, batch)
        PROVE  Alone(c) /\ pc'[c] \in {"idle", "batch", "lock"} /\ task'[c] = "none" /\ round'[c] = 1
    BY <1>1, <2>2, ResetLocals
  <2>3. Alone(c) /\ pc'[c] \in {"idle", "batch", "lock"} /\ task'[c] = "none" /\ round'[c] = 1
    <3>1. CASE Scan(c)
      <4>1. Reset(c, "batch", NoRun, {r \in Runs : Resumable(r)})  BY <3>1 DEF Scan
      <4> QED  BY <2>2, <4>1
    <3>2. CASE Reset(c, "idle", NoRun, {})  BY <2>2, <3>2
    <3>3. ASSUME NEW r, Reset(c, "lock", r, todo[c] \ {r})
          PROVE  Alone(c) /\ pc'[c] \in {"idle", "batch", "lock"} /\ task'[c] = "none" /\ round'[c] = 1
      BY <2>2, <3>3
    <3> QED  BY <1>2, <3>1, <3>2, <3>3 DEF NextInBatch
  <2> QED  BY <1>1, <2>1, <2>3, AtRest, OnlyLooks
\* A run that waits, with a free lock, is in nobody's hands.
<1>3. ASSUME NEW r \in Runs, Waiting(r), LockIsFree(r), NEW q \in Procs \ {c}, Held(q)
      PROVE  on[q] \in Runs \ {r}
  <2>1. Facts(q) /\ ProcOK(q) /\ pc[q] \notin {"idle", "batch"}
    BY <1>3 DEF Orderly, Inv, Held, InResume
  <2>2. on[q] \in Runs  BY <2>1 DEF ProcOK
  <2>3. CASE q \in Crons
    <3>1. ~OneCron  BY <1>3, <2>3 DEF OneCron
    <3>2. owner[on[q]] \in Owners /\ fresh[on[q]]
      BY <1>3, <2>1, <2>3, <3>1, AsyncAssumption DEF Facts, CronOK, Locks
    <3> QED  BY <1>3, <2>2, <3>2, AsyncAssumption DEF LockIsFree
  <2>4. CASE q \in Clients  BY <1>3, <2>1, <2>2, <2>4 DEF Facts, ClientOK, Waiting
  <2> QED  BY <2>3, <2>4 DEF Procs
\* The lock is refused.
<1>4. ASSUME pc[c] \in {"lock", "lock_check"}, Goto(c, "batch"),
             UNCHANGED <<row, session, overruled, owner, fresh, origin>>
      PROVE  Orderly'
  <2>1. task[c] # "fault"  BY <1>1, <1>4 DEF Facts, WordOK
  <2>2. Alone(c) /\ pc'[c] = "batch" /\ task'[c] = task[c]
    BY <1>1, <1>4, GotoLocals
  <2>3. ~Held(c)' /\ ~Updating(c)' /\ ~Saving(c)' /\ ~Progressing(c)'
    BY <2>2 DEF Held, Updating, Saving, Progressing, InResume
  <2>4. Facts(c)'
    BY <1>1, <2>1, <2>2, <2>3 DEF Facts, CronOK, Locks, ClientOK, RoundOK, WordOK
  <2> QED  BY <1>1, <1>4, <2>2, <2>3, <2>4, OnlyLooks
\* The lock is won, or is being won, by a cron that is on its way to a resume.
<1>5. ASSUME NEW r \in Runs, r = on[c], pc[c] \in {"lock", "lock_write", "lock_check"},
             NEW s \in {"lock_write", "lock_check", "resume"}, Goto(c, s),
             row' = row, session' = session, overruled' = overruled, origin' = origin,
             \A t \in Runs \ {r} : owner'[t] = owner[t] /\ fresh'[t] = fresh[t],
             OneCron \/ (s = "resume" /\ owner'[r] = OwnerOf[c] /\ fresh'[r]),
             row[r].status \notin {"absent", "running"},
             \A q \in Procs \ {c} : Held(q) => on[q] \in Runs \ {r}
      PROVE  Orderly'
  <2>1. task[c] # "fault"  BY <1>1, <1>5 DEF Facts, WordOK
  <2>2. Alone(c) /\ pc'[c] = s /\ on'[c] = r /\ task'[c] = task[c]
    BY <1>1, <1>5, GotoLocals
  <2>3. ~Updating(c)' /\ ~Saving(c)' /\ ~Progressing(c)'
    BY <2>2 DEF Updating, Saving, Progressing, InResume
  <2>4. Facts(c)'
    BY <1>1, <1>5, <2>1, <2>2, <2>3 DEF Facts, CronOK, Locks, ClientOK, RoundOK, WordOK
  <2>5. RunOK(r)' /\ OneJobPerRound'
    BY <1>5 DEF Orderly, RunOK, OneJobPerRound
  <2> QED  BY <1>1, <1>5, <2>2, <2>4, <2>5, HasToItself
<1>6. CASE LockAtomic(c)
  <2>1. pc[c] = "lock" /\ on[c] \in Runs
    BY <1>1, <1>6 DEF LockAtomic, ProcOK, InResume
  <2>2. PICK r \in Runs : r = on[c]  BY <2>1
  <2>3. CASE ~(Waiting(r) /\ LockIsFree(r))
    BY <1>4, <1>6, <2>1, <2>2, <2>3 DEF LockAtomic, rowVars, jobVars
  <2>4. CASE Waiting(r) /\ LockIsFree(r)
    <3>1. SetLock(r, OwnerOf[c]) /\ Goto(c, "resume") /\ UNCHANGED origin
      BY <1>6, <2>2, <2>4 DEF LockAtomic, jobVars
    <3>2. /\ owner'[r] = OwnerOf[c] /\ fresh'[r] /\ row' = row /\ session' = session /\ overruled' = overruled
          /\ \A t \in Runs \ {r} : owner'[t] = owner[t] /\ fresh'[t] = fresh[t]
      BY <1>1, <3>1 DEF SetLock, SharedTypes
    <3>3. row[r].status \notin {"absent", "running"}  BY <2>4 DEF Waiting
    <3> QED  BY <1>3, <1>5, <2>1, <2>2, <2>4, <3>1, <3>2, <3>3
  <2> QED  BY <2>3, <2>4
\* On Postgres there is one cron.
<1>7. CASE LockRead(c)
  <2>1. pc[c] = "lock" /\ on[c] \in Runs /\ OneCron
    BY <1>1, <1>7 DEF LockRead, ProcOK, InResume, OneByOne
  <2>2. PICK r \in Runs : r = on[c]  BY <2>1
  <2>3. UNCHANGED <<row, session, overruled, owner, fresh, origin>>  BY <1>7 DEF LockRead, rowVars, jobVars
  <2>4. CASE ~(Waiting(r) /\ LockIsFree(r))
    BY <1>4, <1>7, <2>1, <2>2, <2>3, <2>4 DEF LockRead
  <2>5. CASE Waiting(r) /\ LockIsFree(r)
    <3>1. Goto(c, "lock_write")  BY <1>7, <2>2, <2>5 DEF LockRead
    <3>2. row[r].status \notin {"absent", "running"}  BY <2>5 DEF Waiting
    <3> QED  BY <1>3, <1>5, <2>1, <2>2, <2>3, <2>5, <3>1, <3>2
  <2> QED  BY <2>4, <2>5
<1>8. CASE LockWrite(c) \/ LockCheck(c)
  <2>1. Held(c) /\ on[c] \in Runs /\ OneCron /\ row[on[c]].status \notin {"absent", "running"}
    BY <1>1, <1>8 DEF LockWrite, LockCheck, ProcOK, Held, Facts, CronOK
  <2>2. PICK r \in Runs : r = on[c]  BY <2>1
  <2>3. \A q \in Procs \ {c} : Held(q) => on[q] \in Runs \ {r}
    BY <1>1, <2>1, <2>2 DEF Orderly, OnePerRun, Inv, ProcOK, Held, InResume
  <2>4. CASE LockWrite(c)
    <3>1. /\ Goto(c, "lock_check") /\ row' = row /\ session' = session /\ overruled' = overruled /\ origin' = origin
          /\ \A t \in Runs \ {r} : owner'[t] = owner[t] /\ fresh'[t] = fresh[t]
      BY <1>1, <2>2, <2>4 DEF LockWrite, SetLock, rowVars, jobVars, SharedTypes
    <3> QED  BY <1>5, <2>1, <2>2, <2>3, <2>4, <3>1 DEF LockWrite
  <2>5. CASE LockCheck(c)
    <3>1. pc[c] = "lock_check" /\ UNCHANGED <<row, session, overruled, owner, fresh, origin>>
      BY <2>5 DEF LockCheck, rowVars, jobVars
    <3>2. CASE Goto(c, "resume")  BY <1>5, <2>1, <2>2, <2>3, <3>1, <3>2
    <3>3. CASE Goto(c, "batch")   BY <1>4, <3>1, <3>3
    <3> QED  BY <2>5, <3>2, <3>3 DEF LockCheck
  <2> QED  BY <1>8, <2>4, <2>5
<1>9. CASE Release(c)
  <2>1. Held(c) /\ on[c] \in Runs  BY <1>1, <1>9 DEF Release, Held, ProcOK
  <2>2. PICK r \in Runs : r = on[c]  BY <2>1
  <2>3. /\ row' = row /\ session' = session /\ overruled' = overruled /\ origin' = origin
        /\ \A s \in Runs \ {r} : owner'[s] = owner[s] /\ fresh'[s] = fresh[s]
    BY <1>1, <1>9, <2>2 DEF Release, jobVars, SharedTypes
  <2>4. Alone(c) /\ pc'[c] = "batch" /\ task'[c] = "none" /\ round'[c] = 1
    BY <1>1, <1>9, ResetLocals DEF Release
  <2>5. Facts(c)' /\ ~Held(c)'  BY <1>1, <2>4, AtRest
  <2>6. \A q \in Procs \ {c} : Held(q) => on[q] \in Runs \ {r}
    BY <1>1, <2>1, <2>2 DEF Orderly, OnePerRun, Inv, ProcOK, Held, InResume
  <2>7. RunOK(r)' /\ OneJobPerRound'  BY <2>3 DEF Orderly, RunOK, OneJobPerRound
  <2> QED  BY <1>1, <2>3, <2>4, <2>5, <2>6, <2>7, HasToItself
<1> QED  BY <1>2, <1>6, <1>7, <1>8, <1>9 DEF Tick, Lock

\* A new run is in the hands of the client that started it.
LEMMA StartOrderly ==
  ASSUME OneByOne, Inv, Orderly, NEW p \in Clients, NEW r \in Runs, Start(p, r)
  PROVE  Orderly'
<1>1. LocalTypes /\ SharedTypes /\ Facts(p) /\ RunOK(r) /\ p \in Procs /\ p \notin Crons /\ row[r] \in Rows
  BY TypesSplit, AsyncAssumption DEF Inv, Orderly, Procs, SharedTypes
<1>2. row[r].status = "absent" /\ pc[p] = "idle"  BY DEF Start
<1>3. /\ row'[r].status = "running" /\ row'[r].round = row[r].round
      /\ \A s \in Runs \ {r} : row'[s] = row[s]
      /\ UNCHANGED <<owner, fresh, session, overruled, origin>>
  BY <1>1 DEF Start, SharedTypes, Rows, jobVars
<1>4. /\ Alone(p) /\ pc'[p] = "session_read" /\ on'[p] = r /\ task'[p] = "implement"
      /\ round'[p] = round[p]
  BY <1>1 DEF Start, BeginUpdate, LocalTypes, Alone
<1>5. round[p] = 1 /\ row[r].round = 1 /\ \A j \in Jobs : origin[j].run # r
  BY <1>1, <1>2 DEF Facts, RoundOK, RunOK
<1>6. \A q \in Procs \ {p} : Held(q) => on[q] \in Runs \ {r}
  <2> SUFFICES ASSUME NEW q \in Procs \ {p}, Held(q) PROVE on[q] \in Runs \ {r}  OBVIOUS
  <2>1. Facts(q) /\ ProcOK(q) /\ pc[q] \notin {"idle", "batch"}
    BY DEF Orderly, Inv, Held, InResume
  <2>2. on[q] \in Runs  BY <2>1 DEF ProcOK
  <2>3. row[on[q]].status # "absent"  BY <2>1 DEF Facts, CronOK, Locks, ClientOK, Procs
  <2> QED  BY <1>2, <2>2, <2>3
<1>7. Facts(p)'
  <2>1. ~Updating(p)'  BY <1>4 DEF Updating
  <2> QED
    BY <1>1, <1>3, <1>4, <1>5, <2>1 DEF Facts, CronOK, Locks, ClientOK, RoundOK, WordOK, Untested, Open
<1>8. RunOK(r)'  BY <1>3, <1>5 DEF RunOK, Verdicts
<1>9. OneJobPerRound'  BY <1>3 DEF Orderly, OneJobPerRound
<1> QED  BY <1>1, <1>3, <1>4, <1>6, <1>7, <1>8, <1>9, HasToItself

\* The reads of a resume.
LEMMA ReadsOrderly ==
  ASSUME OneByOne, Inv, Orderly, NEW p \in Procs, ReadRun(p) \/ ReadJob(p)
  PROVE  Orderly'
<1>1. LocalTypes /\ SharedTypes /\ ProcOK(p) /\ Facts(p)
  BY TypesSplit DEF Inv, Orderly
<1>2. p \in Crons /\ p \notin Clients /\ pc[p] \in InResume /\ Held(p)
  BY <1>1, Apart DEF ReadRun, ReadJob, Facts, ClientOK, Procs, InResume, Held
<1>3. UNCHANGED <<row, session, overruled, owner, fresh, origin>>
  BY DEF ReadRun, ReadJob, rowVars, jobVars
<1>4. CASE Leave(p)
  <2>1. /\ ~OneCron => owner'[on[p]] = OwnerOf[p] /\ fresh'[on[p]]
        /\ row'[on[p]].status \notin {"absent", "running"}
    BY <1>1, <1>2, <1>3 DEF Facts, CronOK, Locks
  <2>2. Alone(p) /\ Facts(p)' /\ (Held(p)' => Held(p) /\ on'[p] = on[p])
    BY <1>1, <1>2, <1>4, <2>1, LeaveFacts
  <2> QED  BY <1>3, <2>2, OnlyLooks
<1>5. CASE ReadRun(p) /\ ~Leave(p)
  <2>1. /\ Alone(p) /\ pc'[p] = "read_job" /\ on'[p] = on[p] /\ task'[p] = task[p]
        /\ round'[p] = row[on[p]].round /\ pc[p] = "resume"
        /\ row[on[p]].status = "waiting_for_worker"
    BY <1>1, <1>5 DEF ReadRun, LocalTypes, Alone
  <2>2. ~Updating(p)' /\ ~Saving(p)'  BY <2>1 DEF Updating, Saving
  <2>3. Facts(p)'
    BY <1>1, <1>2, <1>3, <2>1, <2>2 DEF Facts, CronOK, Locks, ClientOK, RoundOK, WordOK, Open
  <2> QED  BY <1>2, <1>3, <2>1, <2>3, OnlyLooks
<1>6. CASE ReadJob(p) /\ ~Leave(p)
  <2>1. /\ Alone(p) /\ pc'[p] = "read" /\ on'[p] = on[p] /\ task'[p] = "review"
        /\ round'[p] = round[p] /\ pc[p] = "read_job"
    BY <1>1, <1>6 DEF ReadJob, BeginUpdate, LocalTypes, Alone
  <2>2. round[p] = row[on[p]].round /\ row[on[p]].status \in Open
    BY <1>1, <2>1 DEF Facts, RoundOK, WordOK, Progressing, InResume
  <2>3. ~Saving(p)'  BY <2>1 DEF Saving
  <2>4. Facts(p)'
    BY <1>1, <1>2, <1>3, <2>1, <2>2, <2>3 DEF Facts, CronOK, Locks, ClientOK, RoundOK, WordOK
  <2> QED  BY <1>2, <1>3, <2>1, <2>4, OnlyLooks
<1> QED  BY <1>4, <1>5, <1>6

\* The session: an update of its rounds writes back the status it read, stale or not,
\* while the run is open; a verdict is written before that of the run.
LEMMA SessionReadOrderly ==
  ASSUME OneByOne, Inv, Orderly, NEW p \in Procs, SessionRead(p)
  PROVE  Orderly'
<1>1. LocalTypes /\ ProcOK(p) /\ Facts(p)  BY TypesSplit DEF Inv, Orderly
<1>2. UNCHANGED <<row, session, overruled, owner, fresh, origin>>  BY DEF SessionRead, rowVars, jobVars
<1>3. /\ Alone(p) /\ pc'[p] = "session_write" /\ on'[p] = on[p] /\ task'[p] = task[p]
      /\ round'[p] = round[p] /\ pc[p] = "session_read"
  BY <1>1 DEF SessionRead, LocalTypes, Alone
<1>4. Held(p) /\ Saving(p) /\ Progressing(p) /\ ~Updating(p)' /\ Saving(p)'
  BY <1>3 DEF Held, Saving, Progressing, Updating, InResume
<1>5. Facts(p)'
  <2>1. CronOK(p)' /\ ClientOK(p)'  BY <1>1, <1>2, <1>3, <1>4 DEF Facts, CronOK, Locks, ClientOK
  <2>2. RoundOK(p)'  BY <1>1, <1>2, <1>3, <1>4 DEF Facts, RoundOK, Untested
  <2>3. WordOK(p)'  BY <1>1, <1>2, <1>3, <1>4 DEF Facts, WordOK
  <2> QED  BY <2>1, <2>2, <2>3 DEF Facts
<1> QED  BY <1>2, <1>3, <1>4, <1>5, OnlyLooks

\* The run of a process that holds one, and that nobody else does.
LEMMA OwnRun ==
  ASSUME Inv, Orderly, NEW p \in Procs, Held(p)
  PROVE  /\ on[p] \in Runs
         /\ \A q \in Procs \ {p} : Held(q) => on[q] \in Runs \ {on[p]}
BY DEF Inv, Orderly, OnePerRun, ProcOK, Held, InResume

LEMMA SessionWriteOrderly ==
  ASSUME OneByOne, Inv, Orderly, NEW p \in Procs, SessionWrite(p)
  PROVE  Orderly'
<1>1. LocalTypes /\ SharedTypes /\ ProcOK(p) /\ Facts(p)  BY TypesSplit DEF Inv, Orderly
<1>2. /\ pc[p] = "session_write" /\ Held(p) /\ Saving(p) /\ Progressing(p) /\ ~Updating(p)
      /\ task[p] \in {"implement", "finish"}
  BY <1>1 DEF SessionWrite, Held, Saving, Progressing, Updating, InResume, ProcOK
<1>3. PICK r \in Runs : r = on[p]  BY <1>2, OwnRun
<1>4. /\ session'[r] = outcome[p] /\ ~overruled'[r] /\ \A s \in Runs \ {r} : SessionKept(s)
      /\ UNCHANGED <<row, owner, fresh, origin>>
  BY <1>1, <1>3 DEF SessionWrite, SharedTypes, jobVars
<1>5. /\ Alone(p) /\ pc'[p] = "read" /\ on'[p] = r /\ task'[p] = task[p]
      /\ round'[p] = round[p] /\ outcome'[p] = outcome[p]
  BY <1>1, <1>3, GotoLocals DEF SessionWrite
<1>6. Updating(p)' /\ ~Saving(p)'  BY <1>5 DEF Updating, Saving
<1>7. Facts(p)'
  <2>1. CronOK(p)' /\ ClientOK(p)'
    BY <1>1, <1>2, <1>3, <1>4, <1>5 DEF Facts, CronOK, Locks, ClientOK, Held, InResume
  <2>2. RoundOK(p)'  BY <1>1, <1>2, <1>3, <1>4, <1>5, <1>6 DEF Facts, RoundOK, Untested
  <2>3. WordOK(p)'  BY <1>1, <1>2, <1>3, <1>4, <1>5, <1>6 DEF Facts, WordOK
  <2> QED  BY <2>1, <2>2, <2>3 DEF Facts
<1>8. RunOK(r)'
  <2>1. row[r].status \in Open  BY <1>1, <1>2, <1>3 DEF Facts, WordOK
  <2> QED  BY <1>4, <2>1 DEF Orderly, RunOK, Open, Verdicts
<1>9. OneJobPerRound'  BY <1>4 DEF Orderly, OneJobPerRound
<1> QED  BY <1>2, <1>3, <1>4, <1>5, <1>7, <1>8, <1>9, OwnRun, HasToItself

LEMMA UpdateReadOrderly ==
  ASSUME OneByOne, Inv, Orderly, NEW p \in Procs, UpdateRead(p)
  PROVE  Orderly'
<1>1. LocalTypes /\ SharedTypes /\ Facts(p)  BY TypesSplit DEF Inv, Orderly
<1>2. pc[p] = "read" /\ Held(p) /\ Updating(p) /\ Progressing(p)
  BY DEF UpdateRead, Held, Updating, Progressing, InResume
<1>3. UNCHANGED <<row, session, overruled, owner, fresh, origin>>  BY DEF UpdateRead, rowVars, jobVars
<1>4. PICK r \in Runs : r = on[p]  BY <1>2, OwnRun
<1>5. /\ Alone(p) /\ pc'[p] = "write" /\ on'[p] = on[p] /\ task'[p] = task[p]
      /\ round'[p] = round[p] /\ outcome'[p] = outcome[p] /\ copy'[p] = row[r]
  BY <1>1, <1>4 DEF UpdateRead, LocalTypes, Alone
<1>6. Updating(p)' /\ ~Saving(p)' /\ Held(p)'  BY <1>5 DEF Updating, Saving, Held, InResume
<1>7. RunOK(r)  BY DEF Orderly
<1>8. CronOK(p)' /\ ClientOK(p)'
  BY <1>1, <1>2, <1>3, <1>4, <1>5, <1>6 DEF Facts, CronOK, Locks, ClientOK
<1>9. RoundOK(p)'  BY <1>1, <1>2, <1>3, <1>4, <1>5, <1>6 DEF Facts, RoundOK, Untested
<1>10. WordOK(p)'
  <2>1. row[r].status # "absent"  BY <1>1, <1>2, <1>4 DEF Facts, CronOK, Locks, ClientOK, Procs
  <2> QED
    BY <1>1, <1>2, <1>3, <1>4, <1>5, <1>6, <1>7, <2>1 DEF Facts, WordOK, RunOK, Open, Verdicts
<1> QED  BY <1>2, <1>3, <1>5, <1>8, <1>9, <1>10, OnlyLooks DEF Facts

\* What the write of a row leaves: the run keeps its order, and its rounds go on.
LEMMA MergedOrderly ==
  ASSUME Inv, Orderly, NEW p \in Procs, pc[p] = "write", task[p] # "none",
         NEW r \in Runs, r = on[p],
         row' = [row EXCEPT ![r] = Merged(p)], UNCHANGED <<session, overruled, origin>>
  PROVE  /\ \A s \in Runs \ {r} : row'[s] = row[s]
         /\ RunOK(r)'
         /\ p \in Crons => row'[r].status \notin {"absent", "running"}
         /\ p \in Clients /\ task[p] = "implement" => row'[r].status \in {"running", "cancelled"}
         /\ task[p] \in {"review", "judge", "implement"} => row'[r].status \in Open
         /\ task[p] \in {"review", "judge", "implement"} => row'[r].round = round[p]
         /\ task[p] = "implement" => Untested(r, row'[r].round)
<1>1. LocalTypes /\ SharedTypes /\ ProcOK(p) /\ Facts(p) /\ RunOK(r)
  BY TypesSplit DEF Inv, Orderly
<1>2. /\ copy[p] \in Rows /\ Updating(p) /\ round[p] \in Nat /\ Held(p) /\ Progressing(p)
      /\ row[r].round \in Nat
  BY <1>1 DEF LocalTypes, SharedTypes, Rows, Updating, Held, Progressing, InResume
<1>3. row'[r] = Merged(p) /\ \A s \in Runs \ {r} : row'[s] = row[s]
  BY <1>1 DEF SharedTypes
<1>4. /\ copy[p].round = row[r].round /\ copy[p].status # "absent"
      /\ copy[p].status \in Verdicts => task[p] = "fault" /\ Shown(r, copy[p].status)
      /\ ~Cancels => copy[p].status = row[r].status
      /\ p \in Crons => copy[p].status # "running"
      /\ p \in Clients => copy[p].status \in {"running", "cancelled"}
  BY <1>1, <1>2 DEF Facts, RoundOK, WordOK, CronOK, Locks, ClientOK
<1>5. ~Cancels => row[r].status # "cancelled"  BY <1>1 DEF RunOK
<1>6. copy[p].status \in Open \/ copy[p].status \in Verdicts
  BY <1>2, <1>4 DEF Rows, RunStatus, Open, Verdicts, Decided
<1>7. CASE task[p] = "implement"
  <2>1. row'[r].status = copy[p].status /\ row'[r].round = round[p]
    BY <1>2, <1>3, <1>7 DEF Merged, Rows
  <2>2. Untested(r, round[p])  BY <1>1, <1>2, <1>7 DEF Facts, RoundOK
  <2>3. RunOK(r)'
    <3>1. \A j \in Jobs : origin'[j].run = r => origin'[j].round <= row'[r].round
      BY <1>1, <1>2, <2>1, <2>2 DEF Untested, SharedTypes
    <3> QED  BY <1>4, <1>5, <1>7, <2>1, <3>1 DEF RunOK
  <2> QED  BY <1>3, <1>4, <1>6, <1>7, <2>1, <2>2, <2>3
<1>8. CASE task[p] = "link"
  <2>1. row'[r].status = "waiting_for_worker" /\ row'[r].round = row[r].round
    BY <1>1, <1>2, <1>3, <1>8 DEF Merged, Facts, RoundOK
  <2> QED  BY <1>1, <1>3, <1>8, <2>1 DEF RunOK, Verdicts
<1>9. CASE task[p] = "finish"
  <2>1. /\ row'[r].status = outcome[p] /\ row'[r].round = row[r].round
        /\ outcome[p] \in Verdicts /\ Shown(r, outcome[p])
    <3>1. outcome[p] \in Verdicts /\ Shown(r, outcome[p])
      BY <1>1, <1>2, <1>9 DEF Facts, WordOK, ProcOK
    <3>2. Merged(p) = [copy[p] EXCEPT !.status = outcome[p], !.pending = NoJob]
      BY <1>9 DEF Merged
    <3> QED  BY <1>2, <1>3, <1>4, <3>1, <3>2 DEF Rows
  <2>2. outcome[p] \notin {"absent", "running", "cancelled"}  BY <2>1 DEF Verdicts
  <2> QED  BY <1>1, <1>3, <1>9, <2>1, <2>2 DEF RunOK
<1>10. CASE task[p] \in {"review", "judge", "fault"}
  <2>1. row'[r] = copy[p]  BY <1>3, <1>10 DEF Merged
  <2>2. RunOK(r)'
    BY <1>1, <1>4, <1>5, <2>1 DEF RunOK
  <2>3. task[p] # "fault" => round[p] = row[r].round
    BY <1>1, <1>2, <1>10 DEF Facts, RoundOK
  <2> QED  BY <1>3, <1>4, <1>6, <1>10, <2>1, <2>2, <2>3
<1> QED  BY <1>1, <1>7, <1>8, <1>9, <1>10 DEF LocalTypes

LEMMA UpdateWriteOrderly ==
  ASSUME OneByOne, Inv, Orderly, NEW p \in Procs, UpdateWrite(p)
  PROVE  Orderly'
<1>1. LocalTypes /\ SharedTypes /\ ProcOK(p) /\ Facts(p)  BY TypesSplit DEF Inv, Orderly
<1>2. /\ pc[p] = "write" /\ Held(p) /\ Updating(p) /\ Progressing(p) /\ pc[p] \in InResume
      /\ task[p] # "none"
  BY DEF UpdateWrite, Held, Updating, Progressing, InResume
<1>3. PICK r \in Runs : r = on[p]  BY <1>2, OwnRun
<1>4. row' = [row EXCEPT ![r] = Merged(p)] /\ UNCHANGED <<owner, fresh, session, overruled, origin>>
  BY <1>3 DEF UpdateWrite, jobVars
<1>5. /\ \A s \in Runs \ {r} : row'[s] = row[s]
      /\ RunOK(r)'
      /\ p \in Crons => row'[r].status \notin {"absent", "running"}
      /\ p \in Clients /\ task[p] = "implement" => row'[r].status \in {"running", "cancelled"}
      /\ task[p] \in {"review", "judge", "implement"} => row'[r].status \in Open
      /\ task[p] \in {"review", "judge", "implement"} => row'[r].round = round[p]
      /\ task[p] = "implement" => Untested(r, row'[r].round)
  BY <1>2, <1>3, <1>4, MergedOrderly
<1>6. OneJobPerRound'  BY <1>4 DEF Orderly, OneJobPerRound
<1>7. SUFFICES Alone(p) /\ Facts(p)' /\ (Held(p)' => on'[p] = r)
  BY <1>2, <1>3, <1>4, <1>5, <1>6, OwnRun, HasToItself
<1>8. p \in Crons /\ ~OneCron => owner[r] = OwnerOf[p] /\ fresh[r]
  BY <1>1, <1>2, <1>3 DEF Facts, CronOK, Locks
<1>9. CASE Leave(p)
  BY <1>1, <1>2, <1>3, <1>4, <1>5, <1>8, <1>9, LeaveFacts
<1>10. CASE /\ \/ task[p] = "review" /\ BeginUpdate(p, "judge")
               \/ task[p] = "judge" /\ BeginStep(p, "verdict")
               \/ task[p] = "implement" /\ BeginStep(p, "implement")
            /\ copy' = [copy EXCEPT ![p] = NewRow]
            /\ outcome' = [outcome EXCEPT ![p] = "none"]
            /\ UNCHANGED <<on, todo, round, report>>
  <2>1. /\ Alone(p) /\ on'[p] = r /\ round'[p] = round[p]
        /\ \/ task[p] = "review" /\ pc'[p] = "read" /\ task'[p] = "judge"
           \/ task[p] = "judge" /\ pc'[p] = "verdict" /\ task'[p] = "none"
           \/ task[p] = "implement" /\ pc'[p] = "implement" /\ task'[p] = "none"
    BY <1>1, <1>3, <1>10 DEF BeginUpdate, BeginStep, LocalTypes, Alone
  <2>2. p \in Clients => p \notin Crons /\ task[p] = "implement"
    BY <1>1, <2>1, Apart DEF Facts, ClientOK
  <2>3. ~Saving(p)' /\ (Updating(p)' => pc'[p] = "read")  BY <2>1 DEF Updating, Saving
  <2>4. CronOK(p)'  BY <1>4, <1>5, <1>8, <2>1 DEF CronOK, Locks
  <2>5. ClientOK(p)'  BY <1>5, <2>1, <2>2 DEF ClientOK
  <2>6. RoundOK(p)'
    <3>1. task[p] = "implement" => \A j \in Jobs : origin'[j].run = r => origin'[j].round < round[p]
      BY <1>4, <1>5 DEF Untested
    <3> QED  BY <1>5, <2>1, <2>3, <3>1 DEF RoundOK, Untested
  <2>7. WordOK(p)'  BY <1>5, <2>1, <2>3 DEF WordOK
  <2> QED  BY <2>1, <2>4, <2>5, <2>6, <2>7 DEF Facts
<1> QED  BY <1>9, <1>10 DEF UpdateWrite

\* A decision to finish.
LEMMA FinishOrderly ==
  ASSUME OneByOne, Inv, Orderly, NEW p \in Procs, pc[p] \in {"verdict", "implement"}, NEW v, Finish(p, v),
         UNCHANGED <<rowVars, jobVars, faults>>
  PROVE  Orderly'
<1>1. LocalTypes /\ Facts(p) /\ Held(p) /\ Progressing(p)
  BY TypesSplit DEF Inv, Orderly, Held, Progressing, InResume
<1>2. Alone(p) /\ pc'[p] = "session_read" /\ on'[p] = on[p] /\ task'[p] = "finish"
  BY <1>1 DEF Finish, BeginUpdate, LocalTypes, Alone
<1>3. UNCHANGED <<row, session, overruled, owner, fresh, origin>>  BY DEF rowVars, jobVars
<1>4. task[p] # "fault" /\ row[on[p]].status \in Open  BY <1>1 DEF Facts, WordOK
<1>5. ~Updating(p)'  BY <1>2 DEF Updating
<1>6. Facts(p)'
  BY <1>1, <1>2, <1>3, <1>4, <1>5 DEF Facts, CronOK, Locks, ClientOK, RoundOK, WordOK
<1> QED  BY <1>1, <1>2, <1>3, <1>6, OnlyLooks

LEMMA JudgeOrderly ==
  ASSUME OneByOne, Inv, Orderly, NEW p \in Procs, Judge(p)
  PROVE  Orderly'
<1>1. LocalTypes /\ SharedTypes /\ Facts(p) /\ ProcOK(p) /\ Held(p) /\ Progressing(p) /\ pc[p] = "verdict"
  BY TypesSplit DEF Inv, Orderly, Held, Progressing, InResume, Judge
<1>2. CASE \E v : Finish(p, v)  BY <1>1, <1>2, FinishOrderly DEF Judge
<1>3. CASE /\ Another(round[p])
           /\ round' = [round EXCEPT ![p] = round[p] + 1]
           /\ BeginUpdate(p, "implement")
           /\ UNCHANGED <<on, todo, copy, report, outcome>>
  <2>1. /\ Alone(p) /\ pc'[p] = "session_read" /\ on'[p] = on[p] /\ task'[p] = "implement"
        /\ round'[p] = round[p] + 1
    BY <1>1, <1>3 DEF BeginUpdate, LocalTypes, Alone
  <2>2. UNCHANGED <<row, session, overruled, owner, fresh, origin>>  BY DEF Judge, rowVars, jobVars
  <2>3. p \notin Clients /\ p \in Crons  BY <1>1, Apart DEF Facts, ClientOK, Procs
  <2>4. PICK r \in Runs : r = on[p]  BY <1>1, OwnRun
  <2>5. round[p] = row[r].round /\ round[p] \in Nat /\ row[r].status \in Open \ {"running"}
    BY <1>1, <2>3, <2>4 DEF Facts, RoundOK, WordOK, CronOK, Locks, LocalTypes
  <2>6. Untested(r, round[p] + 1)
    <3>1. \A j \in Jobs : origin[j].round \in Nat  BY <1>1 DEF SharedTypes
    <3> QED  BY <2>5, <3>1 DEF Untested, Orderly, RunOK
  <2>7. ~Updating(p)'  BY <2>1 DEF Updating
  <2>8. CronOK(p)' /\ ClientOK(p)' /\ WordOK(p)'
    BY <1>1, <2>1, <2>2, <2>3, <2>4, <2>5, <2>7 DEF Facts, CronOK, Locks, ClientOK, WordOK
  <2>9. RoundOK(p)'  BY <2>1, <2>2, <2>4, <2>5, <2>6, <2>7 DEF RoundOK, Untested
  <2> QED  BY <1>1, <2>1, <2>2, <2>8, <2>9, OnlyLooks DEF Facts
<1> QED  BY <1>2, <1>3 DEF Judge

LEMMA BlockedOrderly ==
  ASSUME OneByOne, Inv, Orderly, NEW p \in Procs, BlockedPatch(p)
  PROVE  Orderly'
BY FinishOrderly DEF BlockedPatch

\* The new job is the first one of the run's round.
LEMMA EnqueueOrderly ==
  ASSUME OneByOne, Inv, Orderly, NEW p \in Procs, EnqueueTest(p)
  PROVE  Orderly'
<1>1. LocalTypes /\ SharedTypes /\ ProcOK(p) /\ Facts(p)  BY TypesSplit DEF Inv, Orderly
<1>2. pc[p] = "implement" /\ Held(p) /\ Progressing(p)
  BY DEF EnqueueTest, Held, Progressing, InResume
<1>3. PICK r \in Runs : r = on[p]  BY <1>2, OwnRun
<1>4. PICK j \in Jobs : /\ job[j] = "absent"
                        /\ origin' = [origin EXCEPT ![j] = [run |-> r, round |-> round[p]]]
  BY <1>3 DEF EnqueueTest, Worker!Create
<1>5. UNCHANGED <<row, session, overruled, owner, fresh>>  BY DEF EnqueueTest, rowVars
<1>6. /\ Alone(p) /\ pc'[p] = "read" /\ on'[p] = r /\ task'[p] = "link" /\ round'[p] = round[p]
  BY <1>1, <1>3 DEF EnqueueTest, BeginUpdate, LocalTypes, Alone
<1>7. /\ origin'[j].run = r /\ origin'[j].round = round[p] /\ origin[j].run \notin Runs
      /\ \A i \in Jobs \ {j} : origin'[i] = origin[i]
  BY <1>1, <1>4 DEF SharedTypes, Inv, Created
<1>8. /\ round[p] = row[r].round /\ round[p] \in Nat /\ Untested(r, round[p]) /\ task[p] # "fault"
      /\ row[r].status \in Open
  BY <1>1, <1>2, <1>3 DEF Facts, RoundOK, WordOK, LocalTypes
<1>9. Facts(p)'
  <2>1. ~Saving(p)' /\ Updating(p)'  BY <1>6 DEF Saving, Updating
  <2>2. CronOK(p)'  BY <1>1, <1>2, <1>3, <1>5, <1>6 DEF Facts, CronOK, Locks
  <2>3. ClientOK(p)'  BY <1>1, <1>2, <1>3, <1>5, <1>6 DEF Facts, ClientOK
  <2>4. RoundOK(p)'  BY <1>5, <1>6, <1>8, <2>1 DEF RoundOK
  <2>5. WordOK(p)'  BY <1>5, <1>6, <1>8, <2>1 DEF WordOK
  <2> QED  BY <2>2, <2>3, <2>4, <2>5 DEF Facts
<1>10. RunOK(r)'
  <2>1. row[r].status # "absent" /\ row[r].status \notin Verdicts  BY <1>8 DEF Open, Verdicts
  <2>2. RunOK(r)  BY DEF Orderly
  <2>3. ASSUME NEW i \in Jobs, origin'[i].run = r PROVE origin'[i].round <= row'[r].round
    BY <1>5, <1>7, <1>8, <2>2, <2>3 DEF RunOK
  <2> QED  BY <1>5, <2>1, <2>2, <2>3 DEF RunOK
<1>11. OneJobPerRound'
  <2> SUFFICES ASSUME NEW i \in Jobs, NEW k \in Jobs, i # k, origin'[i].run # NoRun
               PROVE  origin'[i] # origin'[k]
    BY DEF OneJobPerRound
  <2>1. \A m \in Jobs \ {j} : origin[m].run = r => origin[m].round # round[p]
    <3>1. \A m \in Jobs : origin[m].round \in Nat  BY <1>1 DEF SharedTypes
    <3> QED  BY <1>8, <3>1 DEF Untested
  <2>2. \A m \in Jobs \ {j} : origin'[m] # origin'[j]  BY <1>7, <2>1
  <2>3. CASE i = j \/ k = j  BY <2>2, <2>3
  <2>4. CASE i # j /\ k # j  BY <1>7, <2>4 DEF Orderly, OneJobPerRound
  <2> QED  BY <2>3, <2>4
<1>12. \A i \in Jobs : origin'[i] = origin[i] \/ (origin[i].run \notin Runs /\ origin'[i].run = r)
  BY <1>7
<1> QED  BY <1>2, <1>3, <1>5, <1>6, <1>9, <1>10, <1>11, <1>12, OwnRun, HasToItself

\* A failing call: the row may have been written, and last_error is merged into it.
LEMMA FaultOrderly ==
  ASSUME OneByOne, Inv, Orderly, NEW c \in Crons, Fault(c)
  PROVE  Orderly'
<1>1. LocalTypes /\ SharedTypes /\ ProcOK(c) /\ Facts(c) /\ c \in Procs /\ c \notin Clients
  BY TypesSplit, Apart DEF Inv, Orderly
<1>2. Held(c)
  <2>1. pc[c] \in InResume \/ pc[c] = "release"  BY DEF Fault
  <2> QED  BY <2>1 DEF Held
<1>3. PICK r \in Runs : r = on[c]  BY <1>1, <1>2, OwnRun
<1>4. UNCHANGED <<owner, fresh, session, overruled, origin>>  BY DEF Fault, jobVars
<1>5. (~OneCron => Locks(c)) /\ row[r].status \notin {"absent", "running"}
  BY <1>1, <1>2, <1>3 DEF Facts, CronOK, Locks
<1>6. /\ \A s \in Runs \ {r} : row'[s] = row[s]
      /\ RunOK(r)'
      /\ row'[r].status \notin {"absent", "running"}
  <2>1. CASE row' = row  BY <1>4, <1>5, <2>1 DEF Orderly, RunOK
  <2>2. CASE pc[c] = "write" /\ row' = [row EXCEPT ![r] = Merged(c)]
    <3>1. task[c] # "none"  BY <1>1, <2>2 DEF Facts, WordOK, Updating
    <3> QED  BY <1>1, <1>3, <1>4, <2>2, <3>1, MergedOrderly
  <2> QED  BY <1>3, <2>1, <2>2 DEF Fault
<1>7. OneJobPerRound'  BY <1>4 DEF Orderly, OneJobPerRound
<1>8. SUFFICES Alone(c) /\ Facts(c)' /\ (Held(c)' => on'[c] = r)
  BY <1>1, <1>2, <1>3, <1>4, <1>6, <1>7, OwnRun, HasToItself
<1>9. CASE Reset(c, "batch", NoRun, todo[c])
  <2>1. Alone(c) /\ pc'[c] = "batch" /\ task'[c] = "none" /\ round'[c] = 1
    BY <1>1, <1>9, ResetLocals
  <2> QED  BY <1>1, <2>1, AtRest
<1>10. CASE Goto(c, "release")
  <2>1. Alone(c) /\ pc'[c] = "release" /\ on'[c] = r
    BY <1>1, <1>3, <1>10, GotoLocals
  <2>2. ~Updating(c)' /\ ~Saving(c)' /\ ~Progressing(c)'
    BY <2>1 DEF Updating, Saving, Progressing, InResume
  <2> QED
    BY <1>1, <1>3, <1>4, <1>5, <1>6, <2>1, <2>2 DEF Facts, CronOK, Locks, ClientOK, RoundOK, WordOK
<1>11. CASE BeginUpdate(c, "fault") /\ UNCHANGED <<on, todo, copy, round, report, outcome>>
  <2>1. Alone(c) /\ pc'[c] = "read" /\ on'[c] = r /\ task'[c] = "fault"
    BY <1>1, <1>3, <1>11 DEF BeginUpdate, LocalTypes, Alone
  <2>2. ~Saving(c)'  BY <2>1 DEF Saving
  <2> QED
    BY <1>1, <1>3, <1>4, <1>5, <1>6, <2>1, <2>2 DEF Facts, CronOK, Locks, ClientOK, RoundOK, WordOK
<1> QED  BY <1>9, <1>10, <1>11 DEF Fault

LEMMA CrashOrderly ==
  ASSUME OneByOne, Inv, Orderly, NEW p \in Procs, Crash(p)
  PROVE  Orderly'
<1>1. Alone(p) /\ pc'[p] = "idle" /\ task'[p] = "none" /\ round'[p] = 1
  BY TypesSplit, ResetLocals DEF Inv, Crash
<1>2. Facts(p)' /\ ~Held(p)'  BY <1>1, AtRest
<1> QED  BY <1>1, <1>2, OnlyLooks DEF Crash, rowVars, jobVars

\* A cancel may hit a run that somebody has in hand; it touches neither its round nor
\* its session.
LEMMA CancelOrderly ==
  ASSUME OneByOne, Inv, Orderly, NEW p \in Clients,
         Cancel(p) \/ \E r \in Runs : RequestCancel(p, r)
  PROVE  Orderly'
<1>1. LocalTypes /\ SharedTypes /\ ProcOK(p) /\ Facts(p) /\ p \in Procs /\ p \notin Crons
  BY TypesSplit, AsyncAssumption DEF Inv, Orderly, Procs
<1>2. CASE CancelJob(p) \/ (CancelRead(p) /\ row[on[p]].status \notin Decided)
           \/ \E r \in Runs : RequestCancel(p, r)
  <2>1. /\ Alone(p) /\ pc'[p] \in {"cancel_job", "cancel_read", "cancel_write"} /\ task'[p] = task[p]
        /\ Cancels /\ pc[p] \in {"idle", "cancel_job", "cancel_read"}
    <3>1. CASE \E r \in Runs : RequestCancel(p, r)
      BY <1>1, <3>1 DEF RequestCancel, LocalTypes, Alone
    <3>2. CASE CancelJob(p) \/ (CancelRead(p) /\ row[on[p]].status \notin Decided)
      <4>1. PICK s \in {"cancel_read", "cancel_write"} : Goto(p, s)
        BY <3>2 DEF CancelJob, CancelRead
      <4>2. pc[p] \in {"cancel_job", "cancel_read"} /\ Cancels
        BY <1>1, <3>2 DEF CancelJob, CancelRead, Facts, ClientOK
      <4> QED  BY <1>1, <4>1, <4>2, GotoLocals
    <3> QED  BY <1>2, <3>1, <3>2
  <2>2. UNCHANGED <<row, session, overruled, owner, fresh, origin>>
    BY <1>2 DEF CancelJob, CancelRead, RequestCancel, rowVars, jobVars
  <2>3. ~Held(p)' /\ ~Updating(p)' /\ ~Saving(p)' /\ ~Progressing(p)'
    BY <2>1 DEF Held, Updating, Saving, Progressing, InResume
  <2>4. Facts(p)'
    BY <1>1, <2>1, <2>3 DEF Facts, CronOK, Locks, ClientOK, RoundOK, WordOK
  <2> QED  BY <1>1, <2>1, <2>2, <2>3, <2>4, OnlyLooks
<1>3. CASE CancelRead(p) /\ row[on[p]].status \in Decided
  <2>1. Alone(p) /\ pc'[p] = "idle" /\ task'[p] = "none" /\ round'[p] = 1
    BY <1>1, <1>3, ResetLocals DEF CancelRead
  <2>2. Facts(p)' /\ ~Held(p)'  BY <1>1, <2>1, AtRest
  <2> QED  BY <1>1, <1>3, <2>1, <2>2, OnlyLooks DEF CancelRead, rowVars, jobVars
<1>4. CASE CancelWrite(p)
  <2>1. Cancels /\ on[p] \in Runs
    BY <1>1, <1>4 DEF CancelWrite, Facts, ClientOK, ProcOK
  <2>2. PICK r \in Runs : r = on[p]  BY <2>1
  <2>3. /\ row'[r].status = "cancelled" /\ row'[r].round = row[r].round
        /\ \A s \in Runs \ {r} : row'[s] = row[s]
        /\ UNCHANGED <<session, overruled, owner, fresh, origin>>
    BY <1>1, <1>4, <2>2 DEF CancelWrite, SharedTypes, Rows, jobVars
  <2>4. Alone(p) /\ pc'[p] = "idle" /\ task'[p] = "none" /\ round'[p] = 1
    BY <1>1, <1>4, ResetLocals DEF CancelWrite
  <2>5. Facts(p)' /\ ~Held(p)'  BY <1>1, <2>4, AtRest
  <2>6. ASSUME NEW q \in Procs, q # p PROVE Facts(q)'
    <3>1. /\ pc'[q] = pc[q] /\ on'[q] = on[q] /\ task'[q] = task[q] /\ copy'[q] = copy[q]
          /\ round'[q] = round[q] /\ outcome'[q] = outcome[q]
      BY <2>4, <2>6 DEF Alone
    <3>2. Facts(q)  BY DEF Orderly
    <3>3. CASE Held(q) => on[q] # r
      <4>1. Held(q) => on[q] \in Runs  BY OwnRun
      <4> QED  BY <2>3, <3>1, <3>2, <3>3, <4>1, FactsStay
    <3>4. CASE Held(q) /\ on[q] = r
      <4>1. CronOK(q)'  BY <2>3, <3>1, <3>2, <3>4 DEF Facts, CronOK, Locks
      <4>2. ClientOK(q)'  BY <2>1, <2>3, <3>1, <3>2, <3>4 DEF Facts, ClientOK
      <4>3. RoundOK(q)'
        BY <2>3, <3>1, <3>2, <3>4 DEF Facts, RoundOK, Untested, Updating, Saving
      <4>4. WordOK(q)'
        BY <2>1, <2>3, <3>1, <3>2, <3>4 DEF Facts, WordOK, Updating, Progressing, Open
      <4> QED  BY <4>1, <4>2, <4>3, <4>4 DEF Facts
    <3> QED  BY <3>3, <3>4
  <2>7. \A q \in Procs : Facts(q)'
    <3> TAKE q \in Procs
    <3>1. CASE q = p  BY <2>5, <3>1
    <3>2. CASE q # p  BY <2>6, <3>2
    <3> QED  BY <3>1, <3>2
  <2>8. OnePerRun'  BY <1>1, <2>4, <2>5 DEF Orderly, OnePerRun, Alone, Held
  <2>9. ASSUME NEW s \in Runs PROVE RunOK(s)'
    <3>1. RunOK(s)  BY DEF Orderly
    <3>2. CASE s = r  BY <2>1, <2>3, <3>1, <3>2 DEF RunOK, Verdicts
    <3>3. CASE s # r  BY <2>3, <3>1, <3>3 DEF RunOK
    <3> QED  BY <3>2, <3>3
  <2>10. OneJobPerRound'  BY <2>3 DEF Orderly, OneJobPerRound
  <2> QED  BY <2>7, <2>8, <2>9, <2>10 DEF Orderly
<1> QED  BY <1>2, <1>3, <1>4 DEF Cancel

\* Locks run out, but only those nobody works under.
LEMMA LockExpiresOrderly ==
  ASSUME OneByOne, Inv, Orderly, NEW r \in Runs, LockExpires(r)
  PROVE  Orderly'
<1>1. SharedTypes  BY TypesSplit DEF Inv
<1>2. UNCHANGED <<row, owner, session, overruled, origin, pc, on, task, copy, round, outcome>>
  BY DEF LockExpires, jobVars, procVars
<1>3. \A s \in Runs \ {r} : fresh'[s] = fresh[s]  BY <1>1 DEF LockExpires, SharedTypes
<1>4. ASSUME NEW q \in Procs PROVE Facts(q)'
  <2>1. Facts(q)  BY DEF Orderly
  <2>2. CASE q \in Crons /\ ~OneCron
    <3>1. Held(q) => on[q] \in Runs \ {r}
      BY <2>1, <2>2, OwnRun DEF LockExpires, OneByOne, Locked, Held, Facts, CronOK
    <3> QED  BY <1>2, <1>3, <2>1, <3>1, FactsStay
  <2>3. CASE q \notin Crons \/ OneCron
    BY <1>2, <2>1, <2>3
    DEF Facts, CronOK, Locks, ClientOK, RoundOK, WordOK, Held, Updating, Saving, Progressing, Untested
  <2> QED  BY <2>2, <2>3
<1>5. OnePerRun' /\ OneJobPerRound' /\ \A s \in Runs : RunOK(s)'
  BY <1>2 DEF Orderly, OnePerRun, Held, OneJobPerRound, RunOK
<1> QED  BY <1>4, <1>5 DEF Orderly

\* Neither the worker plane nor a stutter touches a run.
LEMMA ElsewhereOrderly ==
  ASSUME Orderly, UNCHANGED <<rowVars, origin, procVars>>
  PROVE  Orderly'
<1>1. UNCHANGED <<row, owner, fresh, session, overruled, pc, on, task, copy, round, outcome>>
  BY DEF rowVars, procVars
<1>2. ASSUME NEW q \in Procs PROVE Facts(q)'
  <2>1. Facts(q)  BY DEF Orderly
  <2> QED  BY <1>1, <2>1, FactsStay
<1>3. OnePerRun' /\ OneJobPerRound' /\ \A s \in Runs : RunOK(s)'
  BY <1>1 DEF Orderly, OnePerRun, Held, OneJobPerRound, RunOK
<1> QED  BY <1>2, <1>3 DEF Orderly

\* A person writes the session of a run that others may have in hand: it no longer is
\* theirs to agree with.
LEMMA DecideOrderly ==
  ASSUME Inv, Orderly, NEW d \in People, SetApproval(d) \/ \E r \in Runs : ReadSession(d, r)
  PROVE  Orderly'
<1>1. UNCHANGED <<row, owner, fresh, origin, pc, on, task, copy, round, outcome>>
  BY DEF SetApproval, ReadSession, jobVars, procVars
<1>2. \A s \in Runs : SessionKept(s)
  BY TypesSplit DEF Inv, SharedTypes, SetApproval, ReadSession
<1>3. ASSUME NEW q \in Procs PROVE Facts(q)'
  <2>1. Facts(q) /\ (Held(q) => on[q] \in Runs)  BY DEF Inv, Orderly, ProcOK, Held, InResume
  <2> QED  BY <1>1, <1>2, <2>1, FactsStay
<1>4. OnePerRun' /\ OneJobPerRound'
  BY <1>1 DEF Orderly, OnePerRun, Held, OneJobPerRound
<1>5. \A r \in Runs : RunOK(r)'
  BY <1>1, <1>2 DEF Orderly, RunOK
<1> QED  BY <1>3, <1>4, <1>5 DEF Orderly

LEMMA InitOrderly == Init => Orderly
<1> SUFFICES ASSUME Init PROVE Orderly  OBVIOUS
<1>1. \A p \in Procs : pc[p] = "idle" /\ task[p] = "none" /\ round[p] = 1  BY DEF Init
<1>2. \A p \in Procs : ~Held(p) /\ ~Updating(p) /\ ~Saving(p) /\ ~Progressing(p)
  BY <1>1 DEF Held, Updating, Saving, Progressing, InResume
<1>3. \A p \in Procs : Facts(p)
  BY <1>1, <1>2 DEF Facts, CronOK, Locks, ClientOK, RoundOK, WordOK
<1>4. OnePerRun  BY <1>2 DEF OnePerRun
<1>5. OneJobPerRound  BY DEF Init, OneJobPerRound
<1>6. \A r \in Runs : RunOK(r)  BY AsyncAssumption DEF Init, NewRow, RunOK, Verdicts
<1> QED  BY <1>3, <1>4, <1>5, <1>6 DEF Orderly

LEMMA StepOrderly ==
  ASSUME OneByOne, Inv, Orderly, [Next]_vars
  PROVE  Orderly'
<1>1. CASE \E c \in Crons : Tick(c) \/ Fault(c)
  BY <1>1, TickOrderly, FaultOrderly
<1>2. CASE \E p \in Clients : Cancel(p) \/ \E r \in Runs :
             Start(p, r) \/ RequestResume(p, r) \/ RequestCancel(p, r)
  BY <1>2, CancelOrderly, StartOrderly DEF RequestResume, OneByOne
<1>3. CASE \E p \in Procs : Work(p) \/ Crash(p)
  BY <1>3, CrashOrderly, ReadsOrderly, UpdateReadOrderly, UpdateWriteOrderly, JudgeOrderly,
     SessionReadOrderly, SessionWriteOrderly, BlockedOrderly, EnqueueOrderly DEF Work
<1>4. CASE \E r \in Runs : LockExpires(r)  BY <1>4, LockExpiresOrderly
<1>5. CASE WorkerStep \/ UNCHANGED vars
  BY <1>5, ElsewhereOrderly DEF WorkerStep, vars, jobVars
<1>6. CASE \E d \in People : SetApproval(d) \/ \E r \in Runs : ReadSession(d, r)
  BY <1>6, DecideOrderly
<1> QED  BY <1>1, <1>2, <1>3, <1>4, <1>5, <1>6 DEF Next

LEMMA OrderlyAlways == ASSUME OneByOne PROVE Spec => []Orderly
<1>1. Inv /\ Orderly /\ [Next]_vars => Orderly'  BY StepOrderly
<1> QED  BY InitOrderly, Invariance, <1>1, PTL DEF Spec

\* Nobody resuming by hand, no two processes are past the entry checks of one run
\* (resumeDueOrchestrations): not the ticks of a single cron on either backend, however late
\* they are, and where locks are atomic and resumes prompt, not even two crons that lock
\* under one name.
THEOREM Exclusion == ASSUME OneByOne PROVE Spec => []NoDoubleResume
<1>1. Orderly => NoDoubleResume
  <2> SUFFICES ASSUME Orderly, NEW p \in Procs, NEW q \in Procs, p # q,
                      Progressing(p), Progressing(q)
               PROVE  on[p] # on[q]
    BY DEF NoDoubleResume
  <2>1. Held(p) /\ Held(q)  BY DEF Progressing, Held
  <2> QED  BY <2>1 DEF Orderly, OnePerRun
<1> QED  BY OrderlyAlways, <1>1, PTL

\* Under the same conditions one round of a run is tested by one job, whatever fails
\* half way and is retried (AsyncOrchestrator.resume).
THEOREM SingleTest == ASSUME OneByOne PROVE Spec => []OneJobPerRound
<1>1. Orderly => OneJobPerRound  BY DEF Orderly
<1> QED  BY OrderlyAlways, <1>1, PTL

\* Under the same conditions a decided run and its session show the same verdict, unless
\* a person approved or rejected the session after the verdict was written to it,
\* although they are written one after the other (AsyncOrchestrator.finalize).
THEOREM Agreement == ASSUME OneByOne PROVE Spec => []SessionAgrees
<1>1. Orderly => SessionAgrees  BY DEF Orderly, RunOK, SessionAgrees
<1> QED  BY OrderlyAlways, <1>1, PTL

-----------------------------------------------------------------------------
(* Under the same conditions, and unless somebody cancels, the rows move as   *)
(* RunLifecycle says.                                                         *)

Uncancelled == OneByOne /\ ~Cancels

LEMMA NothingShown ==
  ASSUME \A r \in Runs : row'[r].status = row[r].status /\ row'[r].round = row[r].round
  PROVE  [Lifecycle!Next]_(Lifecycle!vars)
BY DEF Lifecycle!vars

\* One run decides, waits or advances.
LEMMA OneShown ==
  ASSUME NEW r \in Runs, NEW s, NEW n, row'[r].status = s, row'[r].round = n,
         \A q \in Runs \ {r} : row'[q] = row[q],
         \/ row[r].status = "absent" /\ s = "running" /\ n = row[r].round
         \/ /\ row[r].status \in {"running", "waiting_for_worker"}
            /\ s \in {"waiting_for_worker"} \cup Verdicts /\ n = row[r].round
         \/ /\ row[r].status = "waiting_for_worker" /\ s = row[r].status
            /\ row[r].round < MaxRounds /\ n = row[r].round + 1
  PROVE  [Lifecycle!Next]_(Lifecycle!vars)
<1> DEFINE st == [q \in Runs |-> row[q].status]
           rd == [q \in Runs |-> row[q].round]
<1>1. [q \in Runs |-> row'[q].status] = [st EXCEPT ![r] = s]  OBVIOUS
<1>2. [q \in Runs |-> row'[q].round] = [rd EXCEPT ![r] = n]  OBVIOUS
<1>3. n = row[r].round => [q \in Runs |-> row'[q].round] = rd  BY <1>2
<1>4. s = row[r].status => [q \in Runs |-> row'[q].status] = st  BY <1>1
<1>5. st[r] = row[r].status /\ rd[r] = row[r].round  OBVIOUS
<1> HIDE DEF st, rd
<1>6. CASE row[r].status = "absent" /\ s = "running" /\ n = row[r].round
  <2>1. Lifecycle!Begin(r)  BY <1>1, <1>3, <1>5, <1>6 DEF Lifecycle!Begin, st, rd
  <2> QED  BY <2>1 DEF Lifecycle!Next
<1>7. CASE /\ row[r].status \in {"running", "waiting_for_worker"}
           /\ s \in {"waiting_for_worker"} \cup Verdicts /\ n = row[r].round
  <2>1. CASE s = "waiting_for_worker"
    <3>1. Lifecycle!Await(r)  BY <1>1, <1>3, <1>5, <1>7, <2>1 DEF Lifecycle!Await, st, rd
    <3> QED  BY <3>1 DEF Lifecycle!Next
  <2>2. CASE s \in Verdicts
    <3>1. Lifecycle!Decide(r)
      BY <1>1, <1>3, <1>5, <1>7, <2>2 DEF Lifecycle!Decide, Lifecycle!Decisions, Verdicts, st, rd
    <3> QED  BY <3>1 DEF Lifecycle!Next
  <2> QED  BY <1>7, <2>1, <2>2
<1>8. CASE /\ row[r].status = "waiting_for_worker" /\ s = row[r].status
           /\ row[r].round < MaxRounds /\ n = row[r].round + 1
  <2>1. Lifecycle!Advance(r)  BY <1>2, <1>4, <1>5, <1>8 DEF Lifecycle!Advance, st, rd
  <2> QED  BY <2>1 DEF Lifecycle!Next
<1> QED  BY <1>6, <1>7, <1>8

\* What a merged row shows, depending on what the update was for.
LEMMA MergedMaps ==
  ASSUME Uncancelled, Inv, Orderly, NEW p \in Procs, pc[p] = "write",
         row' = [row EXCEPT ![on[p]] = Merged(p)]
  PROVE  [Lifecycle!Next]_(Lifecycle!vars)
<1>1. LocalTypes /\ SharedTypes /\ ProcOK(p) /\ Facts(p) /\ Held(p) /\ Progressing(p) /\ Updating(p)
  BY TypesSplit DEF Inv, Orderly, Held, Progressing, Updating, InResume
<1>2. PICK r \in Runs : r = on[p]  BY <1>1, OwnRun
<1>3. row'[r] = Merged(p) /\ \A s \in Runs \ {r} : row'[s] = row[s]
  BY <1>1, <1>2 DEF SharedTypes
<1>4. /\ copy[p] \in Rows /\ copy[p].round = row[r].round /\ copy[p].status = row[r].status
      /\ row[r].round \in 1 .. MaxRounds /\ round[p] \in 1 .. MaxRounds /\ task[p] # "none"
  BY <1>1, <1>2 DEF Uncancelled, Facts, RoundOK, WordOK, LocalTypes, SharedTypes, Rows
<1>5. task[p] # "fault" => row[r].status \in {"running", "waiting_for_worker"}
  BY <1>1, <1>2 DEF Uncancelled, Facts, WordOK, Open, Orderly, RunOK
<1>6. CASE task[p] \in {"review", "judge", "fault"}
  <2>1. row'[r] = copy[p]  BY <1>3, <1>6 DEF Merged
  <2> QED  BY <1>3, <1>4, <2>1, NothingShown
<1>7. CASE task[p] = "link"
  <2>1. row'[r].status = "waiting_for_worker" /\ row'[r].round = row[r].round
    BY <1>1, <1>2, <1>3, <1>7 DEF Merged, Facts, RoundOK
  <2> QED  BY <1>3, <1>5, <1>7, <2>1, OneShown
<1>8. CASE task[p] = "finish"
  <2>1. outcome[p] \in Verdicts  BY <1>1, <1>8 DEF ProcOK, Updating
  <2>2. row'[r].status = outcome[p] /\ row'[r].round = row[r].round
    <3>1. Merged(p) = [copy[p] EXCEPT !.status = outcome[p], !.pending = NoJob]
      BY <1>8 DEF Merged
    <3> QED  BY <1>3, <1>4, <3>1 DEF Rows
  <2> QED  BY <1>3, <1>5, <1>8, <2>1, <2>2, OneShown
<1>9. CASE task[p] = "implement"
  <2>1. row'[r].status = row[r].status /\ row'[r].round = round[p]
    BY <1>3, <1>4, <1>9 DEF Merged, Rows
  <2>2. \/ round[p] = row[r].round
        \/ round[p] = row[r].round + 1 /\ row[r].status # "running"
    BY <1>1, <1>2, <1>9 DEF Facts, RoundOK
  <2>3. CASE round[p] = row[r].round  BY <1>3, <2>1, <2>3, NothingShown
  <2>4. CASE round[p] = row[r].round + 1 /\ row[r].status = "waiting_for_worker"
    <3>1. row[r].round < MaxRounds  BY <1>4, <2>4, AsyncAssumption
    <3> QED  BY <1>3, <2>1, <2>4, <3>1, OneShown
  <2> QED  BY <1>5, <1>9, <2>2, <2>3, <2>4
<1> QED  BY <1>1, <1>4, <1>6, <1>7, <1>8, <1>9 DEF LocalTypes

LEMMA RunsMap ==
  ASSUME Uncancelled, Inv, Orderly, [Next]_vars
  PROVE  [Lifecycle!Next]_(Lifecycle!vars)
<1>1. CASE row' = row  BY <1>1, NothingShown
<1>2. ASSUME NEW p \in Clients, NEW r \in Runs, Start(p, r)
      PROVE  [Lifecycle!Next]_(Lifecycle!vars)
  <2>1. /\ row[r].status = "absent" /\ row'[r].status = "running" /\ row'[r].round = row[r].round
        /\ \A q \in Runs \ {r} : row'[q] = row[q]
    BY <1>2, TypesSplit DEF Inv, Start, SharedTypes, Rows
  <2> QED  BY <2>1, OneShown
<1>3. ASSUME NEW p \in Procs, pc[p] = "write", row' = [row EXCEPT ![on[p]] = Merged(p)]
      PROVE  [Lifecycle!Next]_(Lifecycle!vars)
  BY <1>3, MergedMaps
<1>4. ASSUME NEW p \in Clients, Cancel(p) PROVE row' = row
  BY <1>4 DEF Cancel, CancelJob, CancelRead, CancelWrite, rowVars, Uncancelled, Orderly, Facts,
     ClientOK, Procs
<1>5. ASSUME NEW c \in Crons, Tick(c) PROVE row' = row
  BY <1>5 DEF Tick, Scan, NextInBatch, Lock, LockAtomic, LockRead, LockWrite, LockCheck, Release,
     SetLock, rowVars
<1>6. ASSUME NEW p \in Procs, Work(p) \/ Crash(p)
      PROVE  row' = row \/ (pc[p] = "write" /\ row' = [row EXCEPT ![on[p]] = Merged(p)])
  BY <1>6 DEF Work, Crash, ReadRun, ReadJob, UpdateRead, UpdateWrite, Judge, SessionRead,
     SessionWrite, BlockedPatch, EnqueueTest, rowVars
<1>7. ASSUME NEW c \in Crons, Fault(c)
      PROVE  row' = row \/ (pc[c] = "write" /\ row' = [row EXCEPT ![on[c]] = Merged(c)])
  BY <1>7 DEF Fault
<1>8. ASSUME NEW p \in Clients, NEW r \in Runs, RequestResume(p, r) \/ RequestCancel(p, r)
      PROVE  row' = row
  BY <1>8 DEF RequestResume, RequestCancel, rowVars
<1>9. ASSUME \/ WorkerStep \/ UNCHANGED vars
             \/ \E r \in Runs : LockExpires(r) \/ \E d \in People : ReadSession(d, r)
      PROVE  row' = row
  BY <1>9 DEF WorkerStep, LockExpires, ReadSession, vars, rowVars
<1>10. ASSUME NEW d \in People, SetApproval(d) PROVE row' = row
  BY <1>10 DEF SetApproval
<1> QED  BY <1>1, <1>2, <1>3, <1>4, <1>5, <1>6, <1>7, <1>8, <1>9, <1>10 DEF Next, Procs

\* A run starts in round 1, advances one round at a time while it waits, and keeps its
\* verdict, whatever resumes fail or are retried (AsyncOrchestrator with
\* resumeDueOrchestrations, nobody cancelling).
THEOREM Implementation == ASSUME Uncancelled PROVE Spec => ImplementsRunLifecycle
<1>1. Init => Lifecycle!Init  BY AsyncAssumption DEF Init, NewRow, Lifecycle!Init
<1>2. Inv /\ Orderly /\ [Next]_vars => [Lifecycle!Next]_(Lifecycle!vars)  BY RunsMap
<1>3. Spec => []Orderly  BY OrderlyAlways DEF Uncancelled
<1> QED  BY <1>1, <1>2, <1>3, Invariance, PTL DEF Spec, ImplementsRunLifecycle, Lifecycle!Spec

-----------------------------------------------------------------------------
(* The orchestrator uses the job queue as the queue promises to be used.   *)

LEMMA QueueStep ==
  ASSUME Inv, [Next]_vars PROVE [Worker!Next]_(Worker!vars)
<1>1. CASE UNCHANGED <<job, claims>>  BY <1>1 DEF Worker!vars
<1>2. ASSUME NEW p \in Procs, EnqueueTest(p) PROVE Worker!Next
  BY <1>2 DEF EnqueueTest, Worker!Next
<1>3. ASSUME NEW p \in Clients, CancelJob(p) PROVE Worker!Next \/ UNCHANGED <<job, claims>>
  <2>1. CASE UNCHANGED job  BY <1>3, <2>1 DEF CancelJob
  <2>2. CASE report[p] \in Worker!Unfinished /\ job' = [job EXCEPT ![report[p]] = "cancelled"]
    <3>1. PICK j \in Jobs : j = report[p] /\ job[j] # "absent"
      BY <2>2 DEF Worker!Unfinished
    <3>2. Worker!Settle(j)
      BY <1>3, <2>2, <3>1 DEF CancelJob, Worker!Settle, Worker!Verdicts
    <3> QED  BY <3>2 DEF Worker!Next
  <2> QED  BY <1>3, <2>1, <2>2 DEF CancelJob
<1>4. CASE WorkerStep  BY <1>4 DEF WorkerStep, Worker!Next
<1>5. CASE \E c \in Crons : Tick(c) \/ Fault(c)
  BY <1>5, <1>1 DEF Tick, Scan, NextInBatch, Lock, LockAtomic, LockRead, LockWrite, LockCheck, Release,
     Fault, jobVars
<1>6. CASE \E p \in Clients, r \in Runs :
             Start(p, r) \/ RequestResume(p, r) \/ RequestCancel(p, r)
  BY <1>6, <1>1 DEF Start, RequestResume, RequestCancel, jobVars
<1>7. CASE \E p \in Clients : Cancel(p)
  BY <1>7, <1>1, <1>3 DEF Cancel, CancelRead, CancelWrite, jobVars
<1>8. CASE \E p \in Procs : Work(p) \/ Crash(p)
  BY <1>8, <1>1, <1>2 DEF Work, Crash, ReadRun, ReadJob, UpdateRead, UpdateWrite, Judge, SessionRead,
     SessionWrite, BlockedPatch, jobVars
<1>9. CASE (\E r \in Runs : LockExpires(r)) \/ UNCHANGED vars
  BY <1>9, <1>1 DEF LockExpires, vars, jobVars
<1>10. CASE \E d \in People : SetApproval(d) \/ \E r \in Runs : ReadSession(d, r)
  BY <1>10, <1>1 DEF SetApproval, ReadSession, jobVars
<1> QED  BY <1>4, <1>5, <1>6, <1>7, <1>8, <1>9, <1>10 DEF Next

\* Whoever resumes, retries, cancels or crashes, the orchestrator creates and cancels
\* jobs only as JobLifecycle allows (createWorkerJob, cancelWorkerJob): what that
\* module promises, and WorkerJobs implements, holds of the jobs of these runs.
THEOREM QueueAsPromised == Spec => Worker!Spec
<1>1. Init => Worker!Init  BY DEF Init
<1> QED  BY <1>1, QueueStep, Invariance, PTL DEF Spec, Worker!Spec

=============================================================================
