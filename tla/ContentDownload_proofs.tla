----------------------- MODULE ContentDownload_proofs -----------------------
(* Proofs about ContentDownload and its history, for every value of their  *)
(* constants: the types, what is kept while one actor at a time finishes   *)
(* its work, and the failures counted.                                     *)
EXTENDS MCContentDownload, FiniteSetTheorems, TLAPS

-----------------------------------------------------------------------------
(* What makes the types inductive: a job still to be run has an attempt    *)
(* left, which rests on no two executions holding it.                      *)

Tried == \A v \in Versions : jobs[v].state \in Live => jobs[v].made < Attempts

Busy(q) == q.pc # "idle" => q.v \in Versions
Holds(q) == q.held => q.v \in Versions /\ jobs[q.v].state = "active"

OneHolder ==
  \A g, h \in Handles : run[g].held /\ run[h].held /\ run[g].v = run[h].v => g = h

Rows == [version : Versions, failures : 0..MaxCount, disabled : BOOLEAN] \cup {NoRow}

(* The part of the invariant about jobs and handles, and the rest of it.   *)
Running ==
  /\ jobs \in [Versions -> Job] /\ run \in [Handles -> Handle]
  /\ Tried /\ OneHolder
  /\ \A h \in Handles : Busy(run[h]) /\ Holds(run[h])

Resting ==
  /\ flags \subseteq Versions /\ disk \subseteq Versions
  /\ owed \in [Versions -> {Counted, Unread} \cup 0..MaxCount]
  /\ row \in Rows
  /\ user \in [pc : {"idle", "remove", "files", "row"}, v : Versions \cup {None}]
  /\ auto \in [v : Versions \cup {None}, n : 0..MaxCount]
  /\ boot \in [pc : {"done", "list", "record"}, todo : SUBSET Versions, found : BOOLEAN]
  /\ faults \in 0..MaxFaults /\ crashes \in 0..MaxCrashes /\ asked \in 0..MaxRequests

IInv == Running /\ Resting

LEMMA IInvTypes == IInv => TypeOK
  BY DEF IInv, TypeOK, Running, Resting, Rows

-----------------------------------------------------------------------------
(* Helpers of the model.                                                   *)

LEMMA NoJobType == NoJob \in Job /\ NoJob.made = 0 /\ NoJob.state = "none"
  BY BoundsAssumption DEF NoJob, Job, Live

(* A job that has just been added, by a user or by the auto-update.        *)
LEMMA NewJobType ==
  ASSUME NEW byAuto \in BOOLEAN, NEW j,
         \/ j = [NoJob EXCEPT !.state = "waiting", !.auto = byAuto]
         \/ j = [NoJob EXCEPT !.state = "waiting"]
  PROVE  j \in Job /\ (j.state \in Live => j.made < Attempts)
<1>1. 0 \in 0..Attempts /\ 0 < Attempts
  BY BoundsAssumption
<1>2. "waiting" \in Live \cup {"none", "failed"}
  BY DEF Live
<1>3. j \in Job
  BY <1>2, NoJobType DEF Job
<1>4. j.made = 0
  BY NoJobType DEF Job
<1>5. QED
  BY <1>1, <1>3, <1>4

LEMMA IdleType == Idle \in Handle /\ ~Idle.held /\ Idle.pc = "idle"
  BY DEF Idle, Handle, Pcs

LEMMA RowTypes ==
  ASSUME row \in Rows
  PROVE  /\ \A v \in Versions : Recorded(v) \in Rows /\ Fresh(v) \in Rows
         /\ Version \in Versions \cup {None}
         /\ \A n \in 0..MaxCount : n < MaxCount => CountedFrom(n) \in Rows
         /\ \A dirty : Cleared(dirty) \in Rows
<1>1. \A v \in Versions : Fresh(v) \in Rows
  BY BoundsAssumption DEF Rows, Fresh
<1>2. \A v \in Versions : Recorded(v) \in Rows
  BY <1>1 DEF Rows, Recorded
<1>3. Version \in Versions \cup {None}
  BY DEF Rows, Version
<1>4. ASSUME NEW n \in 0..MaxCount, n < MaxCount
      PROVE  CountedFrom(n) \in Rows
  <2>1. n + 1 \in 0..MaxCount
    BY <1>4, BoundsAssumption
  <2>2. (n + 1 >= MAX_CONSECUTIVE_FAILURES) \in BOOLEAN
    OBVIOUS
  <2>3. QED
    BY <2>1, <2>2 DEF Rows, CountedFrom
<1>5. ASSUME NEW dirty
      PROVE  Cleared(dirty) \in Rows
  <2>1. 0 \in 0..MaxCount
    BY BoundsAssumption
  <2>2. ("disabled" \notin dirty) \in BOOLEAN
    OBVIOUS
  <2>3. QED
    BY <2>1, <2>2 DEF Rows, Cleared
<1>6. QED
  BY <1>1, <1>2, <1>3, <1>4, <1>5

(* Counters stay within their bounds.                                      *)
LEMMA BoundsTypes ==
  ASSUME Resting
  PROVE  /\ QueryFails \/ Asks \/ UNCHANGED bounds =>
              /\ faults' \in 0..MaxFaults /\ crashes' \in 0..MaxCrashes
              /\ asked' \in 0..MaxRequests
  BY BoundsAssumption DEF Resting, QueryFails, Asks, bounds

-----------------------------------------------------------------------------
(* Steps of the jobs and of the handles.                                   *)

LEMMA SameRunning == Running /\ UNCHANGED <<jobs, run>> => Running'
  BY DEF Running, Tried, OneHolder, Busy, Holds

(* A handle goes on: it holds nothing it did not hold before.              *)
LEMMA HandleGoesOn ==
  ASSUME Running, NEW h \in Handles, NEW q \in Handle, Becomes(h, q), jobs' = jobs,
         q.v = run[h].v, q.held => run[h].held, run[h].pc # "idle"
  PROVE  Running'
<1>1. /\ run' \in [Handles -> Handle]
      /\ \A g \in Handles : run'[g] = IF g = h THEN q ELSE run[g]
  BY DEF Running, Becomes
<1>2. \A g \in Handles : Busy(run'[g]) /\ (Holds(run[g]) => Holds(run[g])')
  BY <1>1 DEF Running, Busy, Holds
<1>3. OneHolder'
  BY <1>1 DEF Running, OneHolder
<1>4. QED
  BY <1>1, <1>2, <1>3 DEF Running, Tried

(* A handle lets its job go, which then is no longer active.               *)
LEMMA HandleLetsGo ==
  ASSUME Running, NEW h \in Handles, NEW q \in Handle, Becomes(h, q), ~q.held, Busy(q),
         NEW v \in Versions, NEW j \in Job, j.state \in Live => j.made < Attempts,
         run[h].held => run[h].v = v,
         jobs' = IF run[h].held THEN [jobs EXCEPT ![v] = j] ELSE jobs
  PROVE  Running'
<1>1. /\ run' \in [Handles -> Handle]
      /\ \A g \in Handles : run'[g] = IF g = h THEN q ELSE run[g]
  BY DEF Running, Becomes
<1>2. /\ jobs' \in [Versions -> Job]
      /\ \A w \in Versions :
           jobs'[w] = IF run[h].held /\ w = v THEN j ELSE jobs[w]
  BY DEF Running
<1>3. \A g \in Handles : Busy(run'[g]) /\ Holds(run[g])'
  BY <1>1, <1>2 DEF Running, Busy, Holds, OneHolder
<1>4. OneHolder' /\ Tried'
  BY <1>1, <1>2 DEF Running, OneHolder, Tried
<1>5. QED
  BY <1>1, <1>2, <1>3, <1>4 DEF Running

(* A job nobody holds changes.                                             *)
LEMMA JobChanges ==
  ASSUME Running, NEW v \in Versions, NEW j \in Job, j.state \in Live => j.made < Attempts,
         jobs' = [jobs EXCEPT ![v] = j], run' = run,
         \A h \in Handles : run[h].held => run[h].v # v
  PROVE  Running'
<1>1. /\ jobs' \in [Versions -> Job]
      /\ \A w \in Versions : jobs'[w] = IF w = v THEN j ELSE jobs[w]
  BY DEF Running
<1>2. QED
  BY <1>1 DEF Running, Tried, OneHolder, Busy, Holds

LEMMA NobodyHolds ==
  ASSUME Running, NEW v \in Versions, jobs[v].state # "active"
  PROVE  \A h \in Handles : run[h].held => run[h].v # v
  BY DEF Running, Holds

(* An attempt fails: the job's next state.                                 *)
Failed(v, unrecoverable) ==
  [jobs[v] EXCEPT !.made = jobs[v].made + 1,
     !.state = IF unrecoverable \/ jobs[v].made + 1 >= Attempts THEN "failed" ELSE "delayed"]

LEMMA JobFailsType ==
  ASSUME Running, Resting, NEW v \in Versions, NEW unrecoverable \in BOOLEAN,
         jobs[v].state \in Live, JobFails(v, unrecoverable)
  PROVE  /\ Failed(v, unrecoverable) \in Job
         /\ Failed(v, unrecoverable).state \in Live => Failed(v, unrecoverable).made < Attempts
         /\ jobs' = [jobs EXCEPT ![v] = Failed(v, unrecoverable)]
         /\ owed' \in [Versions -> {Counted, Unread} \cup 0..MaxCount]
<1>1. jobs[v] \in Job /\ jobs[v].made < Attempts
  BY DEF Running, Tried
<1>2. Failed(v, unrecoverable) \in Job
  <2>1. jobs[v].made + 1 \in 0..Attempts
    BY <1>1, BoundsAssumption DEF Job
  <2>2. (IF unrecoverable \/ jobs[v].made + 1 >= Attempts THEN "failed" ELSE "delayed")
          \in Live \cup {"none", "failed"}
    BY DEF Live
  <2>3. QED
    BY <1>1, <2>1, <2>2 DEF Failed, Job
<1>3. Failed(v, unrecoverable).state \in Live => Failed(v, unrecoverable).made < Attempts
  <2>1. jobs[v].made + 1 \in Nat /\ Attempts \in Nat
    BY <1>1, BoundsAssumption DEF Job
  <2>2. Failed(v, unrecoverable).made = jobs[v].made + 1
    BY <1>1 DEF Failed, Job
  <2>3. jobs[v].made + 1 >= Attempts => Failed(v, unrecoverable).state = "failed"
    BY <1>1 DEF Failed, Job
  <2>4. QED
    BY <2>1, <2>2, <2>3 DEF Live
<1>4. jobs' = [jobs EXCEPT ![v] = Failed(v, unrecoverable)]
  BY <1>1 DEF JobFails, Failed, Running, Job
<1>5. owed' \in [Versions -> {Counted, Unread} \cup 0..MaxCount]
  BY DEF JobFails, Resting
<1>6. QED
  BY <1>2, <1>3, <1>4, <1>5

-----------------------------------------------------------------------------
(* Every step keeps the invariant.                                         *)

LEMMA InitHolds == Init => IInv
<1> SUFFICES ASSUME Init PROVE Running /\ Resting
  BY DEF IInv
<1>1. disk \subseteq Versions /\ (disk # {} => (CHOOSE v \in disk : TRUE) \in Versions)
  BY DEF Init
<1>2. row \in Rows
  BY <1>1, BoundsAssumption DEF Init, Rows, Fresh
<1>3. Running
  BY NoJobType, IdleType, BoundsAssumption
     DEF Init, Running, Tried, OneHolder, Busy, Holds, Live
<1>4. Resting
  BY <1>1, <1>2, BoundsAssumption DEF Init, Resting, NoRequest, NoAttempt, Booted
<1>5. QED
  BY <1>3, <1>4

(* Jobs that are added, removed and dismissed, and the other requests.     *)
LEMMA AddedRuns ==
  ASSUME Running, NEW v, NEW byAuto \in BOOLEAN, jobs' = Added(v, byAuto), run' = run
  PROVE  Running'
<1>1. CASE v \notin Versions \/ jobs[v].state # "none"
  <2>1. jobs' = jobs
    BY <1>1 DEF Added, Running
  <2>2. QED
    BY <2>1, SameRunning
<1>2. CASE v \in Versions /\ jobs[v].state = "none"
  <2> DEFINE j == [NoJob EXCEPT !.state = "waiting", !.auto = byAuto]
  <2>1. j \in Job /\ (j.state \in Live => j.made < Attempts)
    BY NewJobType
  <2>2. jobs' = [jobs EXCEPT ![v] = j]
    BY <1>2 DEF Added
  <2>3. \A h \in Handles : run[h].held => run[h].v # v
    BY <1>2, NobodyHolds
  <2> HIDE DEF j
  <2>4. QED
    BY <1>2, <2>1, <2>2, <2>3, JobChanges
<1>3. QED
  BY <1>1, <1>2

LEMMA UserSteps == IInv /\ UserStep => IInv'
<1> SUFFICES ASSUME Running, Resting, UserStep PROVE Running' /\ Resting'
  BY DEF IInv
<1>1. ASSUME NEW v \in Versions, Download(v) PROVE Running' /\ Resting'
  <2> DEFINE j == [NoJob EXCEPT !.state = "waiting"]
  <2>1. j \in Job /\ (j.state \in Live => j.made < Attempts)
    BY NewJobType
  <2>2. jobs' = [jobs EXCEPT ![v] = j] /\ run' = run /\ jobs[v].state # "active"
    BY <1>1 DEF Download, Live
  <2>3. \A h \in Handles : run[h].held => run[h].v # v
    BY <2>2, NobodyHolds
  <2>4. Running'
    <3> HIDE DEF j
    <3> QED
      BY <2>1, <2>2, <2>3, JobChanges
  <2>5. Resting'
    BY <1>1, BoundsTypes DEF Download, Resting, requests
  <2>6. QED
    BY <2>4, <2>5
<1>2. ASSUME NEW v \in Versions, ApplyUpdate(v) PROVE Running' /\ Resting'
  <2>1. Running'
    BY <1>2, AddedRuns DEF ApplyUpdate
  <2>2. Resting'
    BY <1>2, BoundsTypes DEF ApplyUpdate, Resting, requests
  <2>3. QED
    BY <2>1, <2>2
<1>3. ASSUME NEW v \in Versions, Dismiss(v) PROVE Running' /\ Resting'
  <2>1. jobs[v].state # "active" /\ jobs' = [jobs EXCEPT ![v] = NoJob] /\ run' = run
    BY <1>3 DEF Dismiss
  <2>2. NoJob.state \notin Live
    BY NoJobType DEF Live
  <2>3. Running'
    BY <2>1, <2>2, NoJobType, NobodyHolds, JobChanges
  <2>4. Resting'
    BY <1>3 DEF Dismiss, Resting, requests, bounds
  <2>5. QED
    BY <2>3, <2>4
<1>4. ASSUME NEW v \in Versions, Cancel(v) PROVE Running' /\ Resting'
  <2>1. Resting'
    BY <1>4, BoundsTypes DEF Cancel, Resting
  <2>2. QED
    BY <1>4, <2>1, SameRunning DEF Cancel
<1>5. ASSUME NEW v \in Versions, Delete(v) PROVE Running' /\ Resting'
  <2>1. Resting'
    BY <1>5, BoundsTypes DEF Delete, Resting
  <2>2. QED
    BY <1>5, <2>1, SameRunning DEF Delete
<1>6. ASSUME NEW v \in Versions, FlagExpires(v) PROVE Running' /\ Resting'
  <2>1. Resting'
    BY <1>6 DEF FlagExpires, Resting, requests, bounds
  <2>2. QED
    BY <1>6, <2>1, SameRunning DEF FlagExpires
<1>7. CASE RemoveJob
  <2>1. /\ run' \in [Handles -> Handle]
        /\ \A h \in Handles : /\ run'[h].pc = run[h].pc /\ run'[h].v = run[h].v
                              /\ run'[h].held => run[h].held /\ run[h].v # user.v
    <3>1. \A h \in Handles :
            /\ run[h] \in Handle
            /\ [run[h] EXCEPT !.held = @ /\ run[h].v # user.v] \in Handle
      BY DEF Running, Handle
    <3>2. QED
      BY <1>7, <3>1 DEF RemoveJob, Handle
  <2>2. /\ jobs' \in [Versions -> Job]
        /\ \A w \in Versions : jobs'[w] = IF w = user.v THEN NoJob ELSE jobs[w]
    BY <1>7, NoJobType DEF RemoveJob, Running
  <2>3. NoJob.state \notin Live
    BY NoJobType DEF Live
  <2>4. Running'
    <3>1. \A h \in Handles : Busy(run[h])' /\ Holds(run[h])'
      BY <2>1, <2>2 DEF Running, Busy, Holds
    <3>2. OneHolder'
      BY <2>1 DEF Running, OneHolder
    <3>3. Tried'
      BY <2>2, <2>3 DEF Running, Tried
    <3>4. QED
      BY <2>1, <2>2, <3>1, <3>2, <3>3 DEF Running
  <2>5. Resting'
    BY <1>7 DEF RemoveJob, Resting, bounds
  <2>6. QED
    BY <2>4, <2>5
<1>8. CASE DeleteFiles
  <2>1. /\ run' \in [Handles -> Handle]
        /\ \A h \in Handles : /\ run'[h].pc = run[h].pc /\ run'[h].v = run[h].v
                              /\ run'[h].held = run[h].held
    <3>1. \A h \in Handles :
            /\ run[h] \in Handle
            /\ [run[h] EXCEPT !.tmp = @ /\ run[h].v # user.v] \in Handle
      BY DEF Running, Handle
    <3>2. QED
      BY <1>8, <3>1 DEF DeleteFiles, Handle
  <2>2. Running'
    <3>1. jobs' = jobs
      BY <1>8 DEF DeleteFiles
    <3>2. \A h \in Handles : Busy(run[h])' /\ Holds(run[h])'
      BY <2>1, <3>1 DEF Running, Busy, Holds
    <3>3. OneHolder' /\ Tried'
      BY <2>1, <3>1 DEF Running, OneHolder, Tried
    <3>4. QED
      BY <2>1, <3>1, <3>2, <3>3 DEF Running
  <2>3. Resting'
    BY <1>8 DEF DeleteFiles, Resting, NoRequest, bounds
  <2>4. QED
    BY <2>2, <2>3
<1>9. CASE DeleteRow
  <2>1. Resting'
    BY <1>9 DEF DeleteRow, Resting, NoRequest, Rows, bounds
  <2>2. QED
    BY <1>9, <2>1, SameRunning DEF DeleteRow
<1>10. CASE ResetBackoff
  <2>1. row' \in Rows
    BY <1>10, RowTypes DEF ResetBackoff, Resting, Rows
  <2>2. Resting'
    BY <1>10, <2>1, BoundsTypes DEF ResetBackoff, Resting, requests
  <2>3. QED
    BY <1>10, <2>2, SameRunning DEF ResetBackoff
<1>11. QED
  BY <1>1, <1>2, <1>3, <1>4, <1>5, <1>6, <1>7, <1>8, <1>9, <1>10 DEF UserStep

LEMMA AutoSteps == IInv /\ AutoStep => IInv'
<1> SUFFICES ASSUME Running, Resting, AutoStep PROVE Running' /\ Resting'
  BY DEF IInv
<1>1. ASSUME NEW v \in Versions, Evaluate(v) PROVE Running' /\ Resting'
  <2>1. auto' \in [v : Versions \cup {None}, n : 0..MaxCount]
    BY <1>1 DEF Evaluate, Resting, Rows
  <2>2. Resting'
    BY <1>1, <2>1, BoundsTypes DEF Evaluate, Resting
  <2>3. QED
    BY <1>1, <2>2, SameRunning DEF Evaluate, requests
<1>2. CASE Dispatch
  <2>1. auto.n \in 0..MaxCount /\ row \in Rows
    BY DEF Resting
  <2>2. row' \in Rows
    BY <1>2, <2>1, RowTypes DEF Dispatch
  <2>3. Resting'
    BY <1>2, <2>2, BoundsAssumption DEF Dispatch, Resting, NoAttempt, bounds
  <2>4. Running'
    BY <1>2, AddedRuns, SameRunning DEF Dispatch
  <2>5. QED
    BY <2>3, <2>4
<1>3. QED
  BY <1>1, <1>2 DEF AutoStep

(* The queue: promotion, stalled jobs, and the counting of failed ones.    *)
LEMMA QueueSteps == IInv /\ QueueStep => IInv'
<1> SUFFICES ASSUME Running, Resting, NEW v \in Versions,
                    Promote(v) \/ Stalled(v) \/ ReadFailures(v) \/ CountFailure(v)
             PROVE  Running' /\ Resting'
  BY DEF IInv, QueueStep
<1>1. CASE Promote(v)
  <2> DEFINE j == [jobs[v] EXCEPT !.state = "waiting"]
  <2>1. j \in Job /\ j.made = jobs[v].made
    BY DEF Running, Job, Live
  <2>2. jobs[v].made < Attempts /\ jobs[v].state # "active"
    BY <1>1 DEF Promote, Running, Tried, Live
  <2>3. jobs' = [jobs EXCEPT ![v] = j] /\ run' = run
    BY <1>1 DEF Promote
  <2>4. \A h \in Handles : run[h].held => run[h].v # v
    BY <2>2, NobodyHolds
  <2>5. Running'
    <3> HIDE DEF j
    <3> QED
      BY <2>1, <2>2, <2>3, <2>4, JobChanges
  <2>6. Resting'
    BY <1>1 DEF Promote, Resting, requests, bounds
  <2>7. QED
    BY <2>5, <2>6
<1>2. CASE Stalled(v)
  <2>1. /\ jobs[v].state = "active" /\ jobs[v].state \in Live /\ run' = run
        /\ \A h \in Handles : run[h].held => run[h].v # v
    BY <1>2 DEF Stalled, Live
  <2>2. CASE jobs[v].stalled
    <3>1. JobFails(v, TRUE)
      BY <1>2, <2>2 DEF Stalled
    <3>2. Running'
      BY <2>1, <3>1, JobFailsType, JobChanges
    <3>3. owed' \in [Versions -> {Counted, Unread} \cup 0..MaxCount]
      BY <2>1, <3>1, JobFailsType
    <3>4. Resting'
      BY <1>2, <3>3 DEF Stalled, Resting, requests, bounds
    <3>5. QED
      BY <3>2, <3>4
  <2>3. CASE ~jobs[v].stalled
    <3> DEFINE j == [jobs[v] EXCEPT !.state = "waiting", !.stalled = TRUE]
    <3>1. j \in Job /\ j.made = jobs[v].made
      BY DEF Running, Job, Live
    <3>2. jobs[v].made < Attempts
      BY <2>1 DEF Running, Tried
    <3>3. jobs' = [jobs EXCEPT ![v] = j] /\ owed' = owed
      BY <1>2, <2>3 DEF Stalled
    <3>4. Running'
      <4> HIDE DEF j
      <4> QED
        BY <2>1, <3>1, <3>2, <3>3, JobChanges
    <3>5. Resting'
      BY <1>2, <3>3 DEF Stalled, Resting, requests, bounds
    <3>6. QED
      BY <3>4, <3>5
  <2>4. QED
    BY <2>2, <2>3
<1>3. CASE ReadFailures(v)
  <2>1. (IF row = NoRow THEN Counted ELSE row.failures)
          \in {Counted, Unread} \cup 0..MaxCount
    BY DEF Resting, Rows
  <2>2. owed' \in [Versions -> {Counted, Unread} \cup 0..MaxCount]
    BY <1>3, <2>1 DEF ReadFailures, Resting
  <2>3. Resting'
    BY <1>3, <2>2 DEF ReadFailures, Resting, requests, bounds
  <2>4. QED
    BY <1>3, <2>3, SameRunning DEF ReadFailures
<1>4. CASE CountFailure(v)
  <2>1. owed[v] \in 0..MaxCount /\ owed[v] < MaxCount
    BY <1>4, BoundsAssumption DEF CountFailure
  <2>2. row' \in Rows
    BY <1>4, <2>1, RowTypes DEF CountFailure, Resting
  <2>3. owed' \in [Versions -> {Counted, Unread} \cup 0..MaxCount]
    BY <1>4 DEF CountFailure, Resting
  <2>4. Resting'
    BY <1>4, <2>2, <2>3 DEF CountFailure, Resting, requests, bounds
  <2>5. QED
    BY <1>4, <2>4, SameRunning DEF CountFailure
<1>5. QED
  BY <1>1, <1>2, <1>3, <1>4

(* The start of an execution: it alone holds its job.                      *)
LEMMA StartStep ==
  ASSUME Running, Resting, NEW h \in Handles, NEW v \in Versions, Start(h, v)
  PROVE  Running' /\ Resting'
<1> DEFINE j == [jobs[v] EXCEPT !.state = "active"]
           q == [Idle EXCEPT !.pc = "head", !.v = v, !.held = TRUE, !.auto = jobs[v].auto]
<1>1. jobs[v] \in Job /\ jobs[v].made < Attempts /\ jobs[v].state # "active"
  BY DEF Start, Running, Tried, Live
<1>2. j \in Job /\ j.made < Attempts /\ j.state = "active"
  BY <1>1 DEF Job, Live
<1>3. q \in Handle /\ q.held /\ q.v = v
  BY <1>1, IdleType DEF Handle, Pcs, Job
<1>4. \A g \in Handles : run[g].held => run[g].v # v
  BY <1>1, NobodyHolds
<1>5. jobs' = [jobs EXCEPT ![v] = j] /\ run' = [run EXCEPT ![h] = q]
  BY DEF Start
<1> HIDE DEF j, q
<1>6. /\ jobs' \in [Versions -> Job]
      /\ \A w \in Versions : jobs'[w] = IF w = v THEN j ELSE jobs[w]
  BY <1>2, <1>5 DEF Running
<1>7. /\ run' \in [Handles -> Handle]
      /\ \A g \in Handles : run'[g] = IF g = h THEN q ELSE run[g]
  BY <1>3, <1>5 DEF Running
<1>8. \A g \in Handles : Busy(run[g])' /\ Holds(run[g])'
  BY <1>2, <1>3, <1>4, <1>6, <1>7 DEF Running, Busy, Holds
<1>9. OneHolder'
  BY <1>3, <1>4, <1>7 DEF Running, OneHolder
<1>10. Tried'
  BY <1>2, <1>6 DEF Running, Tried
<1>11. Running'
  BY <1>6, <1>7, <1>8, <1>9, <1>10 DEF Running
<1>12. Resting'
  BY DEF Start, Resting, requests, bounds
<1>13. QED
  BY <1>11, <1>12

(* The reconciliation and the restart before it.                           *)
LEMMA BootSteps == IInv /\ (BootStep \/ Crash) => IInv'
<1> SUFFICES ASSUME Running, Resting, BootStep \/ Crash PROVE Running' /\ Resting'
  BY DEF IInv
<1> DEFINE Boots == [pc : {"done", "list", "record"}, todo : SUBSET Versions,
                     found : BOOLEAN]
<1>1. Booted \in Boots
  BY DEF Booted
<1>2. CASE Crash
  <2>1. Running'
    BY <1>2, IdleType DEF Crash, Running, Tried, OneHolder, Busy, Holds
  <2>2. crashes' \in 0..MaxCrashes
    BY <1>2, BoundsAssumption DEF Crash, Resting
  <2>3. boot' \in Boots
    BY <1>2, <1>1 DEF Crash
  <2>4. owed' \in [Versions -> {Counted, Unread} \cup 0..MaxCount]
    BY <1>2 DEF Crash
  <2>5. user' \in [pc : {"idle", "remove", "files", "row"}, v : Versions \cup {None}]
    BY <1>2 DEF Crash, NoRequest
  <2>6. auto' \in [v : Versions \cup {None}, n : 0..MaxCount]
    BY <1>2, BoundsAssumption DEF Crash, NoAttempt
  <2>7. Resting'
    BY <1>2, <2>2, <2>3, <2>4, <2>5, <2>6 DEF Crash, Resting
  <2>8. QED
    BY <2>1, <2>7
<1>3. CASE BootList
  <2>1. boot' \in Boots
    BY <1>3 DEF BootList, Resting
  <2>2. Resting'
    BY <1>3, <2>1 DEF BootList, Resting, requests, bounds
  <2>3. QED
    BY <1>3, <2>2, SameRunning DEF BootList
<1>4. ASSUME NEW v \in Versions, BootRecord(v) PROVE Running' /\ Resting'
  <2>1. boot' \in Boots
    BY <1>1, <1>4 DEF BootRecord, BootQuery, Resting
  <2>2. row' \in Rows
    BY <1>4, RowTypes DEF BootRecord, BootQuery, Resting
  <2>3. QueryFails \/ UNCHANGED bounds
    BY <1>4 DEF BootRecord, BootQuery
  <2>4. Resting'
    BY <1>4, <2>1, <2>2, <2>3, BoundsTypes DEF BootRecord, BootQuery, Resting, requests
  <2>5. QED
    BY <1>4, <2>4, SameRunning DEF BootRecord, BootQuery
<1>5. CASE BootPurge
  <2>1. boot' = Booted
    BY <1>5 DEF BootPurge, BootQuery
  <2>2. row' \in Rows
    BY <1>5 DEF BootPurge, BootQuery, Resting, Rows
  <2>3. QueryFails \/ UNCHANGED bounds
    BY <1>5 DEF BootPurge, BootQuery
  <2>4. Resting'
    BY <1>1, <1>5, <2>1, <2>2, <2>3, BoundsTypes DEF BootPurge, BootQuery, Resting, requests
  <2>5. QED
    BY <1>5, <2>4, SameRunning DEF BootPurge, BootQuery
<1>6. QED
  BY <1>2, <1>3, <1>4, <1>5 DEF BootStep

(* The download itself: the file and the execution's place change.         *)
LEMMA StreamSteps ==
  ASSUME Running, Resting, NEW h \in Handles, Open(h) \/ Stream(h) \/ Rename(h)
  PROVE  Running' /\ Resting'
<1>1. run[h] \in Handle /\ run[h].pc # "idle" /\ run[h].v \in Versions
  BY DEF Running, Busy, Open, Stream, Rename
<1>2. Resting'
  BY <1>1 DEF Open, Stream, Rename, Resting, requests, bounds
<1>3. CASE Open(h)
  <2>1. \A q \in {[run[h] EXCEPT !.pc = "stream", !.tmp = TRUE],
                  [run[h] EXCEPT !.pc = "error"]} :
          q \in Handle /\ q.v = run[h].v /\ q.held = run[h].held
    BY <1>1 DEF Handle, Pcs
  <2>2. PICK q \in {[run[h] EXCEPT !.pc = "stream", !.tmp = TRUE],
                    [run[h] EXCEPT !.pc = "error"]} : Becomes(h, q)
    BY <1>3 DEF Open, Go
  <2>3. jobs' = jobs
    BY <1>3 DEF Open
  <2>4. QED
    BY <1>1, <1>2, <2>1, <2>2, <2>3, HandleGoesOn
<1>4. CASE Stream(h)
  <2>1. \A q \in {[run[h] EXCEPT !.pc = "rename"], [run[h] EXCEPT !.pc = "error"]} :
          q \in Handle /\ q.v = run[h].v /\ q.held = run[h].held
    BY <1>1 DEF Handle, Pcs
  <2>2. PICK q \in {[run[h] EXCEPT !.pc = "rename"], [run[h] EXCEPT !.pc = "error"]} :
          Becomes(h, q)
    BY <1>4 DEF Stream, Go
  <2>3. jobs' = jobs
    BY <1>4 DEF Stream
  <2>4. QED
    BY <1>1, <1>2, <2>1, <2>2, <2>3, HandleGoesOn
<1>5. CASE Rename(h)
  <2>1. \A pc \in {"lookup", "error"} :
          LET q == [run[h] EXCEPT !.tmp = FALSE, !.pc = pc]
          IN q \in Handle /\ q.v = run[h].v /\ q.held = run[h].held
    BY <1>1 DEF Handle, Pcs, Completing
  <2>2. PICK pc \in {"lookup", "error"} :
          Becomes(h, [run[h] EXCEPT !.tmp = FALSE, !.pc = pc])
    BY <1>5 DEF Rename
  <2>3. jobs' = jobs
    BY <1>5 DEF Rename
  <2>4. QED
    BY <1>1, <1>2, <2>1, <2>2, <2>3, HandleGoesOn
<1>6. QED
  BY <1>3, <1>4, <1>5

(* A query of onComplete: its effect q on the execution, or its end.       *)
LEMMA QueryStep ==
  ASSUME Running, Resting, NEW h \in Handles, NEW q \in Handle, run[h].pc # "idle",
         q.v = run[h].v, q.held => run[h].held,
         \/ Becomes(h, q) /\ row' \in Rows /\ UNCHANGED bounds
         \/ QueryFails /\ (Becomes(h, q) \/ Go(h, "end")) /\ row' = row,
         UNCHANGED <<jobs, flags, disk, owed, requests, boot>>
  PROVE  Running' /\ Resting'
<1> DEFINE e == [run[h] EXCEPT !.pc = "end"]
<1>1. e \in Handle /\ e.v = run[h].v /\ e.held = run[h].held
  BY DEF Running, Handle, Pcs
<1>2. Becomes(h, q) \/ Becomes(h, e)
  BY DEF Go
<1> HIDE DEF e
<1>3. Running'
  BY <1>1, <1>2, HandleGoesOn
<1>4. row' \in Rows
  BY DEF Resting
<1>5. Resting'
  BY <1>4, BoundsTypes DEF Resting, requests
<1>6. QED
  BY <1>3, <1>5

LEMMA QuerySteps ==
  ASSUME Running, Resting, NEW h \in Handles,
         Lookup(h) \/ Record(h) \/ Clear(h) \/ Prior(h) \/ RecordAgain(h)
  PROVE  Running' /\ Resting'
<1>1. run[h] \in Handle /\ run[h].pc # "idle" /\ run[h].v \in Versions
  BY DEF Running, Busy, Lookup, Record, Clear, Prior, RecordAgain, Query
<1>2. row \in Rows /\ Version \in Versions \cup {None} /\ Recorded(run[h].v) \in Rows
  BY <1>1, RowTypes DEF Resting
<1>3. CASE Lookup(h) \/ Prior(h)
  <2>1. PICK pc \in {"record", "again"} :
          /\ \/ /\ Becomes(h, [run[h] EXCEPT !.pc = pc, !.old = Version])
                /\ row' = row /\ UNCHANGED bounds
             \/ QueryFails /\ Go(h, "end") /\ row' = row
          /\ UNCHANGED <<jobs, flags, disk, owed, requests, boot>>
    BY <1>3 DEF Lookup, Prior, Query
  <2> DEFINE q == [run[h] EXCEPT !.pc = pc, !.old = Version]
  <2>2. q \in Handle /\ q.v = run[h].v /\ q.held = run[h].held
    BY <1>1, <1>2 DEF Handle, Pcs, Completing
  <2>3. \/ Becomes(h, q) /\ row' \in Rows /\ UNCHANGED bounds
        \/ QueryFails /\ (Becomes(h, q) \/ Go(h, "end")) /\ row' = row
    BY <1>2, <2>1
  <2> HIDE DEF q
  <2>4. QED
    BY <1>1, <2>1, <2>2, <2>3, QueryStep
<1>4. CASE Record(h)
  <2> DEFINE dirty == IF run[h].auto THEN Dirty(Recorded(run[h].v)) ELSE {}
             q == [run[h] EXCEPT !.pc = IF dirty = {} THEN "drop" ELSE "clear",
                                 !.dirty = dirty]
  <2>1. dirty \in SUBSET {"failures", "disabled"}
    BY DEF Dirty
  <2>2. q \in Handle /\ q.v = run[h].v /\ q.held = run[h].held
    <3> HIDE DEF dirty
    <3> QED
      BY <1>1, <2>1 DEF Handle, Pcs, Completing
  <2>3. \/ Becomes(h, q) /\ row' \in Rows /\ UNCHANGED bounds
        \/ QueryFails /\ (Becomes(h, q) \/ Go(h, "end")) /\ row' = row
    <3>1. \/ Becomes(h, q) /\ row' = Recorded(run[h].v) /\ UNCHANGED bounds
          \/ QueryFails /\ Go(h, "end") /\ row' = row
      BY <1>4 DEF Record, Query
    <3> HIDE DEF q
    <3>2. QED
      BY <1>2, <3>1
  <2>4. UNCHANGED <<jobs, flags, disk, owed, requests, boot>>
    BY <1>4 DEF Record, Query
  <2> HIDE DEF q
  <2>5. QED
    BY <1>1, <2>2, <2>3, <2>4, QueryStep
<1>5. CASE Clear(h)
  <2> DEFINE q == [run[h] EXCEPT !.pc = "drop", !.dirty = {}]
  <2>1. q \in Handle /\ q.v = run[h].v /\ q.held = run[h].held
    BY <1>1 DEF Handle, Pcs, Completing
  <2>2. Cleared(run[h].dirty) \in Rows
    BY <1>2, RowTypes
  <2>3. \/ Becomes(h, q) /\ row' \in Rows /\ UNCHANGED bounds
        \/ QueryFails /\ (Becomes(h, q) \/ Go(h, "end")) /\ row' = row
    <3>1. /\ Becomes(h, q)
          /\ \/ row' = Cleared(run[h].dirty) /\ UNCHANGED bounds
             \/ row' = row /\ QueryFails
      BY <1>5 DEF Clear
    <3> HIDE DEF q
    <3>2. QED
      BY <2>2, <3>1
  <2>4. UNCHANGED <<jobs, flags, disk, owed, requests, boot>>
    BY <1>5 DEF Clear
  <2> HIDE DEF q
  <2>5. QED
    BY <1>1, <2>1, <2>3, <2>4, QueryStep
<1>6. CASE RecordAgain(h)
  <2> DEFINE q == [run[h] EXCEPT !.pc = "superseded"]
  <2>1. q \in Handle /\ q.v = run[h].v /\ q.held = run[h].held
    BY <1>1 DEF Handle, Pcs, Completing
  <2>2. \/ Becomes(h, q) /\ row' \in Rows /\ UNCHANGED bounds
        \/ QueryFails /\ (Becomes(h, q) \/ Go(h, "end")) /\ row' = row
    <3>1. \/ Becomes(h, q) /\ row' = Recorded(run[h].v) /\ UNCHANGED bounds
          \/ QueryFails /\ Go(h, "end") /\ row' = row
      BY <1>6 DEF RecordAgain, Query, Go
    <3> HIDE DEF q
    <3>2. QED
      BY <1>2, <3>1
  <2>3. UNCHANGED <<jobs, flags, disk, owed, requests, boot>>
    BY <1>6 DEF RecordAgain, Query
  <2> HIDE DEF q
  <2>4. QED
    BY <1>1, <2>1, <2>2, <2>3, QueryStep
<1>7. QED
  BY <1>3, <1>4, <1>5, <1>6

(* The deletions of onComplete: the execution goes on.                     *)
LEMMA DropSteps ==
  ASSUME Running, Resting, NEW h \in Handles, DropOld(h) \/ DropSuperseded(h)
  PROVE  Running' /\ Resting'
<1>1. run[h] \in Handle /\ run[h].pc # "idle"
  BY DEF Running, DropOld, DropSuperseded
<1>2. disk' \subseteq disk /\ jobs' = jobs
  BY DEF DropOld, DropSuperseded
<1>3. Resting'
  BY <1>2 DEF DropOld, DropSuperseded, Resting, requests, bounds
<1>4. CASE DropOld(h)
  <2>1. PICK seen \in BOOLEAN :
          Becomes(h, [run[h] EXCEPT !.pc = "prior", !.old = None, !.seen = seen])
    <3>1. \A left : (run[h].v \in left) \in BOOLEAN
      OBVIOUS
    <3>2. \E left : Becomes(h, [run[h] EXCEPT !.pc = "prior", !.old = None,
                                             !.seen = run[h].v \in left])
      BY <1>4 DEF DropOld
    <3>3. QED
      BY <3>1, <3>2
  <2> DEFINE q == [run[h] EXCEPT !.pc = "prior", !.old = None, !.seen = seen]
  <2>2. q \in Handle /\ q.v = run[h].v /\ q.held = run[h].held
    BY <1>1 DEF Handle, Pcs, Completing
  <2> HIDE DEF q
  <2>3. QED
    BY <1>1, <1>2, <1>3, <2>1, <2>2, HandleGoesOn DEF q
<1>5. CASE DropSuperseded(h)
  <2> DEFINE q == [run[h] EXCEPT !.pc = "end"]
  <2>1. q \in Handle /\ q.v = run[h].v /\ q.held = run[h].held
    BY <1>1 DEF Handle, Pcs
  <2>2. Becomes(h, q)
    BY <1>5 DEF DropSuperseded, Go
  <2> HIDE DEF q
  <2>3. QED
    BY <1>1, <1>2, <1>3, <2>1, <2>2, HandleGoesOn
<1>6. QED
  BY <1>4, <1>5

(* The execution lets its job go: the job is removed, or its attempt fails.*)
LEMMA LastSteps ==
  ASSUME Running, Resting, NEW h \in Handles, End(h) \/ Throw(h)
  PROVE  Running' /\ Resting'
<1>1. run[h] \in Handle /\ run[h].v \in Versions /\ Becomes(h, Idle) /\ Busy(Idle)
  BY IdleType DEF Running, Busy, End, Throw
<1>2. CASE End(h)
  <2>1. jobs' = IF run[h].held THEN [jobs EXCEPT ![run[h].v] = NoJob] ELSE jobs
    BY <1>2 DEF End
  <2>2. NoJob.state \notin Live
    BY NoJobType DEF Live
  <2>3. Running'
    BY <1>1, <2>1, <2>2, NoJobType, IdleType, HandleLetsGo
  <2>4. Resting'
    BY <1>2 DEF End, Resting, requests, bounds
  <2>5. QED
    BY <2>3, <2>4
<1>3. CASE Throw(h)
  <2> DEFINE v == run[h].v
             cancelled == run[h].cancelled
  <2>1. cancelled \in BOOLEAN /\ v \in Versions
    BY <1>1 DEF Handle
  <2>2. CASE run[h].held
    <3>1. JobFails(v, cancelled) /\ jobs[v].state \in Live
      BY <1>3, <2>2 DEF Throw, Running, Holds, Live
    <3> HIDE DEF cancelled
    <3>2. /\ Failed(v, cancelled) \in Job
          /\ Failed(v, cancelled).state \in Live => Failed(v, cancelled).made < Attempts
          /\ jobs' = [jobs EXCEPT ![v] = Failed(v, cancelled)]
          /\ owed' \in [Versions -> {Counted, Unread} \cup 0..MaxCount]
      BY <2>1, <3>1, JobFailsType
    <3>3. Running'
      BY <1>1, <2>1, <2>2, <3>2, IdleType, HandleLetsGo
    <3>4. Resting'
      BY <1>3, <3>2 DEF Throw, Resting, requests, bounds
    <3>5. QED
      BY <3>3, <3>4
  <2>3. CASE ~run[h].held
    <3>1. jobs' = jobs /\ owed' = owed
      BY <1>3, <2>3 DEF Throw
    <3>2. NoJob.state \notin Live
      BY NoJobType DEF Live
    <3>3. Running'
      BY <1>1, <2>3, <3>1, <3>2, NoJobType, IdleType, HandleLetsGo
    <3>4. Resting'
      BY <1>3, <3>1 DEF Throw, Resting, requests, bounds
    <3>5. QED
      BY <3>3, <3>4
  <2>4. QED
    BY <2>2, <2>3
<1>4. QED
  BY <1>2, <1>3

(* A cancel signal is seen: before the file is complete the execution      *)
(* keeps its job for Throw, later it loses it.                             *)
LEMMA AbortStep ==
  ASSUME Running, Resting, NEW h \in Handles, Abort(h)
  PROVE  Running' /\ Resting'
<1> DEFINE v == run[h].v
<1>1. run[h] \in Handle /\ run[h].pc # "idle" /\ v \in Versions
  BY DEF Running, Busy, Abort, Completing, Resting
<1>2. CASE run[h].pc \in {"head", "stream"}
  <2> DEFINE q == [run[h] EXCEPT !.pc = "error", !.cancelled = TRUE]
  <2>1. q \in Handle /\ q.v = run[h].v /\ q.held = run[h].held
    BY <1>1 DEF Handle, Pcs
  <2>2. Becomes(h, q) /\ UNCHANGED <<jobs, owed>>
    BY <1>2 DEF Abort, Completing
  <2> HIDE DEF q
  <2>3. Running'
    BY <1>1, <2>1, <2>2, HandleGoesOn
  <2>4. Resting'
    BY <2>2 DEF Abort, Resting, requests, bounds
  <2>5. QED
    BY <2>3, <2>4
<1>3. CASE run[h].pc \notin {"head", "stream"}
  <2> DEFINE q == [run[h] EXCEPT !.held = FALSE]
  <2>1. q \in Handle /\ ~q.held /\ Busy(q)
    BY <1>1 DEF Handle, Busy
  <2>2. /\ Becomes(h, q)
        /\ IF run[h].held THEN JobFails(v, TRUE) ELSE UNCHANGED <<jobs, owed>>
    BY <1>3 DEF Abort
  <2> HIDE DEF q
  <2>3. CASE run[h].held
    <3>1. JobFails(v, TRUE) /\ jobs[v].state \in Live
      BY <2>2, <2>3 DEF Running, Holds, Live
    <3>2. /\ Failed(v, TRUE) \in Job
          /\ Failed(v, TRUE).state \in Live => Failed(v, TRUE).made < Attempts
          /\ jobs' = [jobs EXCEPT ![v] = Failed(v, TRUE)]
          /\ owed' \in [Versions -> {Counted, Unread} \cup 0..MaxCount]
      BY <1>1, <3>1, JobFailsType
    <3>3. Running'
      BY <1>1, <2>1, <2>2, <2>3, <3>2, HandleLetsGo
    <3>4. Resting'
      BY <3>2 DEF Abort, Resting, requests, bounds
    <3>5. QED
      BY <3>3, <3>4
  <2>4. CASE ~run[h].held
    <3>1. jobs' = jobs /\ owed' = owed
      BY <2>2, <2>4
    <3>2. NoJob.state \notin Live
      BY NoJobType DEF Live
    <3>3. Running'
      BY <1>1, <2>1, <2>2, <2>4, <3>1, <3>2, NoJobType, HandleLetsGo
    <3>4. Resting'
      BY <3>1 DEF Abort, Resting, requests, bounds
    <3>5. QED
      BY <3>3, <3>4
  <2>5. QED
    BY <2>3, <2>4
<1>4. QED
  BY <1>2, <1>3

LEMMA StepHolds == IInv /\ [Next]_vars => IInv'
<1> SUFFICES ASSUME IInv, [Next]_vars PROVE IInv'
  OBVIOUS
<1>1. Running /\ Resting
  BY DEF IInv
<1>2. CASE UserStep \/ AutoStep \/ QueueStep \/ BootStep \/ Crash
  BY <1>2, UserSteps, AutoSteps, QueueSteps, BootSteps
<1>3. ASSUME NEW h \in Handles, HandleStep(h) PROVE Running' /\ Resting'
  BY <1>1, <1>3, StreamSteps, QuerySteps, DropSteps, LastSteps DEF HandleStep
<1>4. ASSUME NEW h \in Handles, Abort(h) PROVE Running' /\ Resting'
  BY <1>1, <1>4, AbortStep
<1>5. ASSUME NEW h \in Handles, NEW v \in Versions, Start(h, v)
      PROVE  Running' /\ Resting'
  BY <1>1, <1>5, StartStep
<1>6. CASE UNCHANGED vars
  <2>1. Running'
    BY <1>1, <1>6, SameRunning DEF vars
  <2>2. Resting'
    BY <1>1, <1>6 DEF vars, Resting, requests, bounds
  <2>3. QED
    BY <2>1, <2>2 DEF IInv
<1>7. QED
  BY <1>2, <1>3, <1>4, <1>5, <1>6 DEF Next, IInv

(* Every variable keeps its type, whatever the requests, failures and      *)
(* restarts: in particular no job of the `downloads` queue is attempted    *)
(* more often than RunDownloadJob.dispatch allows.                         *)
THEOREM TypeCorrect == Spec => []TypeOK
<1>1. Init => IInv
  BY InitHolds
<1>2. IInv /\ [Next]_vars => IInv'
  BY StepHolds
<1>3. IInv => TypeOK
  BY IInvTypes
<1>4. QED
  BY <1>1, <1>2, <1>3, PTL DEF Spec

-----------------------------------------------------------------------------
(* The files, the row and who works on them, as long as `calm` and `kept`  *)
(* hold.                                                                   *)

Recorded2 == {"clear", "drop", "prior", "again", "superseded"}

(* What an execution past its download relies on.                          *)
Tidy(h) ==
  /\ run[h].pc \in Completing => run[h].v \in disk
  /\ run[h].pc = "record" => run[h].old = Version
  /\ run[h].pc \in Recorded2 => Version = run[h].v
  /\ run[h].pc \in {"again", "superseded"} => run[h].old = run[h].v

(* The reconciliation has listed what is there, and recorded some of it.   *)
BootTidy ==
  boot.pc = "record" =>
    /\ boot.todo \subseteq disk /\ (boot.found <=> disk # {})
    /\ boot.todo # disk => Version \in disk

Between == \E h \in Handles : run[h].pc \in {"lookup", "record"}

RowTidy ==
  ~Booting /\ ~Deleting =>
    /\ Version # None => Version \in disk
    /\ faults = 0 /\ Version = None /\ ~Between => disk = {}

Disturbed == Crowded \/ Parting
Orderly == ~Disturbed /\ BootTidy /\ RowTidy /\ \A h \in Handles : Tidy(h)

CalmIsOrderly == calm /\ kept => Orderly

VersionOf(r) == IF r = NoRow THEN None ELSE r.version

LEMMA VersionIs == Version = VersionOf(row) /\ Version' = VersionOf(row')
  BY DEF Version, VersionOf

LEMMA VersionsOfRows ==
  /\ VersionOf(NoRow) = None
  /\ \A r \in Rows : /\ r = NoRow <=> VersionOf(r) = None
                     /\ r # NoRow => VersionOf(r) = r.version /\ r.version \in Versions
  BY VersionsAssumption DEF VersionOf, Rows

(* What becomes of the version when the row is written.                    *)
Records == [version : Versions, failures : 0..MaxCount, disabled : BOOLEAN]

LEMMA WrittenVersions ==
  ASSUME row \in Rows
  PROVE  /\ \A v \in Versions : VersionOf(Recorded(v)) = v
         /\ \A n \in 0..MaxCount : n < MaxCount => VersionOf(CountedFrom(n)) = Version
         /\ \A dirty : VersionOf(Cleared(dirty)) = Version
         /\ row # NoRow => VersionOf(Fresh(row.version)) = Version
<1>1. \A r \in Records : r # NoRow /\ VersionOf(r) = r.version
  BY RowAssumption DEF Records, VersionOf
<1>2. 0 \in 0..MaxCount
  BY BoundsAssumption
<1>3. row # NoRow => row \in Records
  BY DEF Rows, Records
<1>4. \A v \in Versions : Fresh(v) \in Records /\ Fresh(v).version = v
  BY <1>2 DEF Fresh, Records
<1>5. ASSUME NEW v \in Versions PROVE VersionOf(Recorded(v)) = v
  <2>1. Recorded(v) \in Records /\ Recorded(v).version = v
    BY <1>3, <1>4 DEF Recorded, Records
  <2>2. QED
    BY <1>1, <2>1
<1>6. ASSUME NEW n \in 0..MaxCount, n < MaxCount PROVE VersionOf(CountedFrom(n)) = Version
  <2>1. CASE row # NoRow
    <3>1. n + 1 \in 0..MaxCount
      BY <1>6, BoundsAssumption
    <3>2. (n + 1 >= MAX_CONSECUTIVE_FAILURES) \in BOOLEAN
      OBVIOUS
    <3>3. CountedFrom(n) \in Records /\ CountedFrom(n).version = row.version
      BY <1>3, <2>1, <3>1, <3>2 DEF CountedFrom, Records
    <3>4. QED
      BY <1>1, <2>1, <3>3 DEF Version
  <2>2. QED
    BY <2>1 DEF CountedFrom, VersionOf, Version
<1>7. ASSUME NEW dirty PROVE VersionOf(Cleared(dirty)) = Version
  <2>1. CASE row # NoRow
    <3>1. ("disabled" \notin dirty) \in BOOLEAN
      OBVIOUS
    <3>2. Cleared(dirty) \in Records /\ Cleared(dirty).version = row.version
      BY <1>2, <1>3, <2>1, <3>1 DEF Cleared, Records
    <3>3. QED
      BY <1>1, <2>1, <3>2 DEF Version
  <2>2. QED
    BY <2>1 DEF Cleared, VersionOf, Version
<1>8. ASSUME row # NoRow PROVE VersionOf(Fresh(row.version)) = Version
  BY <1>1, <1>3, <1>4, <1>8 DEF Version, Records
<1>9. QED
  BY <1>5, <1>6, <1>7, <1>8

(* Whoever is not past a download leaves all that in order.                *)
LEMMA Beside ==
  ASSUME Orderly, ~Disturbed', UNCHANGED <<disk, boot>>, Deleting' <=> Deleting,
         Version' = Version,
         \A h \in Handles : run'[h].pc \in Completing =>
           run'[h].pc = run[h].pc /\ run'[h].v = run[h].v /\ run'[h].old = run[h].old,
         faults' = 0 => /\ faults = 0
                        /\ \A h \in Handles : run[h].pc \in {"lookup", "record"} =>
                                                run'[h].pc = run[h].pc
  PROVE  Orderly'
<1>1. \A h \in Handles : Tidy(h)'
  BY DEF Orderly, Tidy, Completing, Recorded2
<1>2. BootTidy'
  BY DEF Orderly, BootTidy
<1>3. RowTidy'
  BY DEF Orderly, RowTidy, Between, Booting
<1>4. QED
  BY <1>1, <1>2, <1>3 DEF Orderly

(* An execution past its download does its next step.                      *)
LEMMA Finisher ==
  ASSUME Orderly, ~Disturbed', NEW h \in Handles, NEW q, run \in [Handles -> Handle],
         run[h].pc \in {"rename"} \cup Completing, Becomes(h, q),
         UNCHANGED <<boot, user>>, q.v = run[h].v, q.pc # "rename",
         q.pc \in Completing => run[h].v \in disk',
         q.pc = "record" => q.old = Version',
         q.pc \in Recorded2 => Version' = run[h].v,
         q.pc \in {"again", "superseded"} => q.old = run[h].v,
         Version' # None => Version' \in disk',
         faults' = 0 /\ Version' = None /\ q.pc \notin {"lookup", "record"} => disk' = {}
  PROVE  Orderly'
<1>1. \A g \in Handles : run'[g] = IF g = h THEN q ELSE run[g]
  BY DEF Becomes
<1>2. h \in Finishing /\ \A g \in Handles : g # h => run[g].pc \notin Completing
  BY DEF Orderly, Disturbed, Parting, Cancelling, Crowded, Finishing
<1>3. ~Booting /\ ~Deleting
  BY <1>2 DEF Orderly, Disturbed, Parting, Cancelling, Crowded
<1>4. \A g \in Handles : Tidy(g)'
  BY <1>1, <1>2 DEF Tidy, Completing, Recorded2
<1>5. BootTidy'
  BY <1>3 DEF BootTidy, Booting
<1>6. RowTidy'
  BY <1>1 DEF RowTidy, Between
<1>7. QED
  BY <1>4, <1>5, <1>6 DEF Orderly

(* Requests that leave the files and the row alone.                        *)
LEMMA RequestsBeside ==
  ASSUME Running, Resting, Orderly, ~Disturbed', NEW v \in Versions,
         Download(v) \/ ApplyUpdate(v) \/ Dismiss(v) \/ Cancel(v) \/ FlagExpires(v) \/ Evaluate(v)
  PROVE  Orderly'
<1>1. UNCHANGED <<disk, boot, row, run, faults>>
  BY DEF Download, ApplyUpdate, Dismiss, Cancel, FlagExpires, Evaluate, Asks, bounds
<1>2. Deleting' <=> Deleting
  <2>1. CASE Cancel(v)
    BY <2>1 DEF Cancel, Deleting, NoRequest
  <2>2. CASE ~Cancel(v)
    BY <2>2 DEF Download, ApplyUpdate, Dismiss, FlagExpires, Evaluate, Deleting, requests
  <2>3. QED
    BY <2>1, <2>2
<1>3. Version' = Version
  BY <1>1 DEF Version
<1>4. QED
  BY <1>1, <1>2, <1>3, Beside

(* Writes of the row that keep its version.                                *)
LEMMA WritesBeside ==
  ASSUME Running, Resting, Orderly, ~Disturbed',
         ResetBackoff \/ Dispatch \/ \E v \in Versions : CountFailure(v)
  PROVE  Orderly'
<1>1. UNCHANGED <<disk, boot, user, run, faults>>
  BY DEF ResetBackoff, Dispatch, CountFailure, requests, Asks, bounds
<1>2. Version' = Version
  <2>1. row \in Rows /\ auto.n \in 0..MaxCount
    BY DEF Resting
  <2>2. ASSUME ResetBackoff PROVE Version' = Version
    BY <2>1, <2>2, VersionIs, WrittenVersions DEF ResetBackoff
  <2>3. ASSUME Dispatch PROVE Version' = Version
    BY <2>1, <2>3, VersionIs, WrittenVersions DEF Dispatch
  <2>4. ASSUME NEW v \in Versions, CountFailure(v) PROVE Version' = Version
    <3>1. owed[v] \in 0..MaxCount /\ owed[v] < MaxCount
      BY <2>4, BoundsAssumption DEF CountFailure
    <3>2. QED
      BY <2>1, <2>4, <3>1, VersionIs, WrittenVersions DEF CountFailure
  <2>5. QED
    BY <2>2, <2>3, <2>4
<1>3. Deleting' <=> Deleting
  BY <1>1 DEF Deleting
<1>4. QED
  BY <1>1, <1>2, <1>3, Beside

(* The queue.                                                              *)
LEMMA QueueBeside ==
  ASSUME Running, Resting, Orderly, ~Disturbed', NEW v \in Versions,
         Promote(v) \/ Stalled(v) \/ ReadFailures(v)
  PROVE  Orderly'
<1>1. UNCHANGED <<disk, boot, user, row, run, faults>>
  BY DEF Promote, Stalled, ReadFailures, requests, bounds
<1>2. Version' = Version /\ (Deleting' <=> Deleting)
  BY <1>1 DEF Version, Deleting
<1>3. QED
  BY <1>1, <1>2, Beside

(* A cancel that removes the job: its execution goes on without it.        *)
LEMMA RemoveJobBeside ==
  ASSUME Running, Resting, Orderly, ~Disturbed', RemoveJob
  PROVE  Orderly'
<1>1. UNCHANGED <<disk, boot, row, faults>>
  BY DEF RemoveJob, bounds
<1>2. \A h \in Handles :
        run'[h].pc = run[h].pc /\ run'[h].v = run[h].v /\ run'[h].old = run[h].old
  BY DEF RemoveJob, Running, Handle
<1>3. ~Deleting /\ ~Deleting'
  BY DEF RemoveJob, Deleting, Resting
<1>4. Version' = Version
  BY <1>1 DEF Version
<1>5. QED
  BY <1>1, <1>2, <1>3, <1>4, Beside

(* An execution that is not past its download, or lets its job go.         *)
Aside(h) ==
  /\ \A g \in Handles \ {h} : run'[g] = run[g]
  /\ run'[h].pc \in Completing \/ run[h].pc \in Completing =>
       run'[h].pc = run[h].pc /\ run'[h].v = run[h].v /\ run'[h].old = run[h].old

LEMMA AsideHolds ==
  ASSUME Orderly, ~Disturbed', NEW h \in Handles, Aside(h),
         UNCHANGED <<disk, boot, user, row, faults>>
  PROVE  Orderly'
<1>1. Version' = Version /\ (Deleting' <=> Deleting)
  BY DEF Version, Deleting
<1>2. QED
  BY <1>1, Beside DEF Aside, Completing

LEMMA DownloadBeside ==
  ASSUME Running, Resting, Orderly, ~Disturbed', NEW h \in Handles,
         Open(h) \/ Stream(h) \/ End(h) \/ Throw(h) \/ Abort(h)
  PROVE  Orderly'
<1>1. run \in [Handles -> Handle] /\ run[h] \in Handle
  BY DEF Running
<1>2. CASE Open(h)
  <2>1. UNCHANGED <<disk, boot, user, row, faults>>
    BY <1>2 DEF Open, requests, bounds
  <2>2. run[h].pc = "head" /\ run'[h].pc \in {"stream", "error"}
    <3>1. run'[h] \in {[run[h] EXCEPT !.pc = "stream", !.tmp = TRUE], [run[h] EXCEPT !.pc = "error"]}
      BY <1>1, <1>2 DEF Open, Go, Becomes
    <3>2. QED
      BY <1>1, <1>2, <3>1 DEF Open, Handle
  <2>3. \A g \in Handles \ {h} : run'[g] = run[g]
    BY <1>1, <1>2 DEF Open, Go, Becomes
  <2>4. QED
    BY <2>1, <2>2, <2>3, AsideHolds DEF Aside, Completing
<1>3. CASE Stream(h)
  BY <1>1, <1>3, AsideHolds DEF Stream, Go, Becomes, Aside, Completing, Handle, requests, bounds
<1>4. CASE End(h) \/ Throw(h)
  <2>1. Aside(h)
    BY <1>1, <1>4, IdleType DEF End, Throw, Becomes, Aside, Completing
  <2>2. UNCHANGED <<disk, boot, user, row, faults>>
    BY <1>4 DEF End, Throw, requests, bounds
  <2>3. QED
    BY <2>1, <2>2, AsideHolds
<1>5. CASE Abort(h)
  <2>1. UNCHANGED <<disk, boot, user, row, faults>>
    BY <1>5 DEF Abort, requests, bounds
  <2>2. CASE run[h].pc \in {"head", "stream"}
    <3>1. Becomes(h, [run[h] EXCEPT !.pc = "error", !.cancelled = TRUE])
      BY <1>5, <2>2 DEF Abort, Completing
    <3>2. Aside(h)
      BY <1>1, <2>2, <3>1 DEF Becomes, Aside, Completing, Handle
    <3>3. QED
      BY <2>1, <3>2, AsideHolds
  <2>3. CASE run[h].pc \notin {"head", "stream"}
    <3>1. Becomes(h, [run[h] EXCEPT !.held = FALSE])
      BY <1>5, <2>3 DEF Abort
    <3>2. Aside(h)
      BY <1>1, <3>1 DEF Becomes, Aside, Handle
    <3>3. QED
      BY <2>1, <3>2, AsideHolds
  <2>4. QED
    BY <2>2, <2>3
<1>6. QED
  BY <1>2, <1>3, <1>4, <1>5

LEMMA StartBeside ==
  ASSUME Running, Resting, Orderly, ~Disturbed', NEW h \in Handles, NEW v \in Versions,
         Start(h, v)
  PROVE  Orderly'
<1>1. run[h] = Idle /\ UNCHANGED <<disk, boot, user, row, faults>>
  BY DEF Start, requests, bounds
<1>2. PICK q : run' = [run EXCEPT ![h] = q] /\ q.pc = "head"
  <2>1. \A a : [Idle EXCEPT !.pc = "head", !.v = v, !.held = TRUE, !.auto = a].pc = "head"
    BY DEF Idle
  <2>2. QED
    BY <2>1 DEF Start
<1>3. Aside(h)
  BY <1>1, <1>2, IdleType DEF Aside, Completing, Running
<1>4. QED
  BY <1>1, <1>3, AsideHolds

(* The next steps of an execution past its download.                       *)
LEMMA FinishingFacts ==
  ASSUME Running, Resting, Orderly, NEW h \in Handles,
         run[h].pc \in {"rename"} \cup Completing
  PROVE  /\ run \in [Handles -> Handle] /\ run[h] \in Handle
         /\ run[h].v \in Versions /\ run[h].v # None
         /\ faults \in Nat /\ Version \in Versions \cup {None}
         /\ Version # None => Version \in disk
         /\ \A g \in Handles : g # h => run[g].pc \notin Completing
<1>1. run[h] \in Handle /\ run[h].v \in Versions
  BY DEF Running, Busy, Completing
<1>2. h \in Finishing
  BY DEF Finishing
<1>3. ~Booting /\ ~Deleting /\ \A g \in Handles : g # h => run[g].pc \notin Completing
  BY <1>2 DEF Orderly, Disturbed, Parting, Cancelling, Crowded, Finishing
<1>4. QED
  BY <1>1, <1>3, RowTypes, VersionsAssumption, BoundsAssumption DEF Running, Resting, Orderly, RowTidy

LEMMA RenameOrderly ==
  ASSUME Running, Resting, Orderly, ~Disturbed', NEW h \in Handles, Rename(h)
  PROVE  Orderly'
<1>1. run[h].pc = "rename"
  BY DEF Rename
<1> DEFINE q == run'[h]
<1>2. /\ Becomes(h, q) /\ q.v = run[h].v
      /\ \/ q.pc = "lookup" /\ run[h].v \in disk'
         \/ q.pc = "error" /\ disk' = disk
  <2>1. \A pc : LET r == [run[h] EXCEPT !.tmp = FALSE, !.pc = pc]
                IN r.pc = pc /\ r.v = run[h].v
    BY <1>1, FinishingFacts DEF Handle
  <2> DEFINE pc == IF run[h].v \in disk' THEN "lookup" ELSE "error"
  <2>2. /\ Becomes(h, [run[h] EXCEPT !.tmp = FALSE, !.pc = pc])
        /\ run[h].v \notin disk' => disk' = disk
    BY DEF Rename
  <2> HIDE DEF pc
  <2>3. q = [run[h] EXCEPT !.tmp = FALSE, !.pc = pc] /\ Becomes(h, q)
    BY <1>1, <2>2, FinishingFacts DEF Becomes
  <2>4. QED
    BY <2>1, <2>2, <2>3 DEF pc
<1>3. UNCHANGED <<boot, user, row, faults>> /\ disk \subseteq disk'
  BY DEF Rename, requests, bounds
<1>4. Version' = Version
  BY <1>3 DEF Version
<1>5. ~Between /\ ~Booting /\ ~Deleting
  BY <1>1, FinishingFacts DEF Between, Completing, Orderly, Disturbed, Parting, Cancelling, Crowded, Finishing
<1>6. faults' = 0 /\ Version' = None /\ q.pc # "lookup" => disk' = {}
  BY <1>2, <1>3, <1>4, <1>5 DEF Orderly, RowTidy
<1>7. Version' # None => Version' \in disk'
  BY <1>1, <1>3, <1>4, FinishingFacts
<1> HIDE DEF q
<1>8. QED
  BY <1>1, <1>2, <1>3, <1>6, <1>7, FinishingFacts, Finisher DEF Completing, Recorded2

(* A query of onComplete fails: the row keeps what it had.                 *)
LEMMA QueryFailsOrderly ==
  ASSUME Running, Resting, Orderly, ~Disturbed', NEW h \in Handles, run[h].pc \in Completing,
         QueryFails, Go(h, "end"), UNCHANGED <<disk, row, boot, user>>
  PROVE  Orderly'
<1> DEFINE q == [run[h] EXCEPT !.pc = "end"]
<1>1. Becomes(h, q) /\ q.v = run[h].v /\ q.pc = "end"
  BY FinishingFacts DEF Go, Handle
<1>2. faults' # 0
  BY FinishingFacts DEF QueryFails
<1>3. Version' = Version
  BY DEF Version
<1> HIDE DEF q
<1>4. QED
  BY <1>1, <1>2, <1>3, FinishingFacts, Finisher DEF Completing, Recorded2

LEMMA LookupOrderly ==
  ASSUME Running, Resting, Orderly, ~Disturbed', NEW h \in Handles, Lookup(h) \/ Prior(h)
  PROVE  Orderly'
<1>1. /\ run[h].pc \in Completing /\ UNCHANGED <<disk, row, boot, user>>
      /\ \/ QueryFails /\ Go(h, "end")
         \/ /\ Becomes(h, [run[h] EXCEPT !.pc = IF run[h].pc = "lookup" THEN "record" ELSE "again",
                                         !.old = Version])
            /\ UNCHANGED faults
  BY DEF Lookup, Prior, Query, Completing, requests, bounds
<1>2. run[h].v \in disk /\ (run[h].pc # "lookup" => Version = run[h].v)
  BY <1>1 DEF Orderly, Tidy, Recorded2, Lookup, Prior, Query
<1>3. Version' = Version
  BY <1>1 DEF Version
<1>4. CASE ~(QueryFails /\ Go(h, "end"))
  <2> DEFINE pc == IF run[h].pc = "lookup" THEN "record" ELSE "again"
             q == [run[h] EXCEPT !.pc = pc, !.old = Version]
  <2>1. Becomes(h, q) /\ q.v = run[h].v /\ q.pc = pc /\ q.old = Version
    BY <1>1, <1>4, FinishingFacts DEF Handle
  <2>2. faults' = faults
    BY <1>1, <1>4
  <2> HIDE DEF q
  <2>3. QED
    BY <1>1, <1>2, <1>3, <2>1, <2>2, FinishingFacts, Finisher DEF Completing, Recorded2
<1>5. QED
  BY <1>1, <1>4, QueryFailsOrderly

LEMMA RecordOrderly ==
  ASSUME Running, Resting, Orderly, ~Disturbed', NEW h \in Handles, Record(h) \/ RecordAgain(h)
  PROVE  Orderly'
<1> DEFINE dirty == IF run[h].auto THEN Dirty(Recorded(run[h].v)) ELSE {}
           q == [run[h] EXCEPT !.pc = IF dirty = {} THEN "drop" ELSE "clear", !.dirty = dirty]
           e == [run[h] EXCEPT !.pc = "superseded"]
<1>1. run[h].pc \in Completing /\ UNCHANGED <<disk, boot, user>>
  BY DEF Record, RecordAgain, Query, Completing, requests
<1>2. run[h].v \in disk /\ (run[h].pc = "again" => run[h].old = run[h].v)
  BY <1>1 DEF Orderly, Tidy
<1>3. ASSUME row' = Recorded(run[h].v), UNCHANGED faults,
             \/ run[h].pc = "record" /\ Becomes(h, q)
             \/ run[h].pc = "again" /\ Becomes(h, e)
      PROVE  Orderly'
  <2>1. Version' = run[h].v
    BY <1>1, <1>3, FinishingFacts, VersionIs, WrittenVersions DEF Resting
  <2>2. /\ q.v = run[h].v /\ q.pc \in {"drop", "clear"} /\ q.old = run[h].old
        /\ e.v = run[h].v /\ e.pc = "superseded" /\ e.old = run[h].old
    BY <1>1, FinishingFacts DEF Handle
  <2> HIDE DEF q, e
  <2>3. QED
    BY <1>1, <1>2, <1>3, <2>1, <2>2, FinishingFacts, Finisher DEF Completing, Recorded2
<1>4. CASE Record(h)
  <2>1. \/ row' = Recorded(run[h].v) /\ Becomes(h, q) /\ UNCHANGED bounds /\ run[h].pc = "record"
        \/ QueryFails /\ Go(h, "end") /\ row' = row
    BY <1>4 DEF Record, Query
  <2> HIDE DEF q, e
  <2>2. QED
    BY <1>1, <1>3, <2>1, QueryFailsOrderly DEF bounds
<1>5. CASE RecordAgain(h)
  <2>1. \/ row' = Recorded(run[h].v) /\ Becomes(h, e) /\ UNCHANGED bounds /\ run[h].pc = "again"
        \/ QueryFails /\ Go(h, "end") /\ row' = row
    BY <1>5 DEF RecordAgain, Query, Go
  <2> HIDE DEF q, e
  <2>2. QED
    BY <1>1, <1>3, <2>1, QueryFailsOrderly DEF bounds
<1>6. QED
  BY <1>4, <1>5

LEMMA ClearOrderly ==
  ASSUME Running, Resting, Orderly, ~Disturbed', NEW h \in Handles, Clear(h)
  PROVE  Orderly'
<1> DEFINE q == [run[h] EXCEPT !.pc = "drop", !.dirty = {}]
<1>1. /\ run[h].pc = "clear" /\ UNCHANGED <<disk, boot, user>> /\ Becomes(h, q)
      /\ row' = row \/ row' = Cleared(run[h].dirty)
  BY DEF Clear, requests
<1>2. run[h].v \in disk /\ Version = run[h].v
  BY <1>1 DEF Orderly, Tidy, Completing, Recorded2
<1>3. Version' = Version
  BY <1>1, VersionIs, WrittenVersions DEF Resting, Version
<1>4. q.v = run[h].v /\ q.pc = "drop"
  BY <1>1, FinishingFacts DEF Handle, Completing
<1> HIDE DEF q
<1>5. QED
  BY <1>1, <1>2, <1>3, <1>4, FinishingFacts, Finisher DEF Completing, Recorded2

LEMMA DropOrderly ==
  ASSUME Running, Resting, Orderly, ~Disturbed', NEW h \in Handles, DropOld(h) \/ DropSuperseded(h)
  PROVE  Orderly' /\ run[h].v \in disk'
<1>1. /\ run[h].pc \in {"drop", "superseded"} /\ UNCHANGED <<boot, user, row, faults>>
  BY DEF DropOld, DropSuperseded, requests, bounds
<1>2. run[h].v \in disk /\ Version = run[h].v /\ Version' = Version
  BY <1>1 DEF Orderly, Tidy, Completing, Recorded2, Version
<1>3. run[h].v \in disk'
  BY <1>2 DEF DropOld, DropSuperseded
<1>4. Becomes(h, run'[h]) /\ run'[h].v = run[h].v /\ run'[h].pc \in {"prior", "end"}
  <2>1. CASE DropOld(h)
    <3>1. \A seen : LET q == [run[h] EXCEPT !.pc = "prior", !.old = None, !.seen = seen]
                    IN q.pc = "prior" /\ q.v = run[h].v
      BY <1>1, FinishingFacts DEF Handle, Completing
    <3>2. run' = [run EXCEPT ![h] = [run[h] EXCEPT !.pc = "prior", !.old = None,
                                                  !.seen = run[h].v \in disk']]
      BY <2>1 DEF DropOld, Becomes
    <3>3. QED
      BY <1>1, <3>1, <3>2, FinishingFacts DEF Becomes, Completing
  <2>2. CASE DropSuperseded(h)
    BY <1>1, <2>2, FinishingFacts DEF DropSuperseded, Go, Becomes, Handle, Completing
  <2>3. QED
    BY <2>1, <2>2
<1>5. QED
  BY <1>1, <1>2, <1>3, <1>4, FinishingFacts, Finisher DEF Completing, Recorded2

(* The user's deletes, and the start-up.                                   *)
LEMMA DeleteOrderly ==
  ASSUME Running, Resting, Orderly, ~Disturbed',
         DeleteFiles \/ DeleteRow \/ \E v \in Versions : Delete(v)
  PROVE  Orderly'
<1>1. CASE DeleteFiles
  <2>1. disk' = disk /\ ~Deleting /\ ~Deleting' /\ UNCHANGED <<boot, row, faults>>
    BY <1>1 DEF DeleteFiles, Orderly, Disturbed, Parting, Cancelling, Deleting, NoRequest, bounds
  <2>2. \A h \in Handles :
          run'[h].pc = run[h].pc /\ run'[h].v = run[h].v /\ run'[h].old = run[h].old
    BY <1>1 DEF DeleteFiles, Running, Handle
  <2>3. Version' = Version
    BY <2>1 DEF Version
  <2>4. QED
    BY <2>1, <2>2, <2>3, Beside
<1>2. CASE DeleteRow
  <2>1. Deleting /\ ~Deleting' /\ row' = NoRow /\ UNCHANGED <<disk, run, boot, faults>>
    BY <1>2 DEF DeleteRow, Deleting, NoRequest, bounds
  <2>2. disk = {} /\ ~Booting /\ \A h \in Handles : run[h].pc \notin Completing
    BY <2>1 DEF Orderly, Disturbed, Parting, Cancelling, Crowded, Finishing, Deleting
  <2>3. Version' = None
    BY <2>1 DEF Version
  <2>4. QED
    BY <2>1, <2>2, <2>3 DEF Orderly, Tidy, BootTidy, RowTidy, Booting, Completing, Recorded2
<1>3. ASSUME NEW v \in Versions, Delete(v) PROVE Orderly'
  <2>1. Deleting' /\ UNCHANGED <<run, boot>>
    BY <1>3 DEF Delete, Deleting
  <2>2. ~Booting' /\ \A h \in Handles : run'[h].pc \notin Completing
    BY <2>1 DEF Disturbed, Parting, Cancelling, Crowded, Finishing
  <2>3. QED
    BY <2>1, <2>2 DEF Orderly, Tidy, BootTidy, RowTidy, Booting, Completing, Recorded2
<1>4. QED
  BY <1>1, <1>2, <1>3

LEMMA BootFacts ==
  ASSUME Orderly, Booting
  PROVE  ~Deleting /\ \A h \in Handles : run[h].pc \notin {"rename"} \cup Completing
  BY DEF Orderly, Disturbed, Parting, Cancelling, Crowded, Finishing

LEMMA BootOrderly ==
  ASSUME Running, Resting, Orderly, ~Disturbed', ~Skipped, Crash \/ BootStep
  PROVE  Orderly'
<1>1. CASE Crash
  <2>1. Booting' /\ boot'.pc = "list"
    BY <1>1 DEF Crash, Booting, Booted
  <2>2. \A h \in Handles : run'[h].pc = "idle"
    BY <1>1, IdleType DEF Crash
  <2>3. QED
    BY <2>1, <2>2 DEF Orderly, Tidy, BootTidy, RowTidy, Completing, Recorded2
<1>2. ASSUME BootStep PROVE Booting /\ UNCHANGED <<disk, run, user>> /\ Orderly'
  <2>1. Booting /\ UNCHANGED <<disk, run, user>>
    BY <1>2 DEF BootStep, BootList, BootRecord, BootPurge, BootQuery, Booting, requests
  <2>2. \A h \in Handles : Tidy(h)'
    BY <2>1, BootFacts DEF Tidy, Completing, Recorded2
  <2>3. CASE BootList
    BY <2>1, <2>2, <2>3 DEF BootList, Orderly, BootTidy, RowTidy, Booting
  <2>4. ASSUME NEW v \in Versions, BootRecord(v) PROVE Orderly'
    <3>1. boot.pc = "record" /\ v \in boot.todo /\ v \in disk
      BY <2>4 DEF BootRecord, BootQuery, Orderly, BootTidy
    <3>2. row' = Recorded(v) /\ boot' = [boot EXCEPT !.todo = boot.todo \ {v}]
      <4>1. ~QueryFails
        BY <3>1, BoundsAssumption DEF Skipped, QueryFails, Resting
      <4>2. QED
        BY <2>4, <4>1 DEF BootRecord, BootQuery
    <3>3. Version' = v
      BY <3>2, VersionIs, WrittenVersions DEF Resting
    <3>4. boot'.pc = "record" /\ boot'.todo = boot.todo \ {v} /\ boot'.found = boot.found
      BY <3>1, <3>2 DEF Resting
    <3>5. QED
      BY <2>1, <2>2, <3>1, <3>3, <3>4 DEF Orderly, BootTidy, RowTidy, Booting
  <2>5. CASE BootPurge
    <3>1. boot.pc = "record" /\ boot.todo = {}
      BY <2>5 DEF BootPurge, BootQuery
    <3>2. row' = (IF boot.found THEN row ELSE NoRow) /\ boot' = Booted
      <4>1. ~QueryFails
        BY <3>1, BoundsAssumption DEF Skipped, QueryFails, Resting
      <4>2. QED
        BY <2>5, <4>1 DEF BootPurge, BootQuery
    <3>3. Version' = IF boot.found THEN Version ELSE None
      BY <3>2 DEF Version
    <3>4. boot'.pc = "done"
      BY <3>2 DEF Booted
    <3>5. disk # {} => Version \in disk
      BY <3>1 DEF Orderly, BootTidy
    <3>6. boot.found <=> disk # {}
      BY <3>1 DEF Orderly, BootTidy
    <3>7. None \notin disk
      BY VersionsAssumption DEF Resting
    <3>8. QED
      BY <2>1, <2>2, <3>3, <3>4, <3>5, <3>6, <3>7 DEF Orderly, BootTidy, RowTidy, Booting
  <2>6. QED
    BY <1>2, <2>1, <2>3, <2>4, <2>5 DEF BootStep
<1>3. QED
  BY <1>1, <1>2

LEMMA OrderlyStep ==
  ASSUME IInv, Next, History, CalmIsOrderly
  PROVE  CalmIsOrderly'
<1> SUFFICES ASSUME calm', kept' PROVE Orderly'
  BY DEF CalmIsOrderly
<1>1. Running /\ Resting /\ Orderly /\ ~Disturbed' /\ ~Skipped
  BY DEF IInv, CalmIsOrderly, History, Disturbed
<1>2. CASE UserStep
  BY <1>1, <1>2, RequestsBeside, RemoveJobBeside, WritesBeside, DeleteOrderly DEF UserStep
<1>3. CASE AutoStep
  BY <1>1, <1>3, RequestsBeside, WritesBeside DEF AutoStep
<1>4. CASE QueueStep
  BY <1>1, <1>4, QueueBeside, WritesBeside DEF QueueStep
<1>5. CASE BootStep \/ Crash
  BY <1>1, <1>5, BootOrderly
<1>6. ASSUME NEW h \in Handles, HandleStep(h) PROVE Orderly'
  BY <1>1, <1>6, DownloadBeside, RenameOrderly, LookupOrderly, RecordOrderly, ClearOrderly,
     DropOrderly DEF HandleStep
<1>7. ASSUME NEW h \in Handles, Abort(h) \/ \E v \in Versions : Start(h, v) PROVE Orderly'
  BY <1>1, <1>7, DownloadBeside, StartBeside
<1>8. QED
  BY <1>2, <1>3, <1>4, <1>5, <1>6, <1>7 DEF Next

LEMMA OrderlySame ==
  ASSUME CalmIsOrderly, UNCHANGED history
  PROVE  CalmIsOrderly'
<1>1. UNCHANGED <<run, disk, row, user, boot, faults, calm, kept>>
  BY DEF history, vars, requests, bounds
<1>2. Version' = Version /\ (Disturbed' <=> Disturbed)
  BY <1>1 DEF Version, Disturbed, Parting, Cancelling, Crowded, Finishing, Booting, Deleting
<1>3. QED
  BY <1>1, <1>2 DEF CalmIsOrderly, Orderly, Tidy, BootTidy, RowTidy, Between, Booting, Deleting

LEMMA OrderlyInit == HistoryInit => CalmIsOrderly
<1> SUFFICES ASSUME HistoryInit PROVE Orderly
  BY DEF CalmIsOrderly
<1>1. /\ user.pc = "idle" /\ boot.pc = "done" /\ \A h \in Handles : run[h].pc = "idle"
      /\ disk \subseteq Versions
  BY IdleType DEF HistoryInit, Init, NoRequest, Booted
<1>2. ~Disturbed
  BY <1>1 DEF Disturbed, Parting, Cancelling, Crowded, Finishing, Booting, Deleting, Completing
<1>3. CASE disk = {}
  BY <1>1, <1>2, <1>3 DEF HistoryInit, Init, Orderly, Tidy, BootTidy, RowTidy, Version, Completing,
     Recorded2
<1>4. CASE disk # {}
  <2>1. PICK v \in disk : row = Fresh(v)
    BY <1>4 DEF HistoryInit, Init
  <2>2. Version = v
    <3>1. row # NoRow
      <4>1. Fresh(v) \in Records
        BY <1>1, BoundsAssumption DEF Fresh, Records
      <4>2. QED
        BY <2>1, <4>1, RowAssumption DEF Records
    <3>2. QED
      BY <2>1, <3>1 DEF Version, Fresh
  <2>3. v # None
    BY <1>1, VersionsAssumption
  <2>4. QED
    BY <1>1, <1>2, <2>1, <2>2, <2>3 DEF Orderly, Tidy, BootTidy, RowTidy, Completing, Recorded2
<1>5. QED
  BY <1>3, <1>4

LEMMA HistoryHolds == HistorySpec => [](IInv /\ CalmIsOrderly)
<1>1. HistoryInit => IInv /\ CalmIsOrderly
  BY InitHolds, OrderlyInit DEF HistoryInit
<1>2. IInv /\ CalmIsOrderly /\ [Next /\ History]_history => (IInv /\ CalmIsOrderly)'
  <2>1. CASE Next /\ History
    BY <2>1, StepHolds, OrderlyStep
  <2>2. CASE UNCHANGED history
    BY <2>2, StepHolds, OrderlySame DEF history
  <2>3. QED
    BY <2>1, <2>2
<1>3. QED
  BY <1>1, <1>2, PTL DEF HistorySpec

(* What the list of installed content names can be served, through failing *)
(* queries and restarts, while one actor at a time finishes its work.      *)
THEOREM RecordedIsThere == HistorySpec => []RecordedFileExists
<1>1. IInv /\ CalmIsOrderly => RecordedFileExists
  <2> SUFFICES ASSUME IInv, CalmIsOrderly, calm, kept, ~Booting, ~Deleting, row # NoRow
               PROVE  row.version \in disk
    BY DEF RecordedFileExists
  <2>1. row \in Rows /\ RowTidy
    BY DEF IInv, Resting, CalmIsOrderly, Orderly
  <2>2. Version = row.version /\ Version # None
    BY <2>1, VersionIs, VersionsOfRows
  <2>3. QED
    BY <2>1, <2>2 DEF RowTidy
<1>2. QED
  BY <1>1, HistoryHolds, PTL

(* With no failing query, a resource at rest has a row exactly when it has *)
(* a file, wherever downloads, deletes and restarts were interrupted.      *)
THEOREM QuietlyInStep == HistorySpec => []QuietlyTracked
<1>1. IInv /\ CalmIsOrderly => QuietlyTracked
  <2> SUFFICES ASSUME IInv, CalmIsOrderly, calm, kept, Finishing = {}, ~Booting, ~Deleting,
                      faults = 0
               PROVE  row = NoRow <=> disk = {}
    BY DEF QuietlyTracked
  <2>1. row \in Rows /\ RowTidy
    BY DEF IInv, Resting, CalmIsOrderly, Orderly
  <2>2. ~Between
    BY DEF Between, Finishing, Completing
  <2>3. row = NoRow <=> Version = None
    BY <2>1, VersionIs, VersionsOfRows
  <2>4. QED
    BY <2>1, <2>2, <2>3 DEF RowTidy
<1>2. QED
  BY <1>1, HistoryHolds, PTL

-----------------------------------------------------------------------------
(* The last file.  As long as `calm` holds, whatever else was done to the  *)
(* row and the files, an execution past its download has its own file to   *)
(* leave behind when it drops another.                                     *)
Landed(h) == run[h].pc \in Completing => run[h].v \in disk
CalmLands == calm => ~Crowded /\ \A h \in Handles : Landed(h)

LEMMA LandedStill ==
  ASSUME \A h \in Handles : Landed(h), disk \subseteq disk',
         \A h \in Handles : run'[h].pc \in Completing =>
           run[h].pc \in Completing /\ run'[h].v = run[h].v
  PROVE  \A h \in Handles : Landed(h)'
  BY DEF Landed

(* A step of an execution, past its download or not.                       *)
LEMMA HandleLands ==
  ASSUME Running, ~Crowded, \A g \in Handles : Landed(g), NEW h \in Handles, HandleStep(h)
  PROVE  (\A g \in Handles : Landed(g)') /\ (disk # {} => disk' # {})
<1>1. run \in [Handles -> Handle] /\ run[h] \in Handle
  BY DEF Running
<1>2. ASSUME NEW q, Becomes(h, q)
      PROVE  run'[h] = q /\ \A g \in Handles \ {h} : run'[g] = run[g]
  BY <1>1, <1>2 DEF Becomes
<1>3. CASE Open(h) \/ Stream(h)
  <2>1. \/ Becomes(h, [run[h] EXCEPT !.pc = "stream", !.tmp = TRUE])
        \/ Becomes(h, [run[h] EXCEPT !.pc = "rename"])
        \/ Becomes(h, [run[h] EXCEPT !.pc = "error"])
    BY <1>3 DEF Open, Stream, Go
  <2>2. run'[h].pc \notin Completing /\ \A g \in Handles \ {h} : run'[g] = run[g]
    <3>1. CASE Becomes(h, [run[h] EXCEPT !.pc = "stream", !.tmp = TRUE])
      <4> DEFINE s == [run[h] EXCEPT !.tmp = TRUE]
      <4>1. s \in Handle /\ [run[h] EXCEPT !.pc = "stream", !.tmp = TRUE] = [s EXCEPT !.pc = "stream"]
        BY <1>1 DEF Handle
      <4>2. [s EXCEPT !.pc = "stream"].pc = "stream"
        BY <4>1 DEF Handle
      <4>3. run'[h].pc = "stream"
        BY <1>2, <3>1, <4>1, <4>2
      <4>4. QED
        BY <1>2, <3>1, <4>3 DEF Completing
    <3>2. ASSUME NEW pc \in {"rename", "error"}, Becomes(h, [run[h] EXCEPT !.pc = pc])
          PROVE  run'[h].pc \notin Completing /\ \A g \in Handles \ {h} : run'[g] = run[g]
      BY <1>1, <1>2, <3>2 DEF Handle, Completing
    <3>3. QED
      BY <2>1, <3>1, <3>2
  <2>3. disk' = disk
    BY <1>3 DEF Open, Stream
  <2>4. QED
    BY <2>2, <2>3, LandedStill
<1>4. CASE End(h) \/ Throw(h)
  <2>1. disk' = disk /\ Becomes(h, Idle)
    BY <1>4 DEF End, Throw
  <2>2. QED
    BY <1>2, <2>1, LandedStill, IdleType DEF Completing
<1>5. CASE Rename(h)
  <2> DEFINE pc == IF run[h].v \in disk' THEN "lookup" ELSE "error"
  <2>1. Becomes(h, [run[h] EXCEPT !.tmp = FALSE, !.pc = pc]) /\ disk \subseteq disk'
    BY <1>5 DEF Rename
  <2> HIDE DEF pc
  <2>2. run'[h].pc = pc /\ run'[h].v = run[h].v /\ \A g \in Handles \ {h} : run'[g] = run[g]
    BY <1>1, <2>1 DEF Becomes, Handle
  <2>3. Landed(h)'
    BY <2>2 DEF Landed, Completing, pc
  <2>4. QED
    BY <2>1, <2>2, <2>3 DEF Landed
<1>6. CASE Lookup(h) \/ Record(h) \/ Clear(h) \/ Prior(h) \/ RecordAgain(h)
  <2>1. run[h].pc \in Completing /\ disk' = disk
    BY <1>6 DEF Lookup, Record, Clear, Prior, RecordAgain, Query, Completing
  <2>2. run'[h].v = run[h].v /\ \A g \in Handles \ {h} : run'[g] = run[g]
    <3>1. CASE Lookup(h) \/ Prior(h)
      <4>1. \A p, o : [run[h] EXCEPT !.pc = p, !.old = o].v = run[h].v
        BY <1>1 DEF Handle
      <4>2. [run[h] EXCEPT !.pc = "end"].v = run[h].v
        BY <1>1 DEF Handle
      <4> DEFINE old == Version
                 f == [run[h] EXCEPT !.pc = "record", !.old = old]
                 g == [run[h] EXCEPT !.pc = "again", !.old = old]
                 e == [run[h] EXCEPT !.pc = "end"]
      <4>3. Becomes(h, f) \/ Becomes(h, g) \/ Becomes(h, e)
        BY <3>1 DEF Lookup, Prior, Query, Go
      <4> HIDE DEF old
      <4>4. f.v = run[h].v /\ g.v = run[h].v /\ e.v = run[h].v
        BY <4>1, <4>2
      <4>5. QED
        <5> HIDE DEF f, g, e
        <5> QED
          BY <1>2, <4>3, <4>4
    <3>2. CASE RecordAgain(h)
      BY <1>1, <3>2 DEF RecordAgain, Query, Go, Becomes, Handle
    <3>3. CASE Record(h)
      <4>1. \A p, d : [run[h] EXCEPT !.pc = p, !.dirty = d].v = run[h].v
        BY <1>1 DEF Handle
      <4> DEFINE dirty == IF run[h].auto THEN Dirty(Recorded(run[h].v)) ELSE {}
                 pc == IF dirty = {} THEN "drop" ELSE "clear"
                 f == [run[h] EXCEPT !.pc = pc, !.dirty = dirty]
                 e == [run[h] EXCEPT !.pc = "end"]
      <4>2. Becomes(h, f) \/ Becomes(h, e)
        BY <3>3 DEF Record, Query, Go
      <4> HIDE DEF pc, dirty
      <4>3. f.v = run[h].v /\ e.v = run[h].v
        <5>1. e.v = run[h].v
          BY <1>1 DEF Handle
        <5>2. QED
          BY <4>1, <5>1
      <4>4. QED
        <5> HIDE DEF f, e
        <5> QED
          BY <1>2, <4>2, <4>3
    <3>4. CASE Clear(h)
      BY <1>1, <3>4 DEF Clear, Becomes, Handle
    <3>5. QED
      BY <1>6, <3>1, <3>2, <3>3, <3>4
  <2>3. QED
    BY <2>1, <2>2, LandedStill
<1>7. CASE DropOld(h) \/ DropSuperseded(h)
  <2>1. run[h].pc \in Completing /\ run[h].v \in disk
    BY <1>7 DEF DropOld, DropSuperseded, Completing, Landed
  <2>2. run[h].v \in disk'
    BY <1>7, <2>1 DEF DropOld, DropSuperseded
  <2>3. run'[h].v = run[h].v /\ \A g \in Handles \ {h} : run'[g] = run[g]
    <3>1. CASE DropOld(h)
      BY <1>1, <3>1 DEF DropOld, Becomes, Handle
    <3>2. CASE DropSuperseded(h)
      BY <1>1, <3>2 DEF DropSuperseded, Go, Becomes, Handle
    <3>3. QED
      BY <1>7, <3>1, <3>2
  <2>4. \A g \in Handles \ {h} : run'[g].pc \notin Completing
    BY <2>1, <2>3 DEF Crowded, Finishing
  <2>5. QED
    BY <2>2, <2>3, <2>4 DEF Landed
<1>8. QED
  BY <1>3, <1>4, <1>5, <1>6, <1>7 DEF HandleStep

(* Only a delete, and a cancel of what is there, takes the last file away. *)
LEMMA FilesStay ==
  ASSUME IInv, CalmLands, Next, History, calm'
  PROVE  /\ CalmLands'
         /\ disk # {} /\ disk' = {} => DeleteFiles \/ \E v \in Versions : Delete(v)
<1>1. Running /\ Resting /\ ~Crowded /\ ~Crowded' /\ \A h \in Handles : Landed(h)
  BY DEF IInv, CalmLands, History
<1> SUFFICES /\ \A h \in Handles : Landed(h)'
             /\ disk # {} /\ disk' = {} => DeleteFiles \/ \E v \in Versions : Delete(v)
  BY <1>1 DEF CalmLands
<1>2. CASE disk' = disk /\ run' = run
  BY <1>1, <1>2, LandedStill
<1>3. CASE RemoveJob
  <2>1. disk' = disk /\ \A h \in Handles : run'[h].pc = run[h].pc /\ run'[h].v = run[h].v
    BY <1>1, <1>3 DEF RemoveJob, Running, Handle
  <2>2. QED
    BY <1>1, <2>1, LandedStill
<1>4. CASE DeleteFiles
  <2>1. \A h \in Handles : run'[h].pc = run[h].pc /\ run'[h].v = run[h].v
    BY <1>1, <1>4 DEF DeleteFiles, Running, Handle
  <2>2. CASE user.v \in disk
    <3>1. \A h \in Handles : run[h].pc \notin Completing
      BY <1>1, <1>4, <2>2 DEF DeleteFiles, Cancelling, Crowded, Finishing
    <3>2. QED
      BY <1>4, <2>1, <3>1 DEF Landed
  <2>3. CASE user.v \notin disk
    <3>1. disk' = disk
      BY <1>4, <2>3 DEF DeleteFiles
    <3>2. QED
      BY <1>1, <2>1, <3>1, LandedStill
  <2>4. QED
    BY <2>2, <2>3
<1>5. ASSUME NEW v \in Versions, Delete(v) PROVE \A h \in Handles : Landed(h)'
  BY <1>1, <1>5 DEF Delete, Deleting, Crowded, Finishing, Landed
<1>6. CASE Crash
  BY <1>6, IdleType DEF Crash, Landed, Completing
<1>7. ASSUME NEW h \in Handles, HandleStep(h)
      PROVE  (\A g \in Handles : Landed(g)') /\ (disk # {} => disk' # {})
  BY <1>1, <1>7, HandleLands
<1>8. ASSUME NEW h \in Handles, Abort(h) \/ \E v \in Versions : Start(h, v)
      PROVE  disk' = disk /\ \A g \in Handles : Landed(g)'
  <2>1. disk' = disk
    BY <1>8 DEF Abort, Start
  <2>2. PICK q : /\ run' = [run EXCEPT ![h] = q]
                 /\ q.pc \in Completing => run[h].pc \in Completing /\ q.v = run[h].v
    <3>1. CASE Abort(h)
      <4>1. run[h] \in Handle
        BY <1>1 DEF Running
      <4>2. /\ [run[h] EXCEPT !.pc = "error", !.cancelled = TRUE].pc \notin Completing
            /\ [run[h] EXCEPT !.held = FALSE].pc = run[h].pc
            /\ [run[h] EXCEPT !.held = FALSE].v = run[h].v
        BY <4>1 DEF Handle, Completing
      <4>3. QED
        BY <3>1, <4>2 DEF Abort, Becomes
    <3>2. ASSUME NEW v \in Versions, Start(h, v)
          PROVE  \E q : run' = [run EXCEPT ![h] = q] /\ q.pc \notin Completing
      <4>1. \A a : [Idle EXCEPT !.pc = "head", !.v = v, !.held = TRUE, !.auto = a].pc
                    \notin Completing
        BY DEF Idle, Completing
      <4>2. QED
        BY <3>2, <4>1 DEF Start
    <3>3. QED
      BY <1>8, <3>1, <3>2
  <2>3. QED
    BY <1>1, <2>1, <2>2, LandedStill DEF Running
<1>9. QED
  <2>1. CASE UserStep
    <3>1. CASE RemoveJob \/ DeleteFiles \/ \E v \in Versions : Delete(v)
      BY <1>3, <1>4, <1>5, <3>1 DEF RemoveJob
    <3>2. CASE DeleteRow \/ ResetBackoff
      BY <1>2, <3>2 DEF DeleteRow, ResetBackoff
    <3>3. ASSUME NEW v \in Versions,
                 Download(v) \/ ApplyUpdate(v) \/ Dismiss(v) \/ Cancel(v) \/ FlagExpires(v)
          PROVE  disk' = disk /\ run' = run
      BY <3>3 DEF Download, ApplyUpdate, Dismiss, Cancel, FlagExpires
    <3>4. QED
      BY <1>2, <2>1, <3>1, <3>2, <3>3 DEF UserStep
  <2>2. CASE AutoStep \/ QueueStep
    BY <1>2, <2>2 DEF AutoStep, Dispatch, Evaluate, QueueStep, Promote, Stalled, ReadFailures,
       CountFailure
  <2>3. CASE BootStep
    BY <1>2, <2>3 DEF BootStep, BootList, BootPurge, BootRecord, BootQuery
  <2>4. CASE Crash
    BY <1>6, <2>4 DEF Crash
  <2>5. QED
    BY <1>7, <1>8, <2>1, <2>2, <2>3, <2>4 DEF Next

LEMMA LandedHolds == HistorySpec => [](IInv /\ CalmLands)
<1>1. HistoryInit => IInv /\ CalmLands
  BY InitHolds, IdleType DEF HistoryInit, Init, CalmLands, Landed, Crowded, Finishing, Booting,
     Deleting, Cancelling, NoRequest, Booted, Completing
<1>2. IInv /\ CalmLands /\ [Next /\ History]_history => (IInv /\ CalmLands)'
  <2>1. CASE Next /\ History
    <3>1. ~calm' => CalmLands'
      BY DEF CalmLands
    <3>2. QED
      BY <2>1, <3>1, StepHolds, FilesStay
  <2>2. CASE UNCHANGED history
    <3>1. UNCHANGED <<run, disk, user, boot, calm>>
      BY <2>2 DEF history, vars, requests
    <3>2. Crowded' <=> Crowded
      BY <3>1 DEF Crowded, Finishing, Booting, Deleting, Cancelling
    <3>3. ASSUME CalmLands PROVE CalmLands'
      <4>1. \A h \in Handles : Landed(h)' <=> Landed(h)
        BY <3>1 DEF Landed
      <4>2. SUFFICES ASSUME calm' PROVE ~Crowded' /\ \A h \in Handles : Landed(h)'
        BY DEF CalmLands
      <4>3. ~Crowded /\ \A h \in Handles : Landed(h)
        BY <3>1, <3>3, <4>2 DEF CalmLands
      <4>4. QED
        BY <3>2, <4>1, <4>3
    <3>4. QED
      BY <2>2, <3>3, StepHolds DEF history
  <2>3. QED
    BY <2>1, <2>2
<1>3. QED
  BY <1>1, <1>2, PTL DEF HistorySpec

(* An update, a retry or a restart never leaves the user without the       *)
(* content: while one actor at a time finishes its work, its last file     *)
(* goes only with a delete of it or a cancel of a job for it.              *)
THEOREM ACopyIsKept == HistorySpec => ACopySurvives
<1>1. IInv /\ CalmLands /\ [Next /\ History]_history =>
        [calm' /\ disk # {} /\ disk' = {}
           => DeleteFiles \/ \E v \in Versions : Delete(v)]_history
  BY FilesStay
<1>2. QED
  BY <1>1, LandedHolds, PTL DEF HistorySpec, ACopySurvives


-----------------------------------------------------------------------------
(* The failures counted.  Every count in flight is covered: what it read,  *)
(* together with all that is still to be counted, is at most `doomed`.     *)
Pending == {v \in Versions : owed[v] # Counted}
Due == Cardinality(Pending)

Counts ==
  /\ doomed \in Nat /\ IsFiniteSet(Pending)
  /\ row # NoRow => row.failures + Due <= doomed
  /\ auto.n + Due <= doomed
  /\ \A v \in Pending : owed[v] \in 0..MaxCount => owed[v] + Due <= doomed

LEMMA CountTypes ==
  ASSUME Resting, Counts
  PROVE  /\ Due \in Nat /\ doomed \in Nat /\ auto.n \in Nat /\ Due <= doomed
         /\ row # NoRow => row.failures \in Nat /\ row.failures \in 0..MaxCount
         /\ \A v \in Versions : owed[v] \in 0..MaxCount => owed[v] \in Nat /\ v \in Pending
<1>1. Due \in Nat /\ doomed \in Nat
  BY FS_CardinalityType DEF Counts, Due
<1>2. auto.n \in 0..MaxCount /\ MaxCount \in Nat
  BY BoundsAssumption DEF Resting
<1>3. Due <= doomed
  BY <1>1, <1>2 DEF Counts
<1>4. row # NoRow => row.failures \in 0..MaxCount
  BY DEF Resting, Rows
<1>5. \A v \in Versions : owed[v] \in 0..MaxCount => v \in Pending
  BY OwedAssumption DEF Pending
<1>6. QED
  BY <1>1, <1>2, <1>3, <1>4, <1>5

(* Nothing is to be counted that was not: what is read may only be old.    *)
LEMMA CountsKept ==
  ASSUME Resting, Counts, History, owed' = owed,
         row' # NoRow => \/ row'.failures = 0
                         \/ row # NoRow /\ row'.failures = row.failures,
         \/ auto'.n = 0 \/ auto' = auto
         \/ row # NoRow /\ auto'.n = row.failures
  PROVE  Counts'
<1>1. Pending' = Pending /\ Due' = Due
  BY DEF Pending, Due
<1>2. doomed' \in Nat /\ doomed' >= doomed
  BY CountTypes DEF History
<1>3. row' # NoRow => row'.failures + Due' <= doomed'
  BY <1>1, <1>2, CountTypes DEF Counts
<1>4. auto'.n + Due' <= doomed'
  BY <1>1, <1>2, CountTypes DEF Counts
<1>5. \A v \in Pending' : owed'[v] \in 0..MaxCount => owed'[v] + Due' <= doomed'
  BY <1>1, <1>2, CountTypes DEF Counts, Pending
<1>6. QED
  BY <1>1, <1>2, <1>3, <1>4, <1>5 DEF Counts

(* An attempt fails: if it is to be counted, the update has ended badly.   *)
LEMMA FailureCounts ==
  ASSUME Running, Resting, Counts, History, NEW v \in Versions, NEW unrecoverable \in BOOLEAN,
         jobs[v].state = "active", JobFails(v, unrecoverable), UNCHANGED <<row, auto>>
  PROVE  Counts'
<1>1. CASE owed' = owed
  BY <1>1, CountsKept
<1>2. CASE owed' # owed
  <2>1. /\ jobs[v].auto /\ jobs[v].made + 1 >= Attempts
        /\ owed' = [owed EXCEPT ![v] = Unread]
    BY <1>2 DEF JobFails
  <2>2. jobs' = [jobs EXCEPT ![v] = Failed(v, unrecoverable)]
    BY JobFailsType DEF Live
  <2>3. Failed(v, unrecoverable).state = "failed"
    BY <2>1 DEF Failed, Running, Job
  <2>4. GaveUp(v)
    BY <2>1, <2>2, <2>3 DEF GaveUp, Running
  <2>5. doomed' = doomed + 1
    BY <2>4 DEF History
  <2>6. Pending' = Pending \cup {v}
    BY <2>1, OwedAssumption DEF Pending, Resting
  <2>7. IsFiniteSet(Pending') /\ Due' \in Nat /\ Due' <= Due + 1
    <3>1. IsFiniteSet(Pending)
      BY DEF Counts
    <3>2. /\ IsFiniteSet(Pending \cup {v})
          /\ Cardinality(Pending \cup {v}) = IF v \in Pending THEN Cardinality(Pending)
                                             ELSE Cardinality(Pending) + 1
      BY <3>1, FS_AddElement
    <3>3. QED
      BY <2>6, <3>2, CountTypes DEF Due
  <2>8. \A w \in Pending' : owed'[w] \in 0..MaxCount => w # v /\ owed'[w] = owed[w] /\ w \in Pending
    BY <2>1, <2>6, OwedAssumption DEF Resting
  <2>9. \A w \in Pending' : owed'[w] \in 0..MaxCount => owed'[w] + Due' <= doomed'
    BY <2>5, <2>7, <2>8, CountTypes DEF Counts
  <2>10. QED
    BY <2>5, <2>7, <2>9, CountTypes DEF Counts
<1>3. QED
  BY <1>1, <1>2

(* The listener reads, then writes.                                        *)
LEMMA ListenerCounts ==
  ASSUME Running, Resting, Counts, History, NEW v \in Versions,
         ReadFailures(v) \/ CountFailure(v)
  PROVE  Counts'
<1>1. auto' = auto /\ doomed' \in Nat /\ doomed' >= doomed
  BY CountTypes DEF ReadFailures, CountFailure, requests, History
<1>2. CASE ReadFailures(v) /\ row # NoRow
  <2>1. owed' = [owed EXCEPT ![v] = row.failures] /\ row' = row /\ owed[v] = Unread
    BY <1>2 DEF ReadFailures
  <2>2. row.failures # Counted
    BY <1>2, CountTypes, OwedAssumption
  <2>3. Pending' = Pending /\ Due' = Due
    BY <2>1, <2>2, OwedAssumption DEF Pending, Due, Resting
  <2>4. \A w \in Pending' : owed'[w] \in 0..MaxCount =>
          owed'[w] = row.failures \/ (owed'[w] = owed[w] /\ w \in Pending)
    BY <2>1, <2>3 DEF Resting, Pending
  <2>5. \A w \in Pending' : owed'[w] \in 0..MaxCount => owed'[w] + Due' <= doomed'
    BY <1>1, <1>2, <2>3, <2>4, CountTypes DEF Counts
  <2>6. QED
    BY <1>1, <2>1, <2>3, <2>5, CountTypes DEF Counts
<1>3. CASE CountFailure(v) \/ (ReadFailures(v) /\ row = NoRow)
  <2>1. owed' = [owed EXCEPT ![v] = Counted] /\ v \in Pending
    BY <1>3, BoundsAssumption, OwedAssumption DEF ReadFailures, CountFailure, Pending, Resting
  <2>2. Pending' = Pending \ {v}
    BY <2>1 DEF Pending, Resting
  <2>3. IsFiniteSet(Pending') /\ Due' \in Nat /\ Due' + 1 = Due
    <3>1. IsFiniteSet(Pending)
      BY DEF Counts
    <3>2. IsFiniteSet(Pending \ {v}) /\ Cardinality(Pending \ {v}) = Cardinality(Pending) - 1
      BY <2>1, <3>1, FS_RemoveElement
    <3>3. Due' \in Nat
      BY <2>2, <3>2, FS_CardinalityType DEF Due
    <3>4. QED
      BY <2>2, <3>2, <3>3, CountTypes DEF Due
  <2>4. row' # NoRow => row'.failures + Due' <= doomed'
    <3>1. CASE CountFailure(v) /\ row # NoRow
      <4>1. owed[v] \in 0..MaxCount /\ owed[v] \in Nat /\ owed[v] + Due <= doomed
        BY <2>1, <3>1, BoundsAssumption, CountTypes DEF CountFailure, Counts
      <4>2. row'.failures = owed[v] + 1
        BY <3>1 DEF CountFailure, CountedFrom, Resting, Rows
      <4>3. QED
        BY <1>1, <2>3, <4>1, <4>2, CountTypes
    <3>2. CASE ~(CountFailure(v) /\ row # NoRow)
      BY <1>3, <3>2 DEF CountFailure, ReadFailures, CountedFrom
    <3>3. QED
      BY <3>1, <3>2
  <2>5. \A w \in Pending' : owed'[w] \in 0..MaxCount => owed'[w] = owed[w] /\ w \in Pending
    BY <2>1, <2>2 DEF Resting
  <2>6. \A w \in Pending' : owed'[w] \in 0..MaxCount => owed'[w] + Due' <= doomed'
    BY <1>1, <2>3, <2>5, CountTypes DEF Counts
  <2>7. QED
    BY <1>1, <2>3, <2>4, <2>6, CountTypes DEF Counts
<1>4. QED
  BY <1>2, <1>3

(* A dispatch that finds a download in progress counts one, and is itself  *)
(* an update that ended badly.                                             *)
LEMMA DispatchCounts ==
  ASSUME Resting, Counts, History, Dispatch
  PROVE  Counts'
<1>1. auto' = NoAttempt /\ owed' = owed /\ auto'.n = 0
  BY DEF Dispatch, NoAttempt
<1>2. CASE row' = row
  BY <1>1, <1>2, CountsKept
<1>3. CASE row' # row
  <2>1. Refused /\ row' = CountedFrom(auto.n)
    BY <1>3 DEF Dispatch, Refused
  <2>2. doomed' = doomed + 1
    BY <2>1 DEF History
  <2>3. row' # NoRow => row'.failures = auto.n + 1
    BY <2>1 DEF CountedFrom, Resting, Rows
  <2>4. Pending' = Pending /\ Due' = Due
    BY <1>1 DEF Pending, Due
  <2>5. row' # NoRow => row'.failures + Due' <= doomed'
    BY <2>2, <2>3, <2>4, CountTypes DEF Counts
  <2>6. auto'.n + Due' <= doomed'
    BY <1>1, <2>2, <2>4, CountTypes
  <2>7. \A w \in Pending' : owed'[w] \in 0..MaxCount => owed'[w] + Due' <= doomed'
    BY <1>1, <2>2, <2>4, CountTypes DEF Counts, Pending
  <2>8. QED
    BY <2>2, <2>4, <2>5, <2>6, <2>7, CountTypes DEF Counts
<1>4. QED
  BY <1>2, <1>3

(* A restart forgets what was still to be counted.                         *)
LEMMA CrashCounts ==
  ASSUME Resting, Counts, History, Crash
  PROVE  Counts'
<1>1. Pending' = {}
  BY DEF Crash, Pending
<1>2. IsFiniteSet(Pending') /\ Due' = 0
  BY <1>1, FS_EmptySet DEF Due
<1>3. auto'.n = 0 /\ row' = row
  BY DEF Crash, NoAttempt
<1>4. doomed' \in Nat /\ doomed' >= doomed
  BY CountTypes DEF History
<1>5. QED
  BY <1>1, <1>2, <1>3, <1>4, CountTypes DEF Counts

(* Recording a version keeps the failures, or starts from none.            *)
LEMMA RecordedCount ==
  ASSUME Resting
  PROVE  /\ \A v : row # NoRow => Recorded(v).failures = row.failures
         /\ \A v : row = NoRow => Recorded(v).failures = 0
         /\ \A dirty : row # NoRow => \/ Cleared(dirty).failures = 0
                                      \/ Cleared(dirty).failures = row.failures
         /\ \A dirty : row = NoRow => Cleared(dirty) = NoRow
  BY DEF Resting, Rows, Recorded, Cleared, Fresh

LEMMA CountsStep ==
  ASSUME Running, Resting, Counts, Next, History
  PROVE  Counts'
<1>1. CASE UserStep
  <2>1. owed' = owed /\ auto' = auto
    <3>1. ASSUME NEW v \in Versions,
                 \/ Download(v) \/ ApplyUpdate(v) \/ Dismiss(v) \/ Cancel(v) \/ Delete(v)
                 \/ FlagExpires(v)
          PROVE  owed' = owed /\ auto' = auto
      BY <3>1 DEF Download, ApplyUpdate, Dismiss, Cancel, Delete, FlagExpires, requests
    <3>2. CASE RemoveJob \/ DeleteFiles \/ DeleteRow \/ ResetBackoff
      BY <3>2 DEF RemoveJob, DeleteFiles, DeleteRow, ResetBackoff, requests
    <3>3. QED
      BY <1>1, <3>1, <3>2 DEF UserStep
  <2>2. row' = row \/ row' = NoRow \/ row' = Fresh(row.version)
    <3>1. ASSUME NEW v \in Versions,
                 \/ Download(v) \/ ApplyUpdate(v) \/ Dismiss(v) \/ Cancel(v) \/ Delete(v)
                 \/ FlagExpires(v)
          PROVE  row' = row
      BY <3>1 DEF Download, ApplyUpdate, Dismiss, Cancel, Delete, FlagExpires
    <3>2. CASE RemoveJob \/ DeleteFiles \/ DeleteRow \/ ResetBackoff
      BY <3>2 DEF RemoveJob, DeleteFiles, DeleteRow, ResetBackoff
    <3>3. QED
      BY <1>1, <3>1, <3>2 DEF UserStep
  <2>3. QED
    BY <2>1, <2>2, CountsKept DEF Fresh
<1>2. CASE AutoStep
  <2>1. ASSUME NEW v \in Versions, Evaluate(v) PROVE Counts'
    <3>1. row # NoRow /\ auto'.n = row.failures /\ owed' = owed /\ row' = row
      BY <2>1 DEF Evaluate
    <3>2. QED
      BY <3>1, CountsKept
  <2>2. QED
    BY <1>2, <2>1, DispatchCounts DEF AutoStep
<1>3. CASE QueueStep
  <2>1. ASSUME NEW v \in Versions, Promote(v) PROVE Counts'
    BY <2>1, CountsKept DEF Promote, requests
  <2>2. ASSUME NEW v \in Versions, Stalled(v) PROVE Counts'
    <3>1. row' = row /\ auto' = auto /\ jobs[v].state = "active"
      BY <2>2 DEF Stalled, requests
    <3>2. CASE owed' = owed
      BY <3>1, <3>2, CountsKept
    <3>3. CASE JobFails(v, TRUE)
      BY <3>1, <3>3, FailureCounts
    <3>4. QED
      BY <2>2, <3>2, <3>3 DEF Stalled
  <2>3. ASSUME NEW v \in Versions, ReadFailures(v) \/ CountFailure(v) PROVE Counts'
    BY <2>3, ListenerCounts
  <2>4. QED
    BY <1>3, <2>1, <2>2, <2>3 DEF QueueStep
<1>4. CASE BootStep
  <2>1. owed' = owed /\ auto' = auto
    BY <1>4 DEF BootStep, BootList, BootPurge, BootRecord, BootQuery, requests
  <2>2. row' = row \/ row' = NoRow \/ \E v \in Versions : row' = Recorded(v)
    BY <1>4 DEF BootStep, BootList, BootPurge, BootRecord, BootQuery
  <2>3. QED
    BY <2>1, <2>2, RecordedCount, CountsKept
<1>5. CASE Crash
  BY <1>5, CrashCounts
<1>6. ASSUME NEW h \in Handles, Abort(h) PROVE Counts'
  <2>1. row' = row /\ auto' = auto
    BY <1>6 DEF Abort, requests
  <2>2. CASE owed' = owed
    BY <2>1, <2>2, CountsKept
  <2>3. CASE run[h].held /\ JobFails(run[h].v, TRUE)
    <3>1. run[h].v \in Versions /\ jobs[run[h].v].state = "active"
      BY <2>3 DEF Running, Holds
    <3>2. QED
      BY <2>1, <2>3, <3>1, FailureCounts
  <2>4. QED
    BY <1>6, <2>2, <2>3 DEF Abort
<1>7. ASSUME NEW h \in Handles, HandleStep(h) PROVE Counts'
  <2>1. CASE Throw(h)
    <3>1. row' = row /\ auto' = auto
      BY <2>1 DEF Throw, requests
    <3>2. CASE owed' = owed
      BY <3>1, <3>2, CountsKept
    <3>3. CASE run[h].held /\ JobFails(run[h].v, run[h].cancelled)
      <4>1. run[h].v \in Versions /\ jobs[run[h].v].state = "active"
        BY <3>3 DEF Running, Holds
      <4>2. run[h].cancelled \in BOOLEAN
        BY DEF Running, Handle
      <4>3. QED
        BY <3>1, <3>3, <4>1, <4>2, FailureCounts
    <3>4. QED
      BY <2>1, <3>2, <3>3 DEF Throw
  <2>2. CASE Open(h) \/ Stream(h) \/ Rename(h) \/ DropOld(h) \/ DropSuperseded(h) \/ End(h)
    BY <2>2, CountsKept DEF Open, Stream, Rename, DropOld, DropSuperseded, End, requests
  <2>3. CASE Lookup(h) \/ Record(h) \/ Clear(h) \/ Prior(h) \/ RecordAgain(h)
    <3>1. owed' = owed /\ auto' = auto
      BY <2>3 DEF Lookup, Record, Clear, Prior, RecordAgain, Query, requests
    <3>2. row' = row \/ row' = Recorded(run[h].v) \/ row' = Cleared(run[h].dirty)
      BY <2>3 DEF Lookup, Record, Clear, Prior, RecordAgain, Query
    <3>3. QED
      BY <3>1, <3>2, RecordedCount, CountsKept
  <2>4. QED
    BY <1>7, <2>1, <2>2, <2>3 DEF HandleStep
<1>8. ASSUME NEW h \in Handles, NEW v \in Versions, Start(h, v) PROVE Counts'
  BY <1>8, CountsKept DEF Start, requests
<1>9. QED
  BY <1>1, <1>2, <1>3, <1>4, <1>5, <1>6, <1>7, <1>8 DEF Next

(* A failure is counted once for each automatic update that ended badly,   *)
(* not once per retry, whatever writes of the row come in between.         *)
THEOREM FailuresAreCovered == HistorySpec => []OneFailureEach
<1>1. HistoryInit => IInv /\ Counts
  <2> SUFFICES ASSUME HistoryInit PROVE Counts
    BY InitHolds DEF HistoryInit
  <2>1. Pending = {}
    BY DEF HistoryInit, Init, Pending
  <2>2. IsFiniteSet(Pending) /\ Due = 0
    BY <2>1, FS_EmptySet DEF Due
  <2>3. row # NoRow => row.failures = 0
    BY DEF HistoryInit, Init, Fresh
  <2>4. QED
    BY <2>1, <2>2, <2>3 DEF HistoryInit, Init, NoAttempt, Counts
<1>2. IInv /\ Counts /\ [Next /\ History]_history => (IInv /\ Counts)'
  <2>1. CASE Next /\ History
    BY <2>1, StepHolds, CountsStep DEF IInv
  <2>2. ASSUME IInv, Counts, UNCHANGED history PROVE IInv' /\ Counts'
    <3>1. IInv'
      BY <2>2, StepHolds DEF history
    <3>2. Counts'
      BY <2>2 DEF Counts, Due, Pending, history, vars, requests
    <3>3. QED
      BY <3>1, <3>2
  <2>3. QED
    BY <2>1, <2>2
<1>3. IInv /\ Counts => OneFailureEach
  BY CountTypes DEF IInv, Counts, OneFailureEach
<1>4. QED
  BY <1>1, <1>2, <1>3, PTL DEF HistorySpec

=============================================================================
