------------------------ MODULE KnowledgeBase_proofs ------------------------
(* Proofs about KnowledgeBase, for every value of its constants.           *)
EXTENDS MCKnowledgeBase, FiniteSetTheorems, TLAPS

-----------------------------------------------------------------------------
(* What makes the types inductive: a job still to be run has an attempt    *)
(* left and a file, fewer batches were counted than it is the number of,   *)
(* and no two executions hold one job.                                     *)

Waits(j) == j.state \in Live => j.made < Attempts /\ j.file \in Files
Counts(q) == q.sofar < q.batch

Busy(q) == q.pc # "idle" => q.id \in Files \cup Ids /\ q.file \in Files
Within(q) == q.pc \in {"check", "dispatch"} => q.batch < Batches
Holds(q) == q.held => q.id \in Files \cup Ids /\ jobs[q.id].state = "active"

OneHolder ==
  \A g, h \in Handles : run[g].held /\ run[h].held /\ run[g].id = run[h].id => g = h

Queued == \A i \in Files \cup Ids : jobs[i] \in Job /\ Waits(jobs[i]) /\ Counts(jobs[i])

Sound(q) == q \in Handle /\ Busy(q) /\ Within(q) /\ Counts(q)

(* The part of the invariant about jobs and handles, and the rest of it.   *)
Running ==
  /\ jobs \in [Files \cup Ids -> Job] /\ run \in [Handles -> Handle]
  /\ Queued /\ OneHolder
  /\ \A h \in Handles : Sound(run[h]) /\ Holds(run[h])

(* Only what cleanupFailedJobs works on is not a set of files.             *)
Asked(r) ==
  /\ r \in Request
  /\ r.pc # "remove" => r.todo \subseteq Files
  /\ r.pc \in {"drop", "unlink", "forget"} => r.f \in Files

Resting ==
  /\ disk \in SUBSET (Zims \cup Uploads)
  /\ points \in [Files -> [Numbers -> 0..Many]]
  /\ row \in [Files -> Row]
  /\ policy \in {"Always", "Manual"}
  /\ req \in [Tabs -> Request] /\ \A t \in Tabs : Asked(req[t])
  /\ troubles \in 0..MaxTroubles /\ asked \in 0..MaxRequests

IInv == Running /\ Resting

LEMMA IInvTypes == IInv => TypeOK
  BY DEF IInv, TypeOK, Running, Resting

-----------------------------------------------------------------------------
(* Helpers of the model.                                                   *)

LEMMA SizeType ==
  ASSUME NEW f
  PROVE  /\ Size(f) \in Numbers /\ Size(f) \in 1..Batches
         /\ Size(f) \in Nat /\ Size(f) \in 0..Batches
  BY BoundsAssumption DEF Size, Numbers

LEMMA NumbersType == 1 \in Numbers /\ Numbers \subseteq Nat /\ 0 \in 0..Batches /\ 0 \in 0..Attempts
  BY BoundsAssumption DEF Numbers

LEMMA NoJobType ==
  NoJob \in Job /\ NoJob.state = "none" /\ Waits(NoJob) /\ Counts(NoJob)
  BY NumbersType DEF NoJob, Job, Live, Waits, Counts

(* A job that has just been queued.                                        *)
LEMMA NewJobType ==
  ASSUME NEW f \in Files, NEW b \in Numbers, NEW n \in 0..Batches, n < b
  PROVE  NewJob(f, b, n) \in Job /\ Waits(NewJob(f, b, n)) /\ Counts(NewJob(f, b, n))
<1>1. 0 \in 0..Attempts /\ 0 < Attempts
  BY BoundsAssumption
<1>2. NoJob \in Job /\ NoJob.made = 0
  BY NumbersType DEF NoJob, Job, Live
<1>3. NewJob(f, b, n) \in Job
  BY <1>2 DEF NewJob, Job, Live
<1>4. /\ NewJob(f, b, n).file = f /\ NewJob(f, b, n).batch = b
      /\ NewJob(f, b, n).sofar = n /\ NewJob(f, b, n).made = 0
  BY <1>2 DEF NewJob, Job
<1>5. QED
  BY <1>1, <1>3, <1>4 DEF Waits, Counts

LEMMA IdleType == Idle \in Handle /\ Sound(Idle) /\ ~Idle.held
  BY NumbersType DEF Idle, Handle, Sound, Busy, Within, Counts

LEMMA NoRequestType == Asked(NoRequest)
  BY DEF NoRequest, Request, Ops, Asked

LEMMA RowTypes ==
  /\ Pending \in Row
  /\ [Pending EXCEPT !.state = "failed"] \in Row
  /\ \A n \in 0..Batches : Indexed(n) \in Row
  BY NumbersType DEF Pending, Indexed, Row

LEMMA PointsTypes ==
  /\ Empty \in [Numbers -> 0..Many]
  /\ \A f \in Files : Embedded(f) \in [Numbers -> 0..Many]
  BY DEF Empty, Embedded, Many

(* Counters stay within their bounds.                                      *)
LEMMA BoundsTypes ==
  ASSUME Resting, Trouble \/ UNCHANGED bounds
  PROVE  troubles' \in 0..MaxTroubles /\ asked' \in 0..MaxRequests
  BY BoundsAssumption DEF Resting, Trouble, bounds

LEMMA AsksTypes ==
  ASSUME Resting, NEW t \in Tabs, NEW r, Asked(r), Asks(t, r)
  PROVE  /\ troubles' \in 0..MaxTroubles /\ asked' \in 0..MaxRequests
         /\ req' \in [Tabs -> Request] /\ \A u \in Tabs : Asked(req'[u])
<1>1. troubles' \in 0..MaxTroubles /\ asked' \in 0..MaxRequests
  BY BoundsAssumption DEF Resting, Asks
<1>2. req' = [req EXCEPT ![t] = r] /\ r \in Request
  BY DEF Asks, Asked
<1>3. QED
  BY <1>1, <1>2 DEF Resting

(* A request goes on.                                                      *)
LEMMA RequestGoesOn ==
  ASSUME Resting, NEW t \in Tabs, NEW r, Asked(r), req' = [req EXCEPT ![t] = r]
  PROVE  req' \in [Tabs -> Request] /\ \A u \in Tabs : Asked(req'[u])
  BY DEF Resting, Asked

LEMMA RequestEnds ==
  ASSUME Resting, NEW t \in Tabs, Done(t)
  PROVE  req' \in [Tabs -> Request] /\ \A u \in Tabs : Asked(req'[u])
  BY NoRequestType, RequestGoesOn DEF Done

LEMMA RequestOnTo ==
  ASSUME Resting, NEW t \in Tabs, NEW pc, NEW r,
         Asked([r EXCEPT !.pc = pc]), OnTo(t, pc, r)
  PROVE  req' \in [Tabs -> Request] /\ \A u \in Tabs : Asked(req'[u])
  BY NoRequestType, RequestGoesOn DEF OnTo

-----------------------------------------------------------------------------
(* Steps of the jobs and of the handles.                                   *)

LEMMA SameRunning == Running /\ UNCHANGED <<jobs, run>> => Running'
  BY DEF Running, Queued, OneHolder, Holds

(* Jobs nobody works on change.                                            *)
LEMMA JobsChange ==
  ASSUME Running, run' = run, jobs' \in [Files \cup Ids -> Job], Queued',
         \A i \in Files \cup Ids : jobs'[i] = jobs[i] \/ jobs[i].state # "active"
  PROVE  Running'
  BY DEF Running, OneHolder, Holds, Sound

LEMMA JobChanges ==
  ASSUME Running, run' = run, NEW i \in Files \cup Ids, jobs[i].state # "active",
         NEW j \in Job, Waits(j), Counts(j), jobs' = [jobs EXCEPT ![i] = j]
  PROVE  Running'
<1>1. /\ jobs' \in [Files \cup Ids -> Job]
      /\ \A k \in Files \cup Ids : jobs'[k] = IF k = i THEN j ELSE jobs[k]
  BY DEF Running
<1>2. Queued'
  BY <1>1 DEF Running, Queued
<1>3. QED
  BY <1>1, <1>2, JobsChange

(* A handle goes on: it holds nothing it did not hold before, and what it  *)
(* holds stays active.                                                     *)
LEMMA HandleGoesOn ==
  ASSUME Running, NEW h \in Handles, NEW q, Becomes(h, q), Sound(q),
         jobs' \in [Files \cup Ids -> Job], Queued',
         \A i \in Files \cup Ids : jobs'[i].state = jobs[i].state \/ jobs[i].state # "active",
         q.held => run[h].held /\ q.id = run[h].id
  PROVE  Running'
<1>1. /\ run' \in [Handles -> Handle]
      /\ \A g \in Handles : run'[g] = IF g = h THEN q ELSE run[g]
  BY DEF Running, Becomes, Sound
<1>2. \A g \in Handles : Sound(run'[g]) /\ Holds(run[g])'
  BY <1>1 DEF Running, Holds
<1>3. OneHolder'
  BY <1>1 DEF Running, OneHolder
<1>4. QED
  BY <1>1, <1>2, <1>3 DEF Running

(* A handle lets its job go, which then is no longer active.               *)
LEMMA HandleLetsGo ==
  ASSUME Running, NEW h \in Handles, NEW j \in Job, Waits(j), Counts(j), Becomes(h, Idle),
         jobs' = IF run[h].held THEN [jobs EXCEPT ![run[h].id] = j] ELSE jobs
  PROVE  Running'
<1>1. /\ run' \in [Handles -> Handle]
      /\ \A g \in Handles : run'[g] = IF g = h THEN Idle ELSE run[g]
  BY IdleType DEF Running, Becomes
<1>2. /\ jobs' \in [Files \cup Ids -> Job]
      /\ \A i \in Files \cup Ids :
           jobs'[i] = IF run[h].held /\ i = run[h].id THEN j ELSE jobs[i]
  BY DEF Running, Holds
<1>3. \A g \in Handles : Sound(run'[g]) /\ Holds(run[g])'
  BY <1>1, <1>2, IdleType DEF Running, Holds, OneHolder
<1>4. OneHolder' /\ Queued'
  BY <1>1, <1>2, IdleType DEF Running, OneHolder, Queued
<1>5. QED
  BY <1>1, <1>2, <1>3, <1>4 DEF Running

(* Jobs added under the file's id, or under an id of their own.            *)
LEMMA AddedTypes ==
  ASSUME Running, NEW f \in Files
  PROVE  /\ Added(f) \in [Files \cup Ids -> Job]
         /\ \A i \in Files \cup Ids :
              /\ Waits(Added(f)[i]) /\ Counts(Added(f)[i])
              /\ Added(f)[i] = jobs[i] \/ jobs[i].state = "none"
<1>1. NewJob(f, 1, 0) \in Job /\ Waits(NewJob(f, 1, 0)) /\ Counts(NewJob(f, 1, 0))
  BY NewJobType, NumbersType
<1>2. f \in Files \cup Ids
  OBVIOUS
<1>3. QED
  BY <1>1, <1>2 DEF Added, Running, Queued

LEMMA AddedRuns ==
  ASSUME Running, NEW f \in Files, jobs' = Added(f), run' = run
  PROVE  Running'
  BY AddedTypes, JobsChange DEF Queued

LEMMA NewIdType ==
  ASSUME Unused # {}
  PROVE  NewId \in Ids /\ jobs[NewId].state = "none"
  BY DEF NewId, Unused

LEMMA AddedAsTypes ==
  ASSUME Running, Unused # {}, NEW f \in Files, NEW b \in Numbers, NEW n \in 0..Batches, n < b
  PROVE  /\ AddedAs(NewId, f, b, n) \in [Files \cup Ids -> Job]
         /\ \A i \in Files \cup Ids :
              /\ Waits(AddedAs(NewId, f, b, n)[i]) /\ Counts(AddedAs(NewId, f, b, n)[i])
              /\ AddedAs(NewId, f, b, n)[i] = jobs[i] \/ jobs[i].state = "none"
<1>1. NewJob(f, b, n) \in Job /\ Waits(NewJob(f, b, n)) /\ Counts(NewJob(f, b, n))
  BY NewJobType
<1>2. NewId \in Files \cup Ids /\ jobs[NewId].state = "none"
  BY NewIdType
<1>3. QED
  BY <1>1, <1>2 DEF AddedAs, Running, Queued

-----------------------------------------------------------------------------
(* Every step keeps the invariant.                                         *)

LEMMA InitHolds == Init => IInv
<1> SUFFICES ASSUME Init PROVE Running /\ Resting
  BY DEF IInv
<1>1. Running
  BY NoJobType, IdleType DEF Init, Running, Queued, OneHolder, Holds
<1>2. row \in [Files -> Row] /\ points \in [Files -> [Numbers -> 0..Many]]
  <2>1. \A f : Size(f) \in 0..Batches
    BY SizeType
  <2>2. PICK known \in SUBSET disk :
          /\ row = [f \in Files |-> IF f \in known
                    THEN Indexed(Size(f)) ELSE NoRow]
          /\ points = [f \in Files |-> IF f \in known \cup Docs THEN Embedded(f) ELSE Empty]
    BY DEF Init
  <2>3. NoRow \in Row
    BY DEF Row
  <2>4. QED
    BY <2>1, <2>2, <2>3, RowTypes, PointsTypes
<1>3. Resting
  BY <1>2, NoRequestType, BoundsAssumption DEF Init, Resting, Asked
<1>4. QED
  BY <1>1, <1>3

(* The queue: promotion, stalled and forgotten jobs, the next job.         *)
QueueStep ==
  \E i \in DOMAIN jobs : \/ Promote(i) \/ Stalled(i) \/ Forgotten(i)
                         \/ \E h \in Handles : Start(h, i)

LEMMA QueueSteps == IInv /\ QueueStep => IInv'
<1> SUFFICES ASSUME Running, Resting, NEW i \in Files \cup Ids,
                    Promote(i) \/ Stalled(i) \/ Forgotten(i) \/ \E h \in Handles : Start(h, i)
             PROVE  Running' /\ Resting'
  BY DEF IInv, QueueStep, Running
<1>1. jobs[i] \in Job /\ Waits(jobs[i]) /\ Counts(jobs[i])
  BY DEF Running, Queued
<1>2. CASE Promote(i)
  <2> DEFINE j == [jobs[i] EXCEPT !.state = "waiting"]
  <2>1. j \in Job /\ Waits(j) /\ Counts(j)
    BY <1>1, <1>2 DEF Promote, Job, Live, Waits, Counts
  <2>2. jobs' = [jobs EXCEPT ![i] = j] /\ run' = run /\ jobs[i].state # "active"
    BY <1>2 DEF Promote
  <2> HIDE DEF j
  <2>3. Running'
    BY <2>1, <2>2, JobChanges
  <2>4. Resting'
    BY <1>2 DEF Promote, Resting, bounds
  <2>5. QED
    BY <2>3, <2>4
<1>3. CASE Stalled(i)
  <2> DEFINE j == [jobs[i] EXCEPT !.state = IF jobs[i].stalled THEN "failed" ELSE "waiting",
                                  !.stalled = TRUE]
  <2>1. j \in Job /\ Waits(j) /\ Counts(j)
    BY <1>1, <1>3 DEF Stalled, Job, Live, Waits, Counts
  <2>2. jobs' = [jobs EXCEPT ![i] = j] /\ run' = run
    BY <1>3 DEF Stalled
  <2>3. \A h \in Handles : run[h].held => run[h].id # i
    BY <1>3 DEF Stalled
  <2> HIDE DEF j
  <2>4. /\ jobs' \in [Files \cup Ids -> Job]
        /\ \A k \in Files \cup Ids : jobs'[k] = IF k = i THEN j ELSE jobs[k]
    BY <2>1, <2>2 DEF Running
  <2>5. Running'
    BY <2>1, <2>2, <2>3, <2>4 DEF Running, Queued, OneHolder, Holds
  <2>6. Resting'
    BY <1>3 DEF Stalled, Resting, bounds
  <2>7. QED
    BY <2>5, <2>6
<1>4. CASE Forgotten(i)
  <2>1. jobs' = [jobs EXCEPT ![i] = NoJob] /\ run' = run /\ jobs[i].state # "active"
    BY <1>4 DEF Forgotten
  <2>2. Running'
    BY <2>1, NoJobType, JobChanges
  <2>3. Resting'
    BY <1>4, BoundsTypes DEF Forgotten, Resting
  <2>4. QED
    BY <2>2, <2>3
<1>5. ASSUME NEW h \in Handles, Start(h, i) PROVE Running' /\ Resting'
  <2> DEFINE j == [jobs[i] EXCEPT !.state = "active"]
             q == [Idle EXCEPT !.pc = "ready", !.id = i, !.held = TRUE, !.file = jobs[i].file,
                               !.batch = jobs[i].batch, !.sofar = jobs[i].sofar]
  <2>1. j \in Job /\ Waits(j) /\ Counts(j) /\ j.state = "active"
    BY <1>1, <1>5 DEF Start, Job, Live, Waits, Counts
  <2>2. jobs[i].file \in Files /\ jobs[i].batch \in Numbers /\ jobs[i].sofar \in 0..Batches
    BY <1>1, <1>5 DEF Start, Job, Live, Waits
  <2>3. q \in Handle /\ q.id = i /\ q.file = jobs[i].file /\ q.pc = "ready"
        /\ q.batch = jobs[i].batch /\ q.sofar = jobs[i].sofar
    BY <2>2, IdleType DEF Handle
  <2>4. Sound(q)
    BY <1>1, <2>2, <2>3 DEF Sound, Busy, Within, Counts
  <2>5. jobs' = [jobs EXCEPT ![i] = j] /\ run' = [run EXCEPT ![h] = q]
    BY <1>5 DEF Start
  <2> HIDE DEF j, q
  <2>6. \A g \in Handles : run[g].held => run[g].id # i
    BY <1>5 DEF Start, Running, Holds
  <2>7. /\ jobs' \in [Files \cup Ids -> Job]
        /\ \A k \in Files \cup Ids : jobs'[k] = IF k = i THEN j ELSE jobs[k]
    BY <2>1, <2>5 DEF Running
  <2>8. /\ run' \in [Handles -> Handle]
        /\ \A g \in Handles : run'[g] = IF g = h THEN q ELSE run[g]
    BY <2>3, <2>5 DEF Running
  <2>9. OneHolder' /\ Queued'
    BY <2>1, <2>3, <2>6, <2>7, <2>8 DEF Running, OneHolder, Queued
  <2>10. \A g \in Handles : Sound(run'[g]) /\ Holds(run[g])'
    BY <2>1, <2>3, <2>4, <2>6, <2>7, <2>8 DEF Running, Holds
  <2>11. Running'
    BY <2>7, <2>8, <2>9, <2>10 DEF Running
  <2>12. Resting'
    BY <1>5 DEF Start, Resting, bounds
  <2>13. QED
    BY <2>11, <2>12
<1>6. QED
  BY <1>2, <1>3, <1>4, <1>5

(* A handle that only goes on, with its job as it was.                     *)
LEMMA StepOn ==
  ASSUME Running, NEW h \in Handles, jobs' = jobs, NEW pc, Go(h, pc), run[h].pc # "idle",
         pc \in {"store", "check", "dispatch", "finish", "end", "error"},
         pc \in {"check", "dispatch"} => run[h].batch < Batches
  PROVE  Running'
<1> DEFINE q == [run[h] EXCEPT !.pc = pc]
<1>1. run[h] \in Handle /\ Sound(run[h])
  BY DEF Running
<1>2. q \in Handle /\ q.pc = pc /\ q.id = run[h].id /\ q.file = run[h].file
      /\ q.batch = run[h].batch /\ q.sofar = run[h].sofar /\ q.held = run[h].held
  BY <1>1 DEF Handle
<1>3. Sound(q)
  BY <1>1, <1>2 DEF Sound, Busy, Within, Counts
<1>4. Becomes(h, q)
  BY DEF Go
<1> HIDE DEF q
<1>5. QED
  BY <1>2, <1>3, <1>4, HandleGoesOn DEF Running, Queued

LEMMA WorkSteps ==
  ASSUME IInv, NEW h \in Handles, Work(h)
  PROVE  IInv'
<1> SUFFICES Running' /\ Resting'
  BY DEF IInv
<1>a. Running /\ Resting
  BY DEF IInv
<1> DEFINE q == run[h]
<1>b. q \in Handle /\ Sound(q) /\ Holds(q)
  BY <1>a DEF Running
<1>c. q.pc # "idle" => /\ q.id \in Files \cup Ids /\ q.file \in Files
                       /\ jobs[q.id] \in Job /\ Waits(jobs[q.id]) /\ Counts(jobs[q.id])
  BY <1>a, <1>b DEF Sound, Busy, Running, Queued
<1>d. /\ q.batch \in Nat /\ q.batch <= Batches /\ q.sofar \in Nat /\ q.sofar < q.batch
      /\ q.got \in 0..1 /\ Batches \in Nat /\ q.batch \in Numbers
  BY <1>b, BoundsAssumption DEF Handle, Sound, Counts, Numbers
<1>1. CASE Ready(h)
  <2>1. Resting'
    BY <1>1, <1>a, BoundsTypes DEF Ready, Resting
  <2>2. ASSUME jobs' = [jobs EXCEPT ![q.id].err = FALSE], NEW pc \in {"end", "store", "error"},
               Go(h, pc)
        PROVE  Running'
    <3> DEFINE p == [q EXCEPT !.pc = pc]
    <3>1. q.pc = "ready"
      BY <1>1 DEF Ready
    <3>2. /\ jobs' \in [Files \cup Ids -> Job]
          /\ \A i \in Files \cup Ids :
               /\ jobs'[i].state = jobs[i].state /\ jobs'[i].made = jobs[i].made
               /\ jobs'[i].file = jobs[i].file /\ jobs'[i].sofar = jobs[i].sofar
               /\ jobs'[i].batch = jobs[i].batch
      BY <1>a, <1>c, <2>2, <3>1 DEF Running, Job
    <3>3. Queued'
      BY <1>a, <3>2 DEF Running, Queued, Waits, Counts
    <3>4. p \in Handle /\ p.pc = pc /\ p.id = q.id /\ p.file = q.file
          /\ p.batch = q.batch /\ p.sofar = q.sofar /\ p.held = q.held
      BY <1>b DEF Handle
    <3>5. Sound(p)
      BY <1>b, <3>1, <3>4 DEF Sound, Busy, Within, Counts
    <3>6. Becomes(h, p)
      BY <2>2 DEF Go
    <3> HIDE DEF p
    <3>7. QED
      BY <1>a, <3>2, <3>3, <3>4, <3>5, <3>6, HandleGoesOn
  <2>3. ASSUME jobs' = jobs, NEW bad \in BOOLEAN,
               Becomes(h, [run[h] EXCEPT !.pc = "error", !.bad = bad])
        PROVE  Running'
    <3> DEFINE p == [q EXCEPT !.pc = "error", !.bad = bad]
    <3>1. q.pc = "ready"
      BY <1>1 DEF Ready
    <3>2. p \in Handle /\ p.pc = "error" /\ p.id = q.id /\ p.file = q.file
          /\ p.batch = q.batch /\ p.sofar = q.sofar /\ p.held = q.held
      BY <1>b DEF Handle
    <3>3. Sound(p)
      BY <1>b, <3>1, <3>2 DEF Sound, Busy, Within, Counts
    <3>4. Becomes(h, p)
      BY <2>3
    <3> HIDE DEF p
    <3>5. QED
      BY <1>a, <2>3, <3>2, <3>3, <3>4, HandleGoesOn DEF Running, Queued
  <2>4. CASE Trouble /\ jobs' = jobs /\ \E bad \in BOOLEAN :
               Becomes(h, [run[h] EXCEPT !.pc = "error", !.bad = bad])
    BY <2>1, <2>3, <2>4
  <2>5. CASE /\ jobs' = [jobs EXCEPT ![run[h].id].err = FALSE]
             /\ Go(h, IF ~Exists(h) THEN "end"
                      ELSE IF run[h].file \in disk \cup Docs THEN "store" ELSE "error")
    BY <2>1, <2>2, <2>5
  <2>6. QED
    BY <1>1, <2>4, <2>5 DEF Ready
<1>2. CASE Store(h)
  <2>1. q.pc = "store" /\ After(h) \in {"check", "finish"}
        /\ (After(h) = "check" => q.batch < Batches)
    <3>1. q.pc = "store" /\ After(h) \in {"check", "finish"}
          /\ (After(h) = "check" => q.batch # Batches)
      BY <1>2 DEF Store, After, More
    <3>2. q.batch # Batches => q.batch < Batches
      BY <1>d, <3>1
    <3>3. QED
      BY <3>1, <3>2
  <2>2. points' \in [Files -> [Numbers -> 0..Many]]
    <3>1. CASE points' = points
      BY <1>a, <3>1 DEF Resting
    <3>2. CASE points' = [points EXCEPT ![q.file][q.batch] = IF @ = Many THEN @ ELSE @ + 1]
      <4> DEFINE n == points[q.file][q.batch]
      <4>1. n \in 0..Many /\ q.file \in Files /\ q.batch \in Numbers
        BY <1>a, <1>c, <1>d, <2>1 DEF Resting
      <4>2. (IF n = Many THEN n ELSE n + 1) \in 0..Many
        BY <4>1 DEF Many
      <4>3. QED
        BY <1>a, <3>2, <4>1, <4>2 DEF Resting
    <3>3. QED
      BY <1>2, <3>1, <3>2 DEF Store
  <2>3. Resting'
    BY <1>2, <1>a, <2>2, BoundsTypes DEF Store, Resting
  <2>4. CASE Becomes(h, [run[h] EXCEPT !.pc = After(h), !.got = 1])
    <3> DEFINE p == [q EXCEPT !.pc = After(h), !.got = 1]
    <3>1. p \in Handle /\ p.pc = After(h) /\ p.id = q.id /\ p.file = q.file
          /\ p.batch = q.batch /\ p.sofar = q.sofar /\ p.held = q.held
      <4>1. PICK a \in {"check", "finish"} : a = After(h)
        BY <2>1
      <4>2. p = [q EXCEPT !.pc = a, !.got = 1] /\ 1 \in 0..1
        BY <4>1
      <4>3. QED
        BY <1>b, <4>1, <4>2 DEF Handle
    <3>2. Sound(p)
      BY <1>b, <2>1, <3>1 DEF Sound, Busy, Within, Counts
    <3>3. Becomes(h, p) /\ jobs' = jobs
      BY <1>2, <2>4 DEF Store
    <3> HIDE DEF p
    <3>4. QED
      BY <1>a, <2>3, <3>1, <3>2, <3>3, HandleGoesOn DEF Running, Queued
  <2>5. CASE Go(h, IF q.file \in Zims THEN After(h) ELSE "error")
    BY <1>2, <1>a, <2>1, <2>3, <2>5, StepOn DEF Store
  <2>6. QED
    BY <1>2, <2>4, <2>5 DEF Store
<1>3. CASE Check(h)
  <2>1. Resting'
    BY <1>3, <1>a DEF Check, Resting, bounds
  <2>2. q.pc = "check" /\ q.batch < Batches
    BY <1>3, <1>b DEF Check, Sound, Within
  <2>3. QED
    BY <1>3, <1>a, <2>1, <2>2, StepOn DEF Check
<1>4. CASE Continue(h)
  <2>1. Resting'
    BY <1>4, <1>a DEF Continue, Resting, bounds
  <2>2. q.pc = "dispatch" /\ q.batch < Batches /\ Unused # {}
    BY <1>4, <1>b DEF Continue, Sound, Within
  <2>3. /\ q.batch + 1 \in Numbers /\ q.sofar + q.got \in 0..Batches
        /\ q.sofar + q.got < q.batch + 1
    BY <1>d, <2>2 DEF Numbers
  <2>4. jobs' = AddedAs(NewId, q.file, q.batch + 1, q.sofar + q.got)
    BY <1>4 DEF Continue
  <2>5. /\ jobs' \in [Files \cup Ids -> Job] /\ Queued'
        /\ \A i \in Files \cup Ids : jobs'[i] = jobs[i] \/ jobs[i].state = "none"
    BY <1>a, <1>c, <2>2, <2>3, <2>4, AddedAsTypes DEF Queued
  <2> DEFINE p == [q EXCEPT !.pc = "end"]
  <2>6. p \in Handle /\ p.pc = "end" /\ p.id = q.id /\ p.file = q.file
        /\ p.batch = q.batch /\ p.sofar = q.sofar /\ p.held = q.held
    BY <1>b DEF Handle
  <2>7. Sound(p)
    BY <1>b, <2>2, <2>6 DEF Sound, Busy, Within, Counts
  <2>8. Becomes(h, p)
    BY <1>4 DEF Continue, Go
  <2> HIDE DEF p
  <2>9. QED
    BY <1>a, <2>1, <2>5, <2>6, <2>7, <2>8, HandleGoesOn
<1>5. CASE Finish(h)
  <2>1. q.pc = "finish"
    BY <1>5 DEF Finish
  <2>2. q.sofar + q.got \in 0..Batches
    BY <1>d
  <2>3. row' \in [Files -> Row]
    BY <1>5, <1>a, <1>c, <2>1, <2>2, RowTypes DEF Finish, Resting
  <2>4. Resting'
    BY <1>5, <1>a, <2>3, BoundsTypes DEF Finish, Resting
  <2>5. QED
    BY <1>5, <1>a, <2>1, <2>4, StepOn DEF Finish
<1>6. CASE End(h)
  <2>1. Resting'
    BY <1>6, <1>a DEF End, Resting, bounds
  <2>2. q.pc = "end"
    BY <1>6 DEF End
  <2> DEFINE j == IF q.id \in Ids THEN NoJob ELSE [jobs[q.id] EXCEPT !.state = "completed"]
  <2>3. j \in Job /\ Waits(j) /\ Counts(j)
    BY <1>c, <2>2, NoJobType DEF Job, Live, Waits, Counts
  <2>4. jobs' = IF q.held THEN [jobs EXCEPT ![q.id] = j] ELSE jobs
    BY <1>6 DEF End
  <2>5. Becomes(h, Idle)
    BY <1>6 DEF End
  <2> HIDE DEF j
  <2>6. QED
    BY <1>a, <2>1, <2>3, <2>4, <2>5, HandleLetsGo
<1>7. CASE Error(h)
  <2>1. q.pc = "error" /\ Becomes(h, Idle)
    BY <1>7 DEF Error, Fail
  <2>2. row' \in [Files -> Row]
    <3>1. \A r \in Row : r # NoRow => [r EXCEPT !.state = "failed"] \in Row
      BY DEF Row
    <3>2. row' = MarkedFailed(h)
      BY <1>7 DEF Error, Fail
    <3>3. q.file \in Files /\ row \in [Files -> Row]
      BY <1>a, <1>c, <2>1 DEF Resting
    <3>4. QED
      BY <3>1, <3>2, <3>3, RowTypes DEF MarkedFailed
  <2>3. Resting'
    BY <1>7, <1>a, <2>2 DEF Error, Fail, Resting, bounds
  <2>4. CASE q.held
    <3> DEFINE made == jobs[q.id].made + 1
               j == [jobs[q.id] EXCEPT !.err = TRUE, !.made = made, !.state =
                       IF q.bad \/ made >= Attempts THEN "failed" ELSE "delayed"]
    <3>1. jobs[q.id].state = "active" /\ jobs[q.id].made < Attempts /\ jobs[q.id].file \in Files
      BY <1>b, <1>c, <2>1, <2>4 DEF Holds, Waits, Live
    <3>2. made \in 0..Attempts /\ made \in Nat /\ Attempts \in Nat
      BY <1>c, <2>1, <3>1, BoundsAssumption DEF Job
    <3>3. /\ j \in Job /\ j.made = made /\ j.file = jobs[q.id].file
          /\ j.sofar = jobs[q.id].sofar /\ j.batch = jobs[q.id].batch
          /\ (made >= Attempts => j.state = "failed")
      <4> HIDE DEF made
      <4> QED
        BY <1>c, <2>1, <3>2 DEF Job, Live
    <3>4. jobs' = [jobs EXCEPT ![q.id] = j]
      BY <1>7, <1>a, <1>c, <2>1, <2>4 DEF Error, Fail, Running, Job
    <3> HIDE DEF j, made
    <3>5. Waits(j) /\ Counts(j)
      BY <1>c, <2>1, <3>1, <3>2, <3>3 DEF Waits, Counts, Live
    <3>6. QED
      BY <1>a, <2>1, <2>3, <2>4, <3>3, <3>4, <3>5, HandleLetsGo
  <2>5. CASE ~q.held
    <3>1. jobs' = [jobs EXCEPT ![q.id].err = Exists(h)] /\ Exists(h) \in BOOLEAN
      BY <1>7, <2>5 DEF Error, Fail, Exists
    <3>2. /\ jobs' \in [Files \cup Ids -> Job]
          /\ \A i \in Files \cup Ids :
               /\ jobs'[i].state = jobs[i].state /\ jobs'[i].made = jobs[i].made
               /\ jobs'[i].file = jobs[i].file /\ jobs'[i].sofar = jobs[i].sofar
               /\ jobs'[i].batch = jobs[i].batch
      BY <1>a, <1>c, <2>1, <3>1 DEF Running, Job
    <3>3. Queued'
      BY <1>a, <3>2 DEF Running, Queued, Waits, Counts
    <3>4. QED
      BY <1>a, <2>1, <2>3, <3>2, <3>3, IdleType, HandleGoesOn
  <2>6. QED
    BY <2>4, <2>5
<1>8. QED
  BY <1>1, <1>2, <1>3, <1>4, <1>5, <1>6, <1>7 DEF Work

LEMMA CrashStep == IInv /\ Crash => IInv'
<1> SUFFICES ASSUME Running, Resting, Crash PROVE Running' /\ Resting'
  BY DEF IInv
<1>1. Running'
  BY IdleType DEF Crash, Running, Queued, OneHolder, Holds
<1>2. Resting'
  BY NoRequestType, BoundsTypes DEF Crash, Resting, Asked
<1>3. QED
  BY <1>1, <1>2

LEMMA AskSteps == IInv /\ Ask => IInv'
<1> SUFFICES ASSUME Running, Resting, NEW t \in Tabs,
               \/ \E f \in Files : \/ Upload(t, f) \/ Install(t, f) \/ Delete(t, f) \/ Embed(t, f)
                                   \/ \E g \in Files : Replace(t, f, g)
               \/ \E op \in Ops : Sweep(t, op)
               \/ Cancel(t) \/ Cleanup(t) \/ SetPolicy(t)
             PROVE  Running' /\ Resting'
  BY DEF IInv, Ask
<1>a. NoRequest \in Request /\ Asked(NoRequest) /\ NoRequest.pc = "idle" /\ NoRequest.todo = {}
  BY NoRequestType DEF Asked, NoRequest
<1>1. ASSUME NEW f \in Files, Upload(t, f) PROVE Running' /\ Resting'
  <2> DEFINE r == [NoRequest EXCEPT !.op = "upload", !.pc = "dispatch", !.todo = {f}]
  <2>1. Asked(r)
    BY <1>a DEF Asked, Request, Ops
  <2>2. Asks(t, r)
    BY <1>1 DEF Upload
  <2> HIDE DEF r
  <2>3. Resting'
    BY <1>1, <2>1, <2>2, AsksTypes DEF Upload, Resting
  <2>4. QED
    BY <1>1, <2>3, SameRunning DEF Upload
<1>2. ASSUME NEW f \in Files, Install(t, f) PROVE Running' /\ Resting'
  <2>1. row' \in [Files -> Row]
    BY <1>2, RowTypes DEF Install, Resting
  <2>2. Resting'
    BY <1>2, <1>a, <2>1, AsksTypes DEF Install, Resting
  <2>3. Running'
    BY <1>2, AddedRuns, SameRunning DEF Install
  <2>4. QED
    BY <2>2, <2>3
<1>3. ASSUME NEW f \in Files, Delete(t, f) PROVE Running' /\ Resting'
  <2> DEFINE r == [NoRequest EXCEPT !.op = "delete", !.pc = "drop", !.f = f]
  <2>1. Asked(r)
    BY <1>a DEF Asked, Request, Ops
  <2>2. Asks(t, r)
    BY <1>3 DEF Delete
  <2> HIDE DEF r
  <2>3. Resting'
    BY <1>3, <2>1, <2>2, AsksTypes DEF Delete, Resting
  <2>4. QED
    BY <1>3, <2>3, SameRunning DEF Delete
<1>4. ASSUME NEW f \in Files, Embed(t, f) PROVE Running' /\ Resting'
  <2>1. Asked(ToEmbed(f))
    <3>1. (~Reads(f, "pending_decision")) \in BOOLEAN
      BY DEF Reads
    <3>2. PICK force \in BOOLEAN, pc \in {"purge", "dispatch"} :
            ToEmbed(f) = [NoRequest EXCEPT !.op = "embed", !.pc = pc, !.todo = {f}, !.force = force]
      BY <3>1 DEF ToEmbed
    <3> DEFINE r == [NoRequest EXCEPT !.op = "embed", !.pc = pc, !.todo = {f}, !.force = force]
    <3>3. r \in Request /\ r.pc = pc /\ r.todo = {f}
      BY <1>a DEF Request, Ops
    <3> HIDE DEF r
    <3>4. Asked(r)
      BY <3>3 DEF Asked
    <3>5. ToEmbed(f) = r
      BY <3>2 DEF r
    <3>6. QED
      BY <3>4, <3>5
  <2>2. Asks(t, ToEmbed(f))
    BY <1>4 DEF Embed
  <2>3. Resting'
    BY <1>4, <2>1, <2>2, AsksTypes DEF Embed, Resting
  <2>4. QED
    BY <1>4, <2>3, SameRunning DEF Embed
<1>5. ASSUME NEW f \in Files, NEW g \in Files, Replace(t, f, g) PROVE Running' /\ Resting'
  <2> DEFINE r == [NoRequest EXCEPT !.op = "replace", !.pc = "drop", !.f = f, !.todo = {g}]
  <2>1. Asked(r)
    BY <1>a DEF Asked, Request, Ops
  <2>2. Asks(t, r)
    BY <1>5 DEF Replace
  <2> HIDE DEF r
  <2>3. Resting'
    BY <1>5, <2>1, <2>2, AsksTypes DEF Replace, Resting
  <2>4. QED
    BY <1>5, <2>3, SameRunning DEF Replace
<1>6. ASSUME NEW op \in Ops, Sweep(t, op) PROVE Running' /\ Resting'
  <2> DEFINE r == [NoRequest EXCEPT !.op = op, !.pc = IF op = "rebuild" THEN "wipe" ELSE "docs",
                                    !.force = op # "scan"]
  <2>1. Asked(r)
    BY <1>a DEF Asked, Request
  <2>2. Asks(t, r)
    BY <1>6 DEF Sweep
  <2> HIDE DEF r
  <2>3. Resting'
    BY <1>6, <2>1, <2>2, AsksTypes DEF Sweep, Resting
  <2>4. QED
    BY <1>6, <2>3, SameRunning DEF Sweep
<1>7. CASE Cancel(t)
  <2> DEFINE r == [NoRequest EXCEPT !.op = "cancel", !.pc = "obliterate"]
  <2>1. Asked(r)
    BY <1>a DEF Asked, Request, Ops
  <2>2. Asks(t, r)
    BY <1>7 DEF Cancel
  <2> HIDE DEF r
  <2>3. Resting'
    BY <1>7, <2>1, <2>2, AsksTypes DEF Cancel, Resting
  <2>4. QED
    BY <1>7, <2>3, SameRunning DEF Cancel
<1>8. CASE Cleanup(t)
  <2>1. PICK failed \in SUBSET (Files \cup Ids) :
          Asks(t, [NoRequest EXCEPT !.op = "cleanup", !.pc = "remove", !.todo = failed])
    BY <1>8 DEF Cleanup, Running
  <2> DEFINE r == [NoRequest EXCEPT !.op = "cleanup", !.pc = "remove", !.todo = failed]
  <2>2. Asked(r)
    BY <1>a DEF Asked, Request, Ops
  <2>3. Asks(t, r)
    BY <2>1
  <2> HIDE DEF r
  <2>4. Resting'
    BY <1>8, <2>2, <2>3, AsksTypes DEF Cleanup, Resting
  <2>5. QED
    BY <1>8, <2>4, SameRunning DEF Cleanup
<1>9. CASE SetPolicy(t)
  <2>1. Resting'
    BY <1>9, <1>a, AsksTypes DEF SetPolicy, Resting
  <2>2. QED
    BY <1>9, <2>1, SameRunning DEF SetPolicy
<1>10. QED
  BY <1>1, <1>2, <1>3, <1>4, <1>5, <1>6, <1>7, <1>8, <1>9

LEMMA AnswerSteps ==
  ASSUME IInv, NEW t \in Tabs, Answer(t)
  PROVE  IInv'
<1> SUFFICES Running' /\ Resting'
  BY DEF IInv
<1>a. Running /\ Resting
  BY DEF IInv
<1> DEFINE r == req[t]
<1>b. r \in Request /\ Asked(r)
  BY <1>a DEF Resting
<1>c. NoRequest \in Request /\ Asked(NoRequest) /\ NoRequest.pc = "idle" /\ NoRequest.todo = {}
  BY NoRequestType DEF Asked, NoRequest
<1>d. disk \subseteq Files /\ row \in [Files -> Row] /\ points \in [Files -> [Numbers -> 0..Many]]
  BY <1>a DEF Resting, Files
<1>1. CASE Discover(t)
  <2>1. \A i \in Files \cup Ids :
          /\ jobs'[i] = IF i \in Docs THEN Added(i)[i] ELSE jobs[i]
    BY <1>1, <1>a DEF Discover, Running
  <2>2. /\ jobs' \in [Files \cup Ids -> Job]
        /\ \A i \in Files \cup Ids :
             /\ Waits(jobs'[i]) /\ Counts(jobs'[i])
             /\ jobs'[i] = jobs[i] \/ jobs[i].state = "none"
    <3>1. Docs \subseteq Files /\ DOMAIN jobs = Files \cup Ids
      BY <1>a DEF Files, Running
    <3>2. \A i \in Docs : /\ Added(i)[i] \in Job
                          /\ Waits(Added(i)[i]) /\ Counts(Added(i)[i])
                          /\ Added(i)[i] = jobs[i] \/ jobs[i].state = "none"
      BY <1>a, <3>1, AddedTypes
    <3>3. \A i \in Files \cup Ids : jobs[i] \in Job /\ Waits(jobs[i]) /\ Counts(jobs[i])
      BY <1>a DEF Running, Queued
    <3>4. jobs' = [i \in Files \cup Ids |-> IF i \in Docs THEN Added(i)[i] ELSE jobs[i]]
      BY <1>1, <3>1 DEF Discover
    <3>5. QED
      BY <3>1, <3>2, <3>3, <3>4
  <2>3. Running'
    BY <1>1, <1>a, <2>2, JobsChange DEF Discover, Queued
  <2>4. PICK pc \in {"facet", "purge", "dispatch"} : OnTo(t, pc, [r EXCEPT !.todo = disk])
    BY <1>1 DEF Discover
  <2>5. Asked([[r EXCEPT !.todo = disk] EXCEPT !.pc = pc])
    BY <1>b, <1>d, <2>4 DEF Asked, Request
  <2>6. req' \in [Tabs -> Request] /\ \A u \in Tabs : Asked(req'[u])
    BY <1>a, <2>4, <2>5, RequestOnTo
  <2>7. Resting'
    BY <1>1, <1>a, <2>6 DEF Discover, Resting, bounds
  <2>8. QED
    BY <2>3, <2>7
<1>2. CASE Facet(t)
  <2>1. CASE /\ req' = [req EXCEPT ![t].pc = "rows", ![t].has = {f \in req[t].todo : Stored(f)}]
             /\ UNCHANGED bounds
    <3> DEFINE has == {f \in r.todo : Stored(f)}
               s == [r EXCEPT !.pc = "rows", !.has = has]
    <3>1. r.todo \subseteq Files /\ has \subseteq Files
      BY <1>2, <1>b DEF Facet, Asked
    <3>2. req' = [req EXCEPT ![t] = s]
      BY <1>a, <2>1 DEF Resting
    <3>3. Asked(s)
      <4> HIDE DEF has
      <4> QED
        BY <1>b, <3>1 DEF Asked, Request
    <3> HIDE DEF s
    <3>4. req' \in [Tabs -> Request] /\ \A u \in Tabs : Asked(req'[u])
      BY <1>a, <3>2, <3>3, RequestGoesOn
    <3>5. Resting'
      BY <1>2, <1>a, <2>1, <3>4, BoundsTypes DEF Facet, Resting
    <3>6. QED
      BY <1>2, <1>a, <3>5, SameRunning DEF Facet
  <2>2. CASE Trouble /\ Done(t)
    <3>1. Resting'
      BY <1>2, <1>a, <2>2, RequestEnds, BoundsTypes DEF Facet, Resting
    <3>2. QED
      BY <1>2, <1>a, <3>1, SameRunning DEF Facet
  <2>3. QED
    BY <1>2, <2>1, <2>2 DEF Facet
<1>3. CASE Rows(t)
  <2> DEFINE todo == Unembedded(r)
             new == {f \in r.todo : row[f] = NoRow}
             s == [r EXCEPT !.pc = "create", !.todo = todo, !.new = new]
  <2>1. todo \subseteq Files /\ new \subseteq Files
    BY <1>3, <1>b DEF Rows, Asked, Unembedded
  <2>2. req' = [req EXCEPT ![t] = s]
    BY <1>3, <1>a DEF Rows, Resting
  <2>3. Asked(s)
    <3> HIDE DEF todo, new
    <3> QED
      BY <1>b, <2>1 DEF Asked, Request
  <2> HIDE DEF s
  <2>4. req' \in [Tabs -> Request] /\ \A u \in Tabs : Asked(req'[u])
    BY <1>a, <2>2, <2>3, RequestGoesOn
  <2>5. Resting'
    BY <1>3, <1>a, <2>4 DEF Rows, Resting, bounds
  <2>6. QED
    BY <1>3, <1>a, <2>5, SameRunning DEF Rows
<1>4. CASE Create(t)
  <2>1. PICK made \in SUBSET Files :
          /\ row' = [f \in Files |-> IF f \notin made THEN row[f]
                                     ELSE IF f \in r.has THEN Indexed(0) ELSE Pending]
          /\ IF made = r.new THEN OnTo(t, "dispatch", r) ELSE Done(t)
    BY <1>4, <1>b DEF Create, Request
  <2>2. row' \in [Files -> Row]
    BY <1>d, <2>1, RowTypes, NumbersType
  <2>3. Asked([r EXCEPT !.pc = "dispatch"])
    BY <1>4, <1>b DEF Create, Asked, Request
  <2>4. req' \in [Tabs -> Request] /\ \A u \in Tabs : Asked(req'[u])
    BY <1>a, <2>1, <2>3, RequestOnTo, RequestEnds
  <2>5. Resting'
    BY <1>4, <1>a, <2>2, <2>4 DEF Create, Resting, bounds
  <2>6. QED
    BY <1>4, <1>a, <2>5, SameRunning DEF Create
<1>5. CASE Purge(t)
  <2>1. PICK f \in r.todo :
          \/ /\ points' = [points EXCEPT ![f] = Empty]
             /\ req' = [req EXCEPT ![t].pc = "dispatch", ![t].f = f]
             /\ UNCHANGED bounds
          \/ /\ Trouble /\ points' = points
             /\ OnTo(t, "purge", [r EXCEPT !.todo = @ \ {f}])
    BY <1>5 DEF Purge
  <2>2. f \in Files /\ r.todo \subseteq Files
    BY <1>5, <1>b, <2>1 DEF Purge, Asked
  <2>3. points' \in [Files -> [Numbers -> 0..Many]]
    BY <1>d, <2>1, PointsTypes
  <2>4. Asked([r EXCEPT !.pc = "dispatch", !.f = f])
    BY <1>b, <2>2 DEF Asked, Request
  <2>5. Asked([[r EXCEPT !.todo = @ \ {f}] EXCEPT !.pc = "purge"])
    BY <1>b, <2>2 DEF Asked, Request
  <2>6. CASE req' = [req EXCEPT ![t].pc = "dispatch", ![t].f = f] /\ UNCHANGED bounds
    <3> DEFINE s == [r EXCEPT !.pc = "dispatch", !.f = f]
    <3>1. req' = [req EXCEPT ![t] = s]
      BY <1>a, <2>6 DEF Resting
    <3>2. Asked(s)
      BY <2>4
    <3> HIDE DEF s
    <3>3. Resting'
      BY <1>5, <1>a, <2>3, <2>6, <3>1, <3>2, RequestGoesOn, BoundsTypes DEF Purge, Resting
    <3>4. QED
      BY <1>5, <1>a, <3>3, SameRunning DEF Purge
  <2>7. CASE Trouble /\ OnTo(t, "purge", [r EXCEPT !.todo = @ \ {f}])
    <3>1. req' \in [Tabs -> Request] /\ \A u \in Tabs : Asked(req'[u])
      BY <1>a, <2>5, <2>7, RequestOnTo
    <3>2. Resting'
      BY <1>5, <1>a, <2>3, <2>7, <3>1, BoundsTypes DEF Purge, Resting
    <3>3. QED
      BY <1>5, <1>a, <3>2, SameRunning DEF Purge
  <2>8. QED
    BY <2>1, <2>6, <2>7
<1>6. CASE Dispatch(t)
  <2>1. PICK f \in r.todo, pc \in {"purge", "dispatch"} :
          /\ r.force => Unused # {}
          /\ jobs' = IF r.force THEN AddedAs(NewId, f, 1, 0) ELSE Added(f)
          /\ OnTo(t, pc, [r EXCEPT !.todo = @ \ {f}, !.f = None])
    BY <1>6 DEF Dispatch
  <2>2. f \in Files /\ r.todo \subseteq Files
    BY <1>6, <1>b, <2>1 DEF Dispatch, Asked
  <2>3. /\ jobs' \in [Files \cup Ids -> Job]
        /\ \A i \in Files \cup Ids :
             /\ Waits(jobs'[i]) /\ Counts(jobs'[i])
             /\ jobs'[i] = jobs[i] \/ jobs[i].state = "none"
    <3>1. CASE r.force
      <4>1. jobs' = AddedAs(NewId, f, 1, 0) /\ Unused # {}
        BY <2>1, <3>1
      <4>2. 1 \in Numbers /\ 0 \in 0..Batches /\ 0 < 1
        BY NumbersType
      <4>3. QED
        BY <1>a, <2>2, <4>1, <4>2, AddedAsTypes
    <3>2. CASE ~r.force
      <4>1. jobs' = Added(f)
        BY <2>1, <3>2
      <4>2. QED
        BY <1>a, <2>2, <4>1, AddedTypes
    <3>3. QED
      BY <3>1, <3>2
  <2>4. Running'
    BY <1>6, <1>a, <2>3, JobsChange DEF Dispatch, Queued
  <2>5. Asked([[r EXCEPT !.todo = @ \ {f}, !.f = None] EXCEPT !.pc = pc])
    BY <1>b, <2>1, <2>2 DEF Asked, Request
  <2>6. req' \in [Tabs -> Request] /\ \A u \in Tabs : Asked(req'[u])
    BY <1>a, <2>1, <2>5, RequestOnTo
  <2>7. Resting'
    BY <1>6, <1>a, <2>6 DEF Dispatch, Resting, bounds
  <2>8. QED
    BY <2>4, <2>7
<1>7. CASE Drop(t)
  <2>1. r.pc = "drop" /\ r.f \in Files /\ r.todo \subseteq Files
    BY <1>7, <1>b DEF Drop, Asked
  <2>2. points' \in [Files -> [Numbers -> 0..Many]]
    BY <1>7, <1>d, <2>1, PointsTypes DEF Drop
  <2>3. \A pc \in {"unlink", "forget"} : Asked([r EXCEPT !.pc = pc])
    BY <1>b, <2>1 DEF Asked, Request
  <2>4. Done(t) \/ \E pc \in {"unlink", "forget"} : To(t, pc)
    BY <1>7 DEF Drop
  <2>5. \A pc : To(t, pc) => req' = [req EXCEPT ![t] = [r EXCEPT !.pc = pc]]
    BY <1>a DEF To, Resting
  <2>6. req' \in [Tabs -> Request] /\ \A u \in Tabs : Asked(req'[u])
    BY <1>a, <2>3, <2>4, <2>5, RequestEnds, RequestGoesOn
  <2>7. Resting'
    BY <1>7, <1>a, <2>2, <2>6, BoundsTypes DEF Drop, Resting
  <2>8. QED
    BY <1>7, <1>a, <2>7, SameRunning DEF Drop
<1>8. CASE Unlink(t)
  <2>1. r.pc = "unlink" /\ r.f \in Files /\ r.todo \subseteq Files
    BY <1>8, <1>b DEF Unlink, Asked
  <2>2. Asked([r EXCEPT !.pc = "forget"])
    BY <1>b, <2>1 DEF Asked, Request
  <2>3. req' = [req EXCEPT ![t] = [r EXCEPT !.pc = "forget"]]
    BY <1>8, <1>a DEF Unlink, To, Resting
  <2>4. Resting'
    BY <1>8, <1>a, <2>2, <2>3, RequestGoesOn DEF Unlink, Resting, bounds
  <2>5. QED
    BY <1>8, <1>a, <2>4, SameRunning DEF Unlink
<1>9. CASE Forget(t)
  <2>1. r.pc = "forget" /\ r.f \in Files /\ r.todo \subseteq Files
    BY <1>9, <1>b DEF Forget, Asked
  <2>2. row' \in [Files -> Row]
    BY <1>9, <1>d, <2>1 DEF Forget, Row
  <2>3. Asked([[r EXCEPT !.f = None] EXCEPT !.pc = "dispatch"])
    BY <1>b, <2>1 DEF Asked, Request
  <2>4. req' \in [Tabs -> Request] /\ \A u \in Tabs : Asked(req'[u])
    BY <1>9, <1>a, <2>3, RequestOnTo DEF Forget
  <2>5. Resting'
    BY <1>9, <1>a, <2>2, <2>4 DEF Forget, Resting, bounds
  <2>6. QED
    BY <1>9, <1>a, <2>5, SameRunning DEF Forget
<1>10. CASE Wipe(t)
  <2>1. r.pc = "wipe" /\ r.todo \subseteq Files
    BY <1>10, <1>b DEF Wipe, Asked
  <2>2. Asked([r EXCEPT !.pc = "docs"])
    BY <1>b, <2>1 DEF Asked, Request
  <2>3. req' = [req EXCEPT ![t] = [r EXCEPT !.pc = "docs"]]
    BY <1>10, <1>a DEF Wipe, To, Resting
  <2>4. points' \in [Files -> [Numbers -> 0..Many]]
    BY <1>10, <1>d, PointsTypes DEF Wipe
  <2>5. Resting'
    BY <1>10, <1>a, <2>2, <2>3, <2>4, RequestGoesOn, BoundsTypes DEF Wipe, Resting
  <2>6. QED
    BY <1>10, <1>a, <2>5, SameRunning DEF Wipe
<1>11. CASE Obliterate(t)
  <2>1. /\ jobs' \in [Files \cup Ids -> Job]
        /\ \A i \in Files \cup Ids : jobs'[i] = NoJob
    BY <1>11, <1>a, NoJobType DEF Obliterate, Running
  <2>2. /\ run' \in [Handles -> Handle]
        /\ \A h \in Handles : Sound(run'[h]) /\ ~run'[h].held
    <3>1. ASSUME NEW h \in Handles
          PROVE  /\ [run[h] EXCEPT !.held = FALSE] \in Handle
                 /\ Sound([run[h] EXCEPT !.held = FALSE])
                 /\ ~[run[h] EXCEPT !.held = FALSE].held
      <4>1. run[h] \in Handle /\ Sound(run[h])
        BY <1>a DEF Running
      <4>2. QED
        BY <4>1 DEF Handle, Sound, Busy, Within, Counts
    <3>2. QED
      BY <1>11, <3>1 DEF Obliterate
  <2>3. Running'
    BY <2>1, <2>2, NoJobType DEF Running, Queued, OneHolder, Holds
  <2>4. Resting'
    BY <1>11, <1>a, RequestEnds DEF Obliterate, Resting, bounds
  <2>5. QED
    BY <2>3, <2>4
<1>12. CASE Remove(t)
  <2>1. PICK i \in r.todo :
          /\ disk' = disk \ ({jobs[i].file} \cap Uploads)
          /\ IF jobs[i].state = "active"
             THEN jobs' = jobs /\ Done(t)
             ELSE /\ jobs' = [jobs EXCEPT ![i] = NoJob]
                  /\ OnTo(t, "remove", [r EXCEPT !.todo = @ \ {i}])
    BY <1>12 DEF Remove
  <2>2. i \in Files \cup Ids /\ run' = run
    BY <1>12, <1>b, <2>1 DEF Remove, Request
  <2>3. Running'
    BY <1>a, <2>1, <2>2, NoJobType, JobChanges, SameRunning
  <2>4. Asked([[r EXCEPT !.todo = @ \ {i}] EXCEPT !.pc = "remove"])
    BY <1>b DEF Asked, Request
  <2>5. req' \in [Tabs -> Request] /\ \A u \in Tabs : Asked(req'[u])
    BY <1>a, <2>1, <2>4, RequestOnTo, RequestEnds
  <2>6. Resting'
    BY <1>12, <1>a, <2>1, <2>5 DEF Remove, Resting, bounds
  <2>7. QED
    BY <2>3, <2>6
<1>13. QED
  BY <1>1, <1>2, <1>3, <1>4, <1>5, <1>6, <1>7, <1>8, <1>9, <1>10, <1>11, <1>12 DEF Answer

LEMMA NextHolds == IInv /\ [Next]_vars => IInv'
<1> SUFFICES ASSUME IInv, [Next]_vars PROVE IInv'
  OBVIOUS
<1>1. CASE Next
  <2>1. Ask \/ Crash \/ QueueStep \/ (\E t \in Tabs : Answer(t)) \/ (\E h \in Handles : Work(h))
    BY <1>1 DEF Next, QueueStep
  <2>2. QED
    BY <2>1, AskSteps, CrashStep, QueueSteps, AnswerSteps, WorkSteps
<1>2. CASE UNCHANGED vars
  <2>1. IInv => (UNCHANGED vars => Running' /\ Resting')
    BY SameRunning DEF IInv, vars, bounds, Resting
  <2>2. QED
    BY <1>2, <2>1 DEF IInv
<1>3. QED
  BY <1>1, <1>2

(* Every reachable state is well typed.  In particular no job is tried     *)
(* more often than its attempts allow, no batch after the last is begun,   *)
(* and no more batches are counted as stored than a file has.              *)
THEOREM TypeCorrect == Spec => []TypeOK
<1>1. Spec => []IInv
  BY InitHolds, NextHolds, PTL DEF Spec
<1>2. QED
  BY <1>1, IInvTypes, PTL
-----------------------------------------------------------------------------
(* What is embedded, while `calm`.  A file's work is passed from a job     *)
(* that waits to the execution that took it, back to the job if it fails,  *)
(* and on to the job of the next batch: it is in one place at a time.      *)
Content == Zims \cup Uploads

Waiting(i) == jobs[i].state \in {"waiting", "delayed"}
Working(h) == run[h].pc \notin {"idle", "end"}
WaitsFor(i, f) == Waiting(i) /\ jobs[i].file = f
WorksOn(h, f) == Working(h) /\ run[h].file = f

Free(f) ==
  /\ \A i \in Files \cup Ids : ~WaitsFor(i, f)
  /\ \A h \in Handles : ~WorksOn(h, f)

OneAtWork(f) ==
  /\ \A i, j \in Files \cup Ids : WaitsFor(i, f) /\ WaitsFor(j, f) => i = j
  /\ \A g, h \in Handles : WorksOn(g, f) /\ WorksOn(h, f) => g = h
  /\ \A i \in Files \cup Ids, h \in Handles : ~(WaitsFor(i, f) /\ WorksOn(h, f))

(* An execution has the data of its job, and a job in progress has one.    *)
Attached ==
  /\ \A h \in Handles : run[h].pc # "idle" =>
       /\ run[h].held
       /\ jobs[run[h].id].file = run[h].file
       /\ jobs[run[h].id].batch = run[h].batch
       /\ jobs[run[h].id].sofar = run[h].sofar
  /\ \A i \in Files \cup Ids : jobs[i].state = "active" =>
       \E h \in Handles : run[h].held /\ run[h].id = i

(* One request is answered at a time.                                      *)
OneTab ==
  /\ \A t \in Tabs : req[t].op = "none" => req[t] = NoRequest
  /\ \A t, u \in Tabs : req[t].op # "none" /\ req[u].op # "none" => t = u

(* Of a file at work, the batches reached are there, and none after them.  *)
UpTo(f, n) == \A b \in Numbers : b > n => points[f][b] = 0
Full(f, n) == \A b \in Numbers : b <= n => points[f][b] = 1
Reached(q) == IF q.pc \in {"ready", "store", "error"} THEN q.batch - 1 ELSE q.batch

Copied(f) ==
  /\ \A b \in Numbers : points[f][b] <= 1
  /\ OneAtWork(f)
  /\ \A i \in Files \cup Ids : WaitsFor(i, f) => UpTo(f, jobs[i].batch - 1)
  /\ \A h \in Handles : WorksOn(h, f) => UpTo(f, Reached(run[h]))
  /\ Reads(f, "pending_decision") /\ Stored(f) => ~Free(f)

Excused(f) == troubles # 0 /\ GaveUp(f)
Copies == \A f \in Content : Excused(f) \/ Copied(f)
Clear(f) == Excused(f) \/ ~Stored(f)

(* What a request is about to queue is free, and nothing of it is there.   *)
Early == {"wipe", "docs", "facet", "rows", "create"}

Planned(r) ==
  /\ r.pc \notin {"obliterate", "remove"} /\ r.todo \subseteq Content
  /\ r.pc = "wipe" => r.op = "rebuild"
  /\ r.op \in {"rebuild", "reembed"} \/ r.pc = "purge" \/ (r.pc = "dispatch" /\ r.f # None)
       => r.force
  /\ r.pc = "purge" \/ (r.pc = "dispatch" /\ r.f # None)
       => r.op = "reembed" \/ \A x, y \in r.todo : x = y
  /\ r.pc \in Early => /\ r.op \in {"scan", "reembed", "rebuild"} /\ r.f = None
                       /\ \A f \in Content : Free(f)
  /\ r.pc \in {"purge", "dispatch", "drop", "unlink", "forget"} => \A f \in r.todo : Free(f)
  /\ r.pc \in {"drop", "unlink", "forget"} => Free(r.f) /\ \A f \in r.todo : ~Stored(f)
  /\ r.pc \in {"unlink", "forget"} => ~Stored(r.f)
  /\ r.pc = "docs" /\ r.op = "rebuild" => \A f \in Content : ~Stored(f)
  /\ r.pc = "rows" => \A f \in r.todo \ r.has : ~Stored(f)
  /\ r.pc = "create" => r.new \subseteq Content /\ \A f \in r.new \ r.has : ~Stored(f)
  /\ r.pc = "create" => \A f \in r.todo : Clear(f)
  /\ r.pc = "dispatch" => \A f \in r.todo : r.f \in {None, f} => Clear(f)

(* Without a failing call, what is worked on is there, or nothing of it is. *)
Present(f) ==
  /\ \A h \in Handles : WorksOn(h, f) =>
       /\ ~run[h].bad
       /\ run[h].pc = "error" => f \notin disk
       /\ run[h].pc \notin {"ready", "error"} => f \in disk
  /\ f \notin disk /\ ~Free(f) => ~Stored(f)

Presence == troubles = 0 => \A f \in Content : Present(f)

Steady == Attached /\ OneTab /\ Copies /\ Presence /\ \A t \in Tabs : Planned(req[t])

-----------------------------------------------------------------------------
(* What a step does to the work: the jobs outside S, the executions        *)
(* outside S, and the one place it takes it from or puts it to.            *)
KeepsJobs(S) ==
  \A i \in (Files \cup Ids) \ S :
    /\ Waiting(i)' <=> Waiting(i)
    /\ Waiting(i) => /\ jobs'[i].file = jobs[i].file
                     /\ jobs'[i].batch = jobs[i].batch /\ jobs'[i].sofar = jobs[i].sofar

KeepsRuns(S) ==
  \A h \in Handles \ S : (Working(h)' <=> Working(h)) /\ (Working(h) => run'[h] = run[h])

Queues(i, f, b, n) ==
  /\ i \in Files \cup Ids /\ KeepsJobs({i}) /\ ~Waiting(i) /\ Waiting(i)'
  /\ jobs'[i].file = f /\ jobs'[i].batch = b /\ jobs'[i].sofar = n

Rests == KeepsJobs({}) /\ KeepsRuns({})
Adds(i, f) == Queues(i, f, 1, 0) /\ KeepsRuns({})
Takes(h, i) ==
  /\ i \in Files \cup Ids /\ KeepsJobs({i}) /\ Waiting(i) /\ ~Waiting(i)'
  /\ KeepsRuns({h}) /\ ~Working(h) /\ Working(h)' /\ run'[h].pc = "ready" /\ ~run'[h].bad
  /\ run'[h].file = jobs[i].file /\ run'[h].batch = jobs[i].batch /\ run'[h].sofar = jobs[i].sofar
Goes(h) ==
  /\ KeepsJobs({}) /\ KeepsRuns({h}) /\ Working(h) /\ Working(h)'
  /\ run'[h].file = run[h].file /\ run'[h].batch = run[h].batch /\ run'[h].sofar = run[h].sofar
Passes(h, i, b, n) ==
  Queues(i, run[h].file, b, n) /\ KeepsRuns({h}) /\ Working(h) /\ ~Working(h)'
Leaves(h) == KeepsJobs({}) /\ KeepsRuns({h}) /\ Working(h) /\ ~Working(h)'

(* What fails stays failed.                                                *)
StaysFailed ==
  \A i \in Files \cup Ids : jobs[i].state = "failed" =>
    /\ jobs'[i].file = jobs[i].file /\ jobs'[i].state = "failed"
    /\ jobs'[i].made = jobs[i].made

LEMMA StaysExcused ==
  ASSUME StaysFailed, Trouble \/ troubles' = troubles, troubles \in Nat, NEW f, Excused(f)
  PROVE  Excused(f)'
  BY DEF StaysFailed, Excused, GaveUp, Trouble

LEMMA RestsFree ==
  ASSUME Rests, NEW f
  PROVE  /\ Free(f)' <=> Free(f)
         /\ \A i \in Files \cup Ids : WaitsFor(i, f)' <=> WaitsFor(i, f)
         /\ \A h \in Handles : WorksOn(h, f)' <=> WorksOn(h, f)
<1>1. \A i \in Files \cup Ids : WaitsFor(i, f)' <=> WaitsFor(i, f)
  BY DEF Rests, KeepsJobs, WaitsFor
<1>2. \A h \in Handles : WorksOn(h, f)' <=> WorksOn(h, f)
  BY DEF Rests, KeepsRuns, WorksOn
<1>3. QED
  BY <1>1, <1>2 DEF Free

(* ... or to the file f, if only others are concerned.                     *)
RestsAt(f) ==
  /\ \A i \in Files \cup Ids :
       /\ WaitsFor(i, f)' <=> WaitsFor(i, f)
       /\ WaitsFor(i, f) => jobs'[i].batch = jobs[i].batch /\ jobs'[i].sofar = jobs[i].sofar
  /\ \A h \in Handles :
       (WorksOn(h, f)' <=> WorksOn(h, f)) /\ (WorksOn(h, f) => run'[h] = run[h])

LEMMA RestsHere ==
  ASSUME Rests, NEW f
  PROVE  RestsAt(f)
  BY RestsFree DEF RestsAt, Rests, KeepsJobs, KeepsRuns, WaitsFor, WorksOn

LEMMA RestsAtFree ==
  ASSUME NEW f, RestsAt(f)
  PROVE  Free(f)' <=> Free(f)
  BY DEF RestsAt, Free

LEMMA AddsFree ==
  ASSUME NEW i, NEW e, Adds(i, e), NEW f
  PROVE  /\ f # e => (Free(f)' <=> Free(f))
         /\ \A j \in Files \cup Ids : WaitsFor(j, f)' <=> (WaitsFor(j, f) \/ (j = i /\ f = e))
         /\ \A h \in Handles : WorksOn(h, f)' <=> WorksOn(h, f)
         /\ ~Free(e)'
<1>1. \A j \in Files \cup Ids : WaitsFor(j, f)' <=> (WaitsFor(j, f) \/ (j = i /\ f = e))
  BY DEF Adds, Queues, KeepsJobs, WaitsFor
<1>2. \A h \in Handles : WorksOn(h, f)' <=> WorksOn(h, f)
  BY DEF Adds, KeepsRuns, WorksOn
<1>3. i \in Files \cup Ids /\ WaitsFor(i, e)'
  BY DEF Adds, Queues, WaitsFor
<1>4. QED
  BY <1>1, <1>2, <1>3 DEF Free

LEMMA AddsElsewhere ==
  ASSUME NEW i, NEW e, Adds(i, e), NEW f, f # e
  PROVE  RestsAt(f)
<1>1. /\ \A j \in Files \cup Ids : WaitsFor(j, f)' <=> WaitsFor(j, f)
      /\ \A h \in Handles : WorksOn(h, f)' <=> WorksOn(h, f)
  BY AddsFree
<1>2. \A j \in Files \cup Ids :
        WaitsFor(j, f) => jobs'[j].batch = jobs[j].batch /\ jobs'[j].sofar = jobs[j].sofar
  BY DEF Adds, Queues, KeepsJobs, WaitsFor
<1>3. \A h \in Handles : WorksOn(h, f) => run'[h] = run[h]
  BY DEF Adds, KeepsRuns, WorksOn
<1>4. QED
  BY <1>1, <1>2, <1>3 DEF RestsAt

LEMMA TakesFree ==
  ASSUME NEW h \in Handles, NEW i, Takes(h, i), NEW f
  PROVE  /\ Free(f)' <=> Free(f)
         /\ \A j \in Files \cup Ids : WaitsFor(j, f)' <=> WaitsFor(j, f) /\ j # i
         /\ \A g \in Handles : WorksOn(g, f)' <=> WorksOn(g, f) \/ (g = h /\ WaitsFor(i, f))
<1>1. \A j \in Files \cup Ids : WaitsFor(j, f)' <=> WaitsFor(j, f) /\ j # i
  BY DEF Takes, KeepsJobs, WaitsFor
<1>2. \A g \in Handles : WorksOn(g, f)' <=> WorksOn(g, f) \/ (g = h /\ WaitsFor(i, f))
  BY DEF Takes, KeepsRuns, WorksOn, WaitsFor
<1>3. i \in Files \cup Ids
  BY DEF Takes
<1>4. QED
  BY <1>1, <1>2, <1>3 DEF Free

LEMMA GoesFree ==
  ASSUME NEW h \in Handles, Goes(h), NEW f
  PROVE  /\ Free(f)' <=> Free(f)
         /\ \A j \in Files \cup Ids : WaitsFor(j, f)' <=> WaitsFor(j, f)
         /\ \A g \in Handles : WorksOn(g, f)' <=> WorksOn(g, f)
<1>1. \A j \in Files \cup Ids : WaitsFor(j, f)' <=> WaitsFor(j, f)
  BY DEF Goes, KeepsJobs, WaitsFor
<1>2. \A g \in Handles : WorksOn(g, f)' <=> WorksOn(g, f)
  BY DEF Goes, KeepsRuns, WorksOn
<1>3. QED
  BY <1>1, <1>2 DEF Free

LEMMA PassesFree ==
  ASSUME NEW h \in Handles, NEW i, NEW b, NEW n, Passes(h, i, b, n), NEW f
  PROVE  /\ Free(f)' <=> Free(f)
         /\ \A j \in Files \cup Ids : WaitsFor(j, f)' <=> WaitsFor(j, f) \/ (j = i /\ WorksOn(h, f))
         /\ \A g \in Handles : WorksOn(g, f)' <=> WorksOn(g, f) /\ g # h
<1>1. \A j \in Files \cup Ids : WaitsFor(j, f)' <=> WaitsFor(j, f) \/ (j = i /\ WorksOn(h, f))
  BY DEF Passes, Queues, KeepsJobs, WaitsFor, WorksOn
<1>2. \A g \in Handles : WorksOn(g, f)' <=> WorksOn(g, f) /\ g # h
  BY DEF Passes, KeepsRuns, WorksOn
<1>3. i \in Files \cup Ids
  BY DEF Passes, Queues
<1>4. QED
  BY <1>1, <1>2, <1>3 DEF Free

LEMMA LeavesFree ==
  ASSUME NEW h \in Handles, Leaves(h), NEW f
  PROVE  /\ Free(f) => Free(f)'
         /\ f # run[h].file => (Free(f)' <=> Free(f))
         /\ \A j \in Files \cup Ids : WaitsFor(j, f)' <=> WaitsFor(j, f)
         /\ \A g \in Handles : WorksOn(g, f)' <=> WorksOn(g, f) /\ g # h
<1>1. \A j \in Files \cup Ids : WaitsFor(j, f)' <=> WaitsFor(j, f)
  BY DEF Leaves, KeepsJobs, WaitsFor
<1>2. \A g \in Handles : WorksOn(g, f)' <=> WorksOn(g, f) /\ g # h
  BY DEF Leaves, KeepsRuns, WorksOn
<1>3. QED
  BY <1>1, <1>2 DEF Free, WorksOn

-----------------------------------------------------------------------------
(* What each of these steps does to the copies of a file.                  *)
Held(f) == points'[f] = points[f]
NoNewDecision(f) ==
  Reads(f, "pending_decision")' /\ Stored(f)' =>
    Reads(f, "pending_decision") /\ Stored(f)

LEMMA EmptyNumbers ==
  ASSUME NEW f
  PROVE  /\ points[f] = Empty => ~Stored(f) /\ \A b \in Numbers : points[f][b] = 0
         /\ points[f] = Empty => \A n : UpTo(f, n)
  BY DEF Empty, Stored, UpTo

LEMMA NotStored ==
  ASSUME points \in [Files -> [Numbers -> 0..Many]], NEW f \in Files, ~Stored(f)
  PROVE  \A b \in Numbers : points[f][b] = 0
<1>1. \A b \in Numbers : points[f][b] \in 0..Many /\ ~(points[f][b] > 0)
  BY DEF Stored
<1>2. QED
  BY <1>1 DEF Many

LEMMA HeldSame ==
  ASSUME NEW f, Held(f)
  PROVE  /\ Stored(f)' <=> Stored(f)
         /\ \A n : UpTo(f, n)' <=> UpTo(f, n)
         /\ \A n : Full(f, n)' <=> Full(f, n)
  BY DEF Held, Stored, UpTo, Full

LEMMA EmptiedSame ==
  ASSUME NEW f, points'[f] = Empty
  PROVE  /\ ~Stored(f)'
         /\ \A b \in Numbers : points'[f][b] = 0
         /\ \A n : UpTo(f, n)'
  BY DEF Empty, Stored, UpTo

LEMMA RestsCopied ==
  ASSUME NEW f, RestsAt(f), Copied(f), Held(f) \/ points'[f] = Empty, NoNewDecision(f)
  PROVE  Copied(f)'
<1>1. /\ Free(f)' <=> Free(f)
      /\ \A i \in Files \cup Ids : WaitsFor(i, f)' <=> WaitsFor(i, f)
      /\ \A h \in Handles : WorksOn(h, f)' <=> WorksOn(h, f)
  BY RestsAtFree DEF RestsAt
<1>2. OneAtWork(f)'
  BY <1>1 DEF Copied, OneAtWork
<1>3. \A b \in Numbers : points'[f][b] <= 1
  BY EmptiedSame DEF Copied, Held
<1>4. \A n : UpTo(f, n) => UpTo(f, n)'
  BY EmptiedSame, HeldSame
<1>5. \A i \in Files \cup Ids : WaitsFor(i, f)' => UpTo(f, jobs[i].batch - 1)'
  BY <1>1, <1>4 DEF Copied, UpTo, RestsAt
<1>6. \A h \in Handles : WorksOn(h, f)' => UpTo(f, Reached(run[h]))'
  BY <1>1, <1>4 DEF Copied, UpTo, Reached, RestsAt
<1>7. Reads(f, "pending_decision")' /\ Stored(f)' => ~Free(f)'
  BY <1>1 DEF Copied, NoNewDecision
<1>8. QED
  BY <1>2, <1>3, <1>5, <1>6, <1>7 DEF Copied

LEMMA AddsCopied ==
  ASSUME points \in [Files -> [Numbers -> 0..Many]],
         NEW i, NEW e, Adds(i, e), NEW f \in Files, Copied(f), Held(f), row'[f] = row[f],
         f = e => Free(f) /\ ~Stored(f)
  PROVE  Copied(f)'
<1>1. /\ f # e => (Free(f)' <=> Free(f))
      /\ \A j \in Files \cup Ids : WaitsFor(j, f)' <=> (WaitsFor(j, f) \/ (j = i /\ f = e))
      /\ \A h \in Handles : WorksOn(h, f)' <=> WorksOn(h, f)
      /\ ~Free(e)'
  BY AddsFree
<1>2. OneAtWork(f)'
  BY <1>1 DEF Copied, OneAtWork, Free
<1>3. \A b \in Numbers : points'[f][b] <= 1
  BY DEF Copied, Held
<1>4. \A n : UpTo(f, n) => UpTo(f, n)'
  BY HeldSame
<1>5. \A j \in Files \cup Ids : WaitsFor(j, f)' => UpTo(f, jobs[j].batch - 1)'
  <2>1. \A j \in Files \cup Ids : WaitsFor(j, f) /\ j # i => jobs'[j].batch = jobs[j].batch
    BY DEF Adds, Queues, KeepsJobs, WaitsFor
  <2>2. f = e => UpTo(f, 0)'
    BY NotStored DEF UpTo, Held
  <2>3. jobs'[i].batch - 1 = 0
    BY DEF Adds, Queues
  <2>4. ASSUME NEW j \in Files \cup Ids, WaitsFor(j, f)' PROVE UpTo(f, jobs[j].batch - 1)'
    <3>1. CASE f = e
      <4>1. j = i
        BY <1>1, <2>4, <3>1 DEF Free
      <4>2. QED
        BY <2>2, <2>3, <3>1, <4>1 DEF UpTo
    <3>2. CASE f # e
      <4>1. WaitsFor(j, f) /\ j # i
        BY <1>1, <2>4, <3>2 DEF WaitsFor, Adds, Queues
      <4>2. QED
        BY <1>4, <2>1, <4>1 DEF Copied, UpTo
    <3>3. QED
      BY <3>1, <3>2
  <2>5. QED
    BY <2>4
<1>6. \A h \in Handles : WorksOn(h, f)' => UpTo(f, Reached(run[h]))'
  <2>1. \A h \in Handles : WorksOn(h, f) => run'[h] = run[h]
    BY DEF Adds, KeepsRuns, WorksOn
  <2>2. QED
    BY <1>1, <1>4, <2>1 DEF Copied, UpTo, Reached
<1>7. Reads(f, "pending_decision")' /\ Stored(f)' => ~Free(f)'
  BY <1>1, HeldSame DEF Copied, Reads
<1>8. QED
  BY <1>2, <1>3, <1>5, <1>6, <1>7 DEF Copied

LEMMA TakesCopied ==
  ASSUME NEW h \in Handles, NEW i, Takes(h, i), NEW f, Copied(f), Held(f), row'[f] = row[f]
  PROVE  Copied(f)'
<1>1. /\ Free(f)' <=> Free(f)
      /\ \A j \in Files \cup Ids : WaitsFor(j, f)' <=> WaitsFor(j, f) /\ j # i
      /\ \A g \in Handles : WorksOn(g, f)' <=> WorksOn(g, f) \/ (g = h /\ WaitsFor(i, f))
  BY TakesFree
<1>2. OneAtWork(f)'
  BY <1>1 DEF Copied, OneAtWork, Takes
<1>3. \A b \in Numbers : points'[f][b] <= 1
  BY DEF Copied, Held
<1>4. \A n : UpTo(f, n) => UpTo(f, n)'
  BY HeldSame
<1>5. \A j \in Files \cup Ids : WaitsFor(j, f)' => UpTo(f, jobs[j].batch - 1)'
  <2>1. \A j \in Files \cup Ids : WaitsFor(j, f) /\ j # i => jobs'[j].batch = jobs[j].batch
    BY DEF Takes, KeepsJobs, WaitsFor
  <2>2. QED
    BY <1>1, <1>4, <2>1 DEF Copied, UpTo
<1>6. \A g \in Handles : WorksOn(g, f)' => UpTo(f, Reached(run[g]))'
  <2>1. \A g \in Handles : WorksOn(g, f) /\ g # h => run'[g] = run[g]
    BY DEF Takes, KeepsRuns, WorksOn
  <2>2. ~WorksOn(h, f) /\ i \in Files \cup Ids /\ run'[h].pc = "ready" /\ run'[h].batch = jobs[i].batch
    BY DEF Takes, WorksOn
  <2>3. Reached(run'[h]) = jobs[i].batch - 1
    BY <2>2 DEF Reached
  <2>4. WaitsFor(i, f) => UpTo(f, Reached(run'[h]))
    BY <2>2, <2>3 DEF Copied
  <2>5. \A g \in Handles : WorksOn(g, f)' => UpTo(f, Reached(run'[g]))
    BY <1>1, <2>1, <2>2, <2>4 DEF Copied
  <2>6. QED
    BY <1>4, <2>5 DEF UpTo, Reached
<1>7. Reads(f, "pending_decision")' /\ Stored(f)' => ~Free(f)'
  BY <1>1, HeldSame DEF Copied, Reads
<1>8. QED
  BY <1>2, <1>3, <1>5, <1>6, <1>7 DEF Copied

LEMMA GoesCopied ==
  ASSUME NEW h \in Handles, Goes(h), NEW f, Copied(f),
         f # run[h].file => Held(f),
         f = run[h].file => /\ \A b \in Numbers : points'[f][b] <= 1
                            /\ \A b \in Numbers : b > Reached(run'[h]) => points'[f][b] = 0,
         row'[f] = row[f]
  PROVE  Copied(f)'
<1>1. /\ Free(f)' <=> Free(f)
      /\ \A j \in Files \cup Ids : WaitsFor(j, f)' <=> WaitsFor(j, f)
      /\ \A g \in Handles : WorksOn(g, f)' <=> WorksOn(g, f)
  BY GoesFree
<1>2. OneAtWork(f)'
  BY <1>1 DEF Copied, OneAtWork
<1>3. \A b \in Numbers : points'[f][b] <= 1
  BY DEF Copied, Held
<1>4. f # run[h].file => \A n : UpTo(f, n) => UpTo(f, n)'
  BY HeldSame
<1>5. f = run[h].file => WorksOn(h, f)
  BY DEF Goes, WorksOn
<1>6. \A j \in Files \cup Ids : WaitsFor(j, f)' => UpTo(f, jobs[j].batch - 1)'
  <2>1. \A j \in Files \cup Ids : WaitsFor(j, f) => jobs'[j].batch = jobs[j].batch
    BY DEF Goes, KeepsJobs, WaitsFor
  <2>2. f # run[h].file \/ \A j \in Files \cup Ids : ~WaitsFor(j, f)
    BY <1>5 DEF Copied, OneAtWork
  <2>3. QED
    BY <1>1, <1>4, <2>1, <2>2 DEF Copied, UpTo
<1>7. \A g \in Handles : WorksOn(g, f)' => UpTo(f, Reached(run[g]))'
  <2>1. \A g \in Handles : WorksOn(g, f) /\ g # h => run'[g] = run[g]
    BY DEF Goes, KeepsRuns, WorksOn
  <2>2. f = run[h].file => \A g \in Handles : WorksOn(g, f) => g = h
    BY <1>5 DEF Copied, OneAtWork
  <2>3. f # run[h].file => ~WorksOn(h, f)
    BY DEF WorksOn
  <2>4. ASSUME NEW g \in Handles, WorksOn(g, f)' PROVE UpTo(f, Reached(run[g]))'
    <3>1. CASE f = run[h].file
      BY <1>1, <2>2, <2>4, <3>1 DEF UpTo, Reached
    <3>2. CASE f # run[h].file
      BY <1>1, <1>4, <2>1, <2>3, <2>4, <3>2 DEF Copied, UpTo, Reached
    <3>3. QED
      BY <3>1, <3>2
  <2>5. QED
    BY <2>4
<1>8. Reads(f, "pending_decision")' /\ Stored(f)' => ~Free(f)'
  <2>1. f = run[h].file => ~Free(f)
    BY <1>5 DEF Free
  <2>2. QED
    BY <1>1, <2>1, HeldSame DEF Copied, Reads
<1>9. QED
  BY <1>2, <1>3, <1>6, <1>7, <1>8 DEF Copied

LEMMA PassesCopied ==
  ASSUME NEW h \in Handles, NEW i, NEW b, NEW n, Passes(h, i, b, n),
         NEW f, Copied(f), Held(f), row'[f] = row[f] \/ ~Reads(f, "pending_decision")',
         b - 1 = Reached(run[h])
  PROVE  Copied(f)'
<1>1. /\ Free(f)' <=> Free(f)
      /\ \A j \in Files \cup Ids : WaitsFor(j, f)' <=> WaitsFor(j, f) \/ (j = i /\ WorksOn(h, f))
      /\ \A g \in Handles : WorksOn(g, f)' <=> WorksOn(g, f) /\ g # h
  BY PassesFree
<1>2. OneAtWork(f)'
  BY <1>1 DEF Copied, OneAtWork, Passes, Queues
<1>3. \A x \in Numbers : points'[f][x] <= 1
  BY DEF Copied, Held
<1>4. \A x : UpTo(f, x) => UpTo(f, x)'
  BY HeldSame
<1>5. \A j \in Files \cup Ids : WaitsFor(j, f)' => UpTo(f, jobs[j].batch - 1)'
  <2>1. \A j \in Files \cup Ids : WaitsFor(j, f) => j # i /\ jobs'[j].batch = jobs[j].batch
    BY DEF Passes, Queues, KeepsJobs, WaitsFor
  <2>2. jobs'[i].batch - 1 = Reached(run[h])
    BY DEF Passes, Queues
  <2>3. WorksOn(h, f) => UpTo(f, jobs'[i].batch - 1)
    BY <2>2 DEF Copied
  <2>4. \A j \in Files \cup Ids : WaitsFor(j, f)' => UpTo(f, jobs'[j].batch - 1)
    BY <1>1, <2>1, <2>3 DEF Copied
  <2>5. QED
    BY <1>4, <2>4 DEF UpTo
<1>6. \A g \in Handles : WorksOn(g, f)' => UpTo(f, Reached(run[g]))'
  <2>1. \A g \in Handles : WorksOn(g, f) /\ g # h => run'[g] = run[g]
    BY DEF Passes, KeepsRuns, WorksOn
  <2>2. QED
    BY <1>1, <1>4, <2>1 DEF Copied, UpTo, Reached
<1>7. Reads(f, "pending_decision")' /\ Stored(f)' => ~Free(f)'
  BY <1>1, HeldSame DEF Copied, Reads
<1>8. QED
  BY <1>2, <1>3, <1>5, <1>6, <1>7 DEF Copied

LEMMA LeavesCopied ==
  ASSUME NEW h \in Handles, Leaves(h), NEW f, Copied(f), Held(f),
         f # run[h].file => row'[f] = row[f],
         f = run[h].file => ~Reads(f, "pending_decision")' \/ ~Stored(f)
  PROVE  Copied(f)'
<1>1. /\ f # run[h].file => (Free(f)' <=> Free(f))
      /\ \A j \in Files \cup Ids : WaitsFor(j, f)' <=> WaitsFor(j, f)
      /\ \A g \in Handles : WorksOn(g, f)' <=> WorksOn(g, f) /\ g # h
  BY LeavesFree
<1>2. OneAtWork(f)'
  BY <1>1 DEF Copied, OneAtWork
<1>3. \A x \in Numbers : points'[f][x] <= 1
  BY DEF Copied, Held
<1>4. \A x : UpTo(f, x) => UpTo(f, x)'
  BY HeldSame
<1>5. \A j \in Files \cup Ids : WaitsFor(j, f)' => UpTo(f, jobs[j].batch - 1)'
  <2>1. \A j \in Files \cup Ids : WaitsFor(j, f) => jobs'[j].batch = jobs[j].batch
    BY DEF Leaves, KeepsJobs, WaitsFor
  <2>2. QED
    BY <1>1, <1>4, <2>1 DEF Copied, UpTo
<1>6. \A g \in Handles : WorksOn(g, f)' => UpTo(f, Reached(run[g]))'
  <2>1. \A g \in Handles : WorksOn(g, f) /\ g # h => run'[g] = run[g]
    BY DEF Leaves, KeepsRuns, WorksOn
  <2>2. QED
    BY <1>1, <1>4, <2>1 DEF Copied, UpTo, Reached
<1>7. Reads(f, "pending_decision")' /\ Stored(f)' => ~Free(f)'
  BY <1>1, HeldSame DEF Copied, Reads
<1>8. QED
  BY <1>2, <1>3, <1>5, <1>6, <1>7 DEF Copied

-----------------------------------------------------------------------------
(* What the steps of the queue and of an execution do to the work.         *)

LEMMA Holding ==
  ASSUME Running, Attached, NEW h \in Handles, run[h].pc # "idle"
  PROVE  /\ run[h].held /\ run[h].id \in Files \cup Ids
         /\ jobs[run[h].id] \in Job /\ jobs[run[h].id].state = "active" /\ Exists(h)
         /\ \A g \in Handles : run[g].held /\ run[g].id = run[h].id => g = h
<1>1. run[h].held /\ run[h].id \in Files \cup Ids /\ jobs[run[h].id].state = "active"
  BY DEF Attached, Running, Holds
<1>2. DOMAIN jobs = Files \cup Ids /\ jobs[run[h].id] \in Job
  BY <1>1 DEF Running
<1>3. QED
  BY <1>1, <1>2 DEF Running, OneHolder, Exists

LEMMA AttachedJobs ==
  ASSUME Attached, Running, run' = run,
         \A i \in Files \cup Ids :
           /\ jobs[i].state = "active" => jobs'[i] = jobs[i]
           /\ jobs'[i].state = "active" => jobs[i].state = "active"
  PROVE  Attached'
  BY DEF Attached, Running, Holds

LEMMA AttachedGoes ==
  ASSUME Attached, Running, NEW h \in Handles, NEW q, Becomes(h, q), run[h].pc # "idle",
         q.held, q.id = run[h].id, q.file = run[h].file, q.batch = run[h].batch,
         q.sofar = run[h].sofar,
         \A i \in Files \cup Ids :
           /\ jobs[i].state = "active" => /\ jobs'[i].file = jobs[i].file
                                          /\ jobs'[i].batch = jobs[i].batch
                                          /\ jobs'[i].sofar = jobs[i].sofar
           /\ jobs'[i].state = "active" => jobs[i].state = "active"
  PROVE  Attached'
<1>1. \A g \in Handles : run'[g] = IF g = h THEN q ELSE run[g]
  BY DEF Running, Becomes
<1>2. \A g \in Handles : run[g].pc # "idle" =>
        run[g].held /\ run[g].id \in Files \cup Ids /\ jobs[run[g].id].state = "active"
  BY DEF Attached, Running, Holds
<1>3. \A g \in Handles : run'[g].pc # "idle" =>
       /\ run'[g].held
       /\ jobs'[run'[g].id].file = run'[g].file
       /\ jobs'[run'[g].id].batch = run'[g].batch
       /\ jobs'[run'[g].id].sofar = run'[g].sofar
  BY <1>1, <1>2 DEF Attached
<1>4. ASSUME NEW i \in Files \cup Ids, jobs'[i].state = "active"
      PROVE  \E g \in Handles : run'[g].held /\ run'[g].id = i
  <2>1. PICK g \in Handles : run[g].held /\ run[g].id = i
    BY <1>4 DEF Attached
  <2>2. run'[g].held /\ run'[g].id = i
    BY <1>1, <2>1
  <2>3. QED
    BY <2>2
<1>5. QED
  BY <1>3, <1>4 DEF Attached

LEMMA AttachedLetsGo ==
  ASSUME Attached, Running, NEW h \in Handles, Becomes(h, Idle), run[h].pc # "idle",
         \A i \in Files \cup Ids : i # run[h].id => jobs'[i] = jobs[i],
         jobs'[run[h].id].state # "active"
  PROVE  Attached'
<1>1. \A g \in Handles : run'[g] = IF g = h THEN Idle ELSE run[g]
  BY DEF Running, Becomes
<1>2. \A g \in Handles : run[g].pc # "idle" =>
        run[g].held /\ run[g].id \in Files \cup Ids /\ jobs[run[g].id].state = "active"
  BY DEF Attached, Running, Holds
<1>3. \A g \in Handles : run[g].held /\ run[g].id = run[h].id => g = h
  BY Holding
<1>4. Idle.pc = "idle"
  BY DEF Idle
<1>5. \A g \in Handles : run'[g].pc # "idle" =>
       /\ run'[g].held
       /\ jobs'[run'[g].id].file = run'[g].file
       /\ jobs'[run'[g].id].batch = run'[g].batch
       /\ jobs'[run'[g].id].sofar = run'[g].sofar
  BY <1>1, <1>2, <1>3, <1>4 DEF Attached
<1>6. ASSUME NEW i \in Files \cup Ids, jobs'[i].state = "active"
      PROVE  \E g \in Handles : run'[g].held /\ run'[g].id = i
  <2>1. i # run[h].id /\ jobs[i].state = "active"
    BY <1>6
  <2>2. PICK g \in Handles : run[g].held /\ run[g].id = i
    BY <2>1 DEF Attached
  <2>3. run'[g].held /\ run'[g].id = i
    BY <1>1, <2>1, <2>2
  <2>4. QED
    BY <2>3
<1>7. QED
  BY <1>5, <1>6 DEF Attached

LEMMA PromoteEffect ==
  ASSUME Running, Attached, NEW i \in Files \cup Ids, Promote(i)
  PROVE  Rests /\ Attached' /\ StaysFailed
<1>1. /\ jobs[i].state = "delayed" /\ jobs[i] \in Job /\ run' = run
      /\ \A k \in Files \cup Ids :
           jobs'[k] = IF k = i THEN [jobs[i] EXCEPT !.state = "waiting"] ELSE jobs[k]
  BY DEF Promote, Running
<1>2. /\ jobs'[i].file = jobs[i].file /\ jobs'[i].batch = jobs[i].batch
      /\ jobs'[i].sofar = jobs[i].sofar /\ jobs'[i].state = "waiting"
  BY <1>1 DEF Job
<1>3. KeepsJobs({}) /\ KeepsRuns({})
  BY <1>1, <1>2 DEF KeepsJobs, KeepsRuns, Waiting, Working
<1>4. StaysFailed
  BY <1>1 DEF StaysFailed
<1>5. Attached'
  BY <1>1, <1>2, AttachedJobs
<1>6. QED
  BY <1>3, <1>4, <1>5 DEF Rests

LEMMA NobodyStalls ==
  ASSUME Running, Attached, NEW i \in Files \cup Ids, Stalled(i)
  PROVE  FALSE
  BY DEF Attached, Stalled

LEMMA StartEffect ==
  ASSUME Running, Attached, NEW i \in Files \cup Ids, NEW h \in Handles, Start(h, i)
  PROVE  Takes(h, i) /\ Attached' /\ StaysFailed
<1>1. /\ jobs[i].state = "waiting" /\ jobs[i] \in Job /\ run[h] = Idle
      /\ \A k \in Files \cup Ids :
           jobs'[k] = IF k = i THEN [jobs[i] EXCEPT !.state = "active"] ELSE jobs[k]
  BY DEF Start, Running
<1>2. /\ jobs'[i].file = jobs[i].file /\ jobs'[i].batch = jobs[i].batch
      /\ jobs'[i].sofar = jobs[i].sofar /\ jobs'[i].state = "active"
  BY <1>1 DEF Job
<1>3. PICK q : q = [Idle EXCEPT !.pc = "ready", !.id = i, !.held = TRUE, !.file = jobs[i].file,
                                !.batch = jobs[i].batch, !.sofar = jobs[i].sofar]
  OBVIOUS
<1>4. /\ q.pc = "ready" /\ q.id = i /\ q.held /\ q.file = jobs[i].file
      /\ q.batch = jobs[i].batch /\ q.sofar = jobs[i].sofar /\ ~q.bad
  BY <1>3 DEF Idle
<1>5. \A g \in Handles : run'[g] = IF g = h THEN q ELSE run[g]
  BY <1>3 DEF Start, Running
<1>6. Idle.pc = "idle" /\ ~Idle.held
  BY DEF Idle
<1>7. KeepsJobs({i}) /\ Waiting(i) /\ ~Waiting(i)'
  BY <1>1, <1>2 DEF KeepsJobs, Waiting
<1>8. KeepsRuns({h}) /\ ~Working(h) /\ Working(h)'
  BY <1>1, <1>4, <1>5, <1>6 DEF KeepsRuns, Working
<1>9. Takes(h, i)
  BY <1>4, <1>5, <1>7, <1>8 DEF Takes
<1>10. StaysFailed
  BY <1>1 DEF StaysFailed
<1>11. \A g \in Handles : run[g].pc # "idle" =>
         run[g].held /\ run[g].id \in Files \cup Ids /\ jobs[run[g].id].state = "active"
  BY DEF Attached, Running, Holds
<1>12. \A g \in Handles : run'[g].pc # "idle" =>
        /\ run'[g].held
        /\ jobs'[run'[g].id].file = run'[g].file
        /\ jobs'[run'[g].id].batch = run'[g].batch
        /\ jobs'[run'[g].id].sofar = run'[g].sofar
  BY <1>1, <1>2, <1>4, <1>5, <1>11 DEF Attached
<1>13. ASSUME NEW k \in Files \cup Ids, jobs'[k].state = "active"
       PROVE  \E g \in Handles : run'[g].held /\ run'[g].id = k
  <2>1. CASE k = i
    BY <1>4, <1>5, <2>1
  <2>2. CASE k # i
    <3>1. PICK g \in Handles : run[g].held /\ run[g].id = k
      BY <1>1, <1>13, <2>2 DEF Attached
    <3>2. run'[g].held /\ run'[g].id = k
      BY <1>1, <1>5, <1>6, <3>1
    <3>3. QED
      BY <3>2
  <2>3. QED
    BY <2>1, <2>2
<1>14. Attached'
  BY <1>12, <1>13 DEF Attached
<1>15. QED
  BY <1>9, <1>10, <1>14

(* An execution goes on with the same batch.                               *)
LEMMA HandleGoes ==
  ASSUME Running, Attached, NEW h \in Handles, NEW q \in Handle, Becomes(h, q), Working(h),
         q.pc \notin {"idle", "end"}, q.held = run[h].held, q.id = run[h].id,
         q.file = run[h].file, q.batch = run[h].batch, q.sofar = run[h].sofar,
         jobs' = jobs \/ jobs' = [jobs EXCEPT ![run[h].id].err = FALSE]
  PROVE  Goes(h) /\ Attached' /\ StaysFailed /\ run'[h] = q
<1>1. run[h].held /\ run[h].id \in Files \cup Ids /\ jobs[run[h].id].state = "active"
  BY Holding DEF Working
<1>2. \A k \in Files \cup Ids :
        /\ jobs'[k].file = jobs[k].file /\ jobs'[k].batch = jobs[k].batch
        /\ jobs'[k].sofar = jobs[k].sofar /\ jobs'[k].state = jobs[k].state
        /\ jobs'[k].made = jobs[k].made
  <2>1. \A k \in Files \cup Ids : jobs[k] \in Job
    BY DEF Running
  <2>2. QED
    BY <2>1 DEF Running, Job
<1>3. \A g \in Handles : run'[g] = IF g = h THEN q ELSE run[g]
  BY DEF Running, Becomes
<1>4. KeepsJobs({}) /\ KeepsRuns({h})
  BY <1>2, <1>3 DEF KeepsJobs, KeepsRuns, Waiting, Working
<1>5. Goes(h)
  BY <1>3, <1>4 DEF Goes, Working
<1>6. Attached'
  BY <1>1, <1>2, AttachedGoes DEF Working
<1>7. StaysFailed
  BY <1>2 DEF StaysFailed
<1>8. QED
  BY <1>3, <1>5, <1>6, <1>7

LEMMA ReadyEffect ==
  ASSUME Running, Attached, NEW h \in Handles, Ready(h)
  PROVE  /\ Goes(h) /\ Attached' /\ StaysFailed
         /\ run'[h].pc \in {"store", "error"} /\ Reached(run'[h]) = Reached(run[h])
         /\ run[h].pc = "ready"
         /\ run'[h].pc = "store" => run[h].file \in disk \cup Docs
         /\ troubles' = 0 /\ troubles \in Nat =>
              /\ run'[h].bad = run[h].bad
              /\ run'[h].pc = "error" => run[h].file \notin disk
<1>1. run[h] \in Handle /\ run[h].pc = "ready"
  BY DEF Ready, Running
<1>2. Exists(h) /\ Working(h)
  BY <1>1, Holding DEF Working
<1>3. CASE /\ Go(h, IF ~Exists(h) THEN "end"
                 ELSE IF run[h].file \in disk \cup Docs THEN "store" ELSE "error")
           /\ jobs' = [jobs EXCEPT ![run[h].id].err = FALSE]
  <2>1. PICK q : q = [run[h] EXCEPT !.pc = IF run[h].file \in disk \cup Docs THEN "store" ELSE "error"]
    OBVIOUS
  <2>2. /\ q \in Handle /\ q.held = run[h].held /\ q.id = run[h].id /\ q.file = run[h].file
        /\ q.batch = run[h].batch /\ q.sofar = run[h].sofar /\ q.bad = run[h].bad
        /\ q.pc = IF run[h].file \in disk \cup Docs THEN "store" ELSE "error"
    BY <1>1, <2>1 DEF Handle
  <2>3. Becomes(h, q)
    BY <1>2, <1>3, <2>1 DEF Go
  <2>4. Goes(h) /\ Attached' /\ StaysFailed /\ run'[h] = q
    BY <1>2, <1>3, <2>2, <2>3, HandleGoes
  <2>5. QED
    BY <1>1, <2>2, <2>4 DEF Reached
<1>4. CASE /\ Trouble
           /\ \E bad \in BOOLEAN : Becomes(h, [run[h] EXCEPT !.pc = "error", !.bad = bad])
           /\ jobs' = jobs
  <2>1. PICK bad \in BOOLEAN : Becomes(h, [run[h] EXCEPT !.pc = "error", !.bad = bad])
    BY <1>4
  <2>2. PICK q : q = [run[h] EXCEPT !.pc = "error", !.bad = bad]
    OBVIOUS
  <2>3. /\ q \in Handle /\ q.held = run[h].held /\ q.id = run[h].id /\ q.file = run[h].file
        /\ q.batch = run[h].batch /\ q.sofar = run[h].sofar /\ q.pc = "error"
    BY <1>1, <2>2 DEF Handle
  <2>4. Goes(h) /\ Attached' /\ StaysFailed /\ run'[h] = q
    BY <1>2, <1>4, <2>1, <2>2, <2>3, HandleGoes
  <2>5. troubles \in Nat => troubles' # 0
    BY <1>4 DEF Trouble
  <2>6. QED
    BY <1>1, <2>3, <2>4, <2>5 DEF Reached
<1>5. QED
  BY <1>3, <1>4 DEF Ready

LEMMA StoreEffect ==
  ASSUME Running, Attached, NEW h \in Handles, Store(h)
  PROVE  /\ Goes(h) /\ Attached' /\ StaysFailed
         /\ run[h].pc = "store" /\ run'[h].bad = run[h].bad
         /\ \/ /\ points' = [points EXCEPT ![run[h].file][run[h].batch] = IF @ = Many THEN @ ELSE @ + 1]
               /\ run'[h].pc = After(h) /\ run'[h].got = 1
            \/ /\ Trouble /\ points' = points
               /\ run'[h].pc \in {After(h), "error"}
<1>1. run[h] \in Handle /\ run[h].pc = "store" /\ jobs' = jobs
  BY DEF Store, Running
<1>2. Working(h) /\ After(h) \in {"check", "finish"}
  BY <1>1 DEF Working, After
<1>3. ASSUME NEW q \in Handle, Becomes(h, q), q.pc \in {After(h), "error"}, q.held = run[h].held,
             q.id = run[h].id, q.file = run[h].file, q.batch = run[h].batch, q.sofar = run[h].sofar
      PROVE  Goes(h) /\ Attached' /\ StaysFailed /\ run'[h] = q
  BY <1>1, <1>2, <1>3, HandleGoes
<1>4. CASE /\ points' = [points EXCEPT ![run[h].file][run[h].batch] = IF @ = Many THEN @ ELSE @ + 1]
           /\ Becomes(h, [run[h] EXCEPT !.pc = After(h), !.got = 1])
  <2>0. PICK pc : pc = After(h)
    OBVIOUS
  <2>1. PICK q : q = [run[h] EXCEPT !.pc = pc, !.got = 1]
    OBVIOUS
  <2>2. /\ q \in Handle /\ q.held = run[h].held /\ q.id = run[h].id /\ q.file = run[h].file
        /\ q.batch = run[h].batch /\ q.sofar = run[h].sofar /\ q.bad = run[h].bad
        /\ q.pc = After(h) /\ q.got = 1
    <3>1. pc \in {"check", "finish"} /\ 1 \in 0..1
      BY <1>2, <2>0
    <3>2. [run[h] EXCEPT !.pc = pc] \in Handle
      BY <1>1, <3>1 DEF Handle
    <3>3. q = [[run[h] EXCEPT !.pc = pc] EXCEPT !.got = 1]
      BY <1>1, <2>1 DEF Handle
    <3>4. QED
      BY <1>1, <2>0, <3>1, <3>2, <3>3 DEF Handle
  <2>3. Becomes(h, q)
    BY <1>4, <2>0, <2>1
  <2>4. QED
    BY <1>1, <1>3, <1>4, <2>2, <2>3
<1>5. CASE Trouble /\ Go(h, IF run[h].file \in Zims THEN After(h) ELSE "error") /\ points' = points
  <2>1. PICK pc : pc = IF run[h].file \in Zims THEN After(h) ELSE "error"
    OBVIOUS
  <2>2. PICK q : q = [run[h] EXCEPT !.pc = pc]
    OBVIOUS
  <2>3. /\ q \in Handle /\ q.held = run[h].held /\ q.id = run[h].id /\ q.file = run[h].file
        /\ q.batch = run[h].batch /\ q.sofar = run[h].sofar /\ q.bad = run[h].bad
        /\ q.pc = pc /\ pc \in {After(h), "error"}
    BY <1>1, <1>2, <2>1, <2>2 DEF Handle
  <2>4. Becomes(h, q)
    BY <1>5, <2>1, <2>2 DEF Go
  <2>5. QED
    BY <1>1, <1>3, <1>5, <2>3, <2>4
<1>6. QED
  BY <1>4, <1>5 DEF Store

LEMMA CheckEffect ==
  ASSUME Running, Attached, NEW h \in Handles, Check(h)
  PROVE  /\ Goes(h) /\ Attached' /\ StaysFailed
         /\ run[h].pc = "check" /\ run'[h].pc = "dispatch"
         /\ run'[h].bad = run[h].bad /\ run'[h].got = run[h].got
<1>1. run[h] \in Handle /\ run[h].pc = "check" /\ jobs' = jobs
  BY DEF Check, Running
<1>2. Exists(h) /\ Working(h)
  BY <1>1, Holding DEF Working
<1>3. PICK q : q = [run[h] EXCEPT !.pc = "dispatch"]
  OBVIOUS
<1>4. /\ q \in Handle /\ q.held = run[h].held /\ q.id = run[h].id /\ q.file = run[h].file
      /\ q.batch = run[h].batch /\ q.sofar = run[h].sofar /\ q.bad = run[h].bad
      /\ q.pc = "dispatch" /\ q.got = run[h].got
  BY <1>1, <1>3 DEF Handle
<1>5. Becomes(h, q)
  BY <1>2, <1>3 DEF Check, Go
<1>6. QED
  BY <1>1, <1>2, <1>4, <1>5, HandleGoes

LEMMA NewJobFields ==
  ASSUME NEW f, NEW b, NEW n
  PROVE  /\ NewJob(f, b, n).file = f /\ NewJob(f, b, n).batch = b
         /\ NewJob(f, b, n).sofar = n /\ NewJob(f, b, n).state = "waiting"
  BY DEF NewJob, NoJob

LEMMA ContinueEffect ==
  ASSUME Running, Attached, NEW h \in Handles, Continue(h)
  PROVE  /\ Passes(h, NewId, run[h].batch + 1, run[h].sofar + run[h].got)
         /\ Attached' /\ StaysFailed /\ run[h].pc = "dispatch"
<1>1. /\ run[h] \in Handle /\ run[h].pc = "dispatch" /\ Unused # {}
      /\ NewId \in Files \cup Ids /\ jobs[NewId].state = "none"
  BY NewIdType DEF Continue, Running
<1>2. PICK i, j : /\ i = NewId
                  /\ j = NewJob(run[h].file, run[h].batch + 1, run[h].sofar + run[h].got)
  OBVIOUS
<1>3. \A k \in Files \cup Ids : jobs'[k] = IF k = i THEN j ELSE jobs[k]
  BY <1>1, <1>2 DEF Continue, AddedAs, Running
<1>4. /\ j.file = run[h].file /\ j.batch = run[h].batch + 1
      /\ j.sofar = run[h].sofar + run[h].got /\ j.state = "waiting"
  BY <1>2, NewJobFields
<1>5. PICK q : q = [run[h] EXCEPT !.pc = "end"]
  OBVIOUS
<1>6. /\ q \in Handle /\ q.held = run[h].held /\ q.id = run[h].id /\ q.file = run[h].file
      /\ q.batch = run[h].batch /\ q.sofar = run[h].sofar /\ q.pc = "end"
  BY <1>1, <1>5 DEF Handle
<1>7. Becomes(h, q)
  BY <1>5 DEF Continue, Go
<1>8. \A g \in Handles : run'[g] = IF g = h THEN q ELSE run[g]
  BY <1>7 DEF Becomes, Running
<1>9. Queues(i, run[h].file, run[h].batch + 1, run[h].sofar + run[h].got)
  BY <1>1, <1>2, <1>3, <1>4 DEF Queues, KeepsJobs, Waiting
<1>10. KeepsRuns({h}) /\ Working(h) /\ ~Working(h)'
  BY <1>1, <1>6, <1>8 DEF KeepsRuns, Working
<1>11. run[h].held
  BY <1>1 DEF Attached
<1>12. Attached'
  BY <1>1, <1>2, <1>3, <1>4, <1>6, <1>7, <1>11, AttachedGoes
<1>13. StaysFailed
  BY <1>1, <1>2, <1>3 DEF StaysFailed
<1>14. QED
  BY <1>1, <1>2, <1>9, <1>10, <1>12, <1>13 DEF Passes

LEMMA FinishEffect ==
  ASSUME Running, Attached, NEW h \in Handles, Finish(h)
  PROVE  /\ Leaves(h) /\ Attached' /\ StaysFailed
         /\ run[h].pc = "finish" /\ run'[h].pc = "end"
         /\ \/ row' = [row EXCEPT ![run[h].file] = Indexed(run[h].sofar + run[h].got)]
               /\ UNCHANGED bounds
            \/ row' = row /\ Trouble
<1>1. run[h] \in Handle /\ run[h].pc = "finish" /\ jobs' = jobs
  BY DEF Finish, Running
<1>2. Exists(h) /\ run[h].held
  BY <1>1, Holding
<1>3. PICK q : q = [run[h] EXCEPT !.pc = "end"]
  OBVIOUS
<1>4. /\ q \in Handle /\ q.held = run[h].held /\ q.id = run[h].id /\ q.file = run[h].file
      /\ q.batch = run[h].batch /\ q.sofar = run[h].sofar /\ q.pc = "end"
  BY <1>1, <1>3 DEF Handle
<1>5. Becomes(h, q)
  BY <1>3 DEF Finish, Go
<1>6. \A g \in Handles : run'[g] = IF g = h THEN q ELSE run[g]
  BY <1>5 DEF Becomes, Running
<1>7. KeepsJobs({}) /\ KeepsRuns({h}) /\ Working(h) /\ ~Working(h)'
  BY <1>1, <1>4, <1>6 DEF KeepsJobs, KeepsRuns, Waiting, Working
<1>8. Attached'
  BY <1>1, <1>2, <1>4, <1>5, AttachedGoes
<1>9. StaysFailed
  BY <1>1 DEF StaysFailed
<1>10. run'[h].pc = "end"
  BY <1>4, <1>6
<1>11. QED
  BY <1>1, <1>2, <1>7, <1>8, <1>9, <1>10 DEF Finish, Leaves

LEMMA EndEffect ==
  ASSUME Running, Attached, NEW h \in Handles, End(h)
  PROVE  Rests /\ Attached' /\ StaysFailed
<1>1. run[h].pc = "end" /\ Becomes(h, Idle)
  BY DEF End
<1>2. PICK i : i = run[h].id
  OBVIOUS
<1>3. i \in Files \cup Ids /\ run[h].held /\ jobs[i].state = "active" /\ jobs[i] \in Job
  BY <1>1, <1>2, Holding
<1>4. /\ \A k \in Files \cup Ids : k # i => jobs'[k] = jobs[k]
      /\ jobs'[i].state \in {"none", "completed"}
  BY <1>2, <1>3 DEF End, Running, NoJob, Job
<1>5. \A g \in Handles : run'[g] = IF g = h THEN Idle ELSE run[g]
  BY <1>1 DEF Becomes, Running
<1>6. Idle.pc = "idle"
  BY DEF Idle
<1>7. KeepsJobs({}) /\ KeepsRuns({})
  BY <1>1, <1>3, <1>4, <1>5, <1>6 DEF KeepsJobs, KeepsRuns, Waiting, Working
<1>8. Attached'
  BY <1>1, <1>2, <1>4, AttachedLetsGo
<1>9. StaysFailed
  BY <1>3, <1>4 DEF StaysFailed
<1>10. QED
  BY <1>7, <1>8, <1>9 DEF Rests

LEMMA ErrorEffect ==
  ASSUME Running, Attached, NEW h \in Handles, Error(h)
  PROVE  /\ Attached' /\ StaysFailed /\ run[h].pc = "error" /\ row' = MarkedFailed(h)
         /\ \/ Passes(h, run[h].id, run[h].batch, run[h].sofar) /\ ~run[h].bad
            \/ Leaves(h) /\ (run[h].bad \/ \A f : f = run[h].file => GaveUp(f)')
<1>1. run[h].pc = "error" /\ Becomes(h, Idle) /\ row' = MarkedFailed(h)
  BY DEF Error, Fail
<1>2. PICK i, m : i = run[h].id /\ m = jobs[i].made + 1
  OBVIOUS
<1>3. /\ i \in Files \cup Ids /\ run[h].held /\ jobs[i].state = "active" /\ jobs[i] \in Job
      /\ jobs[i].file = run[h].file /\ jobs[i].batch = run[h].batch /\ jobs[i].sofar = run[h].sofar
  BY <1>1, <1>2, Holding DEF Attached
<1>4. PICK pc : pc = IF run[h].bad \/ m >= Attempts THEN "failed" ELSE "delayed"
  OBVIOUS
<1>5. jobs' = [jobs EXCEPT ![i].err = TRUE, ![i].made = m, ![i].state = pc]
  BY <1>2, <1>3, <1>4 DEF Error, Fail
<1>6. /\ \A k \in Files \cup Ids : k # i => jobs'[k] = jobs[k]
      /\ jobs'[i].state = pc /\ jobs'[i].made = m /\ jobs'[i].file = run[h].file
      /\ jobs'[i].batch = run[h].batch /\ jobs'[i].sofar = run[h].sofar
  BY <1>3, <1>5 DEF Running, Job
<1>7. \A g \in Handles : run'[g] = IF g = h THEN Idle ELSE run[g]
  BY <1>1 DEF Becomes, Running
<1>8. Idle.pc = "idle"
  BY DEF Idle
<1>9. KeepsRuns({h}) /\ Working(h) /\ ~Working(h)'
  BY <1>1, <1>7, <1>8 DEF KeepsRuns, Working
<1>10. Attached'
  BY <1>1, <1>2, <1>4, <1>6, AttachedLetsGo
<1>11. StaysFailed
  BY <1>3, <1>6 DEF StaysFailed
<1>12. CASE run[h].bad \/ m >= Attempts
  <2>1. KeepsJobs({})
    BY <1>3, <1>4, <1>6, <1>12 DEF KeepsJobs, Waiting
  <2>2. m >= Attempts => \A f : f = run[h].file => GaveUp(f)'
    <3>1. ASSUME m >= Attempts, NEW f, f = run[h].file PROVE GaveUp(f)'
      <4>1. /\ i \in Files \cup Ids /\ jobs'[i].file = f
            /\ jobs'[i].state = "failed" /\ jobs'[i].made >= Attempts
        BY <1>3, <1>4, <1>6, <3>1
      <4>2. QED
        BY <4>1 DEF GaveUp
    <3>2. QED
      BY <3>1
  <2>3. QED
    BY <1>1, <1>9, <1>10, <1>11, <1>12, <2>1, <2>2 DEF Leaves
<1>13. CASE ~(run[h].bad \/ m >= Attempts)
  <2>1. Queues(i, run[h].file, run[h].batch, run[h].sofar)
    BY <1>3, <1>4, <1>6, <1>13 DEF Queues, KeepsJobs, Waiting
  <2>2. QED
    BY <1>1, <1>2, <1>9, <1>10, <1>11, <1>13, <2>1 DEF Passes
<1>14. QED
  BY <1>12, <1>13

-----------------------------------------------------------------------------
(* The queue and the executions keep what is said of the copies.           *)

LEMMA ContentFiles == Content \subseteq Files
  BY DEF Content, Files

LEMMA PlannedStays ==
  ASSUME NEW r, Asked(r), Planned(r), \A f \in Files : Free(f) => Free(f)' /\ Held(f),
         \A f \in Content : Excused(f) => Excused(f)'
  PROVE  Planned(r)'
<1>1. \A f \in Files : Free(f) /\ ~Stored(f) => ~Stored(f)'
  BY HeldSame
<1>2. \A f \in Content : Free(f) /\ Clear(f) => Clear(f)'
  BY <1>1, ContentFiles DEF Clear
<1>3. \A f \in Content : f \in Files
  BY ContentFiles
<1>4. r.pc \in {"drop", "unlink", "forget"} => r.f \in Files
  BY DEF Asked
<1>5. /\ r.pc \notin {"obliterate", "remove"} /\ r.todo \subseteq Content
      /\ r.pc = "wipe" => r.op = "rebuild"
      /\ r.op \in {"rebuild", "reembed"} \/ r.pc = "purge" \/ (r.pc = "dispatch" /\ r.f # None)
           => r.force
      /\ r.pc = "purge" \/ (r.pc = "dispatch" /\ r.f # None)
           => r.op = "reembed" \/ \A x, y \in r.todo : x = y
      /\ r.pc \in Early => r.op \in {"scan", "reembed", "rebuild"} /\ r.f = None
  BY DEF Planned
<1>6. /\ r.pc \in Early => \A f \in Content : Free(f)'
      /\ r.pc \in {"purge", "dispatch", "drop", "unlink", "forget"} => \A f \in r.todo : Free(f)'
      /\ r.pc \in {"drop", "unlink", "forget"} => Free(r.f)' /\ \A f \in r.todo : ~Stored(f)'
      /\ r.pc \in {"unlink", "forget"} => ~Stored(r.f)'
  BY <1>1, <1>3, <1>4 DEF Planned
<1>7. /\ r.pc = "docs" /\ r.op = "rebuild" => \A f \in Content : ~Stored(f)'
      /\ r.pc = "rows" => \A f \in r.todo \ r.has : ~Stored(f)'
      /\ r.pc = "create" => r.new \subseteq Content /\ \A f \in r.new \ r.has : ~Stored(f)'
      /\ r.pc = "create" => \A f \in r.todo : Clear(f)'
  BY <1>1, <1>2, <1>3 DEF Planned, Early
<1>8. r.pc = "dispatch" => \A f \in r.todo : r.f \in {None, f} => Clear(f)'
  BY <1>2, <1>3 DEF Planned
<1>9. QED
  BY <1>5, <1>6, <1>7, <1>8 DEF Planned

LEMMA PresentStays ==
  ASSUME NEW f, Present(f), disk' = disk, Free(f) => Free(f)', Held(f) \/ f \in disk,
         \A g \in Handles : WorksOn(g, f)' =>
           \/ WorksOn(g, f) /\ run'[g] = run[g]
           \/ /\ ~run'[g].bad
              /\ run'[g].pc = "error" => f \notin disk
              /\ run'[g].pc \notin {"ready", "error"} => f \in disk
  PROVE  Present(f)'
<1>1. \A g \in Handles : WorksOn(g, f)' =>
        /\ ~run'[g].bad
        /\ run'[g].pc = "error" => f \notin disk
        /\ run'[g].pc \notin {"ready", "error"} => f \in disk
  BY DEF Present
<1>2. f \notin disk /\ ~Free(f)' => ~Stored(f)'
  BY HeldSame DEF Present
<1>3. QED
  BY <1>1, <1>2 DEF Present

(* A step of theirs, from what it does to each file.                       *)
LEMMA WorkerStep ==
  ASSUME IInv, Steady, Attached', StaysFailed, req' = req, troubles' = troubles \/ Trouble,
         \A f \in Files : Free(f) => Free(f)' /\ Held(f),
         \A f \in Content : Copied(f) => Copied(f)' \/ Excused(f)',
         \A f \in Content : troubles = 0 /\ troubles' = 0 => Present(f)'
  PROVE  Steady'
<1>1. troubles \in Nat /\ troubles' \in Nat
  BY DEF IInv, Resting, Trouble
<1>2. \A f \in Content : Excused(f) => Excused(f)'
  BY <1>1, StaysExcused
<1>3. Copies'
  BY <1>2 DEF Steady, Copies
<1>4. Presence'
  BY <1>1 DEF Steady, Presence, Trouble
<1>5. \A t \in Tabs : Asked(req[t]) /\ Planned(req[t])
  BY DEF IInv, Resting, Steady
<1>6. \A r : Asked(r) /\ Planned(r) => Planned(r)'
  BY <1>2, PlannedStays
<1>7. \A t \in Tabs : Planned(req[t])'
  BY <1>5, <1>6 DEF Planned
<1>8. OneTab'
  BY DEF Steady, OneTab
<1>9. QED
  BY <1>3, <1>4, <1>7, <1>8 DEF Steady

LEMMA RestsSteady ==
  ASSUME IInv, Steady, Rests, Attached', StaysFailed,
         UNCHANGED <<disk, points, row, req, troubles>>
  PROVE  Steady'
<1>1. \A f : Held(f)
  BY DEF Held
<1>2. \A f : Free(f) => Free(f)'
  BY RestsFree
<1>3. ASSUME NEW f \in Content, Copied(f) PROVE Copied(f)'
  <2>1. NoNewDecision(f)
    BY <1>1, HeldSame DEF NoNewDecision, Reads
  <2>2. QED
    BY <1>1, <1>3, <2>1, RestsHere, RestsCopied
<1>4. ASSUME NEW f \in Content, troubles = 0 PROVE Present(f)'
  <2>1. \A g \in Handles : WorksOn(g, f)' => WorksOn(g, f) /\ run'[g] = run[g]
    BY RestsFree DEF Rests, KeepsRuns, WorksOn
  <2>2. Present(f)
    BY <1>4 DEF Steady, Presence
  <2>3. QED
    BY <1>1, <1>2, <2>1, <2>2, PresentStays
<1>5. QED
  BY <1>1, <1>2, <1>3, <1>4, WorkerStep

LEMMA QueueSteady ==
  ASSUME IInv, Steady, QueueStep, ~Broken
  PROVE  Steady'
<1>0. Running /\ Attached /\ DOMAIN jobs = Files \cup Ids
  BY DEF IInv, Running, Steady
<1>1. PICK i \in Files \cup Ids :
        Promote(i) \/ Stalled(i) \/ Forgotten(i) \/ \E h \in Handles : Start(h, i)
  BY <1>0 DEF QueueStep
<1>2. CASE Promote(i)
  <2>1. Rests /\ Attached' /\ StaysFailed
    BY <1>0, <1>2, PromoteEffect
  <2>2. UNCHANGED <<disk, points, row, req, troubles>>
    BY <1>2 DEF Promote, bounds
  <2>3. QED
    BY <2>1, <2>2, RestsSteady
<1>3. CASE Stalled(i)
  BY <1>0, <1>3, NobodyStalls
<1>4. CASE Forgotten(i)
  <2>1. jobs[i].state # NoJob.state /\ jobs' = [jobs EXCEPT ![i] = NoJob]
    BY <1>4, NoJobType DEF Forgotten
  <2>2. jobs' # jobs
    BY <1>0, <2>1
  <2>3. troubles' # troubles
    BY <1>4 DEF Forgotten, Trouble, IInv, Resting
  <2>4. QED
    BY <2>2, <2>3 DEF Broken
<1>5. ASSUME NEW h \in Handles, Start(h, i) PROVE Steady'
  <2>1. Takes(h, i) /\ Attached' /\ StaysFailed
    BY <1>0, <1>5, StartEffect
  <2>2. UNCHANGED <<disk, points, row, req, troubles>>
    BY <1>5 DEF Start, bounds
  <2>3. \A f : Held(f) /\ (Free(f) => Free(f)')
    BY <2>1, <2>2, TakesFree DEF Held
  <2>4. \A f \in Content : Copied(f) => Copied(f)'
    BY <2>1, <2>2, <2>3, TakesCopied
  <2>5. ASSUME NEW f \in Content, troubles = 0 PROVE Present(f)'
    <3>1. \A g \in Handles : WorksOn(g, f)' =>
            \/ WorksOn(g, f) /\ run'[g] = run[g]
            \/ run'[g].pc = "ready" /\ ~run'[g].bad
      BY <2>1, TakesFree DEF Takes, KeepsRuns, WorksOn
    <3>2. Present(f)
      BY <2>5 DEF Steady, Presence
    <3>3. QED
      BY <2>2, <2>3, <3>1, <3>2, PresentStays
  <2>6. QED
    BY <2>1, <2>2, <2>3, <2>4, <2>5, WorkerStep
<1>6. QED
  BY <1>1, <1>2, <1>3, <1>4, <1>5

(* An execution goes on with its batch.                                    *)
LEMMA GoesSteady ==
  ASSUME IInv, Steady, NEW h \in Handles, Goes(h), Attached', StaysFailed,
         UNCHANGED <<disk, row, req>>, troubles' = troubles \/ Trouble,
         \A f \in Files : f # run[h].file => Held(f),
         \A f \in Content : f = run[h].file /\ Copied(f) =>
           /\ \A b \in Numbers : points'[f][b] <= 1
           /\ \A b \in Numbers : b > Reached(run'[h]) => points'[f][b] = 0,
         \A f \in Content : f = run[h].file /\ Present(f) /\ troubles' = 0 =>
           /\ ~run'[h].bad
           /\ run'[h].pc = "error" => f \notin disk
           /\ run'[h].pc \notin {"ready", "error"} => f \in disk
           /\ Held(f) \/ f \in disk
  PROVE  Steady'
<1>1. \A f \in Files : Free(f) => f # run[h].file
  BY DEF Goes, Free, WorksOn
<1>2. \A f \in Files : Free(f) => Free(f)' /\ Held(f)
  BY <1>1, GoesFree
<1>3. \A f \in Content : Copied(f) => Copied(f)'
  BY GoesCopied, ContentFiles
<1>4. ASSUME NEW f \in Content, troubles = 0, troubles' = 0 PROVE Present(f)'
  <2>1. Present(f) /\ f \in Files
    BY <1>4, ContentFiles DEF Steady, Presence
  <2>2. \A g \in Handles : WorksOn(g, f)' =>
          WorksOn(g, f) /\ (g # h => run'[g] = run[g]) /\ (g = h => f = run[h].file)
    BY GoesFree DEF Goes, KeepsRuns, WorksOn
  <2>3. QED
    BY <1>2, <1>4, <2>1, <2>2, PresentStays
<1>5. QED
  BY <1>2, <1>3, <1>4, WorkerStep

(* One hands its work over, to the next batch or to a later attempt.       *)
LEMMA PassesSteady ==
  ASSUME IInv, Steady, NEW h \in Handles, NEW i, NEW b, NEW n, Passes(h, i, b, n),
         Attached', StaysFailed, UNCHANGED <<disk, points, row, req, troubles>>,
         b - 1 = Reached(run[h])
  PROVE  Steady'
<1>1. \A f : Held(f) /\ (Free(f) => Free(f)')
  BY PassesFree DEF Held
<1>2. \A f \in Content : Copied(f) => Copied(f)'
  BY <1>1, PassesCopied
<1>3. ASSUME NEW f \in Content, troubles = 0 PROVE Present(f)'
  <2>1. Present(f)
    BY <1>3 DEF Steady, Presence
  <2>2. \A g \in Handles : WorksOn(g, f)' => WorksOn(g, f) /\ run'[g] = run[g]
    BY PassesFree DEF Passes, KeepsRuns, WorksOn
  <2>3. QED
    BY <1>1, <2>1, <2>2, PresentStays
<1>4. QED
  BY <1>1, <1>2, <1>3, WorkerStep

(* One ends its work: the file is indexed, or given up.                    *)
LEMMA LeavesSteady ==
  ASSUME IInv, Steady, NEW h \in Handles, Leaves(h), Attached', StaysFailed,
         UNCHANGED <<disk, points, req, troubles>>,
         \A f \in Content : f # run[h].file => row'[f] = row[f],
         \A f \in Content : f = run[h].file =>
           ~Reads(f, "pending_decision")' \/ ~Stored(f) \/ Excused(f)'
  PROVE  Steady'
<1>1. \A f : Held(f) /\ (Free(f) => Free(f)')
  BY LeavesFree DEF Held
<1>2. \A f \in Content : Copied(f) => Copied(f)' \/ Excused(f)'
  BY <1>1, LeavesCopied
<1>3. ASSUME NEW f \in Content, troubles = 0 PROVE Present(f)'
  <2>1. Present(f)
    BY <1>3 DEF Steady, Presence
  <2>2. \A g \in Handles : WorksOn(g, f)' => WorksOn(g, f) /\ run'[g] = run[g]
    BY LeavesFree DEF Leaves, KeepsRuns, WorksOn
  <2>3. QED
    BY <1>1, <2>1, <2>2, PresentStays
<1>4. QED
  BY <1>1, <1>2, <1>3, WorkerStep

LEMMA HandleTypes ==
  ASSUME Running, NEW h \in Handles, run[h].pc # "idle"
  PROVE  /\ run[h] \in Handle /\ run[h].file \in Files /\ run[h].batch \in Numbers
         /\ run[h].batch \in Nat
  BY NumbersType DEF Running, Sound, Busy, Handle

(* What an execution reached, of the file it works on.                     *)
LEMMA ReachedHere ==
  ASSUME Steady, NEW h \in Handles, Working(h), NEW f, f = run[h].file, Copied(f)
  PROVE  /\ \A b \in Numbers : points[f][b] <= 1
         /\ \A b \in Numbers : b > Reached(run[h]) => points[f][b] = 0
  BY DEF Copied, WorksOn, UpTo

LEMMA WorkSteady ==
  ASSUME IInv, Steady, NEW h \in Handles, Work(h), ~Broken
  PROVE  Steady'
<1>0. Running /\ Attached
  BY DEF IInv, Steady
<1>p. \A f \in Content : f = run[h].file /\ Working(h) /\ Present(f) =>
        /\ ~run[h].bad
        /\ run[h].pc = "error" => f \notin disk
        /\ run[h].pc \notin {"ready", "error"} => f \in disk
  BY DEF Present, WorksOn
<1>d. \A f \in Content : f \notin Docs
  BY FilesAssumption DEF Content
<1>1. CASE Ready(h)
  <2>1. /\ Goes(h) /\ Attached' /\ StaysFailed /\ run[h].pc = "ready"
        /\ run'[h].pc \in {"store", "error"} /\ Reached(run'[h]) = Reached(run[h])
        /\ run'[h].pc = "store" => run[h].file \in disk \cup Docs
        /\ troubles' = 0 =>
             run'[h].bad = run[h].bad /\ (run'[h].pc = "error" => run[h].file \notin disk)
    BY <1>0, <1>1, ReadyEffect DEF IInv, Resting
  <2>2. UNCHANGED <<disk, points, row, req>> /\ (troubles' = troubles \/ Trouble)
    BY <1>1 DEF Ready, bounds
  <2>3. \A f : Held(f)
    BY <2>2 DEF Held
  <2>4. Working(h)
    BY <2>1 DEF Working
  <2>5. QED
    BY <1>d, <1>p, <2>1, <2>2, <2>3, <2>4, ReachedHere, GoesSteady
<1>2. CASE Store(h)
  <2>1. /\ Goes(h) /\ Attached' /\ StaysFailed /\ run[h].pc = "store" /\ run'[h].bad = run[h].bad
        /\ \/ /\ points' = [points EXCEPT ![run[h].file][run[h].batch] = IF @ = Many THEN @ ELSE @ + 1]
              /\ run'[h].pc = After(h)
           \/ /\ Trouble /\ points' = points /\ run'[h].pc \in {After(h), "error"}
    BY <1>0, <1>2, StoreEffect
  <2>2. UNCHANGED <<disk, row, req>> /\ (troubles' = troubles \/ Trouble)
    BY <1>2 DEF Store, bounds
  <2>3. Working(h) /\ After(h) \in {"check", "finish"}
    BY <2>1 DEF Working, After
  <2>4. PICK e, b : e = run[h].file /\ b = run[h].batch
    OBVIOUS
  <2>5. e \in Files /\ b \in Numbers /\ b \in Nat /\ points \in [Files -> [Numbers -> 0..Many]]
    BY <1>0, <2>1, <2>4, HandleTypes DEF IInv, Resting
  <2>6. run'[h].batch = b /\ Reached(run[h]) = b - 1
    BY <2>1, <2>4 DEF Goes, Reached
  <2>7. \A f \in Files : f # e => Held(f)
    BY <2>1, <2>4, <2>5 DEF Held
  <2>8. ASSUME Copied(e)
        PROVE  /\ \A x \in Numbers : points'[e][x] <= 1
               /\ \A x \in Numbers : x > Reached(run'[h]) => points'[e][x] = 0
    <3>1. /\ \A x \in Numbers : points[e][x] <= 1
          /\ \A x \in Numbers : x > b - 1 => points[e][x] = 0
      BY <2>3, <2>4, <2>6, <2>8, ReachedHere
    <3>2. Numbers \subseteq Nat
      BY NumbersType
    <3>3. CASE points' = points
      <4>1. Reached(run'[h]) \in {b - 1, b}
        BY <2>6 DEF Reached
      <4>2. QED
        BY <2>5, <3>1, <3>2, <3>3, <4>1
    <3>4. CASE points' # points
      <4>1. Reached(run'[h]) = b
        BY <2>1, <2>3, <2>6, <3>4 DEF Reached
      <4>2. points[e][b] = 0
        BY <2>5, <3>1
      <4>3. \A x \in Numbers : points'[e][x] = IF x = b THEN 1 ELSE points[e][x]
        BY <2>1, <2>4, <2>5, <3>4, <4>2 DEF Many
      <4>4. QED
        <5>1. ASSUME NEW x \in Numbers PROVE points'[e][x] <= 1 /\ (x > b => points'[e][x] = 0)
          <6>1. x \in Nat /\ (x > b => x > b - 1 /\ x # b)
            BY <2>5, <3>2
          <6>2. QED
            BY <3>1, <4>3, <6>1
        <5>2. QED
          BY <4>1, <5>1
    <3>5. QED
      BY <3>3, <3>4
  <2>9. \A f \in Content : f = e /\ Present(f) /\ troubles' = 0 =>
           ~run'[h].bad /\ f \in disk /\ run'[h].pc # "error"
    <3>1. troubles' = 0 => ~Trouble
      BY DEF Trouble, IInv, Resting
    <3>2. QED
      BY <1>p, <2>1, <2>3, <2>4, <3>1
  <2>10. QED
    BY <2>1, <2>2, <2>4, <2>7, <2>8, <2>9, GoesSteady
<1>3. CASE Check(h)
  <2>1. /\ Goes(h) /\ Attached' /\ StaysFailed
        /\ run[h].pc = "check" /\ run'[h].pc = "dispatch" /\ run'[h].bad = run[h].bad
    BY <1>0, <1>3, CheckEffect
  <2>2. UNCHANGED <<disk, points, row, req, troubles>>
    BY <1>3 DEF Check, bounds
  <2>3. \A f : Held(f)
    BY <2>2 DEF Held
  <2>4. Working(h) /\ Reached(run'[h]) = Reached(run[h])
    BY <2>1 DEF Working, Reached, Goes
  <2>5. QED
    BY <1>p, <2>1, <2>2, <2>3, <2>4, ReachedHere, GoesSteady
<1>4. CASE Continue(h)
  <2>1. /\ Passes(h, NewId, run[h].batch + 1, run[h].sofar + run[h].got)
        /\ Attached' /\ StaysFailed /\ run[h].pc = "dispatch"
    BY <1>0, <1>4, ContinueEffect
  <2>2. UNCHANGED <<disk, points, row, req, troubles>>
    BY <1>4 DEF Continue, bounds
  <2>3. (run[h].batch + 1) - 1 = Reached(run[h])
    BY <1>0, <2>1, HandleTypes DEF Reached
  <2>4. QED
    BY <2>1, <2>2, <2>3, PassesSteady
<1>5. CASE Finish(h)
  <2>1. /\ Leaves(h) /\ Attached' /\ StaysFailed
        /\ run[h].pc = "finish" /\ run'[h].pc = "end"
        /\ \/ row' = [row EXCEPT ![run[h].file] = Indexed(run[h].sofar + run[h].got)]
              /\ UNCHANGED bounds
           \/ row' = row /\ Trouble
    BY <1>0, <1>5, FinishEffect
  <2>2. ~Trouble
    BY <2>1 DEF Broken, Trouble, IInv, Resting
  <2>3. UNCHANGED <<disk, points, req, troubles>>
    BY <1>5, <2>1, <2>2 DEF Finish, bounds
  <2>4. run[h].file \in Files
    BY <1>0, <2>1, HandleTypes
  <2>5. \A f \in Files : row'[f] = IF f = run[h].file THEN Indexed(run[h].sofar + run[h].got)
                                   ELSE row[f]
    BY <2>1, <2>2, <2>4 DEF IInv, Resting
  <2>6. \A f \in Content : f = run[h].file => ~Reads(f, "pending_decision")'
    BY <2>5, ContentFiles DEF Reads, Indexed
  <2>7. QED
    BY <2>1, <2>3, <2>5, <2>6, ContentFiles, LeavesSteady
<1>6. CASE End(h)
  <2>1. Rests /\ Attached' /\ StaysFailed
    BY <1>0, <1>6, EndEffect
  <2>2. UNCHANGED <<disk, points, row, req, troubles>>
    BY <1>6 DEF End, bounds
  <2>3. QED
    BY <2>1, <2>2, RestsSteady
<1>7. CASE Error(h)
  <2>1. /\ Attached' /\ StaysFailed /\ run[h].pc = "error" /\ row' = MarkedFailed(h)
        /\ \/ Passes(h, run[h].id, run[h].batch, run[h].sofar) /\ ~run[h].bad
           \/ Leaves(h) /\ (run[h].bad \/ \A f : f = run[h].file => GaveUp(f)')
    BY <1>0, <1>7, ErrorEffect
  <2>2. UNCHANGED <<disk, points, req, troubles>>
    BY <1>7 DEF Error, Fail, bounds
  <2>3. CASE Passes(h, run[h].id, run[h].batch, run[h].sofar) /\ ~run[h].bad
    <3>1. row' = row
      BY <2>1, <2>3 DEF MarkedFailed
    <3>2. run[h].batch - 1 = Reached(run[h])
      BY <2>1 DEF Reached
    <3>3. QED
      BY <2>1, <2>2, <2>3, <3>1, <3>2, PassesSteady
  <2>4. CASE Leaves(h) /\ (run[h].bad \/ \A f : f = run[h].file => GaveUp(f)')
    <3>0. PICK e : e = run[h].file
      OBVIOUS
    <3>1. /\ e \in Files /\ Working(h)
          /\ Exists(h) /\ row \in [Files -> Row]
      BY <1>0, <2>1, <3>0, HandleTypes, Holding DEF Working, IInv, Resting
    <3>2. \A f \in Files : f # e => row'[f] = row[f]
      BY <2>1, <3>0, <3>1 DEF MarkedFailed
    <3>3. CASE run[h].bad
      <4>1. row' = [row EXCEPT ![e] = IF @ = NoRow THEN [Pending EXCEPT !.state = "failed"]
                                      ELSE [@ EXCEPT !.state = "failed"]]
        BY <2>1, <3>0, <3>1, <3>3 DEF MarkedFailed
      <4>2. [Pending EXCEPT !.state = "failed"].state = "failed"
        BY DEF Pending
      <4>3. row[e] # NoRow => [row[e] EXCEPT !.state = "failed"].state = "failed"
        BY <3>1 DEF Row
      <4>4. row'[e].state = "failed"
        BY <3>1, <4>1, <4>2, <4>3
      <4>5. \A f \in Content : f = e => ~Reads(f, "pending_decision")'
        BY <4>4 DEF Reads
      <4>6. QED
        BY <2>1, <2>2, <2>4, <3>0, <3>2, <4>5, ContentFiles, LeavesSteady
    <3>4. CASE ~run[h].bad
      <4>1. row' = row /\ \A f : f = e => GaveUp(f)'
        BY <2>1, <2>4, <3>0, <3>4 DEF MarkedFailed
      <4>2. troubles # 0 => \A f : f = e => Excused(f)'
        BY <2>2, <4>1 DEF Excused
      <4>3. troubles = 0 => \A f \in Content : f = e => ~Stored(f)
        BY <1>p, <2>1, <3>0, <3>1 DEF Steady, Presence, Present, Free, WorksOn
      <4>4. QED
        BY <2>1, <2>2, <2>4, <3>0, <4>1, <4>2, <4>3, LeavesSteady
    <3>5. QED
      BY <3>3, <3>4
  <2>5. QED
    BY <2>1, <2>3, <2>4
<1>8. QED
  BY <1>1, <1>2, <1>3, <1>4, <1>5, <1>6, <1>7 DEF Work

-----------------------------------------------------------------------------
(* The requests, one at a time.                                            *)

LEMMA NothingPlanned == Planned(NoRequest)
  BY DEF NoRequest, Planned, Early

LEMMA NothingPlannedNext == Planned(NoRequest)'
  BY DEF NoRequest, Planned, Early

LEMMA Idles ==
  ASSUME OneTab, NEW t \in Tabs, req[t].pc # "idle"
  PROVE  req[t].op # "none" /\ \A u \in Tabs : u # t => req[u] = NoRequest
<1>1. NoRequest.pc = "idle"
  BY DEF NoRequest
<1>2. req[t].op # "none"
  BY <1>1 DEF OneTab
<1>3. \A u \in Tabs : u # t => req[u].op = "none"
  BY <1>2 DEF OneTab
<1>4. QED
  BY <1>2, <1>3 DEF OneTab

(* A step of the only request, from what it does to each file.             *)
LEMMA RequestStep ==
  ASSUME IInv, Steady, NEW t \in Tabs, NEW r,
         \A u \in Tabs : u # t => req[u] = NoRequest,
         req' = [req EXCEPT ![t] = r], r.op = "none" => r = NoRequest,
         Attached', StaysFailed, troubles' = troubles \/ Trouble,
         \A f \in Content : Copied(f) => Copied(f)' \/ Excused(f)',
         \A f \in Content : troubles = 0 /\ troubles' = 0 => Present(f)',
         r # NoRequest => Planned(r)'
  PROVE  Steady'
<1>1. troubles \in Nat /\ troubles' \in Nat
  BY DEF IInv, Resting, Trouble
<1>2. \A f \in Content : Excused(f) => Excused(f)'
  BY <1>1, StaysExcused
<1>3. Copies'
  BY <1>2 DEF Steady, Copies
<1>4. Presence'
  BY <1>1 DEF Steady, Presence, Trouble
<1>5. \A u \in Tabs : req'[u] = IF u = t THEN r ELSE NoRequest
  BY DEF IInv, Resting
<1>6. NoRequest.op = "none"
  BY DEF NoRequest
<1>7. OneTab'
  BY <1>5, <1>6 DEF OneTab
<1>8. Planned(r)'
  BY NothingPlannedNext
<1>9. \A u \in Tabs : Planned(req[u])'
  <2>1. ASSUME NEW u \in Tabs PROVE Planned(req[u])'
    <3>1. CASE u = t
      BY <1>5, <1>8, <3>1 DEF Planned
    <3>2. CASE u # t
      BY <1>5, <3>2, NothingPlannedNext DEF Planned
    <3>3. QED
      BY <3>1, <3>2
  <2>2. QED
    BY <2>1
<1>10. QED
  BY <1>3, <1>4, <1>7, <1>9 DEF Steady

LEMMA StaysPresent ==
  ASSUME NEW f, Present(f), RestsAt(f), f \in disk' <=> f \in disk, Stored(f)' => Stored(f)
  PROVE  Present(f)'
<1>1. /\ Free(f)' <=> Free(f)
      /\ \A h \in Handles : WorksOn(h, f)' => WorksOn(h, f) /\ run'[h] = run[h]
  BY RestsAtFree DEF RestsAt
<1>2. QED
  BY <1>1 DEF Present

LEMMA FreePresent ==
  ASSUME NEW f, Free(f)'
  PROVE  Present(f)'
  BY DEF Present, Free

(* ... when it queues nothing that is embedded.                            *)
LEMMA QuietRequest ==
  ASSUME IInv, Steady, NEW t \in Tabs, NEW r,
         \A u \in Tabs : u # t => req[u] = NoRequest,
         req' = [req EXCEPT ![t] = r], r.op = "none" => r = NoRequest,
         Attached', StaysFailed, troubles' = troubles \/ Trouble,
         \A f \in Content : RestsAt(f) /\ NoNewDecision(f) /\ (Held(f) \/ points'[f] = Empty),
         \A f \in Content : (f \in disk' <=> f \in disk) \/ Free(f),
         r # NoRequest => Planned(r)'
  PROVE  Steady'
<1>1. \A f \in Content : Stored(f)' => Stored(f)
  BY HeldSame, EmptiedSame
<1>2. \A f \in Content : Copied(f) => Copied(f)'
  BY RestsCopied
<1>3. ASSUME NEW f \in Content, troubles = 0 PROVE Present(f)'
  <2>1. Present(f)
    BY <1>3 DEF Steady, Presence
  <2>2. Free(f) => Free(f)'
    BY RestsAtFree
  <2>3. QED
    BY <1>1, <2>1, <2>2, StaysPresent, FreePresent
<1>4. QED
  BY <1>2, <1>3, RequestStep

(* Nothing changes but what the request knows, and points that go.         *)
LEMMA SameJobs ==
  ASSUME IInv, Steady, UNCHANGED <<jobs, run>>
  PROVE  Attached' /\ StaysFailed /\ Rests /\ \A f : RestsAt(f) /\ (Free(f)' <=> Free(f))
<1>1. Attached'
  BY AttachedJobs DEF Steady, IInv
<1>2. Rests
  BY DEF Rests, KeepsJobs, KeepsRuns, Waiting, Working
<1>3. QED
  BY <1>1, <1>2, RestsHere, RestsFree DEF StaysFailed

LEMMA HeldDecision ==
  ASSUME NEW f, Held(f) \/ points'[f] = Empty, row'[f] = row[f] \/ ~Reads(f, "pending_decision")'
  PROVE  NoNewDecision(f)
  BY HeldSame, EmptiedSame DEF NoNewDecision, Reads

LEMMA AllHeld ==
  ASSUME points' = points
  PROVE  \A f : Held(f) /\ (Stored(f)' <=> Stored(f))
  BY DEF Held, Stored

(* Jobs queued under an unused id.                                         *)
LEMMA AddedEffect ==
  ASSUME Running, Attached, NEW f \in Files, run' = run,
         jobs' = Added(f) \/ (Unused # {} /\ jobs' = AddedAs(NewId, f, 1, 0))
  PROVE  /\ Attached' /\ StaysFailed
         /\ Rests \/ \E i : Adds(i, f)
         /\ Unused # {} /\ jobs' = AddedAs(NewId, f, 1, 0) => \E i : Adds(i, f)
<1>1. KeepsRuns({})
  BY DEF KeepsRuns, Working
<1>2. CASE jobs' = jobs
  <2>1. Attached'
    BY <1>2, AttachedJobs
  <2>2. StaysFailed /\ KeepsJobs({})
    BY <1>2 DEF StaysFailed, KeepsJobs, Waiting
  <2>3. ~(Unused # {} /\ jobs' = AddedAs(NewId, f, 1, 0))
    <3>1. NewJob(f, 1, 0).state = "waiting"
      BY NewJobFields
    <3>2. Unused # {} => NewId \in Files \cup Ids /\ jobs[NewId].state = "none"
      BY NewIdType
    <3>3. QED
      BY <1>2, <3>1, <3>2 DEF AddedAs, Running
  <2>4. QED
    BY <1>1, <2>1, <2>2, <2>3 DEF Rests
<1>3. CASE jobs' # jobs
  <2>1. \E i \in Files \cup Ids : jobs[i].state = "none" /\ jobs' = [jobs EXCEPT ![i] = NewJob(f, 1, 0)]
    BY <1>3, NewIdType DEF Added, AddedAs
  <2>2. PICK i \in Files \cup Ids : jobs[i].state = "none" /\ jobs' = [jobs EXCEPT ![i] = NewJob(f, 1, 0)]
    BY <2>1
  <2>3. PICK j : j = NewJob(f, 1, 0)
    OBVIOUS
  <2>4. j.file = f /\ j.batch = 1 /\ j.sofar = 0 /\ j.state = "waiting"
    BY <2>3, NewJobFields
  <2>5. \A k \in Files \cup Ids : jobs'[k] = IF k = i THEN j ELSE jobs[k]
    BY <2>2, <2>3 DEF Running
  <2>6. Adds(i, f)
    BY <1>1, <2>2, <2>4, <2>5 DEF Adds, Queues, KeepsJobs, Waiting
  <2>7. StaysFailed
    BY <2>2, <2>5 DEF StaysFailed
  <2>8. Attached'
    BY <2>2, <2>4, <2>5, AttachedJobs
  <2>9. QED
    BY <2>6, <2>7, <2>8
<1>4. QED
  BY <1>2, <1>3

(* What is known of the request being answered.                            *)
LEMMA TheRequest ==
  ASSUME IInv, Steady, NEW t \in Tabs, req[t].pc # "idle"
  PROVE  /\ \A u \in Tabs : u # t => req[u] = NoRequest
         /\ req[t] \in Request /\ Asked(req[t]) /\ Planned(req[t]) /\ req[t].op # "none"
  BY Idles DEF IInv, Resting, Steady, Asked

LEMMA NoRequestDone ==
  ASSUME NEW t
  PROVE  /\ Done(t) => req' = [req EXCEPT ![t] = NoRequest]
         /\ \A pc, r : OnTo(t, pc, r) /\ r.todo = {} => req' = [req EXCEPT ![t] = NoRequest]
         /\ \A pc, r : OnTo(t, pc, r) /\ r.todo # {} => req' = [req EXCEPT ![t] = [r EXCEPT !.pc = pc]]
  BY DEF Done, OnTo

(* A step of the request that leaves the queue alone.                      *)
LEMMA SameRequest ==
  ASSUME IInv, Steady, NEW t \in Tabs, req[t].pc # "idle", NEW r,
         req' = [req EXCEPT ![t] = r], r = NoRequest \/ r.op = req[t].op,
         UNCHANGED <<jobs, run>>, troubles' = troubles \/ Trouble,
         \A f \in Content : NoNewDecision(f) /\ (Held(f) \/ points'[f] = Empty),
         \A f \in Content : (f \in disk' <=> f \in disk) \/ Free(f),
         r # NoRequest => Planned(r)'
  PROVE  Steady'
<1>1. Attached' /\ StaysFailed /\ \A f : RestsAt(f)
  BY SameJobs
<1>2. \A u \in Tabs : u # t => req[u] = NoRequest
  BY TheRequest
<1>3. r.op = "none" => r = NoRequest
  BY TheRequest
<1>4. QED
  BY <1>1, <1>2, <1>3, QuietRequest

LEMMA StaysClear ==
  ASSUME IInv, UNCHANGED <<jobs, run>>, troubles' = troubles \/ Trouble,
         \A f \in Content : Held(f) \/ points'[f] = Empty
  PROVE  \A f \in Content : (~Stored(f) => ~Stored(f)') /\ (Clear(f) => Clear(f)')
<1>1. \A f \in Content : ~Stored(f) => ~Stored(f)'
  BY HeldSame, EmptiedSame
<1>2. StaysFailed
  BY DEF StaysFailed
<1>3. \A f \in Content : Excused(f) => Excused(f)'
  BY <1>2, StaysExcused DEF IInv, Resting
<1>4. QED
  BY <1>1, <1>3 DEF Clear

LEMMA FacetSteady ==
  ASSUME IInv, Steady, NEW t \in Tabs, Facet(t)
  PROVE  Steady'
<1>1. /\ req[t].pc = "facet" /\ UNCHANGED <<disk, points, row, jobs, run>>
      /\ troubles' = troubles \/ Trouble
  BY DEF Facet, bounds
<1>2. req[t] \in Request /\ Planned(req[t])
  BY <1>1, TheRequest
<1>3. \A f : Held(f) /\ NoNewDecision(f) /\ (Free(f)' <=> Free(f)) /\ (Stored(f)' <=> Stored(f))
  BY <1>1, AllHeld, HeldDecision, SameJobs
<1>4. CASE req' = [req EXCEPT ![t].pc = "rows", ![t].has = {f \in req[t].todo : Stored(f)}]
  <2>1. PICK has : has = {f \in req[t].todo : Stored(f)}
    OBVIOUS
  <2>2. PICK s : s = [req[t] EXCEPT !.pc = "rows", !.has = has]
    OBVIOUS
  <2>3. /\ s.pc = "rows" /\ s.has = has /\ s.op = req[t].op /\ s.todo = req[t].todo
        /\ s.f = req[t].f /\ s.force = req[t].force
    BY <1>2, <2>2 DEF Request
  <2>4. req' = [req EXCEPT ![t] = s]
    BY <1>4, <2>1, <2>2 DEF IInv, Resting
  <2>5. Planned(s)'
    BY <1>1, <1>2, <1>3, <2>1, <2>3 DEF Planned, Early
  <2>6. QED
    BY <1>1, <1>3, <2>3, <2>4, <2>5, SameRequest
<1>5. CASE Done(t)
  BY <1>1, <1>3, <1>5, NoRequestDone, SameRequest
<1>6. QED
  BY <1>4, <1>5 DEF Facet

LEMMA RowsSteady ==
  ASSUME IInv, Steady, NEW t \in Tabs, Rows(t)
  PROVE  Steady'
<1>1. /\ req[t].pc = "rows" /\ UNCHANGED <<disk, points, row, jobs, run>>
      /\ troubles' = troubles
  BY DEF Rows, bounds
<1>2. req[t] \in Request /\ Planned(req[t])
  BY <1>1, TheRequest
<1>3. \A f : Held(f) /\ NoNewDecision(f) /\ (Free(f)' <=> Free(f)) /\ (Stored(f)' <=> Stored(f))
  BY <1>1, AllHeld, HeldDecision, SameJobs
<1>4. PICK todo, new : todo = Unembedded(req[t]) /\ new = {f \in req[t].todo : row[f] = NoRow}
  OBVIOUS
<1>5. PICK s : s = [req[t] EXCEPT !.pc = "create", !.todo = todo, !.new = new]
  OBVIOUS
<1>6. /\ s.pc = "create" /\ s.todo = todo /\ s.new = new /\ s.op = req[t].op
      /\ s.has = req[t].has /\ s.f = req[t].f /\ s.force = req[t].force
  BY <1>2, <1>5 DEF Request
<1>7. req' = [req EXCEPT ![t] = s]
  BY <1>4, <1>5 DEF Rows, IInv, Resting
<1>8. \A f \in todo : f \in Content /\ Clear(f)
  <2>1. ASSUME NEW f \in todo PROVE f \in Content /\ Clear(f)
    <3>1. f \in Content /\ (f \notin req[t].has \/ Reads(f, "pending_decision"))
      BY <1>2, <1>4, <2>1 DEF Unembedded, Planned
    <3>2. f \notin req[t].has => ~Stored(f)
      BY <1>1, <1>2, <1>4, <2>1 DEF Unembedded, Planned
    <3>3. Free(f) /\ (Excused(f) \/ Copied(f))
      BY <1>1, <1>2, <3>1 DEF Planned, Early, Steady, Copies
    <3>4. QED
      BY <3>1, <3>2, <3>3 DEF Clear, Copied
  <2>2. QED
    BY <2>1
<1>9. \A f \in todo : Clear(f)'
  BY <1>1, <1>3, <1>8, StaysClear
<1>10. Planned(s)'
  BY <1>1, <1>2, <1>3, <1>4, <1>6, <1>8, <1>9 DEF Planned, Early
<1>11. QED
  BY <1>1, <1>3, <1>6, <1>7, <1>10, SameRequest

LEMMA CreateSteady ==
  ASSUME IInv, Steady, NEW t \in Tabs, Create(t)
  PROVE  Steady'
<1>1. /\ req[t].pc = "create" /\ UNCHANGED <<disk, points, jobs, run>> /\ troubles' = troubles
  BY DEF Create, bounds
<1>2. req[t] \in Request /\ Planned(req[t])
  BY <1>1, TheRequest
<1>3. PICK made \in SUBSET req[t].new :
        /\ row' = [f \in Files |-> IF f \notin made THEN row[f]
                                   ELSE IF f \in req[t].has THEN Indexed(0) ELSE Pending]
        /\ OnTo(t, "dispatch", req[t]) \/ Done(t)
  BY DEF Create
<1>4. \A f : Held(f) /\ (Free(f)' <=> Free(f)) /\ (Stored(f)' <=> Stored(f))
  BY <1>1, AllHeld, SameJobs
<1>5. Indexed(0).state = "indexed"
  BY DEF Indexed
<1>6. \A f \in Content : NoNewDecision(f)
  <2>1. ASSUME NEW f \in Content PROVE NoNewDecision(f)
    <3>1. f \in Files
      BY ContentFiles
    <3>2. CASE f \notin made
      BY <1>3, <1>4, <3>1, <3>2, HeldDecision
    <3>3. CASE f \in made /\ f \in req[t].has
      BY <1>3, <1>4, <1>5, <3>1, <3>3, HeldDecision DEF Reads
    <3>4. CASE f \in made /\ f \notin req[t].has
      BY <1>1, <1>2, <1>4, <3>4 DEF Planned, NoNewDecision
    <3>5. QED
      BY <3>2, <3>3, <3>4
  <2>2. QED
    BY <2>1
<1>7. PICK s : s = [req[t] EXCEPT !.pc = "dispatch"]
  OBVIOUS
<1>8. /\ s.pc = "dispatch" /\ s.op = req[t].op /\ s.todo = req[t].todo
      /\ s.f = req[t].f /\ s.force = req[t].force
  BY <1>2, <1>7 DEF Request
<1>9. \A f \in s.todo : Clear(f)'
  BY <1>1, <1>2, <1>4, <1>8, StaysClear DEF Planned
<1>10. Planned(s)'
  BY <1>1, <1>2, <1>4, <1>8, <1>9 DEF Planned, Early
<1>11. req' = [req EXCEPT ![t] = s] \/ req' = [req EXCEPT ![t] = NoRequest]
  BY <1>3, <1>7, NoRequestDone
<1>12. QED
  BY <1>1, <1>4, <1>6, <1>8, <1>10, <1>11, SameRequest

LEMMA PurgeSteady ==
  ASSUME IInv, Steady, NEW t \in Tabs, Purge(t)
  PROVE  Steady'
<1>1. /\ req[t].pc = "purge" /\ UNCHANGED <<disk, row, jobs, run>>
      /\ troubles' = troubles \/ Trouble
  BY DEF Purge, bounds
<1>2. req[t] \in Request /\ Planned(req[t])
  BY <1>1, TheRequest
<1>3. \A f : Free(f)' <=> Free(f)
  BY <1>1, SameJobs
<1>4. PICK f \in req[t].todo :
        \/ /\ points' = [points EXCEPT ![f] = Empty]
           /\ req' = [req EXCEPT ![t].pc = "dispatch", ![t].f = f]
        \/ /\ points' = points
           /\ OnTo(t, "purge", [req[t] EXCEPT !.todo = @ \ {f}])
  BY DEF Purge
<1>5. f \in Content /\ f \in Files /\ f # None
  BY <1>1, <1>2, ContentFiles, FilesAssumption DEF Planned
<1>6. CASE /\ points' = [points EXCEPT ![f] = Empty]
           /\ req' = [req EXCEPT ![t].pc = "dispatch", ![t].f = f]
  <2>1. \A g \in Content : Held(g) \/ points'[g] = Empty
    BY <1>6, ContentFiles DEF Held, IInv, Resting
  <2>2. \A g \in Content : NoNewDecision(g)
    BY <1>1, <2>1, HeldDecision
  <2>3. points'[f] = Empty
    BY <1>5, <1>6 DEF IInv, Resting
  <2>4. ~Stored(f)'
    BY <2>3, EmptiedSame
  <2>5. PICK s : s = [req[t] EXCEPT !.pc = "dispatch", !.f = f]
    OBVIOUS
  <2>6. /\ s.pc = "dispatch" /\ s.f = f /\ s.op = req[t].op
        /\ s.todo = req[t].todo /\ s.force = req[t].force
    BY <1>2, <2>5 DEF Request
  <2>7. req' = [req EXCEPT ![t] = s]
    BY <1>6, <2>5 DEF IInv, Resting
  <2>8. Planned(s)'
    BY <1>1, <1>2, <1>3, <1>5, <2>4, <2>6 DEF Planned, Early, Clear
  <2>9. QED
    BY <1>1, <2>1, <2>2, <2>6, <2>7, <2>8, SameRequest
<1>7. CASE points' = points /\ OnTo(t, "purge", [req[t] EXCEPT !.todo = @ \ {f}])
  <2>1. \A g : Held(g) /\ NoNewDecision(g)
    BY <1>1, <1>7, AllHeld, HeldDecision
  <2>2. PICK r : r = [req[t] EXCEPT !.todo = @ \ {f}]
    OBVIOUS
  <2>3. PICK s : s = [r EXCEPT !.pc = "purge"]
    OBVIOUS
  <2>4. /\ s.pc = "purge" /\ s.f = req[t].f /\ s.op = req[t].op
        /\ s.todo = req[t].todo \ {f} /\ s.force = req[t].force
    BY <1>2, <2>2, <2>3 DEF Request
  <2>5. Planned(s)'
    BY <1>1, <1>2, <1>3, <2>4 DEF Planned, Early
  <2>6. req' = [req EXCEPT ![t] = s] \/ req' = [req EXCEPT ![t] = NoRequest]
    BY <1>7, <2>2, <2>3, NoRequestDone
  <2>7. QED
    BY <1>1, <2>1, <2>4, <2>5, <2>6, SameRequest
<1>8. QED
  BY <1>4, <1>6, <1>7

LEMMA DropSteady ==
  ASSUME IInv, Steady, NEW t \in Tabs, Drop(t)
  PROVE  Steady'
<1>1. /\ req[t].pc = "drop" /\ UNCHANGED <<disk, row, jobs, run>>
      /\ troubles' = troubles \/ Trouble
  BY DEF Drop, bounds
<1>2. req[t] \in Request /\ Planned(req[t]) /\ req[t].f \in Files
  BY <1>1, TheRequest DEF Asked
<1>3. \A f : Free(f)' <=> Free(f)
  BY <1>1, SameJobs
<1>4. CASE points' = points /\ Done(t)
  BY <1>1, <1>4, AllHeld, HeldDecision, NoRequestDone, SameRequest
<1>5. CASE /\ points' = [points EXCEPT ![req[t].f] = Empty]
           /\ \E pc \in {"unlink", "forget"} : To(t, pc)
  <2>1. \A g \in Content : Held(g) \/ points'[g] = Empty
    BY <1>5, ContentFiles DEF Held, IInv, Resting
  <2>2. \A g \in Content : NoNewDecision(g)
    BY <1>1, <2>1, HeldDecision
  <2>3. points'[req[t].f] = Empty
    BY <1>2, <1>5 DEF IInv, Resting
  <2>4. \A g : g = req[t].f => ~Stored(g)'
    BY <2>3, EmptiedSame
  <2>5. PICK pc \in {"unlink", "forget"} : To(t, pc)
    BY <1>5
  <2>6. PICK s : s = [req[t] EXCEPT !.pc = pc]
    OBVIOUS
  <2>7. /\ s.pc = pc /\ s.f = req[t].f /\ s.op = req[t].op
        /\ s.todo = req[t].todo /\ s.force = req[t].force
    BY <1>2, <2>6 DEF Request
  <2>8. req' = [req EXCEPT ![t] = s]
    BY <2>5, <2>6 DEF To, IInv, Resting
  <2>9. \A g \in req[t].todo : ~Stored(g)'
    BY <1>1, <1>2, <2>1, HeldSame, EmptiedSame DEF Planned
  <2>10. Planned(s)'
    BY <1>1, <1>2, <1>3, <2>4, <2>5, <2>7, <2>9 DEF Planned, Early
  <2>11. QED
    BY <1>1, <2>1, <2>2, <2>7, <2>8, <2>10, SameRequest
<1>6. QED
  BY <1>4, <1>5 DEF Drop

LEMMA UnlinkSteady ==
  ASSUME IInv, Steady, NEW t \in Tabs, Unlink(t)
  PROVE  Steady'
<1>1. /\ req[t].pc = "unlink" /\ UNCHANGED <<points, row, jobs, run>> /\ troubles' = troubles
      /\ disk' = disk \ {req[t].f}
  BY DEF Unlink, bounds
<1>2. req[t] \in Request /\ Planned(req[t])
  BY <1>1, TheRequest
<1>3. \A f : Held(f) /\ NoNewDecision(f) /\ (Free(f)' <=> Free(f)) /\ (Stored(f)' <=> Stored(f))
  BY <1>1, AllHeld, HeldDecision, SameJobs
<1>4. PICK s : s = [req[t] EXCEPT !.pc = "forget"]
  OBVIOUS
<1>5. /\ s.pc = "forget" /\ s.f = req[t].f /\ s.op = req[t].op
      /\ s.todo = req[t].todo /\ s.force = req[t].force
  BY <1>2, <1>4 DEF Request
<1>6. req' = [req EXCEPT ![t] = s]
  BY <1>4 DEF Unlink, To, IInv, Resting
<1>7. \A f : f = s.f => Free(f)' /\ ~Stored(f)'
  BY <1>1, <1>2, <1>3, <1>5 DEF Planned
<1>8. \A f \in s.todo : f \in Content /\ Free(f)' /\ ~Stored(f)'
  BY <1>1, <1>2, <1>3, <1>5 DEF Planned
<1>9. s.op \in {"rebuild", "reembed"} => s.force
  BY <1>2, <1>5 DEF Planned
<1>10. Planned(s)'
  BY <1>5, <1>7, <1>8, <1>9 DEF Planned, Early
<1>11. \A f \in Content : (f \in disk' <=> f \in disk) \/ Free(f)
  BY <1>1, <1>2 DEF Planned
<1>12. QED
  BY <1>1, <1>3, <1>5, <1>6, <1>10, <1>11, SameRequest

LEMMA ForgetSteady ==
  ASSUME IInv, Steady, NEW t \in Tabs, Forget(t)
  PROVE  Steady'
<1>1. /\ req[t].pc = "forget" /\ UNCHANGED <<disk, points, jobs, run>> /\ troubles' = troubles
      /\ row' = [row EXCEPT ![req[t].f] = NoRow]
  BY DEF Forget, bounds
<1>2. req[t] \in Request /\ Planned(req[t])
  BY <1>1, TheRequest
<1>3. \A f : Held(f) /\ (Free(f)' <=> Free(f)) /\ (Stored(f)' <=> Stored(f))
  BY <1>1, AllHeld, SameJobs
<1>4. ASSUME NEW f \in Content PROVE NoNewDecision(f)
  <2>1. f \in Files /\ row \in [Files -> Row]
    BY ContentFiles DEF IInv, Resting
  <2>2. row'[f] = row[f] \/ row'[f] = NoRow
    BY <1>1, <2>1
  <2>3. QED
    BY <1>3, <2>2, HeldDecision DEF Reads
<1>5. PICK r : r = [req[t] EXCEPT !.f = None]
  OBVIOUS
<1>6. PICK s : s = [r EXCEPT !.pc = "dispatch"]
  OBVIOUS
<1>7. /\ s.pc = "dispatch" /\ s.f = None /\ s.op = req[t].op
      /\ s.todo = req[t].todo /\ s.force = req[t].force
  BY <1>2, <1>5, <1>6 DEF Request
<1>8. \A f \in s.todo : f \in Content /\ Free(f)' /\ ~Stored(f)'
  BY <1>1, <1>2, <1>3, <1>7 DEF Planned
<1>9. s.op \in {"rebuild", "reembed"} => s.force
  BY <1>2, <1>7 DEF Planned
<1>10. Planned(s)'
  BY <1>7, <1>8, <1>9 DEF Planned, Early, Clear
<1>11. req' = [req EXCEPT ![t] = s] \/ req' = [req EXCEPT ![t] = NoRequest]
  BY <1>5, <1>6, NoRequestDone DEF Forget
<1>12. QED
  BY <1>1, <1>3, <1>4, <1>7, <1>10, <1>11, SameRequest

LEMMA WipeSteady ==
  ASSUME IInv, Steady, NEW t \in Tabs, Wipe(t), ~Broken
  PROVE  Steady'
<1>1. /\ req[t].pc = "wipe" /\ UNCHANGED <<disk, row, jobs, run>> /\ To(t, "docs")
  BY DEF Wipe
<1>2. req[t] \in Request /\ Planned(req[t])
  BY <1>1, TheRequest
<1>3. PICK s : s = [req[t] EXCEPT !.pc = "docs"]
  OBVIOUS
<1>4. /\ s.pc = "docs" /\ s.f = req[t].f /\ s.op = req[t].op
      /\ s.todo = req[t].todo /\ s.force = req[t].force
  BY <1>2, <1>3 DEF Request
<1>5. req' = [req EXCEPT ![t] = s]
  BY <1>1, <1>3 DEF To, IInv, Resting
<1>6. points' = [f \in Files |-> Empty] /\ troubles' = troubles
  <2>1. req'[t].pc = "docs"
    BY <1>4, <1>5 DEF IInv, Resting
  <2>2. ~Trouble
    BY <1>1, <2>1 DEF Broken, Trouble, IInv, Resting
  <2>3. QED
    BY <2>2 DEF Wipe, bounds
<1>7. \A f \in Content : points'[f] = Empty
  BY <1>6, ContentFiles
<1>8. \A f \in Content : NoNewDecision(f) /\ ~Stored(f)'
  BY <1>1, <1>7, HeldDecision, EmptiedSame
<1>9. \A f : Free(f)' <=> Free(f)
  BY <1>1, SameJobs
<1>10. Planned(s)'
  BY <1>1, <1>2, <1>4, <1>8, <1>9 DEF Planned, Early
<1>11. QED
  BY <1>1, <1>4, <1>5, <1>6, <1>7, <1>8, <1>10, SameRequest

LEMMA DiscoverEffect ==
  ASSUME IInv, Steady, NEW t \in Tabs, Discover(t)
  PROVE  Attached' /\ StaysFailed /\ \A f \in Content : RestsAt(f)
<1>1. UNCHANGED <<disk, points, row, run>>
  BY DEF Discover
<1>2. \A i \in Files \cup Ids :
        jobs'[i] = jobs[i] \/ (i \in Docs /\ jobs[i].state = "none" /\ jobs'[i] = NewJob(i, 1, 0))
  <2>1. Docs \subseteq Files
    BY DEF Files
  <2>2. \A i \in Docs : Added(i)[i] = IF jobs[i].state = "none" THEN NewJob(i, 1, 0) ELSE jobs[i]
    BY <2>1 DEF Added, IInv, Running
  <2>3. \A i \in Files \cup Ids : jobs'[i] = IF i \in Docs THEN Added(i)[i] ELSE jobs[i]
    BY DEF Discover, IInv, Running
  <2>4. QED
    BY <2>2, <2>3
<1>3. \A i : NewJob(i, 1, 0).state = "waiting" /\ NewJob(i, 1, 0).file = i
  BY NewJobFields
<1>4. StaysFailed
  BY <1>2 DEF StaysFailed
<1>5. Attached'
  BY <1>1, <1>2, <1>3, AttachedJobs DEF IInv, Steady
<1>6. \A f \in Content : RestsAt(f)
  <2>1. ASSUME NEW f \in Content PROVE RestsAt(f)
    <3>1. f \notin Docs
      BY FilesAssumption DEF Content
    <3>2. \A i \in Files \cup Ids :
            /\ WaitsFor(i, f)' <=> WaitsFor(i, f)
            /\ WaitsFor(i, f) => jobs'[i].batch = jobs[i].batch /\ jobs'[i].sofar = jobs[i].sofar
      BY <1>2, <1>3, <3>1 DEF WaitsFor, Waiting
    <3>3. \A h \in Handles : WorksOn(h, f)' <=> WorksOn(h, f)
      BY <1>1 DEF WorksOn, Working
    <3>4. QED
      BY <1>1, <3>2, <3>3 DEF RestsAt
  <2>2. QED
    BY <2>1
<1>7. QED
  BY <1>4, <1>5, <1>6

LEMMA DiscoverSteady ==
  ASSUME IInv, Steady, NEW t \in Tabs, Discover(t)
  PROVE  Steady'
<1>1. /\ req[t].pc = "docs" /\ UNCHANGED <<disk, points, row, run>> /\ troubles' = troubles
  BY DEF Discover, bounds
<1>2. req[t] \in Request /\ Planned(req[t]) /\ \A u \in Tabs : u # t => req[u] = NoRequest
  BY <1>1, TheRequest
<1>3. Attached' /\ StaysFailed /\ \A f \in Content : RestsAt(f)
  BY DiscoverEffect
<1>8. \A f : Held(f) /\ NoNewDecision(f) /\ (Stored(f)' <=> Stored(f))
  BY <1>1, AllHeld, HeldDecision
<1>9. \A f \in Content : Free(f)'
  BY <1>1, <1>2, <1>3, RestsAtFree DEF Planned, Early
<1>10. PICK pc : pc = CASE req[t].op = "scan" -> "facet"
                        [] req[t].op = "reembed" -> "purge"
                        [] OTHER -> "dispatch"
  OBVIOUS
<1>11. PICK r : r = [req[t] EXCEPT !.todo = disk]
  OBVIOUS
<1>12. PICK s : s = [r EXCEPT !.pc = pc]
  OBVIOUS
<1>13. /\ s.pc = pc /\ s.f = req[t].f /\ s.op = req[t].op
       /\ s.todo = disk /\ s.force = req[t].force
  BY <1>2, <1>11, <1>12 DEF Request
<1>14. req' = [req EXCEPT ![t] = s] \/ req' = [req EXCEPT ![t] = NoRequest]
  <2>1. OnTo(t, pc, r)
    BY <1>10, <1>11 DEF Discover
  <2>2. QED
    BY <1>12, <2>1, NoRequestDone
<1>15. /\ s.op \in {"scan", "reembed", "rebuild"} /\ s.f = None /\ disk \subseteq Content
       /\ s.op \in {"reembed", "rebuild"} => s.force
  BY <1>1, <1>2, <1>13 DEF Planned, Early, IInv, Resting, Content
<1>16. s.op = "rebuild" => \A f \in Content : ~Stored(f)'
  BY <1>1, <1>2, <1>8, <1>13 DEF Planned
<1>17. Planned(s)'
  <2>1. CASE s.op = "scan"
    <3>1. s.pc = "facet"
      BY <1>10, <1>13, <2>1
    <3>2. QED
      BY <1>9, <1>13, <1>15, <2>1, <3>1 DEF Planned, Early
  <2>2. CASE s.op = "reembed"
    <3>1. s.pc = "purge"
      BY <1>10, <1>13, <2>2
    <3>2. QED
      BY <1>9, <1>13, <1>15, <2>2, <3>1 DEF Planned, Early
  <2>3. CASE s.op = "rebuild"
    <3>1. s.pc = "dispatch"
      BY <1>10, <1>13, <2>3
    <3>2. QED
      BY <1>9, <1>13, <1>15, <1>16, <2>3, <3>1 DEF Planned, Early, Clear
  <2>4. QED
    BY <1>15, <2>1, <2>2, <2>3
<1>18. s.op # "none"
  BY <1>15
<1>19. CASE req' = [req EXCEPT ![t] = s]
  BY <1>1, <1>2, <1>3, <1>8, <1>17, <1>18, <1>19, QuietRequest
<1>20. CASE req' = [req EXCEPT ![t] = NoRequest]
  BY <1>1, <1>2, <1>3, <1>8, <1>20, QuietRequest
<1>21. QED
  BY <1>14, <1>19, <1>20

(* A job is queued, or was still known under the file's id.                *)
LEMMA QueuedCopied ==
  ASSUME points \in [Files -> [Numbers -> 0..Many]], troubles \in Nat,
         NEW e \in Content, Free(e), Clear(e), Rests \/ \E i : Adds(i, e), StaysFailed,
         UNCHANGED <<points, row>>, Trouble \/ troubles' = troubles,
         \A f \in Content : f # e => (f \in disk' <=> f \in disk)
  PROVE  \A f \in Content :
           /\ Copied(f) => Copied(f)' \/ Excused(f)'
           /\ f # e /\ Free(f) => Free(f)'
           /\ troubles = 0 /\ Present(f) => Present(f)'
<1> TAKE f \in Content
<1>1. \A g : Held(g) /\ NoNewDecision(g) /\ (Stored(g)' <=> Stored(g))
  BY AllHeld, HeldDecision
<1>2. Excused(e) => Excused(e)'
  BY StaysExcused
<1>3. f \in Files
  BY ContentFiles
<1>4. CASE Rests
  <2>1. RestsAt(f) /\ (Free(f)' <=> Free(f))
    BY <1>4, RestsHere, RestsFree
  <2>2. f = e => Free(f)'
    BY <2>1
  <2>3. QED
    BY <1>1, <2>1, <2>2, RestsCopied, StaysPresent, FreePresent
<1>5. ASSUME NEW i, Adds(i, e)
      PROVE  /\ Copied(f) => Copied(f)' \/ Excused(f)'
             /\ f # e /\ Free(f) => Free(f)'
             /\ troubles = 0 /\ Present(f) => Present(f)'
  <2>1. CASE f = e
    <3>1. Copied(f) /\ ~Excused(f) => Copied(f)'
      BY <1>1, <1>3, <1>5, <2>1, AddsCopied DEF Clear
    <3>2. troubles = 0 => ~Stored(f)
      BY <2>1 DEF Clear, Excused
    <3>3. \A h \in Handles : ~WorksOn(h, f)'
      BY <1>5, <2>1, AddsFree DEF Free
    <3>4. troubles = 0 => Present(f)'
      BY <1>1, <3>2, <3>3 DEF Present
    <3>5. QED
      BY <1>2, <2>1, <3>1, <3>4
  <2>2. CASE f # e
    <3>1. RestsAt(f) /\ (Free(f)' <=> Free(f))
      BY <1>5, <2>2, AddsElsewhere, RestsAtFree
    <3>2. Copied(f) => Copied(f)'
      BY <1>1, <3>1, RestsCopied
    <3>3. Present(f) => Present(f)'
      BY <1>1, <2>2, <3>1, StaysPresent
    <3>4. QED
      BY <3>1, <3>2, <3>3
  <2>3. QED
    BY <2>1, <2>2
<1>6. QED
  BY <1>4, <1>5

LEMMA DispatchSteady ==
  ASSUME IInv, Steady, NEW t \in Tabs, Dispatch(t)
  PROVE  Steady'
<1>1. /\ req[t].pc = "dispatch" /\ UNCHANGED <<disk, points, row, run>> /\ troubles' = troubles
  BY DEF Dispatch, bounds
<1>2. /\ req[t] \in Request /\ Planned(req[t]) /\ \A u \in Tabs : u # t => req[u] = NoRequest
      /\ req[t].op # "none"
  BY <1>1, TheRequest
<1>3. PICK e \in req[t].todo :
        /\ req[t].f \in {None, e}
        /\ req[t].force => Unused # {}
        /\ jobs' = IF req[t].force THEN AddedAs(NewId, e, 1, 0) ELSE Added(e)
        /\ OnTo(t, IF req[t].op = "reembed" THEN "purge" ELSE "dispatch",
                [req[t] EXCEPT !.todo = @ \ {e}, !.f = None])
  BY DEF Dispatch
<1>4. e \in Content /\ Free(e) /\ Clear(e) /\ e \in Files
  BY <1>1, <1>2, <1>3, ContentFiles DEF Planned
<1>5. Attached' /\ StaysFailed /\ (Rests \/ \E i : Adds(i, e))
  BY <1>1, <1>3, <1>4, AddedEffect DEF IInv, Steady
<1>6. \A f \in Content :
        /\ Copied(f) => Copied(f)' \/ Excused(f)'
        /\ f # e /\ Free(f) => Free(f)'
        /\ troubles = 0 /\ Present(f) => Present(f)'
  BY <1>1, <1>4, <1>5, QueuedCopied DEF IInv, Resting
<1>7. \A f \in Content : troubles = 0 => Present(f)'
  BY <1>6 DEF Steady, Presence
<1>8. PICK pc : pc = IF req[t].op = "reembed" THEN "purge" ELSE "dispatch"
  OBVIOUS
<1>9. PICK r : r = [req[t] EXCEPT !.todo = @ \ {e}, !.f = None]
  OBVIOUS
<1>10. PICK s : s = [r EXCEPT !.pc = pc]
  OBVIOUS
<1>11. /\ s.pc = pc /\ s.f = None /\ s.op = req[t].op
       /\ s.todo = req[t].todo \ {e} /\ s.force = req[t].force
  BY <1>2, <1>9, <1>10 DEF Request
<1>12. r.todo = s.todo
  BY <1>2, <1>9, <1>11 DEF Request
<1>13. OnTo(t, pc, r)
  BY <1>3, <1>8, <1>9
<1>14. \A f \in s.todo : f \in Content /\ Free(f)'
  BY <1>1, <1>2, <1>6, <1>11 DEF Planned
<1>15. s.todo # {} /\ s.op # "reembed" => \A f \in s.todo : Clear(f)'
  <2>1. ASSUME s.todo # {}, s.op # "reembed", NEW f \in s.todo PROVE Clear(f)'
    <3>1. req[t].f = None
      BY <1>1, <1>2, <1>3, <1>11, <2>1 DEF Planned
    <3>2. Clear(f) /\ f \in Content
      BY <1>1, <1>2, <1>11, <2>1, <3>1 DEF Planned
    <3>3. Stored(f)' <=> Stored(f)
      BY <1>1, AllHeld
    <3>4. Excused(f) => Excused(f)'
      BY <1>1, <1>5, StaysExcused DEF IInv, Resting
    <3>5. QED
      BY <3>2, <3>3, <3>4 DEF Clear
  <2>2. QED
    BY <2>1
<1>16. s.todo # {} => Planned(s)'
  <2>1. s.op \in {"rebuild", "reembed"} => s.force
    BY <1>2, <1>11 DEF Planned
  <2>2. CASE s.op = "reembed"
    <3>1. s.pc = "purge"
      BY <1>8, <1>11, <2>2
    <3>2. QED
      BY <1>11, <1>14, <2>1, <2>2, <3>1 DEF Planned, Early
  <2>3. CASE s.op # "reembed"
    <3>1. s.pc = "dispatch"
      BY <1>8, <1>11, <2>3
    <3>2. QED
      BY <1>11, <1>14, <1>15, <2>1, <2>3, <3>1 DEF Planned, Early
  <2>4. QED
    BY <2>2, <2>3
<1>17. CASE s.todo # {}
  <2>1. req' = [req EXCEPT ![t] = s]
    BY <1>10, <1>12, <1>13, <1>17, NoRequestDone
  <2>2. s.op # "none"
    BY <1>2, <1>11
  <2>3. QED
    BY <1>1, <1>2, <1>5, <1>6, <1>7, <1>16, <1>17, <2>1, <2>2, RequestStep
<1>18. CASE s.todo = {}
  <2>1. req' = [req EXCEPT ![t] = NoRequest]
    BY <1>12, <1>13, <1>18, NoRequestDone
  <2>2. QED
    BY <1>1, <1>2, <1>5, <1>6, <1>7, <2>1, RequestStep
<1>19. QED
  BY <1>17, <1>18

LEMMA AnswerSteady ==
  ASSUME IInv, Steady, NEW t \in Tabs, Answer(t), ~Broken
  PROVE  Steady'
<1>1. ~Obliterate(t) /\ ~Remove(t)
  BY TheRequest DEF Obliterate, Remove, Planned
<1>2. QED
  BY <1>1, DiscoverSteady, FacetSteady, RowsSteady, CreateSteady, PurgeSteady, DispatchSteady,
     DropSteady, UnlinkSteady, ForgetSteady, WipeSteady DEF Answer

-----------------------------------------------------------------------------
(* New requests, while nobody crosses another's work.                      *)

(* What has no job in flight is free.                                      *)
LEMMA NobodyWorks ==
  ASSUME Running, Attached
  PROVE  /\ \A f \in Files : ~Inflight(f) => Free(f)
         /\ ~AnyInflight => \A f : Free(f)
<1>1. DOMAIN jobs = Files \cup Ids
  BY DEF Running
<1>2. \A h \in Handles : Working(h) =>
        /\ run[h].id \in Files \cup Ids /\ jobs[run[h].id].state = "active"
        /\ jobs[run[h].id].file = run[h].file
  BY Holding DEF Working, Attached
<1>3. \A f : ~Inflight(f) => Free(f)
  BY <1>1, <1>2 DEF Inflight, Free, WaitsFor, WorksOn, Waiting, Live
<1>4. ~AnyInflight => \A f : ~Inflight(f)
  BY DEF AnyInflight, Inflight
<1>5. QED
  BY <1>3, <1>4

LEMMA UnseenFree ==
  ASSUME Running, NEW f, Unseen(f)
  PROVE  Free(f) /\ ~Stored(f)
  BY DEF Running, Unseen, Free, WaitsFor, WorksOn

(* The first request since the others were answered.                       *)
LEMMA FirstRequest ==
  ASSUME IInv, Steady, NEW t \in Tabs, NEW r, Asks(t, r), ~Crossed
  PROVE  /\ \A u \in Tabs : u # t => req[u] = NoRequest
         /\ req' = [req EXCEPT ![t] = r] /\ troubles' = troubles
         /\ r.op \notin {"cancel", "cleanup"}
         /\ r.op \in {"scan", "replace", "delete"} => ~AnyInflight
<1>1. req' = [req EXCEPT ![t] = r] /\ req'[t] = r /\ troubles' = troubles /\ asked' # asked
  BY DEF Asks, IInv, Resting
<1>2. Asking = {}
  BY <1>1 DEF Crossed
<1>3. \A u \in Tabs : req[u] = NoRequest
  BY <1>2 DEF Asking, Steady, OneTab
<1>4. QED
  BY <1>1, <1>3 DEF Crossed

LEMMA AskSame ==
  ASSUME IInv, Steady, NEW t \in Tabs, NEW r, Asks(t, r), ~Crossed, r.op = "none" => r = NoRequest,
         UNCHANGED <<points, jobs, run>>, \A f \in Content : NoNewDecision(f),
         \A f \in Content : (f \in disk' <=> f \in disk) \/ Free(f),
         r # NoRequest => Planned(r)'
  PROVE  Steady'
<1>1. Attached' /\ StaysFailed /\ \A f : RestsAt(f)
  BY SameJobs
<1>2. \A f \in Content : Held(f)
  BY AllHeld
<1>3. QED
  BY <1>1, <1>2, FirstRequest, QuietRequest

LEMMA UploadSteady ==
  ASSUME IInv, Steady, NEW t \in Tabs, NEW f \in Files, Upload(t, f), ~Crossed
  PROVE  Steady'
<1>1. /\ f \in Uploads /\ UNCHANGED <<points, row, jobs, run>> /\ disk' = disk \cup {f}
      /\ Free(f) /\ ~Stored(f)
  BY UnseenFree DEF Upload, IInv
<1>2. \A g : NoNewDecision(g) /\ (Free(g)' <=> Free(g)) /\ (Stored(g)' <=> Stored(g))
  BY <1>1, AllHeld, HeldDecision, SameJobs
<1>3. PICK r : r = [NoRequest EXCEPT !.op = "upload", !.pc = "dispatch", !.todo = {f}]
  OBVIOUS
<1>4. /\ r.op = "upload" /\ r.pc = "dispatch" /\ r.todo = {f} /\ r.f = None /\ r.force = FALSE
  BY <1>3 DEF NoRequest
<1>5. Planned(r)'
  BY <1>1, <1>2, <1>4 DEF Planned, Early, Clear, Content
<1>6. \A g \in Content : (g \in disk' <=> g \in disk) \/ Free(g)
  BY <1>1
<1>7. Asks(t, r)
  BY <1>3 DEF Upload
<1>8. QED
  BY <1>1, <1>2, <1>4, <1>5, <1>6, <1>7, AskSame

LEMMA InstallSteady ==
  ASSUME IInv, Steady, NEW t \in Tabs, NEW f \in Files, Install(t, f), ~Crossed
  PROVE  Steady'
<1>1. /\ f \in Zims /\ UNCHANGED <<points, run>> /\ disk' = disk \cup {f}
      /\ Free(f) /\ ~Stored(f) /\ Asks(t, NoRequest) /\ f \in Content
  BY UnseenFree DEF Install, IInv, Content
<1>2. \A g \in Content : Held(g) /\ ((g \in disk' <=> g \in disk) \/ Free(g))
  BY <1>1, AllHeld
<1>3. CASE row' = [row EXCEPT ![f] = Pending] /\ jobs' = jobs
  <2>1. ASSUME NEW g \in Content PROVE NoNewDecision(g)
    <3>1. g = f => ~Stored(g)'
      BY <1>1, AllHeld
    <3>2. g # f => row'[g] = row[g]
      BY <1>3, ContentFiles DEF IInv, Resting
    <3>3. QED
      BY <1>2, <3>1, <3>2, HeldDecision DEF NoNewDecision
  <2>2. QED
    BY <1>1, <1>2, <1>3, <2>1, AskSame
<1>4. CASE row' = row /\ jobs' = Added(f)
  <2>1. Attached' /\ StaysFailed /\ (Rests \/ \E i : Adds(i, f))
    BY <1>1, <1>4, AddedEffect DEF IInv, Steady
  <2>2. /\ \A u \in Tabs : u # t => req[u] = NoRequest
        /\ req' = [req EXCEPT ![t] = NoRequest] /\ troubles' = troubles
    BY <1>1, FirstRequest
  <2>3. \A g \in Content : g # f => (g \in disk' <=> g \in disk)
    BY <1>1
  <2>4. \A g \in Content :
          /\ Copied(g) => Copied(g)' \/ Excused(g)'
          /\ troubles = 0 /\ Present(g) => Present(g)'
    <3>1. Clear(f)
      BY <1>1 DEF Clear
    <3>2. UNCHANGED <<points, row>>
      BY <1>1, <1>4
    <3>3. points \in [Files -> [Numbers -> 0..Many]] /\ troubles \in Nat
      BY DEF IInv, Resting
    <3>4. QED
      BY <1>1, <2>1, <2>2, <2>3, <3>1, <3>2, <3>3, QueuedCopied
  <2>5. \A g \in Content : troubles = 0 => Present(g)'
    BY <2>4 DEF Steady, Presence
  <2>6. QED
    BY <2>1, <2>2, <2>4, <2>5, RequestStep
<1>5. QED
  BY <1>3, <1>4 DEF Install

LEMMA ReplaceSteady ==
  ASSUME IInv, Steady, NEW t \in Tabs, NEW f \in Files, NEW g \in Files, Replace(t, f, g), ~Crossed
  PROVE  Steady'
<1>1. PICK r : r = [NoRequest EXCEPT !.op = "replace", !.pc = "drop", !.f = f, !.todo = {g}]
  OBVIOUS
<1>2. r.op = "replace" /\ r.pc = "drop" /\ r.todo = {g} /\ r.f = f /\ r.force = FALSE
  BY <1>1 DEF NoRequest
<1>3. Asks(t, r) /\ UNCHANGED <<points, row, jobs, run>> /\ g \in Content /\ ~Stored(g)
  BY <1>1, UnseenFree DEF Replace, IInv, Content
<1>4. \A e : Free(e)
  BY <1>2, <1>3, FirstRequest, NobodyWorks DEF IInv, Steady
<1>5. \A e : NoNewDecision(e) /\ Free(e)' /\ (Stored(e)' <=> Stored(e))
  BY <1>3, <1>4, AllHeld, HeldDecision, SameJobs
<1>6. Planned(r)'
  BY <1>2, <1>3, <1>5 DEF Planned, Early
<1>7. QED
  BY <1>2, <1>3, <1>4, <1>5, <1>6, AskSame

LEMMA SweepSteady ==
  ASSUME IInv, Steady, NEW t \in Tabs, NEW op, Sweep(t, op), ~Crossed
  PROVE  Steady'
<1>1. PICK pc : pc = IF op = "rebuild" THEN "wipe" ELSE "docs"
  OBVIOUS
<1>2. PICK force : force = (op # "scan")
  OBVIOUS
<1>3. PICK r : r = [NoRequest EXCEPT !.op = op, !.pc = pc, !.force = force]
  OBVIOUS
<1>4. r.op = op /\ r.pc = pc /\ r.todo = {} /\ r.f = None /\ r.force = force
  BY <1>3 DEF NoRequest
<1>5. /\ Asks(t, r) /\ UNCHANGED <<disk, points, row, jobs, run>>
      /\ op \in {"scan", "reembed", "rebuild"} /\ (op # "scan" => ~AnyInflight)
  BY <1>1, <1>2, <1>3 DEF Sweep
<1>6. \A e : Free(e)
  BY <1>4, <1>5, FirstRequest, NobodyWorks DEF IInv, Steady
<1>7. \A e : NoNewDecision(e) /\ Free(e)'
  BY <1>5, <1>6, AllHeld, HeldDecision, SameJobs
<1>8. r.pc \in {"wipe", "docs"} /\ (r.op = "rebuild" <=> r.pc = "wipe")
  BY <1>1, <1>4
<1>9. r.op \in {"rebuild", "reembed"} => r.force
  BY <1>2, <1>4
<1>10. Planned(r)'
  BY <1>4, <1>5, <1>7, <1>8, <1>9 DEF Planned, Early
<1>11. QED
  BY <1>4, <1>5, <1>7, <1>10, AskSame

LEMMA EmbedSteady ==
  ASSUME IInv, Steady, NEW t \in Tabs, NEW f \in Files, Embed(t, f), ~Crossed
  PROVE  Steady'
<1>1. PICK force : force = ~Reads(f, "pending_decision")
  OBVIOUS
<1>2. PICK pc : pc = IF force THEN "purge" ELSE "dispatch"
  OBVIOUS
<1>3. PICK r : r = [NoRequest EXCEPT !.op = "embed", !.pc = pc, !.todo = {f}, !.force = force]
  OBVIOUS
<1>4. r.op = "embed" /\ r.pc = pc /\ r.todo = {f} /\ r.f = None /\ r.force = force
  BY <1>3 DEF NoRequest
<1>5. Asks(t, r)
  BY <1>1, <1>2, <1>3 DEF Embed, ToEmbed
<1>6. UNCHANGED <<disk, points, row, jobs, run>> /\ f \in Content /\ Free(f)
  BY NobodyWorks DEF Embed, Listed, Content, Files, IInv, Steady
<1>7. \A e : NoNewDecision(e) /\ (Free(e)' <=> Free(e)) /\ (Stored(e)' <=> Stored(e))
  BY <1>6, AllHeld, HeldDecision, SameJobs
<1>8. Clear(f) \/ force
  BY <1>1, <1>6 DEF Steady, Copies, Copied, Clear
<1>9. Clear(f) => Clear(f)'
  <2>1. troubles' = troubles
    BY <1>5 DEF Asks
  <2>2. QED
    BY <1>6, <2>1, AllHeld, StaysClear
<1>10. Planned(r)'
  <2>1. CASE force
    <3>1. r.pc = "purge" /\ r.force
      BY <1>2, <1>4, <2>1
    <3>2. QED
      BY <1>4, <1>6, <1>7, <3>1 DEF Planned, Early
  <2>2. CASE ~force
    <3>1. r.pc = "dispatch" /\ Clear(f)'
      BY <1>2, <1>4, <1>8, <1>9, <2>2
    <3>2. QED
      BY <1>4, <1>6, <1>7, <3>1 DEF Planned, Early
  <2>3. QED
    BY <2>1, <2>2
<1>11. QED
  BY <1>4, <1>5, <1>6, <1>7, <1>10, AskSame

LEMMA DeleteSteady ==
  ASSUME IInv, Steady, NEW t \in Tabs, NEW f \in Files, Delete(t, f), ~Crossed
  PROVE  Steady'
<1>1. PICK r : r = [NoRequest EXCEPT !.op = "delete", !.pc = "drop", !.f = f]
  OBVIOUS
<1>2. r.op = "delete" /\ r.pc = "drop" /\ r.todo = {} /\ r.f = f /\ r.force = FALSE
  BY <1>1 DEF NoRequest
<1>3. Asks(t, r) /\ UNCHANGED <<disk, points, row, jobs, run>>
  BY <1>1 DEF Delete
<1>4. \A e : Free(e)
  BY <1>2, <1>3, FirstRequest, NobodyWorks DEF IInv, Steady
<1>5. \A e : NoNewDecision(e) /\ Free(e)'
  BY <1>3, <1>4, AllHeld, HeldDecision, SameJobs
<1>6. Planned(r)'
  BY <1>2, <1>5 DEF Planned, Early
<1>7. QED
  BY <1>2, <1>3, <1>5, <1>6, AskSame

LEMMA AskSteady ==
  ASSUME IInv, Steady, Ask, ~Crossed
  PROVE  Steady'
<1>1. PICK t \in Tabs :
        \/ \E f \in Files : \/ Upload(t, f) \/ Install(t, f) \/ Delete(t, f) \/ Embed(t, f)
                            \/ \E g \in Files : Replace(t, f, g)
        \/ \E op \in Ops : Sweep(t, op)
        \/ Cancel(t) \/ Cleanup(t) \/ SetPolicy(t)
  BY DEF Ask
<1>2. ~Cancel(t)
  <2>1. SUFFICES ASSUME Cancel(t) PROVE FALSE
    OBVIOUS
  <2>2. PICK r : r = [NoRequest EXCEPT !.op = "cancel", !.pc = "obliterate"]
    OBVIOUS
  <2>3. Asks(t, r) /\ r.op = "cancel"
    BY <2>1, <2>2 DEF Cancel, NoRequest
  <2>4. QED
    BY <2>3, FirstRequest
<1>3. ~Cleanup(t)
  <2>1. SUFFICES ASSUME Cleanup(t) PROVE FALSE
    OBVIOUS
  <2>2. PICK failed : failed = {i \in DOMAIN jobs :
                       jobs[i].state \in {"waiting", "delayed", "failed"} /\ jobs[i].err}
    OBVIOUS
  <2>3. PICK r : r = [NoRequest EXCEPT !.op = "cleanup", !.pc = "remove", !.todo = failed]
    OBVIOUS
  <2>4. Asks(t, r) /\ r.op = "cleanup"
    BY <2>1, <2>2, <2>3 DEF Cleanup, NoRequest
  <2>5. QED
    BY <2>4, FirstRequest
<1>4. CASE SetPolicy(t)
  <2>1. Asks(t, NoRequest) /\ UNCHANGED <<disk, points, row, jobs, run>>
    BY <1>4 DEF SetPolicy
  <2>2. \A f : NoNewDecision(f)
    BY <2>1, AllHeld, HeldDecision
  <2>3. QED
    BY <2>1, <2>2, AskSame
<1>5. QED
  BY <1>1, <1>2, <1>3, <1>4, UploadSteady, InstallSteady, DeleteSteady, EmbedSteady,
     ReplaceSteady, SweepSteady

-----------------------------------------------------------------------------
(* While `calm`.                                                           *)
CalmInv == IInv /\ (calm => Steady)

LEMMA InitSteady == Init => Steady
<1> SUFFICES ASSUME Init PROVE Steady
  OBVIOUS
<1>1. /\ \A i \in Files \cup Ids : jobs[i] = NoJob
      /\ \A h \in Handles : run[h] = Idle
      /\ \A t \in Tabs : req[t] = NoRequest
  BY DEF Init
<1>2. NoJob.state = "none" /\ Idle.pc = "idle" /\ NoRequest.op = "none"
  BY DEF NoJob, Idle, NoRequest
<1>3. Attached /\ OneTab
  BY <1>1, <1>2 DEF Attached, OneTab
<1>4. \A f : Free(f) /\ OneAtWork(f) /\ \A i \in Files \cup Ids : ~WaitsFor(i, f)
  BY <1>1, <1>2 DEF Free, OneAtWork, WaitsFor, WorksOn, Waiting, Working
<1>5. \A f \in Files : ~Reads(f, "pending_decision") /\ \A b \in Numbers : points[f][b] <= 1
  <2>1. PICK known \in SUBSET disk :
          /\ row = [f \in Files |-> IF f \in known
                    THEN Indexed(Size(f)) ELSE NoRow]
          /\ points = [f \in Files |-> IF f \in known \cup Docs THEN Embedded(f) ELSE Empty]
    BY DEF Init
  <2>2. \A n : Indexed(n).state = "indexed"
    BY DEF Indexed
  <2>3. \A f \in Files : ~Reads(f, "pending_decision")
    BY <2>1, <2>2 DEF Reads
  <2>4. \A f \in Files, b \in Numbers : Embedded(f)[b] <= 1 /\ Empty[b] <= 1
    BY DEF Embedded, Empty
  <2>5. QED
    BY <2>1, <2>3, <2>4
<1>6. \A f \in Content : Copied(f) /\ Present(f)
  BY <1>4, <1>5, ContentFiles DEF Copied, Present, Free
<1>7. \A t \in Tabs : Planned(req[t])
  BY <1>1, NothingPlanned
<1>8. QED
  BY <1>3, <1>6, <1>7 DEF Steady, Copies, Presence

LEMMA NextSteady ==
  ASSUME IInv, Steady, Next, ~Crossed, ~Broken
  PROVE  Steady'
<1>1. ~Crash
  BY DEF Crash, Trouble, Broken, IInv, Resting
<1>2. Ask \/ QueueStep \/ (\E t \in Tabs : Answer(t)) \/ (\E h \in Handles : Work(h))
  BY <1>1 DEF Next, QueueStep
<1>3. QED
  BY <1>2, AskSteady, QueueSteady, AnswerSteady, WorkSteady

LEMMA SteadyUnchanged == Steady /\ UNCHANGED vars => Steady'
<1> SUFFICES ASSUME Steady, UNCHANGED vars PROVE Steady'
  OBVIOUS
<1>1. UNCHANGED <<disk, points, row, jobs, run, req, troubles>>
  BY DEF vars, bounds
<1>2. QED
  BY <1>1 DEF Steady, Attached, OneTab, Copies, Copied, Excused, GaveUp, OneAtWork, WaitsFor,
     WorksOn, Waiting, Working, UpTo, Reached, Reads, Stored, Free, Presence, Present, Planned, Clear

LEMMA CalmNext == CalmInv /\ [Next /\ History]_history => CalmInv'
<1> SUFFICES ASSUME CalmInv, [Next /\ History]_history PROVE CalmInv'
  OBVIOUS
<1>1. IInv'
  <2>1. [Next]_vars
    BY DEF history
  <2>2. QED
    BY <2>1, NextHolds DEF CalmInv
<1>2. ASSUME calm' PROVE Steady'
  <2>1. CASE Next /\ History
    <3>1. calm /\ ~Crossed /\ ~Broken
      BY <1>2, <2>1 DEF History
    <3>2. QED
      BY <2>1, <3>1, NextSteady DEF CalmInv
  <2>2. CASE UNCHANGED history
    <3>1. calm' = calm /\ UNCHANGED vars
      BY <2>2 DEF history
    <3>2. QED
      BY <1>2, <3>1, SteadyUnchanged DEF CalmInv
  <2>3. QED
    BY <2>1, <2>2
<1>3. QED
  BY <1>1, <1>2 DEF CalmInv

LEMMA CalmHolds == HistorySpec => []CalmInv
<1>1. Init => CalmInv
  BY InitHolds, InitSteady DEF CalmInv
<1>2. QED
  BY <1>1, CalmNext, PTL DEF HistorySpec

(* While nobody crossed another's work and nothing was lost, no passage is *)
(* embedded twice (MCKnowledgeBase.OneCopyEach), whatever fails and is     *)
(* tried again: what waits, what an execution works on and what a request  *)
(* is about to queue are one chain, and nothing is stored ahead of it.     *)
THEOREM EmbeddedOnce == HistorySpec => []OneCopyEach
<1>1. CalmInv => OneCopyEach
  BY DEF CalmInv, Steady, Copies, Content, Excused, Copied, OneCopyEach
<1>2. QED
  BY <1>1, CalmHolds, PTL

-----------------------------------------------------------------------------
(* Chains of batches, while no call failed: a job has the batches before   *)
(* its own behind it, all of them counted; a file at rest is all there, or *)
(* not at all, and its row says so.                                        *)

Onward(f, b, n) == Full(f, b - 1) /\ n = b - 1 /\ b <= Size(f)
Midway(f, q) ==
  /\ Onward(f, q.batch, q.sofar)
  /\ q.pc \in {"check", "dispatch", "finish"} => Full(f, q.batch) /\ q.got = 1
  /\ q.pc \in {"check", "dispatch"} => q.batch < Size(f)
  /\ q.pc = "finish" => q.batch = Size(f)

Onwards(f) ==
  /\ \A i \in Files \cup Ids : WaitsFor(i, f) => Onward(f, jobs[i].batch, jobs[i].sofar)
  /\ \A h \in Handles : WorksOn(h, f) => Midway(f, run[h])

(* The request by which a file that is gone loses what it has; those after *)
(* which a row may claim chunks that are gone.                             *)
MovedBy(r, f) == r.op = "replace" /\ r.pc = "drop" /\ r.f = f
TouchedBy(r, f) ==
  \/ r.f = f /\ r.pc \in {"dispatch", "unlink", "forget"}
  \/ r.op = "rebuild" /\ (r.pc = "docs" \/ (r.pc = "dispatch" /\ f \in r.todo))
Moved(f) == \E t \in Tabs : MovedBy(req[t], f)
Touched(f) == \E t \in Tabs : TouchedBy(req[t], f)

AtRest(f) ==
  Stored(f) /\ Free(f) => Reads(f, "indexed") /\ Full(f, Size(f)) /\ UpTo(f, Size(f))
Gone(f) == Stored(f) /\ f \notin disk => Moved(f)
Counted(f) == Reads(f, "indexed") /\ row[f].chunks > 0 => row[f].chunks = Size(f)
Backed(f) ==
  f \in disk /\ Reads(f, "indexed") /\ row[f].chunks > 0 /\ Free(f) /\ ~Touched(f) => Stored(f)

Chained(f) == Onwards(f) /\ AtRest(f) /\ Gone(f) /\ Counted(f) /\ Backed(f)
Chains == \A f \in Content : Chained(f)

LEMMA RestsOnwards ==
  ASSUME NEW f, RestsAt(f), Onwards(f), Held(f) \/ Free(f)
  PROVE  Onwards(f)'
<1>1. CASE Free(f)
  BY <1>1 DEF RestsAt, Onwards, Free
<1>2. CASE Held(f)
  <2>1. \A n : Full(f, n) => Full(f, n)'
    BY <1>2, HeldSame
  <2>2. \A i \in Files \cup Ids : WaitsFor(i, f)' => Onward(f, jobs[i].batch, jobs[i].sofar)'
    BY <2>1 DEF RestsAt, Onwards, Onward, Full
  <2>3. \A h \in Handles : WorksOn(h, f)' => Midway(f, run[h])'
    BY <2>1 DEF RestsAt, Onwards, Midway, Onward, Full
  <2>4. QED
    BY <2>2, <2>3 DEF Onwards
<1>3. QED
  BY <1>1, <1>2

LEMMA TakesOnwards ==
  ASSUME NEW h \in Handles, NEW i, Takes(h, i), NEW f, Onwards(f), Held(f)
  PROVE  Onwards(f)'
<1>1. /\ \A j \in Files \cup Ids : WaitsFor(j, f)' <=> WaitsFor(j, f) /\ j # i
      /\ \A g \in Handles : WorksOn(g, f)' <=> WorksOn(g, f) \/ (g = h /\ WaitsFor(i, f))
  BY TakesFree
<1>2. \A n : Full(f, n) => Full(f, n)'
  BY HeldSame
<1>3. \A j \in Files \cup Ids : WaitsFor(j, f)' => Onward(f, jobs[j].batch, jobs[j].sofar)'
  <2>1. \A j \in Files \cup Ids : WaitsFor(j, f) /\ j # i =>
          jobs'[j].batch = jobs[j].batch /\ jobs'[j].sofar = jobs[j].sofar
    BY DEF Takes, KeepsJobs, WaitsFor
  <2>2. QED
    BY <1>1, <1>2, <2>1 DEF Onwards, Onward, Full
<1>4. \A g \in Handles : WorksOn(g, f)' => Midway(f, run[g])'
  <2>1. \A g \in Handles : WorksOn(g, f) => g # h /\ run'[g] = run[g]
    BY DEF Takes, KeepsRuns, WorksOn
  <2>2. /\ i \in Files \cup Ids /\ run'[h].pc = "ready"
        /\ run'[h].batch = jobs[i].batch /\ run'[h].sofar = jobs[i].sofar
    BY DEF Takes
  <2>3. WaitsFor(i, f) => Midway(f, run[h])'
    BY <1>2, <2>2 DEF Onwards, Midway, Onward, Full
  <2>4. \A g \in Handles : WorksOn(g, f) => Midway(f, run[g])'
    BY <1>2, <2>1 DEF Onwards, Midway, Onward, Full
  <2>5. QED
    BY <1>1, <2>3, <2>4
<1>5. QED
  BY <1>3, <1>4 DEF Onwards

LEMMA GoesOnwards ==
  ASSUME NEW h \in Handles, Goes(h), NEW f, Onwards(f),
         \A x \in Numbers : points[f][x] = 1 => points'[f][x] = 1,
         f = run[h].file =>
           /\ run'[h].pc \in {"check", "dispatch", "finish"} =>
                Full(f, run[h].batch)' /\ run'[h].got = 1
           /\ run'[h].pc \in {"check", "dispatch"} => run[h].batch < Size(f)
           /\ run'[h].pc = "finish" => run[h].batch = Size(f)
  PROVE  Onwards(f)'
<1>1. /\ \A j \in Files \cup Ids : WaitsFor(j, f)' <=> WaitsFor(j, f)
      /\ \A g \in Handles : WorksOn(g, f)' <=> WorksOn(g, f)
  BY GoesFree
<1>2. \A n : Full(f, n) => Full(f, n)'
  BY DEF Full
<1>3. \A j \in Files \cup Ids : WaitsFor(j, f)' => Onward(f, jobs[j].batch, jobs[j].sofar)'
  <2>1. \A j \in Files \cup Ids : WaitsFor(j, f) =>
          jobs'[j].batch = jobs[j].batch /\ jobs'[j].sofar = jobs[j].sofar
    BY DEF Goes, KeepsJobs, WaitsFor
  <2>2. QED
    BY <1>1, <1>2, <2>1 DEF Onwards, Onward, Full
<1>4. \A g \in Handles : WorksOn(g, f)' => Midway(f, run[g])'
  <2>1. \A g \in Handles : WorksOn(g, f) /\ g # h => run'[g] = run[g]
    BY DEF Goes, KeepsRuns, WorksOn
  <2>2. \A g \in Handles : WorksOn(g, f) /\ g # h => Midway(f, run[g])'
    BY <1>2, <2>1 DEF Onwards, Midway, Onward, Full
  <2>3. run'[h].batch = run[h].batch /\ run'[h].sofar = run[h].sofar
    BY DEF Goes
  <2>4. WorksOn(h, f) => f = run[h].file /\ Onward(f, run[h].batch, run[h].sofar)
    BY DEF Onwards, Midway, WorksOn
  <2>5. WorksOn(h, f) => Midway(f, run[h])'
    BY <1>2, <2>3, <2>4 DEF Midway, Onward, Full, Size
  <2>6. QED
    BY <1>1, <2>2, <2>5
<1>5. QED
  BY <1>3, <1>4 DEF Onwards

LEMMA PassesOnwards ==
  ASSUME NEW h \in Handles, NEW i, NEW b, NEW n, Passes(h, i, b, n), NEW f, Onwards(f), Held(f),
         WorksOn(h, f) => Onward(f, b, n)
  PROVE  Onwards(f)'
<1>1. /\ \A j \in Files \cup Ids : WaitsFor(j, f)' <=> WaitsFor(j, f) \/ (j = i /\ WorksOn(h, f))
      /\ \A g \in Handles : WorksOn(g, f)' <=> WorksOn(g, f) /\ g # h
  BY PassesFree
<1>2. \A x : Full(f, x) => Full(f, x)'
  BY HeldSame
<1>3. \A j \in Files \cup Ids : WaitsFor(j, f)' => Onward(f, jobs[j].batch, jobs[j].sofar)'
  <2>1. \A j \in Files \cup Ids : WaitsFor(j, f) =>
          j # i /\ jobs'[j].batch = jobs[j].batch /\ jobs'[j].sofar = jobs[j].sofar
    BY DEF Passes, Queues, KeepsJobs, WaitsFor
  <2>2. jobs'[i].batch = b /\ jobs'[i].sofar = n
    BY DEF Passes, Queues
  <2>3. \A j \in Files \cup Ids : WaitsFor(j, f)' => Onward(f, jobs'[j].batch, jobs'[j].sofar)
    BY <1>1, <2>1, <2>2 DEF Onwards
  <2>4. QED
    BY <1>2, <2>3 DEF Onward, Full
<1>4. \A g \in Handles : WorksOn(g, f)' => Midway(f, run[g])'
  <2>1. \A g \in Handles : WorksOn(g, f) /\ g # h => run'[g] = run[g]
    BY DEF Passes, KeepsRuns, WorksOn
  <2>2. QED
    BY <1>1, <1>2, <2>1 DEF Onwards, Midway, Onward, Full
<1>5. QED
  BY <1>3, <1>4 DEF Onwards

LEMMA LeavesOnwards ==
  ASSUME NEW h \in Handles, Leaves(h), NEW f, Onwards(f), Held(f)
  PROVE  Onwards(f)'
<1>1. /\ \A j \in Files \cup Ids : WaitsFor(j, f)' <=> WaitsFor(j, f)
      /\ \A g \in Handles : WorksOn(g, f)' <=> WorksOn(g, f) /\ g # h
  BY LeavesFree
<1>2. \A x : Full(f, x) => Full(f, x)'
  BY HeldSame
<1>3. \A j \in Files \cup Ids : WaitsFor(j, f)' => Onward(f, jobs[j].batch, jobs[j].sofar)'
  <2>1. \A j \in Files \cup Ids : WaitsFor(j, f) =>
          jobs'[j].batch = jobs[j].batch /\ jobs'[j].sofar = jobs[j].sofar
    BY DEF Leaves, KeepsJobs, WaitsFor
  <2>2. QED
    BY <1>1, <1>2, <2>1 DEF Onwards, Onward, Full
<1>4. \A g \in Handles : WorksOn(g, f)' => Midway(f, run[g])'
  <2>1. \A g \in Handles : WorksOn(g, f) /\ g # h => run'[g] = run[g]
    BY DEF Leaves, KeepsRuns, WorksOn
  <2>2. QED
    BY <1>1, <1>2, <2>1 DEF Onwards, Midway, Onward, Full
<1>5. QED
  BY <1>3, <1>4 DEF Onwards

(* The rest of it, when what is stored and what the row says stay.         *)
LEMMA AtRestStays ==
  ASSUME NEW f, Chained(f), Free(f)' => Free(f), Held(f), row'[f] = row[f],
         UNCHANGED <<disk, req>>
  PROVE  AtRest(f)' /\ Gone(f)' /\ Counted(f)' /\ Backed(f)'
<1>1. /\ Stored(f)' <=> Stored(f)
      /\ \A n : (UpTo(f, n)' <=> UpTo(f, n)) /\ (Full(f, n)' <=> Full(f, n))
  BY HeldSame
<1>2. \A s : Reads(f, s)' <=> Reads(f, s)
  BY DEF Reads
<1>3. (Moved(f)' <=> Moved(f)) /\ (Touched(f)' <=> Touched(f))
  BY DEF Moved, Touched, MovedBy, TouchedBy
<1>4. AtRest(f)'
  BY <1>1, <1>2 DEF Chained, AtRest, Size, Full, UpTo
<1>5. Gone(f)'
  BY <1>1, <1>3 DEF Chained, Gone
<1>6. Counted(f)'
  BY <1>2 DEF Chained, Counted, Size
<1>7. Backed(f)'
  BY <1>1, <1>2, <1>3 DEF Chained, Backed
<1>8. QED
  BY <1>4, <1>5, <1>6, <1>7

LEMMA QueueChains ==
  ASSUME IInv, Steady, Chains, QueueStep, ~Broken
  PROVE  Chains'
<1>0. Running /\ Attached /\ DOMAIN jobs = Files \cup Ids
  BY DEF IInv, Running, Steady
<1>1. PICK i \in Files \cup Ids :
        Promote(i) \/ Stalled(i) \/ Forgotten(i) \/ \E h \in Handles : Start(h, i)
  BY <1>0 DEF QueueStep
<1>2. CASE Promote(i)
  <2>1. Rests
    BY <1>0, <1>2, PromoteEffect
  <2>2. UNCHANGED <<disk, points, row, req>>
    BY <1>2 DEF Promote
  <2>3. ASSUME NEW f \in Content PROVE Chained(f)'
    <3>1. Chained(f) /\ Held(f) /\ RestsAt(f) /\ (Free(f)' <=> Free(f))
      BY <2>1, <2>2, AllHeld, RestsHere, RestsFree DEF Chains
    <3>2. QED
      BY <2>2, <3>1, RestsOnwards, AtRestStays DEF Chained
  <2>4. QED
    BY <2>3 DEF Chains
<1>3. CASE Stalled(i)
  BY <1>0, <1>3, NobodyStalls
<1>4. CASE Forgotten(i)
  <2>1. jobs[i].state # NoJob.state /\ jobs' = [jobs EXCEPT ![i] = NoJob]
    BY <1>4, NoJobType DEF Forgotten
  <2>2. jobs' # jobs
    BY <1>0, <2>1
  <2>3. troubles' # troubles
    BY <1>4 DEF Forgotten, Trouble, IInv, Resting
  <2>4. QED
    BY <2>2, <2>3 DEF Broken
<1>5. ASSUME NEW h \in Handles, Start(h, i) PROVE Chains'
  <2>1. Takes(h, i)
    BY <1>0, <1>5, StartEffect
  <2>2. UNCHANGED <<disk, points, row, req>>
    BY <1>5 DEF Start
  <2>3. ASSUME NEW f \in Content PROVE Chained(f)'
    <3>1. Chained(f) /\ Held(f) /\ (Free(f)' <=> Free(f))
      BY <2>1, <2>2, AllHeld, TakesFree DEF Chains
    <3>2. QED
      BY <2>1, <2>2, <3>1, TakesOnwards, AtRestStays DEF Chained
  <2>4. QED
    BY <2>3 DEF Chains
<1>6. QED
  BY <1>1, <1>2, <1>3, <1>4, <1>5

LEMMA IndexedRow ==
  ASSUME NEW n \in 0..Batches
  PROVE  Indexed(n) # NoRow
<1>1. Indexed(n) \in [state : {"pending_decision", "indexed", "failed"}, chunks : 0..Batches]
  BY DEF Indexed
<1>2. QED
  BY <1>1, NoRowAssumption

LEMMA NoTrouble ==
  ASSUME IInv, troubles = 0, troubles' = 0
  PROVE  ~Trouble
  BY DEF Trouble

(* An execution goes on, or hands over, and stores nothing.                *)
LEMMA GoesChains ==
  ASSUME IInv, Chains, NEW h \in Handles, Goes(h), UNCHANGED <<disk, points, row, req>>,
         run[h].file \in Content /\ Midway(run[h].file, run[h]) =>
           /\ run'[h].pc \in {"check", "dispatch", "finish"} =>
                Full(run[h].file, run[h].batch) /\ run'[h].got = 1
           /\ run'[h].pc \in {"check", "dispatch"} => run[h].batch < Size(run[h].file)
           /\ run'[h].pc # "finish"
  PROVE  Chains'
<1>1. ASSUME NEW f \in Content PROVE Chained(f)'
  <2>1. Chained(f) /\ Held(f) /\ (Free(f)' <=> Free(f))
    BY AllHeld, GoesFree DEF Chains
  <2>2. f = run[h].file => Midway(f, run[h])
    BY <2>1 DEF Chained, Onwards, Goes, WorksOn
  <2>3. f = run[h].file =>
          /\ run'[h].pc \in {"check", "dispatch", "finish"} =>
               Full(f, run[h].batch) /\ run'[h].got = 1
          /\ run'[h].pc \in {"check", "dispatch"} => run[h].batch < Size(f)
          /\ run'[h].pc # "finish"
    BY <2>2
  <2>4. \A n : Full(f, n) => \A b \in Numbers : b <= n => points'[f][b] = 1
    BY DEF Full
  <2>5. f = run[h].file => (run'[h].pc \in {"check", "dispatch", "finish"} => Full(f, run[h].batch)')
    <3>1. run'[h].batch = run[h].batch
      BY DEF Goes
    <3>2. QED
      BY <2>3, <2>4, <3>1 DEF Full
  <2>6. Onwards(f)'
    <3>1. \A x \in Numbers : points[f][x] = 1 => points'[f][x] = 1
      OBVIOUS
    <3>2. QED
      BY <2>1, <2>3, <2>5, <3>1, GoesOnwards DEF Chained
  <2>7. QED
    BY <2>1, <2>6, AtRestStays DEF Chained
<1>2. QED
  BY <1>1 DEF Chains

LEMMA PassesChains ==
  ASSUME IInv, Chains, NEW h \in Handles, NEW i, NEW b, NEW n, Passes(h, i, b, n),
         UNCHANGED <<disk, points, row, req>>,
         \A f \in Content : f = run[h].file /\ Midway(f, run[h]) => Onward(f, b, n)
  PROVE  Chains'
<1>1. ASSUME NEW f \in Content PROVE Chained(f)'
  <2>1. Chained(f) /\ Held(f)
    BY AllHeld DEF Chains
  <2>2. Free(f)' => Free(f)
    <3>1. /\ \A j \in Files \cup Ids : WaitsFor(j, f)' <=> WaitsFor(j, f) \/ (j = i /\ WorksOn(h, f))
          /\ \A g \in Handles : WorksOn(g, f)' <=> WorksOn(g, f) /\ g # h
          /\ i \in Files \cup Ids
      BY PassesFree DEF Passes, Queues
    <3>2. QED
      BY <3>1 DEF Free
  <2>3. WorksOn(h, f) => Onward(f, b, n)
    BY <2>1 DEF Chained, Onwards, WorksOn
  <2>4. Onwards(f)'
    BY <2>1, <2>3, PassesOnwards DEF Chained
  <2>5. QED
    BY <2>1, <2>2, <2>4, AtRestStays DEF Chained
<1>2. QED
  BY <1>1 DEF Chains

(* One ends its work: the file is all there and indexed, or is gone.       *)
LEMMA LeavesChains ==
  ASSUME IInv, Chains, NEW h \in Handles, Leaves(h), UNCHANGED <<disk, points, req>>,
         \A f \in Content : f # run[h].file => row'[f] = row[f],
         \A f \in Content : f = run[h].file /\ Chained(f) =>
           \/ /\ row'[f] = Indexed(Size(f)) /\ Stored(f)
              /\ Full(f, Size(f)) /\ UpTo(f, Size(f))
           \/ row'[f] = row[f] /\ f \notin disk /\ ~Stored(f)
  PROVE  Chains'
<1>1. ASSUME NEW f \in Content PROVE Chained(f)'
  <2>1. Chained(f) /\ Held(f)
    BY AllHeld DEF Chains
  <2>2. Onwards(f)'
    BY <2>1, LeavesOnwards DEF Chained
  <2>3. CASE f # run[h].file
    BY <2>1, <2>2, <2>3, LeavesFree, AtRestStays DEF Chained
  <2>4. CASE f = run[h].file
    <3>1. /\ Stored(f)' <=> Stored(f)
          /\ Full(f, Size(f))' <=> Full(f, Size(f))
          /\ UpTo(f, Size(f))' <=> UpTo(f, Size(f))
      BY <2>1, HeldSame DEF Full, UpTo, Size
    <3>2. Moved(f)' <=> Moved(f)
      BY DEF Moved, MovedBy
    <3>3. CASE /\ row'[f] = Indexed(Size(f)) /\ Stored(f)
               /\ Full(f, Size(f)) /\ UpTo(f, Size(f))
      <4>1. /\ Indexed(Size(f)).state = "indexed" /\ Indexed(Size(f)).chunks = Size(f)
        BY DEF Indexed
      <4>2. Counted(f)'
        BY <3>3, <4>1 DEF Counted, Size
      <4>3. AtRest(f)'
        <5>1. Indexed(Size(f)) # NoRow
          <6>1. Size(f) \in 0..Batches
            BY SizeType
          <6>2. QED
            BY <6>1, IndexedRow
        <5>2. Reads(f, "indexed")'
          BY <3>3, <4>1, <5>1 DEF Reads
        <5>3. QED
          BY <3>1, <3>3, <5>2 DEF AtRest, Full, UpTo, Size
      <4>4. Gone(f)' /\ Backed(f)'
        BY <2>1, <3>1, <3>2, <3>3 DEF Gone, Backed, Chained
      <4>5. QED
        BY <2>2, <4>2, <4>3, <4>4 DEF Chained
    <3>4. CASE row'[f] = row[f] /\ f \notin disk /\ ~Stored(f)
      <4>1. Counted(f)'
        BY <2>1, <3>4 DEF Counted, Chained, Reads, Size
      <4>2. AtRest(f)' /\ Gone(f)' /\ Backed(f)'
        BY <3>1, <3>4 DEF AtRest, Gone, Backed
      <4>3. QED
        BY <2>2, <4>1, <4>2 DEF Chained
    <3>5. QED
      BY <2>1, <2>4, <3>3, <3>4
  <2>5. QED
    BY <2>3, <2>4
<1>2. QED
  BY <1>1 DEF Chains

LEMMA StoreChains ==
  ASSUME IInv, Steady, Chains, troubles = 0, troubles' = 0,
         NEW h \in Handles, Store(h)
  PROVE  Chains'
<1>0. Running /\ Attached /\ ~Trouble
  BY NoTrouble DEF IInv, Steady
<1>1. /\ Goes(h) /\ run[h].pc = "store" /\ UNCHANGED <<disk, row, req>>
      /\ points' = [points EXCEPT ![run[h].file][run[h].batch] = IF @ = Many THEN @ ELSE @ + 1]
      /\ run'[h].pc = After(h) /\ run'[h].got = 1
  BY <1>0, StoreEffect DEF Store
<1>2. PICK e, b : e = run[h].file /\ b = run[h].batch
  OBVIOUS
<1>3. e \in Files /\ b \in Numbers /\ b \in Nat /\ points \in [Files -> [Numbers -> 0..Many]]
  BY <1>0, <1>1, <1>2, HandleTypes DEF IInv, Resting
<1>4. WorksOn(h, e)
  BY <1>1, <1>2 DEF WorksOn, Working
<1>5. \A f \in Content : f # e => Held(f)
  BY <1>1, <1>2, <1>3, ContentFiles DEF Held
<1>6. ASSUME e \in Content
      PROVE  /\ \A x \in Numbers : points'[e][x] = IF x = b THEN 1 ELSE points[e][x]
             /\ points[e][b] = 0 /\ Full(e, b - 1) /\ b <= Size(e) /\ e \in disk
  <2>1. Copied(e)
    BY <1>6 DEF Steady, Copies, Excused
  <2>2. Present(e) /\ Chained(e)
    BY <1>6 DEF Steady, Presence, Chains
  <2>3. Reached(run[h]) = b - 1
    BY <1>1, <1>2 DEF Reached
  <2>4. points[e][b] = 0
    BY <1>3, <1>4, <2>1, <2>3 DEF Copied, UpTo
  <2>5. \A x \in Numbers : points'[e][x] = IF x = b THEN 1 ELSE points[e][x]
    BY <1>1, <1>2, <1>3, <2>4 DEF Many
  <2>6. Onward(e, run[h].batch, run[h].sofar)
    BY <1>4, <2>2 DEF Chained, Onwards, Midway
  <2>7. e \in disk
    BY <1>1, <1>4, <2>2 DEF Present
  <2>8. QED
    BY <1>2, <2>4, <2>5, <2>6, <2>7 DEF Onward
<1>7. ASSUME e \in Content
      PROVE  /\ Full(e, b)'
             /\ run'[h].pc \in {"check", "dispatch"} => b < Size(e)
             /\ run'[h].pc = "finish" => b = Size(e)
  <2>1. \A x \in Numbers : x <= b => points'[e][x] = 1
    <3>1. ASSUME NEW x \in Numbers, x <= b PROVE points'[e][x] = 1
      <4>1. x \in Nat /\ (x = b \/ x <= b - 1)
        BY <1>3, <3>1, NumbersType
      <4>2. QED
        BY <1>6, <1>7, <4>1 DEF Full
    <3>2. QED
      BY <3>1
  <2>2. More(h) => After(h) = "check" /\ b < Size(e)
    <3>1. ASSUME More(h) PROVE b < Size(e)
      <4>1. e \in Zims /\ b # Thin[e]
        BY <1>2, <3>1 DEF More
      <4>2. b # Size(e)
        BY <4>1 DEF Size
      <4>3. QED
        BY <1>3, <1>6, <1>7, <4>2, SizeType
    <3>2. QED
      BY <3>1 DEF After
  <2>3. ~More(h) => After(h) = "finish" /\ b = Size(e)
    <3>1. ASSUME ~More(h) PROVE b = Size(e)
      <4>1. b <= Size(e) /\ Size(e) \in 1..Batches /\ b \in 1..Batches
        BY <1>3, <1>6, <1>7, SizeType DEF Numbers
      <4>2. CASE e \notin Zims
        BY <4>1, <4>2 DEF Size
      <4>3. CASE e \in Zims
        <5>1. b = Size(e) \/ b = Batches
          BY <1>2, <3>1, <4>3 DEF More, Size
        <5>2. QED
          BY <4>1, <5>1, BoundsAssumption
      <4>4. QED
        BY <4>2, <4>3
    <3>2. QED
      BY <3>1 DEF After
  <2>4. QED
    BY <1>1, <2>1, <2>2, <2>3 DEF Full
<1>8. ASSUME NEW f \in Content PROVE Chained(f)'
  <2>1. Chained(f) /\ (Free(f)' <=> Free(f))
    BY <1>1, GoesFree DEF Chains
  <2>2. \A x \in Numbers : points[f][x] = 1 => points'[f][x] = 1
    BY <1>5, <1>6 DEF Held
  <2>3. Onwards(f)'
    <3>1. f = run[h].file =>
            /\ run'[h].pc \in {"check", "dispatch", "finish"} =>
                 Full(f, run[h].batch)' /\ run'[h].got = 1
            /\ run'[h].pc \in {"check", "dispatch"} => run[h].batch < Size(f)
            /\ run'[h].pc = "finish" => run[h].batch = Size(f)
      <4>1. run'[h].batch = run[h].batch
        BY <1>1 DEF Goes
      <4>2. QED
        BY <1>1, <1>2, <1>7, <4>1 DEF Full
    <3>2. QED
      BY <1>1, <2>1, <2>2, <3>1, GoesOnwards DEF Chained
  <2>4. CASE f # e
    BY <1>1, <1>5, <2>1, <2>3, <2>4, AtRestStays DEF Chained
  <2>5. CASE f = e
    <3>1. ~Free(f)' /\ f \in disk'
      BY <1>1, <1>4, <1>6, <2>1, <2>5 DEF Free
    <3>2. Counted(f)'
      BY <1>1, <2>1 DEF Chained, Counted, Reads, Size
    <3>3. QED
      BY <2>3, <3>1, <3>2 DEF Chained, AtRest, Gone, Backed
  <2>6. QED
    BY <2>4, <2>5
<1>9. QED
  BY <1>8 DEF Chains

LEMMA FinishChains ==
  ASSUME IInv, Steady, Chains, troubles = 0, troubles' = 0,
         NEW h \in Handles, Finish(h)
  PROVE  Chains'
<1>0. Running /\ Attached /\ ~Trouble
  BY NoTrouble DEF IInv, Steady
<1>1. /\ Leaves(h) /\ run[h].pc = "finish" /\ UNCHANGED <<disk, points, req>>
      /\ row' = [row EXCEPT ![run[h].file] = Indexed(run[h].sofar + run[h].got)]
  BY <1>0, FinishEffect DEF Finish
<1>2. PICK e, b : e = run[h].file /\ b = run[h].batch
  OBVIOUS
<1>3. e \in Files /\ b \in Numbers /\ b \in Nat /\ row \in [Files -> Row]
  BY <1>0, <1>1, <1>2, HandleTypes DEF IInv, Resting
<1>4. WorksOn(h, e)
  BY <1>1, <1>2 DEF WorksOn, Working
<1>5. \A f \in Content : f # e => row'[f] = row[f]
  BY <1>1, <1>2, <1>3, ContentFiles
<1>6. ASSUME e \in Content, Chained(e)
      PROVE  /\ row'[e] = Indexed(Size(e)) /\ Stored(e)
             /\ Full(e, Size(e)) /\ UpTo(e, Size(e))
  <2>1. Midway(e, run[h]) /\ Copied(e)
    BY <1>4, <1>6 DEF Chained, Onwards, Steady, Copies, Excused
  <2>2. /\ Full(e, b) /\ run[h].got = 1 /\ b = Size(e) /\ run[h].sofar = b - 1
    BY <1>1, <1>2, <2>1 DEF Midway, Onward
  <2>3. row'[e] = Indexed(Size(e))
    <3>1. run[h].sofar + run[h].got = Size(e)
      BY <1>3, <2>2
    <3>2. QED
      BY <1>1, <1>2, <1>3, <3>1
  <2>4. UpTo(e, Size(e))
    BY <1>1, <1>2, <1>4, <2>1, <2>2 DEF Copied, Reached
  <2>5. Stored(e)
    BY <1>3, <2>2 DEF Full, Stored, Numbers
  <2>6. QED
    BY <2>2, <2>3, <2>4, <2>5
<1>7. QED
  BY <1>1, <1>2, <1>5, <1>6, LeavesChains

LEMMA ErrorChains ==
  ASSUME IInv, Steady, Chains, troubles = 0, troubles' = 0,
         NEW h \in Handles, Error(h)
  PROVE  Chains'
<1>0. Running /\ Attached
  BY DEF IInv, Steady
<1>1. /\ run[h].pc = "error" /\ row' = MarkedFailed(h)
      /\ \/ Passes(h, run[h].id, run[h].batch, run[h].sofar)
         \/ Leaves(h)
      /\ UNCHANGED <<disk, points, req>>
  BY <1>0, ErrorEffect DEF Error, Fail
<1>2. PICK e : e = run[h].file
  OBVIOUS
<1>3. e \in Files /\ WorksOn(h, e) /\ Exists(h) /\ row \in [Files -> Row]
  BY <1>0, <1>1, <1>2, HandleTypes, Holding DEF WorksOn, Working, IInv, Resting
<1>4. \A f \in Content : f # e => row'[f] = row[f]
  BY <1>1, <1>2, <1>3, ContentFiles DEF MarkedFailed
<1>5. e \in Content => row' = row /\ e \notin disk /\ ~Stored(e)
  <2>1. SUFFICES ASSUME e \in Content PROVE row' = row /\ e \notin disk /\ ~Stored(e)
    OBVIOUS
  <2>2. Present(e)
    BY <2>1 DEF Steady, Presence
  <2>3. ~run[h].bad /\ e \notin disk /\ ~Stored(e)
    BY <1>1, <1>3, <2>2 DEF Present, Free
  <2>4. QED
    BY <1>1, <2>3 DEF MarkedFailed
<1>6. CASE Leaves(h)
  BY <1>1, <1>2, <1>4, <1>5, <1>6, LeavesChains
<1>7. CASE Passes(h, run[h].id, run[h].batch, run[h].sofar) /\ e \in Content
  <2>1. UNCHANGED <<disk, points, row, req>>
    BY <1>1, <1>5, <1>7
  <2>2. \A f \in Content : f = run[h].file /\ Midway(f, run[h]) => Onward(f, run[h].batch, run[h].sofar)
    BY DEF Midway
  <2>3. QED
    BY <1>7, <2>1, <2>2, PassesChains
<1>8. CASE Passes(h, run[h].id, run[h].batch, run[h].sofar) /\ e \notin Content
  <2>1. ASSUME NEW f \in Content PROVE Chained(f)'
    <3>1. Chained(f) /\ Held(f) /\ row'[f] = row[f] /\ f # e
      BY <1>1, <1>4, <1>8, AllHeld DEF Chains
    <3>2. ~WorksOn(h, f)
      BY <1>2, <3>1 DEF WorksOn
    <3>3. Onwards(f)'
      BY <1>8, <3>1, <3>2, PassesOnwards DEF Chained
    <3>4. Free(f)' => Free(f)
      <4>1. /\ \A j \in Files \cup Ids : WaitsFor(j, f)' <=> WaitsFor(j, f)
            /\ \A g \in Handles : WorksOn(g, f)' <=> WorksOn(g, f)
        BY <1>8, <3>2, PassesFree
      <4>2. QED
        BY <4>1 DEF Free
    <3>5. QED
      BY <1>1, <3>1, <3>3, <3>4, AtRestStays DEF Chained
  <2>2. QED
    BY <2>1 DEF Chains
<1>9. QED
  BY <1>1, <1>6, <1>7, <1>8

LEMMA WorkChains ==
  ASSUME IInv, Steady, Chains, troubles = 0, troubles' = 0,
         NEW h \in Handles, Work(h)
  PROVE  Chains'
<1>0. Running /\ Attached
  BY DEF IInv, Steady
<1>1. CASE Ready(h)
  <2>1. Goes(h) /\ run'[h].pc \in {"store", "error"}
    BY <1>0, <1>1, ReadyEffect
  <2>2. UNCHANGED <<disk, points, row, req>>
    BY <1>1 DEF Ready
  <2>3. QED
    BY <2>1, <2>2, GoesChains
<1>2. CASE Check(h)
  <2>1. /\ Goes(h) /\ run[h].pc = "check" /\ run'[h].pc = "dispatch" /\ run'[h].got = run[h].got
    BY <1>0, <1>2, CheckEffect
  <2>2. UNCHANGED <<disk, points, row, req>>
    BY <1>2 DEF Check
  <2>3. QED
    BY <2>1, <2>2, GoesChains DEF Midway
<1>3. CASE Continue(h)
  <2>1. /\ Passes(h, NewId, run[h].batch + 1, run[h].sofar + run[h].got)
        /\ run[h].pc = "dispatch" /\ UNCHANGED <<disk, points, row, req>>
    BY <1>0, <1>3, ContinueEffect DEF Continue
  <2>2. run[h].batch \in Nat
    BY <1>0, <2>1, HandleTypes
  <2>3. ASSUME NEW f, Midway(f, run[h])
        PROVE  Onward(f, run[h].batch + 1, run[h].sofar + run[h].got)
    <3>1. (run[h].batch + 1) - 1 = run[h].batch /\ run[h].sofar + run[h].got = run[h].batch
      BY <2>1, <2>2, <2>3 DEF Midway, Onward
    <3>2. Full(f, (run[h].batch + 1) - 1) /\ run[h].batch < Size(f)
      BY <2>1, <2>3, <3>1 DEF Midway
    <3>3. run[h].batch + 1 <= Size(f)
      BY <2>2, <3>2, SizeType
    <3>4. QED
      BY <3>1, <3>2, <3>3 DEF Onward
  <2>4. QED
    BY <2>1, <2>3, PassesChains
<1>4. CASE End(h)
  <2>1. Rests
    BY <1>0, <1>4, EndEffect
  <2>2. UNCHANGED <<disk, points, row, req>>
    BY <1>4 DEF End
  <2>3. ASSUME NEW f \in Content PROVE Chained(f)'
    <3>1. Chained(f) /\ Held(f) /\ RestsAt(f) /\ (Free(f)' <=> Free(f))
      BY <2>1, <2>2, AllHeld, RestsHere, RestsFree DEF Chains
    <3>2. QED
      BY <2>2, <3>1, RestsOnwards, AtRestStays DEF Chained
  <2>4. QED
    BY <2>3 DEF Chains
<1>5. QED
  BY <1>1, <1>2, <1>3, <1>4, StoreChains, FinishChains, ErrorChains DEF Work

-----------------------------------------------------------------------------
(* ... and the requests.                                                   *)

LEMMA NothingTouched == \A f : ~MovedBy(NoRequest, f) /\ ~TouchedBy(NoRequest, f)
  BY DEF NoRequest, MovedBy, TouchedBy

LEMMA OneTouches ==
  ASSUME IInv, NEW t \in Tabs, NEW s, \A u \in Tabs : u # t => req[u] = NoRequest,
         req' = [req EXCEPT ![t] = s]
  PROVE  \A f : /\ Moved(f) <=> MovedBy(req[t], f)
                /\ Touched(f) <=> TouchedBy(req[t], f)
                /\ Moved(f)' <=> MovedBy(s, f)
                /\ Touched(f)' <=> TouchedBy(s, f)
<1>1. \A u \in Tabs : req'[u] = IF u = t THEN s ELSE NoRequest
  BY DEF IInv, Resting
<1>2. \A f : Moved(f)' <=> \E u \in Tabs : MovedBy(req'[u], f)
  BY DEF Moved, MovedBy
<1>3. \A f : Touched(f)' <=> \E u \in Tabs : TouchedBy(req'[u], f)
  BY DEF Touched, TouchedBy
<1>4. QED
  BY <1>1, <1>2, <1>3, NothingTouched DEF Moved, Touched

(* A request answers a step, and nobody works on what it changes.          *)
LEMMA RequestChains ==
  ASSUME IInv, Chains, NEW t \in Tabs, NEW s, \A u \in Tabs : u # t => req[u] = NoRequest,
         req' = [req EXCEPT ![t] = s],
         \A f \in Content : Chained(f)' \/
           /\ RestsAt(f) /\ (Held(f) \/ (Free(f) /\ points'[f] = Empty))
           /\ row'[f] = row[f] \/ (~Stored(f)' /\ (Reads(f, "indexed")' => row'[f].chunks = 0))
           /\ Stored(f)' /\ f \notin disk' =>
                (f \notin disk /\ ~MovedBy(req[t], f)) \/ MovedBy(s, f)
           /\ f \in disk' /\ Reads(f, "indexed")' /\ ~TouchedBy(s, f) =>
                f \in disk /\ ~TouchedBy(req[t], f) /\ Held(f)
  PROVE  Chains'
<1>1. ASSUME NEW f \in Content,
             RestsAt(f) /\ (Held(f) \/ (Free(f) /\ points'[f] = Empty)),
             row'[f] = row[f] \/ (~Stored(f)' /\ (Reads(f, "indexed")' => row'[f].chunks = 0)),
             Stored(f)' /\ f \notin disk' =>
               (f \notin disk /\ ~MovedBy(req[t], f)) \/ MovedBy(s, f),
             f \in disk' /\ Reads(f, "indexed")' /\ ~TouchedBy(s, f) =>
               f \in disk /\ ~TouchedBy(req[t], f) /\ Held(f)
      PROVE  Chained(f)'
  <2>1. /\ Moved(f) <=> MovedBy(req[t], f)
        /\ Touched(f) <=> TouchedBy(req[t], f)
        /\ Moved(f)' <=> MovedBy(s, f)
        /\ Touched(f)' <=> TouchedBy(s, f)
    BY OneTouches
  <2>2. Chained(f) /\ (Free(f)' <=> Free(f))
    BY <1>1, RestsAtFree DEF Chains
  <2>3. Onwards(f)'
    BY <1>1, <2>2, RestsOnwards DEF Chained
  <2>4. Stored(f)' => Held(f) /\ Stored(f)
    BY <1>1, HeldSame, EmptiedSame
  <2>5. row'[f] = row[f] => \A x : Reads(f, x)' <=> Reads(f, x)
    BY DEF Reads
  <2>6. AtRest(f)'
    <3>1. Stored(f)' =>
            /\ row'[f] = row[f]
            /\ \A n : (UpTo(f, n) => UpTo(f, n)') /\ (Full(f, n) => Full(f, n)')
      BY <1>1, <2>4, HeldSame
    <3>2. QED
      BY <2>2, <2>4, <2>5, <3>1 DEF Chained, AtRest, Size, UpTo, Full
  <2>7. Gone(f)'
    BY <1>1, <2>1, <2>2, <2>4 DEF Chained, Gone
  <2>8. Counted(f)'
    <3>1. CASE row'[f] = row[f]
      BY <2>2, <2>5, <3>1 DEF Chained, Counted, Size
    <3>2. CASE Reads(f, "indexed")' => row'[f].chunks = 0
      BY <3>2 DEF Counted
    <3>3. QED
      BY <1>1, <3>1, <3>2
  <2>9. Backed(f)'
    <3>1. CASE row'[f] = row[f]
      <4>1. Held(f) => (Stored(f)' <=> Stored(f))
        BY HeldSame
      <4>2. QED
        BY <1>1, <2>1, <2>2, <2>5, <3>1, <4>1 DEF Chained, Backed
    <3>2. CASE Reads(f, "indexed")' => row'[f].chunks = 0
      BY <3>2 DEF Backed
    <3>3. QED
      BY <1>1, <3>1, <3>2
  <2>10. QED
    BY <2>3, <2>6, <2>7, <2>8, <2>9 DEF Chained
<1>2. QED
  BY <1>1 DEF Chains

(* ... when only the request, and at most points, change.                  *)
LEMMA QuietChains ==
  ASSUME IInv, Steady, Chains, NEW t \in Tabs, NEW s, \A u \in Tabs : u # t => req[u] = NoRequest,
         req' = [req EXCEPT ![t] = s], UNCHANGED <<disk, row>>,
         \A f \in Content : RestsAt(f),
         \A f \in Content : Held(f) \/ (Free(f) /\ points'[f] = Empty /\ TouchedBy(s, f)),
         \A f \in Content : Stored(f)' /\ f \notin disk /\ MovedBy(req[t], f) => MovedBy(s, f),
         \A f \in disk : TouchedBy(req[t], f) => TouchedBy(s, f)
  PROVE  Chains'
<1>1. ASSUME NEW f \in Content
      PROVE  /\ RestsAt(f) /\ (Held(f) \/ (Free(f) /\ points'[f] = Empty))
             /\ row'[f] = row[f]
             /\ Stored(f)' /\ f \notin disk' =>
                  (f \notin disk /\ ~MovedBy(req[t], f)) \/ MovedBy(s, f)
             /\ f \in disk' /\ Reads(f, "indexed")' /\ ~TouchedBy(s, f) =>
                  f \in disk /\ ~TouchedBy(req[t], f) /\ Held(f)
  OBVIOUS
<1>2. QED
  BY <1>1, RequestChains

LEMMA DiscoverChains ==
  ASSUME IInv, Steady, Chains, NEW t \in Tabs, Discover(t)
  PROVE  Chains'
<1>1. req[t].pc = "docs" /\ UNCHANGED <<disk, points, row>>
  BY DEF Discover
<1>2. /\ req[t] \in Request /\ Planned(req[t]) /\ \A u \in Tabs : u # t => req[u] = NoRequest
  BY <1>1, TheRequest
<1>3. PICK pc : pc = CASE req[t].op = "scan" -> "facet"
                        [] req[t].op = "reembed" -> "purge"
                        [] OTHER -> "dispatch"
  OBVIOUS
<1>4. PICK r : r = [req[t] EXCEPT !.todo = disk]
  OBVIOUS
<1>5. PICK s : s = [r EXCEPT !.pc = pc]
  OBVIOUS
<1>6. s.pc = pc /\ s.op = req[t].op /\ s.todo = disk /\ r.todo = disk /\ s.f = req[t].f
  BY <1>2, <1>4, <1>5 DEF Request
<1>7. OnTo(t, pc, r)
  BY <1>3, <1>4 DEF Discover
<1>8. \A f : ~MovedBy(req[t], f)
  BY <1>1 DEF MovedBy
<1>r. \A f \in Content : RestsAt(f) /\ Held(f)
  BY <1>1, DiscoverEffect, AllHeld
<1>9. \A f \in disk : TouchedBy(req[t], f) => TouchedBy(s, f)
  <2>1. \A f : TouchedBy(req[t], f) => req[t].op = "rebuild"
    BY <1>1 DEF TouchedBy
  <2>2. req[t].op = "rebuild" => s.pc = "dispatch"
    BY <1>3, <1>6
  <2>3. QED
    BY <1>6, <2>1, <2>2 DEF TouchedBy
<1>10. CASE disk # {}
  <2>1. req' = [req EXCEPT ![t] = s]
    BY <1>5, <1>6, <1>7, <1>10, NoRequestDone
  <2>2. QED
    BY <1>1, <1>2, <1>8, <1>9, <1>r, <2>1, QuietChains
<1>11. CASE disk = {}
  <2>1. req' = [req EXCEPT ![t] = NoRequest]
    BY <1>6, <1>7, <1>11, NoRequestDone
  <2>2. QED
    BY <1>1, <1>2, <1>8, <1>11, <1>r, <2>1, QuietChains
<1>12. QED
  BY <1>10, <1>11

LEMMA FacetChains ==
  ASSUME IInv, Steady, Chains, NEW t \in Tabs, Facet(t)
  PROVE  Chains'
<1>1. req[t].pc = "facet" /\ UNCHANGED <<disk, points, row, jobs, run>>
  BY DEF Facet
<1>2. req[t] \in Request /\ Planned(req[t]) /\ \A u \in Tabs : u # t => req[u] = NoRequest
  BY <1>1, TheRequest
<1>3. \A f : Held(f) /\ RestsAt(f)
  BY <1>1, AllHeld, SameJobs
<1>4. \A f : ~MovedBy(req[t], f) /\ ~TouchedBy(req[t], f)
  BY <1>1 DEF MovedBy, TouchedBy
<1>5. \E s : req' = [req EXCEPT ![t] = s]
  <2>1. PICK has : has = {f \in req[t].todo : Stored(f)}
    OBVIOUS
  <2>2. req' = [req EXCEPT ![t].pc = "rows", ![t].has = has] \/ Done(t)
    BY <2>1 DEF Facet
  <2>3. req' = [req EXCEPT ![t] = [req[t] EXCEPT !.pc = "rows", !.has = has]] \/ Done(t)
    BY <2>2 DEF IInv, Resting
  <2>4. QED
    BY <2>3 DEF Done
<1>6. QED
  BY <1>1, <1>2, <1>3, <1>4, <1>5, QuietChains

LEMMA RowsChains ==
  ASSUME IInv, Steady, Chains, NEW t \in Tabs, Rows(t)
  PROVE  Chains'
<1>1. req[t].pc = "rows" /\ UNCHANGED <<disk, points, row, jobs, run>>
  BY DEF Rows
<1>2. \A u \in Tabs : u # t => req[u] = NoRequest
  BY <1>1, TheRequest
<1>3. \A f : Held(f) /\ RestsAt(f)
  BY <1>1, AllHeld, SameJobs
<1>4. \A f : ~MovedBy(req[t], f) /\ ~TouchedBy(req[t], f)
  BY <1>1 DEF MovedBy, TouchedBy
<1>5. PICK todo, new : todo = Unembedded(req[t]) /\ new = {f \in req[t].todo : row[f] = NoRow}
  OBVIOUS
<1>6. \E s : req' = [req EXCEPT ![t] = s]
  <2>1. req' = [req EXCEPT ![t] = [req[t] EXCEPT !.pc = "create", !.todo = todo, !.new = new]]
    BY <1>5 DEF Rows, IInv, Resting
  <2>2. QED
    BY <2>1
<1>7. QED
  BY <1>1, <1>2, <1>3, <1>4, <1>6, QuietChains

LEMMA CreateChains ==
  ASSUME IInv, Steady, Chains, NEW t \in Tabs, Create(t)
  PROVE  Chains'
<1>1. req[t].pc = "create" /\ UNCHANGED <<disk, points, jobs, run>>
  BY DEF Create
<1>2. req[t] \in Request /\ Planned(req[t]) /\ \A u \in Tabs : u # t => req[u] = NoRequest
  BY <1>1, TheRequest
<1>3. \A f : Held(f) /\ RestsAt(f) /\ (Stored(f)' <=> Stored(f))
  BY <1>1, AllHeld, SameJobs
<1>4. \A f : ~MovedBy(req[t], f) /\ ~TouchedBy(req[t], f)
  BY <1>1 DEF MovedBy, TouchedBy
<1>5. PICK made \in SUBSET req[t].new :
        /\ \A f \in made : row[f] = NoRow
        /\ row' = [f \in Files |-> IF f \notin made THEN row[f]
                                   ELSE IF f \in req[t].has THEN Indexed(0) ELSE Pending]
        /\ OnTo(t, "dispatch", req[t]) \/ Done(t)
  BY DEF Create
<1>6. PICK s : req' = [req EXCEPT ![t] = s]
  BY <1>5, NoRequestDone
<1>7. ASSUME NEW f \in Content
      PROVE  row'[f] = row[f] \/ (~Stored(f)' /\ (Reads(f, "indexed")' => row'[f].chunks = 0))
  <2>1. f \in Files /\ Free(f) /\ Chained(f)
    BY <1>1, <1>2, ContentFiles DEF Planned, Early, Chains
  <2>2. CASE f \notin made
    BY <1>5, <2>1, <2>2
  <2>3. CASE f \in made
    <3>1. ~Reads(f, "indexed")
      BY <1>5, <2>3 DEF Reads
    <3>2. ~Stored(f)'
      BY <1>3, <2>1, <3>1 DEF Chained, AtRest
    <3>3. row'[f] = Indexed(0) \/ row'[f] = Pending
      BY <1>5, <2>1, <2>3
    <3>4. Indexed(0).chunks = 0 /\ Pending.chunks = 0
      BY DEF Indexed, Pending
    <3>5. QED
      BY <3>2, <3>3, <3>4
  <2>4. QED
    BY <2>2, <2>3
<1>8. QED
  BY <1>1, <1>2, <1>3, <1>4, <1>6, <1>7, RequestChains

LEMMA PurgeChains ==
  ASSUME IInv, Steady, Chains, NEW t \in Tabs, Purge(t), ~Trouble
  PROVE  Chains'
<1>1. req[t].pc = "purge" /\ UNCHANGED <<disk, row, jobs, run>>
  BY DEF Purge
<1>2. req[t] \in Request /\ Planned(req[t]) /\ \A u \in Tabs : u # t => req[u] = NoRequest
  BY <1>1, TheRequest
<1>3. PICK e \in req[t].todo :
        /\ points' = [points EXCEPT ![e] = Empty]
        /\ req' = [req EXCEPT ![t].pc = "dispatch", ![t].f = e]
  BY DEF Purge
<1>4. e \in Files /\ Free(e)
  BY <1>1, <1>2, ContentFiles DEF Planned
<1>5. PICK s : s = [req[t] EXCEPT !.pc = "dispatch", !.f = e]
  OBVIOUS
<1>6. s.pc = "dispatch" /\ s.f = e
  BY <1>2, <1>5 DEF Request
<1>7. req' = [req EXCEPT ![t] = s]
  BY <1>3, <1>5 DEF IInv, Resting
<1>8. \A f : ~MovedBy(req[t], f) /\ ~TouchedBy(req[t], f)
  BY <1>1 DEF MovedBy, TouchedBy
<1>9. \A f \in Content : Held(f) \/ (Free(f) /\ points'[f] = Empty /\ TouchedBy(s, f))
  BY <1>3, <1>4, <1>6, ContentFiles DEF Held, TouchedBy, IInv, Resting
<1>10. QED
  BY <1>1, <1>2, <1>7, <1>8, <1>9, SameJobs, QuietChains

LEMMA DropChains ==
  ASSUME IInv, Steady, Chains, NEW t \in Tabs, Drop(t), ~Trouble
  PROVE  Chains'
<1>1. req[t].pc = "drop" /\ UNCHANGED <<disk, row, jobs, run>>
  BY DEF Drop
<1>2. /\ req[t] \in Request /\ Planned(req[t]) /\ \A u \in Tabs : u # t => req[u] = NoRequest
      /\ req[t].f \in Files
  BY <1>1, TheRequest DEF Asked
<1>3. PICK e : e = req[t].f
  OBVIOUS
<1>4. Free(e)
  BY <1>1, <1>2, <1>3 DEF Planned
<1>5. \A f : (MovedBy(req[t], f) => f = e) /\ ~TouchedBy(req[t], f)
  BY <1>1, <1>3 DEF MovedBy, TouchedBy
<1>6. CASE ~Reads(e, "indexed") /\ points' = points /\ Done(t)
  <2>1. req' = [req EXCEPT ![t] = NoRequest]
    BY <1>6, NoRequestDone
  <2>2. \A f \in Content : f = e => ~Stored(f)
    BY <1>4, <1>6 DEF Chains, Chained, AtRest
  <2>3. QED
    BY <1>1, <1>2, <1>5, <1>6, <2>1, <2>2, SameJobs, AllHeld, QuietChains
<1>7. CASE /\ points' = [points EXCEPT ![e] = Empty]
           /\ To(t, IF e \in Uploads THEN "unlink" ELSE "forget")
  <2>1. PICK pc : pc = IF e \in Uploads THEN "unlink" ELSE "forget"
    OBVIOUS
  <2>2. PICK s : s = [req[t] EXCEPT !.pc = pc]
    OBVIOUS
  <2>3. s.pc \in {"unlink", "forget"} /\ s.f = e
    BY <1>2, <1>3, <2>1, <2>2 DEF Request
  <2>4. req' = [req EXCEPT ![t] = s]
    BY <1>7, <2>1, <2>2 DEF To, IInv, Resting
  <2>5. points'[e] = Empty
    BY <1>2, <1>3, <1>7 DEF IInv, Resting
  <2>6. \A f : f = e => ~Stored(f)'
    BY <2>5, EmptiedSame
  <2>7. \A f \in Content : Held(f) \/ (Free(f) /\ points'[f] = Empty /\ TouchedBy(s, f))
    BY <1>4, <1>7, <2>3, <2>5, ContentFiles DEF Held, TouchedBy, IInv, Resting
  <2>8. QED
    BY <1>1, <1>2, <1>5, <2>4, <2>6, <2>7, SameJobs, QuietChains
<1>8. QED
  BY <1>3, <1>6, <1>7 DEF Drop

LEMMA UnlinkChains ==
  ASSUME IInv, Steady, Chains, NEW t \in Tabs, Unlink(t)
  PROVE  Chains'
<1>1. req[t].pc = "unlink" /\ UNCHANGED <<points, row, jobs, run>> /\ disk' = disk \ {req[t].f}
  BY DEF Unlink
<1>2. req[t] \in Request /\ Planned(req[t]) /\ \A u \in Tabs : u # t => req[u] = NoRequest
  BY <1>1, TheRequest
<1>3. PICK e : e = req[t].f
  OBVIOUS
<1>4. PICK s : s = [req[t] EXCEPT !.pc = "forget"]
  OBVIOUS
<1>5. s.pc = "forget" /\ s.f = e
  BY <1>2, <1>3, <1>4 DEF Request
<1>6. req' = [req EXCEPT ![t] = s]
  BY <1>4 DEF Unlink, To, IInv, Resting
<1>7. ~Stored(e)
  BY <1>1, <1>2, <1>3 DEF Planned
<1>8. \A f : ~MovedBy(req[t], f) /\ (TouchedBy(req[t], f) => TouchedBy(s, f))
  BY <1>1, <1>3, <1>5 DEF MovedBy, TouchedBy
<1>9. \A f : Held(f) /\ RestsAt(f) /\ (Stored(f)' <=> Stored(f))
  BY <1>1, AllHeld, SameJobs
<1>10. ASSUME NEW f \in Content
       PROVE  /\ Stored(f)' /\ f \notin disk' => f \notin disk
              /\ f \in disk' => f \in disk
  BY <1>1, <1>3, <1>7, <1>9
<1>11. QED
  BY <1>1, <1>2, <1>6, <1>8, <1>9, <1>10, RequestChains

LEMMA ForgetChains ==
  ASSUME IInv, Steady, Chains, NEW t \in Tabs, Forget(t)
  PROVE  Chains'
<1>1. /\ req[t].pc = "forget" /\ UNCHANGED <<disk, points, jobs, run>>
      /\ row' = [row EXCEPT ![req[t].f] = NoRow]
  BY DEF Forget
<1>2. /\ req[t] \in Request /\ Planned(req[t]) /\ \A u \in Tabs : u # t => req[u] = NoRequest
      /\ req[t].f \in Files
  BY <1>1, TheRequest DEF Asked
<1>3. PICK e : e = req[t].f
  OBVIOUS
<1>4. PICK s : req' = [req EXCEPT ![t] = s]
  <2>1. PICK r : r = [req[t] EXCEPT !.f = None]
    OBVIOUS
  <2>2. OnTo(t, "dispatch", r)
    BY <2>1 DEF Forget
  <2>3. QED
    BY <2>2, NoRequestDone
<1>5. ~Stored(e)
  BY <1>1, <1>2, <1>3 DEF Planned
<1>6. \A f : ~MovedBy(req[t], f) /\ (TouchedBy(req[t], f) => f = e)
  BY <1>1, <1>3 DEF MovedBy, TouchedBy
<1>7. \A f : Held(f) /\ RestsAt(f) /\ (Stored(f)' <=> Stored(f))
  BY <1>1, AllHeld, SameJobs
<1>8. \A f \in Files : IF f = e THEN row'[f] = NoRow ELSE row'[f] = row[f]
  BY <1>1, <1>3 DEF IInv, Resting
<1>9. \A f \in Content : f = e => ~Stored(f)' /\ ~Reads(f, "indexed")'
  BY <1>5, <1>7, <1>8, ContentFiles DEF Reads
<1>10. \A f \in Content : f # e => row'[f] = row[f]
  BY <1>8, ContentFiles
<1>11. QED
  BY <1>1, <1>2, <1>4, <1>6, <1>7, <1>9, <1>10, RequestChains

LEMMA WipeChains ==
  ASSUME IInv, Steady, Chains, NEW t \in Tabs, Wipe(t), ~Trouble
  PROVE  Chains'
<1>1. /\ req[t].pc = "wipe" /\ UNCHANGED <<disk, row, jobs, run>> /\ To(t, "docs")
      /\ points' = [f \in Files |-> Empty]
  BY DEF Wipe
<1>2. req[t] \in Request /\ Planned(req[t]) /\ \A u \in Tabs : u # t => req[u] = NoRequest
  BY <1>1, TheRequest
<1>3. PICK s : s = [req[t] EXCEPT !.pc = "docs"]
  OBVIOUS
<1>4. s.pc = "docs" /\ s.op = "rebuild"
  BY <1>1, <1>2, <1>3 DEF Request, Planned
<1>5. req' = [req EXCEPT ![t] = s]
  BY <1>1, <1>3 DEF To, IInv, Resting
<1>6. \A f \in Content : Free(f) /\ points'[f] = Empty /\ TouchedBy(s, f)
  BY <1>1, <1>2, <1>4, ContentFiles DEF Planned, Early, TouchedBy
<1>7. \A f : ~MovedBy(req[t], f) /\ ~TouchedBy(req[t], f)
  BY <1>1 DEF MovedBy, TouchedBy
<1>8. QED
  BY <1>1, <1>2, <1>5, <1>6, <1>7, SameJobs, QuietChains

(* A first batch is queued.                                                *)
LEMMA AddsChained ==
  ASSUME NEW i, NEW f, Adds(i, f), Chained(f), Free(f), ~Stored(f), Held(f),
         row'[f] = row[f] \/ (Reads(f, "indexed")' => row'[f].chunks = 0)
  PROVE  Chained(f)'
<1>1. /\ \A j \in Files \cup Ids : WaitsFor(j, f)' => j = i
      /\ \A h \in Handles : ~WorksOn(h, f)'
      /\ ~Free(f)'
  BY AddsFree DEF Free
<1>2. jobs'[i].batch = 1 /\ jobs'[i].sofar = 0
  BY DEF Adds, Queues
<1>3. \A j \in Files \cup Ids : WaitsFor(j, f)' => Onward(f, jobs[j].batch, jobs[j].sofar)'
  <2>1. \A b \in Numbers : ~(b <= 1 - 1)
    BY DEF Numbers
  <2>2. QED
    BY <1>1, <1>2, <2>1, SizeType DEF Onward, Full, Size
<1>4. ~Stored(f)'
  BY HeldSame
<1>5. Counted(f)'
  BY DEF Chained, Counted, Reads, Size
<1>6. QED
  BY <1>1, <1>3, <1>4, <1>5 DEF Chained, Onwards, AtRest, Gone, Backed

LEMMA DispatchChains ==
  ASSUME IInv, Steady, Chains, troubles = 0, NEW t \in Tabs, Dispatch(t)
  PROVE  Chains'
<1>1. req[t].pc = "dispatch" /\ UNCHANGED <<disk, points, row, run>>
  BY DEF Dispatch
<1>2. req[t] \in Request /\ Planned(req[t]) /\ \A u \in Tabs : u # t => req[u] = NoRequest
  BY <1>1, TheRequest
<1>3. PICK e \in req[t].todo, pc \in {"purge", "dispatch"} :
        /\ pc = IF req[t].op = "reembed" THEN "purge" ELSE "dispatch"
        /\ req[t].f \in {None, e}
        /\ req[t].force => Unused # {}
        /\ jobs' = IF req[t].force THEN AddedAs(NewId, e, 1, 0) ELSE Added(e)
        /\ OnTo(t, pc, [req[t] EXCEPT !.todo = @ \ {e}, !.f = None])
  BY DEF Dispatch
<1>4. e \in Content /\ Free(e) /\ ~Stored(e) /\ e \in Files
  BY <1>1, <1>2, <1>3, ContentFiles DEF Planned, Clear, Excused
<1>5. /\ Rests \/ \E i : Adds(i, e)
      /\ req[t].force => \E i : Adds(i, e)
  BY <1>1, <1>3, <1>4, AddedEffect DEF IInv, Steady
<1>6. PICK r : r = [req[t] EXCEPT !.todo = @ \ {e}, !.f = None]
  OBVIOUS
<1>7. PICK s0 : s0 = [r EXCEPT !.pc = pc]
  OBVIOUS
<1>8. /\ s0.pc = pc /\ s0.op = req[t].op /\ s0.todo = req[t].todo \ {e}
      /\ r.todo = req[t].todo \ {e}
  BY <1>2, <1>6, <1>7 DEF Request
<1>9. PICK s : /\ req' = [req EXCEPT ![t] = s]
               /\ req[t].todo \ {e} # {} => s = s0
  <2>1. OnTo(t, pc, r)
    BY <1>3, <1>6
  <2>2. CASE r.todo = {}
    <3>1. req' = [req EXCEPT ![t] = NoRequest] /\ ~(req[t].todo \ {e} # {})
      BY <1>8, <2>1, <2>2, NoRequestDone
    <3>2. QED
      BY <3>1
  <2>3. CASE r.todo # {}
    BY <1>7, <2>1, <2>3, NoRequestDone
  <2>4. QED
    BY <2>2, <2>3
<1>10. \A f : Held(f)
  BY <1>1, AllHeld
<1>11. \A f : ~MovedBy(req[t], f)
  BY <1>1 DEF MovedBy
<1>12. req[t].op = "rebuild" => req[t].force /\ pc = "dispatch"
  BY <1>2, <1>3 DEF Planned
<1>13. req[t].f # None => req[t].force
  BY <1>1, <1>2 DEF Planned
<1>14. \A f \in Content : f # e => (TouchedBy(req[t], f) => TouchedBy(s, f))
  <2>1. SUFFICES ASSUME NEW f \in Content, f # e, TouchedBy(req[t], f) PROVE TouchedBy(s, f)
    OBVIOUS
  <2>2. f # None
    BY ContentFiles, FilesAssumption
  <2>3. req[t].op = "rebuild" /\ f \in req[t].todo
    BY <1>1, <1>3, <2>1, <2>2 DEF TouchedBy
  <2>4. s = s0
    BY <1>9, <2>1, <2>3
  <2>5. QED
    BY <1>8, <1>12, <2>1, <2>3, <2>4 DEF TouchedBy
<1>15. ASSUME NEW f \in Content
       PROVE  \/ Chained(f)'
              \/ RestsAt(f) /\ (f \in disk /\ TouchedBy(req[t], f) => TouchedBy(s, f))
  <2>1. CASE f # e
    <3>1. RestsAt(f)
      BY <1>5, <2>1, RestsHere, AddsElsewhere
    <3>2. QED
      BY <1>14, <2>1, <3>1
  <2>2. ASSUME f = e, NEW i, Adds(i, e) PROVE Chained(f)'
    <3>1. Chained(e)
      BY <1>4 DEF Chains
    <3>2. row'[e] = row[e] /\ Held(e)
      BY <1>1, <1>10
    <3>3. QED
      BY <1>4, <2>2, <3>1, <3>2, AddsChained
  <2>3. CASE f = e /\ ~(\E i : Adds(i, e))
    <3>1. Rests /\ ~req[t].force
      BY <1>5, <2>3
    <3>2. RestsAt(f)
      BY <3>1, RestsHere
    <3>3. e # None
      BY <1>4, FilesAssumption
    <3>4. ~TouchedBy(req[t], f)
      BY <1>1, <1>12, <1>13, <2>3, <3>1, <3>3 DEF TouchedBy
    <3>5. QED
      BY <3>2, <3>4
  <2>4. QED
    BY <2>1, <2>2, <2>3
<1>16. ASSUME NEW f \in Content
       PROVE  Chained(f)' \/
         /\ RestsAt(f) /\ (Held(f) \/ (Free(f) /\ points'[f] = Empty))
         /\ row'[f] = row[f] \/ (~Stored(f)' /\ (Reads(f, "indexed")' => row'[f].chunks = 0))
         /\ Stored(f)' /\ f \notin disk' =>
              (f \notin disk /\ ~MovedBy(req[t], f)) \/ MovedBy(s, f)
         /\ f \in disk' /\ Reads(f, "indexed")' /\ ~TouchedBy(s, f) =>
              f \in disk /\ ~TouchedBy(req[t], f) /\ Held(f)
  BY <1>1, <1>10, <1>11, <1>15
<1>17. QED
  BY <1>2, <1>9, <1>16, RequestChains

LEMMA AnswerChains ==
  ASSUME IInv, Steady, Chains, troubles = 0, troubles' = 0, NEW t \in Tabs, Answer(t)
  PROVE  Chains'
<1>1. ~Obliterate(t) /\ ~Remove(t)
  BY TheRequest DEF Obliterate, Remove, Planned
<1>2. QED
  BY <1>1, NoTrouble, DiscoverChains, FacetChains, RowsChains, CreateChains, PurgeChains,
     DispatchChains, DropChains, UnlinkChains, ForgetChains, WipeChains DEF Answer

-----------------------------------------------------------------------------
(* A new request, of whatever kind.                                        *)
LEMMA AskChains ==
  ASSUME IInv, Steady, Chains, Ask, ~Crossed
  PROVE  Chains'
<1>1. PICK t \in Tabs :
        \/ \E f \in Files : \/ Upload(t, f) \/ Install(t, f) \/ Delete(t, f) \/ Embed(t, f)
                            \/ \E g \in Files : Replace(t, f, g)
        \/ \E op \in Ops : Sweep(t, op)
        \/ Cancel(t) \/ Cleanup(t) \/ SetPolicy(t)
  BY DEF Ask
<1>2. \E r : Asks(t, r)
  BY <1>1 DEF Upload, Install, Delete, Embed, Replace, Sweep, Cancel, Cleanup, SetPolicy
<1>3. PICK s : Asks(t, s)
  BY <1>2
<1>4. /\ \A u \in Tabs : u # t => req[u] = NoRequest
      /\ req' = [req EXCEPT ![t] = s] /\ req[t] = NoRequest
      /\ s.op \notin {"cancel", "cleanup"}
  BY <1>3, FirstRequest DEF Asks
<1>5. \A f : ~MovedBy(req[t], f) /\ ~TouchedBy(req[t], f)
  BY <1>4, NothingTouched
<1>6. CASE UNCHANGED <<disk, points, row, jobs, run>>
  BY <1>4, <1>5, <1>6, AllHeld, SameJobs, QuietChains
<1>7. ASSUME NEW f \in Files, Upload(t, f) PROVE Chains'
  <2>1. /\ UNCHANGED <<points, row, jobs, run>> /\ disk' = disk \cup {f} /\ row[f] = NoRow
    BY <1>7 DEF Upload, Unseen
  <2>2. \A g : Held(g) /\ RestsAt(g)
    BY <2>1, AllHeld, SameJobs
  <2>3. \A g \in Content : g \in disk' /\ Reads(g, "indexed")' => g \in disk
    BY <2>1 DEF Reads
  <2>4. QED
    BY <1>4, <1>5, <2>1, <2>2, <2>3, RequestChains
<1>8. ASSUME NEW f \in Files, Install(t, f) PROVE Chains'
  <2>1. /\ UNCHANGED <<points, run>> /\ disk' = disk \cup {f} /\ row[f] = NoRow
        /\ Free(f) /\ ~Stored(f) /\ f \in Content
    BY <1>8, UnseenFree DEF Install, Unseen, IInv, Content
  <2>2. \A g : Held(g) /\ (Stored(g)' <=> Stored(g))
    BY <2>1, AllHeld
  <2>3. CASE row' = [row EXCEPT ![f] = Pending] /\ jobs' = jobs
    <3>1. \A g : RestsAt(g)
      BY <2>1, <2>3, SameJobs
    <3>2. \A g \in Files : row'[g] = IF g = f THEN Pending ELSE row[g]
      BY <2>3 DEF IInv, Resting
    <3>3. Pending.state # "indexed"
      BY DEF Pending
    <3>4. \A g \in Content : g # f => row'[g] = row[g]
      BY <3>2, ContentFiles
    <3>5. ~Reads(f, "indexed")'
      BY <3>2, <3>3 DEF Reads
    <3>6. QED
      BY <1>4, <1>5, <2>1, <2>2, <3>1, <3>4, <3>5, RequestChains
  <2>4. CASE row' = row /\ jobs' = Added(f)
    <3>1. Rests \/ \E i : Adds(i, f)
      BY <2>1, <2>4, AddedEffect DEF IInv, Steady
    <3>2. \A g \in Content : g # f \/ Rests => RestsAt(g)
      BY <3>1, RestsHere, AddsElsewhere
    <3>3. ASSUME NEW i, Adds(i, f) PROVE Chained(f)'
      BY <2>1, <2>2, <2>4, <3>3, AddsChained DEF Chains
    <3>4. \A g \in Content : g \in disk' /\ Reads(g, "indexed")' => g \in disk
      BY <2>1, <2>4 DEF Reads
    <3>5. \A g \in Content : RestsAt(g) \/ Chained(g)'
      BY <3>1, <3>2, <3>3
    <3>6. QED
      BY <1>4, <1>5, <2>1, <2>2, <2>4, <3>4, <3>5, RequestChains
  <2>5. QED
    BY <1>8, <2>3, <2>4 DEF Install
<1>9. ASSUME NEW f \in Files, NEW g \in Files, Replace(t, f, g) PROVE Chains'
  <2>1. /\ UNCHANGED <<points, row, jobs, run>> /\ disk' = (disk \ {f}) \cup {g} /\ row[g] = NoRow
    BY <1>9 DEF Replace, Unseen
  <2>2. PICK r : r = [NoRequest EXCEPT !.op = "replace", !.pc = "drop", !.f = f, !.todo = {g}]
    OBVIOUS
  <2>3. r.op = "replace" /\ r.pc = "drop" /\ r.f = f
    BY <2>2 DEF NoRequest
  <2>4. req' = [req EXCEPT ![t] = r]
    BY <1>9, <2>2 DEF Replace, Asks
  <2>5. \A e : Held(e) /\ RestsAt(e)
    BY <2>1, AllHeld, SameJobs
  <2>6. MovedBy(r, f)
    BY <2>3 DEF MovedBy
  <2>7. \A e \in Content : e \notin disk' => e \notin disk \/ e = f
    BY <2>1
  <2>8. \A e \in Content : e \in disk' /\ Reads(e, "indexed")' => e \in disk
    BY <2>1 DEF Reads
  <2>9. QED
    BY <1>4, <1>5, <2>1, <2>4, <2>5, <2>6, <2>7, <2>8, RequestChains
<1>10. ~Cancel(t)
  <2>1. SUFFICES ASSUME Cancel(t) PROVE FALSE
    OBVIOUS
  <2>2. PICK r : r = [NoRequest EXCEPT !.op = "cancel", !.pc = "obliterate"]
    OBVIOUS
  <2>3. Asks(t, r) /\ r.op = "cancel"
    BY <2>1, <2>2 DEF Cancel, NoRequest
  <2>4. QED
    BY <2>3, FirstRequest
<1>11. QED
  BY <1>1, <1>6, <1>7, <1>8, <1>9, <1>10
     DEF Delete, Embed, Sweep, Cleanup, SetPolicy

LEMMA InitChains == Init => Chains
<1> SUFFICES ASSUME Init PROVE Chains
  OBVIOUS
<1>1. /\ \A i \in Files \cup Ids : jobs[i] = NoJob
      /\ \A h \in Handles : run[h] = Idle
  BY DEF Init
<1>2. NoJob.state = "none" /\ Idle.pc = "idle"
  BY DEF NoJob, Idle
<1>3. \A f : Onwards(f)
  BY <1>1, <1>2 DEF Onwards, WaitsFor, WorksOn, Waiting, Working
<1>4. PICK known \in SUBSET disk :
        /\ row = [f \in Files |-> IF f \in known
                  THEN Indexed(Size(f)) ELSE NoRow]
        /\ points = [f \in Files |-> IF f \in known \cup Docs THEN Embedded(f) ELSE Empty]
  BY DEF Init
<1>5. ASSUME NEW f \in Content PROVE Chained(f)
  <2>1. f \in Files /\ f \notin Docs
    BY ContentFiles, FilesAssumption DEF Content
  <2>2. CASE f \in known
    <3>1. row[f] = Indexed(Size(f)) /\ points[f] = Embedded(f)
      BY <1>4, <2>1, <2>2
    <3>2. /\ Indexed(Size(f)).state = "indexed" /\ Indexed(Size(f)).chunks = Size(f)
          /\ Indexed(Size(f)) # NoRow
      <4>1. Size(f) \in 0..Batches
        BY SizeType
      <4>2. QED
        BY <4>1, IndexedRow DEF Indexed
    <3>3. /\ \A b \in Numbers : points[f][b] = IF b <= Size(f) THEN 1 ELSE 0
      BY <3>1 DEF Embedded
    <3>4. Full(f, Size(f)) /\ UpTo(f, Size(f)) /\ Stored(f)
      <4>1. Full(f, Size(f))
        BY <3>3 DEF Full
      <4>2. UpTo(f, Size(f))
        <5>1. Size(f) \in Nat /\ Numbers \subseteq Nat
          BY SizeType, NumbersType
        <5>2. \A b \in Numbers : b > Size(f) => ~(b <= Size(f))
          BY <5>1
        <5>3. QED
          BY <3>3, <5>2 DEF UpTo
      <4>3. Stored(f)
        BY <4>1, SizeType DEF Full, Stored
      <4>4. QED
        BY <4>1, <4>2, <4>3
    <3>5. f \in disk
      BY <2>2
    <3>6. QED
      BY <1>3, <3>1, <3>2, <3>4, <3>5 DEF Chained, AtRest, Gone, Counted, Backed, Reads
  <2>3. CASE f \notin known
    <3>1. row[f] = NoRow /\ points[f] = Empty
      BY <1>4, <2>1, <2>3
    <3>2. ~Stored(f) /\ ~Reads(f, "indexed")
      BY <3>1, EmptyNumbers DEF Reads
    <3>3. QED
      BY <1>3, <3>2 DEF Chained, AtRest, Gone, Counted, Backed
  <2>4. QED
    BY <2>2, <2>3
<1>6. QED
  BY <1>5 DEF Chains

LEMMA NextChains ==
  ASSUME IInv, Steady, Chains, troubles = 0, troubles' = 0, Next, ~Crossed, ~Broken
  PROVE  Chains'
<1>1. ~Crash
  BY NoTrouble DEF Crash
<1>2. Ask \/ QueueStep \/ (\E t \in Tabs : Answer(t)) \/ (\E h \in Handles : Work(h))
  BY <1>1 DEF Next, QueueStep
<1>3. QED
  BY <1>2, AskChains, QueueChains, AnswerChains, WorkChains

LEMMA ChainsUnchanged == Chains /\ UNCHANGED vars => Chains'
<1> SUFFICES ASSUME Chains, UNCHANGED vars PROVE Chains'
  OBVIOUS
<1>1. UNCHANGED <<disk, points, row, jobs, run, req>>
  BY DEF vars
<1>2. QED
  BY <1>1 DEF Chains, Chained, Onwards, Onward, Midway, AtRest, Gone, Counted, Backed, Moved,
     MovedBy, Touched, TouchedBy, WaitsFor, WorksOn, Waiting, Working, UpTo, Full, Size, Reads,
     Stored, Free

-----------------------------------------------------------------------------
(* While `calm` and no call failed.                                        *)
ChainInv == CalmInv /\ (calm /\ troubles = 0 => Chains)

(* What failed stays counted.                                              *)
LEMMA TroubleStays ==
  ASSUME IInv, Next, troubles' = 0
  PROVE  troubles = 0
<1>1. troubles' = troubles \/ Trouble
  <2>1. Ask => troubles' = troubles
    BY DEF Ask, Upload, Install, Delete, Embed, Replace, Sweep, Cancel, Cleanup, SetPolicy, Asks
  <2>2. Crash => Trouble
    BY DEF Crash
  <2>3. ASSUME NEW t \in Tabs, Answer(t) PROVE troubles' = troubles \/ Trouble
    BY <2>3 DEF Answer, Discover, Facet, Rows, Create, Purge, Dispatch, Drop, Unlink, Forget,
       Wipe, Obliterate, Remove, bounds
  <2>4. ASSUME NEW h \in Handles, Work(h) PROVE troubles' = troubles \/ Trouble
    BY <2>4 DEF Work, Ready, Store, Check, Continue, Finish, End, Error, Fail, bounds
  <2>5. QueueStep => troubles' = troubles \/ Trouble
    BY DEF QueueStep, Promote, Stalled, Forgotten, Start, bounds
  <2>6. QED
    BY <2>1, <2>2, <2>3, <2>4, <2>5 DEF Next, QueueStep
<1>2. QED
  BY <1>1 DEF Trouble, IInv, Resting

LEMMA ChainNext ==
  ASSUME ChainInv, [Next /\ History]_history
  PROVE  ChainInv'
<1>1. CalmInv'
  BY CalmNext DEF ChainInv
<1>2. ASSUME calm', troubles' = 0 PROVE Chains'
  <2>1. CASE Next /\ History
    <3>1. calm /\ ~Crossed /\ ~Broken
      BY <1>2, <2>1 DEF History
    <3>2. IInv /\ Steady
      BY <3>1 DEF ChainInv, CalmInv
    <3>3. troubles = 0
      BY <1>2, <2>1, <3>2, TroubleStays
    <3>4. QED
      BY <1>2, <2>1, <3>1, <3>2, <3>3, NextChains DEF ChainInv
  <2>2. CASE UNCHANGED history
    <3>1. calm' = calm /\ UNCHANGED vars
      BY <2>2 DEF history
    <3>2. troubles' = troubles
      BY <3>1 DEF vars, bounds
    <3>3. QED
      BY <1>2, <3>1, <3>2, ChainsUnchanged DEF ChainInv
  <2>3. QED
    BY <2>1, <2>2
<1>3. QED
  BY <1>1, <1>2 DEF ChainInv

LEMMA ChainHolds == HistorySpec => []ChainInv
<1>1. Init => ChainInv
  BY InitHolds, InitSteady, InitChains DEF ChainInv, CalmInv
<1>2. ChainInv /\ [Next /\ History]_history => ChainInv'
  BY ChainNext
<1>3. QED
  BY <1>1, <1>2, PTL DEF HistorySpec

(* A file nobody works on, while nobody is asking for anything.            *)
LEMMA SettledRests ==
  ASSUME IInv, Steady, NEW f, Settled(f)
  PROVE  Free(f) /\ ~Moved(f) /\ ~Touched(f)
<1>1. Free(f)
  BY DEF IInv, Running, Settled, Free, WaitsFor, WorksOn, Waiting, Live
<1>2. \A t \in Tabs : req[t] = NoRequest
  BY DEF Settled, Asking, Steady, OneTab
<1>3. QED
  BY <1>1, <1>2, NothingTouched DEF Moved, Touched

LEMMA FullWhole ==
  ASSUME IInv, NEW f \in Content, Full(f, Size(f)), UpTo(f, Size(f))
  PROVE  /\ \A b \in Numbers : points[f][b] = IF b <= Size(f) THEN 1 ELSE 0
         /\ Size(f) = Cardinality({b \in Numbers : points[f][b] > 0})
<1>1. Size(f) \in 1..Batches /\ Size(f) \in Nat /\ Numbers \subseteq Nat
  BY SizeType, NumbersType
<1>2. \A b \in Numbers : points[f][b] = IF b <= Size(f) THEN 1 ELSE 0
  BY <1>1 DEF Full, UpTo
<1>4. {b \in Numbers : points[f][b] > 0} = 1..Size(f)
  BY <1>1, <1>2, BoundsAssumption DEF Numbers
<1>5. Cardinality(1..Size(f)) = Size(f)
  BY <1>1, FS_Interval
<1>6. QED
  BY <1>2, <1>4, <1>5

(* Without a failing call a chain of batches runs to its last batch, or to *)
(* the first with an article that has no text                              *)
(* (MCKnowledgeBase.NoLostChain): each job has the batches before its own  *)
(* behind it, none of them that one.                                       *)
THEOREM ChainsEnd == HistorySpec => []NoLostChain
<1>1. ASSUME ChainInv PROVE NoLostChain
  <2>1. SUFFICES ASSUME calm, troubles = 0, NEW f \in disk, Settled(f), Stored(f)
                 PROVE  \A b \in Numbers : points[f][b] = IF b <= Size(f) THEN 1 ELSE 0
    BY DEF NoLostChain
  <2>2. IInv /\ Steady /\ f \in Content /\ Chained(f)
    BY <1>1, <2>1 DEF ChainInv, CalmInv, IInv, Resting, Chains, Content
  <2>3. Free(f)
    BY <2>1, <2>2, SettledRests
  <2>4. QED
    BY <2>1, <2>2, <2>3, FullWhole DEF Chained, AtRest
<1>2. QED
  BY <1>1, ChainHolds, PTL

(* ... and its row says so truly (MCKnowledgeBase.IndexedIsAllThere).      *)
THEOREM IndexedIsTrue == HistorySpec => []IndexedIsAllThere
<1>1. ASSUME ChainInv PROVE IndexedIsAllThere
  <2>1. SUFFICES ASSUME calm, troubles = 0, NEW f \in disk, Settled(f), Reads(f, "indexed"),
                        row[f].chunks > 0
                 PROVE  /\ \A b \in Numbers : points[f][b] = IF b <= Size(f) THEN 1 ELSE 0
                        /\ row[f].chunks = Cardinality({b \in Numbers : points[f][b] > 0})
    BY DEF IndexedIsAllThere
  <2>2. IInv /\ Steady /\ f \in Content /\ Chained(f)
    BY <1>1, <2>1 DEF ChainInv, CalmInv, IInv, Resting, Chains, Content
  <2>3. Free(f) /\ ~Touched(f)
    BY <2>1, <2>2, SettledRests
  <2>4. Stored(f) /\ row[f].chunks = Size(f)
    BY <2>1, <2>2, <2>3 DEF Chained, Backed, Counted
  <2>5. Full(f, Size(f)) /\ UpTo(f, Size(f))
    BY <2>2, <2>3, <2>4 DEF Chained, AtRest
  <2>6. QED
    BY <2>2, <2>4, <2>5, FullWhole
<1>2. QED
  BY <1>1, ChainHolds, PTL

(* What was replaced or deleted leaves nothing behind                      *)
(* (MCKnowledgeBase.GoneIsForgotten): only the request that is about to    *)
(* remove it may find something of a file that is gone.                    *)
THEOREM NothingOfTheGone == HistorySpec => []GoneIsForgotten
<1>1. ASSUME ChainInv PROVE GoneIsForgotten
  <2>1. SUFFICES ASSUME calm, troubles = 0, NEW f \in Content, Settled(f), Stored(f)
                 PROVE  f \in disk
    BY DEF GoneIsForgotten, Content
  <2>2. IInv /\ Steady /\ Chained(f)
    BY <1>1, <2>1 DEF ChainInv, CalmInv, Chains
  <2>3. QED
    BY <2>1, <2>2, SettledRests DEF Chained, Gone
<1>2. QED
  BY <1>1, ChainHolds, PTL
=============================================================================
