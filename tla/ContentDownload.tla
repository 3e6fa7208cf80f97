-------------------------- MODULE ContentDownload ---------------------------
(***************************************************************************)
(* The downloads of one content resource (a ZIM library or a map): the     *)
(* jobs of the `downloads` queue and their retries, the files, the row of  *)
(* `installed_resources`, cancellation, deletion, the auto-update and the  *)
(* reconciliation at start-up (admin/app/jobs/run_download_job.ts,         *)
(* utils/downloads.ts, services/download_service.ts,                       *)
(* collection_update_service.ts, content_auto_update_service.ts,           *)
(* commands/queue/work.ts).                                                *)
(*                                                                         *)
(* A version has one URL, hence one job id and one file name.  Resource    *)
(* downloads are dispatched with forceNew: a partial file left behind is   *)
(* overwritten, so only the one a download is writing matters.             *)
(***************************************************************************)
EXTENDS Naturals, FiniteSets

CONSTANTS
  Versions,    \* of the resource; a greater one is newer
  Handles,     \* executions of RunDownloadJob.handle at the same time
  Attempts,    \* of a job; 10 in the code
  MAX_CONSECUTIVE_FAILURES,
  None, NoRow,
  Counted, Unread,  \* nothing to count; a `failed` event not yet handled
  MaxFaults,   \* bound on failing queries of the worker and the start-up
  MaxCrashes,  \* bound on restarts of the admin's container
  MaxRequests, \* bound on requests by the user and attempts of the auto-update
  MaxCount     \* bound on the failures counted

ASSUME VersionsAssumption ==
  Versions \subseteq Nat /\ None \notin Versions

ASSUME BoundsAssumption ==
  /\ Attempts \in Nat \ {0} /\ MAX_CONSECUTIVE_FAILURES \in Nat
  /\ MaxFaults \in Nat /\ MaxCrashes \in Nat /\ MaxCount \in Nat
  /\ MaxRequests \in Nat

VARIABLES
  jobs,    \* the queue, by version
  flags,   \* the versions with a cancel signal in Redis
  disk,    \* the versions with a finished file
  row,     \* the resource's row
  run,     \* the handles
  owed,    \* by version, where the worker is at counting a failed job
  user,    \* a cancel or delete request in progress
  auto,    \* the auto-update in progress
  boot,    \* the reconciliation at start-up
  faults, crashes, asked

bounds == <<faults, crashes, asked>>
requests == <<user, auto>>
vars == <<jobs, flags, disk, row, run, owed, requests, boot, bounds>>

Live == {"waiting", "active", "delayed"}
Job == [state : Live \cup {"none", "failed"}, made : 0..Attempts,
        auto : BOOLEAN, stalled : BOOLEAN]
NoJob == [state |-> "none", made |-> 0, auto |-> FALSE, stalled |-> FALSE]

ASSUME RowAssumption ==
  NoRow \notin [version : Versions, failures : 0..MaxCount, disabled : BOOLEAN]

ASSUME OwedAssumption ==
  Counted # Unread /\ {Counted, Unread} \cap 0..MaxCount = {}

(* onComplete, from the first query to the last.                           *)
Completing == {"lookup", "record", "clear", "drop", "prior", "again", "superseded"}
Pcs == {"idle", "head", "stream", "rename", "end", "error"} \cup Completing

(* `held`: the job is still this execution's; `tmp`: its `.tmp` file is    *)
(* there; `old`: the version last read from the row; `seen`: whether the   *)
(* new file was there; `dirty`: what recordResourceUpdateSuccess resets.   *)
Handle == [pc : Pcs, v : Versions \cup {None}, held : BOOLEAN, auto : BOOLEAN,
           cancelled : BOOLEAN, tmp : BOOLEAN, old : Versions \cup {None},
           seen : BOOLEAN, dirty : SUBSET {"failures", "disabled"}]
Idle == [pc |-> "idle", v |-> None, held |-> FALSE, auto |-> FALSE,
         cancelled |-> FALSE, tmp |-> FALSE, old |-> None, seen |-> FALSE,
         dirty |-> {}]

NoRequest == [pc |-> "idle", v |-> None]
NoAttempt == [v |-> None, n |-> 0]
Booted == [pc |-> "done", todo |-> {}, found |-> FALSE]

Fresh(v) == [version |-> v, failures |-> 0, disabled |-> FALSE]

(* The resource is installed, or it is not.                                *)
Init ==
  /\ disk \in {{}} \cup {{v} : v \in Versions}
  /\ row = IF disk = {} THEN NoRow ELSE Fresh(CHOOSE v \in disk : TRUE)
  /\ jobs = [v \in Versions |-> NoJob]
  /\ flags = {} /\ owed = [v \in Versions |-> Counted]
  /\ run = [h \in Handles |-> Idle]
  /\ user = NoRequest /\ auto = NoAttempt
  /\ boot = Booted
  /\ faults = 0 /\ crashes = 0 /\ asked = 0

-----------------------------------------------------------------------------
(* The row.  updateOrCreate keeps what the values do not name.             *)
Recorded(v) == IF row = NoRow THEN Fresh(v) ELSE [row EXCEPT !.version = v]
Version == IF row = NoRow THEN None ELSE row.version

(* recordResourceUpdateFailure, on an instance that read n failures.       *)
CountedFrom(n) ==
  IF row = NoRow THEN NoRow
  ELSE [row EXCEPT !.failures = n + 1,
                   !.disabled = @ \/ n + 1 >= MAX_CONSECUTIVE_FAILURES]

QueryFails == faults < MaxFaults /\ faults' = faults + 1 /\ UNCHANGED <<crashes, asked>>

-----------------------------------------------------------------------------
(* Requests by users and the auto-update.                                  *)
Asks == asked < MaxRequests /\ asked' = asked + 1 /\ UNCHANGED <<faults, crashes>>

(* queue.add: a job of the same id, even a failed one, is kept instead.    *)
Added(v, byAuto) ==
  IF jobs[v].state # "none" THEN jobs
  ELSE [jobs EXCEPT ![v] = [NoJob EXCEPT !.state = "waiting", !.auto = byAuto]]

(* getActiveByUrl and dispatch: a failed job is removed first.             *)
Download(v) ==
  /\ Asks
  /\ jobs[v].state \notin Live
  /\ jobs' = [jobs EXCEPT ![v] = [NoJob EXCEPT !.state = "waiting"]]
  /\ UNCHANGED <<flags, disk, row, run, owed, requests, boot>>

(* applyUpdate from the update list, which may be out of date.             *)
ApplyUpdate(v) ==
  /\ Asks
  /\ \E w \in Versions : w < v
  /\ jobs[v].state \notin Live
  /\ jobs' = Added(v, FALSE)
  /\ UNCHANGED <<flags, disk, row, run, owed, requests, boot>>

(* removeFailedJob looks at no state: a list that is out of date may name  *)
(* a failed job that was started anew since, if not one that is executed.  *)
Dismiss(v) ==
  /\ jobs[v].state \in {"failed", "waiting", "delayed"}
  /\ jobs' = [jobs EXCEPT ![v] = NoJob]
  /\ UNCHANGED <<flags, disk, row, run, owed, requests, boot, bounds>>

(* cancelJob: signal, wait for a terminal state or four seconds, remove    *)
(* the job whatever it is by then, delete its files.                       *)
Cancel(v) ==
  /\ Asks
  /\ user = NoRequest
  /\ jobs[v].state # "none"
  /\ flags' = flags \cup {v}
  /\ user' = [pc |-> "remove", v |-> v]
  /\ UNCHANGED <<jobs, disk, row, run, owed, auto, boot>>

RemoveJob ==
  /\ user.pc = "remove"
  /\ jobs' = [jobs EXCEPT ![user.v] = NoJob]
  /\ run' = [h \in Handles |-> [run[h] EXCEPT !.held = @ /\ run[h].v # user.v]]
  /\ user' = [user EXCEPT !.pc = "files"]
  /\ UNCHANGED <<flags, disk, row, owed, auto, boot, bounds>>

DeleteFiles ==
  /\ user.pc = "files"
  /\ disk' = disk \ {user.v}
  /\ run' = [h \in Handles |-> [run[h] EXCEPT !.tmp = @ /\ run[h].v # user.v]]
  /\ user' = NoRequest
  /\ UNCHANGED <<jobs, flags, row, owed, auto, boot, bounds>>

(* The signal lives for five minutes.                                      *)
FlagExpires(v) ==
  /\ v \in flags
  /\ flags' = flags \ {v}
  /\ UNCHANGED <<jobs, disk, row, run, owed, requests, boot, bounds>>

(* delete: the file, then the resource's row, whatever it records.         *)
Delete(v) ==
  /\ Asks
  /\ user = NoRequest
  /\ v \in disk
  /\ disk' = disk \ {v}
  /\ user' = [pc |-> "row", v |-> v]
  /\ UNCHANGED <<jobs, flags, row, run, owed, auto, boot>>

DeleteRow ==
  /\ user.pc = "row"
  /\ row' = NoRow
  /\ user' = NoRequest
  /\ UNCHANGED <<jobs, flags, disk, run, owed, auto, boot, bounds>>

(* updateSetting('contentAutoUpdate.enabled', true).                       *)
ResetBackoff ==
  /\ Asks
  /\ row # NoRow
  /\ row' = Fresh(row.version)
  /\ UNCHANGED <<jobs, flags, disk, run, owed, requests, boot>>

(* attempt: the row is read, no download may be in progress; the update of *)
(* this resource may follow those of others.                               *)
Evaluate(v) ==
  /\ Asks
  /\ auto = NoAttempt
  /\ row # NoRow /\ ~row.disabled /\ v > row.version
  /\ \A w \in Versions : jobs[w].state \notin Live
  /\ auto' = [v |-> v, n |-> row.failures]
  /\ UNCHANGED <<jobs, flags, disk, row, run, owed, user, boot>>

(* applyUpdate with auto: a download in progress counts as a failure.      *)
Dispatch ==
  /\ auto # NoAttempt
  /\ IF jobs[auto.v].state \in Live
     THEN auto.n < MaxCount /\ row' = CountedFrom(auto.n) /\ jobs' = jobs
     ELSE row' = row /\ jobs' = Added(auto.v, TRUE)
  /\ auto' = NoAttempt
  /\ UNCHANGED <<flags, disk, run, owed, user, boot, bounds>>

-----------------------------------------------------------------------------
(* The queue and its worker.                                               *)

Promote(v) ==
  /\ jobs[v].state = "delayed"
  /\ jobs' = [jobs EXCEPT ![v].state = "waiting"]
  /\ UNCHANGED <<flags, disk, row, run, owed, requests, boot, bounds>>

(* Variations: one attempt too many; each failed attempt is counted; the   *)
(* attempts are not counted.                                               *)
JobFails_oneMore(v, unrecoverable) ==
  LET made == jobs[v].made + 1 IN
  /\ jobs' = [jobs EXCEPT ![v].made = made,
       ![v].state = IF unrecoverable \/ made > Attempts THEN "failed" ELSE "delayed"]
  /\ owed' = owed

JobFails_eachCounts(v, unrecoverable) ==
  LET made == jobs[v].made + 1 IN
  /\ jobs' = [jobs EXCEPT ![v].made = made,
       ![v].state = IF unrecoverable \/ made >= Attempts THEN "failed" ELSE "delayed"]
  /\ owed' = IF jobs[v].auto THEN [owed EXCEPT ![v] = Unread] ELSE owed

JobFails_forever(v, unrecoverable) ==
  /\ jobs' = [jobs EXCEPT ![v].state = IF unrecoverable THEN "failed" ELSE "delayed"]
  /\ owed' = owed

(* An attempt fails; the last one, or an unrecoverable error, ends the     *)
(* job.  The listener counts an automatic job out of attempts.             *)
JobFails(v, unrecoverable) ==
  LET made == jobs[v].made + 1 IN
  /\ jobs' = [jobs EXCEPT ![v].made = made,
       ![v].state = IF unrecoverable \/ made >= Attempts THEN "failed" ELSE "delayed"]
  /\ owed' = IF jobs[v].auto /\ made >= Attempts
             THEN [owed EXCEPT ![v] = Unread] ELSE owed

(* A job whose worker died: it may stall once.                             *)
Stalled(v) ==
  /\ jobs[v].state = "active"
  /\ \A h \in Handles : ~(run[h].v = v /\ run[h].held)
  /\ IF jobs[v].stalled THEN JobFails(v, TRUE)
     ELSE /\ jobs' = [jobs EXCEPT ![v].state = "waiting", ![v].stalled = TRUE]
          /\ owed' = owed
  /\ UNCHANGED <<flags, disk, row, run, requests, boot, bounds>>

(* The `failed` event of an automatic job's last attempt: the row is read, *)
(* then its failures are written.                                          *)
ReadFailures(v) ==
  /\ owed[v] = Unread
  /\ owed' = [owed EXCEPT ![v] = IF row = NoRow THEN Counted ELSE row.failures]
  /\ UNCHANGED <<jobs, flags, disk, row, run, requests, boot, bounds>>

CountFailure(v) ==
  /\ owed[v] \in 0..(MaxCount - 1)
  /\ owed' = [owed EXCEPT ![v] = Counted]
  /\ row' = CountedFrom(owed[v])
  /\ UNCHANGED <<jobs, flags, disk, run, requests, boot, bounds>>

(* A handle is taken; an earlier one of the same job, no longer held, is   *)
(* past its download (the worker polls the cancel signal every two seconds)*)
Start(h, v) ==
  /\ run[h] = Idle
  /\ jobs[v].state = "waiting"
  /\ \A g \in Handles : run[g].v = v => run[g].pc \in Completing \cup {"end"}
  /\ jobs' = [jobs EXCEPT ![v].state = "active"]
  /\ run' = [run EXCEPT ![h] = [Idle EXCEPT !.pc = "head", !.v = v, !.held = TRUE,
                                            !.auto = jobs[v].auto]]
  /\ UNCHANGED <<flags, disk, row, owed, requests, boot, bounds>>

-----------------------------------------------------------------------------
(* RunDownloadJob.handle and doResumableDownload.                          *)

Becomes(h, q) == run' = [run EXCEPT ![h] = q]
Go(h, pc) == Becomes(h, [run[h] EXCEPT !.pc = pc])

(* Variation: with forceNew the finished file is deleted first.            *)
Open_replaces(h) ==
  /\ run[h].pc = "head"
  /\ \/ /\ Becomes(h, [run[h] EXCEPT !.pc = "stream", !.tmp = TRUE])
        /\ disk' = disk \ {run[h].v}
     \/ Go(h, "error") /\ disk' = disk
  /\ UNCHANGED <<jobs, flags, row, owed, requests, boot, bounds>>

(* HEAD and GET; the stream opens the `.tmp` file.                         *)
Open(h) ==
  /\ run[h].pc = "head"
  /\ \/ Becomes(h, [run[h] EXCEPT !.pc = "stream", !.tmp = TRUE])
     \/ Go(h, "error")
  /\ UNCHANGED <<jobs, flags, disk, row, owed, requests, boot, bounds>>

(* The last byte is written, or the network fails or stalls.               *)
Stream(h) ==
  /\ run[h].pc = "stream"
  /\ Go(h, "rename") \/ Go(h, "error")
  /\ UNCHANGED <<jobs, flags, disk, row, owed, requests, boot, bounds>>

(* A rename that fails is fine if the finished file is there.              *)
Rename(h) ==
  LET there == IF run[h].tmp THEN disk \cup {run[h].v} ELSE disk IN
  /\ run[h].pc = "rename"
  /\ disk' = there
  /\ Becomes(h, [run[h] EXCEPT !.tmp = FALSE,
                   !.pc = IF run[h].v \in there THEN "lookup" ELSE "error"])
  /\ UNCHANGED <<jobs, flags, row, owed, requests, boot, bounds>>

(* A query of onComplete: a failing one ends it, and the job succeeds.     *)
Query(h, pc, Then) ==
  /\ run[h].pc = pc
  /\ \/ Then /\ UNCHANGED bounds
     \/ QueryFails /\ Go(h, "end") /\ row' = row
  /\ UNCHANGED <<jobs, flags, disk, owed, requests, boot>>

Lookup(h) ==
  Query(h, "lookup",
    Becomes(h, [run[h] EXCEPT !.pc = "record", !.old = Version]) /\ row' = row)

(* The new version is recorded; an automatic download also resets the      *)
(* back-off, if there is any.                                              *)
Dirty(r) ==
  {f \in {"failures", "disabled"} :
     IF f = "failures" THEN r.failures # 0 ELSE r.disabled}

Record(h) ==
  LET dirty == IF run[h].auto THEN Dirty(Recorded(run[h].v)) ELSE {} IN
  Query(h, "record",
    /\ row' = Recorded(run[h].v)
    /\ Becomes(h, [run[h] EXCEPT !.pc = IF dirty = {} THEN "drop" ELSE "clear",
                                 !.dirty = dirty]))

Cleared(dirty) ==
  IF row = NoRow THEN NoRow
  ELSE [row EXCEPT !.failures = IF "failures" \in dirty THEN 0 ELSE @,
                   !.disabled = @ /\ "disabled" \notin dirty]

Clear(h) ==
  /\ run[h].pc = "clear"
  /\ \/ row' = Cleared(run[h].dirty) /\ UNCHANGED bounds
     \/ row' = row /\ QueryFails
  /\ Becomes(h, [run[h] EXCEPT !.pc = "drop", !.dirty = {}])
  /\ UNCHANGED <<jobs, flags, disk, owed, requests, boot>>

(* Variation: whatever was recorded is deleted.                            *)
DropOld_any(h) ==
  LET left == disk \ {run[h].old} IN
  /\ run[h].pc = "drop"
  /\ disk' = left
  /\ Becomes(h, [run[h] EXCEPT !.pc = "prior", !.old = None,
                               !.seen = run[h].v \in left])
  /\ UNCHANGED <<jobs, flags, row, owed, requests, boot, bounds>>

(* The file recorded before is deleted, if it is another one.              *)
DropOld(h) ==
  LET old == run[h].old
      left == IF old = run[h].v THEN disk ELSE disk \ {old}
  IN /\ run[h].pc = "drop"
     /\ disk' = left
     /\ Becomes(h, [run[h] EXCEPT !.pc = "prior", !.old = None,
                                  !.seen = run[h].v \in left])
     /\ UNCHANGED <<jobs, flags, row, owed, requests, boot, bounds>>

(* downloadRemoteSuccessCallback does the same again, with the safety      *)
(* rails of decideSupersededDeletion.                                      *)
Prior(h) ==
  Query(h, "prior",
    Becomes(h, [run[h] EXCEPT !.pc = "again", !.old = Version]) /\ row' = row)

RecordAgain(h) ==
  Query(h, "again", row' = Recorded(run[h].v) /\ Go(h, "superseded"))

DropSuperseded(h) ==
  LET old == run[h].old
      superseded == old # None /\ old # run[h].v /\ run[h].seen /\ run[h].v > old
  IN /\ run[h].pc = "superseded"
     /\ disk' = IF superseded THEN disk \ {old} ELSE disk
     /\ Go(h, "end")
     /\ UNCHANGED <<jobs, flags, row, owed, requests, boot, bounds>>

(* removeOnComplete.                                                       *)
End(h) ==
  /\ run[h].pc = "end"
  /\ jobs' = IF run[h].held THEN [jobs EXCEPT ![run[h].v] = NoJob] ELSE jobs
  /\ Becomes(h, Idle)
  /\ UNCHANGED <<flags, disk, row, owed, requests, boot, bounds>>

Throw(h) ==
  /\ run[h].pc = "error"
  /\ IF run[h].held THEN JobFails(run[h].v, run[h].cancelled)
     ELSE UNCHANGED <<jobs, owed>>
  /\ Becomes(h, Idle)
  /\ UNCHANGED <<flags, disk, row, requests, boot, bounds>>

(* The handle sees the cancel signal: a download is aborted; an onComplete *)
(* that has begun goes on, although the job fails at once.                 *)
Abort(h) ==
  LET v == run[h].v IN
  /\ v \in flags
  /\ flags' = flags \ {v}
  /\ \/ /\ run[h].pc \in {"head", "stream"}
        /\ Becomes(h, [run[h] EXCEPT !.pc = "error", !.cancelled = TRUE])
        /\ UNCHANGED <<jobs, owed>>
     \/ /\ run[h].pc \in {"rename"} \cup Completing
        /\ IF run[h].held THEN JobFails(v, TRUE) ELSE UNCHANGED <<jobs, owed>>
        /\ Becomes(h, [run[h] EXCEPT !.held = FALSE])
  /\ UNCHANGED <<disk, row, requests, boot, bounds>>

-----------------------------------------------------------------------------
(* The container restarts: handles and requests die, Redis and the files   *)
(* stay.  reconcileFromFilesystem lists the files, records each, and       *)
(* deletes the row of a resource it saw no file of.                        *)
Crash ==
  /\ crashes < MaxCrashes
  /\ crashes' = crashes + 1
  /\ run' = [h \in Handles |-> Idle]
  /\ owed' = [v \in Versions |-> Counted]
  /\ user' = NoRequest /\ auto' = NoAttempt
  /\ boot' = [Booted EXCEPT !.pc = "list"]
  /\ UNCHANGED <<jobs, flags, disk, row, faults, asked>>

BootList ==
  /\ boot.pc = "list"
  /\ boot' = [pc |-> "record", todo |-> disk, found |-> disk # {}]
  /\ UNCHANGED <<jobs, flags, disk, row, run, owed, requests, bounds>>

BootQuery(Then) ==
  /\ boot.pc = "record"
  /\ \/ Then /\ UNCHANGED bounds
     \/ QueryFails /\ boot' = Booted /\ row' = row
  /\ UNCHANGED <<jobs, flags, disk, run, owed, requests>>

BootRecord(v) ==
  /\ v \in boot.todo
  /\ BootQuery(row' = Recorded(v) /\ boot' = [boot EXCEPT !.todo = @ \ {v}])

(* Variation: rows of resources without a file are kept.                   *)
BootPurge_keeps ==
  /\ boot.todo = {}
  /\ BootQuery(row' = row /\ boot' = Booted)

BootPurge ==
  /\ boot.todo = {}
  /\ BootQuery(row' = (IF boot.found THEN row ELSE NoRow) /\ boot' = Booted)

-----------------------------------------------------------------------------
UserStep ==
  \/ \E v \in Versions :
       \/ Download(v) \/ ApplyUpdate(v) \/ Dismiss(v) \/ Cancel(v) \/ Delete(v)
       \/ FlagExpires(v)
  \/ RemoveJob \/ DeleteFiles \/ DeleteRow \/ ResetBackoff

AutoStep == Dispatch \/ \E v \in Versions : Evaluate(v)

QueueStep == \E v \in Versions : Promote(v) \/ Stalled(v) \/ ReadFailures(v) \/ CountFailure(v)

HandleStep(h) ==
  \/ Open(h) \/ Stream(h) \/ Rename(h) \/ Lookup(h) \/ Record(h) \/ Clear(h)
  \/ DropOld(h) \/ Prior(h) \/ RecordAgain(h) \/ DropSuperseded(h) \/ End(h) \/ Throw(h)

BootStep == BootList \/ BootPurge \/ \E v \in Versions : BootRecord(v)

Next ==
  \/ UserStep \/ AutoStep \/ QueueStep \/ BootStep \/ Crash
  \/ \E h \in Handles : HandleStep(h) \/ Abort(h) \/ \E v \in Versions : Start(h, v)

Spec == Init /\ [][Next]_vars

(* The worker takes jobs, BullMQ promotes delayed ones and looks for       *)
(* stalled ones, handles go on, and so does the start-up.  Nobody has to   *)
(* ask for anything, and a cancel signal may expire unseen.                *)
Fairness ==
  /\ WF_vars(QueueStep) /\ WF_vars(BootStep) /\ WF_vars(RemoveJob)
  /\ \A h \in Handles : WF_vars(HandleStep(h))
  /\ \A v \in Versions : WF_vars(\E h \in Handles : Start(h, v))

FairSpec == Spec /\ Fairness

-----------------------------------------------------------------------------
TypeOK ==
  /\ jobs \in [Versions -> Job]
  /\ flags \subseteq Versions /\ disk \subseteq Versions
  /\ owed \in [Versions -> {Counted, Unread} \cup 0..MaxCount]
  /\ row \in [version : Versions, failures : 0..MaxCount, disabled : BOOLEAN] \cup {NoRow}
  /\ run \in [Handles -> Handle]
  /\ user \in [pc : {"idle", "remove", "files", "row"}, v : Versions \cup {None}]
  /\ auto \in [v : Versions \cup {None}, n : 0..MaxCount]
  /\ boot \in [pc : {"done", "list", "record"}, todo : SUBSET Versions, found : BOOLEAN]
  /\ faults \in 0..MaxFaults /\ crashes \in 0..MaxCrashes /\ asked \in 0..MaxRequests

(* A download that was accepted ends, whatever fails and wherever the      *)
(* container restarts: the pre-flights that wait for downloads to finish   *)
(* do not wait for ever.                                                   *)
DownloadEnds ==
  \A v \in Versions : jobs[v].state \in Live ~> jobs[v].state \notin Live
=============================================================================
