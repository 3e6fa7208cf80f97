--------------------------- MODULE MapExtraction ----------------------------
(***************************************************************************)
(* The extracts of one map region: the jobs of the `pmtiles-extract`       *)
(* queue, the child process of each, the files, the region's row of        *)
(* `installed_resources`, cancellation and the reconciliation at start-up  *)
(* (admin/app/jobs/run_extract_pmtiles_job.ts, services/map_service.ts,    *)
(* download_service.ts, collection_manifest_service.ts).                   *)
(*                                                                         *)
(* A region may be extracted at several zooms and from several dates of    *)
(* the planet: each has a job id and a file name of its own, and all share *)
(* one row and one prefix of their names.  The child writes the file under *)
(* its final name.                                                         *)
(***************************************************************************)
EXTENDS Naturals, FiniteSets

CONSTANTS
  Extracts,    \* of the region: dates and zooms
  Handles,     \* executions of RunExtractPmtilesJob.handle at the same time
  Attempts,    \* of a job; 3 in the code
  None,
  MaxTroubles, \* bound on failing queries and restarts of the container
  MaxRequests  \* bound on requests by the user

ASSUME NamesAssumption == None \notin Extracts

ASSUME BoundsAssumption ==
  Attempts \in Nat \ {0} /\ MaxTroubles \in Nat /\ MaxRequests \in Nat

VARIABLES
  jobs,    \* the queue, by extract
  flags,   \* the extracts with a cancel signal in Redis
  disk,    \* by extract: no file, a part of one, or the whole
  row,     \* the extract that the region's row records, or None
  run,     \* the handles
  user,    \* a cancel request in progress
  booting, \* the reconciliation at start-up is to come
  troubles, asked

bounds == <<troubles, asked>>
vars == <<jobs, flags, disk, row, run, user, booting, bounds>>

Live == {"waiting", "active", "delayed"}
Job == [state : Live \cup {"none", "failed"}, made : 0..Attempts, stalled : BOOLEAN]
NoJob == [state |-> "none", made |-> 0, stalled |-> FALSE]

(* While the child process runs, and onComplete.                           *)
Extracting == {"spawn", "child"}
Completing == {"stat", "lookup", "record", "drop", "prune"}
Pcs == {"idle", "clean", "end", "error"} \cup Extracting \cup Completing

(* `held`: the job is still this execution's; `linked`: the child writes   *)
(* the file of that name; `old`: the extract last read from the row.       *)
Handle == [pc : Pcs, f : Extracts \cup {None}, held : BOOLEAN, cancelled : BOOLEAN,
           linked : BOOLEAN, old : Extracts \cup {None}]
Idle == [pc |-> "idle", f |-> None, held |-> FALSE, cancelled |-> FALSE,
         linked |-> FALSE, old |-> None]

NoRequest == [pc |-> "idle", f |-> None]

(* The region is installed, or it is not; since the last start, or before. *)
Init ==
  /\ disk \in [Extracts -> {"none", "whole"}]
  /\ \A f, g \in Extracts : disk[f] = "whole" /\ disk[g] = "whole" => f = g
  /\ row \in {None} \cup {f \in Extracts : disk[f] = "whole"}
  /\ jobs = [f \in Extracts |-> NoJob]
  /\ flags = {}
  /\ run = [h \in Handles |-> Idle]
  /\ user = NoRequest /\ booting = FALSE
  /\ troubles = 0 /\ asked = 0

-----------------------------------------------------------------------------
(* Files: a child goes on writing to a file that is unlinked.              *)
Removed(gone) == disk' = [f \in Extracts |-> IF f \in gone THEN "none" ELSE disk[f]]
Unlinked(gone, r) ==
  run' = [h \in Handles |-> [r[h] EXCEPT !.linked = @ /\ r[h].f \notin gone]]

-----------------------------------------------------------------------------
(* Requests by users.                                                      *)
Asks == asked < MaxRequests /\ asked' = asked + 1 /\ troubles' = troubles
Trouble == troubles < MaxTroubles /\ troubles' = troubles + 1 /\ asked' = asked

(* extractRegion: a job in the queue is returned, a failed one replaced.   *)
ExtractRegion(f) ==
  /\ Asks
  /\ jobs[f].state \notin Live
  /\ jobs' = [jobs EXCEPT ![f] = [NoJob EXCEPT !.state = "waiting"]]
  /\ UNCHANGED <<flags, disk, row, run, user, booting>>

(* removeFailedJob looks at no state: a list that is out of date may name  *)
(* a failed job that was started anew since, if not one that is executed.  *)
Dismiss(f) ==
  /\ jobs[f].state \in {"failed", "waiting", "delayed"}
  /\ jobs' = [jobs EXCEPT ![f] = NoJob]
  /\ UNCHANGED <<flags, disk, row, run, user, booting, bounds>>

(* cancelJob: signal, wait for a terminal state or four seconds, remove    *)
(* the job whatever it is by then, delete its file.                        *)
Cancel(f) ==
  /\ Asks
  /\ user = NoRequest
  /\ jobs[f].state # "none"
  /\ flags' = flags \cup {f}
  /\ user' = [pc |-> "remove", f |-> f]
  /\ UNCHANGED <<jobs, disk, row, run, booting>>

RemoveJob ==
  /\ user.pc = "remove"
  /\ jobs' = [jobs EXCEPT ![user.f] = NoJob]
  /\ run' = [h \in Handles |-> [run[h] EXCEPT !.held = @ /\ run[h].f # user.f]]
  /\ user' = [user EXCEPT !.pc = "file"]
  /\ UNCHANGED <<flags, disk, row, booting, bounds>>

DeleteOutput ==
  /\ user.pc = "file"
  /\ Removed({user.f}) /\ Unlinked({user.f}, run)
  /\ user' = NoRequest
  /\ UNCHANGED <<jobs, flags, row, booting, bounds>>

(* The signal lives for five minutes; a handle looks for it every two      *)
(* seconds.                                                                *)
FlagExpires(f) ==
  /\ f \in flags
  /\ \A h \in Handles : run[h].f # f
  /\ flags' = flags \ {f}
  /\ UNCHANGED <<jobs, disk, row, run, user, booting, bounds>>

(* delete: an extract's name is not that of a curated map, and its row is  *)
(* not looked for.                                                         *)
Delete(f) ==
  /\ Asks
  /\ disk[f] # "none"
  /\ Removed({f}) /\ Unlinked({f}, run)
  /\ UNCHANGED <<jobs, flags, row, user, booting>>

-----------------------------------------------------------------------------
(* The queue and its worker.                                               *)
Promote(f) ==
  /\ jobs[f].state = "delayed"
  /\ jobs' = [jobs EXCEPT ![f].state = "waiting"]
  /\ UNCHANGED <<flags, disk, row, run, user, booting, bounds>>

(* Variation: one attempt too many.                                        *)
JobFails_oneMore(f, unrecoverable) ==
  LET made == jobs[f].made + 1 IN
  jobs' = [jobs EXCEPT ![f].made = made,
    ![f].state = IF unrecoverable \/ made > Attempts THEN "failed" ELSE "delayed"]

JobFails(f, unrecoverable) ==
  LET made == jobs[f].made + 1 IN
  jobs' = [jobs EXCEPT ![f].made = made,
    ![f].state = IF unrecoverable \/ made >= Attempts THEN "failed" ELSE "delayed"]

(* A job whose worker died: it may stall once.  Its lock outlives the      *)
(* start-up.                                                               *)
Stalled(f) ==
  /\ ~booting
  /\ jobs[f].state = "active"
  /\ \A h \in Handles : ~(run[h].f = f /\ run[h].held)
  /\ IF jobs[f].stalled THEN JobFails(f, TRUE)
     ELSE jobs' = [jobs EXCEPT ![f].state = "waiting", ![f].stalled = TRUE]
  /\ UNCHANGED <<flags, disk, row, run, user, booting, bounds>>

(* An earlier execution of the same job, no longer held, is past its child *)
(* (the cancel request waits for longer than the handle takes to kill it). *)
Start(h, f) ==
  /\ run[h] = Idle
  /\ jobs[f].state = "waiting"
  /\ \A g \in Handles : run[g].f = f => run[g].pc \notin Extracting
  /\ jobs' = [jobs EXCEPT ![f].state = "active"]
  /\ run' = [run EXCEPT ![h] = [Idle EXCEPT !.pc = "spawn", !.f = f, !.held = TRUE]]
  /\ UNCHANGED <<flags, disk, row, user, booting, bounds>>

-----------------------------------------------------------------------------
(* RunExtractPmtilesJob.handle.                                            *)
Becomes(h, q) == run' = [run EXCEPT ![h] = q]
Go(h, pc) == Becomes(h, [run[h] EXCEPT !.pc = pc])

(* The child creates its output, or starts over in an earlier one.         *)
OpenOutput(h) ==
  /\ run[h].pc = "spawn"
  /\ disk' = [disk EXCEPT ![run[h].f] = "part"]
  /\ Becomes(h, [run[h] EXCEPT !.pc = "child", !.linked = TRUE])
  /\ UNCHANGED <<jobs, flags, row, user, booting, bounds>>

(* The program is not there.                                               *)
SpawnFails(h) ==
  /\ run[h].pc = "spawn"
  /\ Go(h, "error")
  /\ UNCHANGED <<jobs, flags, disk, row, user, booting, bounds>>

(* The child ends, by itself or killed; it may have ended well before.     *)
Exit(h) ==
  \/ /\ run[h].pc = "child"
     /\ disk' = IF run[h].linked THEN [disk EXCEPT ![run[h].f] = "whole"] ELSE disk
     /\ Becomes(h, [run[h] EXCEPT !.pc = "stat", !.linked = FALSE])
     /\ UNCHANGED <<jobs, flags, row, user, booting, bounds>>
  \/ /\ run[h].pc \in Extracting
     /\ Becomes(h, [run[h] EXCEPT !.pc = "clean", !.linked = FALSE])
     /\ UNCHANGED <<jobs, flags, disk, row, user, booting, bounds>>

(* The two-second tick takes the cancel signal and kills the child, if it  *)
(* still runs.                                                             *)
Tick(h) ==
  /\ run[h].pc \in Extracting \cup Completing \cup {"clean"}
  /\ run[h].f \in flags
  /\ flags' = flags \ {run[h].f}
  /\ Becomes(h, [run[h] EXCEPT !.cancelled = TRUE])
  /\ UNCHANGED <<jobs, disk, row, user, booting, bounds>>

(* Variation: what the child has written is left there.                    *)
Clean_keeps(h) ==
  /\ run[h].pc = "clean"
  /\ Go(h, "error")
  /\ UNCHANGED <<jobs, flags, disk, row, user, booting, bounds>>

(* An exit code other than 0: the file of that name goes, whoever wrote it.*)
Clean(h) ==
  /\ run[h].pc = "clean"
  /\ Removed({run[h].f})
  /\ Unlinked({run[h].f}, [run EXCEPT ![h].pc = "error"])
  /\ UNCHANGED <<jobs, flags, row, user, booting, bounds>>

(* The file may have been deleted under the child.                         *)
Stat(h) ==
  /\ run[h].pc = "stat"
  /\ Go(h, IF disk[run[h].f] = "none" THEN "error" ELSE "lookup")
  /\ UNCHANGED <<jobs, flags, disk, row, user, booting, bounds>>

(* A query of onComplete: a failing one fails the job.                     *)
Query(h, pc, Then) ==
  /\ run[h].pc = pc
  /\ \/ Then /\ UNCHANGED bounds
     \/ Trouble /\ Go(h, "error") /\ row' = row
  /\ UNCHANGED <<jobs, flags, disk, user, booting>>

Lookup(h) ==
  Query(h, "lookup", Becomes(h, [run[h] EXCEPT !.pc = "record", !.old = row]) /\ row' = row)

Record(h) == Query(h, "record", row' = run[h].f /\ Go(h, "drop"))

(* The file the row had recorded.                                          *)
Drop(h) ==
  LET gone == {run[h].old} \ {run[h].f} IN
  /\ run[h].pc = "drop"
  /\ Removed(gone) /\ Unlinked(gone, [run EXCEPT ![h].pc = "prune"])
  /\ UNCHANGED <<jobs, flags, row, user, booting, bounds>>

(* Variation: no other file of the region is looked for.                   *)
Prune_none(h) ==
  /\ run[h].pc = "prune"
  /\ Go(h, "end")
  /\ UNCHANGED <<jobs, flags, disk, row, user, booting, bounds>>

(* The other files of the region, those that are being written included.   *)
Prune(h) ==
  LET gone == Extracts \ {run[h].f, run[h].old} IN
  /\ run[h].pc = "prune"
  /\ Removed(gone) /\ Unlinked(gone, [run EXCEPT ![h].pc = "end"])
  /\ UNCHANGED <<jobs, flags, row, user, booting, bounds>>

(* A listing or an unlink that fails is logged: what it was to delete is   *)
(* left, or some of it, and the handle goes on.                            *)
Undeleted(h) ==
  /\ Trouble
  /\ \/ /\ run[h].pc = "drop"
        /\ Removed({}) /\ Unlinked({}, [run EXCEPT ![h].pc = "prune"])
     \/ /\ run[h].pc = "prune"
        /\ \E gone \in SUBSET (Extracts \ {run[h].f, run[h].old}) :
             Removed(gone) /\ Unlinked(gone, [run EXCEPT ![h].pc = "end"])
  /\ UNCHANGED <<jobs, flags, row, user, booting>>

(* The job is done, and is not kept.                                       *)
End(h) ==
  /\ run[h].pc = "end"
  /\ jobs' = IF run[h].held THEN [jobs EXCEPT ![run[h].f] = NoJob] ELSE jobs
  /\ Becomes(h, Idle)
  /\ UNCHANGED <<flags, disk, row, user, booting, bounds>>

(* The attempt has failed: for good, if it was cancelled.                  *)
Fail(h) ==
  /\ run[h].pc = "error"
  /\ IF run[h].held THEN JobFails(run[h].f, run[h].cancelled) ELSE jobs' = jobs
  /\ Becomes(h, Idle)
  /\ UNCHANGED <<flags, disk, row, user, booting, bounds>>

-----------------------------------------------------------------------------
(* The container is restarted: its processes die.                          *)
Crash ==
  /\ Trouble
  /\ run' = [h \in Handles |-> Idle]
  /\ user' = NoRequest
  /\ booting' = TRUE
  /\ UNCHANGED <<jobs, flags, disk, row>>

(* Variation: a row that records an extract is left alone.                 *)
Reconcile_skips ==
  /\ booting
  /\ booting' = FALSE
  /\ UNCHANGED <<jobs, flags, disk, row, run, user, bounds>>

(* reconcileFromFilesystem: no file name of an extract parses, and the row *)
(* of a region without a file is deleted.                                  *)
Reconcile ==
  /\ booting
  /\ row' = None
  /\ booting' = FALSE
  /\ UNCHANGED <<jobs, flags, disk, run, user, bounds>>

-----------------------------------------------------------------------------
Step(h) ==
  \/ OpenOutput(h) \/ SpawnFails(h) \/ Exit(h) \/ Tick(h) \/ Clean(h) \/ Stat(h)
  \/ Lookup(h) \/ Record(h) \/ Drop(h) \/ Prune(h) \/ Undeleted(h)
  \/ End(h) \/ Fail(h)

Ask(f) == ExtractRegion(f) \/ Dismiss(f) \/ Cancel(f) \/ Delete(f)

Queue(f) == Promote(f) \/ Stalled(f) \/ FlagExpires(f) \/ \E h \in Handles : Start(h, f)

Next ==
  \/ \E h \in Handles : Step(h)
  \/ \E f \in Extracts : Ask(f) \/ Queue(f)
  \/ RemoveJob \/ DeleteOutput \/ Crash \/ Reconcile

Spec == Init /\ [][Next]_vars

-----------------------------------------------------------------------------
TypeOK ==
  /\ jobs \in [Extracts -> Job]
  /\ flags \subseteq Extracts
  /\ disk \in [Extracts -> {"none", "part", "whole"}]
  /\ row \in Extracts \cup {None}
  /\ run \in [Handles -> Handle]
  /\ user \in [pc : {"idle", "remove", "file"}, f : Extracts \cup {None}]
  /\ booting \in BOOLEAN
  /\ troubles \in 0..MaxTroubles /\ asked \in 0..MaxRequests
=============================================================================
