---------------------------- MODULE KnowledgeBase ---------------------------
(***************************************************************************)
(* The AI knowledge base: the files that can be embedded, the chunks in    *)
(* Qdrant, the rows of `kb_ingest_state`, and the queue `file-embeddings`, *)
(* whose jobs embed a ZIM in a chain of batches (admin/app/jobs/           *)
(* embed_file_job.ts, services/rag_service.ts, controllers/                *)
(* rag_controller.ts, utils/kb_ingest_decision.ts,                         *)
(* content_reindex_decision.ts).                                           *)
(*                                                                         *)
(* A batch's chunks are one unit.  Redis and MySQL answer; Ollama, Qdrant  *)
(* and the directory may not.                                              *)
(***************************************************************************)
EXTENDS Naturals, FiniteSets

CONSTANTS
  Zims, Uploads, Docs,  \* versions of one ZIM, users' files, the manual's files
  Batches,     \* of a ZIM; other files are one batch
  Thin,        \* first batch of a ZIM with an article that has no text, or the last
  Ids,         \* job ids made up by BullMQ
  Handles,     \* executions of EmbedFileJob.handle at the same time; 2
  Tabs,        \* requests in progress at the same time
  Attempts,    \* of a job; 30 in the code
  None, NoRow,
  MaxTroubles, \* bound on failing calls, restarts and forgotten jobs
  MaxRequests  \* bound on requests

Files == Zims \cup Uploads \cup Docs

ASSUME FilesAssumption ==
  /\ Zims \cap Uploads = {} /\ Docs \cap (Zims \cup Uploads) = {}
  /\ Ids \cap Files = {} /\ None \notin Files \cup Ids

ASSUME BoundsAssumption ==
  /\ Batches \in Nat \ {0} /\ Attempts \in Nat \ {0} /\ Thin \in [Zims -> 1..Batches]
  /\ MaxTroubles \in Nat /\ MaxRequests \in Nat

ASSUME NoRowAssumption ==
  NoRow \notin [state : {"pending_decision", "indexed", "failed"}, chunks : 0..Batches]

VARIABLES
  disk,    \* the files there are
  points,  \* Qdrant: copies of the chunks of each batch of each file
  row,     \* kb_ingest_state
  policy,  \* rag.defaultIngestPolicy
  jobs,    \* the queue: by file for a job with the file's id, else by id
  run,     \* the handles
  req,     \* the requests
  troubles, asked

bounds == <<troubles, asked>>
vars == <<disk, points, row, policy, jobs, run, req, bounds>>

Numbers == 1..Batches
Many == 2  \* copies; more are not told apart

Live == {"waiting", "active", "delayed"}
Job == [file : Files \cup {None}, batch : Numbers, sofar : 0..Batches,
        state : Live \cup {"none", "completed", "failed"},
        made : 0..Attempts, err : BOOLEAN, stalled : BOOLEAN]
NoJob == [file |-> None, batch |-> 1, sofar |-> 0, state |-> "none", made |-> 0,
          err |-> FALSE, stalled |-> FALSE]

(* `held`: the job is still this execution's; `got`: the chunks it stored; *)
(* `bad`: an UnrecoverableError.                                           *)
Handle == [pc : {"idle", "ready", "store", "check", "dispatch", "finish", "end", "error"},
           id : Files \cup Ids \cup {None}, file : Files \cup {None},
           batch : Numbers, sofar : 0..Batches, held : BOOLEAN, got : 0..1,
           bad : BOOLEAN]
Idle == [pc |-> "idle", id |-> None, file |-> None, batch |-> 1, sofar |-> 0,
         held |-> FALSE, got |-> 0, bad |-> FALSE]

Ops == {"none", "upload", "install", "replace", "scan", "embed", "reembed",
        "rebuild", "delete", "cancel", "cleanup"}
(* `f`: the file whose chunks go; `todo`: files (or jobs) still to be      *)
(* worked on; `new`, `has`: those without a row, those with chunks, as the *)
(* scan read them.                                                         *)
Request == [op : Ops, pc : {"idle", "docs", "facet", "rows", "create", "purge", "dispatch",
                            "drop", "unlink", "forget", "wipe", "obliterate", "remove"},
            f : Files \cup {None}, todo : SUBSET (Files \cup Ids),
            new : SUBSET Files, has : SUBSET Files, force : BOOLEAN]
NoRequest == [op |-> "none", pc |-> "idle", f |-> None, todo |-> {},
              new |-> {}, has |-> {}, force |-> FALSE]

Pending == [state |-> "pending_decision", chunks |-> 0]
Indexed(n) == [state |-> "indexed", chunks |-> n]

(* A row; browse_only and stalled are never written.                       *)
Row == [state : {"pending_decision", "indexed", "failed"}, chunks : 0..Batches]
         \cup {NoRow}

Stored(f) == \E b \in Numbers : points[f][b] > 0
Reads(f, state) == row[f] # NoRow /\ row[f].state = state
Empty == [b \in Numbers |-> 0]

(* The last batch of a file that is embedded: whether another follows is   *)
(* read off the number of articles that had text (More), so that a single  *)
(* article without any ends the chain, whatever is left of the ZIM.        *)
Size(f) == IF f \in Zims THEN Thin[f] ELSE 1
Embedded(f) == [b \in Numbers |-> IF b <= Size(f) THEN 1 ELSE 0]

(* Some files are there, embedded long ago or not yet seen.                *)
Init ==
  /\ disk \in SUBSET (Zims \cup Uploads) /\ Cardinality(disk \cap Zims) <= 1
  /\ \E known \in SUBSET disk :
       /\ row = [f \in Files |-> IF f \in known
                 THEN Indexed(Size(f)) ELSE NoRow]
       /\ points = [f \in Files |-> IF f \in known \cup Docs THEN Embedded(f) ELSE Empty]
  /\ policy \in {"Always", "Manual"}
  /\ jobs = [i \in Files \cup Ids |-> NoJob]
  /\ run = [h \in Handles |-> Idle]
  /\ req = [t \in Tabs |-> NoRequest]
  /\ troubles = 0 /\ asked = 0

-----------------------------------------------------------------------------
(* The queue.                                                              *)
Trouble == troubles < MaxTroubles /\ troubles' = troubles + 1 /\ asked' = asked

NewJob(f, b, n) == [NoJob EXCEPT !.file = f, !.batch = b, !.sofar = n, !.state = "waiting"]

(* EmbedFileJob.dispatch: the first batch of a file takes the file's id,   *)
(* under which queue.add keeps any job it still knows, even a finished     *)
(* one; a forced one or a continuation gets an id of its own.              *)
Added(f) ==
  IF jobs[f].state = "none" THEN [jobs EXCEPT ![f] = NewJob(f, 1, 0)] ELSE jobs
AddedAs(i, f, b, n) == [jobs EXCEPT ![i] = NewJob(f, b, n)]
Unused == {i \in Ids : jobs[i].state = "none" /\ \A h \in Handles : run[h].id # i}
NewId == CHOOSE i \in Unused : TRUE

Inflight(f) == \E i \in DOMAIN jobs : jobs[i].file = f /\ jobs[i].state \in Live
AnyInflight == \E i \in DOMAIN jobs : jobs[i].state \in Live

Promote(i) ==
  /\ jobs[i].state = "delayed"
  /\ jobs' = [jobs EXCEPT ![i].state = "waiting"]
  /\ UNCHANGED <<disk, points, row, policy, run, req, bounds>>

Start(h, i) ==
  /\ run[h] = Idle
  /\ jobs[i].state = "waiting"
  /\ jobs' = [jobs EXCEPT ![i].state = "active"]
  /\ run' = [run EXCEPT ![h] = [Idle EXCEPT !.pc = "ready", !.id = i, !.held = TRUE,
               !.file = jobs[i].file, !.batch = jobs[i].batch, !.sofar = jobs[i].sofar]]
  /\ UNCHANGED <<disk, points, row, policy, req, bounds>>

(* A job whose worker died: it may stall once.                             *)
Stalled(i) ==
  /\ jobs[i].state = "active"
  /\ \A h \in Handles : ~(run[h].id = i /\ run[h].held)
  /\ jobs' = [jobs EXCEPT ![i].state = IF jobs[i].stalled THEN "failed" ELSE "waiting",
                          ![i].stalled = TRUE]
  /\ UNCHANGED <<disk, points, row, policy, run, req, bounds>>

(* Only the last 50 completed and the last 20 failed jobs are remembered.  *)
Forgotten(i) ==
  /\ jobs[i].state \in {"completed", "failed"}
  /\ Trouble
  /\ jobs' = [jobs EXCEPT ![i] = NoJob]
  /\ UNCHANGED <<disk, points, row, policy, run, req>>

-----------------------------------------------------------------------------
(* EmbedFileJob.handle.                                                    *)
Exists(h) == run[h].id \in DOMAIN jobs /\ jobs[run[h].id].state # "none"
Becomes(h, q) == run' = [run EXCEPT ![h] = q]
Go(h, pc) == Becomes(h, [run[h] EXCEPT !.pc = pc])

(* Ollama and Qdrant may be missing, which no retry mends, or not ready;    *)
(* the file may be gone.  updateData throws if the job is.                 *)
Ready(h) ==
  /\ run[h].pc = "ready"
  /\ \/ /\ Go(h, IF ~Exists(h) THEN "end"
                 ELSE IF run[h].file \in disk \cup Docs THEN "store" ELSE "error")
        /\ jobs' = [jobs EXCEPT ![run[h].id].err = FALSE]
        /\ UNCHANGED bounds
     \/ /\ Trouble
        /\ \E bad \in BOOLEAN : Becomes(h, [run[h] EXCEPT !.pc = "error", !.bad = bad])
        /\ jobs' = jobs
  /\ UNCHANGED <<disk, points, row, policy, req>>

(* Variation: the last batch is not noticed.                               *)
More_overrun(h) == run[h].file \in Zims

(* processZIMFile: another batch follows one in which as many articles had *)
(* text as a batch may have, not one in which as many were read.           *)
More(h) == run[h].file \in Zims /\ run[h].batch \notin {Thin[run[h].file], Batches}
After(h) == IF More(h) THEN "check" ELSE "finish"

(* embedAndStoreText: an error is swallowed; a ZIM goes on without the     *)
(* chunks, another file's attempt fails.                                   *)
Store(h) ==
  LET f == run[h].file
      b == run[h].batch
  IN /\ run[h].pc = "store"
     /\ \/ /\ points' = [points EXCEPT ![f][b] = IF @ = Many THEN @ ELSE @ + 1]
           /\ Becomes(h, [run[h] EXCEPT !.pc = After(h), !.got = 1])
           /\ UNCHANGED bounds
        \/ /\ Trouble
           /\ Go(h, IF f \in Zims THEN After(h) ELSE "error")
           /\ points' = points
     /\ UNCHANGED <<disk, row, policy, jobs, req>>

(* After the pacing delay: a cancelled job does not continue.              *)
Check(h) ==
  /\ run[h].pc = "check"
  /\ Go(h, IF Exists(h) THEN "dispatch" ELSE "end")
  /\ UNCHANGED <<disk, points, row, policy, jobs, req, bounds>>

(* Variations: the next batch is queued under the file's id; it does not   *)
(* carry the chunks counted so far.                                        *)
Continue_sameId(h) ==
  /\ run[h].pc = "dispatch"
  /\ jobs' = Added(run[h].file)
  /\ Go(h, "end")
  /\ UNCHANGED <<disk, points, row, policy, req, bounds>>

Continue_uncounted(h) ==
  /\ run[h].pc = "dispatch"
  /\ Unused # {}
  /\ jobs' = AddedAs(NewId, run[h].file, run[h].batch + 1, 0)
  /\ Go(h, "end")
  /\ UNCHANGED <<disk, points, row, policy, req, bounds>>

(* The next batch is queued while this job is still active; a job removed  *)
(* meanwhile only makes the update of its data throw.                      *)
Continue(h) ==
  /\ run[h].pc = "dispatch"
  /\ Unused # {}
  /\ jobs' = AddedAs(NewId, run[h].file, run[h].batch + 1, run[h].sofar + run[h].got)
  /\ Go(h, "end")
  /\ UNCHANGED <<disk, points, row, policy, req, bounds>>

(* After the last batch the file is marked, unless the job is gone.        *)
Finish(h) ==
  LET f == run[h].file IN
  /\ run[h].pc = "finish"
  /\ \/ /\ row' = IF Exists(h) THEN [row EXCEPT ![f] = Indexed(run[h].sofar + run[h].got)]
                  ELSE row
        /\ UNCHANGED bounds
     \/ Exists(h) /\ row' = row /\ Trouble
  /\ Go(h, "end")
  /\ UNCHANGED <<disk, points, policy, jobs, req>>

(* A completed job is remembered; only that of the file's id matters.      *)
End(h) ==
  LET i == run[h].id IN
  /\ run[h].pc = "end"
  /\ jobs' = IF ~run[h].held THEN jobs
             ELSE IF i \in Ids THEN [jobs EXCEPT ![i] = NoJob]
             ELSE [jobs EXCEPT ![i].state = "completed"]
  /\ Becomes(h, Idle)
  /\ UNCHANGED <<disk, points, row, policy, req, bounds>>

(* The catch block; markFailed is for errors no retry mends.               *)
MarkedFailed(h) ==
  LET f == run[h].file IN
  IF ~run[h].bad \/ ~Exists(h) THEN row
  ELSE [row EXCEPT ![f] = IF @ = NoRow THEN [Pending EXCEPT !.state = "failed"]
                          ELSE [@ EXCEPT !.state = "failed"]]

Fail(h, made) ==
  LET i == run[h].id IN
  /\ run[h].pc = "error"
  /\ row' = MarkedFailed(h)
  /\ jobs' = IF ~run[h].held THEN [jobs EXCEPT ![i].err = Exists(h)]
             ELSE [jobs EXCEPT ![i].err = TRUE, ![i].made = made, ![i].state =
                     IF run[h].bad \/ made >= Attempts THEN "failed" ELSE "delayed"]
  /\ Becomes(h, Idle)
  /\ UNCHANGED <<disk, points, policy, req, bounds>>

(* Variation: the attempts are not counted.                                *)
Error_forever(h) == Fail(h, 0)

Error(h) == Fail(h, jobs[run[h].id].made + 1)

(* The container restarts: handles and requests die.                       *)
Crash ==
  /\ (\E h \in Handles : run[h] # Idle) \/ \E t \in Tabs : req[t] # NoRequest
  /\ Trouble
  /\ run' = [h \in Handles |-> Idle]
  /\ req' = [t \in Tabs |-> NoRequest]
  /\ UNCHANGED <<disk, points, row, policy, jobs>>

-----------------------------------------------------------------------------
(* The requests, one step per await that others can notice.                *)
Asks(t, r) ==
  /\ req[t] = NoRequest
  /\ asked < MaxRequests /\ asked' = asked + 1 /\ troubles' = troubles
  /\ req' = [req EXCEPT ![t] = r]

To(t, pc) == req' = [req EXCEPT ![t].pc = pc]
Done(t) == req' = [req EXCEPT ![t] = NoRequest]
OnTo(t, pc, r) ==
  req' = [req EXCEPT ![t] = IF r.todo = {} THEN NoRequest ELSE [r EXCEPT !.pc = pc]]

(* A file nobody has seen yet: names are made unique, or hold a version.   *)
Unseen(f) ==
  /\ f \notin disk /\ row[f] = NoRow /\ ~Stored(f)
  /\ \A i \in DOMAIN jobs : jobs[i].file # f
  /\ \A h \in Handles : run[h].file # f

Upload(t, f) ==
  /\ f \in Uploads /\ Unseen(f)
  /\ Asks(t, [NoRequest EXCEPT !.op = "upload", !.pc = "dispatch", !.todo = {f}])
  /\ disk' = disk \cup {f}
  /\ UNCHANGED <<points, row, policy, jobs, run>>

(* The end of RunDownloadJob's onComplete, for the first version of a ZIM. *)
Install(t, f) ==
  /\ disk \cap Zims = {}
  /\ f \in Zims /\ Unseen(f)
  /\ Asks(t, NoRequest)
  /\ disk' = disk \cup {f}
  /\ IF policy = "Manual"
     THEN row' = [row EXCEPT ![f] = Pending] /\ jobs' = jobs
     ELSE row' = row /\ jobs' = Added(f)
  /\ UNCHANGED <<points, policy, run>>

(* ... and for the next: reconcileReplacedContentFile.                     *)
Replace(t, f, g) ==
  /\ f \in Zims \cap disk
  /\ g \in Zims /\ Unseen(g)
  /\ Asks(t, [NoRequest EXCEPT !.op = "replace", !.pc = "drop", !.f = f, !.todo = {g}])
  /\ disk' = (disk \ {f}) \cup {g}
  /\ UNCHANGED <<points, row, policy, jobs, run>>

(* scanAndSyncStorage, reembedAll and resetAndRebuild; the last two refuse *)
(* while jobs are in flight.                                               *)
Sweep(t, op) ==
  /\ op \in {"scan", "reembed", "rebuild"}
  /\ op # "scan" => ~AnyInflight
  /\ Asks(t, [NoRequest EXCEPT !.op = op, !.pc = IF op = "rebuild" THEN "wipe" ELSE "docs",
                               !.force = op # "scan"])
  /\ UNCHANGED <<disk, points, row, policy, jobs, run>>

(* The files that have a line, and buttons, in the panel.                  *)
Listed(f) == f \notin Docs /\ (Stored(f) \/ row[f] # NoRow)

(* pickRowAction: "Index" for a file that waits for a decision, else       *)
(* "Retry" or "Re-embed", which first remove what there is.                *)
ToEmbed(f) ==
  LET force == ~Reads(f, "pending_decision")
  IN [NoRequest EXCEPT !.op = "embed", !.pc = IF force THEN "purge" ELSE "dispatch",
                       !.todo = {f}, !.force = force]

(* Variation: a job of the file that is in flight does not matter.         *)
Embed_anyway(t, f) ==
  /\ Listed(f)
  /\ Asks(t, ToEmbed(f))
  /\ UNCHANGED <<disk, points, row, policy, jobs, run>>

(* embedSingleFile: of a file that is not in flight.                       *)
Embed(t, f) ==
  /\ Listed(f)
  /\ ~Inflight(f)
  /\ Asks(t, ToEmbed(f))
  /\ UNCHANGED <<disk, points, row, policy, jobs, run>>

(* deleteFileBySource.                                                     *)
Delete(t, f) ==
  /\ Listed(f)
  /\ Asks(t, [NoRequest EXCEPT !.op = "delete", !.pc = "drop", !.f = f])
  /\ UNCHANGED <<disk, points, row, policy, jobs, run>>

(* cancelAllJobs: the users' files of the jobs it lists, then the queue.   *)
Cancel(t) ==
  /\ Asks(t, [NoRequest EXCEPT !.op = "cancel", !.pc = "obliterate"])
  /\ disk' = disk \ {f \in Uploads : \E i \in DOMAIN jobs :
                       jobs[i].file = f /\ jobs[i].state \in Live \cup {"failed"}}
  /\ UNCHANGED <<points, row, policy, jobs, run>>

(* cleanupFailedJobs: those that failed once, retried ones included.       *)
Cleanup(t) ==
  LET failed == {i \in DOMAIN jobs : jobs[i].state \in {"waiting", "delayed", "failed"}
                                       /\ jobs[i].err}
  IN /\ failed # {}
     /\ Asks(t, [NoRequest EXCEPT !.op = "cleanup", !.pc = "remove", !.todo = failed])
     /\ UNCHANGED <<disk, points, row, policy, jobs, run>>

SetPolicy(t) ==
  /\ Asks(t, NoRequest)
  /\ policy' = IF policy = "Always" THEN "Manual" ELSE "Always"
  /\ UNCHANGED <<disk, points, row, jobs, run>>

(* discoverNomadDocs(true) and _discoverKbFiles.                           *)
Discover(t) ==
  /\ req[t].pc = "docs"
  /\ jobs' = [i \in DOMAIN jobs |-> IF i \in Docs THEN Added(i)[i] ELSE jobs[i]]
  /\ OnTo(t, CASE req[t].op = "scan" -> "facet"
               [] req[t].op = "reembed" -> "purge"
               [] OTHER -> "dispatch",
          [req[t] EXCEPT !.todo = disk])
  /\ UNCHANGED <<disk, points, row, policy, run, bounds>>

Facet(t) ==
  /\ req[t].pc = "facet"
  /\ \/ /\ req' = [req EXCEPT ![t].pc = "rows", ![t].has = {f \in req[t].todo : Stored(f)}]
        /\ UNCHANGED bounds
     \/ Trouble /\ Done(t)
  /\ UNCHANGED <<disk, points, row, policy, jobs, run>>

(* decideScanAction: the files to embed, of those found.                   *)
Unembedded(r) ==
  {f \in r.todo : \/ row[f] = NoRow /\ f \notin r.has /\ policy = "Always"
                  \/ Reads(f, "indexed") /\ f \notin r.has
                  \/ Reads(f, "pending_decision") /\ policy = "Always"}

Rows(t) ==
  /\ req[t].pc = "rows"
  /\ req' = [req EXCEPT ![t].pc = "create", ![t].todo = Unembedded(req[t]),
                        ![t].new = {f \in req[t].todo : row[f] = NoRow}]
  /\ UNCHANGED <<disk, points, row, policy, jobs, run, bounds>>

(* A row somebody made in between ends the scan.                           *)
Create(t) ==
  LET r == req[t]
      free == {f \in r.new : row[f] = NoRow}
  IN /\ r.pc = "create"
     /\ \E made \in SUBSET free :
          /\ made # r.new => free # r.new
          /\ row' = [f \in Files |-> IF f \notin made THEN row[f]
                                     ELSE IF f \in r.has THEN Indexed(0) ELSE Pending]
          /\ IF made = r.new THEN OnTo(t, "dispatch", r) ELSE Done(t)
     /\ UNCHANGED <<disk, points, policy, jobs, run, bounds>>

(* _deletePointsBySource before a forced dispatch; a failure skips a file. *)
Purge(t) ==
  /\ req[t].pc = "purge"
  /\ \E f \in req[t].todo :
       \/ /\ points' = [points EXCEPT ![f] = Empty]
          /\ req' = [req EXCEPT ![t].pc = "dispatch", ![t].f = f]
          /\ UNCHANGED bounds
       \/ /\ Trouble /\ points' = points
          /\ OnTo(t, "purge", [req[t] EXCEPT !.todo = @ \ {f}])
  /\ UNCHANGED <<disk, row, policy, jobs, run>>

(* _dispatchEmbedJobsFor.                                                  *)
Dispatch(t) ==
  LET r == req[t] IN
  /\ r.pc = "dispatch"
  /\ \E f \in r.todo :
       /\ r.f \in {None, f}
       /\ r.force => Unused # {}
       /\ jobs' = IF r.force THEN AddedAs(NewId, f, 1, 0) ELSE Added(f)
       /\ OnTo(t, IF r.op = "reembed" THEN "purge" ELSE "dispatch",
               [r EXCEPT !.todo = @ \ {f}, !.f = None])
  /\ UNCHANGED <<disk, points, row, policy, run, bounds>>

(* Variation: the old file's chunks stay.                                  *)
Drop_skipped(t) ==
  /\ req[t].pc = "drop"
  /\ To(t, IF req[t].f \in Uploads THEN "unlink" ELSE "forget")
  /\ UNCHANGED <<disk, points, row, policy, jobs, run, bounds>>

(* Only a file that was indexed is replaced.                               *)
Drop(t) ==
  LET f == req[t].f IN
  /\ req[t].pc = "drop"
  /\ \/ /\ req[t].op = "replace" /\ ~Reads(f, "indexed")
        /\ points' = points /\ Done(t) /\ UNCHANGED bounds
     \/ /\ req[t].op = "replace" => Reads(f, "indexed")
        /\ points' = [points EXCEPT ![f] = Empty]
        /\ To(t, IF f \in Uploads THEN "unlink" ELSE "forget")
        /\ UNCHANGED bounds
     \/ Trouble /\ points' = points /\ Done(t)
  /\ UNCHANGED <<disk, row, policy, jobs, run>>

Unlink(t) ==
  /\ req[t].pc = "unlink"
  /\ disk' = disk \ {req[t].f}
  /\ To(t, "forget")
  /\ UNCHANGED <<points, row, policy, jobs, run, bounds>>

Forget(t) ==
  /\ req[t].pc = "forget"
  /\ row' = [row EXCEPT ![req[t].f] = NoRow]
  /\ OnTo(t, "dispatch", [req[t] EXCEPT !.f = None])
  /\ UNCHANGED <<disk, points, policy, jobs, run, bounds>>

(* resetAndRebuild: a failure to drop the collection is only logged.       *)
Wipe(t) ==
  /\ req[t].pc = "wipe"
  /\ \/ points' = [f \in Files |-> Empty] /\ UNCHANGED bounds
     \/ points' = points /\ Trouble
  /\ To(t, "docs")
  /\ UNCHANGED <<disk, row, policy, jobs, run>>

(* The executions of removed jobs go on in memory.                         *)
Obliterate(t) ==
  /\ req[t].pc = "obliterate"
  /\ jobs' = [i \in DOMAIN jobs |-> NoJob]
  /\ run' = [h \in Handles |-> [run[h] EXCEPT !.held = FALSE]]
  /\ Done(t)
  /\ UNCHANGED <<disk, points, row, policy, bounds>>

(* A user's file goes first; a job that started again cannot be removed.   *)
Remove(t) ==
  /\ req[t].pc = "remove"
  /\ \E i \in req[t].todo :
       /\ disk' = disk \ ({jobs[i].file} \cap Uploads)
       /\ IF jobs[i].state = "active"
          THEN jobs' = jobs /\ Done(t)
          ELSE /\ jobs' = [jobs EXCEPT ![i] = NoJob]
               /\ OnTo(t, "remove", [req[t] EXCEPT !.todo = @ \ {i}])
  /\ UNCHANGED <<points, row, policy, run, bounds>>

-----------------------------------------------------------------------------
Ask ==
  \E t \in Tabs :
    \/ \E f \in Files : \/ Upload(t, f) \/ Install(t, f) \/ Delete(t, f) \/ Embed(t, f)
                        \/ \E g \in Files : Replace(t, f, g)
    \/ \E op \in Ops : Sweep(t, op)
    \/ Cancel(t) \/ Cleanup(t) \/ SetPolicy(t)

Answer(t) ==
  \/ Discover(t) \/ Facet(t) \/ Rows(t) \/ Create(t) \/ Purge(t)
  \/ Dispatch(t) \/ Drop(t) \/ Unlink(t) \/ Forget(t) \/ Wipe(t)
  \/ Obliterate(t) \/ Remove(t)

Work(h) ==
  \/ Ready(h) \/ Store(h) \/ Check(h) \/ Continue(h) \/ Finish(h) \/ End(h) \/ Error(h)

Next ==
  \/ Ask \/ Crash
  \/ \E t \in Tabs : Answer(t)
  \/ \E h \in Handles : Work(h)
  \/ \E i \in DOMAIN jobs : \/ Promote(i) \/ Stalled(i) \/ Forgotten(i)
                            \/ \E h \in Handles : Start(h, i)

Spec == Init /\ [][Next]_vars

(* Handlers go on, also when a call failed or throws; BullMQ hands out,     *)
(* promotes and checks the jobs.  Nothing is said of one among several.    *)
Fairness ==
  /\ WF_vars(\E t \in Tabs : Answer(t))
  /\ WF_vars(\E h \in Handles : Work(h))
  /\ WF_vars(\E i \in DOMAIN jobs :
               Promote(i) \/ Stalled(i) \/ \E h \in Handles : Start(h, i))

FairSpec == Spec /\ Fairness

-----------------------------------------------------------------------------
TypeOK ==
  /\ disk \in SUBSET (Zims \cup Uploads)
  /\ points \in [Files -> [Numbers -> 0..Many]]
  /\ row \in [Files -> Row]
  /\ policy \in {"Always", "Manual"}
  /\ jobs \in [Files \cup Ids -> Job]
  /\ run \in [Handles -> Handle]
  /\ req \in [Tabs -> Request]
  /\ troubles \in 0..MaxTroubles /\ asked \in 0..MaxRequests

(* Every embedding job leaves the queue: the pacing, the retries and the   *)
(* continuations of a file end, whatever is cancelled, deleted or failing  *)
(* (the "endless queue loop" of embed_file_job.ts:269).                    *)
QueueDrains == AnyInflight ~> ~AnyInflight
=============================================================================
