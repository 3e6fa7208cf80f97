-------------------------- MODULE MCKnowledgeBase ---------------------------
(* Small instances of KnowledgeBase, with a history: `calm` as long as     *)
(* nobody restarted, forgot or cancelled anything, and whoever may touch   *)
(* what others work on waited for them.                                    *)
EXTENDS KnowledgeBase

CONSTANTS z1, z2, u1, d1, i1, i2, i3, i4, i5, i6, h1, h2, t1, t2

VARIABLE calm

history == <<vars, calm>>

Asking == {t \in Tabs : req[t].op # "none"}

(* A request made while another is answered; one without a check of its    *)
(* own while jobs are in flight; one that throws jobs away.                *)
Crossed ==
  /\ asked' # asked
  /\ \/ Asking # {}
     \/ AnyInflight /\ \E t \in Tabs : req'[t].op \in {"scan", "replace", "delete"}
     \/ \E t \in Tabs : req'[t].op \in {"cancel", "cleanup"}

(* A restart, a job that is forgotten, an index or a collection that could *)
(* not be written.                                                         *)
Broken ==
  /\ troubles' # troubles
  /\ \/ Crash \/ jobs' # jobs
     \/ \E h \in Handles : run[h].pc = "finish" /\ run'[h].pc = "end"
     \/ \E t \in Tabs : req[t].pc = "wipe" /\ req'[t].pc = "docs"

History == calm' = (calm /\ ~Crossed /\ ~Broken)

HistorySpec == Init /\ calm = TRUE /\ [][Next /\ History]_history

(* The first version of the ZIM has text everywhere, the second has an     *)
(* article without any in its first batch.                                 *)
SecondIsThin == [z \in {z1, z2} |-> IF z = z1 THEN Batches ELSE 1]

(* At first there is one file, if any: of the ZIM, its first version.      *)
SmallInit == Init /\ calm = TRUE /\ Cardinality(disk) <= 1 /\ z2 \notin disk

SmallSpec == SmallInit /\ [][Next /\ History]_history /\ Fairness

-----------------------------------------------------------------------------
Settled(f) ==
  /\ Asking = {}
  /\ \A i \in DOMAIN jobs : jobs[i].file = f => jobs[i].state \notin Live
  /\ \A h \in Handles : run[h].file # f

(* A job of the file used up its attempts: what it stored stays, and only  *)
(* an error no retry mends marks the row.                                  *)
GaveUp(f) ==
  \E i \in Files \cup Ids :
    jobs[i].file = f /\ jobs[i].state = "failed" /\ jobs[i].made >= Attempts

(* No passage is embedded twice (embed_file_job.ts, rag_service.ts:        *)
(* "duplicate jobs, producing duplicate chunks"): through retries, failing *)
(* calls, continuations and every sequence of requests, unless the file    *)
(* was given up with a part of it stored.                                  *)
OneCopyEach ==
  calm => \A f \in Zims \cup Uploads, b \in Numbers : ~GaveUp(f) => points[f][b] <= 1

(* "the only durable record of 'this file finished embedding'": of a file  *)
(* that reads indexed, and was not only found so, every batch up to `Size` *)
(* is there, and as many chunks were counted over them as Qdrant holds     *)
(* (#933).  `Size` is the last batch, or an earlier one: a ZIM reads       *)
(* indexed with the rest missing when an article of a full batch has no    *)
(* text (rag_service.ts:579).                                              *)
IndexedIsAllThere ==
  calm /\ troubles = 0 =>
    \A f \in disk :
      Settled(f) /\ Reads(f, "indexed") /\ row[f].chunks > 0
        => /\ \A b \in Numbers : points[f][b] = IF b <= Size(f) THEN 1 ELSE 0
           /\ row[f].chunks = Cardinality({b \in Numbers : points[f][b] > 0})

(* A chain of batches does not break off, unless after a batch with an     *)
(* article that has no text (`Size`; rag_service.ts:579), where it always  *)
(* does: when nobody works on a file, all of it up to there is embedded,   *)
(* or nothing.                                                             *)
NoLostChain ==
  calm /\ troubles = 0 =>
    \A f \in disk :
      Settled(f) /\ Stored(f) => \A b \in Numbers : points[f][b] = IF b <= Size(f) THEN 1 ELSE 0

(* "a fresh index can't be conflated with the old one": once nobody works  *)
(* on it, no passage of a file that was replaced or deleted is left.       *)
GoneIsForgotten ==
  calm /\ troubles = 0 =>
    \A f \in Zims \cup Uploads : Settled(f) /\ Stored(f) => f \in disk
=============================================================================
