------------------------- MODULE MCContentDownload --------------------------
(* Small instances of ContentDownload, with a history: `calm` as long as   *)
(* one actor at a time finishes its work on the files and the row; `kept`  *)
(* until a cancel, a delete or a start-up that was cut short parts the row *)
(* from the files by itself; `doomed`, the automatic updates that ended    *)
(* badly.                                                                  *)
EXTENDS ContentDownload, TLC

CONSTANTS h1, h2

VARIABLES calm, kept, doomed

history == <<vars, calm, kept, doomed>>

AnyHandle == Permutations(Handles)

(* Who is past a download, in the reconciliation, or halfway in a delete.  *)
Finishing == {h \in Handles : run[h].pc \in {"rename"} \cup Completing}
Booting == boot.pc # "done"
Deleting == user.pc = "row"
Cancelling == user.pc = "files" /\ user.v \in disk

Crowded ==
  \/ \E g, h \in Finishing : g # h
  \/ Finishing # {} /\ (Booting \/ Deleting \/ Cancelling)
  \/ Booting /\ Deleting

(* A single actor is enough for these: a cancel deletes the finished file  *)
(* of its version (download_service.ts:213: a re-download of what is       *)
(* installed, a failed job whose file is there), and a delete takes the    *)
(* row of a resource that has another file.                                *)
Parting ==
  \/ Cancelling
  \/ user.pc = "row" /\ disk # {}

(* The reconciliation was cut short.                                       *)
Skipped == boot.pc = "record" /\ faults' # faults

GaveUp(v) == jobs[v].auto /\ jobs[v].state # "failed" /\ jobs'[v].state = "failed"

Refused == auto # NoAttempt /\ auto' = NoAttempt /\ jobs[auto.v].state \in Live

History ==
  /\ calm' = (calm /\ ~Crowded')
  /\ kept' = (kept /\ ~Parting' /\ ~Skipped)
  /\ doomed' = IF Refused \/ \E v \in Versions : GaveUp(v) THEN doomed + 1 ELSE doomed

HistoryInit == Init /\ calm = TRUE /\ kept = TRUE /\ doomed = 0

HistorySpec == HistoryInit /\ [][Next /\ History]_history

-----------------------------------------------------------------------------
(* What the list of installed content says is there can be served: while   *)
(* one actor at a time finishes its work, the recorded file is on disk,    *)
(* through failing queries and restarts, except between the two steps of a *)
(* delete and until the start-up has reconciled.                           *)
RecordedFileExists ==
  calm /\ kept /\ ~Booting /\ ~Deleting /\ row # NoRow => row.version \in disk

(* Nothing on disk is forgotten and nothing missing is listed: when nobody *)
(* is at work and no query failed, the resource has a row exactly when it  *)
(* has a file, wherever downloads, deletes and restarts were interrupted.  *)
QuietlyTracked ==
  calm /\ kept /\ Finishing = {} /\ ~Booting /\ ~Deleting /\ faults = 0
    => (row = NoRow <=> disk = {})

(* "gate on the final attempt to count each doomed download once, not once *)
(* per retry" (work.ts:99-100): the failures counted against a resource    *)
(* never exceed the automatic updates of it that ended badly.              *)
OneFailureEach == row # NoRow => row.failures <= doomed

(* An update never leaves the user without the content: as long as one     *)
(* actor at a time finishes its work, only two steps of the user's own     *)
(* delete the last file of the resource: a delete, and a cancel of a job   *)
(* for the very version that is there (download_service.ts:213).           *)
ACopySurvives ==
  [][calm' /\ disk # {} /\ disk' = {}
       => DeleteFiles \/ \E v \in Versions : Delete(v)]_history
=============================================================================
