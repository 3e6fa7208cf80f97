-------------------------- MODULE MCMapExtraction ---------------------------
(* Small instances of MapExtraction, with a history: `calm` as long as one *)
(* handle at a time finishes its work, and nobody touches the file it has  *)
(* made or the one that is recorded; `abandoned` once a file has lost the  *)
(* job that would have seen to it; `left` once one could not be deleted.   *)
EXTENDS MapExtraction, TLC

CONSTANTS f1, f2, h1, h2

VARIABLES calm, abandoned, left

history == <<vars, calm, abandoned, left>>

Anything == Permutations(Handles) \cup Permutations(Extracts)

Finishing == {h \in Handles : run[h].pc \in Completing}

(* Two handles meet at the end, or one whose job is cancelled or whose     *)
(* file is deleted; a request is for the file that the row records, or     *)
(* against it.                                                             *)
Disturbed ==
  \/ \E h \in Finishing', g \in Handles :
       g # h /\ (g \in Finishing' \/ run'[g].f = run'[h].f)
  \/ \E h \in Finishing' :
       ~run'[h].held \/ user'.f = run'[h].f \/ disk'[run'[h].f] = "none"
  \/ /\ asked' # asked /\ row # None
     /\ jobs'[row] # jobs[row] \/ user'.f = row \/ disk'[row] # disk[row]

(* A job is dismissed; a restart or a failing query ends a cancel   *)
(* request halfway, or an execution whose job is gone.                     *)
Dismissed ==
  user' = user /\ \E f \in Extracts :
    jobs[f].state \in {"failed", "waiting", "delayed"} /\ jobs'[f] = NoJob

CutShort ==
  /\ troubles' # troubles
  /\ \/ user.pc = "file" /\ user' = NoRequest
     \/ \E h \in Handles : run[h] # Idle /\ run'[h] # run[h] /\ ~run[h].held

History ==
  /\ calm' = (calm /\ ~Disturbed)
  /\ abandoned' = (abandoned \/ Dismissed \/ CutShort)
  /\ left' = (left \/ \E h \in Handles : Undeleted(h))

HistoryInit == Init /\ calm = TRUE /\ abandoned = FALSE /\ left = FALSE

HistorySpec == HistoryInit /\ [][Next /\ History]_history

-----------------------------------------------------------------------------
Quiet ==
  /\ \A f \in Extracts : jobs[f].state = "none"
  /\ \A h \in Handles : run[h] = Idle
  /\ user = NoRequest

(* "the file is registered and the previous version (if any) is deleted"   *)
(* (run_extract_pmtiles_job.ts:164-165), in this order: what the region's  *)
(* row records is on disk and is all there, whatever fails and dies while  *)
(* another extract of the region is made.                                  *)
RecordedIsWhole == calm /\ ~booting /\ row # None => disk[row] = "whole"

(* Nothing half-made is left under a name that the map page lists: however *)
(* extracts were cancelled, retried, raced or cut off, once nobody works   *)
(* on the region its files are whole.                                      *)
NoPartLeft == Quiet /\ ~abandoned => \A f \in Extracts : disk[f] # "part"

(* Extracts do not pile up: "a prior extract crashed before writing its    *)
(* InstalledResource row" (run_extract_pmtiles_job.ts:225-226) or lost it  *)
(* at a start, and yet once its successor is done it is gone, unless it    *)
(* could not be deleted.                                                   *)
OneFile ==
  calm /\ Quiet /\ ~abandoned /\ ~left =>
    \A f, g \in Extracts : disk[f] # "none" /\ disk[g] # "none" => f = g
=============================================================================
