------------------------ MODULE MapExtraction_proofs ------------------------
(* Proofs about MapExtraction, for every value of its constants: the       *)
(* types, that no half-made extract is left behind, that what the region's *)
(* row records is whole, and that one file of it is kept.                  *)
EXTENDS MCMapExtraction, TLAPS

-----------------------------------------------------------------------------
(* The strengthening: who holds a job, who writes a file, and who will see *)
(* to a file that is half-made.                                            *)

PastChild == Completing \cup {"end"}

Works(h, f) == run[h].f = f /\ run[h].pc \in {"child", "clean"}

HeldIsActive ==
  \A h \in Handles :
    /\ run[h].pc = "idle" <=> run[h].f = None
    /\ run[h].held => run[h].f \in Extracts /\ jobs[run[h].f].state = "active"
    /\ run[h].linked => run[h].pc = "child"

AttemptsLeft == \A f \in Extracts : jobs[f].state \in Live => jobs[f].made < Attempts

(* Of the executions of a job one is held; the others are past their child.*)
OneAtWork ==
  \A g, h \in Handles :
    g # h /\ run[g].f = run[h].f =>
      /\ ~(run[g].pc \in Extracting /\ run[h].pc \in Extracting)
      /\ run[h].held => ~run[g].held /\ run[g].pc \notin Extracting

ChildWrites ==
  \A h \in Handles :
    /\ run[h].pc = "child" /\ ~run[h].linked => disk[run[h].f] = "none"
    /\ run[h].held /\ run[h].pc \in PastChild => disk[run[h].f] # "part"

Owned(f) ==
  \/ jobs[f].state # "none"
  \/ user.pc = "file" /\ user.f = f
  \/ \E h \in Handles : Works(h, f)

PartHasOwner == ~abandoned => \A f \in Extracts : disk[f] = "part" => Owned(f)

RequestNames == user.pc # "idle" => user.f \in Extracts

FinishingAlone ==
  calm => \A h \in Handles : run[h].pc \in Completing =>
    /\ run[h].held /\ user.f # run[h].f
    /\ disk[run[h].f] # "none"
    /\ \A g \in Handles : g # h => run[g].f # run[h].f /\ run[g].pc \notin Completing
    /\ run[h].pc \in {"drop", "prune"} => row \in {run[h].f, None}

RecordedIsSafe ==
  calm /\ ~booting /\ row # None =>
    /\ disk[row] = "whole" /\ user.f # row
    /\ \A h \in Handles : run[h].f = row => run[h].held /\ run[h].pc \in {"drop", "prune", "end"}
    /\ jobs[row].state # "none" => \E h \in Handles : run[h].f = row

IInv ==
  /\ TypeOK /\ HeldIsActive /\ OneAtWork /\ ChildWrites
  /\ PartHasOwner /\ RequestNames /\ AttemptsLeft /\ FinishingAlone /\ RecordedIsSafe

-----------------------------------------------------------------------------
LEMMA RunType == ASSUME IInv, NEW h \in Handles PROVE run[h] \in Handle
  BY DEF IInv, TypeOK

LEMMA IdleType == Idle \in Handle /\ Idle.pc = "idle" /\ Idle.f = None /\ ~Idle.held
                    /\ ~Idle.linked
  BY DEF Idle, Handle, Pcs

LEMMA NoJobType == NoJob \in Job /\ NoJob.state = "none"
  BY BoundsAssumption DEF NoJob, Job, Live

(* The history only gets worse.                                            *)
LEMMA Worse ==
  ASSUME History
  PROVE  (calm' => calm /\ ~Disturbed) /\ (~abandoned' => ~abandoned /\ ~Dismissed /\ ~CutShort)
  BY DEF History

LEMMA StillOwned ==
  ASSUME IInv, History,
         \A f \in Extracts : disk'[f] = "part" /\ ~abandoned' =>
           (disk[f] = "part" /\ (Owned(f) => Owned(f)')) \/ Owned(f)'
  PROVE  PartHasOwner'
  BY Worse DEF IInv, PartHasOwner

-----------------------------------------------------------------------------
(* A handle's steps that only move it on.                                  *)

Moves(h, q) ==
  /\ q \in Handle /\ q.f = run[h].f /\ q.held = run[h].held
  /\ run' = [run EXCEPT ![h] = q]
  /\ UNCHANGED <<jobs, disk, user, booting>>

LEMMA MoveKeeps ==
  ASSUME IInv, History, NEW h \in Handles, NEW q, Moves(h, q),
         flags' \subseteq Extracts,
         row' \in {row, run[h].f},
         troubles' \in 0..MaxTroubles, asked' = asked,
         run[h].pc # "idle", q.pc # "idle",
         q.linked => run[h].linked /\ q.pc = "child",
         q.pc = "child" => run[h].pc = "child" /\ q.linked = run[h].linked,
         run[h].pc \in {"child", "clean", "drop", "prune", "end"} => q.pc = run[h].pc,
         q.pc \in Extracting => run[h].pc = q.pc,
         q.pc \in PastChild => run[h].pc \in PastChild,
         q.pc \in Completing => run[h].pc \in Completing,
         q.pc = "end" => run[h].pc = "end",
         row' # row => run[h].pc \in Completing /\ q.pc = "drop" /\ row' = run[h].f,
         q.pc = "drop" => row' = run[h].f \/ (run[h].pc = "drop" /\ row' = row),
         q.pc = "prune" => run[h].pc = "prune" /\ row' = row
  PROVE  IInv'
<1>1. \A g \in Handles : run[g] \in Handle
  BY RunType
<1>2. \A g \in Handles : run'[g] = IF g = h THEN q ELSE run[g]
  BY DEF Moves, IInv, TypeOK
<1>3. UNCHANGED <<jobs, disk, user, booting>>
  BY DEF Moves
<1>4. TypeOK'
  BY <1>1, <1>3 DEF Moves, IInv, TypeOK, Handle
<1>5. HeldIsActive'
  BY <1>1, <1>2, <1>3 DEF Moves, IInv, HeldIsActive, Handle
<1>6. OneAtWork'
  BY <1>1, <1>2, <1>3 DEF Moves, IInv, OneAtWork, Handle
<1>7. ChildWrites'
  BY <1>1, <1>2, <1>3 DEF Moves, IInv, ChildWrites, Handle
<1>8. PartHasOwner'
  <2>1. ASSUME NEW f \in Extracts, Owned(f), disk[f] = "part" PROVE Owned(f)'
    <3>1. CASE jobs[f].state # "none" \/ (user.pc = "file" /\ user.f = f)
      BY <1>3, <3>1 DEF Owned
    <3>2. CASE \E g \in Handles : Works(g, f)
      <4>1. PICK g \in Handles : Works(g, f)
        BY <3>2
      <4>2. QED
        BY <1>2, <4>1 DEF Owned, Works, Moves
    <3>3. QED
      BY <2>1, <3>1, <3>2 DEF Owned
  <2>2. QED
    BY <1>3, <2>1, StillOwned
<1>9. RequestNames' /\ AttemptsLeft'
  BY <1>3 DEF IInv, RequestNames, AttemptsLeft
<1>10. FinishingAlone'
  BY <1>1, <1>2, <1>3, Worse DEF Moves, IInv, FinishingAlone, Completing
<1>11. RecordedIsSafe'
  <2>1. CASE row' = row
    BY <1>1, <1>2, <1>3, <2>1, Worse DEF Moves, IInv, RecordedIsSafe
  <2>2. CASE row' # row /\ calm'
    <3>1. row' = run[h].f /\ row' # None /\ q.pc = "drop"
      BY <1>1, <2>2 DEF IInv, HeldIsActive
    <3>2. /\ run[h].held /\ user.f # row' /\ disk[row'] # "none"
          /\ \A g \in Handles : g # h => run[g].f # row'
      BY <2>2, <3>1, Worse DEF IInv, FinishingAlone
    <3>3. disk[row'] = "whole"
      BY <1>1, <2>2, <3>1, <3>2 DEF IInv, TypeOK, ChildWrites, PastChild, HeldIsActive
    <3>4. \A g \in Handles : run'[g].f = row' => g = h
      BY <1>2, <3>2
    <3>5. run'[h].held /\ run'[h].pc = "drop"
      BY <1>2, <3>1, <3>2 DEF Moves
    <3>6. QED
      BY <1>2, <1>3, <3>1, <3>2, <3>3, <3>4, <3>5 DEF RecordedIsSafe, Moves
  <2>3. QED
    BY <2>1, <2>2 DEF RecordedIsSafe
<1>12. QED
  BY <1>4, <1>5, <1>6, <1>7, <1>8, <1>9, <1>10, <1>11 DEF IInv

LEMMA SpawnFailsKeeps ==
  ASSUME IInv, History, NEW h \in Handles, SpawnFails(h)
  PROVE  IInv'
<1> DEFINE q == [run[h] EXCEPT !.pc = "error"]
<1>1. run[h] \in Handle /\ run[h].pc = "spawn"
  BY RunType DEF SpawnFails
<1>2. q \in Handle /\ q.pc = "error" /\ q.f = run[h].f /\ q.held = run[h].held
        /\ q.linked = run[h].linked
  BY <1>1 DEF Handle, Pcs
<1>3. Moves(h, q)
  BY <1>2 DEF SpawnFails, Go, Becomes, Moves
<1>4. ~q.linked
  BY <1>1, <1>2 DEF IInv, HeldIsActive
<1> HIDE DEF q
<1>5. QED
  BY <1>1, <1>2, <1>3, <1>4, MoveKeeps
     DEF SpawnFails, bounds, Extracting, PastChild, Completing, IInv, TypeOK

LEMMA TickKeeps ==
  ASSUME IInv, History, NEW h \in Handles, Tick(h)
  PROVE  IInv'
<1> DEFINE q == [run[h] EXCEPT !.cancelled = TRUE]
<1>1. run[h] \in Handle /\ run[h].pc # "idle"
  BY RunType DEF Tick, Extracting, Completing
<1>2. q \in Handle /\ q.pc = run[h].pc /\ q.f = run[h].f /\ q.held = run[h].held
        /\ q.linked = run[h].linked
  BY <1>1 DEF Handle
<1>3. Moves(h, q)
  BY <1>2 DEF Tick, Becomes, Moves
<1>4. q.linked => q.pc = "child"
  BY <1>1, <1>2 DEF IInv, HeldIsActive
<1>5. row' = row /\ flags' \subseteq Extracts
  BY DEF Tick, IInv, TypeOK
<1> HIDE DEF q
<1>6. QED
  BY <1>1, <1>2, <1>3, <1>4, <1>5, MoveKeeps DEF Tick, bounds, IInv, TypeOK

LEMMA StatKeeps ==
  ASSUME IInv, History, NEW h \in Handles, Stat(h)
  PROVE  IInv'
<1> DEFINE q == [run[h] EXCEPT !.pc = IF disk[run[h].f] = "none" THEN "error" ELSE "lookup"]
<1>1. run[h] \in Handle /\ run[h].pc = "stat"
  BY RunType DEF Stat
<1>2. /\ q \in Handle /\ q.pc \in {"error", "lookup"} /\ q.f = run[h].f
      /\ q.held = run[h].held /\ q.linked = run[h].linked
  BY <1>1 DEF Handle, Pcs, Completing
<1>3. Moves(h, q)
  BY <1>2 DEF Stat, Go, Becomes, Moves
<1>4. ~q.linked
  BY <1>1, <1>2 DEF IInv, HeldIsActive
<1> HIDE DEF q
<1>5. QED
  BY <1>1, <1>2, <1>3, <1>4, MoveKeeps
     DEF Stat, bounds, Extracting, PastChild, Completing, IInv, TypeOK

(* A query that fails.                                                     *)
LEMMA QueryFailsKeeps ==
  ASSUME IInv, History, NEW h \in Handles, run[h].pc \in {"lookup", "record"},
         Trouble, Go(h, "error"), UNCHANGED <<jobs, flags, disk, row, user, booting>>
  PROVE  IInv'
<1> DEFINE q == [run[h] EXCEPT !.pc = "error"]
<1>1. run[h] \in Handle
  BY RunType
<1>2. q \in Handle /\ q.pc = "error" /\ q.f = run[h].f /\ q.held = run[h].held
        /\ q.linked = run[h].linked
  BY <1>1 DEF Handle, Pcs
<1>3. Moves(h, q)
  BY <1>2 DEF Go, Becomes, Moves
<1>4. ~q.linked
  BY <1>1, <1>2 DEF IInv, HeldIsActive
<1>5. troubles' \in 0..MaxTroubles /\ asked' = asked
  BY BoundsAssumption DEF Trouble, IInv, TypeOK
<1> HIDE DEF q
<1>6. QED
  BY <1>1, <1>2, <1>3, <1>4, <1>5, MoveKeeps
     DEF Extracting, PastChild, Completing, IInv, TypeOK

LEMMA LookupKeeps ==
  ASSUME IInv, History, NEW h \in Handles, Lookup(h)
  PROVE  IInv'
<1> DEFINE q == [run[h] EXCEPT !.pc = "record", !.old = row]
<1>1. CASE Becomes(h, q) /\ row' = row /\ UNCHANGED bounds
  <2>1. run[h] \in Handle /\ run[h].pc = "lookup"
    BY RunType DEF Lookup, Query
  <2>2. q \in Handle /\ q.pc = "record" /\ q.f = run[h].f /\ q.held = run[h].held
          /\ q.linked = run[h].linked
    BY <2>1 DEF Handle, Pcs, Completing, IInv, TypeOK
  <2>3. Moves(h, q)
    BY <1>1, <2>2 DEF Lookup, Query, Becomes, Moves
  <2>4. ~q.linked
    BY <2>1, <2>2 DEF IInv, HeldIsActive
  <2> HIDE DEF q
  <2>5. QED
    BY <1>1, <2>1, <2>2, <2>3, <2>4, MoveKeeps
       DEF Lookup, Query, bounds, Extracting, PastChild, Completing, IInv, TypeOK
<1>2. CASE Trouble /\ Go(h, "error") /\ row' = row
  BY <1>2, QueryFailsKeeps DEF Lookup, Query
<1>3. QED
  BY <1>1, <1>2 DEF Lookup, Query

LEMMA RecordKeeps ==
  ASSUME IInv, History, NEW h \in Handles, Record(h)
  PROVE  IInv'
<1> DEFINE q == [run[h] EXCEPT !.pc = "drop"]
<1>1. CASE row' = run[h].f /\ Go(h, "drop") /\ UNCHANGED bounds
  <2>1. run[h] \in Handle /\ run[h].pc = "record"
    BY RunType DEF Record, Query
  <2>2. q \in Handle /\ q.pc = "drop" /\ q.f = run[h].f /\ q.held = run[h].held
          /\ q.linked = run[h].linked
    BY <2>1 DEF Handle, Pcs, Completing
  <2>3. Moves(h, q)
    BY <1>1, <2>2 DEF Record, Query, Go, Becomes, Moves
  <2>4. ~q.linked
    BY <2>1, <2>2 DEF IInv, HeldIsActive
  <2> HIDE DEF q
  <2>5. QED
    BY <1>1, <2>1, <2>2, <2>3, <2>4, MoveKeeps
       DEF Record, Query, bounds, Extracting, PastChild, Completing, IInv, TypeOK
<1>2. CASE Trouble /\ Go(h, "error") /\ row' = row
  BY <1>2, QueryFailsKeeps DEF Record, Query
<1>3. QED
  BY <1>1, <1>2 DEF Record, Query

-----------------------------------------------------------------------------
(* The child opens its file, and ends.                                     *)

LEMMA OpenOutputKeeps ==
  ASSUME IInv, History, NEW h \in Handles, OpenOutput(h)
  PROVE  IInv'
<1> DEFINE q == [run[h] EXCEPT !.pc = "child", !.linked = TRUE]
           f == run[h].f
<1>1. \A g \in Handles : run[g] \in Handle
  BY RunType
<1>2. \A g \in Handles : run'[g] = IF g = h THEN q ELSE run[g]
  BY DEF OpenOutput, Becomes, IInv, TypeOK
<1>3. run[h].pc = "spawn" /\ UNCHANGED <<jobs, flags, row, user, booting, troubles, asked>>
  BY DEF OpenOutput, bounds
<1>4. f \in Extracts /\ disk' = [disk EXCEPT ![f] = "part"]
  BY <1>1, <1>3 DEF OpenOutput, IInv, HeldIsActive, Handle
<1>5. q \in Handle /\ q.pc = "child" /\ q.linked /\ q.f = f /\ q.held = run[h].held
  BY <1>1 DEF Handle, Pcs, Extracting
<1>6. \A e \in Extracts : disk'[e] = IF e = f THEN "part" ELSE disk[e]
  BY <1>4 DEF IInv, TypeOK
<1>7. TypeOK'
  BY <1>3, <1>4, <1>5 DEF OpenOutput, Becomes, IInv, TypeOK
<1> HIDE DEF q
<1>8. HeldIsActive'
  BY <1>2, <1>3, <1>5 DEF IInv, HeldIsActive
<1>9. OneAtWork'
  BY <1>2, <1>3, <1>5 DEF IInv, OneAtWork, Extracting
<1>10. ChildWrites'
  BY <1>1, <1>2, <1>3, <1>5, <1>6
     DEF IInv, ChildWrites, OneAtWork, HeldIsActive, Extracting, PastChild, Completing, Handle
<1>11. PartHasOwner'
  <2>1. ASSUME NEW e \in Extracts, e = f PROVE Owned(e)'
    BY <1>2, <1>5, <2>1 DEF Owned, Works
  <2>2. ASSUME NEW e \in Extracts, e # f, Owned(e) PROVE Owned(e)'
    BY <1>2, <1>3, <1>5, <2>2 DEF Owned, Works
  <2>3. ASSUME NEW e \in Extracts, disk'[e] = "part"
        PROVE  (disk[e] = "part" /\ (Owned(e) => Owned(e)')) \/ Owned(e)'
    BY <1>6, <2>1, <2>2, <2>3
  <2>4. QED
    BY <2>3, StillOwned
<1>12. RequestNames' /\ AttemptsLeft'
  BY <1>3 DEF IInv, RequestNames, AttemptsLeft
<1>13. FinishingAlone'
  <2>1. ASSUME NEW g \in Handles, g # h, run[g].pc \in Completing, calm
        PROVE  run[g].f # f /\ run[g].f \in Extracts
    BY <1>1, <1>3, <2>1 DEF IInv, FinishingAlone, HeldIsActive, Handle, Completing
  <2>2. QED
    BY <1>2, <1>3, <1>5, <1>6, <2>1, Worse DEF IInv, FinishingAlone, Completing
<1>14. RecordedIsSafe'
  <2>1. calm /\ ~booting /\ row # None => row # f
    BY <1>3 DEF IInv, RecordedIsSafe
  <2>2. row \in Extracts \cup {None}
    BY DEF IInv, TypeOK
  <2>3. QED
    BY <1>2, <1>3, <1>5, <1>6, <2>1, <2>2, Worse DEF IInv, RecordedIsSafe
<1>15. QED
  BY <1>7, <1>8, <1>9, <1>10, <1>11, <1>12, <1>13, <1>14 DEF IInv

LEMMA ExitWellKeeps ==
  ASSUME IInv, History, NEW h \in Handles, run[h].pc = "child",
         disk' = IF run[h].linked THEN [disk EXCEPT ![run[h].f] = "whole"] ELSE disk,
         Becomes(h, [run[h] EXCEPT !.pc = "stat", !.linked = FALSE]),
         UNCHANGED <<jobs, flags, row, user, booting, bounds>>
  PROVE  IInv'
<1> DEFINE q == [run[h] EXCEPT !.pc = "stat", !.linked = FALSE]
           f == run[h].f
<1>1. \A g \in Handles : run[g] \in Handle
  BY RunType
<1>2. \A g \in Handles : run'[g] = IF g = h THEN q ELSE run[g]
  BY DEF Becomes, IInv, TypeOK
<1>3. UNCHANGED <<jobs, flags, row, user, booting, troubles, asked>>
  BY DEF bounds
<1>4. f \in Extracts
  BY <1>1 DEF IInv, HeldIsActive, Handle
<1>5. q \in Handle /\ q.pc = "stat" /\ ~q.linked /\ q.f = f /\ q.held = run[h].held
  BY <1>1 DEF Handle, Pcs, Completing
<1>6. /\ \A e \in Extracts : e # f => disk'[e] = disk[e]
      /\ disk'[f] \in {"none", "whole"}
  BY <1>4 DEF IInv, TypeOK, ChildWrites
<1>7. TypeOK'
  BY <1>3, <1>4, <1>5 DEF Becomes, IInv, TypeOK
<1> HIDE DEF q
<1>8. HeldIsActive'
  BY <1>1, <1>2, <1>3, <1>5 DEF IInv, HeldIsActive, Handle
<1>9. OneAtWork'
  BY <1>2, <1>3, <1>5 DEF IInv, OneAtWork, Extracting
<1>10. ChildWrites'
  BY <1>1, <1>2, <1>3, <1>5, <1>6
     DEF IInv, ChildWrites, OneAtWork, HeldIsActive, Extracting, PastChild, Completing, Handle
<1>11. PartHasOwner'
  <2>1. ASSUME NEW e \in Extracts, e # f, Owned(e) PROVE Owned(e)'
    BY <1>2, <1>3, <2>1 DEF Owned, Works
  <2>2. QED
    BY <1>6, <2>1, StillOwned
<1>12. RequestNames' /\ AttemptsLeft'
  BY <1>3 DEF IInv, RequestNames, AttemptsLeft
<1>13. FinishingAlone'
  <2>1. calm' => calm /\ h \in Finishing'
    BY <1>2, <1>5, Worse DEF Finishing, Completing
  <2>2. calm' => /\ run[h].held /\ user.f # f /\ disk'[f] # "none"
                 /\ \A g \in Handles : g # h => run[g].f # f /\ run[g].pc \notin Completing
    BY <1>2, <1>3, <1>5, <2>1, Worse DEF Disturbed, Finishing
  <2>3. \A g \in Handles : run[g].pc \in Completing => run[g].f \in Extracts
    BY <1>1 DEF IInv, HeldIsActive, Completing, Handle
  <2>4. QED
    BY <1>2, <1>3, <1>5, <1>6, <2>1, <2>2, <2>3 DEF IInv, FinishingAlone, Completing
<1>14. RecordedIsSafe'
  <2>1. calm /\ ~booting /\ row # None => row # f
    BY DEF IInv, RecordedIsSafe
  <2>2. row \in Extracts \cup {None}
    BY DEF IInv, TypeOK
  <2>3. QED
    BY <1>2, <1>3, <1>5, <1>6, <2>1, <2>2, Worse DEF IInv, RecordedIsSafe
<1>15. QED
  BY <1>7, <1>8, <1>9, <1>10, <1>11, <1>12, <1>13, <1>14 DEF IInv
LEMMA ExitBadlyKeeps ==
  ASSUME IInv, History, NEW h \in Handles, run[h].pc \in Extracting,
         Becomes(h, [run[h] EXCEPT !.pc = "clean", !.linked = FALSE]),
         UNCHANGED <<jobs, flags, disk, row, user, booting, bounds>>
  PROVE  IInv'
<1> DEFINE q == [run[h] EXCEPT !.pc = "clean", !.linked = FALSE]
<1>1. \A g \in Handles : run[g] \in Handle
  BY RunType
<1>2. \A g \in Handles : run'[g] = IF g = h THEN q ELSE run[g]
  BY DEF Becomes, IInv, TypeOK
<1>3. UNCHANGED <<jobs, flags, disk, row, user, booting, troubles, asked>>
  BY DEF bounds
<1>4. q \in Handle /\ q.pc = "clean" /\ ~q.linked /\ q.f = run[h].f /\ q.held = run[h].held
  BY <1>1 DEF Handle, Pcs
<1>5. TypeOK'
  BY <1>3, <1>4 DEF Becomes, IInv, TypeOK
<1> HIDE DEF q
<1>6. HeldIsActive'
  BY <1>1, <1>2, <1>3, <1>4 DEF IInv, HeldIsActive, Handle, Extracting
<1>7. OneAtWork'
  BY <1>2, <1>3, <1>4 DEF IInv, OneAtWork, Extracting
<1>8. ChildWrites'
  BY <1>2, <1>3, <1>4 DEF IInv, ChildWrites, PastChild, Completing
<1>9. PartHasOwner'
  <2>1. ASSUME NEW e \in Extracts, Owned(e) PROVE Owned(e)'
    <3>1. CASE jobs[e].state # "none" \/ (user.pc = "file" /\ user.f = e)
      BY <1>3, <3>1 DEF Owned
    <3>2. CASE \E g \in Handles : Works(g, e)
      <4>1. PICK g \in Handles : Works(g, e)
        BY <3>2
      <4>2. QED
        BY <1>2, <1>4, <4>1 DEF Owned, Works
    <3>3. QED
      BY <2>1, <3>1, <3>2 DEF Owned
  <2>2. QED
    BY <1>3, <2>1, StillOwned
<1>10. RequestNames' /\ AttemptsLeft'
  BY <1>3 DEF IInv, RequestNames, AttemptsLeft
<1>11. FinishingAlone'
  BY <1>2, <1>3, <1>4, Worse DEF IInv, FinishingAlone, Completing, Extracting
<1>12. RecordedIsSafe'
  BY <1>2, <1>3, <1>4, Worse DEF IInv, RecordedIsSafe, Extracting
<1>13. QED
  BY <1>5, <1>6, <1>7, <1>8, <1>9, <1>10, <1>11, <1>12 DEF IInv

LEMMA ExitKeeps ==
  ASSUME IInv, History, NEW h \in Handles, Exit(h)
  PROVE  IInv'
BY ExitWellKeeps, ExitBadlyKeeps DEF Exit

-----------------------------------------------------------------------------
(* An execution ends, and settles its job if that is still its own.        *)

LEMMA EndsKeeps ==
  ASSUME IInv, History, NEW h \in Handles, NEW j \in Job,
         run[h].pc \in {"end", "error"},
         j.state = "none" <=> run[h].pc = "end",
         j.state \in Live => j.made < Attempts,
         jobs' = IF run[h].held THEN [jobs EXCEPT ![run[h].f] = j] ELSE jobs,
         Becomes(h, Idle),
         UNCHANGED <<flags, disk, row, user, booting, bounds>>
  PROVE  IInv'
<1> DEFINE f == run[h].f
<1>1. \A g \in Handles : run[g] \in Handle
  BY RunType
<1>2. \A g \in Handles : run'[g] = IF g = h THEN Idle ELSE run[g]
  BY DEF Becomes, IInv, TypeOK
<1>3. UNCHANGED <<flags, disk, row, user, booting, troubles, asked>>
  BY DEF bounds
<1>4. f \in Extracts
  BY <1>1 DEF IInv, HeldIsActive, Handle
<1>5. \A e \in Extracts : jobs'[e] = IF run[h].held /\ e = f THEN j ELSE jobs[e]
  BY <1>4 DEF IInv, TypeOK
<1>6. TypeOK'
  BY <1>3, <1>4, IdleType DEF Becomes, IInv, TypeOK
<1>7. HeldIsActive'
  <2>1. \A g \in Handles : g # h /\ run[g].held /\ run[h].held => run[g].f # f
    BY DEF IInv, OneAtWork
  <2>2. QED
    BY <1>2, <1>5, <2>1, IdleType DEF IInv, HeldIsActive
<1>8. OneAtWork'
  <2>1. \A g \in Handles : g # h /\ run[g].f = None => run[g].pc = "idle" /\ ~run[g].held
    BY NamesAssumption DEF IInv, HeldIsActive
  <2>2. QED
    BY <1>2, <2>1, IdleType DEF IInv, OneAtWork, Extracting
<1>9. ChildWrites'
  BY <1>2, <1>3, IdleType DEF IInv, ChildWrites, PastChild, Completing
<1>10. PartHasOwner'
  <2>1. run[h].pc = "end" /\ run[h].held => disk[f] # "part"
    BY DEF IInv, ChildWrites, PastChild
  <2>2. ASSUME NEW e \in Extracts, Owned(e), ~(run[h].held /\ e = f) PROVE Owned(e)'
    <3>1. CASE jobs[e].state # "none" \/ (user.pc = "file" /\ user.f = e)
      BY <1>3, <1>5, <2>2, <3>1 DEF Owned
    <3>2. CASE \E g \in Handles : Works(g, e)
      <4>1. PICK g \in Handles : Works(g, e)
        BY <3>2
      <4>2. QED
        BY <1>2, <4>1 DEF Owned, Works
    <3>3. QED
      BY <2>2, <3>1, <3>2 DEF Owned
  <2>3. ASSUME NEW e \in Extracts, e = f, run[h].held, run[h].pc = "error" PROVE Owned(e)'
    BY <1>5, <2>3 DEF Owned
  <2>4. ASSUME NEW e \in Extracts, disk'[e] = "part"
        PROVE  (disk[e] = "part" /\ (Owned(e) => Owned(e)')) \/ Owned(e)'
    BY <1>3, <2>1, <2>2, <2>3, <2>4
  <2>5. QED
    BY <2>4, StillOwned
<1>11. RequestNames' /\ AttemptsLeft'
  BY <1>3, <1>5 DEF IInv, RequestNames, AttemptsLeft
<1>12. FinishingAlone'
  <2>1. \A g \in Handles : run'[g].pc \in Completing => g # h /\ run[g] = run'[g]
    BY <1>2, IdleType DEF Completing
  <2>2. calm' => \A g \in Handles, e \in Handles : run[g].pc \in Completing /\ e # g =>
                  run'[e].f # run[g].f /\ run'[e].pc \notin Completing
    BY <1>1, <1>2, IdleType, Worse
       DEF IInv, FinishingAlone, HeldIsActive, Completing
  <2>3. QED
    BY <1>2, <1>3, <2>1, <2>2, Worse DEF IInv, FinishingAlone
<1>13. RecordedIsSafe'
  <2>1. ASSUME calm, ~booting, row # None, row = f
        PROVE  run[h].held /\ run[h].pc = "end"
    BY <2>1 DEF IInv, RecordedIsSafe
  <2>2. row \in Extracts \cup {None}
    BY DEF IInv, TypeOK
  <2>3. QED
    BY <1>2, <1>3, <1>5, <2>1, <2>2, IdleType, Worse DEF IInv, RecordedIsSafe
<1>14. QED
  BY <1>6, <1>7, <1>8, <1>9, <1>10, <1>11, <1>12, <1>13 DEF IInv

LEMMA EndKeeps ==
  ASSUME IInv, History, NEW h \in Handles, End(h)
  PROVE  IInv'
<1>1. NoJob.state \notin Live
  BY NoJobType DEF Live
<1>2. QED
  BY <1>1, EndsKeeps, NoJobType DEF End

(* What a failing job becomes.                                             *)
Failed(f, u) ==
  LET made == jobs[f].made + 1 IN
  [jobs[f] EXCEPT !.made = made,
     !.state = IF u \/ made >= Attempts THEN "failed" ELSE "delayed"]

LEMMA FailedJob ==
  ASSUME IInv, NEW f \in Extracts, NEW u \in BOOLEAN, JobFails(f, u),
         jobs[f].state \in Live
  PROVE  /\ Failed(f, u) \in Job
         /\ Failed(f, u).state \in {"failed", "delayed"}
         /\ Failed(f, u).state \in Live => Failed(f, u).made < Attempts
         /\ jobs' = [jobs EXCEPT ![f] = Failed(f, u)]
<1>1. jobs \in [Extracts -> Job] /\ jobs[f] \in Job
  BY DEF IInv, TypeOK
<1>2. jobs[f].made \in Nat /\ jobs[f].made < Attempts
  BY <1>1 DEF IInv, AttemptsLeft, Job
<1>3. jobs[f].made + 1 \in 0..Attempts
  BY <1>2, BoundsAssumption
<1>4. Failed(f, u) \in Job
  BY <1>1, <1>3 DEF Failed, Job, Live
<1>5. /\ Failed(f, u).state = IF u \/ jobs[f].made + 1 >= Attempts THEN "failed" ELSE "delayed"
      /\ Failed(f, u).made = jobs[f].made + 1
  BY <1>1 DEF Failed, Job
<1>6. Failed(f, u).state \in Live => Failed(f, u).made < Attempts
  BY <1>2, <1>5, BoundsAssumption DEF Live
<1>7. jobs' = [jobs EXCEPT ![f] = Failed(f, u)]
  BY <1>1 DEF JobFails, Failed, Job
<1>8. QED
  BY <1>4, <1>5, <1>6, <1>7

LEMMA FailKeeps ==
  ASSUME IInv, History, NEW h \in Handles, Fail(h)
  PROVE  IInv'
<1>1. run[h] \in Handle /\ run[h].pc = "error"
  BY RunType DEF Fail
<1>2. CASE run[h].held
  <2>1. run[h].f \in Extracts /\ jobs[run[h].f].state \in Live /\ run[h].cancelled \in BOOLEAN
    BY <1>1, <1>2 DEF IInv, HeldIsActive, Live, Handle
  <2>2. PICK f \in Extracts, u \in BOOLEAN : f = run[h].f /\ u = run[h].cancelled
    BY <2>1
  <2>3. JobFails(f, u)
    BY <1>2, <2>2 DEF Fail
  <2>4. PICK j \in Job : /\ j.state \in {"failed", "delayed"}
                         /\ j.state \in Live => j.made < Attempts
                         /\ jobs' = [jobs EXCEPT ![f] = j]
    BY <2>1, <2>2, <2>3, FailedJob
  <2>5. QED
    BY <1>1, <1>2, <2>2, <2>4, EndsKeeps DEF Fail
<1>3. CASE ~run[h].held
  <2>1. PICK j \in Job : j.state = "failed"
    <3>1. [state |-> "failed", made |-> 0, stalled |-> FALSE] \in Job
      BY BoundsAssumption DEF Job
    <3>2. QED
      BY <3>1
  <2>2. QED
    BY <1>1, <1>3, <2>1, EndsKeeps DEF Fail, Live
<1>4. QED
  BY <1>2, <1>3

-----------------------------------------------------------------------------
(* Files go.                                                               *)

LEMMA RemovalKeeps ==
  ASSUME IInv, History, NEW gone \in SUBSET Extracts, NEW r \in [Handles -> Handle],
         Removed(gone), Unlinked(gone, r),
         \A h \in Handles :
           /\ r[h].f = run[h].f /\ r[h].held = run[h].held /\ r[h].linked = run[h].linked
           /\ \/ r[h].pc = run[h].pc
              \/ run[h].pc = "clean" /\ r[h].pc = "error" /\ run[h].f \in gone
              \/ run[h].pc = "drop" /\ r[h].pc = "prune"
              \/ run[h].pc = "prune" /\ r[h].pc = "end",
         user' = user \/ (user.f \in gone /\ user' = NoRequest),
         UNCHANGED <<jobs, flags, row, booting>>,
         troubles' \in 0..MaxTroubles, asked' \in 0..MaxRequests,
         calm' /\ ~booting /\ row # None => row \notin gone
  PROVE  IInv'
<1>1. \A h \in Handles : run[h] \in Handle
  BY RunType
<1>2. \A h \in Handles :
        /\ run'[h] \in Handle
        /\ run'[h].pc = r[h].pc /\ run'[h].f = run[h].f /\ run'[h].held = run[h].held
        /\ run'[h].linked <=> run[h].linked /\ run[h].f \notin gone
  <2>1. ASSUME NEW h \in Handles
        PROVE  /\ run'[h] \in Handle
               /\ run'[h].pc = r[h].pc /\ run'[h].f = r[h].f /\ run'[h].held = r[h].held
               /\ run'[h].linked <=> r[h].linked /\ r[h].f \notin gone
    <3>1. r[h] \in Handle
      OBVIOUS
    <3>2. run'[h] = [r[h] EXCEPT !.linked = r[h].linked /\ r[h].f \notin gone]
      BY <3>1 DEF Unlinked, Handle
    <3>3. QED
      BY <3>1, <3>2 DEF Handle
  <2>2. QED
    BY <2>1
<1>3. \A e \in Extracts : disk'[e] = IF e \in gone THEN "none" ELSE disk[e]
  BY DEF Removed
<1>4. NoRequest.pc = "idle" /\ NoRequest.f = None
  BY DEF NoRequest
<1>5. TypeOK'
  <2>1. run' \in [Handles -> Handle]
    BY <1>2 DEF Unlinked
  <2>2. disk' \in [Extracts -> {"none", "part", "whole"}]
    BY DEF Removed, IInv, TypeOK
  <2>3. QED
    BY <2>1, <2>2 DEF IInv, TypeOK, NoRequest
<1>6. HeldIsActive'
  BY <1>1, <1>2 DEF IInv, HeldIsActive
<1>7. OneAtWork'
  <2>1. \A h \in Handles : run'[h].pc \in Extracting <=> run[h].pc \in Extracting
    BY <1>2 DEF Extracting
  <2>2. QED
    BY <1>2, <2>1 DEF IInv, OneAtWork
<1>8. ChildWrites'
  <2>1. \A h \in Handles : run[h].f \in Extracts \/ run[h].pc = "idle"
    BY <1>1 DEF IInv, HeldIsActive, Handle
  <2>2. QED
    BY <1>2, <1>3, <2>1 DEF IInv, ChildWrites, HeldIsActive, PastChild, Completing
<1>9. PartHasOwner'
  <2>1. ASSUME NEW e \in Extracts, e \notin gone, Owned(e) PROVE Owned(e)'
    <3>1. CASE jobs[e].state # "none"
      BY <3>1 DEF Owned
    <3>2. CASE user.pc = "file" /\ user.f = e
      BY <2>1, <3>2 DEF Owned
    <3>3. CASE \E g \in Handles : Works(g, e)
      <4>1. PICK g \in Handles : Works(g, e)
        BY <3>3
      <4>2. QED
        BY <1>2, <2>1, <4>1 DEF Owned, Works
    <3>4. QED
      BY <2>1, <3>1, <3>2, <3>3 DEF Owned
  <2>2. ASSUME NEW e \in Extracts, disk'[e] = "part"
        PROVE  (disk[e] = "part" /\ (Owned(e) => Owned(e)')) \/ Owned(e)'
    BY <1>3, <2>1, <2>2
  <2>3. QED
    BY <2>2, StillOwned
<1>10. RequestNames' /\ AttemptsLeft'
  BY <1>4 DEF IInv, RequestNames, AttemptsLeft
<1>11. FinishingAlone'
  <2>1. ASSUME calm', NEW h \in Handles, run'[h].pc \in Completing
        PROVE  /\ run'[h].held /\ user'.f # run'[h].f /\ disk'[run'[h].f] # "none"
               /\ \A g \in Handles : g # h => run'[g].f # run'[h].f /\ run'[g].pc \notin Completing
    BY <2>1, Worse DEF Disturbed, Finishing
  <2>2. ASSUME calm', NEW h \in Handles, run'[h].pc \in {"drop", "prune"}
        PROVE  row' \in {run'[h].f, None}
    BY <1>2, <2>2, Worse DEF IInv, FinishingAlone, Completing
  <2>3. QED
    BY <2>1, <2>2 DEF FinishingAlone
<1>12. RecordedIsSafe'
  <2>1. row \in Extracts \cup {None}
    BY DEF IInv, TypeOK
  <2>2. QED
    BY <1>2, <1>3, <1>4, <2>1, Worse DEF IInv, RecordedIsSafe
<1>13. QED
  BY <1>5, <1>6, <1>7, <1>8, <1>9, <1>10, <1>11, <1>12 DEF IInv
LEMMA CleanKeeps ==
  ASSUME IInv, History, NEW h \in Handles, Clean(h)
  PROVE  IInv'
<1> DEFINE r == [run EXCEPT ![h].pc = "error"]
<1>1. /\ \A g \in Handles : run[g] \in Handle
      /\ run \in [Handles -> Handle] /\ run[h].pc = "clean"
  BY RunType DEF Clean, IInv, TypeOK
<1>2. r \in [Handles -> Handle]
  BY <1>1 DEF Handle, Pcs
<1>3. \A g \in Handles :
        /\ r[g].f = run[g].f /\ r[g].held = run[g].held /\ r[g].linked = run[g].linked
        /\ r[g].pc = IF g = h THEN "error" ELSE run[g].pc
  BY <1>1 DEF Handle
<1>4. {run[h].f} \in SUBSET Extracts
  BY <1>1 DEF IInv, HeldIsActive, Handle
<1>5. calm' /\ ~booting /\ row # None => row \notin {run[h].f}
  BY <1>1, Worse DEF IInv, RecordedIsSafe
<1>6. Removed({run[h].f}) /\ Unlinked({run[h].f}, r)
  BY DEF Clean
<1> HIDE DEF r
<1>7. QED
  BY <1>1, <1>2, <1>3, <1>4, <1>5, <1>6, RemovalKeeps DEF Clean, bounds, IInv, TypeOK

LEMMA DropKeeps ==
  ASSUME IInv, History, NEW h \in Handles, Drop(h)
  PROVE  IInv'
<1> DEFINE r == [run EXCEPT ![h].pc = "prune"]
           gone == {run[h].old} \ {run[h].f, None}
<1>1. /\ \A g \in Handles : run[g] \in Handle
      /\ run \in [Handles -> Handle] /\ run[h].pc = "drop"
  BY RunType DEF Drop, IInv, TypeOK
<1>2. r \in [Handles -> Handle]
  BY <1>1 DEF Handle, Pcs, Completing
<1>3. \A g \in Handles :
        /\ r[g].f = run[g].f /\ r[g].held = run[g].held /\ r[g].linked = run[g].linked
        /\ r[g].pc = IF g = h THEN "prune" ELSE run[g].pc
  BY <1>1 DEF Handle
<1>4. gone \in SUBSET Extracts
  BY <1>1 DEF Handle
<1>5. calm' /\ ~booting /\ row # None => row \notin gone
  BY <1>1, Worse DEF IInv, FinishingAlone, Completing
<1>6. Removed(gone)
  BY NamesAssumption DEF Drop, Removed
<1>7. Unlinked(gone, r)
  <2>1. \A g \in Handles :
          [r[g] EXCEPT !.linked = @ /\ r[g].f \notin {run[h].old} \ {run[h].f}]
            = [r[g] EXCEPT !.linked = @ /\ r[g].f \notin gone]
    <3>1. ASSUME NEW g \in Handles
          PROVE  (r[g].linked /\ r[g].f \notin {run[h].old} \ {run[h].f})
                   <=> (r[g].linked /\ r[g].f \notin gone)
      BY <1>1, <1>3 DEF IInv, HeldIsActive
    <3>2. QED
      BY <1>2, <3>1 DEF Handle
  <2>2. QED
    BY <2>1 DEF Drop, Unlinked
<1> HIDE DEF r, gone
<1>8. QED
  BY <1>1, <1>2, <1>3, <1>4, <1>5, <1>6, <1>7, RemovalKeeps
     DEF Drop, bounds, IInv, TypeOK

LEMMA PruneKeeps ==
  ASSUME IInv, History, NEW h \in Handles, Prune(h)
  PROVE  IInv'
<1> DEFINE r == [run EXCEPT ![h].pc = "end"]
<1>1. /\ \A g \in Handles : run[g] \in Handle
      /\ run \in [Handles -> Handle] /\ run[h].pc = "prune"
  BY RunType DEF Prune, IInv, TypeOK
<1>2. r \in [Handles -> Handle]
  BY <1>1 DEF Handle, Pcs
<1>3. \A g \in Handles :
        /\ r[g].f = run[g].f /\ r[g].held = run[g].held /\ r[g].linked = run[g].linked
        /\ r[g].pc = IF g = h THEN "end" ELSE run[g].pc
  BY <1>1 DEF Handle
<1>4. calm' /\ ~booting /\ row # None => row \notin Extracts \ {run[h].f, run[h].old}
  BY <1>1, Worse DEF IInv, FinishingAlone, Completing
<1>5. Removed(Extracts \ {run[h].f, run[h].old}) /\ Unlinked(Extracts \ {run[h].f, run[h].old}, r)
  BY DEF Prune
<1>6. Extracts \ {run[h].f, run[h].old} \in SUBSET Extracts
  OBVIOUS
<1> HIDE DEF r
<1>7. QED
  BY <1>1, <1>2, <1>3, <1>4, <1>5, <1>6, RemovalKeeps DEF Prune, bounds, IInv, TypeOK

LEMMA UndeletedKeeps ==
  ASSUME IInv, History, NEW h \in Handles, Undeleted(h)
  PROVE  IInv'
<1>1. PICK pc \in {"prune", "end"}, gone \in SUBSET (Extracts \ {run[h].f, run[h].old}) :
        /\ Removed(gone) /\ Unlinked(gone, [run EXCEPT ![h].pc = pc])
        /\ \/ run[h].pc = "drop" /\ pc = "prune" /\ gone = {}
           \/ run[h].pc = "prune" /\ pc = "end"
  BY DEF Undeleted
<1> DEFINE r == [run EXCEPT ![h].pc = pc]
<1>2. /\ \A g \in Handles : run[g] \in Handle
      /\ run \in [Handles -> Handle]
  BY RunType DEF IInv, TypeOK
<1>3. r \in [Handles -> Handle]
  BY <1>2 DEF Handle, Pcs, Completing
<1>4. \A g \in Handles :
        /\ r[g].f = run[g].f /\ r[g].held = run[g].held /\ r[g].linked = run[g].linked
        /\ r[g].pc = IF g = h THEN pc ELSE run[g].pc
  BY <1>2 DEF Handle
<1>5. calm' /\ ~booting /\ row # None => row \notin gone
  BY <1>1, <1>2, Worse DEF IInv, FinishingAlone, Completing
<1>6. troubles' \in 0..MaxTroubles /\ asked' \in 0..MaxRequests
  BY BoundsAssumption DEF Undeleted, Trouble, IInv, TypeOK
<1>7. Removed(gone) /\ Unlinked(gone, r) /\ gone \in SUBSET Extracts
  BY <1>1
<1> HIDE DEF r
<1>8. QED
  BY <1>1, <1>2, <1>3, <1>4, <1>5, <1>6, <1>7, RemovalKeeps DEF Undeleted

LEMMA DeleteOutputKeeps ==
  ASSUME IInv, History, DeleteOutput
  PROVE  IInv'
<1>1. run \in [Handles -> Handle]
  BY DEF IInv, TypeOK
<1>2. {user.f} \in SUBSET Extracts
  BY DEF DeleteOutput, IInv, RequestNames
<1>3. calm' /\ ~booting /\ row # None => row \notin {user.f}
  BY Worse DEF IInv, RecordedIsSafe
<1>4. QED
  BY <1>1, <1>2, <1>3, RemovalKeeps DEF DeleteOutput, bounds, IInv, TypeOK

LEMMA AsksType ==
  ASSUME IInv, Asks
  PROVE  /\ troubles' = troubles /\ troubles' \in 0..MaxTroubles
         /\ asked' \in 0..MaxRequests /\ asked' # asked
  BY BoundsAssumption DEF Asks, IInv, TypeOK

LEMMA DeleteKeeps ==
  ASSUME IInv, History, NEW f \in Extracts, Delete(f)
  PROVE  IInv'
<1>1. run \in [Handles -> Handle]
  BY DEF IInv, TypeOK
<1>2. {f} \in SUBSET Extracts
  OBVIOUS
<1>3. /\ troubles' = troubles /\ troubles' \in 0..MaxTroubles
      /\ asked' \in 0..MaxRequests /\ asked' # asked
  BY AsksType DEF Delete
<1>4. calm' /\ ~booting /\ row # None => row \notin {f}
  BY <1>3, Worse DEF Delete, Removed, Disturbed
<1>5. QED
  BY <1>1, <1>2, <1>3, <1>4, RemovalKeeps DEF Delete

-----------------------------------------------------------------------------
(* The queue, and requests that change it.                                 *)

LEMMA JobKeeps ==
  ASSUME IInv, History, NEW f \in Extracts, NEW j \in Job,
         jobs' = [jobs EXCEPT ![f] = j],
         j.state \in Live => j.made < Attempts,
         \A h \in Handles : ~(run[h].f = f /\ run[h].held),
         j.state = "none" => abandoned',
         calm' /\ ~booting /\ row = f => j.state = "none" \/ \E h \in Handles : run[h].f = f,
         UNCHANGED <<flags, disk, row, run, user, booting, troubles>>,
         asked' \in 0..MaxRequests
  PROVE  IInv'
<1>1. \A e \in Extracts : jobs'[e] = IF e = f THEN j ELSE jobs[e]
  BY DEF IInv, TypeOK
<1>2. TypeOK'
  BY DEF IInv, TypeOK
<1>3. HeldIsActive'
  BY <1>1 DEF IInv, HeldIsActive
<1>4. OneAtWork' /\ ChildWrites'
  BY DEF IInv, OneAtWork, ChildWrites
<1>5. PartHasOwner'
  <2>1. ASSUME NEW e \in Extracts, e # f \/ j.state # "none", Owned(e) PROVE Owned(e)'
    BY <1>1, <2>1 DEF Owned, Works
  <2>2. QED
    BY <2>1, StillOwned
<1>6. RequestNames' /\ AttemptsLeft'
  BY <1>1 DEF IInv, RequestNames, AttemptsLeft
<1>7. FinishingAlone'
  BY Worse DEF IInv, FinishingAlone
<1>8. RecordedIsSafe'
  BY <1>1, Worse DEF IInv, RecordedIsSafe, TypeOK
<1>9. QED
  BY <1>2, <1>3, <1>4, <1>5, <1>6, <1>7, <1>8 DEF IInv

(* A held job is active, and so is nobody's that is not.                   *)
LEMMA NotHeld ==
  ASSUME IInv, NEW f \in Extracts, jobs[f].state # "active"
  PROVE  /\ \A h \in Handles : ~(run[h].f = f /\ run[h].held)
         /\ calm /\ ~booting /\ row = f => jobs[f].state = "none"
<1>1. \A h \in Handles : ~(run[h].f = f /\ run[h].held)
  BY DEF IInv, HeldIsActive
<1>2. calm /\ ~booting /\ row = f => jobs[f].state = "none"
  BY <1>1, NamesAssumption DEF IInv, RecordedIsSafe
<1>3. QED
  BY <1>1, <1>2

LEMMA ExtractRegionKeeps ==
  ASSUME IInv, History, NEW f \in Extracts, ExtractRegion(f)
  PROVE  IInv'
<1>1. troubles' = troubles /\ asked' \in 0..MaxRequests /\ asked' # asked
  BY AsksType DEF ExtractRegion
<1>2. PICK j \in Job : j.state = "waiting" /\ j.made = 0 /\ jobs' = [jobs EXCEPT ![f] = j]
  <2> DEFINE j == [NoJob EXCEPT !.state = "waiting"]
  <2>1. NoJob.made = 0
    BY DEF NoJob
  <2>2. j \in Job /\ j.state = "waiting" /\ j.made = 0
    BY <2>1, NoJobType DEF Job, Live
  <2>3. QED
    BY <2>2 DEF ExtractRegion
<1>3. jobs[f].state # "active" /\ jobs[f].state # "waiting"
  BY DEF ExtractRegion, Live
<1>4. jobs'[f] # jobs[f]
  BY <1>2, <1>3 DEF IInv, TypeOK
<1>5. calm' => row # f \/ row = None
  BY <1>1, <1>4, Worse DEF Disturbed
<1>6. calm' /\ ~booting /\ row = f => FALSE
  BY <1>5, NamesAssumption
<1>7. j.state # "none" /\ j.made < Attempts
  BY <1>2, BoundsAssumption
<1>8. \A h \in Handles : ~(run[h].f = f /\ run[h].held)
  BY <1>3, NotHeld
<1>9. UNCHANGED <<flags, disk, row, run, user, booting, troubles>>
  BY <1>1 DEF ExtractRegion
<1>10. QED
  BY <1>1, <1>2, <1>6, <1>7, <1>8, <1>9, JobKeeps

LEMMA DismissKeeps ==
  ASSUME IInv, History, NEW f \in Extracts, Dismiss(f)
  PROVE  IInv'
<1>1. jobs'[f] = NoJob /\ jobs[f].state \in {"failed", "waiting", "delayed"} /\ user' = user
  BY DEF Dismiss, IInv, TypeOK
<1>2. abandoned'
  BY <1>1 DEF History, Dismissed
<1>3. NoJob.state \notin Live
  BY NoJobType DEF Live
<1>4. asked' \in 0..MaxRequests /\ troubles' = troubles
  BY DEF Dismiss, bounds, IInv, TypeOK
<1>5. QED
  BY <1>1, <1>2, <1>3, <1>4, NoJobType, NotHeld, JobKeeps DEF Dismiss

(* A job whose state alone changes, and its one chance to stall.           *)
Restated(f, s, st) == [jobs[f] EXCEPT !.state = s, !.stalled = st]

LEMMA RestatedType ==
  ASSUME IInv, NEW f \in Extracts, NEW s \in Live, NEW st \in BOOLEAN,
         jobs[f].state \in Live
  PROVE  /\ Restated(f, s, st) \in Job
         /\ Restated(f, s, st).state = s
         /\ Restated(f, s, st).made < Attempts
<1>1. jobs[f] \in Job
  BY DEF IInv, TypeOK
<1>2. jobs[f].made < Attempts
  BY DEF IInv, AttemptsLeft
<1>3. QED
  BY <1>1, <1>2 DEF Restated, Job, Live

LEMMA PromoteKeeps ==
  ASSUME IInv, History, NEW f \in Extracts, Promote(f)
  PROVE  IInv'
<1>1. jobs[f] \in Job /\ jobs[f].state = "delayed"
  BY DEF Promote, IInv, TypeOK
<1>2. [jobs[f] EXCEPT !.state = "waiting"] = Restated(f, "waiting", jobs[f].stalled)
  BY <1>1 DEF Restated, Job
<1>3. PICK j \in Job : j.state = "waiting" /\ j.made < Attempts /\ jobs' = [jobs EXCEPT ![f] = j]
  <2>1. jobs[f].stalled \in BOOLEAN
    BY <1>1 DEF Job
  <2>2. jobs' = [jobs EXCEPT ![f] = Restated(f, "waiting", jobs[f].stalled)]
    BY <1>2 DEF Promote
  <2>3. QED
    BY <1>1, <2>1, <2>2, RestatedType DEF Live
<1>4. calm' /\ ~booting => row # f
  BY <1>1, NotHeld, Worse
<1>5. asked' \in 0..MaxRequests /\ troubles' = troubles
  BY DEF Promote, bounds, IInv, TypeOK
<1>6. \A h \in Handles : ~(run[h].f = f /\ run[h].held)
  BY <1>1, NotHeld
<1>7. UNCHANGED <<flags, disk, row, run, user, booting, troubles>>
  BY <1>5 DEF Promote
<1>8. QED
  BY <1>3, <1>4, <1>5, <1>6, <1>7, JobKeeps

LEMMA StalledKeeps ==
  ASSUME IInv, History, NEW f \in Extracts, Stalled(f)
  PROVE  IInv'
<1>1. /\ jobs[f] \in Job /\ jobs[f].state = "active" /\ jobs[f].state \in Live
      /\ \A h \in Handles : ~(run[h].f = f /\ run[h].held)
  BY DEF Stalled, IInv, TypeOK, Live
<1>2. PICK j \in Job : /\ j.state # "none"
                       /\ j.state \in Live => j.made < Attempts
                       /\ jobs' = [jobs EXCEPT ![f] = j]
  <2>1. CASE jobs[f].stalled
    <3>1. JobFails(f, TRUE)
      BY <2>1 DEF Stalled
    <3>2. QED
      BY <1>1, <3>1, FailedJob
  <2>2. CASE ~jobs[f].stalled
    <3>1. jobs' = [jobs EXCEPT ![f] = Restated(f, "waiting", TRUE)]
      BY <1>1, <2>2 DEF Stalled, Restated, Job, IInv, TypeOK
    <3>2. QED
      BY <1>1, <3>1, RestatedType DEF Live
  <2>3. QED
    BY <2>1, <2>2
<1>3. calm' /\ ~booting => row # f
  BY <1>1, NamesAssumption, Worse DEF IInv, RecordedIsSafe
<1>4. asked' \in 0..MaxRequests /\ troubles' = troubles
  BY DEF Stalled, bounds, IInv, TypeOK
<1>5. UNCHANGED <<flags, disk, row, run, user, booting, troubles>>
  BY <1>4 DEF Stalled
<1>6. QED
  BY <1>1, <1>2, <1>3, <1>4, <1>5, JobKeeps

LEMMA StartKeeps ==
  ASSUME IInv, History, NEW h \in Handles, NEW f \in Extracts, Start(h, f)
  PROVE  IInv'
<1> DEFINE q == [Idle EXCEPT !.pc = "spawn", !.f = f, !.held = TRUE]
<1>1. q \in Handle /\ q.pc = "spawn" /\ q.f = f /\ q.held /\ ~q.linked
  BY DEF Idle, Handle, Pcs, Extracting
<1>2. jobs[f] \in Job /\ run \in [Handles -> Handle] /\ run[h] = Idle /\ jobs[f].state = "waiting"
  BY DEF Start, IInv, TypeOK
<1>3. PICK j \in Job : j.state = "active" /\ j.made < Attempts /\ jobs' = [jobs EXCEPT ![f] = j]
  <2>1. [jobs[f] EXCEPT !.state = "active"] = Restated(f, "active", jobs[f].stalled)
    BY <1>2 DEF Restated, Job
  <2>2. jobs' = [jobs EXCEPT ![f] = Restated(f, "active", jobs[f].stalled)]
    BY <2>1 DEF Start
  <2>3. jobs[f].stalled \in BOOLEAN
    BY <1>2 DEF Job
  <2>4. QED
    BY <1>2, <2>2, <2>3, RestatedType DEF Live
<1>4. \A g \in Handles : run'[g] = IF g = h THEN q ELSE run[g]
  BY <1>2 DEF Start
<1>5. \A e \in Extracts : jobs'[e] = IF e = f THEN j ELSE jobs[e]
  BY <1>3 DEF IInv, TypeOK
<1>6. UNCHANGED <<flags, disk, row, user, booting, troubles, asked>>
  BY DEF Start, bounds
<1>7. TypeOK'
  BY <1>1, <1>2, <1>3, <1>6 DEF Start, IInv, TypeOK
<1> HIDE DEF q
<1>8. \A g \in Handles : run[g].f = f => ~run[g].held /\ run[g].pc \notin Extracting
  BY <1>2, NotHeld DEF Start
<1>9. HeldIsActive'
  BY <1>1, <1>3, <1>4, <1>5, <1>8, NamesAssumption DEF IInv, HeldIsActive
<1>10. OneAtWork'
  BY <1>1, <1>4, <1>8 DEF IInv, OneAtWork
<1>11. ChildWrites'
  BY <1>1, <1>4, <1>6 DEF IInv, ChildWrites, PastChild, Completing
<1>12. PartHasOwner'
  <2>1. ASSUME NEW e \in Extracts, Owned(e) PROVE Owned(e)'
    <3>1. CASE jobs[e].state # "none" \/ (user.pc = "file" /\ user.f = e)
      BY <1>3, <1>5, <1>6, <3>1 DEF Owned
    <3>2. CASE \E g \in Handles : Works(g, e)
      <4>1. PICK g \in Handles : Works(g, e)
        BY <3>2
      <4>2. QED
        BY <1>2, <1>4, <4>1, IdleType DEF Owned, Works
    <3>3. QED
      BY <2>1, <3>1, <3>2 DEF Owned
  <2>2. QED
    BY <1>6, <2>1, StillOwned
<1>13. RequestNames' /\ AttemptsLeft'
  BY <1>3, <1>5, <1>6 DEF IInv, RequestNames, AttemptsLeft
<1>14. FinishingAlone'
  BY <1>1, <1>4, <1>6, <1>8, Worse DEF IInv, FinishingAlone, Completing
<1>15. RecordedIsSafe'
  <2>1. calm' /\ ~booting => row # f
    BY <1>2, NotHeld, Worse
  <2>2. row \in Extracts \cup {None}
    BY DEF IInv, TypeOK
  <2>3. QED
    BY <1>1, <1>2, <1>4, <1>5, <1>6, <2>1, <2>2, IdleType, NamesAssumption, Worse
       DEF IInv, RecordedIsSafe
<1>16. QED
  BY <1>7, <1>9, <1>10, <1>11, <1>12, <1>13, <1>14, <1>15 DEF IInv

LEMMA CancelKeeps ==
  ASSUME IInv, History, NEW f \in Extracts, Cancel(f)
  PROVE  IInv'
<1>1. troubles' = troubles /\ asked' \in 0..MaxRequests /\ asked' # asked
  BY AsksType DEF Cancel
<1>2. user = NoRequest /\ user.pc = "idle" /\ user'.pc = "remove" /\ user'.f = f
  BY DEF Cancel, NoRequest
<1>3. UNCHANGED <<jobs, disk, row, run, booting>>
  BY DEF Cancel
<1>4. TypeOK'
  BY <1>1 DEF Cancel, IInv, TypeOK
<1>5. HeldIsActive' /\ OneAtWork' /\ ChildWrites'
  BY <1>3 DEF IInv, HeldIsActive, OneAtWork, ChildWrites
<1>6. PartHasOwner'
  <2>1. ASSUME NEW e \in Extracts, Owned(e) PROVE Owned(e)'
    BY <1>2, <1>3, <2>1 DEF Owned, Works
  <2>2. QED
    BY <1>3, <2>1, StillOwned
<1>7. RequestNames' /\ AttemptsLeft'
  BY <1>2, <1>3 DEF IInv, RequestNames, AttemptsLeft
<1>8. FinishingAlone'
  BY <1>3, Worse DEF IInv, FinishingAlone, Disturbed, Finishing
<1>9. RecordedIsSafe'
  BY <1>1, <1>3, Worse DEF IInv, RecordedIsSafe, Disturbed
<1>10. QED
  BY <1>4, <1>5, <1>6, <1>7, <1>8, <1>9 DEF IInv

LEMMA RemoveJobKeeps ==
  ASSUME IInv, History, RemoveJob
  PROVE  IInv'
<1>1. user.pc = "remove" /\ UNCHANGED <<flags, disk, row, booting, troubles, asked>>
  BY DEF RemoveJob, bounds
<1>2. PICK f \in Extracts : f = user.f
  BY <1>1 DEF IInv, RequestNames
<1>3. user'.pc = "file" /\ user'.f = f /\ user' \in [pc : {"file"}, f : Extracts]
  BY <1>2 DEF RemoveJob, IInv, TypeOK
<1>4. \A g \in Handles : run[g] \in Handle
  BY RunType
<1>5. \A g \in Handles :
        /\ run'[g] \in Handle /\ run'[g].f = run[g].f /\ run'[g].pc = run[g].pc
        /\ run'[g].linked = run[g].linked
        /\ run'[g].held <=> run[g].held /\ run[g].f # f
  <2>1. ASSUME NEW g \in Handles
        PROVE  /\ run'[g] \in Handle /\ run'[g].f = run[g].f /\ run'[g].pc = run[g].pc
               /\ run'[g].linked = run[g].linked
               /\ run'[g].held <=> run[g].held /\ run[g].f # f
    <3>1. run'[g] = [run[g] EXCEPT !.held = run[g].held /\ run[g].f # f]
      BY <1>2, <1>4 DEF RemoveJob, Handle
    <3>2. QED
      BY <1>4, <3>1 DEF Handle
  <2>2. QED
    BY <2>1
<1>6. \A e \in Extracts : jobs'[e] = IF e = f THEN NoJob ELSE jobs[e]
  BY <1>2 DEF RemoveJob, IInv, TypeOK
<1>7. TypeOK'
  <2>1. run' \in [Handles -> Handle]
    BY <1>5 DEF RemoveJob
  <2>2. jobs' \in [Extracts -> Job]
    BY <1>2, NoJobType DEF RemoveJob, IInv, TypeOK
  <2>3. QED
    BY <1>1, <1>3, <2>1, <2>2 DEF IInv, TypeOK
<1>8. HeldIsActive'
  BY <1>5, <1>6 DEF IInv, HeldIsActive
<1>9. OneAtWork'
  BY <1>5 DEF IInv, OneAtWork
<1>10. ChildWrites'
  BY <1>1, <1>5 DEF IInv, ChildWrites
<1>11. PartHasOwner'
  <2>1. ASSUME NEW e \in Extracts, Owned(e) PROVE Owned(e)'
    <3>1. CASE e = f
      BY <1>3, <3>1 DEF Owned
    <3>2. CASE e # f /\ jobs[e].state # "none"
      BY <1>6, <3>2 DEF Owned
    <3>3. CASE \E g \in Handles : Works(g, e)
      <4>1. PICK g \in Handles : Works(g, e)
        BY <3>3
      <4>2. QED
        BY <1>5, <4>1 DEF Owned, Works
    <3>4. QED
      BY <1>1, <2>1, <3>1, <3>2, <3>3 DEF Owned
  <2>2. QED
    BY <1>1, <2>1, StillOwned
<1>12. RequestNames' /\ AttemptsLeft'
  BY <1>3, <1>6, NoJobType DEF IInv, RequestNames, AttemptsLeft, Live
<1>13. FinishingAlone'
  BY <1>1, <1>2, <1>3, <1>5, Worse DEF IInv, FinishingAlone
<1>14. RecordedIsSafe'
  BY <1>1, <1>2, <1>3, <1>5, <1>6, Worse DEF IInv, RecordedIsSafe, TypeOK
<1>15. QED
  BY <1>7, <1>8, <1>9, <1>10, <1>11, <1>12, <1>13, <1>14 DEF IInv

LEMMA FlagExpiresKeeps ==
  ASSUME IInv, History, NEW f \in Extracts, FlagExpires(f)
  PROVE  IInv'
<1>1. UNCHANGED <<jobs, disk, row, run, user, booting, troubles, asked>>
  BY DEF FlagExpires, bounds
<1>2. TypeOK'
  BY <1>1 DEF FlagExpires, IInv, TypeOK
<1>3. HeldIsActive' /\ OneAtWork' /\ ChildWrites' /\ RequestNames' /\ AttemptsLeft'
  BY <1>1 DEF IInv, HeldIsActive, OneAtWork, ChildWrites, RequestNames, AttemptsLeft
<1>4. PartHasOwner'
  BY <1>1, StillOwned DEF Owned, Works
<1>5. FinishingAlone' /\ RecordedIsSafe'
  BY <1>1, Worse DEF IInv, FinishingAlone, RecordedIsSafe
<1>6. QED
  BY <1>2, <1>3, <1>4, <1>5 DEF IInv

-----------------------------------------------------------------------------
(* Restarts.                                                               *)

LEMMA CrashKeeps ==
  ASSUME IInv, History, Crash
  PROVE  IInv'
<1>1. /\ troubles' \in 0..MaxTroubles /\ troubles' # troubles /\ asked' = asked
  BY BoundsAssumption DEF Crash, Trouble, IInv, TypeOK
<1>2. UNCHANGED <<jobs, flags, disk, row>> /\ user' = NoRequest /\ booting'
  BY DEF Crash
<1>3. \A h \in Handles : run'[h] = Idle
  BY DEF Crash
<1>4. NoRequest.pc = "idle" /\ NoRequest.f = None
  BY DEF NoRequest
<1>5. TypeOK'
  BY <1>1, <1>2, IdleType DEF Crash, NoRequest, IInv, TypeOK
<1>6. HeldIsActive' /\ OneAtWork' /\ ChildWrites'
  BY <1>3, IdleType DEF HeldIsActive, OneAtWork, ChildWrites, Extracting, PastChild, Completing
<1>7. PartHasOwner'
  <2>1. ASSUME NEW e \in Extracts, Owned(e), ~abandoned' PROVE Owned(e)'
    <3>1. CASE jobs[e].state # "none"
      BY <1>2, <3>1 DEF Owned
    <3>2. CASE user.pc = "file" /\ user.f = e
      BY <1>1, <1>2, <2>1, <3>2 DEF History, CutShort
    <3>3. CASE \E h \in Handles : Works(h, e)
      <4>1. PICK h \in Handles : Works(h, e)
        BY <3>3
      <4>2. run[h] # Idle
        BY <4>1, IdleType DEF Works
      <4>3. run[h].held
        BY <1>1, <1>3, <2>1, <4>2 DEF History, CutShort
      <4>4. jobs[e].state = "active"
        BY <4>1, <4>3 DEF IInv, HeldIsActive, Works
      <4>5. QED
        BY <1>2, <4>4 DEF Owned
    <3>4. QED
      BY <2>1, <3>1, <3>2, <3>3 DEF Owned
  <2>2. QED
    BY <1>2, <2>1, StillOwned
<1>8. RequestNames' /\ AttemptsLeft'
  BY <1>2, <1>4 DEF IInv, RequestNames, AttemptsLeft
<1>9. FinishingAlone' /\ RecordedIsSafe'
  BY <1>2, <1>3, IdleType DEF FinishingAlone, RecordedIsSafe, Completing
<1>10. QED
  BY <1>5, <1>6, <1>7, <1>8, <1>9 DEF IInv

LEMMA ReconcileKeeps ==
  ASSUME IInv, History, Reconcile
  PROVE  IInv'
<1>1. /\ row' = None /\ booting' = FALSE
      /\ UNCHANGED <<jobs, flags, disk, run, user, troubles, asked>>
  BY DEF Reconcile, bounds
<1>2. TypeOK'
  BY <1>1 DEF IInv, TypeOK
<1>3. HeldIsActive' /\ OneAtWork' /\ ChildWrites' /\ RequestNames' /\ AttemptsLeft'
  BY <1>1 DEF IInv, HeldIsActive, OneAtWork, ChildWrites, RequestNames, AttemptsLeft
<1>4. PartHasOwner'
  BY <1>1, StillOwned DEF Owned, Works
<1>5. FinishingAlone' /\ RecordedIsSafe'
  BY <1>1, Worse DEF IInv, FinishingAlone, RecordedIsSafe
<1>6. QED
  BY <1>2, <1>3, <1>4, <1>5 DEF IInv

-----------------------------------------------------------------------------
(* The invariant.                                                          *)

LEMMA InitHolds == HistoryInit => IInv
<1> SUFFICES ASSUME HistoryInit PROVE IInv
  OBVIOUS
<1>1. \A f \in Extracts : jobs[f] = NoJob /\ disk[f] \in {"none", "whole"}
  BY DEF HistoryInit, Init
<1>2. \A h \in Handles : run[h] = Idle
  BY DEF HistoryInit, Init
<1>3. user = NoRequest /\ NoRequest.pc = "idle" /\ NoRequest.f = None
  BY DEF HistoryInit, Init, NoRequest
<1>4. TypeOK
  <2>1. jobs \in [Extracts -> Job] /\ run \in [Handles -> Handle]
    BY NoJobType, IdleType DEF HistoryInit, Init
  <2>2. /\ disk \in [Extracts -> {"none", "part", "whole"}] /\ row \in Extracts \cup {None}
        /\ flags \subseteq Extracts /\ booting \in BOOLEAN
    BY DEF HistoryInit, Init
  <2>3. user \in [pc : {"idle", "remove", "file"}, f : Extracts \cup {None}]
    BY <1>3 DEF NoRequest
  <2>4. troubles \in 0..MaxTroubles /\ asked \in 0..MaxRequests
    BY BoundsAssumption DEF HistoryInit, Init
  <2>5. QED
    BY <2>1, <2>2, <2>3, <2>4 DEF TypeOK
<1>5. HeldIsActive /\ OneAtWork /\ ChildWrites
  BY <1>2, IdleType DEF HeldIsActive, OneAtWork, ChildWrites, Extracting, PastChild, Completing
<1>6. PartHasOwner /\ RequestNames
  BY <1>1, <1>3 DEF PartHasOwner, RequestNames
<1>7. AttemptsLeft
  BY <1>1, NoJobType DEF AttemptsLeft, Live
<1>8. FinishingAlone
  BY <1>2, IdleType DEF FinishingAlone, Completing
<1>9. RecordedIsSafe
  <2>1. row # None => row \in Extracts /\ disk[row] = "whole"
    BY DEF HistoryInit, Init
  <2>2. QED
    BY <1>1, <1>2, <1>3, <2>1, IdleType, NoJobType, NamesAssumption DEF RecordedIsSafe
<1>10. QED
  BY <1>4, <1>5, <1>6, <1>7, <1>8, <1>9 DEF IInv

LEMMA StepKeeps ==
  ASSUME IInv, History, Next
  PROVE  IInv'
<1>1. CASE \E h \in Handles : Step(h)
  BY <1>1, OpenOutputKeeps, SpawnFailsKeeps, ExitKeeps, TickKeeps, CleanKeeps, StatKeeps,
     LookupKeeps, RecordKeeps, DropKeeps, PruneKeeps, UndeletedKeeps, EndKeeps, FailKeeps DEF Step
<1>2. CASE \E f \in Extracts : Ask(f)
  BY <1>2, ExtractRegionKeeps, DismissKeeps, CancelKeeps, DeleteKeeps DEF Ask
<1>3. CASE \E f \in Extracts : Queue(f)
  BY <1>3, PromoteKeeps, StalledKeeps, FlagExpiresKeeps, StartKeeps DEF Queue
<1>4. CASE RemoveJob \/ DeleteOutput \/ Crash \/ Reconcile
  BY <1>4, RemoveJobKeeps, DeleteOutputKeeps, CrashKeeps, ReconcileKeeps
<1>5. QED
  BY <1>1, <1>2, <1>3, <1>4 DEF Next

LEMMA StutterKeeps ==
  ASSUME IInv, UNCHANGED history
  PROVE  IInv'
<1>1. TypeOK' /\ HeldIsActive' /\ OneAtWork' /\ ChildWrites'
  BY DEF history, vars, bounds, IInv, TypeOK, HeldIsActive, OneAtWork, ChildWrites
<1>2. PartHasOwner' /\ RequestNames' /\ AttemptsLeft'
  BY DEF history, vars, IInv, PartHasOwner, Owned, Works, RequestNames, AttemptsLeft
<1>3. FinishingAlone' /\ RecordedIsSafe'
  BY DEF history, vars, IInv, FinishingAlone, RecordedIsSafe
<1>4. QED
  BY <1>1, <1>2, <1>3 DEF IInv

LEMMA Invariant == HistorySpec => []IInv
<1>1. IInv /\ [Next /\ History]_history => IInv'
  BY StepKeeps, StutterKeeps
<1>2. QED
  BY <1>1, InitHolds, PTL DEF HistorySpec

-----------------------------------------------------------------------------
(* Every variable has its type.                                            *)
THEOREM TypeCorrect == HistorySpec => []TypeOK
<1>1. IInv => TypeOK
  BY DEF IInv
<1>2. QED
  BY <1>1, Invariant, PTL

(* However extracts were cancelled, retried, raced or cut off, a file that *)
(* nobody works on any more is whole.                                      *)
THEOREM NothingHalfMade == HistorySpec => []NoPartLeft
<1>1. IInv => NoPartLeft
  <2> SUFFICES ASSUME IInv, Quiet, ~abandoned, NEW f \in Extracts, disk[f] = "part"
               PROVE  FALSE
    BY DEF NoPartLeft
  <2>1. Owned(f)
    BY DEF IInv, PartHasOwner
  <2>2. QED
    BY <2>1, IdleType DEF Quiet, Owned, Works, NoRequest
<1>2. QED
  BY <1>1, Invariant, PTL

(* The extract that the region's row records is on disk, and complete.     *)
THEOREM RecordedWhole == HistorySpec => []RecordedIsWhole
<1>1. IInv => RecordedIsWhole
  BY DEF IInv, RecordedIsSafe, RecordedIsWhole
<1>2. QED
  BY <1>1, Invariant, PTL

-----------------------------------------------------------------------------
(* One file at most is kept.                                               *)

Ends(f) == \E h \in Handles : run[h].f = f /\ run[h].held /\ run[h].pc = "end"

(* A file that is there to stay: nobody works on it, or only to say that   *)
(* it is done.                                                             *)
Kept(f) == disk[f] # "none" /\ (Owned(f) => Ends(f))

OneKept ==
  calm /\ ~abandoned /\ ~left =>
    /\ \A f, g \in Extracts : Kept(f) /\ Kept(g) => f = g
    /\ \A h \in Handles : run[h].pc = "prune" =>
         run[h].old \in {run[h].f, None} \/ ~Kept(run[h].old)

(* How a handle comes to its last two steps.                               *)
LEMMA LastSteps ==
  ASSUME IInv, Next, NEW h \in Handles, run'[h].pc \in {"prune", "end"}
  PROVE  \/ Drop(h) /\ run'[h].pc = "prune"
         \/ Prune(h) /\ run'[h].pc = "end"
         \/ Undeleted(h)
         \/ /\ run'[h].pc = run[h].pc /\ run'[h].f = run[h].f /\ run'[h].old = run[h].old
            /\ run'[h].held => run[h].held
<1>1. run \in [Handles -> Handle] /\ run[h] \in Handle
  BY DEF IInv, TypeOK
<1>2. CASE run' = run
  BY <1>2
<1>3. ASSUME NEW g \in Handles, NEW q, run' = [run EXCEPT ![g] = q],
             q.pc \notin {"prune", "end"} \/ q = [run[g] EXCEPT !.cancelled = TRUE]
      PROVE  /\ run'[h].pc = run[h].pc /\ run'[h].f = run[h].f /\ run'[h].old = run[h].old
             /\ run'[h].held => run[h].held
  <2>1. run'[h] = IF h = g THEN q ELSE run[h]
    BY <1>1, <1>3
  <2>2. CASE q = [run[g] EXCEPT !.cancelled = TRUE]
    BY <1>1, <2>1, <2>2 DEF Handle
  <2>3. QED
    BY <1>3, <2>1, <2>2
<1>4. ASSUME NEW gone, NEW r \in [Handles -> Handle], Unlinked(gone, r)
      PROVE  /\ run'[h].pc = r[h].pc /\ run'[h].f = r[h].f /\ run'[h].old = r[h].old
             /\ run'[h].held = r[h].held
  BY <1>4 DEF Unlinked, Handle
<1>5. ASSUME NEW g \in Handles, Step(g)
      PROVE  \/ Drop(h) /\ run'[h].pc = "prune"
             \/ Prune(h) /\ run'[h].pc = "end"
             \/ Undeleted(h)
             \/ /\ run'[h].pc = run[h].pc /\ run'[h].f = run[h].f /\ run'[h].old = run[h].old
                /\ run'[h].held => run[h].held
  <2>1. run[g] \in Handle
    BY <1>1
  <2>2. CASE OpenOutput(g) \/ SpawnFails(g) \/ Exit(g) \/ Stat(g)
    <3>1. PICK pc \in Pcs \ {"prune", "end"}, linked \in BOOLEAN :
            run' = [run EXCEPT ![g] = [run[g] EXCEPT !.pc = pc, !.linked = linked]]
      <4>1. CASE OpenOutput(g)
        BY <4>1 DEF OpenOutput, Becomes, Pcs, Extracting
      <4>2. CASE Exit(g)
        BY <4>2 DEF Exit, Becomes, Pcs, Completing
      <4>3. CASE SpawnFails(g) \/ Stat(g)
        <5>1. PICK pc \in {"error", "lookup"} : Go(g, pc)
          BY <4>3 DEF SpawnFails, Stat
        <5>2. [run[g] EXCEPT !.pc = pc] = [run[g] EXCEPT !.pc = pc, !.linked = run[g].linked]
          BY <2>1 DEF Handle
        <5>3. QED
          BY <2>1, <5>1, <5>2 DEF Go, Becomes, Pcs, Completing, Handle
      <4>4. QED
        BY <2>2, <4>1, <4>2, <4>3
    <3>2. [run[g] EXCEPT !.pc = pc, !.linked = linked].pc = pc
      BY <2>1 DEF Handle
    <3>3. QED
      BY <1>3, <3>1, <3>2
  <2>3. CASE Tick(g)
    BY <1>3, <2>3 DEF Tick, Becomes
  <2>4. CASE Lookup(g) \/ Record(g)
    <3>1. PICK q : run' = [run EXCEPT ![g] = q] /\ q.pc \in {"error", "record", "drop"}
      <4>1. [run[g] EXCEPT !.pc = "error"].pc = "error" /\ [run[g] EXCEPT !.pc = "drop"].pc = "drop"
              /\ [run[g] EXCEPT !.pc = "record", !.old = row].pc = "record"
        BY <2>1 DEF Handle
      <4>2. QED
        BY <2>4, <4>1 DEF Lookup, Record, Query, Go, Becomes
    <3>2. QED
      BY <1>3, <3>1
  <2>5. CASE End(g) \/ Fail(g)
    BY <1>3, <2>5, IdleType DEF End, Fail, Becomes
  <2>6. CASE Clean(g) \/ Drop(g) \/ Prune(g) \/ Undeleted(g)
    <3>1. PICK pc, gone :
            /\ pc \in Pcs
            /\ Unlinked(gone, [run EXCEPT ![g].pc = pc])
            /\ \/ pc = "error"
               \/ pc = "prune" /\ Drop(g)
               \/ pc = "end" /\ Prune(g)
               \/ Undeleted(g)
      BY <2>6 DEF Clean, Drop, Prune, Undeleted, Pcs, Completing
    <3>2. [run EXCEPT ![g].pc = pc] \in [Handles -> Handle]
      BY <1>1, <3>1 DEF Handle
    <3>3. PICK r \in [Handles -> Handle] : r = [run EXCEPT ![g].pc = pc]
      BY <3>2
    <3>4. /\ r[h].pc = IF h = g THEN pc ELSE run[h].pc
          /\ r[h].f = run[h].f /\ r[h].old = run[h].old /\ r[h].held = run[h].held
      BY <1>1, <3>3 DEF Handle
    <3>5. /\ run'[h].pc = r[h].pc /\ run'[h].f = r[h].f /\ run'[h].old = r[h].old
          /\ run'[h].held = r[h].held
      BY <1>4, <3>1, <3>3
    <3>6. QED
      BY <3>1, <3>4, <3>5
  <2>7. QED
    BY <1>5, <2>2, <2>3, <2>4, <2>5, <2>6 DEF Step
<1>6. ASSUME NEW f \in Extracts, Ask(f) \/ Queue(f)
      PROVE  /\ run'[h].pc = run[h].pc /\ run'[h].f = run[h].f /\ run'[h].old = run[h].old
             /\ run'[h].held => run[h].held
  <2>1. CASE ExtractRegion(f) \/ Dismiss(f) \/ Cancel(f) \/ Promote(f) \/ Stalled(f) \/ FlagExpires(f)
    BY <1>2, <2>1 DEF ExtractRegion, Dismiss, Cancel, Promote, Stalled, FlagExpires
  <2>2. CASE Delete(f)
    BY <1>1, <1>4, <2>2 DEF Delete
  <2>3. ASSUME NEW g \in Handles, Start(g, f)
        PROVE  /\ run'[h].pc = run[h].pc /\ run'[h].f = run[h].f /\ run'[h].old = run[h].old
               /\ run'[h].held => run[h].held
    <3>1. [Idle EXCEPT !.pc = "spawn", !.f = f, !.held = TRUE].pc = "spawn"
      BY DEF Idle
    <3>2. QED
      BY <1>3, <2>3, <3>1 DEF Start
  <2>4. QED
    BY <1>6, <2>1, <2>2, <2>3 DEF Ask, Queue
<1>7. CASE RemoveJob
  <2>1. run'[h] = [run[h] EXCEPT !.held = @ /\ run[h].f # user.f]
    BY <1>7 DEF RemoveJob
  <2>2. QED
    BY <1>1, <2>1 DEF Handle
<1>8. CASE DeleteOutput
  BY <1>1, <1>4, <1>8 DEF DeleteOutput
<1>9. CASE Crash
  BY <1>9, IdleType DEF Crash
<1>10. CASE Reconcile
  BY <1>2, <1>10 DEF Reconcile
<1>11. QED
  BY <1>5, <1>6, <1>7, <1>8, <1>9, <1>10 DEF Next

(* Whoever owns a file goes on to, hands it over, or removes it.           *)
LEMMA JobStays ==
  ASSUME IInv, History, Next, ~abandoned', NEW f \in Extracts, jobs[f].state # "none"
  PROVE  Owned(f)' \/ Ends(f)
<1>1. jobs \in [Extracts -> Job]
  BY DEF IInv, TypeOK
<1>2. ASSUME jobs' = jobs
      PROVE  Owned(f)'
  BY <1>2 DEF Owned
<1>3. ASSUME NEW e \in Extracts, NEW j, jobs' = [jobs EXCEPT ![e] = j], j.state # "none"
      PROVE  Owned(f)'
  BY <1>1, <1>3 DEF Owned
<1>4. ASSUME NEW e \in Extracts, NEW u, JobFails(e, u)
      PROVE  Owned(f)'
  <2>1. jobs'[f].state \in {jobs[f].state, "failed", "delayed"}
    BY <1>1, <1>4 DEF JobFails, Job
  <2>2. QED
    BY <2>1 DEF Owned
<1>5. ASSUME NEW h \in Handles, Step(h)
      PROVE  Owned(f)' \/ Ends(f)
  <2>1. CASE End(h)
    <3>1. CASE run[h].held /\ run[h].f = f
      BY <2>1, <3>1 DEF End, Ends
    <3>2. CASE ~(run[h].held /\ run[h].f = f)
      <4>1. jobs'[f] = jobs[f]
        BY <1>1, <2>1, <3>2 DEF End
      <4>2. QED
        BY <4>1 DEF Owned
    <3>3. QED
      BY <3>1, <3>2
  <2>2. CASE Fail(h)
    <3>1. run[h].held => run[h].f \in Extracts
      BY DEF IInv, HeldIsActive
    <3>2. QED
      BY <1>2, <1>4, <2>2, <3>1 DEF Fail
  <2>3. QED
    BY <1>2, <1>5, <2>1, <2>2 DEF Step, OpenOutput, SpawnFails, Exit, Tick, Clean, Stat,
       Lookup, Record, Query, Drop, Prune, Undeleted
<1>6. ASSUME NEW e \in Extracts, Ask(e) \/ Queue(e)
      PROVE  Owned(f)'
  <2>1. CASE ExtractRegion(e)
    <3>1. [NoJob EXCEPT !.state = "waiting"].state = "waiting"
      BY DEF NoJob
    <3>2. QED
      BY <1>3, <2>1, <3>1 DEF ExtractRegion
  <2>2. CASE Dismiss(e)
    <3>1. /\ jobs'[e] = NoJob /\ jobs[e].state \in {"failed", "waiting", "delayed"}
          /\ user' = user
      BY <1>1, <2>2 DEF Dismiss
    <3>2. QED
      BY <3>1 DEF History, Dismissed
  <2>3. CASE Promote(e) \/ \E h \in Handles : Start(h, e)
    <3>1. PICK s \in {"waiting", "active"} : jobs' = [jobs EXCEPT ![e].state = s]
      BY <2>3 DEF Promote, Start
    <3>2. jobs'[f].state \in {jobs[f].state, s}
      BY <1>1, <3>1 DEF Job
    <3>3. QED
      BY <3>2 DEF Owned
  <2>4. CASE Stalled(e)
    <3>1. CASE jobs[e].stalled
      BY <1>4, <2>4, <3>1 DEF Stalled
    <3>2. CASE ~jobs[e].stalled
      <4>1. jobs'[f].state \in {jobs[f].state, "waiting"}
        BY <1>1, <2>4, <3>2 DEF Stalled, Job
      <4>2. QED
        BY <4>1 DEF Owned
    <3>3. QED
      BY <3>1, <3>2
  <2>5. CASE Cancel(e) \/ Delete(e) \/ FlagExpires(e)
    BY <1>2, <2>5 DEF Cancel, Delete, FlagExpires
  <2>6. QED
    BY <1>6, <2>1, <2>2, <2>3, <2>4, <2>5 DEF Ask, Queue
<1>7. CASE RemoveJob
  <2>1. user.f = f => user'.pc = "file" /\ user'.f = f
    BY <1>7 DEF RemoveJob, IInv, TypeOK
  <2>2. user.f # f => jobs'[f] = jobs[f]
    BY <1>1, <1>7 DEF RemoveJob
  <2>3. QED
    BY <2>1, <2>2 DEF Owned
<1>8. CASE DeleteOutput \/ Crash \/ Reconcile
  BY <1>2, <1>8 DEF DeleteOutput, Crash, Reconcile
<1>9. QED
  BY <1>5, <1>6, <1>7, <1>8 DEF Next

LEMMA RequestStays ==
  ASSUME IInv, History, Next, ~abandoned', NEW f \in Extracts,
         user.pc = "file", user.f = f
  PROVE  Owned(f)' \/ disk'[f] = "none"
<1>1. CASE user' = user
  BY <1>1 DEF Owned
<1>2. CASE DeleteOutput
  BY <1>2 DEF DeleteOutput, Removed
<1>3. CASE Crash
  <2>1. troubles' # troubles /\ user' = NoRequest
    BY <1>3 DEF Crash, Trouble, IInv, TypeOK
  <2>2. QED
    BY <2>1 DEF History, CutShort
<1>4. CASE \E h \in Handles : Step(h)
  BY <1>1, <1>4 DEF Step, OpenOutput, SpawnFails, Exit, Tick, Clean, Stat, Lookup, Record,
     Query, Drop, Prune, Undeleted, End, Fail
<1>5. CASE \E e \in Extracts : Ask(e)
  BY <1>1, <1>5 DEF Ask, ExtractRegion, Dismiss, Cancel, Delete, NoRequest
<1>6. CASE \E e \in Extracts : Queue(e)
  BY <1>1, <1>6 DEF Queue, Promote, Stalled, FlagExpires, Start
<1>7. CASE RemoveJob \/ Reconcile
  BY <1>1, <1>7 DEF RemoveJob, Reconcile
<1>8. QED
  BY <1>2, <1>3, <1>4, <1>5, <1>6, <1>7 DEF Next

(* A handle that finishes does so for a job of its own, alone.             *)
LEMMA FinishingHolds ==
  ASSUME IInv', calm', NEW h \in Handles, run'[h].pc \in Completing
  PROVE  /\ run'[h].f \in Extracts /\ jobs'[run'[h].f].state = "active"
         /\ \A g \in Handles : g # h => run'[g].f # run'[h].f
  BY DEF IInv, FinishingAlone, HeldIsActive

LEMMA WorkStays ==
  ASSUME IInv, IInv', History, Next, calm', ~abandoned', NEW f \in Extracts,
         NEW h \in Handles, Works(h, f)
  PROVE  Owned(f)' \/ disk'[f] = "none"
<1>1. run \in [Handles -> Handle] /\ run[h] \in Handle /\ run[h].f = f
        /\ run[h].pc \in {"child", "clean"}
  BY DEF IInv, TypeOK, Works
<1>2. CASE run'[h].f = run[h].f /\ run'[h].pc = run[h].pc
  BY <1>2 DEF Owned, Works
<1>3. CASE Exit(h)
  <2>1. CASE run'[h].pc = "stat"
    BY <1>1, <1>3, <2>1, FinishingHolds DEF Exit, Becomes, Handle, Completing, Owned
  <2>2. CASE run'[h].pc # "stat"
    <3>1. run'[h] = [run[h] EXCEPT !.pc = "clean", !.linked = FALSE]
            \/ run'[h] = [run[h] EXCEPT !.pc = "stat", !.linked = FALSE]
      BY <1>1, <1>3 DEF Exit, Becomes
    <3>2. run'[h].pc = "clean" /\ run'[h].f = f
      BY <1>1, <2>2, <3>1 DEF Handle
    <3>3. QED
      BY <3>2 DEF Owned, Works
  <2>3. QED
    BY <2>1, <2>2
<1>4. CASE Clean(h)
  BY <1>1, <1>4 DEF Clean, Removed
<1>5. CASE Crash
  <2>1. troubles' # troubles /\ run'[h] = Idle /\ run[h] # Idle /\ jobs' = jobs
    BY <1>1, <1>5, IdleType DEF Crash, Trouble, IInv, TypeOK
  <2>2. run[h].held
    BY <2>1 DEF History, CutShort
  <2>3. jobs[f].state = "active"
    BY <1>1, <2>2 DEF IInv, HeldIsActive
  <2>4. QED
    BY <2>1, <2>3 DEF Owned
<1>6. CASE RemoveJob
  <2>1. run'[h] = [run[h] EXCEPT !.held = @ /\ run[h].f # user.f]
    BY <1>6 DEF RemoveJob
  <2>2. QED
    BY <1>1, <1>2, <2>1 DEF Handle
<1>7. ASSUME NEW gone, NEW r \in [Handles -> Handle], Unlinked(gone, r), r[h] = run[h]
      PROVE  run'[h].f = run[h].f /\ run'[h].pc = run[h].pc
  BY <1>7 DEF Unlinked, Handle
<1>8. CASE DeleteOutput \/ \E e \in Extracts : Delete(e)
  BY <1>1, <1>2, <1>7, <1>8 DEF DeleteOutput, Delete
<1>9. ASSUME NEW g \in Handles, Drop(g) \/ Prune(g) \/ Undeleted(g) \/ Clean(g), g # h
      PROVE  run'[h].f = run[h].f /\ run'[h].pc = run[h].pc
  <2>1. PICK pc, gone : pc \in Pcs /\ Unlinked(gone, [run EXCEPT ![g].pc = pc])
    BY <1>9 DEF Clean, Drop, Prune, Undeleted, Pcs, Completing
  <2>2. [run EXCEPT ![g].pc = pc] \in [Handles -> Handle]
    BY <1>1, <2>1 DEF Handle
  <2>3. [run EXCEPT ![g].pc = pc][h] = run[h]
    BY <1>1, <1>9
  <2>4. QED
    BY <1>7, <2>1, <2>2, <2>3
<1>10. ASSUME NEW g \in Handles, NEW q, run' = [run EXCEPT ![g] = q], g # h
       PROVE  run'[h].f = run[h].f /\ run'[h].pc = run[h].pc
  BY <1>1, <1>10
<1>11. ASSUME NEW g \in Handles, Step(g), g # h
       PROVE  run'[h].f = run[h].f /\ run'[h].pc = run[h].pc
  BY <1>9, <1>10, <1>11 DEF Step, OpenOutput, SpawnFails, Exit, Tick, Stat, Lookup, Record,
     Query, End, Fail, Go, Becomes
<1>12. ASSUME Step(h), ~Exit(h), ~Clean(h)
       PROVE  run'[h].f = run[h].f /\ run'[h].pc = run[h].pc
  <2>1. Tick(h)
    BY <1>1, <1>12 DEF Step, OpenOutput, SpawnFails, Stat, Lookup, Record, Query, Drop, Prune,
       Undeleted, End, Fail
  <2>2. run'[h] = [run[h] EXCEPT !.cancelled = TRUE]
    BY <1>1, <2>1 DEF Tick, Becomes
  <2>3. QED
    BY <1>1, <2>2 DEF Handle
<1>13. ASSUME NEW g \in Handles, NEW e \in Extracts, Start(g, e)
       PROVE  run'[h].f = run[h].f /\ run'[h].pc = run[h].pc
  BY <1>1, <1>13, IdleType DEF Start
<1>14. CASE Reconcile \/ \E e \in Extracts : \/ ExtractRegion(e) \/ Dismiss(e) \/ Cancel(e)
                                            \/ Promote(e) \/ Stalled(e) \/ FlagExpires(e)
  BY <1>2, <1>14 DEF Reconcile, ExtractRegion, Dismiss, Cancel, Promote, Stalled, FlagExpires
<1>15. QED
  BY <1>2, <1>3, <1>4, <1>5, <1>6, <1>8, <1>11, <1>12, <1>13, <1>14 DEF Next, Ask, Queue

(* A file that comes to be has somebody at work on it.                     *)
LEMMA FileBefore ==
  ASSUME IInv, IInv', History, Next, calm', NEW f \in Extracts, disk'[f] # "none",
         disk[f] = "none"
  PROVE  \E h \in Handles :
           /\ run'[h].f = f /\ run'[h].pc \in {"child", "stat"}
           /\ Owned(f)'
           /\ \A g \in Handles : run'[g].f = f /\ run'[g].held => run'[g].pc # "end"
<1>1. /\ \A h \in Handles : run[h] \in Handle
      /\ run \in [Handles -> Handle] /\ disk \in [Extracts -> {"none", "part", "whole"}]
  BY RunType DEF IInv, TypeOK
<1>2. ASSUME NEW h \in Handles, OpenOutput(h)
      PROVE  /\ run'[h].f = f /\ run'[h].pc = "child" /\ Owned(f)'
             /\ \A g \in Handles : run'[g].f = f /\ run'[g].held => run'[g].pc # "end"
  <2>1. run[h].f = f
    BY <1>1, <1>2 DEF OpenOutput
  <2>2. run'[h] = [run[h] EXCEPT !.pc = "child", !.linked = TRUE]
          /\ \A g \in Handles : g # h => run'[g] = run[g]
    BY <1>1, <1>2 DEF OpenOutput, Becomes
  <2>3. run'[h].f = f /\ run'[h].pc = "child"
    BY <1>1, <2>1, <2>2 DEF Handle
  <2>4. Owned(f)'
    BY <2>3 DEF Owned, Works
  <2>5. ASSUME NEW g \in Handles, run'[g].f = f, run'[g].held, run'[g].pc = "end" PROVE FALSE
    <3>1. g # h
      BY <2>3, <2>5
    <3>2. run[g].f = run[h].f /\ run[g].held
      BY <2>1, <2>2, <2>5, <3>1
    <3>3. QED
      BY <1>2, <3>1, <3>2 DEF OpenOutput, IInv, OneAtWork, Extracting
  <2>6. QED
    BY <2>3, <2>4, <2>5
<1>3. ASSUME NEW h \in Handles, Exit(h)
      PROVE  /\ run'[h].f = f /\ run'[h].pc = "stat" /\ Owned(f)'
             /\ \A g \in Handles : run'[g].f = f /\ run'[g].held => run'[g].pc # "end"
  <2>1. run[h].f = f /\ run'[h] = [run[h] EXCEPT !.pc = "stat", !.linked = FALSE]
    BY <1>1, <1>3 DEF Exit, Becomes
  <2>2. run'[h].f = f /\ run'[h].pc = "stat"
    BY <1>1, <2>1 DEF Handle
  <2>3. QED
    BY <2>2, FinishingHolds DEF Completing, Owned
<1>4. ASSUME NEW gone, Removed(gone) PROVE FALSE
  BY <1>1, <1>4 DEF Removed
<1>5. CASE \E h \in Handles : Step(h)
  BY <1>1, <1>2, <1>3, <1>4, <1>5 DEF Step, SpawnFails, Tick, Clean, Stat, Lookup, Record, Query,
     Drop, Prune, Undeleted, End, Fail
<1>6. CASE ~\E h \in Handles : Step(h)
  BY <1>4, <1>6 DEF Next, Ask, Queue, ExtractRegion, Dismiss, Cancel, Delete, Promote, Stalled,
     FlagExpires, Start, RemoveJob, DeleteOutput, Crash, Reconcile
<1>7. QED
  BY <1>5, <1>6

(* Nothing comes to be kept but at the end of a handle.                    *)
LEMMA KeptBefore ==
  ASSUME IInv, IInv', History, Next, calm', ~abandoned', ~left', NEW f \in Extracts, Kept(f)',
         \A h \in Handles : Prune(h) => run[h].f # f
  PROVE  Kept(f)
<1>1. disk'[f] # "none" /\ (Owned(f)' => Ends(f)')
  BY DEF Kept
<1>2. Ends(f)' => Ends(f)
  <2> SUFFICES ASSUME NEW h \in Handles, run'[h].f = f, run'[h].held, run'[h].pc = "end"
               PROVE  Ends(f)
    BY DEF Ends
  <2>1. CASE Prune(h)
    <3>1. run'[h].f = run[h].f
      <4>1. run \in [Handles -> Handle]
        BY DEF IInv, TypeOK
      <4>2. run'[h] = [[run EXCEPT ![h].pc = "end"][h] EXCEPT !.linked =
                         @ /\ [run EXCEPT ![h].pc = "end"][h].f \notin
                                Extracts \ {run[h].f, run[h].old}]
        BY <2>1 DEF Prune, Unlinked
      <4>3. QED
        BY <4>1, <4>2 DEF Handle
    <3>2. QED
      BY <2>1, <3>1
  <2>2. CASE ~Prune(h)
    BY <2>2, LastSteps DEF Ends, History
  <2>3. QED
    BY <2>1, <2>2
<1>3. disk[f] # "none"
  <2> SUFFICES ASSUME disk[f] = "none" PROVE FALSE
    OBVIOUS
  <2>1. Owned(f)' /\ ~Ends(f)'
    BY <1>1, FileBefore DEF Ends
  <2>2. QED
    BY <1>1, <2>1
<1>4. Owned(f) => Owned(f)' \/ Ends(f)
  <2>1. CASE jobs[f].state # "none"
    BY <2>1, JobStays
  <2>2. CASE user.pc = "file" /\ user.f = f
    BY <1>1, <2>2, RequestStays
  <2>3. CASE \E h \in Handles : Works(h, f)
    BY <1>1, <2>3, WorkStays
  <2>4. QED
    BY <2>1, <2>2, <2>3 DEF Owned
<1>5. QED
  BY <1>1, <1>2, <1>3, <1>4 DEF Kept

LEMMA PrunesAlone ==
  ASSUME IInv, calm, NEW g \in Handles, NEW h \in Handles,
         run[g].pc = "prune", run[h].pc = "prune"
  PROVE  g = h
  BY DEF IInv, FinishingAlone, Completing

LEMMA OneKeptNext ==
  ASSUME IInv, IInv', OneKept, History, Next
  PROVE  OneKept'
<1> SUFFICES ASSUME calm', ~abandoned', ~left'
             PROVE  /\ \A f, g \in Extracts : Kept(f)' /\ Kept(g)' => f = g
                    /\ \A h \in Handles : run'[h].pc = "prune" =>
                         run'[h].old \in {run'[h].f, None} \/ ~Kept(run[h].old)'
  BY DEF OneKept, Kept, Owned, Works, Ends
<1>1. calm /\ ~abandoned /\ ~left /\ \A h \in Handles : ~Undeleted(h)
  BY Worse DEF History
<1>2. /\ \A f, g \in Extracts : Kept(f) /\ Kept(g) => f = g
      /\ \A h \in Handles : run[h].pc = "prune" =>
           run[h].old \in {run[h].f, None} \/ ~Kept(run[h].old)
  BY <1>1 DEF OneKept
<1>3. \A h \in Handles : run[h] \in Handle
  BY RunType
<1>4. ASSUME NEW f \in Extracts, NEW g \in Extracts, Kept(f)', Kept(g)'
      PROVE  f = g
  <2>1. CASE \E h \in Handles : Prune(h)
    <3>1. PICK h \in Handles : Prune(h)
      BY <2>1
    <3>2. run[h].pc = "prune"
      BY <3>1 DEF Prune
    <3>3. ASSUME NEW e \in Extracts, Kept(e)', e # run[h].f
          PROVE  FALSE
      <4>1. \A k \in Handles : Prune(k) => run[k].f # e
        BY <1>1, <3>2, <3>3, PrunesAlone DEF Prune
      <4>2. Kept(e)
        BY <3>3, <4>1, KeptBefore
      <4>3. e = run[h].old
        BY <3>1, <3>3 DEF Prune, Removed, Kept
      <4>4. QED
        BY <1>2, <3>2, <3>3, <4>2, <4>3, NamesAssumption
    <3>4. QED
      BY <1>4, <3>3
  <2>2. CASE ~\E h \in Handles : Prune(h)
    BY <1>2, <1>4, <2>2, KeptBefore
  <2>3. QED
    BY <2>1, <2>2
<1>5. ASSUME NEW h \in Handles, run'[h].pc = "prune"
      PROVE  run'[h].old \in {run'[h].f, None} \/ ~Kept(run[h].old)'
  <2>1. CASE Drop(h)
    <3>1. PICK r \in [Handles -> Handle] : r = [run EXCEPT ![h].pc = "prune"]
      <4>1. [run EXCEPT ![h].pc = "prune"] \in [Handles -> Handle]
        BY DEF IInv, TypeOK, Handle, Pcs, Completing
      <4>2. QED
        BY <4>1
    <3>2. r[h].old = run[h].old /\ r[h].f = run[h].f
      BY <1>3, <3>1 DEF IInv, TypeOK, Handle
    <3>3. run'[h] = [r[h] EXCEPT !.linked = @ /\ r[h].f \notin {run[h].old} \ {run[h].f}]
      BY <2>1, <3>1 DEF Drop, Unlinked
    <3>4. run'[h].old = run[h].old /\ run'[h].f = run[h].f
      BY <3>1, <3>2, <3>3 DEF Handle
    <3>5. run[h].old \in Extracts \ {run[h].f} => disk'[run[h].old] = "none"
      BY <2>1 DEF Drop, Removed
    <3>6. run[h].old \in Extracts \cup {None}
      BY <1>3 DEF Handle
    <3>7. QED
      BY <3>4, <3>5, <3>6 DEF Kept
  <2>2. CASE run'[h].pc = run[h].pc /\ run'[h].f = run[h].f /\ run'[h].old = run[h].old
    <3>1. CASE run[h].old \in {run[h].f, None}
      BY <2>2, <3>1
    <3>2. CASE run[h].old \notin {run[h].f, None}
      <4>1. run[h].old \in Extracts /\ ~Kept(run[h].old)
        BY <1>2, <1>3, <1>5, <2>2, <3>2 DEF Handle
      <4>2. \A k \in Handles : Prune(k) => run[k].f # run[h].old
        BY <1>1, <1>5, <2>2, <3>2, PrunesAlone DEF Prune
      <4>3. PICK e \in Extracts : e = run[h].old
        BY <4>1
      <4>4. ~Kept(e)'
        BY <4>1, <4>2, <4>3, KeptBefore
      <4>5. QED
        BY <2>2, <4>3, <4>4
    <3>3. QED
      BY <3>1, <3>2
  <2>3. QED
    BY <1>1, <1>5, <2>1, <2>2, LastSteps
<1>6. QED
  BY <1>4, <1>5

LEMMA OneKeptInit == HistoryInit => OneKept
  BY IdleType DEF HistoryInit, Init, OneKept, Kept

(* Once its successor is made, no extract of the region is left behind,    *)
(* also one that the row had forgotten, unless it could not be deleted.    *)
THEOREM OnlyTheLatest == HistorySpec => []OneFile
<1>1. IInv /\ IInv' /\ OneKept /\ [Next /\ History]_history => OneKept'
  <2>1. ASSUME OneKept, UNCHANGED history PROVE OneKept'
    BY <2>1 DEF history, vars, OneKept, Kept, Owned, Works, Ends
  <2>2. QED
    BY <2>1, OneKeptNext
<1>2. OneKept => OneFile
  <2> SUFFICES ASSUME OneKept, calm, Quiet, ~abandoned, ~left, NEW f \in Extracts,
                      NEW g \in Extracts, disk[f] # "none", disk[g] # "none"
               PROVE  f = g
    BY DEF OneFile
  <2>1. \A e \in Extracts : ~Owned(e)
    BY IdleType DEF Quiet, Owned, Works, NoRequest
  <2>2. QED
    BY <2>1 DEF OneKept, Kept
<1>3. QED
  BY <1>1, <1>2, OneKeptInit, Invariant, PTL DEF HistorySpec
=============================================================================
