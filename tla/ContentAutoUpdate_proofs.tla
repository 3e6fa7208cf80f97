---------------------- MODULE ContentAutoUpdate_proofs ----------------------
(* Proofs about ContentAutoUpdate, for every value of its constants: the   *)
(* types, the budget of a window, the cool-off and its anchors.            *)
EXTENDS ContentAutoUpdate, FiniteSetTheorems, SequenceTheorems, TLAPS

-----------------------------------------------------------------------------
(* The strengthening.                                                      *)

(* A version noted on a row was first found at least as long ago as the    *)
(* row says: the rows in the table and the two sets of rows in flight.     *)
Backed(s, r) ==
  s.avail # NoVersion =>
    s.age \in Ages /\ seen[r][s.avail] \in Ages /\ s.age <= seen[r][s.avail]

AnchorsBacked ==
  \A r \in Resources :
    /\ Backed(row[r], r)
    /\ run.pc # "idle" => Backed(run.rows[r], r)
    /\ manual # <<>> => Backed(manual[r], r)

(* A run works in a window whose budget was reset; what it took and what   *)
(* it may still take fit the cap with what was used before; the budget of  *)
(* a window no run has seen yet is untouched.                              *)
BudgetCovers ==
  /\ kv.used <= Cap
  /\ run.pc # "idle" => ~WindowReset
  /\ run.pc # "start" => run.bytes = 0
  /\ run.pc = "start" => kv.used + run.bytes + run.left <= Cap
  /\ lost \/ spent <= IF WindowReset THEN 0 ELSE kv.used + run.bytes

-----------------------------------------------------------------------------
(* Helpers of the model.                                                   *)

LEMMA NumbersType ==
  /\ Day \in Nat /\ Day > 0 /\ Start \in 0..(Day - 1) /\ Cap \in Nat
  /\ Cooloff \in Nat /\ MaxTroubles \in Nat /\ MaxActs \in Nat
  /\ MAX_CONSECUTIVE_FAILURES \in Nat /\ MAX_CONSECUTIVE_FAILURES > 0
  /\ MAX_FEATURE_FAILURES \in Nat /\ MAX_FEATURE_FAILURES > 0
  BY NumbersAssumption DEF Hours

LEMMA ZeroType ==
  0 \in Nat /\ 0 \in 0..Day /\ 0 \in 0..MAX_FEATURE_FAILURES
    /\ 0 \in 0..MAX_CONSECUTIVE_FAILURES /\ 0 \in Hours
  BY NumbersType DEF Hours

LEMMA NoRunType == NoRun \in RunStates /\ NoRun.pc = "idle" /\ NoRun.bytes = 0
  BY DEF NoRun, RunStates

LEMMA FreshType ==
  ASSUME NEW limit \in Nat, NEW age \in 0..limit \cup {NoAge}
  PROVE  /\ Fresh(age, limit) \in 0..limit \cup {NoAge}
         /\ age = NoAge => Fresh(age, limit) = NoAge
         /\ age # NoAge => Fresh(age, limit) \in 0..limit /\ Fresh(age, limit) >= age
         /\ age \in 0..limit => Fresh(age, limit) = IF age = limit THEN age ELSE age + 1
  BY ResourcesAssumption DEF Fresh

LEMMA NotedType ==
  ASSUME NEW s \in Rows, NEW latest \in Versions \cup {NoVersion}
  PROVE  Noted(s, latest) \in Rows
<1>1. 0 \in Ages
  BY NumbersType DEF Ages
<1>2. [s EXCEPT !.avail = NoVersion, !.age = NoAge] \in Rows
  BY DEF Rows
<1>3. CASE latest # NoVersion
  <2>1. latest \in Versions
    BY <1>3
  <2>2. [s EXCEPT !.avail = latest, !.age = 0] \in Rows
    BY <1>1, <2>1 DEF Rows
  <2> QED
    BY <1>2, <2>2 DEF Noted
<1> QED
  BY <1>2, <1>3 DEF Noted

LEMMA LookupsType ==
  ASSUME TypeOK, NEW failing \in SUBSET Resources
  PROVE  Lookups(failing) \in [Resources -> Versions \cup {NoVersion}]
  BY DEF TypeOK, Lookups

LEMMA ReconcileType ==
  ASSUME TypeOK, NEW rows \in Tables, NEW failing \in SUBSET Resources,
         Reconcile(rows, failing)
  PROVE  /\ row' \in Tables
         /\ seen' \in [Resources -> [Versions -> Ages \cup {NoAge}]]
<1> DEFINE latest == Lookups(failing)
<1>1. latest \in [Resources -> Versions \cup {NoVersion}]
  BY LookupsType
<1>2. \A r \in Resources : Saved(r, rows[r], Noted(rows[r], latest[r])) \in Rows
  <2> SUFFICES ASSUME NEW r \in Resources
               PROVE  Saved(r, rows[r], Noted(rows[r], latest[r])) \in Rows
    OBVIOUS
  <2>1. PICK new : new = Noted(rows[r], latest[r])
    OBVIOUS
  <2>2. new \in Rows
    BY <1>1, <2>1, NotedType DEF Tables
  <2>3. Saved(r, rows[r], new) \in Rows
    BY <2>2 DEF Saved, TypeOK, Tables, Rows
  <2> QED
    BY <2>1, <2>3
<1>3. row' = [r \in Resources |-> Saved(r, rows[r], Noted(rows[r], latest[r]))]
  BY DEF Reconcile
<1>4. row' \in Tables
  BY <1>2, <1>3 DEF Tables
<1>5. 0 \in Ages
  BY NumbersType DEF Ages
<1>6. seen' \in [Resources -> [Versions -> Ages \cup {NoAge}]]
  BY <1>5 DEF Reconcile, TypeOK
<1> QED
  BY <1>4, <1>6

LEMMA TroubleType ==
  ASSUME TypeOK, NEW happens \in BOOLEAN, Trouble(happens)
  PROVE  troubles' \in 0..MaxTroubles
  BY NumbersType DEF TypeOK, Trouble

LEMMA FailureType ==
  ASSUME TypeOK, NEW r \in Resources, NEW failures \in 0..MAX_CONSECUTIVE_FAILURES,
         ResourceFailure(r, failures)
  PROVE  row' \in Tables
<1>1. PICK more : more = IF failures < MAX_CONSECUTIVE_FAILURES THEN failures + 1 ELSE failures
  OBVIOUS
<1>2. more \in 0..MAX_CONSECUTIVE_FAILURES
  BY <1>1, NumbersType
<1>3. row' = [row EXCEPT ![r].failures = more,
                         ![r].disabled = @ \/ more = MAX_CONSECUTIVE_FAILURES]
  BY <1>1 DEF ResourceFailure
<1>4. row[r] \in Rows
  BY DEF TypeOK, Tables
<1>5. PICK b \in BOOLEAN : b = (row[r].disabled \/ more = MAX_CONSECUTIVE_FAILURES)
  BY <1>4 DEF Rows
<1>6. row' = [row EXCEPT ![r] = [row[r] EXCEPT !.failures = more, !.disabled = b]]
  BY <1>3, <1>4, <1>5 DEF TypeOK, Tables, Rows
<1>7. [row[r] EXCEPT !.failures = more, !.disabled = b] \in Rows
  BY <1>2, <1>4, <1>5 DEF Rows
<1> QED
  BY <1>6, <1>7 DEF TypeOK, Tables

-----------------------------------------------------------------------------
(* Types.                                                                  *)

LEMMA InitType == Init => TypeOK
<1> SUFFICES ASSUME Init
             PROVE  TypeOK
  OBVIOUS
<1>1. row \in Tables /\ catalog \in [Resources -> Versions]
  BY NumbersType DEF Init, Tables, Rows
<1>2. order \in Seq(Resources)
  <2>1. PICK n : n = Cardinality(Resources)
    OBVIOUS
  <2>2. n \in Nat
    BY <2>1, ResourcesAssumption, FS_CardinalityType
  <2>3. order \in [1..n -> Resources]
    BY <2>1 DEF Init, Orders
  <2> QED
    BY <2>2, <2>3
<1>3. kv \in Settings
  BY NumbersType DEF Init, Settings
<1>4. run \in RunStates /\ run.pc = "idle"
  BY NoRunType DEF Init
<1>5. /\ jobs \in [Resources -> [Versions -> {"none", "live", "failed"}]]
      /\ seen \in [Resources -> [Versions -> Ages \cup {NoAge}]]
  BY DEF Init
<1>6. /\ hour \in Hours /\ due \in BOOLEAN /\ manual = <<>>
      /\ acts \in 0..MaxActs /\ troubles \in 0..MaxTroubles
      /\ spent \in Nat /\ lost \in BOOLEAN
  <2>1. 0 \in 0..MaxActs /\ 0 \in 0..MaxTroubles
    BY NumbersType
  <2> QED
    BY <2>1, ZeroType DEF Init
<1> QED
  BY <1>1, <1>2, <1>3, <1>4, <1>5, <1>6 DEF TypeOK

LEMMA TickType ==
  ASSUME TypeOK, Tick
  PROVE  TypeOK'
<1>1. hour' \in Hours /\ spent' \in Nat
  BY NumbersType DEF TypeOK, Tick, Hours
<1>2. kv' \in Settings
  <2>1. PICK age : age = Fresh(kv.reset, Day)
    OBVIOUS
  <2>2. age \in 0..Day \cup {NoAge}
    BY <2>1, FreshType, NumbersType DEF TypeOK, Settings
  <2>3. kv' = [kv EXCEPT !.reset = age]
    BY <2>1 DEF Tick
  <2> QED
    BY <2>2, <2>3 DEF TypeOK, Settings
<1>3. \A age \in Ages \cup {NoAge} : Fresh(age, Cooloff) \in Ages \cup {NoAge}
  BY FreshType, NumbersType DEF Ages
<1>4. row' \in Tables
  <2> SUFFICES ASSUME NEW r \in Resources
               PROVE  [row[r] EXCEPT !.age = Fresh(@, Cooloff)] \in Rows
    BY DEF Tick, Tables
  <2>1. PICK age : age = Fresh(row[r].age, Cooloff)
    OBVIOUS
  <2>2. row[r] \in Rows /\ age \in Ages \cup {NoAge}
    BY <1>3, <2>1 DEF TypeOK, Tables, Rows
  <2>3. [row[r] EXCEPT !.age = age] \in Rows
    BY <2>2 DEF Rows
  <2> QED
    BY <2>1, <2>3
<1>5. seen' \in [Resources -> [Versions -> Ages \cup {NoAge}]]
  BY <1>3 DEF TypeOK, Tick
<1> QED
  BY <1>1, <1>2, <1>4, <1>5 DEF TypeOK, Tick, bounds

LEMMA ChecksType ==
  ASSUME TypeOK, ManualLoad \/ ManualReconcile \/ Check
  PROVE  TypeOK'
<1>1. CASE ManualLoad
  BY <1>1, NumbersType DEF TypeOK, ManualLoad, history
<1>2. CASE ManualReconcile
  <2>1. PICK failing \in SUBSET Resources :
          Trouble(failing # {}) /\ Reconcile(manual, failing)
    BY <1>2 DEF ManualReconcile
  <2>2. manual \in Tables
    BY <1>2 DEF ManualReconcile, TypeOK
  <2>3. row' \in Tables /\ seen' \in [Resources -> [Versions -> Ages \cup {NoAge}]]
    BY <2>1, <2>2, ReconcileType
  <2>4. troubles' \in 0..MaxTroubles
    BY <2>1, TroubleType
  <2> QED
    BY <1>2, <2>3, <2>4 DEF TypeOK, ManualReconcile
<1>3. CASE Check
  <2>1. PICK failing \in SUBSET Resources :
          /\ Trouble(failing # {})
          /\ Reconcile(run.rows, failing)
          /\ run' = [run EXCEPT !.pc = "select", !.rows =
                       [r \in Resources |-> Noted(@[r], Lookups(failing)[r])]]
    BY <1>3 DEF Check
  <2>2. run.rows \in Tables
    BY <1>3 DEF Check, TypeOK
  <2>3. row' \in Tables /\ seen' \in [Resources -> [Versions -> Ages \cup {NoAge}]]
    BY <2>1, <2>2, ReconcileType
  <2>4. troubles' \in 0..MaxTroubles
    BY <2>1, TroubleType
  <2>5. PICK rows : rows = [r \in Resources |-> Noted(run.rows[r], Lookups(failing)[r])]
    OBVIOUS
  <2>6. rows \in Tables
    BY <2>2, <2>5, NotedType, LookupsType DEF Tables
  <2>7. run' = [run EXCEPT !.pc = "select", !.rows = rows]
    BY <2>1, <2>5 DEF TypeOK, RunStates
  <2>8. run' \in RunStates /\ run'.rows \in Tables
    BY <2>6, <2>7 DEF TypeOK, RunStates
  <2> QED
    BY <1>3, <2>3, <2>4, <2>8 DEF TypeOK, Check
<1> QED
  BY <1>1, <1>2, <1>3

LEMMA RunType ==
  ASSUME TypeOK, Attempt \/ Select \/ Finish \/ Fail \/ Crash
  PROVE  TypeOK'
<1>1. CASE Attempt
  <2>1. kv' \in Settings
    <3>1. CASE kv' = kv
      BY <3>1 DEF TypeOK
    <3>2. CASE kv' = [kv EXCEPT !.used = 0, !.reset = 0]
      BY <3>2, ZeroType DEF TypeOK, Settings
    <3> QED
      BY <1>1, <3>1, <3>2 DEF Attempt
  <2>2. run' \in RunStates /\ (run'.pc # "idle" => run'.rows \in Tables)
    <3>1. CASE kv.enabled /\ WithinWindow
      <4>1. run' = [NoRun EXCEPT !.pc = "check", !.rows = row, !.todo = order]
        BY <1>1, <3>1 DEF Attempt
      <4> QED
        BY <4>1, NoRunType DEF TypeOK, RunStates
    <3>2. CASE ~(kv.enabled /\ WithinWindow)
      BY <1>1, <3>2 DEF Attempt, TypeOK
    <3> QED
      BY <3>1, <3>2
  <2> QED
    BY <1>1, <2>1, <2>2 DEF Attempt, Elsewhere, TypeOK
<1>2. CASE Select
  <2>1. troubles' \in 0..MaxTroubles
    <3>1. AnyLive \in BOOLEAN
      BY DEF AnyLive
    <3> QED
      BY <1>2, <3>1, TroubleType DEF Select, TypeOK
  <2>2. kv' \in Settings
    <3>1. kv' = kv \/ kv' = [kv EXCEPT !.failures = 0]
      BY <1>2 DEF Select, Clean
    <3> QED
      BY <3>1, ZeroType DEF TypeOK, Settings
  <2>3. run' \in RunStates /\ (run'.pc # "idle" => run'.rows \in Tables)
    <3>1. CASE run' = NoRun
      BY <3>1, NoRunType
    <3>2. CASE run' = [run EXCEPT !.pc = "start",
                         !.left = IF kv.used < Cap THEN Cap - kv.used ELSE 0]
      <4>1. PICK left \in Nat : left = IF kv.used < Cap THEN Cap - kv.used ELSE 0
        BY NumbersType DEF TypeOK, Settings
      <4>2. run' = [run EXCEPT !.pc = "start", !.left = left] /\ run.pc = "select"
        BY <1>2, <3>2, <4>1 DEF Select
      <4> QED
        BY <4>2 DEF TypeOK, RunStates
    <3> QED
      BY <1>2, <3>1, <3>2 DEF Select
  <2> QED
    BY <1>2, <2>1, <2>2, <2>3 DEF Select, Elsewhere, TypeOK
<1>3. CASE Finish
  <2>1. kv' \in Settings
    <3>1. run.bytes \in Nat /\ kv.used \in Nat
      BY DEF TypeOK, Settings, RunStates
    <3>2. kv' = [kv EXCEPT !.used = kv.used + run.bytes, !.failures = 0]
      BY <1>3 DEF Finish, TypeOK, Settings
    <3>3. PICK used \in Nat : used = kv.used + run.bytes
      BY <3>1
    <3>4. kv' = [kv EXCEPT !.used = used, !.failures = 0]
      BY <3>2, <3>3
    <3> QED
      BY <3>4, ZeroType DEF TypeOK, Settings
  <2> QED
    BY <1>3, <2>1, NoRunType DEF Finish, Elsewhere, TypeOK
<1>4. CASE Fail
  <2>1. kv' \in Settings
    <3>1. PICK n : n = IF kv.failures < MAX_FEATURE_FAILURES THEN kv.failures + 1
                       ELSE kv.failures
      OBVIOUS
    <3>2. PICK b \in BOOLEAN : b = (kv.enabled /\ kv.failures + 1 < MAX_FEATURE_FAILURES)
      BY DEF TypeOK, Settings
    <3>3. n \in 0..MAX_FEATURE_FAILURES
      BY <3>1, NumbersType DEF TypeOK, Settings
    <3>4. kv' = [kv EXCEPT !.failures = n, !.enabled = b]
      BY <1>4, <3>1, <3>2 DEF Fail, TypeOK, Settings
    <3> QED
      BY <3>3, <3>4 DEF TypeOK, Settings
  <2>2. troubles' \in 0..MaxTroubles
    BY <1>4, TroubleType DEF Fail
  <2> QED
    BY <1>4, <2>1, <2>2, NoRunType DEF Fail, CutShort, Elsewhere, TypeOK
<1>5. CASE Crash
  <2>1. troubles' \in 0..MaxTroubles
    BY <1>5, TroubleType DEF Crash
  <2> QED
    BY <1>5, <2>1, NoRunType DEF Crash, CutShort, TypeOK
<1> QED
  BY <1>1, <1>2, <1>3, <1>4, <1>5

LEMMA StartNextType ==
  ASSUME TypeOK, NEW r \in Resources, StartNext(r)
  PROVE  TypeOK'
<1> DEFINE rest == [run EXCEPT !.todo = Tail(@)]
           charged == [rest EXCEPT !.left = @ - Size[r]]
<1>1. run.pc = "start" /\ run.todo # <<>> /\ run.rows \in Tables
  BY DEF StartNext, TypeOK
<1>2. rest \in RunStates /\ rest.pc = "start" /\ rest.rows = run.rows
        /\ rest.left = run.left /\ rest.bytes = run.bytes
  <2>1. run.todo \in Seq(Resources)
    BY DEF TypeOK, RunStates
  <2>2. PICK tail \in Seq(Resources) : tail = Tail(run.todo)
    <3>1. Tail(run.todo) \in Seq(Resources)
      BY <1>1, <2>1, HeadTailProperties
    <3> QED
      BY <3>1
  <2>3. rest = [run EXCEPT !.todo = tail]
    BY <2>2 DEF TypeOK, RunStates
  <2> QED
    BY <1>1, <2>3 DEF TypeOK, RunStates
<1>3. Size[r] \in Nat
  BY ResourcesAssumption
<1>4. ASSUME Fits(r)
      PROVE  charged \in RunStates /\ charged.pc = "start" /\ charged.rows = run.rows
               /\ charged.bytes = run.bytes
  <2>1. run.left - Size[r] \in Nat
    BY <1>3, <1>4 DEF Fits, TypeOK, RunStates
  <2> QED
    BY <1>2, <2>1 DEF RunStates
<1>5. PICK v : v = run.rows[r].avail
  OBVIOUS
<1>6. run.rows[r] \in Rows
  BY <1>1 DEF Tables
<1>7. CASE ~Fits(r)
  <2>1. run' = rest /\ UNCHANGED <<row, jobs, spent>>
    BY <1>7 DEF StartNext
  <2> QED
    BY <1>1, <1>2, <2>1 DEF StartNext, Elsewhere, TypeOK
<1>8. CASE Fits(r) /\ Live(<<r, v>>)
  <2>1. /\ run' = charged
        /\ ResourceFailure(r, run.rows[r].failures)
        /\ UNCHANGED <<jobs, spent>>
    BY <1>5, <1>8 DEF StartNext
  <2>2. row' \in Tables
    BY <1>6, <2>1, FailureType DEF Rows
  <2>3. run' \in RunStates /\ run'.rows \in Tables
    BY <1>1, <1>4, <1>8, <2>1
  <2> QED
    BY <2>1, <2>2, <2>3 DEF StartNext, Elsewhere, TypeOK
<1>9. CASE Fits(r) /\ ~Live(<<r, v>>)
  <2>1. /\ run' = [charged EXCEPT !.bytes = @ + Size[r]]
        /\ jobs' = [jobs EXCEPT ![r][v] = IF @ = "none" THEN "live" ELSE @]
        /\ spent' = IF jobs[r][v] = "none" THEN spent + Size[r] ELSE spent
        /\ row' = row
    BY <1>5, <1>9 DEF StartNext
  <2>2. run' \in RunStates /\ run'.rows \in Tables
    <3>1. PICK c \in RunStates : c = charged /\ c.rows = run.rows
      BY <1>4, <1>9
    <3>2. run' = [c EXCEPT !.bytes = @ + Size[r]]
      BY <2>1, <3>1
    <3> HIDE DEF charged, rest
    <3>3. c.bytes + Size[r] \in Nat
      BY <1>3 DEF RunStates
    <3>4. run' = [c EXCEPT !.bytes = c.bytes + Size[r]]
      BY <3>2 DEF RunStates
    <3> QED
      BY <1>1, <3>1, <3>3, <3>4 DEF RunStates
  <2>3. jobs' \in [Resources -> [Versions -> {"none", "live", "failed"}]]
    BY <2>1 DEF TypeOK
  <2>4. spent' \in Nat
    BY <1>3, <2>1 DEF TypeOK
  <2> QED
    BY <2>1, <2>2, <2>3, <2>4 DEF StartNext, Elsewhere, TypeOK
<1> QED
  BY <1>7, <1>8, <1>9

LEMMA DownloadsType ==
  ASSUME TypeOK, NEW r \in Resources, NEW v \in Versions,
         DownloadEnds(r, v) \/ Cancel(r, v) \/ Dismiss(r, v) \/ Publish(r, v)
  PROVE  TypeOK'
<1>1. CASE Complete(r, v)
  <2>1. row' \in Tables
    <3>1. row[r] \in Rows
      BY DEF TypeOK, Tables
    <3>2. PICK new : new = [row[r] EXCEPT !.version = v, !.failures = 0, !.disabled = FALSE]
      OBVIOUS
    <3>3. new \in Rows
      BY <3>1, <3>2, ZeroType DEF Rows
    <3>4. row' = [row EXCEPT ![r] = new]
      BY <1>1, <3>2 DEF Complete, TypeOK, Tables
    <3> QED
      BY <3>3, <3>4 DEF TypeOK, Tables
  <2>2. order' \in Seq(Resources)
    <3>1. PICK i \in DOMAIN order :
            order' = SubSeq(order, 1, i - 1) \o SubSeq(order, i + 1, Len(order)) \o <<r>>
      BY <1>1 DEF Complete
    <3>2. order \in Seq(Resources) /\ i \in 1..Len(order)
      BY DEF TypeOK
    <3>3. SubSeq(order, 1, i - 1) \in Seq(Resources)
            /\ SubSeq(order, i + 1, Len(order)) \in Seq(Resources)
      BY <3>2
    <3> QED
      BY <3>1, <3>3
  <2> QED
    BY <1>1, <2>1, <2>2 DEF Complete, Mostly, TypeOK, history
<1>2. CASE GiveUp(r, v)
  <2>1. row[r].failures \in 0..MAX_CONSECUTIVE_FAILURES
    BY DEF TypeOK, Tables, Rows
  <2>2. row' \in Tables
    BY <1>2, <2>1, FailureType DEF GiveUp
  <2> QED
    BY <1>2, <2>2 DEF GiveUp, Mostly, TypeOK, history
<1>3. CASE Cancel(r, v) \/ Dismiss(r, v)
  <2>1. jobs' = [jobs EXCEPT ![r][v] = "none"]
    BY <1>3 DEF Cancel, Dismiss
  <2>2. jobs' \in [Resources -> [Versions -> {"none", "live", "failed"}]]
    BY <2>1 DEF TypeOK
  <2>3. acts' \in 0..MaxActs
    BY <1>3, NumbersType DEF Cancel, Dismiss, TypeOK
  <2> QED
    BY <1>3, <2>2, <2>3 DEF Cancel, Dismiss, Mostly, TypeOK, history
<1>4. CASE Publish(r, v)
  BY <1>4 DEF Publish, Mostly, TypeOK, history
<1> QED
  BY <1>1, <1>2, <1>3, <1>4 DEF DownloadEnds

LEMMA SetEnabledType ==
  ASSUME TypeOK, NEW b \in BOOLEAN, SetEnabled(b)
  PROVE  TypeOK'
<1>1. kv' \in Settings
  <2>1. CASE b
    <3>1. kv' = [kv EXCEPT !.enabled = b, !.failures = 0]
      BY <2>1 DEF SetEnabled
    <3> QED
      BY <3>1, ZeroType DEF TypeOK, Settings
  <2>2. CASE ~b
    <3>1. kv' = [kv EXCEPT !.enabled = b]
      BY <2>2 DEF SetEnabled
    <3> QED
      BY <3>1 DEF TypeOK, Settings
  <2> QED
    BY <2>1, <2>2
<1>2. row' \in Tables
  <2>1. \A r \in Resources : [row[r] EXCEPT !.failures = 0, !.disabled = FALSE] \in Rows
    BY ZeroType DEF TypeOK, Tables, Rows
  <2> QED
    BY <2>1 DEF SetEnabled, TypeOK, Tables
<1>3. acts' \in 0..MaxActs
  <2>1. acts < MaxActs /\ acts' = acts + 1 /\ acts \in 0..MaxActs
    BY DEF SetEnabled, TypeOK
  <2> QED
    BY <2>1, NumbersType
<1> QED
  BY <1>1, <1>2, <1>3 DEF SetEnabled, Mostly, TypeOK, history

LEMMA NextType == TypeOK /\ [Next]_vars => TypeOK'
<1> SUFFICES ASSUME TypeOK, [Next]_vars
             PROVE  TypeOK'
  OBVIOUS
<1>1. CASE UNCHANGED vars
  BY <1>1 DEF TypeOK, vars
<1>2. CASE Next
  BY <1>2, TickType, ChecksType, RunType, StartNextType, DownloadsType, SetEnabledType
     DEF Next, RunNext
<1> QED
  BY <1>1, <1>2

(* Every variable keeps its type.                                          *)
THEOREM TypeCorrect == Spec => []TypeOK
  BY InitType, NextType, PTL DEF Spec

-----------------------------------------------------------------------------
(* The budget.                                                             *)

LEMMA BudgetInit == Init => BudgetCovers
<1> SUFFICES ASSUME Init
             PROVE  BudgetCovers
  OBVIOUS
<1>1. run.pc = "idle" /\ run.bytes = 0
  BY NoRunType DEF Init
<1> QED
  BY <1>1, NumbersType DEF Init, BudgetCovers, WindowReset

(* Steps that leave the budget, the window and the run's account alone.    *)
LEMMA BudgetFrame ==
  ASSUME BudgetCovers, hour' = hour, kv'.used = kv.used, kv'.reset = kv.reset,
         run'.bytes = run.bytes, run'.left = run.left, spent' = spent, lost' = lost,
         run'.pc = run.pc \/ (run.pc = "check" /\ run'.pc = "select")
  PROVE  BudgetCovers'
<1>1. WindowReset' <=> WindowReset
  BY DEF WindowReset, SinceOpen
<1> QED
  BY <1>1 DEF BudgetCovers

(* A run that ends leaves no account; what it started unaccounted is lost. *)
LEMMA BudgetCut ==
  ASSUME TypeOK, BudgetCovers, CutShort, hour' = hour, kv'.used = kv.used,
         kv'.reset = kv.reset, spent' = spent
  PROVE  BudgetCovers'
<1>1. WindowReset' <=> WindowReset
  BY DEF WindowReset, SinceOpen
<1>2. run'.pc = "idle" /\ run'.bytes = 0
  BY NoRunType DEF CutShort
<1>3. lost' \/ run.bytes = 0
  <2>1. run.bytes \in Nat
    BY DEF TypeOK, RunStates
  <2>2. CASE run.bytes > 0
    BY <2>2 DEF CutShort
  <2> QED
    BY <2>1, <2>2
<1>4. lost' \/ ~lost
  BY DEF CutShort
<1> QED
  BY <1>1, <1>2, <1>3, <1>4 DEF BudgetCovers, TypeOK, RunStates, Settings

LEMMA BudgetTick ==
  ASSUME TypeOK, BudgetCovers, Tick
  PROVE  BudgetCovers'
<1>1. PICK age : age = Fresh(kv.reset, Day)
  OBVIOUS
<1>2. kv'.reset = age /\ kv'.used = kv.used /\ kv.used \in Nat
  BY <1>1 DEF Tick, TypeOK, Settings
<1>3. /\ kv.reset = NoAge => age = NoAge
      /\ kv.reset # NoAge => kv.reset \in 0..Day
           /\ age = IF kv.reset = Day THEN kv.reset ELSE kv.reset + 1
  BY <1>1, FreshType, NumbersType DEF TypeOK, Settings
<1>4. NoAge \notin Nat
  BY ResourcesAssumption
<1>5. run' = run /\ run.pc = "idle" /\ run.bytes = 0 /\ lost' = lost
  BY DEF Tick, BudgetCovers
<1>6. hour \in 0..(Day - 1) /\ hour' = IF hour + 1 = Day THEN 0 ELSE hour + 1
  BY DEF TypeOK, Tick, Hours
<1>7. spent' = IF hour' = Start THEN 0 ELSE spent
  BY DEF Tick
<1>8. ASSUME hour' # Start
      PROVE  WindowReset' => WindowReset
  <2>1. SinceOpen' = SinceOpen + 1 /\ SinceOpen \in Nat /\ SinceOpen + 1 < Day
    BY <1>6, <1>8, NumbersType DEF SinceOpen
  <2>2. CASE kv.reset = NoAge
    BY <2>2 DEF WindowReset
  <2>3. CASE kv.reset # NoAge
    <3>1. age # NoAge /\ age \in Nat
      BY <1>3, <1>4, <2>3, NumbersType
    <3> QED
      BY <1>2, <1>3, <2>1, <2>3, <3>1, NumbersType DEF WindowReset
  <2> QED
    BY <2>2, <2>3
<1>9. lost' \/ spent' <= IF WindowReset' THEN 0 ELSE kv'.used + run'.bytes
  <2>1. CASE hour' = Start
    BY <1>2, <1>5, <1>7, <2>1
  <2>2. CASE hour' # Start
    BY <1>2, <1>5, <1>7, <1>8, <2>2 DEF BudgetCovers
  <2> QED
    BY <2>1, <2>2
<1> QED
  BY <1>2, <1>5, <1>9 DEF BudgetCovers

LEMMA BudgetAttempt ==
  ASSUME TypeOK, BudgetCovers, Attempt
  PROVE  BudgetCovers'
<1>1. CASE ~(kv.enabled /\ WithinWindow)
  BY <1>1, BudgetFrame DEF Attempt, Elsewhere
<1>2. CASE kv.enabled /\ WithinWindow
  <2>1. run'.pc = "check" /\ run'.bytes = 0 /\ run.pc = "idle" /\ run.bytes = 0
    BY <1>2 DEF Attempt, NoRun, BudgetCovers
  <2>2. hour' = hour /\ spent' = spent /\ lost' = lost
    BY DEF Attempt, Elsewhere
  <2>3. SinceOpen' = SinceOpen /\ SinceOpen \in Nat
    BY <2>2, NumbersType DEF SinceOpen, TypeOK, Hours
  <2>4. CASE WindowReset
    <3>1. kv'.used = 0 /\ kv'.reset = 0
      BY <1>2, <2>4 DEF Attempt, TypeOK, Settings
    <3>2. ~WindowReset'
      BY <2>3, <3>1, ResourcesAssumption DEF WindowReset
    <3> QED
      BY <2>1, <2>2, <2>4, <3>1, <3>2, NumbersType DEF BudgetCovers
  <2>5. CASE ~WindowReset
    <3>1. kv' = kv
      BY <1>2, <2>5 DEF Attempt
    <3>2. ~WindowReset'
      BY <2>3, <2>5, <3>1 DEF WindowReset
    <3> QED
      BY <2>1, <2>2, <2>5, <3>1, <3>2 DEF BudgetCovers
  <2> QED
    BY <2>4, <2>5
<1> QED
  BY <1>1, <1>2

LEMMA BudgetSelect ==
  ASSUME TypeOK, BudgetCovers, Select
  PROVE  BudgetCovers'
<1>1. hour' = hour /\ spent' = spent /\ lost' = lost
  BY DEF Select, Elsewhere
<1>2. run.pc = "select" /\ run.bytes = 0
  BY DEF Select, BudgetCovers
<1>3. kv'.used = kv.used /\ kv'.reset = kv.reset
  BY DEF Select, Clean, TypeOK, Settings
<1>4. WindowReset' <=> WindowReset
  BY <1>1, <1>3 DEF WindowReset, SinceOpen
<1>5. CASE run' = NoRun
  BY <1>1, <1>2, <1>3, <1>4, <1>5, NoRunType DEF BudgetCovers
<1>6. CASE run' = [run EXCEPT !.pc = "start",
                     !.left = IF kv.used < Cap THEN Cap - kv.used ELSE 0]
  <2>1. run'.pc = "start" /\ run'.bytes = 0
          /\ run'.left = IF kv.used < Cap THEN Cap - kv.used ELSE 0
    BY <1>2, <1>6 DEF TypeOK, RunStates
  <2>2. kv.used \in Nat /\ kv.used <= Cap
    BY DEF TypeOK, Settings, BudgetCovers
  <2>3. kv'.used + run'.bytes + run'.left <= Cap
    BY <1>3, <2>1, <2>2, NumbersType
  <2> QED
    BY <1>1, <1>2, <1>3, <1>4, <2>1, <2>3 DEF BudgetCovers
<1> QED
  BY <1>5, <1>6 DEF Select

(* What is started is taken from what is left.                             *)
LEMMA BudgetStart ==
  ASSUME TypeOK, BudgetCovers, NEW r \in Resources, StartNext(r)
  PROVE  BudgetCovers'
<1>1. hour' = hour /\ kv' = kv /\ lost' = lost /\ run.pc = "start"
  BY DEF StartNext, Elsewhere
<1>2. Size[r] \in Nat /\ run.left \in Nat /\ run.bytes \in Nat /\ kv.used \in Nat
        /\ spent \in Nat
  BY ResourcesAssumption DEF TypeOK, RunStates, Settings
<1>3. CASE ~Fits(r)
  <2>1. run' = [run EXCEPT !.todo = Tail(@)] /\ spent' = spent
    BY <1>3 DEF StartNext
  <2> QED
    BY <1>1, <2>1, BudgetFrame DEF TypeOK, RunStates
<1>4. CASE Fits(r)
  <2>1. Size[r] <= run.left
    BY <1>4 DEF Fits
  <2>2. WindowReset' <=> WindowReset
    BY <1>1 DEF WindowReset, SinceOpen
  <2>3. run'.pc = "start" /\ run'.left = run.left - Size[r]
    BY <1>1, <1>4 DEF StartNext, TypeOK, RunStates
  <2>4. \/ run'.bytes = run.bytes /\ spent' = spent
        \/ run'.bytes = run.bytes + Size[r] /\ spent' \in {spent, spent + Size[r]}
    BY <1>1, <1>4 DEF StartNext, TypeOK, RunStates
  <2> QED
    BY <1>1, <1>2, <2>1, <2>2, <2>3, <2>4, NumbersType DEF BudgetCovers
<1> QED
  BY <1>3, <1>4

LEMMA BudgetFinish ==
  ASSUME TypeOK, BudgetCovers, Finish
  PROVE  BudgetCovers'
<1>1. hour' = hour /\ spent' = spent /\ lost' = lost /\ run.pc = "start"
  BY DEF Finish, Elsewhere
<1>2. run'.pc = "idle" /\ run'.bytes = 0
  BY NoRunType DEF Finish
<1>3. kv'.used = kv.used + run.bytes /\ kv'.reset = kv.reset
  BY DEF Finish, TypeOK, Settings
<1>4. WindowReset' <=> WindowReset
  BY <1>1, <1>3 DEF WindowReset, SinceOpen
<1>5. run.left \in Nat /\ run.bytes \in Nat /\ kv.used \in Nat
  BY DEF TypeOK, RunStates, Settings
<1> QED
  BY <1>1, <1>2, <1>3, <1>4, <1>5, NumbersType DEF BudgetCovers

LEMMA BudgetNext == TypeOK /\ BudgetCovers /\ [Next]_vars => BudgetCovers'
<1> SUFFICES ASSUME TypeOK, BudgetCovers, [Next]_vars
             PROVE  BudgetCovers'
  OBVIOUS
<1>1. CASE UNCHANGED vars
  BY <1>1, BudgetFrame DEF vars
<1>2. CASE Check
  BY <1>2, BudgetFrame DEF Check, TypeOK, RunStates
<1>3. CASE ManualLoad \/ ManualReconcile
  BY <1>3, BudgetFrame DEF ManualLoad, ManualReconcile, history
<1>4. CASE Fail
  <2>1. kv'.used = kv.used /\ kv'.reset = kv.reset
    BY <1>4 DEF Fail, TypeOK, Settings
  <2> QED
    BY <1>4, <2>1, BudgetCut DEF Fail, Elsewhere
<1>5. CASE Crash
  BY <1>5, BudgetCut DEF Crash
<1>6. ASSUME NEW r \in Resources, NEW v \in Versions,
             DownloadEnds(r, v) \/ Cancel(r, v) \/ Dismiss(r, v) \/ Publish(r, v)
      PROVE  BudgetCovers'
  BY <1>6, BudgetFrame
     DEF DownloadEnds, Complete, GiveUp, Cancel, Dismiss, Publish, Mostly, history
<1>7. ASSUME NEW b \in BOOLEAN, SetEnabled(b)
      PROVE  BudgetCovers'
  <2>1. kv'.used = kv.used /\ kv'.reset = kv.reset
    BY <1>7 DEF SetEnabled, TypeOK, Settings
  <2> QED
    BY <1>7, <2>1, BudgetFrame DEF SetEnabled, Mostly, history
<1> QED
  BY <1>1, <1>2, <1>3, <1>4, <1>5, <1>6, <1>7, BudgetTick, BudgetAttempt, BudgetSelect,
     BudgetStart, BudgetFinish
     DEF Next, RunNext

LEMMA CoversKept == TypeOK /\ BudgetCovers => BudgetKept
  BY NumbersType DEF TypeOK, BudgetCovers, BudgetKept, Settings, RunStates

(* The downloads started in one window fit the cap, for any window and any *)
(* sizes, unless a run was cut short before it wrote down what it started. *)
THEOREM BudgetHolds == Spec => []BudgetKept
<1>1. Init => TypeOK /\ BudgetCovers
  BY InitType, BudgetInit
<1>2. TypeOK /\ BudgetCovers /\ [Next]_vars => (TypeOK /\ BudgetCovers)'
  BY NextType, BudgetNext
<1> QED
  BY <1>1, <1>2, CoversKept, PTL DEF Spec

-----------------------------------------------------------------------------
(* The cool-off.                                                           *)

LEMMA AnchorsInit == Init => AnchorsBacked
  BY NoRunType DEF Init, AnchorsBacked, Backed

(* Steps that leave the versions noted, their ages and the history alone.  *)
LEMMA AnchorsFrame ==
  ASSUME AnchorsBacked, seen' = seen,
         \A r \in Resources : row'[r].avail = row[r].avail /\ row'[r].age = row[r].age,
         run'.pc # "idle" =>
           \/ run.pc # "idle" /\ run'.rows = run.rows
           \/ run'.rows = row,
         manual' \in {manual, row, <<>>}
  PROVE  AnchorsBacked'
  BY DEF AnchorsBacked, Backed

LEMMA AnchorsTick ==
  ASSUME TypeOK, AnchorsBacked, Tick
  PROVE  AnchorsBacked'
<1>1. run'.pc = "idle" /\ manual' = <<>>
  BY DEF Tick
<1> SUFFICES ASSUME NEW r \in Resources, row'[r].avail # NoVersion
             PROVE  /\ row'[r].age \in Ages /\ seen'[r][row'[r].avail] \in Ages
                    /\ row'[r].age <= seen'[r][row'[r].avail]
  BY <1>1 DEF AnchorsBacked, Backed
<1>2. row[r] \in Rows
  BY DEF TypeOK, Tables
<1>3. row'[r].avail = row[r].avail /\ row'[r].age = Fresh(row[r].age, Cooloff)
  BY <1>2 DEF Tick, Rows
<1>4. PICK v : v = row[r].avail
  OBVIOUS
<1>5. v \in Versions
  BY <1>2, <1>3, <1>4 DEF Rows
<1>6. seen'[r][v] = Fresh(seen[r][v], Cooloff)
  BY <1>5 DEF Tick
<1>7. row[r].age \in Ages /\ seen[r][v] \in Ages /\ row[r].age <= seen[r][v]
  BY <1>3, <1>4 DEF AnchorsBacked, Backed
<1>8. \A age \in 0..Cooloff : Fresh(age, Cooloff) = IF age = Cooloff THEN age ELSE age + 1
  BY FreshType, NumbersType
<1> QED
  BY <1>3, <1>4, <1>6, <1>7, <1>8, NumbersType DEF Ages

(* A row noted, whenever it was loaded, is backed by what a check just     *)
(* wrote in the history.                                                   *)
LEMMA NotedBacked ==
  ASSUME TypeOK, NEW rows \in Tables, NEW failing \in SUBSET Resources,
         Reconcile(rows, failing), NEW r \in Resources, Backed(rows[r], r),
         NEW new, new = Noted(rows[r], Lookups(failing)[r])
  PROVE  new.avail # NoVersion =>
           new.age \in Ages /\ seen'[r][new.avail] \in Ages /\ new.age <= seen'[r][new.avail]
<1>1. PICK latest \in Versions \cup {NoVersion} : latest = Lookups(failing)[r]
  BY LookupsType
<1>2. rows[r] \in Rows
  BY DEF Tables
<1>3. PICK s \in Rows : s = rows[r]
  BY <1>2
<1>4. \A v \in Versions :
        seen'[r][v] = IF latest # NoVersion /\ latest > s.version /\ v = latest
                         /\ seen[r][v] = NoAge
                      THEN 0 ELSE seen[r][v]
  BY <1>1, <1>3 DEF Reconcile
<1>5. \A v \in Versions : seen[r][v] \in Ages \cup {NoAge}
  BY DEF TypeOK
<1>6. \A age \in Ages : 0 <= age
  BY NumbersType DEF Ages
<1>7. 0 \in Ages /\ NoAge \notin Ages
  BY NumbersType, ResourcesAssumption DEF Ages
<1>8. CASE latest # NoVersion /\ latest > s.version
  <2>1. latest \in Versions /\ seen'[r][latest] \in Ages
    BY <1>4, <1>5, <1>7, <1>8
  <2>2. CASE s.avail = latest
    <3>1. new = s
      BY <1>1, <1>3, <1>8, <2>2 DEF Noted
    <3>2. s.age \in Ages /\ seen[r][latest] \in Ages /\ s.age <= seen[r][latest]
      BY <1>3, <1>8, <2>2 DEF Backed
    <3>3. seen'[r][latest] = seen[r][latest]
      BY <1>4, <1>7, <2>1, <3>2
    <3> QED
      BY <2>2, <3>1, <3>2, <3>3
  <2>3. CASE s.avail # latest
    <3>1. new = [s EXCEPT !.avail = latest, !.age = 0]
      BY <1>1, <1>3, <1>8, <2>3 DEF Noted
    <3>2. new.avail = latest /\ new.age = 0
      BY <3>1 DEF Rows
    <3> QED
      BY <1>6, <1>7, <2>1, <3>2
  <2> QED
    BY <2>2, <2>3
<1>9. CASE ~(latest # NoVersion /\ latest > s.version)
  <2>1. new.avail = NoVersion
    BY <1>1, <1>3, <1>9 DEF Noted, Rows
  <2> QED
    BY <2>1
<1> QED
  BY <1>8, <1>9

(* The history of a check only grows: what was backed stays so.            *)
LEMMA StaysBacked ==
  ASSUME TypeOK, NEW rows \in Tables, NEW failing \in SUBSET Resources,
         Reconcile(rows, failing), NEW r \in Resources, NEW s \in Rows, Backed(s, r)
  PROVE  s.avail # NoVersion =>
           s.age \in Ages /\ seen'[r][s.avail] \in Ages /\ s.age <= seen'[r][s.avail]
<1>1. NoAge \notin Ages
  BY ResourcesAssumption, NumbersType DEF Ages
<1>2. \A v \in Versions : seen[r][v] # NoAge => seen'[r][v] = seen[r][v]
  BY DEF Reconcile
<1> QED
  BY <1>1, <1>2 DEF Backed, Rows

(* A save writes what was noted, or leaves the row as it is.               *)
LEMMA ReconcileBacked ==
  ASSUME TypeOK, NEW rows \in Tables, NEW failing \in SUBSET Resources,
         Reconcile(rows, failing), NEW r \in Resources, Backed(rows[r], r),
         Backed(row[r], r)
  PROVE  Backed(row[r], r)'
<1>1. PICK new : new = Noted(rows[r], Lookups(failing)[r])
  OBVIOUS
<1>2. new \in Rows /\ row[r] \in Rows
  BY <1>1, NotedType, LookupsType DEF TypeOK, Tables
<1>3. row'[r] = Saved(r, rows[r], new)
  BY <1>1 DEF Reconcile
<1>4. CASE row'[r] = row[r]
  BY <1>2, <1>4, StaysBacked DEF Backed
<1>5. CASE row'[r] = [row[r] EXCEPT !.avail = new.avail, !.age = new.age]
  <2>1. row'[r].avail = new.avail /\ row'[r].age = new.age
    BY <1>2, <1>5 DEF Rows
  <2>2. new.avail # NoVersion =>
          new.age \in Ages /\ seen'[r][new.avail] \in Ages /\ new.age <= seen'[r][new.avail]
    BY <1>1, NotedBacked
  <2> QED
    BY <2>1, <2>2 DEF Backed
<1> QED
  BY <1>3, <1>4, <1>5 DEF Saved

LEMMA AnchorsManual ==
  ASSUME TypeOK, AnchorsBacked, ManualReconcile
  PROVE  AnchorsBacked'
<1>1. PICK failing \in SUBSET Resources : Reconcile(manual, failing)
  BY DEF ManualReconcile
<1>2. manual # <<>> /\ manual' = <<>> /\ manual \in Tables /\ run' = run
  BY DEF ManualReconcile, TypeOK
<1> SUFFICES ASSUME NEW r \in Resources
             PROVE  /\ Backed(row[r], r)'
                    /\ run'.pc # "idle" => Backed(run.rows[r], r)'
  BY <1>2 DEF AnchorsBacked
<1>3. Backed(row[r], r)'
  BY <1>1, <1>2, ReconcileBacked DEF AnchorsBacked
<1>4. ASSUME run'.pc # "idle"
      PROVE  Backed(run.rows[r], r)'
  <2>1. run.rows[r] \in Rows /\ Backed(run.rows[r], r)
    BY <1>2, <1>4 DEF TypeOK, Tables, AnchorsBacked
  <2> QED
    BY <1>1, <1>2, <2>1, StaysBacked DEF Backed
<1> QED
  BY <1>3, <1>4

LEMMA AnchorsCheck ==
  ASSUME TypeOK, AnchorsBacked, Check
  PROVE  AnchorsBacked'
<1>1. PICK failing \in SUBSET Resources :
        /\ Reconcile(run.rows, failing)
        /\ run' = [run EXCEPT !.pc = "select", !.rows =
                     [r \in Resources |-> Noted(@[r], Lookups(failing)[r])]]
  BY DEF Check
<1>2. run.pc = "check" /\ run.rows \in Tables /\ manual' = manual
  BY DEF Check, TypeOK
<1>3. \A r \in Resources : run'.rows[r] = Noted(run.rows[r], Lookups(failing)[r])
  BY <1>1 DEF TypeOK, RunStates
<1> SUFFICES ASSUME NEW r \in Resources
             PROVE  /\ Backed(row[r], r)'
                    /\ Backed(run.rows[r], r)'
                    /\ manual' # <<>> => Backed(manual[r], r)'
  BY DEF AnchorsBacked
<1>4. Backed(run.rows[r], r)
  BY <1>2 DEF AnchorsBacked
<1>5. Backed(row[r], r)'
  BY <1>1, <1>2, <1>4, ReconcileBacked DEF AnchorsBacked
<1>6. Backed(run.rows[r], r)'
  <2>1. PICK new : new = Noted(run.rows[r], Lookups(failing)[r])
    OBVIOUS
  <2>2. new.avail # NoVersion =>
          new.age \in Ages /\ seen'[r][new.avail] \in Ages /\ new.age <= seen'[r][new.avail]
    BY <1>1, <1>2, <1>4, <2>1, NotedBacked
  <2> QED
    BY <1>3, <2>1, <2>2 DEF Backed
<1>7. ASSUME manual' # <<>>
      PROVE  Backed(manual[r], r)'
  <2>1. manual[r] \in Rows /\ Backed(manual[r], r)
    BY <1>2, <1>7 DEF TypeOK, Tables, AnchorsBacked
  <2> QED
    BY <1>1, <1>2, <2>1, StaysBacked DEF Backed
<1> QED
  BY <1>5, <1>6, <1>7

(* Failures and completions do not touch what is available.                *)
LEMMA KeepsAnchors ==
  ASSUME TypeOK, NEW q \in Resources, NEW n,
         \/ ResourceFailure(q, n)
         \/ \E v : Complete(q, v)
         \/ \E b \in BOOLEAN : SetEnabled(b)
  PROVE  \A r \in Resources : row'[r].avail = row[r].avail /\ row'[r].age = row[r].age
<1> SUFFICES ASSUME NEW r \in Resources
             PROVE  row'[r].avail = row[r].avail /\ row'[r].age = row[r].age
  OBVIOUS
<1>1. row \in Tables /\ row[r] \in Rows /\ row[q] \in Rows
  BY DEF TypeOK, Tables
<1>2. CASE ResourceFailure(q, n)
  <2>1. PICK more : row' = [row EXCEPT ![q].failures = more,
                              ![q].disabled = @ \/ more = MAX_CONSECUTIVE_FAILURES]
    BY <1>2 DEF ResourceFailure
  <2> QED
    BY <1>1, <2>1 DEF Tables, Rows
<1>3. CASE \E v : Complete(q, v)
  <2>1. PICK v : row' = [row EXCEPT ![q] = [row[q] EXCEPT !.version = v, !.failures = 0,
                                                         !.disabled = FALSE]]
    BY <1>1, <1>3 DEF Complete, Tables
  <2>2. PICK new : new = [row[q] EXCEPT !.version = v, !.failures = 0, !.disabled = FALSE]
    OBVIOUS
  <2>3. new.avail = row[q].avail /\ new.age = row[q].age
    BY <1>1, <2>2 DEF Rows
  <2>4. row' = [row EXCEPT ![q] = new]
    BY <2>1, <2>2
  <2> QED
    BY <1>1, <2>3, <2>4 DEF Tables
<1>4. CASE \E b \in BOOLEAN : SetEnabled(b)
  <2>1. \/ row' = row
        \/ row'[r] = [row[r] EXCEPT !.failures = 0, !.disabled = FALSE]
    BY <1>4 DEF SetEnabled
  <2> QED
    BY <1>1, <2>1 DEF Rows
<1> QED
  BY <1>2, <1>3, <1>4

LEMMA AnchorsNext == TypeOK /\ AnchorsBacked /\ [Next]_vars => AnchorsBacked'
<1> SUFFICES ASSUME TypeOK, AnchorsBacked, [Next]_vars
             PROVE  AnchorsBacked'
  OBVIOUS
<1>1. CASE UNCHANGED vars
  BY <1>1, AnchorsFrame DEF vars
<1>2. CASE ManualLoad
  BY <1>2, AnchorsFrame DEF ManualLoad, history
<1>3. CASE Attempt
  <2>1. run'.pc # "idle" => run'.rows = row
    BY <1>3 DEF Attempt, NoRun
  <2> QED
    BY <1>3, <2>1, AnchorsFrame DEF Attempt, Elsewhere
<1>4. CASE Select
  <2>1. run.pc # "idle" /\ (run'.pc # "idle" => run'.rows = run.rows)
    <3>1. CASE run' = NoRun
      BY <1>4, <3>1, NoRunType DEF Select
    <3>2. CASE run' # NoRun
      <4>1. PICK left : run' = [run EXCEPT !.pc = "start", !.left = left]
        BY <1>4, <3>2 DEF Select
      <4> QED
        BY <1>4, <4>1 DEF Select, TypeOK, RunStates
    <3> QED
      BY <3>1, <3>2
  <2> QED
    BY <1>4, <2>1, AnchorsFrame DEF Select, Elsewhere
<1>5. CASE Finish
  BY <1>5, NoRunType, AnchorsFrame DEF Finish, Elsewhere
<1>6. CASE Fail
  BY <1>6, NoRunType, AnchorsFrame DEF Fail, CutShort, Elsewhere
<1>7. CASE Crash
  BY <1>7, NoRunType, AnchorsFrame DEF Crash, CutShort
<1>8. ASSUME NEW r \in Resources, StartNext(r)
      PROVE  AnchorsBacked'
  <2>1. run.pc # "idle" /\ run'.rows = run.rows
    BY <1>8 DEF StartNext, TypeOK, RunStates
  <2>2. \A q \in Resources : row'[q].avail = row[q].avail /\ row'[q].age = row[q].age
    BY <1>8, KeepsAnchors DEF StartNext
  <2> QED
    BY <1>8, <2>1, <2>2, AnchorsFrame DEF StartNext, Elsewhere
<1>9. ASSUME NEW r \in Resources, NEW v \in Versions,
             DownloadEnds(r, v) \/ Cancel(r, v) \/ Dismiss(r, v) \/ Publish(r, v)
      PROVE  AnchorsBacked'
  <2>1. \A q \in Resources : row'[q].avail = row[q].avail /\ row'[q].age = row[q].age
    BY <1>9, KeepsAnchors DEF DownloadEnds, GiveUp, Cancel, Dismiss, Publish
  <2>2. seen' = seen /\ run' = run /\ manual' = manual
    BY <1>9 DEF DownloadEnds, Complete, GiveUp, Cancel, Dismiss, Publish, Mostly, history
  <2> QED
    BY <2>1, <2>2, AnchorsFrame
<1>10. ASSUME NEW b \in BOOLEAN, SetEnabled(b)
       PROVE  AnchorsBacked'
  <2>1. \A q \in Resources : row'[q].avail = row[q].avail /\ row'[q].age = row[q].age
    BY <1>10, KeepsAnchors
  <2> QED
    BY <1>10, <2>1, AnchorsFrame DEF SetEnabled, Mostly, history
<1> QED
  BY <1>1, <1>2, <1>3, <1>4, <1>5, <1>6, <1>7, <1>8, <1>9, <1>10, AnchorsTick,
     AnchorsManual, AnchorsCheck
     DEF Next, RunNext

LEMMA BackedHonest == TypeOK /\ AnchorsBacked => AnchorHonest
<1> SUFFICES ASSUME TypeOK, AnchorsBacked, run.pc = "start",
                    NEW r \in Resources, Eligible(run.rows[r])
             PROVE  seen[r][run.rows[r].avail] = Cooloff
  BY DEF AnchorHonest
<1>1. Backed(run.rows[r], r)
  BY DEF AnchorsBacked
<1> QED
  BY <1>1, NumbersType DEF Backed, Eligible, Ages

(* Nothing is started before its cool-off is over, whatever manual checks, *)
(* failing lookups and saves of older rows did in between.                 *)
THEOREM CoolOffHolds == Spec => []AnchorHonest
<1>1. Init => TypeOK /\ AnchorsBacked
  BY InitType, AnchorsInit
<1>2. TypeOK /\ AnchorsBacked /\ [Next]_vars => (TypeOK /\ AnchorsBacked)'
  BY NextType, AnchorsNext
<1> QED
  BY <1>1, <1>2, BackedHonest, PTL DEF Spec

-----------------------------------------------------------------------------
(* The anchors.                                                            *)

(* What a row says is available is as the check in progress loaded it, or  *)
(* was noted, or dismissed, since: no hour passes during a check.          *)
Beside(s, r) ==
  \/ row[r].avail = NoVersion
  \/ row[r].age = 0
  \/ row[r].avail = s.avail /\ row[r].age = s.age

ChecksBeside ==
  \A r \in Resources :
    /\ run.pc = "check" => Beside(run.rows[r], r)
    /\ manual # <<>> => Beside(manual[r], r)

LEMMA BesideInit == Init => ChecksBeside
  BY NoRunType DEF Init, ChecksBeside

LEMMA BesideFrame ==
  ASSUME ChecksBeside,
         \A r \in Resources : row'[r].avail = row[r].avail /\ row'[r].age = row[r].age,
         run'.pc = "check" =>
           \/ run.pc = "check" /\ run'.rows = run.rows
           \/ run'.rows = row,
         manual' \in {manual, row, <<>>}
  PROVE  ChecksBeside'
  BY DEF ChecksBeside, Beside

(* What a check saves: nothing, or what it has just noted or dismissed.    *)
LEMMA SavedFresh ==
  ASSUME TypeOK, NEW rows \in Tables, NEW failing \in SUBSET Resources,
         Reconcile(rows, failing), NEW r \in Resources
  PROVE  row'[r] = row[r] \/ row'[r].avail = NoVersion \/ row'[r].age = 0
<1>1. PICK latest : latest = Lookups(failing)[r]
  OBVIOUS
<1>2. PICK s \in Rows : s = rows[r]
  BY DEF Tables
<1>3. row[r] \in Rows
  BY DEF TypeOK, Tables
<1>4. PICK new : new = Noted(s, latest)
  OBVIOUS
<1>5. row'[r] = Saved(r, s, new)
  BY <1>1, <1>2, <1>4 DEF Reconcile
<1>6. CASE new = s
  BY <1>5, <1>6 DEF Saved
<1>7. CASE new = [s EXCEPT !.avail = latest, !.age = 0]
  <2>1. new.age = 0
    BY <1>7 DEF Rows
  <2> QED
    BY <1>3, <1>5, <2>1 DEF Saved, Rows
<1>8. CASE new = [s EXCEPT !.avail = NoVersion, !.age = NoAge]
  <2>1. new.avail = NoVersion
    BY <1>8 DEF Rows
  <2> QED
    BY <1>3, <1>5, <2>1 DEF Saved, Rows
<1> QED
  BY <1>4, <1>6, <1>7, <1>8 DEF Noted

LEMMA BesideChecks ==
  ASSUME TypeOK, ChecksBeside, ManualReconcile \/ Check
  PROVE  ChecksBeside'
<1>1. PICK rows \in Tables, failing \in SUBSET Resources : Reconcile(rows, failing)
  BY DEF ManualReconcile, Check, TypeOK
<1>2. \A r \in Resources :
        row'[r] = row[r] \/ row'[r].avail = NoVersion \/ row'[r].age = 0
  BY <1>1, SavedFresh
<1>3. manual' \in {manual, <<>>}
  BY DEF ManualReconcile, Check
<1>4. run'.pc = "check" => run' = run
  BY DEF ManualReconcile, Check, TypeOK, RunStates
<1> QED
  BY <1>2, <1>3, <1>4 DEF ChecksBeside, Beside

LEMMA BesideNext == TypeOK /\ ChecksBeside /\ [Next]_vars => ChecksBeside'
<1> SUFFICES ASSUME TypeOK, ChecksBeside, [Next]_vars
             PROVE  ChecksBeside'
  OBVIOUS
<1>1. CASE UNCHANGED vars
  BY <1>1, BesideFrame DEF vars
<1>2. CASE Tick
  BY <1>2 DEF Tick, ChecksBeside
<1>3. CASE ManualLoad
  BY <1>3, BesideFrame DEF ManualLoad, history
<1>4. CASE Attempt
  <2>1. run'.pc = "check" => run'.rows = row
    BY <1>4 DEF Attempt, NoRun
  <2> QED
    BY <1>4, <2>1, BesideFrame DEF Attempt, Elsewhere
<1>5. CASE Select
  <2>1. run'.pc # "check"
    BY <1>5, NoRunType DEF Select, NoRun, TypeOK, RunStates
  <2> QED
    BY <1>5, <2>1, BesideFrame DEF Select, Elsewhere
<1>6. CASE Finish \/ Fail \/ Crash
  <2>1. run'.pc # "check"
    BY <1>6, NoRunType DEF Finish, Fail, Crash, CutShort
  <2>2. row' = row /\ manual' \in {manual, <<>>}
    BY <1>6 DEF Finish, Fail, Crash, Elsewhere
  <2> QED
    BY <2>1, <2>2, BesideFrame
<1>7. ASSUME NEW r \in Resources, StartNext(r)
      PROVE  ChecksBeside'
  <2>1. run'.pc # "check" /\ manual' = manual
    BY <1>7 DEF StartNext, Elsewhere, TypeOK, RunStates
  <2>2. \A q \in Resources : row'[q].avail = row[q].avail /\ row'[q].age = row[q].age
    BY <1>7, KeepsAnchors DEF StartNext
  <2> QED
    BY <2>1, <2>2, BesideFrame
<1>8. ASSUME NEW r \in Resources, NEW v \in Versions,
             DownloadEnds(r, v) \/ Cancel(r, v) \/ Dismiss(r, v) \/ Publish(r, v)
      PROVE  ChecksBeside'
  <2>1. \A q \in Resources : row'[q].avail = row[q].avail /\ row'[q].age = row[q].age
    BY <1>8, KeepsAnchors DEF DownloadEnds, GiveUp, Cancel, Dismiss, Publish
  <2>2. run' = run /\ manual' = manual
    BY <1>8 DEF DownloadEnds, Complete, GiveUp, Cancel, Dismiss, Publish, Mostly
  <2> QED
    BY <2>1, <2>2, BesideFrame
<1>9. ASSUME NEW b \in BOOLEAN, SetEnabled(b)
      PROVE  ChecksBeside'
  <2>1. \A q \in Resources : row'[q].avail = row[q].avail /\ row'[q].age = row[q].age
    BY <1>9, KeepsAnchors
  <2> QED
    BY <1>9, <2>1, BesideFrame DEF SetEnabled, Mostly
<1> QED
  BY <1>1, <1>2, <1>3, <1>4, <1>5, <1>6, <1>7, <1>8, <1>9, BesideChecks
     DEF Next, RunNext

(* A check without a failing lookup, of a row that has not gone back since *)
(* it was loaded.                                                          *)
LEMMA GoodReconcile ==
  ASSUME TypeOK, NEW rows \in Tables, Reconcile(rows, {}), NEW r \in Resources,
         Anchored(r), Beside(rows[r], r), ~(rows[r].version > row[r].version)
  PROVE  row'[r].age = row[r].age
<1>1. PICK s \in Rows : s = rows[r]
  BY DEF Tables
<1>2. PICK v \in Versions : v = catalog[r]
  BY DEF TypeOK
<1>3. row[r] \in Rows /\ row[r].avail = v /\ v > row[r].version /\ v # NoVersion
  BY <1>2, ResourcesAssumption DEF TypeOK, Tables, Anchored
<1>4. row[r].version \in Nat /\ s.version \in Nat /\ v \in Nat
  BY <1>3, ResourcesAssumption DEF Rows
<1>5. v > s.version
  BY <1>1, <1>3, <1>4
<1>6. Lookups({})[r] = v
  BY <1>2 DEF Lookups
<1>7. PICK new : new = Noted(s, v)
  OBVIOUS
<1>8. row'[r] = Saved(r, s, new)
  BY <1>1, <1>6, <1>7 DEF Reconcile
<1>9. CASE s.avail = v
  <2>1. new = s
    BY <1>3, <1>5, <1>7, <1>9 DEF Noted
  <2> QED
    BY <1>8, <2>1 DEF Saved
<1>10. CASE s.avail # v
  <2>1. new = [s EXCEPT !.avail = v, !.age = 0]
    BY <1>3, <1>5, <1>7, <1>10 DEF Noted
  <2>2. new.avail = v /\ new.age = 0
    BY <2>1 DEF Rows
  <2>3. row'[r] = [row[r] EXCEPT !.avail = new.avail, !.age = new.age]
    BY <1>8, <1>10, <2>2 DEF Saved
  <2>4. row[r].age = 0
    BY <1>1, <1>3, <1>10 DEF Beside
  <2> QED
    BY <1>3, <2>2, <2>3, <2>4 DEF Rows
<1> QED
  BY <1>9, <1>10

LEMMA NoTrouble ==
  ASSUME TypeOK, NEW happens \in BOOLEAN, Trouble(happens), troubles' = troubles
  PROVE  ~happens
  BY NumbersType DEF Trouble, TypeOK

LEMMA AnchorKept ==
  ASSUME TypeOK, ChecksBeside, Next, NEW r \in Resources, Anchored(r), ~WentBack(r),
         manual' # manual \/ run' # run, troubles' = troubles
  PROVE  row'[r].age = row[r].age
<1>1. CASE ManualReconcile
  <2>1. PICK failing \in SUBSET Resources :
          Trouble(failing # {}) /\ Reconcile(manual, failing)
    BY <1>1 DEF ManualReconcile
  <2>2. failing = {}
    BY <2>1, NoTrouble
  <2>3. manual # <<>> /\ manual \in Tables
    BY <1>1 DEF ManualReconcile, TypeOK
  <2>4. Beside(manual[r], r) /\ ~(manual[r].version > row[r].version)
    BY <2>3 DEF ChecksBeside, WentBack
  <2> QED
    BY <2>1, <2>2, <2>3, <2>4, GoodReconcile
<1>2. CASE Check
  <2>1. PICK failing \in SUBSET Resources :
          Trouble(failing # {}) /\ Reconcile(run.rows, failing)
    BY <1>2 DEF Check
  <2>2. failing = {}
    BY <2>1, NoTrouble
  <2>3. run.pc = "check" /\ run.rows \in Tables
    BY <1>2 DEF Check, TypeOK
  <2>4. run.rows # <<>>
    BY <2>3 DEF Tables
  <2>5. Beside(run.rows[r], r) /\ ~(run.rows[r].version > row[r].version)
    BY <2>3, <2>4 DEF ChecksBeside, WentBack
  <2> QED
    BY <2>1, <2>2, <2>3, <2>5, GoodReconcile
<1>3. CASE Tick
  BY <1>3 DEF Tick
<1>4. CASE Attempt \/ Select \/ Finish \/ Fail \/ Crash \/ ManualLoad
  BY <1>4 DEF Attempt, Select, Finish, Fail, Crash, ManualLoad
<1>5. ASSUME NEW q \in Resources, StartNext(q)
      PROVE  row'[r].age = row[r].age
  BY <1>5, KeepsAnchors DEF StartNext
<1>6. ASSUME NEW q \in Resources, NEW v \in Versions,
             DownloadEnds(q, v) \/ Cancel(q, v) \/ Dismiss(q, v) \/ Publish(q, v)
      PROVE  FALSE
  BY <1>6 DEF DownloadEnds, Complete, GiveUp, Cancel, Dismiss, Publish, Mostly
<1>7. ASSUME NEW b \in BOOLEAN, SetEnabled(b)
      PROVE  FALSE
  BY <1>7 DEF SetEnabled, Mostly
<1> QED
  BY <1>1, <1>2, <1>3, <1>4, <1>5, <1>6, <1>7 DEF Next, RunNext

(* A check whose lookups went well never moves the anchor of an update     *)
(* that waits, whatever another check saved since it loaded the rows,      *)
(* unless a late download took the row back to an older version.           *)
THEOREM GoodChecksKeepAnchors == Spec => GoodCheckKeepsAnchor
<1>1. Init => TypeOK /\ ChecksBeside
  BY InitType, BesideInit
<1>2. TypeOK /\ ChecksBeside /\ [Next]_vars => (TypeOK /\ ChecksBeside)'
  BY NextType, BesideNext
<1>3. TypeOK /\ ChecksBeside /\ [Next]_vars =>
        [\A r \in Resources :
           Anchored(r) /\ ~WentBack(r) /\ (manual' # manual \/ run' # run)
             => troubles' # troubles \/ row'[r].age = row[r].age]_vars
  BY AnchorKept
<1> QED
  BY <1>1, <1>2, <1>3, PTL DEF Spec, GoodCheckKeepsAnchor
=============================================================================
