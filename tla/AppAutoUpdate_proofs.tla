------------------------ MODULE AppAutoUpdate_proofs ------------------------
(* Proofs about AppAutoUpdate, for every value of its constants: the types, *)
(* the marks, the counted failures and the cool-off.                       *)
EXTENDS AppAutoUpdate, TLAPS

-----------------------------------------------------------------------------
(* The strengthenings.                                                     *)

Working == {"begin", "refused", "mark", "work", "updated", "failed"}

(* The steps of an update after its checks.                                *)
Works(p) == Mark(p) \/ UpdateSucceeds(p) \/ UpdateFails(p) \/ Refused(p)

(* What a process is at work on is an app; a run's is one of those it has  *)
(* still to do; a user's ends with the update.                             *)
Placed(p, q) ==
  /\ q.pc \in Working => q.app \in Apps /\ q.target \in Versions
  /\ q.pc \in Working /\ p \in Runs => q.app \in DOMAIN q.todo
  /\ q.pc \in {"mark", "work"} => q.image \in Versions
  /\ q.pc \in {"next", "updated", "failed"} => p \in Runs

Base ==
  /\ TypeOK
  /\ \A p \in Updaters : Placed(p, proc[p])
  /\ \A a \in Apps : row[a].failures = MAX_CONSECUTIVE_FAILURES => row[a].disabled

(* What a run counted, or is about to count, did happen.                   *)
Owed(q, counts) ==
  /\ \A a \in DOMAIN q.todo : q.todo[a].failures <= counts[a]
  /\ q.pc = "failed" => q.todo[q.app].failures + 1 <= counts[q.app]

Counts == NotDisabledEarly /\ \A r \in Runs : Owed(proc[r], strikes)

(* A run's targets have been known long enough.                            *)
Ripe(q, ages) == \A a \in DOMAIN q.todo : ages[a][q.todo[a].target] = Cooloff

(* A version noted on a row was first found as long ago as the row says.   *)
Anchored ==
  \A a \in Apps :
    row[a].avail # NoVersion /\ row[a].age # NoAge =>
      /\ known[a][row[a].avail] \in Ages
      /\ row[a].age <= known[a][row[a].avail]

-----------------------------------------------------------------------------
(* Helpers of the model.                                                   *)

LEMMA NumbersType ==
  /\ Cooloff \in Nat /\ Day \in Nat /\ Day > 0
  /\ MaxActs \in Nat /\ MAX_CONSECUTIVE_FAILURES \in Nat /\ MAX_CONSECUTIVE_FAILURES > 0
  /\ NoAge \notin Ages /\ 0 \in Ages /\ Cooloff \in Ages
  /\ 0 \in 0..MAX_CONSECUTIVE_FAILURES /\ 0 \in 0..(Day - 1) /\ 0 \in 0..MaxActs
  BY NumbersAssumption DEF Ages

LEMMA FreshType ==
  ASSUME NEW age \in Ages \cup {NoAge}
  PROVE  /\ Fresh(age) \in Ages \cup {NoAge}
         /\ Fresh(age) = NoAge <=> age = NoAge
         /\ age # NoAge => Fresh(age) \in Ages /\ age <= Fresh(age)
         /\ age = Cooloff => Fresh(age) = Cooloff
         /\ \A other \in Ages : age # NoAge /\ age <= other => Fresh(age) <= Fresh(other)
  BY NumbersType DEF Fresh, Ages

(* Functions of some of the apps.                                          *)
LEMMA ForSomeType ==
  ASSUME NEW S, NEW f
  PROVE  f \in ForSome(S) <=> f \in [DOMAIN f -> S] /\ DOMAIN f \subseteq Apps
<1>1. ASSUME f \in ForSome(S)
      PROVE  f \in [DOMAIN f -> S] /\ DOMAIN f \subseteq Apps
  <2>1. PICK A \in SUBSET Apps : f \in [A -> S]
    BY <1>1 DEF ForSome
  <2> QED
    BY <2>1
<1>2. ASSUME f \in [DOMAIN f -> S], DOMAIN f \subseteq Apps
      PROVE  f \in ForSome(S)
  BY <1>2 DEF ForSome
<1> QED
  BY <1>1, <1>2

LEMMA WithoutType ==
  ASSUME NEW S, NEW f \in ForSome(S), NEW a
  PROVE  /\ Without(f, a) \in ForSome(S)
         /\ DOMAIN Without(f, a) = DOMAIN f \ {a}
         /\ \A b \in DOMAIN f \ {a} : Without(f, a)[b] = f[b]
<1>1. f \in [DOMAIN f -> S] /\ DOMAIN f \subseteq Apps
  BY ForSomeType
<1>2. Without(f, a) \in [DOMAIN f \ {a} -> S]
  BY <1>1 DEF Without
<1>3. DOMAIN Without(f, a) = DOMAIN f \ {a}
  BY DEF Without
<1>4. Without(f, a) \in ForSome(S)
  BY <1>1, <1>2, <1>3, ForSomeType
<1> QED
  BY <1>3, <1>4 DEF Without

LEMMA ActType == Base /\ Act => acts' \in 0..MaxActs
<1> SUFFICES ASSUME Base, Act PROVE acts' \in 0..MaxActs
  OBVIOUS
<1>1. acts \in 0..MaxActs /\ acts < MaxActs /\ acts' = acts + 1
  BY DEF Base, TypeOK, Act
<1> QED
  BY <1>1, NumbersType

(* A row before its first check.                                           *)
LEMMA FirstRowType ==
  ASSUME NEW v \in Versions, NEW status \in {"idle", "installing"}
  PROVE  [installed |-> TRUE, enabled |-> TRUE, image |-> v, status |-> status,
          avail |-> NoVersion, age |-> NoAge, failures |-> 0, disabled |-> FALSE] \in Rows
  BY NumbersType DEF Rows

LEMMA BackoffClears ==
  ASSUME NEW s \in Rows
  PROVE  [s EXCEPT !.failures = 0, !.disabled = FALSE] \in Rows
<1>1. 0 \in 0..MAX_CONSECUTIVE_FAILURES
  BY NumbersType
<1> QED
  BY <1>1 DEF Rows

LEMMA EmptyType ==
  ASSUME NEW S
  PROVE  <<>> \in ForSome(S) /\ DOMAIN <<>> = {}
<1>1. DOMAIN <<>> = {} /\ <<>> \in [{} -> S]
  OBVIOUS
<1> QED
  BY <1>1, ForSomeType

LEMMA NoProcType ==
  /\ NoProc \in Procs /\ NoProc.pc = "idle" /\ NoProc.todo = <<>>
  /\ \A p \in Updaters : Placed(p, NoProc)
  BY EmptyType DEF NoProc, Procs, Pcs, Placed, Working

LEMMA ResetType ==
  ASSUME NEW s \in Rows
  PROVE  Reset(s) \in Rows /\ Reset(s).failures = s.failures /\ Reset(s).disabled = s.disabled
         /\ Reset(s).avail = s.avail /\ Reset(s).age = s.age /\ Reset(s).status = "idle"
         /\ Reset(s).image = s.image
  BY DEF Reset, Rows

(* A process goes on.                                                      *)
LEMMA BecomesType ==
  ASSUME Base, NEW p \in Updaters, NEW q \in Procs, Placed(p, q), Becomes(p, q)
  PROVE  proc' \in [Updaters -> Procs] /\ \A u \in Updaters : Placed(u, proc'[u])
  BY DEF Base, TypeOK, Becomes

LEMMA GoType ==
  ASSUME Base, NEW p \in Updaters, NEW pc \in Pcs, Go(p, pc),
         Placed(p, [proc[p] EXCEPT !.pc = pc])
  PROVE  proc' \in [Updaters -> Procs] /\ \A u \in Updaters : Placed(u, proc'[u])
<1>1. proc[p] \in Procs
  BY DEF Base, TypeOK
<1>2. [proc[p] EXCEPT !.pc = pc] \in Procs
  BY <1>1 DEF Procs
<1> QED
  BY <1>2, BecomesType DEF Go

(* One row changes.                                                        *)
LEMMA RowType ==
  ASSUME Base, NEW a \in Apps, NEW s \in Rows, row' = [row EXCEPT ![a] = s],
         s.failures = MAX_CONSECUTIVE_FAILURES => s.disabled
  PROVE  /\ row' \in [Apps -> Rows]
         /\ \A b \in Apps : row'[b].failures = MAX_CONSECUTIVE_FAILURES => row'[b].disabled
  BY DEF Base, TypeOK

LEMMA StrikeType ==
  ASSUME Base, NEW a \in Apps, Strike(a)
  PROVE  /\ strikes' \in [Apps -> 0..MAX_CONSECUTIVE_FAILURES]
         /\ \A b \in Apps : strikes[b] <= strikes'[b]
         /\ \A n \in 0..(MAX_CONSECUTIVE_FAILURES - 1) :
              n <= strikes[a] => n + 1 <= strikes'[a]
<1> DEFINE n == strikes[a]
<1>1. n \in 0..MAX_CONSECUTIVE_FAILURES /\ strikes \in [Apps -> 0..MAX_CONSECUTIVE_FAILURES]
  BY DEF Base, TypeOK
<1>2. PICK m : m = IF n < MAX_CONSECUTIVE_FAILURES THEN n + 1 ELSE n
  OBVIOUS
<1>3. strikes' = [strikes EXCEPT ![a] = m]
  BY <1>2 DEF Strike
<1>4. m \in 0..MAX_CONSECUTIVE_FAILURES /\ n <= m
        /\ \A k \in 0..(MAX_CONSECUTIVE_FAILURES - 1) : k <= n => k + 1 <= m
  BY <1>1, <1>2, NumbersType
<1> QED
  BY <1>1, <1>3, <1>4, NumbersType

(* An update ends; a run's failure is a strike.                            *)
LEMMA EndsType ==
  ASSUME Base, NEW p \in Updaters, NEW pc \in {"updated", "failed"}, Ends(p, pc),
         proc[p].pc \in Working
  PROVE  proc' \in [Updaters -> Procs] /\ \A u \in Updaters : Placed(u, proc'[u])
<1>1. CASE p \in Runs
  <2>1. Placed(p, [proc[p] EXCEPT !.pc = pc])
    BY <1>1 DEF Base, TypeOK, Procs, Placed, Working
  <2> QED
    BY <1>1, <2>1, GoType DEF Ends, Pcs
<1>2. CASE p \notin Runs
  BY <1>2, NoProcType, BecomesType DEF Ends
<1> QED
  BY <1>1, <1>2

LEMMA FailsType ==
  ASSUME Base, NEW p \in Updaters, Fails(p), proc[p].pc \in Working
  PROVE  /\ proc' \in [Updaters -> Procs] /\ \A u \in Updaters : Placed(u, proc'[u])
         /\ strikes' \in [Apps -> 0..MAX_CONSECUTIVE_FAILURES]
<1>1. proc[p].app \in Apps
  BY DEF Base, Placed
<1>2. strikes' \in [Apps -> 0..MAX_CONSECUTIVE_FAILURES]
  BY <1>1, StrikeType DEF Fails, Base, TypeOK
<1> QED
  BY <1>2, EndsType DEF Fails

-----------------------------------------------------------------------------
(* The types: every action keeps Base.                                     *)

LEMMA BaseInit == Init => Base
<1> SUFFICES ASSUME Init PROVE Base
  OBVIOUS
<1>1. row \in [Apps -> Rows]
        /\ \A a \in Apps : row[a].failures = MAX_CONSECUTIVE_FAILURES => row[a].disabled
  <2> SUFFICES ASSUME NEW a \in Apps
               PROVE  row[a] \in Rows /\ row[a].failures = 0
    BY NumbersType DEF Init
  <2>1. PICK v \in Versions, status \in {"idle", "installing"} :
          row[a] = [installed |-> TRUE, enabled |-> TRUE, image |-> v, status |-> status,
                    avail |-> NoVersion, age |-> NoAge, failures |-> 0, disabled |-> FALSE]
    BY DEF Init
  <2>2. row[a] \in Rows
    BY <2>1, FirstRowType, Zenon
  <2> QED
    BY <2>1, <2>2
<1>2. proc \in [Updaters -> Procs] /\ \A p \in Updaters : Placed(p, proc[p])
  BY NoProcType DEF Init
<1>3. check \in ForSome(Readings)
  BY EmptyType DEF Init
<1>4. /\ known \in [Apps -> [Versions -> Ages \cup {NoAge}]]
      /\ strikes \in [Apps -> 0..MAX_CONSECUTIVE_FAILURES] /\ killed \in [Apps -> BOOLEAN]
      /\ hour \in 0..(Day - 1) /\ acts \in 0..MaxActs
  BY NumbersType DEF Init
<1>5. /\ master \in BOOLEAN /\ due \in BOOLEAN /\ published \subseteq Versions
      /\ admin \in [core : {"idle", "vetted"}, system : {"idle", "inProgress"}]
      /\ downloading \in BOOLEAN
  BY DEF Init
<1> QED
  BY <1>1, <1>2, <1>3, <1>4, <1>5 DEF Base, TypeOK

LEMMA TickBase == Base /\ Tick => Base'
<1> SUFFICES ASSUME Base, Tick PROVE Base'
  OBVIOUS
<1>1. row' \in [Apps -> Rows]
        /\ \A a \in Apps : row'[a].failures = MAX_CONSECUTIVE_FAILURES => row'[a].disabled
  <2> SUFFICES ASSUME NEW a \in Apps
               PROVE  row'[a] \in Rows /\ row'[a].failures = row[a].failures
                        /\ row'[a].disabled = row[a].disabled
    BY DEF Base, TypeOK, Tick
  <2>1. row[a] \in Rows /\ row'[a] = [row[a] EXCEPT !.age = Fresh(row[a].age)]
    BY DEF Base, TypeOK, Tick
  <2>2. row[a].age \in Ages \cup {NoAge}
    BY <2>1 DEF Rows
  <2>3. Fresh(row[a].age) \in Ages \cup {NoAge}
    BY <2>2, FreshType
  <2> QED
    BY <2>1, <2>3 DEF Rows
<1>2. known' \in [Apps -> [Versions -> Ages \cup {NoAge}]]
  BY FreshType DEF Base, TypeOK, Tick
<1>3. hour' \in 0..(Day - 1)
  BY NumbersType DEF Base, TypeOK, Tick
<1> QED
  BY <1>1, <1>2, <1>3 DEF Base, TypeOK, Tick, settings, world

LEMMA PublishBase == ASSUME NEW v \in Versions PROVE Base /\ Publish(v) => Base'
  BY DEF Base, TypeOK, Publish, settings, history

LEMMA DownloadBase == Base /\ (StartDownload \/ EndDownload) => Base'
  BY ActType DEF Base, TypeOK, StartDownload, EndDownload, settings, history

LEMMA SetMasterBase == ASSUME NEW b \in BOOLEAN PROVE Base /\ SetMaster(b) => Base'
<1> SUFFICES ASSUME Base, SetMaster(b) PROVE Base'
  OBVIOUS
<1>1. row' \in [Apps -> Rows]
        /\ \A a \in Apps : row'[a].failures = MAX_CONSECUTIVE_FAILURES => row'[a].disabled
  <2>1. CASE row' = row
    BY <2>1 DEF Base, TypeOK
  <2>2. CASE row' = [a \in Apps |-> [row[a] EXCEPT !.failures = 0, !.disabled = FALSE]]
    <3>1. \A a \in Apps : row[a] \in Rows
      BY DEF Base, TypeOK
    <3>2. \A a \in Apps : row'[a] \in Rows /\ row'[a].failures = 0
      BY <2>2, <3>1, BackoffClears DEF Rows
    <3>3. 0 # MAX_CONSECUTIVE_FAILURES
      BY NumbersType
    <3>4. row' = [a \in Apps |-> row'[a]]
      BY <2>2
    <3> QED
      BY <3>2, <3>3, <3>4
  <2> QED
    BY <2>1, <2>2 DEF SetMaster
<1>2. acts' \in 0..MaxActs
  BY ActType DEF SetMaster
<1> QED
  BY <1>1, <1>2 DEF Base, TypeOK, SetMaster, world, history

LEMMA RowActsBase ==
  ASSUME NEW a \in Apps, NEW b \in BOOLEAN
  PROVE  Base /\ (SetEnabled(a, b) \/ Uninstall(a)) => Base'
<1> SUFFICES ASSUME Base, SetEnabled(a, b) \/ Uninstall(a) PROVE Base'
  OBVIOUS
<1>1. row[a] \in Rows /\ (row[a].failures = MAX_CONSECUTIVE_FAILURES => row[a].disabled)
  BY DEF Base, TypeOK
<1>2. \E s \in Rows : /\ row' = [row EXCEPT ![a] = s]
                      /\ s.failures = MAX_CONSECUTIVE_FAILURES => s.disabled
  <2>1. CASE SetEnabled(a, b)
    <3>1. PICK s : s = IF b THEN [row[a] EXCEPT !.enabled = b, !.failures = 0, !.disabled = FALSE]
                       ELSE [row[a] EXCEPT !.enabled = b]
      OBVIOUS
    <3>2. s \in Rows /\ (s.failures = MAX_CONSECUTIVE_FAILURES => s.disabled)
      <4>1. [row[a] EXCEPT !.enabled = b] \in Rows
        BY <1>1 DEF Rows
      <4>2. 0 \in 0..MAX_CONSECUTIVE_FAILURES /\ 0 # MAX_CONSECUTIVE_FAILURES
        BY NumbersType
      <4>3. [row[a] EXCEPT !.enabled = b, !.failures = 0, !.disabled = FALSE] \in Rows
        BY <1>1, <4>2 DEF Rows
      <4> QED
        BY <1>1, <3>1, <4>1, <4>2, <4>3 DEF Rows
    <3>3. row' = [row EXCEPT ![a] = s]
      BY <2>1, <3>1 DEF SetEnabled
    <3> QED
      BY <3>2, <3>3
  <2>2. CASE Uninstall(a)
    <3>1. PICK s : s = [row[a] EXCEPT !.installed = FALSE, !.status = "idle"]
      OBVIOUS
    <3>2. s \in Rows /\ (s.failures = MAX_CONSECUTIVE_FAILURES => s.disabled)
      BY <1>1, <3>1 DEF Rows
    <3>3. row' = [row EXCEPT ![a] = s]
      BY <2>2, <3>1 DEF Uninstall
    <3> QED
      BY <3>2, <3>3
  <2> QED
    BY <2>1, <2>2
<1>3. row' \in [Apps -> Rows]
        /\ \A c \in Apps : row'[c].failures = MAX_CONSECUTIVE_FAILURES => row'[c].disabled
  BY <1>2, RowType
<1>4. acts' \in 0..MaxActs /\ killed' \in [Apps -> BOOLEAN]
  BY ActType DEF SetEnabled, Uninstall, Base, TypeOK, history
<1> QED
  BY <1>3, <1>4 DEF Base, TypeOK, SetEnabled, Uninstall, world, history

LEMMA AskUpdateBase ==
  ASSUME NEW u \in Users, NEW a \in Apps, NEW v \in published
  PROVE  Base /\ AskUpdate(u, a, v) => Base'
<1> SUFFICES ASSUME Base, AskUpdate(u, a, v) PROVE Base'
  OBVIOUS
<1> DEFINE q == [NoProc EXCEPT !.pc = "begin", !.app = a, !.target = v]
<1>1. v \in Versions /\ a \in Nat /\ u \in Updaters /\ u \notin Runs
  BY SetsAssumption DEF Base, TypeOK, Updaters
<1>2. q \in Procs /\ q.pc = "begin" /\ q.app = a /\ q.target = v
  BY <1>1, EmptyType DEF NoProc, Procs, Pcs
<1>3. Placed(u, q)
  BY <1>1, <1>2 DEF Placed, Working
<1> HIDE DEF q
<1>4. proc' \in [Updaters -> Procs] /\ \A p \in Updaters : Placed(p, proc'[p])
  BY <1>1, <1>2, <1>3, BecomesType DEF AskUpdate, q
<1>5. acts' \in 0..MaxActs
  BY ActType DEF AskUpdate
<1> QED
  BY <1>4, <1>5 DEF Base, TypeOK, AskUpdate, world, history

LEMMA CheckStartBase == Base /\ CheckStart => Base'
<1> SUFFICES ASSUME Base, CheckStart PROVE Base'
  OBVIOUS
<1> DEFINE A == {b \in Apps : row[b].installed}
<1>1. check' \in [A -> Readings]
  BY DEF Base, TypeOK, CheckStart, Rows, Readings
<1>2. check' \in ForSome(Readings)
  BY <1>1, ForSomeType
<1> QED
  BY <1>2 DEF Base, TypeOK, CheckStart, settings, world, history

LEMMA CheckAppBase == Base /\ CheckApp => Base'
<1> SUFFICES ASSUME Base, CheckApp PROVE Base'
  OBVIOUS
<1>1. PICK a \in Apps :
        /\ First(a, DOMAIN check)
        /\ check' = Without(check, a)
        /\ \/ row' = row /\ known' = known
           \/ \E latest \in Versions \cup {NoVersion} :
                /\ IsLatest(latest, check[a].image)
                /\ Found(a, latest)
                /\ known' = IF latest # NoVersion /\ known[a][latest] = NoAge
                            THEN [known EXCEPT ![a][latest] = 0] ELSE known
  BY DEF CheckApp
<1>2. check' \in ForSome(Readings)
  BY <1>1, WithoutType DEF Base, TypeOK
<1>3. ASSUME NEW latest \in Versions \cup {NoVersion}, Found(a, latest),
             known' = IF latest # NoVersion /\ known[a][latest] = NoAge
                      THEN [known EXCEPT ![a][latest] = 0] ELSE known
      PROVE  /\ row' \in [Apps -> Rows]
             /\ \A b \in Apps :
                  row'[b].failures = MAX_CONSECUTIVE_FAILURES => row'[b].disabled
             /\ known' \in [Apps -> [Versions -> Ages \cup {NoAge}]]
  <2>1. PICK age \in Ages \cup {NoAge} : age = IF latest = NoVersion THEN NoAge ELSE 0
    BY NumbersType
  <2>2. row' = row \/ row' = [row EXCEPT ![a].avail = latest, ![a].age = age]
    BY <1>3, <2>1 DEF Found
  <2>3. row' \in [Apps -> Rows]
          /\ \A b \in Apps : row'[b].failures = MAX_CONSECUTIVE_FAILURES => row'[b].disabled
    <3>1. row[a] \in Rows /\ (row[a].failures = MAX_CONSECUTIVE_FAILURES => row[a].disabled)
      BY DEF Base, TypeOK
    <3>2. PICK s : s = [row[a] EXCEPT !.avail = latest, !.age = age]
      OBVIOUS
    <3>3. s \in Rows /\ (s.failures = MAX_CONSECUTIVE_FAILURES => s.disabled)
      BY <3>1, <3>2 DEF Rows
    <3>4. row' = row \/ row' = [row EXCEPT ![a] = s]
      BY <2>2, <3>2 DEF Base, TypeOK
    <3> QED
      BY <3>3, <3>4, RowType DEF Base, TypeOK
  <2>4. known' \in [Apps -> [Versions -> Ages \cup {NoAge}]]
    BY <1>3, NumbersType DEF Base, TypeOK
  <2> QED
    BY <2>3, <2>4
<1>4. /\ row' \in [Apps -> Rows]
      /\ \A b \in Apps : row'[b].failures = MAX_CONSECUTIVE_FAILURES => row'[b].disabled
      /\ known' \in [Apps -> [Versions -> Ages \cup {NoAge}]]
  BY <1>1, <1>3 DEF Base, TypeOK
<1> QED
  BY <1>2, <1>4 DEF Base, TypeOK, CheckApp, settings, world

LEMMA AttemptBase == ASSUME NEW r \in Runs PROVE Base /\ Attempt(r) => Base'
<1> SUFFICES ASSUME Base, Attempt(r) PROVE Base'
  OBVIOUS
<1> DEFINE todo == [a \in EligibleApps |-> [target |-> row[a].avail,
                      status |-> row[a].status, failures |-> row[a].failures]]
           q == [NoProc EXCEPT !.pc = "next", !.todo = todo]
<1>1. todo \in ForSome(Tasks)
  <2>1. ASSUME NEW a \in EligibleApps
        PROVE  /\ row[a].avail \in Versions /\ row[a].status \in {"idle", "installing"}
               /\ row[a].failures \in 0..(MAX_CONSECUTIVE_FAILURES - 1)
    <3>1. row[a] \in Rows /\ row[a].avail # NoVersion /\ ~row[a].disabled
            /\ (row[a].failures = MAX_CONSECUTIVE_FAILURES => row[a].disabled)
      BY DEF EligibleApps, Eligible, Base, TypeOK
    <3>2. row[a].failures \in 0..MAX_CONSECUTIVE_FAILURES
      BY <3>1 DEF Rows
    <3>3. row[a].failures \in 0..(MAX_CONSECUTIVE_FAILURES - 1)
      BY <3>1, <3>2, NumbersType
    <3> QED
      BY <3>1, <3>3 DEF Rows
  <2>2. todo \in [EligibleApps -> Tasks]
    BY <2>1 DEF Tasks
  <2>3. DOMAIN todo = EligibleApps /\ EligibleApps \subseteq Apps
    BY DEF EligibleApps
  <2> HIDE DEF todo
  <2> QED
    BY <2>2, <2>3, ForSomeType
<1>2. r \in Updaters
  BY DEF Updaters
<1> HIDE DEF todo
<1>3. q \in Procs /\ q.pc = "next"
  BY <1>1, NoProcType DEF NoProc, Procs, Pcs
<1>4. Placed(r, q)
  BY <1>3 DEF Placed, Working
<1>5. proc' = proc \/ Becomes(r, q)
  BY DEF Attempt, q, todo
<1> HIDE DEF q
<1>6. proc' \in [Updaters -> Procs] /\ \A p \in Updaters : Placed(p, proc'[p])
  BY <1>2, <1>3, <1>4, <1>5, BecomesType DEF Base, TypeOK
<1>7. due' \in BOOLEAN
  BY DEF Attempt
<1> QED
  BY <1>6, <1>7 DEF Base, TypeOK, Attempt, settings, world, history

(* A run that only goes on, with what it has still to do.                  *)
LEMMA RunStepBase ==
  ASSUME Base, RunStep, strikes' \in [Apps -> 0..MAX_CONSECUTIVE_FAILURES],
         proc' \in [Updaters -> Procs], \A p \in Updaters : Placed(p, proc'[p]),
         row' \in [Apps -> Rows],
         \A a \in Apps : row'[a].failures = MAX_CONSECUTIVE_FAILURES => row'[a].disabled
  PROVE  Base'
  BY DEF Base, TypeOK, RunStep, settings, world

LEMMA NextAppBase == ASSUME NEW r \in Runs PROVE Base /\ NextApp(r) => Base'
<1> SUFFICES ASSUME Base, NextApp(r) PROVE Base'
  OBVIOUS
<1>1. PICK a \in Apps : First(a, DOMAIN proc[r].todo) /\ Preflight(r, a)
  BY DEF NextApp
<1> DEFINE task == proc[r].todo[a]
           chosen(pc) == [proc[r] EXCEPT !.app = a, !.target = task.target, !.pc = pc]
           skipped == [proc[r] EXCEPT !.todo = Without(@, a)]
<1>2. r \in Updaters /\ proc[r] \in Procs /\ proc[r].pc = "next"
        /\ a \in DOMAIN proc[r].todo /\ a \in Nat
  BY <1>1, SetsAssumption DEF Base, TypeOK, NextApp, First, Updaters
<1>3. proc[r].todo \in ForSome(Tasks)
  BY <1>2 DEF Procs
<1>4. task \in Tasks
  BY <1>2, <1>3, ForSomeType
<1>5. ASSUME NEW pc \in {"failed", "begin"}
      PROVE  chosen(pc) \in Procs /\ Placed(r, chosen(pc))
  <2>1. task.target \in Versions
    BY <1>4 DEF Tasks
  <2>2. pc \in Pcs
    BY DEF Pcs
  <2>3. PICK v \in Versions : v = task.target
    BY <2>1
  <2>4. chosen(pc) = [proc[r] EXCEPT !.app = a, !.target = v, !.pc = pc]
    BY <2>3
  <2>5. chosen(pc) \in Procs
    BY <1>2, <2>2, <2>4 DEF Procs
  <2>6. /\ chosen(pc).app = a /\ chosen(pc).target = v /\ chosen(pc).pc = pc
        /\ chosen(pc).todo = proc[r].todo
    BY <1>2, <2>4 DEF Procs
  <2> QED
    BY <1>2, <2>5, <2>6 DEF Placed
<1>6. skipped \in Procs /\ Placed(r, skipped)
  <2>1. Without(proc[r].todo, a) \in ForSome(Tasks)
    BY <1>3, WithoutType
  <2>2. PICK todo : todo = Without(proc[r].todo, a)
    OBVIOUS
  <2>3. skipped = [proc[r] EXCEPT !.todo = todo] /\ todo \in ForSome(Tasks)
    BY <2>1, <2>2
  <2>4. skipped \in Procs /\ skipped.pc = "next"
    BY <1>2, <2>3 DEF Procs
  <2> QED
    BY <2>4 DEF Placed, Working
<1>7. \/ Becomes(r, chosen("failed")) /\ Strike(a)
      \/ Becomes(r, skipped) /\ strikes' = strikes
      \/ Becomes(r, chosen("begin")) /\ strikes' = strikes
  BY <1>1, <1>2 DEF Preflight, Procs
<1> HIDE DEF chosen, skipped
<1>8. proc' \in [Updaters -> Procs] /\ \A p \in Updaters : Placed(p, proc'[p])
  BY <1>2, <1>5, <1>6, <1>7, BecomesType
<1>9. strikes' \in [Apps -> 0..MAX_CONSECUTIVE_FAILURES]
  BY <1>7, StrikeType DEF Base, TypeOK
<1>10. row' = row /\ RunStep
  BY DEF NextApp
<1> QED
  BY <1>8, <1>9, <1>10, RunStepBase DEF Base, TypeOK

LEMMA RunEndsBase == ASSUME NEW r \in Runs PROVE Base /\ RunEnds(r) => Base'
<1> SUFFICES ASSUME Base, RunEnds(r) PROVE Base'
  OBVIOUS
<1>1. r \in Updaters
  BY DEF Updaters
<1>2. proc' \in [Updaters -> Procs] /\ \A p \in Updaters : Placed(p, proc'[p])
  BY <1>1, NoProcType, BecomesType DEF RunEnds
<1> QED
  BY <1>2, RunStepBase DEF RunEnds, Base, TypeOK

LEMMA ContinueType ==
  ASSUME Base, NEW r \in Runs, Continue(r)
  PROVE  /\ proc' \in [Updaters -> Procs] /\ \A p \in Updaters : Placed(p, proc'[p])
         /\ proc'[r].pc = "next" /\ proc'[r].todo = Without(proc[r].todo, proc[r].app)
<1> DEFINE q == [NoProc EXCEPT !.pc = "next", !.todo = Without(proc[r].todo, proc[r].app)]
<1>1. r \in Updaters /\ proc[r] \in Procs
  BY DEF Base, TypeOK, Updaters
<1>2. PICK todo : todo = Without(proc[r].todo, proc[r].app)
  OBVIOUS
<1>3. todo \in ForSome(Tasks)
  BY <1>1, <1>2, WithoutType DEF Procs
<1>4. q = [NoProc EXCEPT !.pc = "next", !.todo = todo]
  BY <1>2
<1>5. q \in Procs /\ q.pc = "next" /\ q.todo = todo
  BY <1>3, <1>4, NoProcType DEF NoProc, Procs, Pcs
<1>6. Placed(r, q)
  BY <1>5 DEF Placed, Working
<1> HIDE DEF q
<1>7. Becomes(r, q)
  BY DEF Continue, q
<1>8. proc'[r] = q
  BY <1>1, <1>7 DEF Becomes, Base, TypeOK
<1> QED
  BY <1>1, <1>2, <1>5, <1>6, <1>7, <1>8, BecomesType

LEMMA RecordAppSuccessBase == ASSUME NEW r \in Runs PROVE Base /\ RecordAppSuccess(r) => Base'
<1> SUFFICES ASSUME Base, RecordAppSuccess(r) PROVE Base'
  OBVIOUS
<1> DEFINE a == proc[r].app
<1>1. a \in Apps
  BY DEF RecordAppSuccess, Base, Placed, Working, Updaters
<1>2. row[a] \in Rows /\ (row[a].failures = MAX_CONSECUTIVE_FAILURES => row[a].disabled)
  BY <1>1 DEF Base, TypeOK
<1>3. PICK n : n = IF proc[r].todo[a].failures = 0 THEN row[a].failures ELSE 0
  OBVIOUS
<1>4. n \in 0..MAX_CONSECUTIVE_FAILURES /\ (n = MAX_CONSECUTIVE_FAILURES => row[a].disabled)
  BY <1>2, <1>3, NumbersType DEF Rows
<1>5. PICK s : s = [row[a] EXCEPT !.failures = n]
  OBVIOUS
<1>6. s \in Rows /\ (s.failures = MAX_CONSECUTIVE_FAILURES => s.disabled)
  BY <1>2, <1>4, <1>5 DEF Rows
<1>7. row' = [row EXCEPT ![a] = s]
  BY <1>1, <1>3, <1>5 DEF RecordAppSuccess, Base, TypeOK
<1> HIDE DEF a
<1>8. row' \in [Apps -> Rows]
        /\ \A b \in Apps : row'[b].failures = MAX_CONSECUTIVE_FAILURES => row'[b].disabled
  BY <1>1, <1>6, <1>7, RowType
<1> QED
  BY <1>8, ContinueType, RunStepBase DEF RecordAppSuccess, Base, TypeOK

LEMMA RecordAppFailureBase == ASSUME NEW r \in Runs PROVE Base /\ RecordAppFailure(r) => Base'
<1> SUFFICES ASSUME Base, RecordAppFailure(r) PROVE Base'
  OBVIOUS
<1> DEFINE a == proc[r].app
<1>1. a \in Apps /\ r \in Updaters /\ a \in DOMAIN proc[r].todo
  BY DEF RecordAppFailure, Base, Placed, Working, Updaters
<1>2. row[a] \in Rows
  BY <1>1 DEF Base, TypeOK
<1>3. proc[r].todo \in ForSome(Tasks)
  BY <1>1 DEF Base, TypeOK, Procs
<1>4. proc[r].todo[a] \in Tasks
  BY <1>1, <1>3, ForSomeType
<1>5. proc[r].todo[a].failures \in 0..(MAX_CONSECUTIVE_FAILURES - 1)
  BY <1>4 DEF Tasks
<1>6. PICK n : n = proc[r].todo[a].failures + 1
  OBVIOUS
<1>7. n \in 0..MAX_CONSECUTIVE_FAILURES
  BY <1>5, <1>6, NumbersType
<1>8. PICK d \in BOOLEAN : d = (row[a].disabled \/ n >= MAX_CONSECUTIVE_FAILURES)
  OBVIOUS
<1>9. n = MAX_CONSECUTIVE_FAILURES => d
  <2>1. n = MAX_CONSECUTIVE_FAILURES => n >= MAX_CONSECUTIVE_FAILURES
    BY NumbersType
  <2> QED
    BY <2>1, <1>8, Zenon
<1>10. PICK s : s = [row[a] EXCEPT !.failures = n, !.disabled = d]
  OBVIOUS
<1>11. s \in Rows /\ (s.failures = MAX_CONSECUTIVE_FAILURES => s.disabled)
  BY <1>2, <1>7, <1>9, <1>10 DEF Rows
<1>12. row' = [row EXCEPT ![a] = s]
  BY <1>1, <1>6, <1>8, <1>10 DEF RecordAppFailure, Base, TypeOK
<1> HIDE DEF a
<1>13. row' \in [Apps -> Rows]
        /\ \A b \in Apps : row'[b].failures = MAX_CONSECUTIVE_FAILURES => row'[b].disabled
  BY <1>1, <1>11, <1>12, RowType
<1> QED
  BY <1>13, ContinueType, RunStepBase DEF RecordAppFailure, Base, TypeOK

LEMMA BeginBase == ASSUME NEW p \in Updaters PROVE Base /\ Begin(p) => Base'
<1> SUFFICES ASSUME Base, Begin(p) PROVE Base'
  OBVIOUS
<1> DEFINE s == row[proc[p].app]
           q == [proc[p] EXCEPT !.pc = "mark", !.image = s.image, !.avail = s.avail]
<1>1. /\ proc[p] \in Procs /\ proc[p].pc = "begin" /\ Placed(p, proc[p])
      /\ proc[p].app \in Apps
  BY DEF Base, TypeOK, Begin, Placed, Working
<1>2. s \in Rows
  BY <1>1 DEF Base, TypeOK
<1>3. q \in Procs /\ Placed(p, q)
  <2>1. PICK image \in Versions, avail \in Versions \cup {NoVersion} :
          image = s.image /\ avail = s.avail
    BY <1>2 DEF Rows
  <2>2. q = [proc[p] EXCEPT !.pc = "mark", !.image = image, !.avail = avail]
    BY <2>1
  <2>3. "mark" \in Pcs
    BY DEF Pcs
  <2>4. q \in Procs
    BY <1>1, <2>1, <2>2, <2>3 DEF Procs
  <2>5. /\ q.pc = "mark" /\ q.image = image /\ q.app = proc[p].app
        /\ q.target = proc[p].target /\ q.todo = proc[p].todo
    BY <1>1, <2>2 DEF Procs
  <2> QED
    BY <1>1, <2>1, <2>4, <2>5 DEF Placed, Working
<1>4. Becomes(p, q) \/ Go(p, "refused")
  BY DEF Begin
<1> HIDE DEF q, s
<1>5. Placed(p, [proc[p] EXCEPT !.pc = "refused"])
  BY <1>1 DEF Placed, Working, Procs
<1>6. proc' \in [Updaters -> Procs] /\ \A u \in Updaters : Placed(u, proc'[u])
  BY <1>3, <1>4, <1>5, BecomesType, GoType DEF Pcs
<1> QED
  BY <1>6, RunStepBase DEF Begin, Base, TypeOK

(* What Mark and the ends of an update do to the row.                      *)
LEMMA WorkRow ==
  ASSUME Base, NEW p \in Updaters, proc[p].pc \in {"refused", "mark", "work"},
         Works(p)
  PROVE  \E s \in Rows :
           /\ row' = [row EXCEPT ![proc[p].app] = s]
           /\ s.failures = row[proc[p].app].failures /\ s.disabled = row[proc[p].app].disabled
           /\ s.age = row[proc[p].app].age
           /\ s.avail \in {row[proc[p].app].avail, NoVersion}
           /\ s.status = IF Mark(p) THEN "installing" ELSE "idle"
<1> DEFINE a == proc[p].app
<1>1. a \in Apps /\ proc[p].target \in Versions /\ row[a] \in Rows
  BY DEF Base, Placed, Working, TypeOK
<1>2. CASE Mark(p)
  <2>1. PICK s : s = [row[a] EXCEPT !.status = "installing"]
    OBVIOUS
  <2>2. row' = [row EXCEPT ![a] = s]
    BY <1>1, <1>2, <2>1 DEF Mark, Base, TypeOK
  <2>3. s \in Rows /\ s.failures = row[a].failures /\ s.disabled = row[a].disabled
          /\ s.age = row[a].age /\ s.avail = row[a].avail /\ s.status = "installing"
    BY <1>1, <2>1 DEF Rows
  <2> QED
    BY <1>2, <2>2, <2>3
<1>3. CASE ~Mark(p) /\ UpdateSucceeds(p)
  <2>1. PICK image, avail :
          /\ image = IF proc[p].target = proc[p].image THEN row[a].image ELSE proc[p].target
          /\ avail = IF proc[p].avail = NoVersion THEN row[a].avail ELSE NoVersion
    OBVIOUS
  <2>2. image \in Versions /\ avail \in Versions \cup {NoVersion}
          /\ avail \in {row[a].avail, NoVersion}
    BY <1>1, <2>1 DEF Rows
  <2>3. PICK t : t = [row[a] EXCEPT !.image = image, !.avail = avail]
    OBVIOUS
  <2>4. t \in Rows /\ t.failures = row[a].failures /\ t.disabled = row[a].disabled
          /\ t.age = row[a].age /\ t.avail = avail
    BY <1>1, <2>2, <2>3 DEF Rows
  <2>5. PICK s : s = Reset(t)
    OBVIOUS
  <2>6. row' = [row EXCEPT ![a] = s]
    <3>1. row' = [row EXCEPT ![a] = Reset([row[a] EXCEPT
                    !.image = IF proc[p].target = proc[p].image THEN row[a].image
                              ELSE proc[p].target,
                    !.avail = IF proc[p].avail = NoVersion THEN row[a].avail ELSE NoVersion])]
      <4>1. row \in [Apps -> Rows]
        BY DEF Base, TypeOK
      <4> QED
        BY <1>1, <1>3, <4>1 DEF UpdateSucceeds
    <3> QED
      BY <2>1, <2>3, <2>5, <3>1
  <2>7. s \in Rows /\ s.failures = row[a].failures /\ s.disabled = row[a].disabled
          /\ s.age = row[a].age /\ s.avail = avail /\ s.status = "idle"
    BY <2>4, <2>5, ResetType
  <2> QED
    BY <1>3, <2>2, <2>6, <2>7
<1>4. CASE ~Mark(p) /\ (UpdateFails(p) \/ Refused(p))
  <2>1. PICK s : s = Reset(row[a])
    OBVIOUS
  <2>2. row' = [row EXCEPT ![a] = s]
    BY <1>1, <1>4, <2>1 DEF UpdateFails, Refused, Base, TypeOK
  <2>3. s \in Rows /\ s.failures = row[a].failures /\ s.disabled = row[a].disabled
          /\ s.age = row[a].age /\ s.avail = row[a].avail /\ s.status = "idle"
    BY <1>1, <2>1, ResetType
  <2> QED
    BY <1>4, <2>2, <2>3
<1> QED
  BY <1>2, <1>3, <1>4 DEF Works

LEMMA WorkBase ==
  ASSUME NEW p \in Updaters
  PROVE  Base /\ Works(p) => Base'
<1> SUFFICES ASSUME Base, Works(p) PROVE Base'
  OBVIOUS
<1>1. proc[p].pc \in {"refused", "mark", "work"} /\ proc[p] \in Procs /\ Placed(p, proc[p])
  BY DEF Base, TypeOK, Works, Mark, UpdateSucceeds, UpdateFails, Refused
<1>2. proc[p].app \in Apps
  BY <1>1 DEF Placed, Working
<1>3. /\ row' \in [Apps -> Rows]
      /\ \A a \in Apps : row'[a].failures = MAX_CONSECUTIVE_FAILURES => row'[a].disabled
  BY <1>1, <1>2, WorkRow, RowType DEF Base
<1>4. /\ proc' \in [Updaters -> Procs] /\ \A u \in Updaters : Placed(u, proc'[u])
      /\ strikes' \in [Apps -> 0..MAX_CONSECUTIVE_FAILURES]
  <2>1. CASE Mark(p)
    <3>1. Placed(p, [proc[p] EXCEPT !.pc = "work"])
      BY <1>1, <2>1 DEF Placed, Working, Procs, Mark
    <3> QED
      BY <2>1, <3>1, GoType DEF Mark, Pcs, Base, TypeOK
  <2>2. CASE UpdateSucceeds(p)
    BY <1>1, <2>2, EndsType DEF UpdateSucceeds, Working, Base, TypeOK
  <2>3. CASE UpdateFails(p) \/ Refused(p)
    BY <1>1, <2>3, FailsType DEF UpdateFails, Refused, Working
  <2> QED
    BY <2>1, <2>2, <2>3 DEF Works
<1>5. RunStep
  BY DEF Works, Mark, UpdateSucceeds, UpdateFails, Refused
<1> QED
  BY <1>3, <1>4, <1>5, RunStepBase

LEMMA AdminBase == Base /\ AdminNext => Base'
<1> SUFFICES ASSUME Base, AdminNext PROVE Base'
  OBVIOUS
<1>1. CASE CorePreflight \/ CoreRequest \/ UserSystemUpdate \/ SystemUpdateFails
  <2>1. acts' \in 0..MaxActs
    BY <1>1, ActType DEF CorePreflight, CoreRequest, UserSystemUpdate, SystemUpdateFails,
                         Base, TypeOK
  <2>2. admin' \in [core : {"idle", "vetted"}, system : {"idle", "inProgress"}]
    BY <1>1 DEF CorePreflight, CoreRequest, UserSystemUpdate, SystemUpdateFails, Admin,
                Base, TypeOK
  <2>3. UNCHANGED <<row, master, world, hour, due, check, proc, history>>
    BY <1>1 DEF CorePreflight, CoreRequest, UserSystemUpdate, SystemUpdateFails, Admin
  <2> QED
    BY <2>1, <2>2, <2>3 DEF Base, TypeOK, world, history
<1>2. CASE Recreate
  <2>1. proc' \in [Updaters -> Procs] /\ \A p \in Updaters : Placed(p, proc'[p])
    BY <1>2, NoProcType DEF Recreate
  <2>2. check' \in ForSome(Readings)
    BY <1>2, EmptyType DEF Recreate
  <2>3. due' \in BOOLEAN /\ killed' \in [Apps -> BOOLEAN]
    BY <1>2 DEF Recreate, Base, TypeOK
  <2>4. admin' \in [core : {"idle", "vetted"}, system : {"idle", "inProgress"}]
    BY <1>2 DEF Recreate
  <2> QED
    BY <1>2, <2>1, <2>2, <2>3, <2>4 DEF Base, TypeOK, Recreate, settings, world
<1> QED
  BY <1>1, <1>2 DEF AdminNext

LEMMA SameBase == Base /\ UNCHANGED vars => Base'
  BY DEF Base, TypeOK, vars

LEMMA BaseStep == Base /\ [Next]_vars => Base'
<1> SUFFICES ASSUME Base, [Next]_vars PROVE Base'
  OBVIOUS
<1>1. ASSUME NEW r \in Runs, Attempt(r) \/ RunNext(r) PROVE Base'
  BY <1>1, AttemptBase, NextAppBase, RunEndsBase, RecordAppSuccessBase,
     RecordAppFailureBase DEF RunNext
<1>2. ASSUME NEW p \in Updaters, Update(p) PROVE Base'
  BY <1>2, BeginBase, WorkBase DEF Update, Works
<1>3. ASSUME UserNext PROVE Base'
  BY <1>3, SetMasterBase, RowActsBase, DownloadBase, AskUpdateBase DEF UserNext
<1> QED
  BY <1>1, <1>2, <1>3, TickBase, DownloadBase, CheckStartBase, CheckAppBase, AdminBase,
     PublishBase, SameBase DEF Next

(* Every state is of the types the model says, for any number of apps,     *)
(* versions, workers and users.                                            *)
THEOREM TypeCorrect == Spec => []TypeOK
<1>1. Base => TypeOK
  BY DEF Base
<1> QED
  BY <1>1, BaseInit, BaseStep, PTL DEF Spec

-----------------------------------------------------------------------------
(* The marks.                                                              *)

(* Steps that are no process's leave the processes and the strikes alone,  *)
(* make no mark and blame no app.                                          *)
QuietNext ==
  \/ Tick \/ StartDownload \/ EndDownload \/ CheckStart \/ CheckApp
  \/ \E b \in BOOLEAN : SetMaster(b) \/ \E a \in Apps : SetEnabled(a, b)
  \/ \E a \in Apps : Uninstall(a)
  \/ CorePreflight \/ CoreRequest \/ UserSystemUpdate \/ SystemUpdateFails
  \/ \E v \in Versions : Publish(v)

KeepsDead ==
  \A a \in Apps : killed[a] /\ row'[a].status = "installing" => killed'[a]

Blameless ==
  \A a \in Apps :
    /\ row'[a].status \in {row[a].status, "idle"}
    /\ row'[a].failures \in {row[a].failures, 0}
    /\ row'[a].disabled => row[a].disabled

LEMMA QuietSteps ==
  ASSUME Base, QuietNext
  PROVE  proc' = proc /\ strikes' = strikes /\ KeepsDead /\ Blameless
<1> USE DEF Blameless
<1>k. killed' = killed => KeepsDead
  BY DEF KeepsDead
<1>0. row = [a \in Apps |-> row[a]] /\ \A a \in Apps : row[a] \in Rows
  BY DEF Base, TypeOK
<1>1. CASE Tick
  BY <1>0, <1>1, <1>k DEF Tick, Rows
<1>2. CASE StartDownload \/ EndDownload \/ CheckStart
  BY <1>2, <1>k DEF StartDownload, EndDownload, CheckStart, history
<1>3. CASE CheckApp
  <2>1. proc' = proc /\ strikes' = strikes /\ killed' = killed
    BY <1>3 DEF CheckApp
  <2>2. row' = row \/ \E a \in Apps : \E avail, age :
                        row' = [row EXCEPT ![a].avail = avail, ![a].age = age]
    BY <1>3 DEF CheckApp, Found
  <2>3. ASSUME NEW a \in Apps, NEW avail, NEW age,
               row' = [row EXCEPT ![a].avail = avail, ![a].age = age]
        PROVE  Blameless
    <3>1. PICK s : s = [row[a] EXCEPT !.avail = avail, !.age = age]
      OBVIOUS
    <3>2. row' = [row EXCEPT ![a] = s]
      BY <1>0, <2>3, <3>1
    <3>3. s.status = row[a].status /\ s.failures = row[a].failures
            /\ s.disabled = row[a].disabled
      BY <1>0, <3>1 DEF Rows
    <3> QED
      BY <1>0, <3>2, <3>3
  <2> QED
    BY <1>0, <1>k, <2>1, <2>2, <2>3
<1>4. ASSUME NEW b \in BOOLEAN, SetMaster(b) PROVE Blameless
  BY <1>0, <1>4 DEF SetMaster, Rows
<1>5. ASSUME NEW b \in BOOLEAN, NEW a \in Apps, SetEnabled(a, b) PROVE Blameless
  <2>1. PICK s : s = IF b THEN [row[a] EXCEPT !.enabled = b, !.failures = 0, !.disabled = FALSE]
                     ELSE [row[a] EXCEPT !.enabled = b]
    OBVIOUS
  <2>2. row' = [row EXCEPT ![a] = s]
    BY <1>5, <2>1 DEF SetEnabled
  <2>3. s.status = row[a].status /\ s.failures \in {row[a].failures, 0}
          /\ (s.disabled => row[a].disabled)
    BY <1>0, <2>1 DEF Rows
  <2> QED
    BY <1>0, <2>2, <2>3
<1>6. ASSUME NEW a \in Apps, Uninstall(a) PROVE Blameless /\ KeepsDead
  <2>1. PICK s : s = [row[a] EXCEPT !.installed = FALSE, !.status = "idle"]
    OBVIOUS
  <2>2. row' = [row EXCEPT ![a] = s]
    BY <1>6, <2>1 DEF Uninstall
  <2>3. s.status = "idle" /\ s.failures = row[a].failures /\ s.disabled = row[a].disabled
    BY <1>0, <2>1 DEF Rows
  <2>4. Blameless /\ row'[a].status = "idle"
    BY <1>0, <2>2, <2>3
  <2>5. \A b \in Apps \ {a} : killed'[b] = killed[b]
    BY <1>6 DEF Uninstall, Base, TypeOK
  <2> QED
    BY <2>4, <2>5 DEF KeepsDead
<1>7. CASE CorePreflight \/ CoreRequest \/ UserSystemUpdate \/ SystemUpdateFails
  BY <1>7, <1>k DEF CorePreflight, CoreRequest, UserSystemUpdate, SystemUpdateFails, Admin, history
<1>8. ASSUME NEW v \in Versions, Publish(v)
      PROVE  proc' = proc /\ strikes' = strikes /\ killed' = killed /\ Blameless
  BY <1>8 DEF Publish, history
<1>9. CASE \/ \E b \in BOOLEAN : SetMaster(b) \/ \E a \in Apps : SetEnabled(a, b)
           \/ \E a \in Apps : Uninstall(a)
  <2>1. proc' = proc /\ strikes' = strikes
    BY <1>9 DEF SetMaster, SetEnabled, Uninstall, history
  <2>2. KeepsDead
    BY <1>6, <1>9, <1>k DEF SetMaster, SetEnabled, history
  <2> QED
    BY <1>4, <1>5, <1>6, <1>9, <2>1, <2>2
<1> QED
  BY <1>k, <1>1, <1>2, <1>3, <1>7, <1>8, <1>9 DEF QuietNext

(* A process changes by itself.                                            *)
LEMMA BecomesOthers ==
  ASSUME Base, NEW p \in Updaters, NEW q, Becomes(p, q)
  PROVE  proc'[p] = q /\ \A u \in Updaters \ {p} : proc'[u] = proc[u]
  BY DEF Base, TypeOK, Becomes

(* Steps of a process that is not between marking a row and unmarking it.  *)
Outside(p) ==
  \/ p \in Runs /\ (Attempt(p) \/ RunNext(p))
  \/ Begin(p)
  \/ p \in Users /\ \E a \in Apps, v \in published : AskUpdate(p, a, v)

LEMMA OutsideSteps ==
  ASSUME Base, NEW p \in Updaters, Outside(p)
  PROVE  /\ proc[p].pc \notin {"mark", "work"}
         /\ \A u \in Updaters \ {p} : proc'[u] = proc[u]
         /\ KeepsDead
         /\ \A a \in Apps : row'[a].status = row[a].status
<1>0. row = [a \in Apps |-> row[a]] /\ \A a \in Apps : row[a] \in Rows
  BY DEF Base, TypeOK
<1> USE DEF KeepsDead
<1>1. CASE p \in Runs /\ Attempt(p)
  BY <1>1, BecomesOthers DEF Attempt, history
<1>2. CASE p \in Runs /\ NextApp(p)
  BY <1>2, BecomesOthers DEF NextApp, Preflight, RunStep
<1>3. CASE p \in Runs /\ RunEnds(p)
  BY <1>3, BecomesOthers DEF RunEnds, RunStep
<1>4. CASE p \in Runs /\ RecordAppSuccess(p)
  BY <1>0, <1>4, BecomesOthers DEF RecordAppSuccess, Continue, RunStep, Rows
<1>5. CASE p \in Runs /\ RecordAppFailure(p)
  <2>1. PICK n, d : row' = [row EXCEPT ![proc[p].app].failures = n, ![proc[p].app].disabled = d]
    BY <1>5 DEF RecordAppFailure
  <2>2. proc[p].app \in Apps /\ proc[p].pc = "failed"
    BY <1>5 DEF RecordAppFailure, Base, Placed, Working
  <2>3. PICK s : s = [row[proc[p].app] EXCEPT !.failures = n, !.disabled = d]
    OBVIOUS
  <2>4. row' = [row EXCEPT ![proc[p].app] = s]
    BY <1>0, <2>1, <2>2, <2>3
  <2>5. s.status = row[proc[p].app].status
    BY <1>0, <2>2, <2>3 DEF Rows
  <2>6. \A a \in Apps : row'[a].status = row[a].status
    BY <1>0, <2>2, <2>4, <2>5
  <2> QED
    BY <1>5, <2>2, <2>6, BecomesOthers DEF RecordAppFailure, Continue, RunStep
<1>6. CASE Begin(p)
  BY <1>6, BecomesOthers DEF Begin, Go, RunStep
<1>7. CASE p \in Users /\ \E a \in Apps, v \in published : AskUpdate(p, a, v)
  BY <1>7, BecomesOthers DEF AskUpdate, history
<1> QED
  BY <1>1, <1>2, <1>3, <1>4, <1>5, <1>6, <1>7 DEF Outside, RunNext

LEMMA NextSteps ==
  ASSUME Next
  PROVE  \/ QuietNext \/ Recreate
         \/ \E p \in Updaters :
              Outside(p) \/ Works(p)
  BY DEF Next, UserNext, AdminNext, QuietNext, Outside, Works, Update, Updaters

(* What an update marks some update unmarks, and what ends otherwise was   *)
(* killed.                                                                 *)
LEMMA MarkStep == Base /\ MarkIsTransient /\ [Next]_vars => MarkIsTransient'
<1> SUFFICES ASSUME Base, MarkIsTransient, [Next]_vars, NEW a \in Apps,
                    row'[a].status = "installing"
             PROVE  killed'[a] \/ \E p \in Updaters :
                                     proc'[p].pc = "work" /\ proc'[p].app = a
  BY DEF MarkIsTransient
<1>1. CASE QuietNext
  BY <1>1, QuietSteps DEF Blameless, KeepsDead, MarkIsTransient
<1>2. CASE Recreate
  <2>1. row' = row
    BY <1>2 DEF Recreate
  <2>2. killed'[a] = /\ row[a].status = "installing"
                     /\ killed[a] \/ \E p \in Updaters : proc[p].pc = "work" /\ proc[p].app = a
    BY <1>2 DEF Recreate
  <2> QED
    BY <2>1, <2>2 DEF MarkIsTransient
<1>3. ASSUME NEW p \in Updaters, Outside(p)
      PROVE  killed'[a] \/ \E u \in Updaters : proc'[u].pc = "work" /\ proc'[u].app = a
  <2>1. killed[a] \/ \E u \in Updaters \ {p} : proc[u].pc = "work" /\ proc[u].app = a
    BY <1>3, OutsideSteps DEF MarkIsTransient
  <2> QED
    BY <1>3, <2>1, OutsideSteps DEF KeepsDead
<1>4. ASSUME NEW p \in Updaters, Works(p)
      PROVE  killed'[a] \/ \E u \in Updaters : proc'[u].pc = "work" /\ proc'[u].app = a
  <2>1. /\ proc[p].app \in Apps /\ proc[p].pc \in {"refused", "mark", "work"}
        /\ proc[p] \in Procs
    BY <1>4 DEF Base, TypeOK, Placed, Working, Works, Mark, UpdateSucceeds, UpdateFails, Refused
  <2>2. PICK s \in Rows :
          /\ row' = [row EXCEPT ![proc[p].app] = s]
          /\ s.status = IF Mark(p) THEN "installing" ELSE "idle"
    BY <1>4, <2>1, WorkRow
  <2>3. \A u \in Updaters \ {p} : proc'[u] = proc[u]
    BY <1>4, BecomesOthers DEF Works, Mark, UpdateSucceeds, UpdateFails, Refused, Fails, Ends, Go
  <2>4. killed'[a] = killed[a] /\ row \in [Apps -> Rows]
    BY <1>4 DEF Works, Mark, UpdateSucceeds, UpdateFails, Refused, RunStep, Base, TypeOK
  <2>5. CASE proc[p].app = a
    <3>1. Mark(p)
      BY <2>2, <2>4, <2>5
    <3>2. proc'[p] = [proc[p] EXCEPT !.pc = "work"]
      BY <3>1, BecomesOthers DEF Mark, Go
    <3>3. proc'[p].pc = "work" /\ proc'[p].app = a
      BY <2>1, <2>5, <3>2 DEF Procs
    <3> QED
      BY <3>3
  <2>6. CASE proc[p].app # a
    <3>1. row'[a] = row[a]
      BY <2>2, <2>4, <2>6
    <3>2. killed[a] \/ \E u \in Updaters \ {p} : proc[u].pc = "work" /\ proc[u].app = a
      BY <2>6, <3>1 DEF MarkIsTransient
    <3> QED
      BY <2>3, <2>4, <3>2
  <2> QED
    BY <2>5, <2>6
<1>5. CASE UNCHANGED vars
  BY <1>5 DEF vars, MarkIsTransient
<1> QED
  BY <1>1, <1>2, <1>3, <1>4, <1>5, NextSteps

(* The mark that both auto-updates wait for is that of an update at work,  *)
(* however updates of users and overlapping runs interleave and reset each *)
(* other's marks, or of one that died with the admin and that no update    *)
(* after it was refused for.                                               *)
THEOREM MarksAreTransient == Spec => []MarkIsTransient
<1>1. Init => MarkIsTransient
  <2> SUFFICES ASSUME Init, NEW a \in Apps, ~killed[a] PROVE row[a].status = "idle"
    BY DEF MarkIsTransient
  <2> QED
    BY DEF Init
<1> QED
  BY <1>1, BaseInit, BaseStep, MarkStep, PTL DEF Spec

-----------------------------------------------------------------------------
(* What a run has still to do only shrinks.                                *)

Shrinks(p) ==
  \A a \in DOMAIN proc'[p].todo :
    a \in DOMAIN proc[p].todo /\ proc'[p].todo[a] = proc[p].todo[a]

LEMMA EmptyShrinks ==
  ASSUME NEW p \in Updaters, proc'[p].todo = <<>>
  PROVE  Shrinks(p)
  BY EmptyType DEF Shrinks

(* An update is taken up or refused.                                       *)
LEMMA BeginGoes ==
  ASSUME Base, NEW p \in Updaters, Begin(p)
  PROVE  proc'[p].todo = proc[p].todo /\ proc'[p].pc # "failed"
<1>0. proc[p] \in Procs
  BY DEF Base, TypeOK
<1>1. ASSUME NEW image, NEW avail,
             Becomes(p, [proc[p] EXCEPT !.pc = "mark", !.image = image, !.avail = avail])
      PROVE  proc'[p].todo = proc[p].todo /\ proc'[p].pc # "failed"
  <2>1. proc'[p] = [proc[p] EXCEPT !.pc = "mark", !.image = image, !.avail = avail]
    BY <1>1, BecomesOthers
  <2> QED
    BY <1>0, <2>1 DEF Procs
<1>2. ASSUME Go(p, "refused")
      PROVE  proc'[p].todo = proc[p].todo /\ proc'[p].pc # "failed"
  <2>1. proc'[p] = [proc[p] EXCEPT !.pc = "refused"]
    BY <1>2, BecomesOthers DEF Go
  <2> QED
    BY <1>0, <2>1 DEF Procs
<1> QED
  BY <1>1, <1>2 DEF Begin

LEMMA TodoShrinks ==
  ASSUME Base, NEW p \in Updaters,
         \/ Outside(p) /\ ~(p \in Runs /\ Attempt(p))
         \/ Works(p)
  PROVE  Shrinks(p)
<1>0. proc[p] \in Procs /\ proc[p].todo \in ForSome(Tasks)
  BY DEF Base, TypeOK, Procs
<1>1. CASE p \in Runs /\ NextApp(p)
  <2>1. PICK a \in Apps : Preflight(p, a)
    BY <1>1 DEF NextApp
  <2>2. proc'[p].todo = proc[p].todo \/ proc'[p].todo = Without(proc[p].todo, a)
    <3>1. \/ \E v, pc : Becomes(p, [proc[p] EXCEPT !.app = a, !.target = v, !.pc = pc])
          \/ Becomes(p, [proc[p] EXCEPT !.todo = Without(proc[p].todo, a)])
      BY <1>0, <2>1 DEF Preflight, Procs
    <3>2. ASSUME NEW v, NEW pc,
                 Becomes(p, [proc[p] EXCEPT !.app = a, !.target = v, !.pc = pc])
          PROVE  proc'[p].todo = proc[p].todo
      <4>1. proc'[p] = [proc[p] EXCEPT !.app = a, !.target = v, !.pc = pc]
        BY <3>2, BecomesOthers
      <4> QED
        BY <1>0, <4>1 DEF Procs
    <3>3. ASSUME Becomes(p, [proc[p] EXCEPT !.todo = Without(proc[p].todo, a)])
          PROVE  proc'[p].todo = Without(proc[p].todo, a)
      <4>1. PICK todo : todo = Without(proc[p].todo, a)
        OBVIOUS
      <4>2. proc'[p] = [proc[p] EXCEPT !.todo = todo]
        BY <3>3, <4>1, BecomesOthers
      <4> QED
        BY <1>0, <4>1, <4>2 DEF Procs
    <3> QED
      BY <3>1, <3>2, <3>3
  <2> QED
    BY <2>2 DEF Shrinks, Without
<1>2. CASE p \in Runs /\ RunEnds(p)
  BY <1>2, BecomesOthers, NoProcType, EmptyShrinks DEF RunEnds
<1>3. CASE p \in Runs /\ (RecordAppSuccess(p) \/ RecordAppFailure(p))
  <2>1. proc'[p].todo = Without(proc[p].todo, proc[p].app)
    BY <1>3, ContinueType DEF RecordAppSuccess, RecordAppFailure
  <2> QED
    BY <2>1 DEF Shrinks, Without
<1>4. ASSUME NEW pc, Ends(p, pc) PROVE Shrinks(p)
  <2>1. CASE proc'[p] = NoProc
    BY <2>1, NoProcType, EmptyShrinks
  <2>2. CASE proc'[p] = [proc[p] EXCEPT !.pc = pc]
    BY <1>0, <2>2 DEF Shrinks, Procs
  <2> QED
    BY <1>4, <2>1, <2>2, BecomesOthers DEF Ends, Go
<1>5. CASE Begin(p)
  <2>1. proc'[p].todo = proc[p].todo
    BY <1>5, BeginGoes
  <2> QED
    BY <2>1 DEF Shrinks
<1>6. CASE p \in Users /\ \E a \in Apps, v \in published : AskUpdate(p, a, v)
  <2>1. proc'[p].todo = <<>>
    <3>1. PICK a, v : Becomes(p, [NoProc EXCEPT !.pc = "begin", !.app = a, !.target = v])
      BY <1>6 DEF AskUpdate
    <3>2. proc'[p] = [NoProc EXCEPT !.pc = "begin", !.app = a, !.target = v]
      BY <3>1, BecomesOthers
    <3> QED
      BY <3>2 DEF NoProc
  <2> QED
    BY <2>1, EmptyShrinks
<1>7. CASE Mark(p)
  <2>1. proc'[p] = [proc[p] EXCEPT !.pc = "work"]
    BY <1>7, BecomesOthers DEF Mark, Go
  <2> QED
    BY <1>0, <2>1 DEF Shrinks, Procs
<1>8. CASE UpdateSucceeds(p) \/ UpdateFails(p) \/ Refused(p)
  BY <1>4, <1>8 DEF UpdateSucceeds, UpdateFails, Refused, Fails
<1> QED
  BY <1>1, <1>2, <1>3, <1>5, <1>6, <1>7, <1>8 DEF Outside, Works, RunNext

LEMMA WorkOthers ==
  ASSUME Base, NEW p \in Updaters, Works(p)
  PROVE  \A u \in Updaters \ {p} : proc'[u] = proc[u]
  BY BecomesOthers DEF Works, Mark, UpdateSucceeds, UpdateFails, Refused, Fails, Ends, Go

-----------------------------------------------------------------------------
(* The failures counted.                                                   *)

LEMMA TaskType ==
  ASSUME Base, NEW p \in Updaters, NEW a \in DOMAIN proc[p].todo
  PROVE  /\ a \in Apps /\ proc[p].todo[a] \in Tasks
         /\ proc[p].todo[a].failures \in 0..(MAX_CONSECUTIVE_FAILURES - 1)
<1>1. proc[p].todo \in ForSome(Tasks)
  BY DEF Base, TypeOK, Procs
<1>2. a \in Apps /\ proc[p].todo[a] \in Tasks
  BY <1>1, ForSomeType
<1> QED
  BY <1>2 DEF Tasks

(* What is owed stays owed as strikes are counted.                         *)
LEMMA OwedStays ==
  ASSUME Base, NEW r \in Runs, Owed(proc[r], strikes),
         strikes' \in [Apps -> 0..MAX_CONSECUTIVE_FAILURES],
         \A a \in Apps : strikes[a] <= strikes'[a]
  PROVE  Owed(proc[r], strikes')
<1>1. r \in Updaters /\ strikes \in [Apps -> 0..MAX_CONSECUTIVE_FAILURES]
  BY DEF Base, TypeOK, Updaters
<1>2. \A a \in DOMAIN proc[r].todo :
        a \in Apps /\ proc[r].todo[a].failures \in Nat
  BY <1>1, TaskType, NumbersType
<1>3. ASSUME NEW a \in DOMAIN proc[r].todo, NEW n \in Nat, n <= strikes[a]
      PROVE  n <= strikes'[a]
  BY <1>1, <1>2, <1>3, NumbersType
<1>4. \A a \in DOMAIN proc[r].todo : proc[r].todo[a].failures <= strikes'[a]
  BY <1>2, <1>3 DEF Owed
<1>5. proc[r].pc = "failed" => proc[r].app \in DOMAIN proc[r].todo
  BY <1>1 DEF Base, Placed, Working
<1>6. proc[r].pc = "failed" =>
        /\ proc[r].todo[proc[r].app].failures + 1 \in Nat
        /\ proc[r].todo[proc[r].app].failures + 1 <= strikes[proc[r].app]
  BY <1>2, <1>5 DEF Owed
<1>7. proc[r].pc = "failed" => proc[r].todo[proc[r].app].failures + 1 <= strikes'[proc[r].app]
  BY <1>3, <1>5, <1>6
<1> QED
  BY <1>4, <1>7 DEF Owed

(* A process goes on with less to do.                                      *)
LEMMA OwedShrinks ==
  ASSUME Base, NEW p \in Updaters, Owed(proc[p], strikes'), Shrinks(p),
         proc'[p].pc # "failed"
  PROVE  Owed(proc'[p], strikes')
  BY DEF Owed, Shrinks

LEMMA BlamelessCounts ==
  ASSUME Base, NotDisabledEarly, Blameless,
         strikes' \in [Apps -> 0..MAX_CONSECUTIVE_FAILURES],
         \A a \in Apps : strikes[a] <= strikes'[a]
  PROVE  NotDisabledEarly'
<1> SUFFICES ASSUME NEW a \in Apps
             PROVE  /\ row'[a].failures <= strikes'[a]
                    /\ row'[a].disabled => strikes'[a] = MAX_CONSECUTIVE_FAILURES
  BY DEF NotDisabledEarly
<1> DEFINE m == strikes[a]
           n == strikes'[a]
<1>1. /\ m \in 0..MAX_CONSECUTIVE_FAILURES /\ n \in 0..MAX_CONSECUTIVE_FAILURES /\ m <= n
      /\ row[a].failures \in 0..MAX_CONSECUTIVE_FAILURES
  BY DEF Base, TypeOK, Rows
<1>2. row[a].failures <= m /\ (row[a].disabled => m = MAX_CONSECUTIVE_FAILURES)
  BY DEF NotDisabledEarly
<1>3. row'[a].failures \in {row[a].failures, 0} /\ (row'[a].disabled => row[a].disabled)
  BY DEF Blameless
<1> HIDE DEF m, n
<1>4. m = MAX_CONSECUTIVE_FAILURES => n = MAX_CONSECUTIVE_FAILURES
  BY <1>1, NumbersType
<1>5. row'[a].failures <= n
  BY <1>1, <1>2, <1>3, NumbersType
<1> QED
  BY <1>2, <1>3, <1>4, <1>5 DEF n

(* One process moved, and the strikes only grew.                           *)
LEMMA CountsFrame ==
  ASSUME Base, Counts, NotDisabledEarly', NEW p \in Updaters,
         \A u \in Updaters \ {p} : proc'[u] = proc[u],
         p \in Runs => Owed(proc'[p], strikes'),
         strikes' \in [Apps -> 0..MAX_CONSECUTIVE_FAILURES],
         \A a \in Apps : strikes[a] <= strikes'[a]
  PROVE  Counts'
<1>1. ASSUME NEW r \in Runs PROVE Owed(proc'[r], strikes')
  <2>1. r \in Updaters
    BY DEF Updaters
  <2> QED
    BY <2>1, OwedStays DEF Counts
<1> QED
  BY <1>1 DEF Counts

LEMMA SameCounts ==
  ASSUME Base
  PROVE  strikes' = strikes =>
           /\ strikes' \in [Apps -> 0..MAX_CONSECUTIVE_FAILURES]
           /\ \A a \in Apps : strikes[a] <= strikes'[a]
  BY NumbersType DEF Base, TypeOK

(* An update of a run that fails is the strike the run will count.         *)
LEMMA FailsCounts ==
  ASSUME Base, Counts, NEW p \in Updaters, Fails(p), proc[p].pc \in Working, Blameless
  PROVE  Counts'
<1>1. /\ proc[p].app \in Apps /\ proc[p] \in Procs
      /\ p \in Runs => proc[p].app \in DOMAIN proc[p].todo
  BY DEF Base, TypeOK, Placed
<1>2. \A u \in Updaters \ {p} : proc'[u] = proc[u]
  BY BecomesOthers DEF Fails, Ends, Go
<1>3. /\ strikes' \in [Apps -> 0..MAX_CONSECUTIVE_FAILURES]
      /\ \A a \in Apps : strikes[a] <= strikes'[a]
      /\ p \in Runs => \A n \in 0..(MAX_CONSECUTIVE_FAILURES - 1) :
           n <= strikes[proc[p].app] => n + 1 <= strikes'[proc[p].app]
  BY <1>1, StrikeType, SameCounts DEF Fails
<1>4. NotDisabledEarly'
  BY <1>3, BlamelessCounts DEF Counts
<1>5. ASSUME p \in Runs PROVE Owed(proc'[p], strikes')
  <2>1. proc'[p] = [proc[p] EXCEPT !.pc = "failed"]
    BY <1>5, BecomesOthers DEF Fails, Ends, Go
  <2>2. proc'[p].todo = proc[p].todo /\ proc'[p].app = proc[p].app
    BY <1>1, <2>1 DEF Procs
  <2>3. Owed(proc[p], strikes) /\ Owed(proc[p], strikes')
    BY <1>3, <1>5, OwedStays DEF Counts
  <2>4. /\ proc[p].todo[proc[p].app].failures \in 0..(MAX_CONSECUTIVE_FAILURES - 1)
        /\ proc[p].todo[proc[p].app].failures <= strikes[proc[p].app]
    BY <1>1, <1>5, <2>3, TaskType DEF Owed
  <2>5. proc[p].todo[proc[p].app].failures + 1 <= strikes'[proc[p].app]
    BY <1>3, <1>5, <2>4
  <2> QED
    BY <2>2, <2>3, <2>5 DEF Owed
<1> QED
  BY <1>2, <1>3, <1>4, <1>5, CountsFrame

(* What a process does between two updates.                                *)
LEMMA OutsideCounts ==
  ASSUME Base, Counts, NEW p \in Updaters, Outside(p)
  PROVE  Counts'
<1>0. /\ row = [a \in Apps |-> row[a]] /\ \A a \in Apps : row[a] \in Rows
      /\ proc[p] \in Procs /\ Placed(p, proc[p])
      /\ \A u \in Updaters \ {p} : proc'[u] = proc[u]
  BY OutsideSteps DEF Base, TypeOK
<1>1. ASSUME strikes' = strikes, Shrinks(p), NotDisabledEarly', proc'[p].pc # "failed"
      PROVE  Counts'
  <2>1. p \in Runs => Owed(proc'[p], strikes')
    BY <1>1, OwedShrinks DEF Counts
  <2> QED
    BY <1>0, <1>1, <2>1, SameCounts, CountsFrame
<1>2. CASE p \in Runs /\ Attempt(p)
  <2>1. row' = row /\ strikes' = strikes
    BY <1>2 DEF Attempt, history
  <2>2. Blameless
    BY <2>1 DEF Blameless
  <2>3. NotDisabledEarly'
    BY <2>1, <2>2, SameCounts, BlamelessCounts DEF Counts
  <2>4. Owed(proc'[p], strikes')
    <3>1. CASE proc' = proc
      BY <1>2, <2>1, <3>1 DEF Counts
    <3>2. CASE proc' # proc
      <4>1. PICK todo : todo = [a \in EligibleApps |-> [target |-> row[a].avail,
                           status |-> row[a].status, failures |-> row[a].failures]]
        OBVIOUS
      <4>2. Becomes(p, [NoProc EXCEPT !.pc = "next", !.todo = todo])
        BY <1>2, <3>2, <4>1 DEF Attempt
      <4>3. proc'[p] = [NoProc EXCEPT !.pc = "next", !.todo = todo]
        BY <4>2, BecomesOthers
      <4>4. proc'[p].pc = "next" /\ proc'[p].todo = todo
        BY <4>3 DEF NoProc
      <4>5. \A a \in DOMAIN todo : a \in Apps /\ todo[a].failures = row[a].failures
        BY <4>1 DEF EligibleApps
      <4> QED
        BY <2>1, <4>4, <4>5 DEF Owed, Counts, NotDisabledEarly
    <3> QED
      BY <3>1, <3>2
  <2> QED
    BY <1>0, <2>1, <2>3, <2>4, SameCounts, CountsFrame
<1>3. CASE p \in Runs /\ NextApp(p)
  <2>1. PICK a \in Apps : First(a, DOMAIN proc[p].todo) /\ Preflight(p, a)
    BY <1>3 DEF NextApp
  <2>2. row' = row /\ Blameless
    BY <1>3 DEF NextApp, Blameless
  <2>3. CASE strikes' = strikes /\ proc'[p].pc # "failed"
    BY <1>1, <1>3, <2>2, <2>3, TodoShrinks, SameCounts, BlamelessCounts DEF Counts, Attempt, NextApp
  <2>4. CASE ~(strikes' = strikes /\ proc'[p].pc # "failed")
    <3>1. PICK v : /\ Becomes(p, [proc[p] EXCEPT !.app = a, !.target = v, !.pc = "failed"])
                   /\ Strike(a)
      <4>1. ASSUME NEW q, Becomes(p, q) PROVE proc'[p] = q
        BY <4>1, BecomesOthers
      <4>2. PICK todo : todo = Without(proc[p].todo, a)
        OBVIOUS
      <4>3. [proc[p] EXCEPT !.todo = todo].pc = "next"
        BY <1>0, <1>3 DEF Procs, NextApp
      <4>4. \A v : [proc[p] EXCEPT !.app = a, !.target = v, !.pc = "begin"].pc = "begin"
        BY <1>0 DEF Procs
      <4>5. \/ \E v : /\ Becomes(p, [proc[p] EXCEPT !.app = a, !.target = v, !.pc = "failed"])
                     /\ Strike(a)
            \/ Becomes(p, [proc[p] EXCEPT !.todo = todo]) /\ strikes' = strikes
            \/ /\ \E v : Becomes(p, [proc[p] EXCEPT !.app = a, !.target = v, !.pc = "begin"])
               /\ strikes' = strikes
        BY <1>0, <2>1, <4>2 DEF Preflight, Procs
      <4> QED
        BY <2>4, <4>1, <4>3, <4>4, <4>5
    <3>2. proc'[p] = [proc[p] EXCEPT !.app = a, !.target = v, !.pc = "failed"]
      BY <3>1, BecomesOthers
    <3>3. proc'[p].todo = proc[p].todo /\ proc'[p].app = a
      BY <1>0, <3>2 DEF Procs
    <3>4. /\ strikes' \in [Apps -> 0..MAX_CONSECUTIVE_FAILURES]
          /\ \A b \in Apps : strikes[b] <= strikes'[b]
          /\ \A n \in 0..(MAX_CONSECUTIVE_FAILURES - 1) :
               n <= strikes[a] => n + 1 <= strikes'[a]
      BY <3>1, StrikeType
    <3>5. Owed(proc[p], strikes) /\ Owed(proc[p], strikes')
      BY <1>3, <3>4, OwedStays DEF Counts
    <3>6. /\ proc[p].todo[a].failures \in 0..(MAX_CONSECUTIVE_FAILURES - 1)
          /\ proc[p].todo[a].failures <= strikes[a]
      BY <2>1, <3>5, TaskType DEF Owed, First
    <3>7. Owed(proc'[p], strikes')
      BY <3>3, <3>4, <3>5, <3>6 DEF Owed
    <3>8. NotDisabledEarly'
      BY <2>2, <3>4, BlamelessCounts DEF Counts
    <3> QED
      BY <1>0, <3>4, <3>7, <3>8, CountsFrame
  <2> QED
    BY <2>3, <2>4
<1>4. CASE p \in Runs /\ RunEnds(p)
  <2>1. strikes' = strikes /\ Blameless /\ proc'[p] = NoProc
    BY <1>4, BecomesOthers DEF RunEnds, Blameless
  <2> QED
    BY <1>1, <1>4, <2>1, NoProcType, EmptyShrinks, SameCounts, BlamelessCounts DEF Counts
<1>5. CASE p \in Runs /\ RecordAppSuccess(p)
  <2>1. PICK n : n = IF proc[p].todo[proc[p].app].failures = 0
                     THEN row[proc[p].app].failures ELSE 0
    OBVIOUS
  <2>2. row' = [row EXCEPT ![proc[p].app].failures = n]
    BY <1>0, <1>5, <2>1 DEF RecordAppSuccess
  <2>3. Blameless
    BY <1>0, <2>1, <2>2 DEF Blameless, Rows
  <2>4. strikes' = strikes /\ proc'[p].pc # "failed"
          /\ proc'[p].todo = Without(proc[p].todo, proc[p].app)
    BY <1>5, ContinueType DEF RecordAppSuccess
  <2>5. Shrinks(p)
    BY <2>4 DEF Shrinks, Without
  <2> QED
    BY <1>1, <2>3, <2>4, <2>5, SameCounts, BlamelessCounts DEF Counts
<1>6. CASE p \in Runs /\ RecordAppFailure(p)
  <2> DEFINE a == proc[p].app
  <2>1. a \in DOMAIN proc[p].todo /\ proc[p].pc = "failed"
    BY <1>0, <1>6 DEF RecordAppFailure, Placed, Working
  <2>2. a \in Apps /\ proc[p].todo[a].failures \in 0..(MAX_CONSECUTIVE_FAILURES - 1)
    BY <2>1, TaskType
  <2>3. PICK n : n = proc[p].todo[a].failures + 1
    OBVIOUS
  <2>4. n \in Nat /\ n <= strikes[a] /\ strikes[a] \in 0..MAX_CONSECUTIVE_FAILURES
    BY <1>6, <2>1, <2>2, <2>3 DEF Counts, Owed, Base, TypeOK
  <2>5. PICK d : d = (row[a].disabled \/ n >= MAX_CONSECUTIVE_FAILURES)
    OBVIOUS
  <2>6. PICK s : s = [row[a] EXCEPT !.failures = n, !.disabled = d]
    OBVIOUS
  <2>7. s.failures = n /\ s.disabled = d
    BY <1>0, <2>2, <2>6 DEF Rows
  <2>8. row' = [row EXCEPT ![a] = s]
    BY <1>0, <1>6, <2>2, <2>3, <2>5, <2>6 DEF RecordAppFailure
  <2>9. d => strikes[a] = MAX_CONSECUTIVE_FAILURES
    <3>1. n >= MAX_CONSECUTIVE_FAILURES => strikes[a] = MAX_CONSECUTIVE_FAILURES
      BY <2>4, NumbersType
    <3>2. row[a].disabled => strikes[a] = MAX_CONSECUTIVE_FAILURES
      BY <2>2 DEF Counts, NotDisabledEarly
    <3> QED
      BY <2>5, <3>1, <3>2
  <2>10. strikes' = strikes /\ proc'[p].pc # "failed"
          /\ proc'[p].todo = Without(proc[p].todo, a)
    BY <1>6, ContinueType DEF RecordAppFailure
  <2> HIDE DEF a
  <2>11. ASSUME NEW b \in Apps
         PROVE  /\ row'[b].failures <= strikes'[b]
                /\ row'[b].disabled => strikes'[b] = MAX_CONSECUTIVE_FAILURES
    BY <1>0, <2>2, <2>4, <2>7, <2>8, <2>9, <2>10 DEF Counts, NotDisabledEarly
  <2>12. Shrinks(p)
    BY <2>10 DEF Shrinks, Without
  <2> QED
    BY <1>1, <2>10, <2>11, <2>12 DEF NotDisabledEarly
<1>7. CASE Begin(p)
  <2>1. Blameless /\ strikes' = strikes
    BY <1>7 DEF Begin, Blameless
  <2>2. proc'[p].pc # "failed" /\ Shrinks(p)
    BY <1>7, BeginGoes DEF Shrinks
  <2> QED
    BY <1>1, <2>1, <2>2, SameCounts, BlamelessCounts DEF Counts
<1>8. CASE p \in Users /\ \E a \in Apps, v \in published : AskUpdate(p, a, v)
  <2>1. p \notin Runs /\ strikes' = strikes /\ Blameless
    BY <1>8, SetsAssumption DEF AskUpdate, history, Blameless
  <2> QED
    BY <1>0, <2>1, SameCounts, BlamelessCounts, CountsFrame DEF Counts
<1> QED
  BY <1>2, <1>3, <1>4, <1>5, <1>6, <1>7, <1>8 DEF Outside, RunNext

LEMMA WorkCounts ==
  ASSUME Base, Counts, NEW p \in Updaters, Works(p)
  PROVE  Counts'
<1>1. /\ proc[p].pc \in {"refused", "mark", "work"} /\ proc[p].pc \in Working
      /\ proc[p].app \in Apps /\ proc[p] \in Procs /\ row \in [Apps -> Rows]
  BY DEF Base, TypeOK, Placed, Working, Works, Mark, UpdateSucceeds, UpdateFails, Refused
<1>2. PICK s \in Rows :
        /\ row' = [row EXCEPT ![proc[p].app] = s]
        /\ s.failures = row[proc[p].app].failures /\ s.disabled = row[proc[p].app].disabled
  BY <1>1, WorkRow
<1>3. CASE Mark(p) \/ UpdateSucceeds(p)
  <2>1. strikes' = strikes
    BY <1>3 DEF Mark, UpdateSucceeds
  <2>2. NotDisabledEarly'
    BY <1>1, <1>2, <2>1 DEF Counts, NotDisabledEarly
  <2>3. Shrinks(p)
    BY <1>3, TodoShrinks DEF Works
  <2>4. p \in Runs => proc'[p].pc # "failed"
    <3>1. ASSUME p \in Runs, NEW pc \in {"work", "updated"}, Go(p, pc)
          PROVE  proc'[p].pc # "failed"
      <4>1. proc'[p] = [proc[p] EXCEPT !.pc = pc]
        BY <3>1, BecomesOthers DEF Go
      <4> QED
        BY <1>1, <4>1 DEF Procs
    <3> QED
      BY <1>3, <3>1 DEF Mark, UpdateSucceeds, Ends
  <2>5. p \in Runs => Owed(proc'[p], strikes')
    BY <2>1, <2>3, <2>4, OwedShrinks DEF Counts
  <2> QED
    BY <1>3, <2>1, <2>2, <2>5, SameCounts, WorkOthers, CountsFrame DEF Works
<1>4. CASE UpdateFails(p) \/ Refused(p)
  <2>1. row' = [row EXCEPT ![proc[p].app] = Reset(row[proc[p].app])]
    BY <1>1, <1>4 DEF UpdateFails, Refused
  <2>2. Blameless
    <3>1. row[proc[p].app] \in Rows
      BY <1>1
    <3>2. PICK t : t = Reset(row[proc[p].app])
      OBVIOUS
    <3>3. t.status = "idle" /\ t.failures = row[proc[p].app].failures
            /\ t.disabled = row[proc[p].app].disabled
      BY <3>1, <3>2, ResetType
    <3>4. row' = [row EXCEPT ![proc[p].app] = t]
      BY <2>1, <3>2
    <3> QED
      BY <1>1, <3>3, <3>4 DEF Blameless
  <2> QED
    BY <1>1, <1>4, <2>2, FailsCounts DEF UpdateFails, Refused
<1> QED
  BY <1>3, <1>4 DEF Works

LEMMA CountsStep == Base /\ Counts /\ [Next]_vars => Counts'
<1> SUFFICES ASSUME Base, Counts, [Next]_vars PROVE Counts'
  OBVIOUS
<1>1. CASE QuietNext
  <2>1. proc' = proc /\ strikes' = strikes /\ Blameless
    BY <1>1, QuietSteps
  <2>2. NotDisabledEarly'
    BY <2>1, SameCounts, BlamelessCounts DEF Counts
  <2> QED
    BY <2>1, <2>2 DEF Counts
<1>2. CASE Recreate
  <2>1. row' = row /\ strikes' = strikes /\ proc' = [p \in Updaters |-> NoProc]
    BY <1>2 DEF Recreate
  <2>2. NotDisabledEarly'
    BY <2>1 DEF Counts, NotDisabledEarly
  <2>3. Owed(NoProc, strikes)
    BY NoProcType, EmptyType DEF Owed
  <2>4. \A r \in Runs : proc'[r] = NoProc
    BY <2>1 DEF Updaters
  <2> QED
    BY <2>1, <2>2, <2>3, <2>4 DEF Counts
<1>3. CASE UNCHANGED vars
  BY <1>3 DEF Counts, NotDisabledEarly, vars
<1> QED
  BY <1>1, <1>2, <1>3, OutsideCounts, WorkCounts, NextSteps

(* However runs overlap and save over each other's counts, an app is       *)
(* switched off only after as many updates of it failed as the limit says. *)
THEOREM NoneIsDisabledEarly == Spec => []NotDisabledEarly
<1>1. Init => Counts
  <2> SUFFICES ASSUME Init PROVE Counts
    OBVIOUS
  <2>1. NotDisabledEarly
    <3> SUFFICES ASSUME NEW a \in Apps
                 PROVE  row[a].failures <= strikes[a] /\ ~row[a].disabled
      BY DEF NotDisabledEarly
    <3>1. row[a].failures = 0 /\ ~row[a].disabled /\ strikes[a] = 0
      BY DEF Init
    <3> QED
      BY <3>1
  <2>2. Owed(NoProc, strikes)
    BY NoProcType, EmptyType DEF Owed
  <2>3. \A r \in Runs : proc[r] = NoProc
    BY DEF Init, Updaters
  <2> QED
    BY <2>1, <2>2, <2>3 DEF Counts
<1>2. Counts => NotDisabledEarly
  BY DEF Counts
<1> QED
  BY <1>1, <1>2, BaseInit, BaseStep, CountsStep, PTL DEF Spec

-----------------------------------------------------------------------------
(* The cool-off.                                                           *)

(* Versions get known, and known longer.                                   *)
Older ==
  \A a \in Apps, v \in Versions :
    /\ known'[a][v] \in Ages \cup {NoAge}
    /\ known[a][v] \in Ages => known'[a][v] \in Ages /\ known[a][v] <= known'[a][v]

LEMMA SameOlder == ASSUME Base, known' = known PROVE Older
  BY NumbersType DEF Base, TypeOK, Older, Ages

(* A row's anchor stays backed while the row keeps it or drops it.         *)
KeepsAnchors ==
  \A a \in Apps :
    row'[a].avail # NoVersion =>
      row'[a].avail = row[a].avail /\ row'[a].age = row[a].age

LEMMA AnchoredStays ==
  ASSUME Base, Anchored, Older, KeepsAnchors
  PROVE  Anchored'
<1> SUFFICES ASSUME NEW a \in Apps, row'[a].avail # NoVersion, row'[a].age # NoAge
             PROVE  /\ known'[a][row'[a].avail] \in Ages
                    /\ row'[a].age <= known'[a][row'[a].avail]
  BY DEF Anchored
<1> DEFINE v == row[a].avail
<1>1. row[a] \in Rows /\ row'[a].avail = v /\ row'[a].age = row[a].age
  BY DEF Base, TypeOK, KeepsAnchors
<1>2. v \in Versions /\ row[a].age \in Ages
  BY <1>1 DEF Rows
<1>3. known[a][v] \in Ages /\ row[a].age <= known[a][v]
  BY <1>1, <1>2 DEF Anchored
<1>4. known'[a][v] \in Ages /\ known[a][v] <= known'[a][v]
  BY <1>2, <1>3 DEF Older
<1>5. row[a].age <= known'[a][v]
  BY <1>2, <1>3, <1>4, NumbersType DEF Ages
<1> QED
  BY <1>1, <1>4, <1>5

LEMMA RipeStays ==
  ASSUME Base, Older, NEW p \in Updaters, Ripe(proc[p], known), Shrinks(p)
  PROVE  Ripe(proc'[p], known')
<1> SUFFICES ASSUME NEW a \in DOMAIN proc'[p].todo
             PROVE  known'[a][proc'[p].todo[a].target] = Cooloff
  BY DEF Ripe
<1> DEFINE v == proc[p].todo[a].target
<1>1. a \in DOMAIN proc[p].todo /\ proc'[p].todo[a] = proc[p].todo[a]
  BY DEF Shrinks
<1>2. a \in Apps /\ v \in Versions /\ known[a][v] = Cooloff
  BY <1>1, TaskType DEF Tasks, Ripe
<1>3. known'[a][v] \in Ages /\ Cooloff <= known'[a][v]
  BY <1>2, NumbersType DEF Older
<1>4. known'[a][v] = Cooloff
  BY <1>3, NumbersType DEF Ages
<1> QED
  BY <1>1, <1>4

Seasoned == Anchored /\ \A r \in Runs : Ripe(proc[r], known)

LEMMA QuietCooloff ==
  ASSUME Base, Seasoned, QuietNext
  PROVE  Anchored' /\ Older
<1>0. row = [a \in Apps |-> row[a]] /\ \A a \in Apps : row[a] \in Rows
  BY DEF Base, TypeOK
<1>1. CASE Tick
  <2>1. \A a \in Apps, v \in Versions :
          known[a][v] \in Ages \cup {NoAge} /\ known'[a][v] = Fresh(known[a][v])
    BY <1>1 DEF Tick, Base, TypeOK
  <2>2. ASSUME NEW a \in Apps, NEW v \in Versions
        PROVE  /\ known'[a][v] \in Ages \cup {NoAge}
               /\ known[a][v] \in Ages => known'[a][v] \in Ages /\ known[a][v] <= known'[a][v]
    <3>1. PICK k \in Ages \cup {NoAge} : k = known[a][v]
      BY <2>1
    <3>2. known'[a][v] = Fresh(k)
      BY <2>1, <3>1
    <3>3. k \in Ages => k # NoAge
      BY NumbersType
    <3> QED
      BY <3>1, <3>2, <3>3, FreshType
  <2>3. Older
    BY <2>2 DEF Older
  <2>4. ASSUME NEW a \in Apps, row'[a].avail # NoVersion, row'[a].age # NoAge
        PROVE  /\ known'[a][row'[a].avail] \in Ages
               /\ row'[a].age <= known'[a][row'[a].avail]
    <3>1. row'[a] = [row[a] EXCEPT !.age = Fresh(row[a].age)]
      BY <1>1 DEF Tick
    <3>2. PICK age \in Ages \cup {NoAge}, v \in Versions \cup {NoVersion} :
            age = row[a].age /\ v = row[a].avail
      BY <1>0 DEF Rows
    <3>3. row'[a].age = Fresh(age) /\ row'[a].avail = v
      BY <1>0, <3>1, <3>2 DEF Rows
    <3>4. age # NoAge /\ v \in Versions
      BY <2>4, <3>2, <3>3, FreshType
    <3>5. PICK k \in Ages : k = known[a][v] /\ age <= k
      BY <3>2, <3>4, SetsAssumption DEF Seasoned, Anchored
    <3>6. known'[a][v] = Fresh(k)
      BY <2>1, <3>4, <3>5
    <3>7. Fresh(age) <= Fresh(k) /\ Fresh(k) \in Ages
      <4>1. k # NoAge
        BY NumbersType
      <4> QED
        BY <3>4, <3>5, <4>1, FreshType
    <3> QED
      BY <3>3, <3>6, <3>7
  <2> QED
    BY <2>3, <2>4 DEF Anchored
<1>2. CASE CheckApp
  <2>1. PICK a \in Apps :
          \/ row' = row /\ known' = known
          \/ \E latest \in Versions \cup {NoVersion} :
               /\ Found(a, latest)
               /\ known' = IF latest # NoVersion /\ known[a][latest] = NoAge
                           THEN [known EXCEPT ![a][latest] = 0] ELSE known
    BY <1>2 DEF CheckApp
  <2>2. CASE row' = row /\ known' = known
    BY <2>2, SameOlder DEF Seasoned, Anchored
  <2>3. ASSUME NEW latest \in Versions \cup {NoVersion}, Found(a, latest),
               known' = IF latest # NoVersion /\ known[a][latest] = NoAge
                        THEN [known EXCEPT ![a][latest] = 0] ELSE known
        PROVE  Anchored' /\ Older
    <3>0. known \in [Apps -> [Versions -> Ages \cup {NoAge}]] /\ 0 \in Ages /\ NoAge \notin Ages
      BY NumbersType DEF Base, TypeOK
    <3>1. \A b \in Apps, v \in Versions :
            known'[b][v] = known[b][v] \/ (known[b][v] = NoAge /\ known'[b][v] = 0)
      <4>1. CASE known' = known
        BY <4>1
      <4>2. CASE latest \in Versions /\ known[a][latest] = NoAge
                   /\ known' = [known EXCEPT ![a][latest] = 0]
        BY <3>0, <4>2
      <4> QED
        BY <2>3, <4>1, <4>2
    <3>2. Older
      BY <3>0, <3>1, NumbersType DEF Older, Ages
    <3>3. latest # NoVersion => known'[a][latest] \in Ages
      <4>1. CASE latest \in Versions /\ known[a][latest] = NoAge
        <5>1. latest # NoVersion
          BY <4>1, SetsAssumption
        <5>2. known' = [known EXCEPT ![a][latest] = 0]
          BY <2>3, <4>1, <5>1
        <5>3. known'[a][latest] = 0
          BY <3>0, <4>1, <5>2
        <5> QED
          BY <3>0, <5>3
      <4>2. CASE latest \in Versions /\ known[a][latest] # NoAge
        <5>1. known' = known
          BY <2>3, <4>2
        <5> QED
          BY <3>0, <4>2, <5>1
      <4> QED
        BY <4>1, <4>2
    <3>4. CASE row' = row
      BY <3>2, <3>4, AnchoredStays DEF Seasoned, KeepsAnchors
    <3>5. CASE row' # row
      <4>1. PICK age : age = IF latest = NoVersion THEN NoAge ELSE 0
        OBVIOUS
      <4>2. PICK s : s = [row[a] EXCEPT !.avail = latest, !.age = age]
        OBVIOUS
      <4>3. row' = [row EXCEPT ![a] = s]
        BY <1>0, <2>3, <3>5, <4>1, <4>2 DEF Found
      <4>4. s.avail = latest /\ s.age = age
        BY <1>0, <4>2 DEF Rows
      <4>5. ASSUME NEW b \in Apps, row'[b].avail # NoVersion, row'[b].age # NoAge
            PROVE  /\ known'[b][row'[b].avail] \in Ages
                   /\ row'[b].age <= known'[b][row'[b].avail]
        <5>1. CASE b = a
          <6>1. row'[b].avail = latest /\ row'[b].age = 0 /\ latest # NoVersion
            BY <1>0, <4>1, <4>3, <4>4, <4>5, <5>1
          <6>2. 0 <= known'[a][latest]
            BY <3>3, <6>1, NumbersType DEF Ages
          <6> QED
            BY <3>3, <5>1, <6>1, <6>2
        <5>2. CASE b # a
          <6>1. row'[b] = row[b]
            BY <1>0, <4>3, <5>2
          <6>2. row[b].avail \in Versions /\ row[b].age \in Ages
            BY <1>0, <4>5, <6>1 DEF Rows
          <6>3. known[b][row[b].avail] \in Ages /\ row[b].age <= known[b][row[b].avail]
            BY <4>5, <6>1 DEF Seasoned, Anchored
          <6>4. known'[b][row[b].avail] = known[b][row[b].avail]
            BY <3>0, <3>1, <6>2, <6>3
          <6> QED
            BY <6>1, <6>3, <6>4
        <5> QED
          BY <5>1, <5>2
      <4> QED
        BY <3>2, <4>5 DEF Anchored
    <3> QED
      BY <3>4, <3>5
  <2> QED
    BY <2>1, <2>2, <2>3
<1>3. CASE ~Tick /\ ~CheckApp
  <2>1. known' = known
    BY <1>3 DEF QuietNext, StartDownload, EndDownload, CheckStart, SetMaster, SetEnabled, Uninstall,
                CorePreflight, CoreRequest, UserSystemUpdate, SystemUpdateFails, Admin, Publish,
                history
  <2>2. KeepsAnchors
    <3>1. ASSUME NEW b \in BOOLEAN, SetMaster(b) PROVE KeepsAnchors
      BY <1>0, <3>1 DEF SetMaster, KeepsAnchors, Rows
    <3>2. ASSUME NEW b \in BOOLEAN, NEW a \in Apps, SetEnabled(a, b) PROVE KeepsAnchors
      <4>1. PICK s : s = IF b THEN [row[a] EXCEPT !.enabled = b, !.failures = 0, !.disabled = FALSE]
                         ELSE [row[a] EXCEPT !.enabled = b]
        OBVIOUS
      <4>2. row' = [row EXCEPT ![a] = s]
        BY <3>2, <4>1 DEF SetEnabled
      <4>3. s.avail = row[a].avail /\ s.age = row[a].age
        BY <1>0, <4>1 DEF Rows
      <4> QED
        BY <1>0, <4>2, <4>3 DEF KeepsAnchors
    <3>3. ASSUME NEW a \in Apps, Uninstall(a) PROVE KeepsAnchors
      <4>1. PICK s : s = [row[a] EXCEPT !.installed = FALSE, !.status = "idle"]
        OBVIOUS
      <4>2. row' = [row EXCEPT ![a] = s]
        BY <3>3, <4>1 DEF Uninstall
      <4>3. s.avail = row[a].avail /\ s.age = row[a].age
        BY <1>0, <4>1 DEF Rows
      <4> QED
        BY <1>0, <4>2, <4>3 DEF KeepsAnchors
    <3>4. CASE row' = row
      BY <3>4 DEF KeepsAnchors
    <3> QED
      BY <1>3, <3>1, <3>2, <3>3, <3>4 DEF QuietNext, StartDownload, EndDownload, CheckStart,
         CorePreflight, CoreRequest, UserSystemUpdate, SystemUpdateFails, Admin, Publish
  <2> QED
    BY <2>1, <2>2, SameOlder, AnchoredStays DEF Seasoned
<1> QED
  BY <1>1, <1>2, <1>3

(* A process's step finds nothing, and changes no row's anchor but to drop *)
(* it.                                                                     *)
LEMMA ProcessCooloff ==
  ASSUME Base, NEW p \in Updaters,
         Outside(p) \/ Works(p)
  PROVE  known' = known /\ KeepsAnchors
<1>0. /\ row = [a \in Apps |-> row[a]] /\ row \in [Apps -> Rows] /\ Placed(p, proc[p])
      /\ \A a \in Apps : row[a] \in Rows
  BY DEF Base, TypeOK
<1>1. known' = known
  BY DEF Outside, RunNext, Attempt, NextApp, RunEnds, RecordAppSuccess, RecordAppFailure, RunStep,
         Begin, AskUpdate, Works, Mark, UpdateSucceeds, UpdateFails, Refused, history
<1>2. ASSUME NEW a \in Apps, NEW s \in Rows, row' = [row EXCEPT ![a] = s],
             s.avail \in {row[a].avail, NoVersion}, s.age = row[a].age
      PROVE  KeepsAnchors
  BY <1>0, <1>2 DEF KeepsAnchors
<1>3. CASE p \in Runs /\ RecordAppSuccess(p)
  <2>1. PICK n : row' = [row EXCEPT ![proc[p].app].failures = n]
    BY <1>3 DEF RecordAppSuccess
  <2> QED
    BY <1>0, <1>1, <2>1 DEF KeepsAnchors, Rows
<1>4. CASE p \in Runs /\ RecordAppFailure(p)
  <2>1. PICK n, d : row' = [row EXCEPT ![proc[p].app].failures = n, ![proc[p].app].disabled = d]
    BY <1>4 DEF RecordAppFailure
  <2>2. PICK s : s = [row[proc[p].app] EXCEPT !.failures = n, !.disabled = d]
    OBVIOUS
  <2>3. proc[p].app \in Apps
    BY <1>0, <1>4 DEF RecordAppFailure, Placed, Working
  <2>4. row' = [row EXCEPT ![proc[p].app] = s]
    BY <1>0, <2>1, <2>2, <2>3
  <2>5. s.avail = row[proc[p].app].avail /\ s.age = row[proc[p].app].age
    BY <1>0, <2>2, <2>3 DEF Rows
  <2> QED
    BY <1>0, <1>1, <2>3, <2>4, <2>5 DEF KeepsAnchors
<1>5. CASE Works(p)
  <2>1. proc[p].pc \in {"refused", "mark", "work"} /\ proc[p].app \in Apps
    BY <1>0, <1>5 DEF Works, Mark, UpdateSucceeds, UpdateFails, Refused, Placed, Working
  <2> QED
    BY <1>1, <1>2, <1>5, <2>1, WorkRow
<1>6. CASE row' = row
  BY <1>1, <1>6 DEF KeepsAnchors
<1> QED
  BY <1>1, <1>3, <1>4, <1>5, <1>6 DEF Outside, RunNext, Attempt, NextApp, RunEnds, Begin, AskUpdate

(* A run takes up only what has been known long enough.                    *)
LEMMA AttemptRipe ==
  ASSUME Base, Seasoned, NEW r \in Runs, Attempt(r)
  PROVE  Ripe(proc'[r], known)
<1>1. r \in Updaters
  BY DEF Updaters
<1>2. CASE proc' = proc
  BY <1>2 DEF Seasoned
<1>3. CASE proc' # proc
  <2>1. PICK todo : todo = [a \in EligibleApps |-> [target |-> row[a].avail,
                       status |-> row[a].status, failures |-> row[a].failures]]
    OBVIOUS
  <2>2. Becomes(r, [NoProc EXCEPT !.pc = "next", !.todo = todo])
    BY <1>3, <2>1 DEF Attempt
  <2>3. proc'[r] = [NoProc EXCEPT !.pc = "next", !.todo = todo]
    BY <1>1, <2>2, BecomesOthers
  <2>4. proc'[r].todo = todo
    BY <2>3 DEF NoProc
  <2>5. ASSUME NEW a \in DOMAIN todo PROVE known[a][todo[a].target] = Cooloff
    <3>1. a \in Apps /\ todo[a].target = row[a].avail /\ row[a].avail # NoVersion
            /\ row[a].age = Cooloff
      BY <2>1, <2>5 DEF EligibleApps, Eligible
    <3>2. known[a][row[a].avail] \in Ages /\ Cooloff <= known[a][row[a].avail]
      BY <3>1, NumbersType DEF Seasoned, Anchored
    <3>3. known[a][row[a].avail] = Cooloff
      BY <3>2, NumbersType DEF Ages
    <3> QED
      BY <3>1, <3>3
  <2> QED
    BY <2>4, <2>5 DEF Ripe
<1> QED
  BY <1>2, <1>3

LEMMA SeasonedStep == Base /\ Seasoned /\ [Next]_vars => Seasoned'
<1> SUFFICES ASSUME Base, Seasoned, [Next]_vars PROVE Seasoned'
  OBVIOUS
<1>0. \A r \in Runs : r \in Updaters /\ Ripe(proc[r], known)
  BY DEF Seasoned, Updaters
<1>1. CASE QuietNext
  <2>1. Anchored' /\ Older /\ proc' = proc
    BY <1>1, QuietCooloff, QuietSteps
  <2>2. \A p \in Updaters : Shrinks(p)
    BY <2>1 DEF Shrinks
  <2>3. \A r \in Runs : Ripe(proc'[r], known')
    BY <1>0, <2>1, <2>2, RipeStays
  <2> QED
    BY <2>1, <2>3 DEF Seasoned
<1>2. CASE Recreate
  <2>1. row' = row /\ known' = known /\ proc' = [p \in Updaters |-> NoProc]
    BY <1>2 DEF Recreate
  <2>2. Ripe(NoProc, known)
    BY NoProcType, EmptyType DEF Ripe
  <2>3. \A r \in Runs : proc'[r] = NoProc
    BY <1>0, <2>1
  <2> QED
    BY <2>1, <2>2, <2>3 DEF Seasoned, Anchored
<1>3. ASSUME NEW p \in Updaters,
             Outside(p) \/ Works(p)
      PROVE  Seasoned'
  <2>1. known' = known /\ KeepsAnchors
    BY <1>3, ProcessCooloff
  <2>2. Older /\ Anchored'
    BY <2>1, SameOlder, AnchoredStays DEF Seasoned
  <2>3. \A u \in Updaters \ {p} : proc'[u] = proc[u]
    BY <1>3, OutsideSteps, WorkOthers
  <2>4. p \in Runs => Ripe(proc'[p], known')
    <3>1. CASE p \in Runs /\ Attempt(p)
      BY <2>1, <3>1, AttemptRipe
    <3>2. CASE ~(p \in Runs /\ Attempt(p))
      <4>1. Shrinks(p)
        BY <1>3, <3>2, TodoShrinks
      <4> QED
        BY <1>0, <2>2, <4>1, RipeStays
    <3> QED
      BY <3>1, <3>2
  <2>5. \A r \in Runs : Ripe(proc'[r], known')
    BY <1>0, <2>1, <2>3, <2>4
  <2> QED
    BY <2>2, <2>5 DEF Seasoned
<1>4. CASE UNCHANGED vars
  BY <1>4 DEF Seasoned, Anchored, vars
<1> QED
  BY <1>1, <1>2, <1>3, <1>4, NextSteps

(* No run holds a target that was not found at least the cool-off before,  *)
(* whatever checks, updates and saves of older readings did to the row.    *)
THEOREM CoolOffHolds == Spec => []CoolOffHonest
<1>1. Init => Seasoned
  <2> SUFFICES ASSUME Init PROVE Seasoned
    OBVIOUS
  <2>1. \A a \in Apps : row[a].avail = NoVersion
    BY DEF Init
  <2>2. Ripe(NoProc, known)
    BY NoProcType, EmptyType DEF Ripe
  <2>3. \A r \in Runs : proc[r] = NoProc
    BY DEF Init, Updaters
  <2> QED
    BY <2>1, <2>2, <2>3 DEF Seasoned, Anchored
<1>2. Seasoned => CoolOffHonest
  BY DEF Seasoned, Ripe, CoolOffHonest
<1> QED
  BY <1>1, <1>2, BaseInit, BaseStep, SeasonedStep, PTL DEF Spec
=============================================================================
