------------------------- MODULE ContentAutoUpdate --------------------------
(***************************************************************************)
(* The hourly update of installed content                                  *)
(* (admin/app/services/content_auto_update_service.ts,                     *)
(* utils/update_window.ts, utils/content_auto_update_backoff.ts,           *)
(* reconcileResourceUpdateState of kiwix_catalog_service.ts, applyUpdate   *)
(* and checkForUpdates of collection_update_service.ts; downloads, in      *)
(* outline, from ContentDownload).                                         *)
(*                                                                         *)
(* A run loads the rows, looks every resource up in the catalogs, notes on *)
(* the rows what is available and since when, and starts as many downloads *)
(* as a budget of bytes per window allows.  It never waits for them: they  *)
(* end in the downloads' worker, which counts their failures.              *)
(***************************************************************************)
EXTENDS Naturals, FiniteSets, Sequences

CONSTANTS
  Resources,
  Size,            \* bytes of their newer versions, 0 where the catalog says none
  Cap,             \* maxBytesPerWindow, where there is one
  Versions,        \* a greater number is a newer one
  NoVersion, NoAge,
  Day,             \* hours in a day
  Start, End,      \* of the window
  Cooloff,         \* hours
  MAX_CONSECUTIVE_FAILURES, \* of a resource: 3 in the code
  MAX_FEATURE_FAILURES,     \* 3 in the code
  MaxTroubles,     \* bound on failing lookups, failing steps and crashes
  MaxActs          \* bound on what users do

Hours == 0..(Day - 1)
Ages == 0..Cooloff  \* an age of Cooloff stands for that and more

ASSUME ResourcesAssumption ==
  /\ IsFiniteSet(Resources)
  /\ Size \in [Resources -> Nat]
  /\ Versions # {} /\ Versions \subseteq Nat /\ IsFiniteSet(Versions)
  /\ NoVersion \notin Versions /\ NoAge \notin Nat

ASSUME NumbersAssumption ==
  /\ Day \in Nat \ {0} /\ {Start, End} \subseteq Hours /\ Start # End
  /\ {Cooloff, MaxTroubles, MaxActs} \subseteq Nat
  /\ {Cap, MAX_CONSECUTIVE_FAILURES, MAX_FEATURE_FAILURES} \subseteq Nat \ {0}

VARIABLES
  hour,      \* the time of day
  due,       \* the hour's job waits for its worker
  kv,        \* contentAutoUpdate.*, with the hours since windowResetAt
  row,       \* the installed resources
  order,     \* the resources, the longest installed first
  catalog,   \* the newest versions upstream
  jobs,      \* downloads
  run,       \* ContentAutoUpdateJob
  manual,    \* the rows as "Check for updates" read them
  acts, troubles,
  seen,      \* history: hours since a version was first found
  spent,     \* history: bytes of the downloads started since the window opened
  lost       \* history: a run that started downloads was cut short

bounds == <<acts, troubles>>
history == <<seen, spent, lost>>
vars == <<hour, due, kv, row, order, catalog, jobs, run, manual, acts, troubles,
          seen, spent, lost>>

(* A run's rows as it loaded and noted them, the resources still to go in   *)
(* their order, what is left of the budget and what it took of it.         *)
NoRun == [pc |-> "idle", rows |-> <<>>, todo |-> <<>>, left |-> 0, bytes |-> 0]

Orders ==
  {o \in [1..Cardinality(Resources) -> Resources] :
     \A i, j \in DOMAIN o : o[i] = o[j] => i = j}

Live(j) == jobs[j[1]][j[2]] = "live"
AnyLive == \E j \in Resources \X Versions : Live(j)

Init ==
  /\ hour = 0 /\ due = FALSE
  /\ kv = [enabled |-> TRUE, used |-> 0, reset |-> NoAge, failures |-> 0]
  /\ \E v \in Versions :
       /\ row = [r \in Resources |-> [version |-> v, avail |-> NoVersion, age |-> NoAge,
                                      failures |-> 0, disabled |-> FALSE]]
       /\ catalog = [r \in Resources |-> v]
  /\ order \in Orders
  /\ jobs = [r \in Resources |-> [v \in Versions |-> "none"]]
  /\ run = NoRun /\ manual = <<>>
  /\ acts = 0 /\ troubles = 0
  /\ seen = [r \in Resources |-> [v \in Versions |-> NoAge]]
  /\ spent = 0 /\ lost = FALSE

-----------------------------------------------------------------------------
(* The window.                                                             *)

(* isWithinWindow.                                                         *)
WithinWindow ==
  IF Start < End THEN Start <= hour /\ hour < End ELSE Start <= hour \/ hour < End

(* Variations: the window opened today, also past midnight; the budget is  *)
(* reset once and for all.                                                 *)
WindowReset_today == kv.reset = NoAge \/ hour < Start \/ kv.reset > hour - Start
WindowReset_once == kv.reset = NoAge

(* windowStartBoundary, as the hours since then.                           *)
SinceOpen == IF Start <= hour THEN hour - Start ELSE Day - Start + hour

(* maybeResetWindowBudget: the last reset is older than the window.        *)
WindowReset == kv.reset = NoAge \/ kv.reset > SinceOpen

Fresh(age, limit) == IF age = NoAge \/ age = limit THEN age ELSE age + 1

(* On the hour the scheduler adds the job; an hour is time enough for a    *)
(* run and for a check.                                                    *)
Tick ==
  /\ ~due /\ run.pc = "idle" /\ manual = <<>>
  /\ hour' = IF hour + 1 = Day THEN 0 ELSE hour + 1
  /\ due' = TRUE
  /\ kv' = [kv EXCEPT !.reset = Fresh(@, Day)]
  /\ row' = [r \in Resources |-> [row[r] EXCEPT !.age = Fresh(@, Cooloff)]]
  /\ seen' = [r \in Resources |-> [v \in Versions |-> Fresh(seen[r][v], Cooloff)]]
  /\ spent' = IF hour' = Start THEN 0 ELSE spent
  /\ UNCHANGED <<order, catalog, jobs, run, manual, bounds, lost>>

-----------------------------------------------------------------------------
(* Checks: rows are loaded, looked up, and what is found noted on them.    *)

(* Variation: every check notes the time.                                  *)
Noted_everyTime(s, latest) ==
  IF latest # NoVersion /\ latest > s.version THEN [s EXCEPT !.avail = latest, !.age = 0]
  ELSE [s EXCEPT !.avail = NoVersion, !.age = NoAge]

(* reconcileResourceUpdateState on a row as it was loaded; NoVersion is a  *)
(* lookup that found nothing, or failed.                                   *)
Noted(s, latest) ==
  IF latest # NoVersion /\ latest > s.version
  THEN IF s.avail = latest THEN s ELSE [s EXCEPT !.avail = latest, !.age = 0]
  ELSE [s EXCEPT !.avail = NoVersion, !.age = NoAge]

(* The save writes the columns that changed.                               *)
Saved(r, old, new) ==
  IF new.avail = old.avail /\ new.age = old.age THEN row[r]
  ELSE [row[r] EXCEPT !.avail = new.avail, !.age = new.age]

Lookups(failing) == [r \in Resources |-> IF r \in failing THEN NoVersion ELSE catalog[r]]

(* getLatestForResources and the loop after it, for rows loaded before.    *)
Reconcile(rows, failing) ==
  LET latest == Lookups(failing)
      found(r) == latest[r] # NoVersion /\ latest[r] > rows[r].version
  IN /\ row' = [r \in Resources |-> Saved(r, rows[r], Noted(rows[r], latest[r]))]
     /\ seen' = [r \in Resources |-> [v \in Versions |->
                  IF found(r) /\ v = latest[r] /\ seen[r][v] = NoAge THEN 0
                  ELSE seen[r][v]]]

Trouble(happens) ==
  /\ happens => troubles < MaxTroubles
  /\ troubles' = IF happens THEN troubles + 1 ELSE troubles

ManualLoad ==
  /\ acts < MaxActs /\ acts' = acts + 1
  /\ manual = <<>> /\ manual' = row
  /\ UNCHANGED <<hour, due, kv, row, order, catalog, jobs, run, troubles, history>>

ManualReconcile ==
  /\ manual # <<>> /\ manual' = <<>>
  /\ \E failing \in SUBSET Resources :
       Trouble(failing # {}) /\ Reconcile(manual, failing)
  /\ UNCHANGED <<hour, due, kv, order, catalog, jobs, run, acts, spent, lost>>

-----------------------------------------------------------------------------
(* ContentAutoUpdateService.attempt.                                       *)

Elsewhere == UNCHANGED <<hour, catalog, manual, acts, seen>>

(* The settings are read, the budget of a new window is reset and the rows *)
(* are loaded.                                                             *)
Attempt ==
  /\ due /\ due' = FALSE
  /\ run.pc = "idle"
  /\ IF kv.enabled /\ WithinWindow
     THEN /\ kv' = IF WindowReset THEN [kv EXCEPT !.used = 0, !.reset = 0] ELSE kv
          /\ run' = [NoRun EXCEPT !.pc = "check", !.rows = row, !.todo = order]
     ELSE kv' = kv /\ run' = run
  /\ UNCHANGED <<row, order, jobs, troubles, spent, lost>> /\ Elsewhere

Check ==
  /\ run.pc = "check"
  /\ \E failing \in SUBSET Resources :
       /\ Trouble(failing # {})
       /\ Reconcile(run.rows, failing)
       /\ run' = [run EXCEPT !.pc = "select", !.rows =
                    [r \in Resources |-> Noted(@[r], Lookups(failing)[r])]]
  /\ UNCHANGED <<hour, due, kv, order, catalog, jobs, manual, acts, spent, lost>>

(* Variation: found is enough.                                             *)
Eligible_noCooloff(s) ==
  s.avail # NoVersion /\ ~s.disabled /\ s.avail > s.version /\ s.age # NoAge

(* resourceEligibility.                                                    *)
Eligible(s) ==
  s.avail # NoVersion /\ ~s.disabled /\ s.avail > s.version /\ s.age = Cooloff

(* recordFeatureSuccess.                                                   *)
Clean == kv' = [kv EXCEPT !.failures = 0]

(* Nothing is eligible; or runGlobalPreflight ends the run because a       *)
(* download is on its way, unless the listing fails.                       *)
Select ==
  LET none == \A r \in Resources : ~Eligible(run.rows[r])
  IN /\ run.pc = "select"
     /\ \/ (none \/ AnyLive) /\ run' = NoRun /\ Clean /\ troubles' = troubles
        \/ /\ ~none /\ Trouble(AnyLive)
           /\ run' = [run EXCEPT !.pc = "start",
                                 !.left = IF kv.used < Cap THEN Cap - kv.used ELSE 0]
           /\ kv' = kv
     /\ UNCHANGED <<due, row, order, jobs, spent, lost>> /\ Elsewhere

(* Variation: one failure too many.                                        *)
ResourceFailure_late(r, failures) ==
  row' = [row EXCEPT ![r].failures = failures + 1,
                     ![r].disabled = @ \/ failures = MAX_CONSECUTIVE_FAILURES]

(* recordResourceUpdateFailure, on a row as it was read. Failures beyond    *)
(* the limit (a run can start a resource that was disabled since it loaded *)
(* the row) count as the limit.                                            *)
ResourceFailure(r, failures) ==
  LET more == IF failures < MAX_CONSECUTIVE_FAILURES THEN failures + 1 ELSE failures
  IN row' = [row EXCEPT ![r].failures = more,
                        ![r].disabled = @ \/ more = MAX_CONSECUTIVE_FAILURES]

(* selectUnderCap, resource by resource: it fits what is left of the       *)
(* budget. A size that is not known never does.                            *)
Fits(r) == Eligible(run.rows[r]) /\ 0 < Size[r] /\ Size[r] <= run.left

(* applyUpdate: a download on its way is a failure; one that is over but   *)
(* still in the queue is taken for a new one.                              *)
StartNext(r) ==
  LET v == run.rows[r].avail
      rest == [run EXCEPT !.todo = Tail(@)]
      charged == [rest EXCEPT !.left = @ - Size[r]]
  IN /\ run.pc = "start" /\ run.todo # <<>> /\ r = Head(run.todo)
     /\ \/ ~Fits(r) /\ run' = rest /\ UNCHANGED <<row, jobs, spent>>
        \/ /\ Fits(r) /\ Live(<<r, v>>)
           /\ run' = charged
           /\ ResourceFailure(r, run.rows[r].failures)
           /\ UNCHANGED <<jobs, spent>>
        \/ /\ Fits(r) /\ ~Live(<<r, v>>)
           /\ run' = [charged EXCEPT !.bytes = @ + Size[r]]
           /\ jobs' = [jobs EXCEPT ![r][v] = IF @ = "none" THEN "live" ELSE @]
           /\ spent' = IF jobs[r][v] = "none" THEN spent + Size[r] ELSE spent
           /\ row' = row
     /\ UNCHANGED <<due, kv, order, troubles, lost>> /\ Elsewhere

(* addWindowBytesUsed and recordFeatureSuccess.                            *)
Finish ==
  /\ run.pc = "start" /\ run.todo = <<>>
  /\ kv' = [kv EXCEPT !.used = @ + run.bytes, !.failures = 0]
  /\ run' = NoRun
  /\ UNCHANGED <<due, row, order, jobs, troubles, spent, lost>> /\ Elsewhere

CutShort == run' = NoRun /\ lost' = (lost \/ run.bytes > 0)

(* A step of the run throws: recordFeatureFailure.                         *)
Fail ==
  /\ run.pc # "idle" /\ Trouble(TRUE)
  /\ CutShort
  /\ kv' = [kv EXCEPT !.failures = IF @ < MAX_FEATURE_FAILURES THEN @ + 1 ELSE @,
                      !.enabled = @ /\ kv.failures + 1 < MAX_FEATURE_FAILURES]
  /\ UNCHANGED <<due, row, order, jobs, spent>> /\ Elsewhere

(* The admin goes down; the job of the run is taken up again.              *)
Crash ==
  /\ Trouble(TRUE)
  /\ due' = (due \/ run.pc # "idle")
  /\ CutShort
  /\ manual' = <<>>
  /\ UNCHANGED <<hour, kv, row, order, catalog, jobs, acts, seen, spent>>

-----------------------------------------------------------------------------
(* The downloads, the catalogs and the users.                              *)

Mostly == UNCHANGED <<hour, due, run, manual, troubles, history>>

(* RunDownloadJob's onComplete, with recordResourceUpdateSuccess; the job  *)
(* is removed.                                                             *)
Complete(r, v) ==
  /\ Live(<<r, v>>)
  /\ jobs' = [jobs EXCEPT ![r][v] = "none"]
  /\ row' = [row EXCEPT ![r] = [@ EXCEPT !.version = v, !.failures = 0, !.disabled = FALSE]]
  /\ \E i \in DOMAIN order :
       /\ order[i] = r
       /\ order' = SubSeq(order, 1, i - 1) \o SubSeq(order, i + 1, Len(order)) \o <<r>>
  /\ UNCHANGED <<kv, catalog, acts>> /\ Mostly

(* The last attempt failed; the job stays in the queue.                    *)
GiveUp(r, v) ==
  /\ Live(<<r, v>>)
  /\ jobs' = [jobs EXCEPT ![r][v] = "failed"]
  /\ ResourceFailure(r, row[r].failures)
  /\ UNCHANGED <<kv, order, catalog, acts>> /\ Mostly

(* A cancel, and the removal from the list of failed downloads.            *)
Cancel(r, v) ==
  /\ acts < MaxActs /\ acts' = acts + 1
  /\ Live(<<r, v>>)
  /\ jobs' = [jobs EXCEPT ![r][v] = "none"]
  /\ UNCHANGED <<kv, row, order, catalog>> /\ Mostly

Dismiss(r, v) ==
  /\ jobs[r][v] = "failed"
  /\ jobs' = [jobs EXCEPT ![r][v] = "none"]
  /\ UNCHANGED <<kv, row, order, catalog, acts>> /\ Mostly

Publish(r, v) ==
  /\ v > catalog[r]
  /\ catalog' = [catalog EXCEPT ![r] = v]
  /\ UNCHANGED <<kv, row, order, jobs, acts>> /\ Mostly

(* updateSetting: switching it on clears every back-off.                   *)
SetEnabled(b) ==
  /\ acts < MaxActs /\ acts' = acts + 1
  /\ kv' = IF b THEN [kv EXCEPT !.enabled = b, !.failures = 0]
           ELSE [kv EXCEPT !.enabled = b]
  /\ row' = IF b THEN [r \in Resources |->
                         [row[r] EXCEPT !.failures = 0, !.disabled = FALSE]] ELSE row
  /\ UNCHANGED <<order, catalog, jobs>> /\ Mostly

-----------------------------------------------------------------------------
RunNext == Check \/ Select \/ (\E r \in Resources : StartNext(r)) \/ Finish
DownloadEnds(r, v) == Complete(r, v) \/ GiveUp(r, v)

Next ==
  \/ Tick \/ Attempt \/ RunNext \/ Fail \/ Crash
  \/ ManualLoad \/ ManualReconcile
  \/ \E r \in Resources, v \in Versions :
       DownloadEnds(r, v) \/ Cancel(r, v) \/ Dismiss(r, v) \/ Publish(r, v)
  \/ \E b \in BOOLEAN : SetEnabled(b)

Spec == Init /\ [][Next]_vars

(* Hours pass, the worker takes up the job and ends it, downloads end.     *)
FairSpec ==
  /\ Spec
  /\ WF_vars(Tick) /\ WF_vars(Attempt) /\ WF_vars(RunNext) /\ WF_vars(ManualReconcile)
  /\ \A r \in Resources, v \in Versions : WF_vars(DownloadEnds(r, v))

-----------------------------------------------------------------------------
Settings == [enabled : BOOLEAN, used : Nat, reset : 0..Day \cup {NoAge},
             failures : 0..MAX_FEATURE_FAILURES]
Rows == [version : Versions, avail : Versions \cup {NoVersion}, age : Ages \cup {NoAge},
         failures : 0..MAX_CONSECUTIVE_FAILURES, disabled : BOOLEAN]
Tables == [Resources -> Rows]
RunStates == [pc : {"idle", "check", "select", "start"}, rows : Tables \cup {<<>>},
              todo : Seq(Resources), left : Nat, bytes : Nat]

TypeOK ==
  /\ hour \in Hours /\ due \in BOOLEAN
  /\ kv \in Settings
  /\ row \in Tables
  /\ order \in Seq(Resources)
  /\ catalog \in [Resources -> Versions]
  /\ jobs \in [Resources -> [Versions -> {"none", "live", "failed"}]]
  /\ run \in RunStates /\ (run.pc # "idle" => run.rows \in Tables)
  /\ manual \in Tables \cup {<<>>}
  /\ acts \in 0..MaxActs /\ troubles \in 0..MaxTroubles
  /\ seen \in [Resources -> [Versions -> Ages \cup {NoAge}]]
  /\ spent \in Nat /\ lost \in BOOLEAN

(* "Max NEW bytes initiated per window instance" (content_auto_update_     *)
(* service.ts:38): however many hours the window spans, across midnight    *)
(* too, the downloads started in it fit the cap, unless a run was cut      *)
(* short before it wrote down what it had started.                         *)
BudgetKept == lost \/ spent <= Cap

(* Nothing is started that was not first found at least Cooloff hours ago, *)
(* whatever manual checks and failing lookups did to the row meanwhile.    *)
AnchorHonest ==
  run.pc = "start" =>
    \A r \in Resources : Eligible(run.rows[r]) => seen[r][run.rows[r].avail] = Cooloff

(* The anchor of an update that is still upstream and not installed.       *)
Anchored(r) == row[r].avail = catalog[r] /\ catalog[r] > row[r].version

(* "so a manual "Check for updates" never resets the auto cool-off clock"  *)
(* (kiwix_catalog_service.ts:307): no check moves such an anchor.          *)
CheckKeepsAnchor ==
  [][\A r \in Resources :
       Anchored(r) /\ (manual' # manual \/ run' # run) => row'[r].age = row[r].age]_vars

(* An older download of the resource ended after a newer one, and after a  *)
(* check loaded the row: what is installed went back.                      *)
WentBack(r) ==
  \E rows \in {manual, run.rows} : rows # <<>> /\ rows[r].version > row[r].version

(* That holds of every check whose lookups all went well, whatever another *)
(* check or a download did to the rows since it loaded them, except        *)
(* bringing back an older version.                                         *)
GoodCheckKeepsAnchor ==
  [][\A r \in Resources :
       Anchored(r) /\ ~WentBack(r) /\ (manual' # manual \/ run' # run)
         => troubles' # troubles \/ row'[r].age = row[r].age]_vars

(* Something the run could still do for a resource, sooner or later.       *)
Wanting(r) ==
  /\ kv.enabled /\ ~row[r].disabled /\ Size[r] \in 1..Cap
  /\ catalog[r] > row[r].version

(* "Fit the cap but not this window's remaining budget - retried next      *)
(* window" (content_auto_update_service.ts:56): as long as users clear     *)
(* failed downloads away, every resource that fits is brought up to date   *)
(* or backed off from in the end: none is starved by the others.           *)
NoneStarves ==
  []<>(\A r \in Resources, v \in Versions : jobs[r][v] # "failed")
    => \A r \in Resources : <>[]~Wanting(r)
=============================================================================
