--------------------------- MODULE AppAutoUpdate ----------------------------
(***************************************************************************)
(* The hourly update of the installed apps and what runs beside it         *)
(* (admin/app/services/app_auto_update_service.ts,                         *)
(* jobs/app_auto_update_job.ts, jobs/check_service_updates_job.ts,         *)
(* commands/queue/work.ts, and from other modules of this project, in      *)
(* outline: updateContainer, the settings, updates of the admin itself).   *)
(*                                                                         *)
(* Everything meets in the rows of the services table.  `queue:work --all` *)
(* starts a worker for each kind of job, four of them for the queue        *)
(* `system`: a run that is still pulling images does not keep the next     *)
(* hour's from starting.  Each run works from rows it read at its start,   *)
(* and a save writes the columns it changed, over whatever they hold now.  *)
(***************************************************************************)
EXTENDS Naturals, FiniteSets

CONSTANTS
  Apps,            \* ids of rows; runs go through them in this order
  Versions,        \* tags; a greater number is a newer one
  MajorOf,         \* their major versions
  Runs,            \* workers that may run AppAutoUpdateJob
  Users,           \* requests of the Update button
  NoVersion, NoAge,
  Day,             \* hours in a day
  Window,          \* those of the update window
  Cooloff,         \* hours a version has to be known
  MAX_CONSECUTIVE_FAILURES, \* 3 in the code
  MaxActs          \* bound on what users do

Updaters == Runs \cup Users
Ages == 0..Cooloff  \* an age of Cooloff stands for that and more

ASSUME SetsAssumption ==
  /\ Apps \subseteq Nat /\ IsFiniteSet(Apps)
  /\ Versions # {} /\ Versions \subseteq Nat /\ IsFiniteSet(Versions)
  /\ MajorOf \in [Versions -> Nat]
  /\ Runs \cap Users = {}
  /\ NoVersion \notin Versions

ASSUME NumbersAssumption ==
  /\ Day \in Nat \ {0} /\ Window \subseteq 0..(Day - 1)
  /\ Cooloff \in Nat /\ NoAge \notin Ages
  /\ MAX_CONSECUTIVE_FAILURES \in Nat \ {0} /\ MaxActs \in Nat

VARIABLES
  row,       \* the rows of the services table
  master,    \* appAutoUpdate.enabled
  hour,      \* the time of day
  due,       \* the hour's job waits for a worker
  proc,      \* runs and requests in progress
  check,     \* the apps CheckServiceUpdatesJob has yet to look up, as it read them
  published, \* the tags in the registry
  admin,     \* updates of the admin
  downloading, \* a download is waiting, delayed or active
  acts,      \* what users did so far
  known,     \* history: hours since a check first found a version
  strikes,   \* history: failed updates of an app, up to the limit
  killed     \* history: the mark of the app is that of an update that died with the admin

history == <<known, strikes, killed>>
settings == <<master, acts>>
world == <<published, downloading>>
vars == <<row, master, hour, due, proc, check, published, admin, downloading, acts,
          known, strikes, killed>>

Pcs == {"idle", "next", "begin", "refused", "mark", "work", "updated", "failed"}

(* A run's rows still to go, as it read them, and the update at hand: the  *)
(* app, the target and what updateContainer read of the row.               *)
NoProc == [pc |-> "idle", todo |-> <<>>, app |-> 0, target |-> NoVersion,
           image |-> NoVersion, avail |-> NoVersion]

First(a, S) == a \in S /\ \A b \in S : a <= b
Without(f, a) == [b \in DOMAIN f \ {a} |-> f[b]]

(* Apps that opted in, before the first check; an update by hand may have  *)
(* died with an earlier admin.                                             *)
Init ==
  /\ killed \in [Apps -> BOOLEAN]
  /\ \E image \in [Apps -> Versions] :
       row = [a \in Apps |-> [installed |-> TRUE, enabled |-> TRUE, image |-> image[a],
                status |-> IF killed[a] THEN "installing" ELSE "idle",
                avail |-> NoVersion, age |-> NoAge, failures |-> 0, disabled |-> FALSE]]
  /\ published = {v \in Versions : \E a \in Apps : v <= row[a].image}
  /\ master = TRUE
  /\ hour = 0 /\ due = FALSE
  /\ proc = [p \in Updaters |-> NoProc]
  /\ check = <<>>
  /\ admin = [core |-> "idle", system |-> "idle"]
  /\ downloading = FALSE
  /\ acts = 0
  /\ known = [a \in Apps |-> [v \in Versions |-> NoAge]]
  /\ strikes = [a \in Apps |-> 0]

-----------------------------------------------------------------------------
(* Time, the registry and the users.                                       *)

Fresh(age) == IF age = NoAge THEN NoAge ELSE IF age < Cooloff THEN age + 1 ELSE age

(* On the hour the scheduler adds the job; an hour is time enough for a    *)
(* worker that has nothing else to do to take up the last one.             *)
Tick ==
  /\ ~(due /\ \E r \in Runs : proc[r].pc = "idle")
  /\ hour' = IF hour + 1 = Day THEN 0 ELSE hour + 1
  /\ due' = TRUE
  /\ row' = [a \in Apps |-> [row[a] EXCEPT !.age = Fresh(@)]]
  /\ known' = [a \in Apps |-> [v \in Versions |-> Fresh(known[a][v])]]
  /\ UNCHANGED <<settings, world, proc, check, admin, strikes, killed>>

Publish(v) ==
  /\ \A w \in published : w < v
  /\ published' = published \cup {v}
  /\ UNCHANGED <<row, settings, hour, due, proc, check, admin, downloading, history>>

Act == acts < MaxActs /\ acts' = acts + 1

(* updateSetting: switching it on clears every app's back-off.             *)
SetMaster(b) ==
  /\ Act
  /\ master' = b
  /\ row' = IF b THEN [a \in Apps |-> [row[a] EXCEPT !.failures = 0, !.disabled = FALSE]]
            ELSE row
  /\ UNCHANGED <<world, hour, due, proc, check, admin, history>>

(* setServiceAutoUpdate: so does an app's own switch.                      *)
SetEnabled(a, b) ==
  /\ Act
  /\ row' = [row EXCEPT ![a] =
       IF b THEN [@ EXCEPT !.enabled = b, !.failures = 0, !.disabled = FALSE]
       ELSE [@ EXCEPT !.enabled = b]]
  /\ UNCHANGED <<master, world, hour, due, proc, check, admin, history>>

Uninstall(a) ==
  /\ Act /\ row[a].installed
  /\ row' = [row EXCEPT ![a] = [@ EXCEPT !.installed = FALSE, !.status = "idle"]]
  /\ killed' = [killed EXCEPT ![a] = FALSE]
  /\ UNCHANGED <<master, world, hour, due, proc, check, admin, known, strikes>>

StartDownload ==
  /\ Act /\ ~downloading
  /\ downloading' = TRUE
  /\ UNCHANGED <<row, master, hour, due, proc, check, published, admin, history>>

EndDownload ==
  /\ downloading
  /\ downloading' = FALSE
  /\ UNCHANGED <<row, settings, hour, due, proc, check, published, admin, history>>

-----------------------------------------------------------------------------
(* CheckServiceUpdatesJob: reads the installed rows, then looks up each.   *)

CheckStart ==
  /\ check = <<>>
  /\ check' = [a \in {b \in Apps : row[b].installed} |->
                [image |-> row[a].image, avail |-> row[a].avail]]
  /\ UNCHANGED <<row, settings, world, hour, due, proc, admin, history>>

(* getAvailableUpdates: the newest newer tag of the major version.         *)
IsLatest(latest, image) ==
  LET newer == {v \in published : v > image /\ MajorOf[v] = MajorOf[image]}
  IN IF newer = {} THEN latest = NoVersion
     ELSE latest \in newer /\ \A v \in newer : v <= latest

(* The anchor of the cool-off moves when the version differs from the one  *)
(* the job read.                                                           *)
Found(a, latest) ==
  row' = IF latest = check[a].avail THEN row
         ELSE [row EXCEPT ![a].avail = latest,
                          ![a].age = IF latest = NoVersion THEN NoAge ELSE 0]

(* A lookup that fails leaves the row alone.                               *)
CheckApp ==
  /\ \E a \in Apps :
       /\ First(a, DOMAIN check)
       /\ check' = Without(check, a)
       /\ \/ row' = row /\ known' = known
          \/ \E latest \in Versions \cup {NoVersion} :
               /\ IsLatest(latest, check[a].image)
               /\ Found(a, latest)
               /\ known' = IF latest # NoVersion /\ known[a][latest] = NoAge
                           THEN [known EXCEPT ![a][latest] = 0] ELSE known
  /\ UNCHANGED <<settings, world, hour, due, proc, admin, strikes, killed>>

-----------------------------------------------------------------------------
(* AppAutoUpdateService.attempt.                                           *)

Becomes(p, q) == proc' = [proc EXCEPT ![p] = q]
Go(p, pc) == Becomes(p, [proc[p] EXCEPT !.pc = pc])

(* Variation: an unset cool-off is none.                                   *)
Eligible_noCooloff(s) ==
  /\ s.avail # NoVersion
  /\ ~s.disabled
  /\ MajorOf[s.avail] = MajorOf[s.image]
  /\ s.avail > s.image
  /\ s.age # NoAge

(* appEligibility.                                                         *)
Eligible(s) ==
  /\ s.avail # NoVersion
  /\ ~s.disabled
  /\ MajorOf[s.avail] = MajorOf[s.image]
  /\ s.avail > s.image
  /\ s.age = Cooloff

EligibleApps == {a \in Apps : row[a].installed /\ row[a].enabled /\ Eligible(row[a])}

(* The settings and the rows are read, once; runGlobalPreflight ends the   *)
(* run if a download is on its way, unless the listing fails.              *)
Attempt(r) ==
  /\ due /\ due' = FALSE
  /\ proc[r].pc = "idle"
  /\ IF master /\ hour \in Window /\ EligibleApps # {}
     THEN \/ Becomes(r, [NoProc EXCEPT !.pc = "next",
               !.todo = [a \in EligibleApps |-> [target |-> row[a].avail,
                           status |-> row[a].status, failures |-> row[a].failures]]])
          \/ downloading /\ proc' = proc
     ELSE proc' = proc
  /\ UNCHANGED <<row, settings, world, hour, check, admin, history>>

(* A run's step that changes nothing but the run and its app's row.        *)
RunStep ==
  /\ killed' = [a \in Apps |-> killed[a] /\ row'[a].status = "installing"]
  /\ UNCHANGED <<settings, world, hour, due, check, admin, known>>

Strike(a) ==
  strikes' = [strikes EXCEPT ![a] = IF @ < MAX_CONSECUTIVE_FAILURES THEN @ + 1 ELSE @]

(* The end of an update, good or bad; a user's is over.                    *)
Ends(p, pc) ==
  IF p \in Runs THEN Go(p, pc) ELSE Becomes(p, NoProc)
Fails(p) ==
  /\ Ends(p, "failed")
  /\ IF p \in Runs THEN Strike(proc[p].app) ELSE strikes' = strikes

(* Variation: an app in use counts as a failure.                           *)
Preflight_busyFails(r, a) ==
  LET task == proc[r].todo[a]
      chosen == [proc[r] EXCEPT !.app = a, !.target = task.target]
  IN \/ Becomes(r, [chosen EXCEPT !.pc = "failed"]) /\ Strike(a)
     \/ /\ Becomes(r, [chosen EXCEPT !.pc =
                         IF task.status = "idle" THEN "begin" ELSE "failed"])
        /\ strikes' = strikes

(* runAppPreflight goes by the row read at the start: no room on the disk  *)
(* is a failure, an app in use is left for the next run.                   *)
Preflight(r, a) ==
  LET task == proc[r].todo[a]
      chosen == [proc[r] EXCEPT !.app = a, !.target = task.target]
  IN \/ Becomes(r, [chosen EXCEPT !.pc = "failed"]) /\ Strike(a)
     \/ /\ task.status # "idle"
        /\ Becomes(r, [proc[r] EXCEPT !.todo = Without(@, a)])
        /\ strikes' = strikes
     \/ /\ task.status = "idle"
        /\ Becomes(r, [chosen EXCEPT !.pc = "begin"])
        /\ strikes' = strikes

(* The next app of the run.                                                *)
NextApp(r) ==
  /\ proc[r].pc = "next"
  /\ \E a \in Apps : First(a, DOMAIN proc[r].todo) /\ Preflight(r, a)
  /\ row' = row /\ RunStep

RunEnds(r) ==
  /\ proc[r].pc = "next" /\ proc[r].todo = <<>>
  /\ Becomes(r, NoProc)
  /\ row' = row /\ strikes' = strikes /\ RunStep

(* Back to the loop with the app done.                                     *)
Continue(r) ==
  Becomes(r, [NoProc EXCEPT !.pc = "next", !.todo = Without(proc[r].todo, proc[r].app)])

(* recordAppSuccess and recordAppFailure save what they changed of the row *)
(* read at the start.                                                      *)
RecordAppSuccess(r) ==
  /\ proc[r].pc = "updated"
  /\ row' = [row EXCEPT ![proc[r].app].failures =
               IF proc[r].todo[proc[r].app].failures = 0 THEN @ ELSE 0]
  /\ Continue(r)
  /\ strikes' = strikes /\ RunStep

(* Variation: the app is never switched off.                               *)
RecordAppFailure_noLimit(r) ==
  LET a == proc[r].app
      failures == proc[r].todo[a].failures + 1
  IN /\ proc[r].pc = "failed"
     /\ row' = IF failures < MAX_CONSECUTIVE_FAILURES
               THEN [row EXCEPT ![a].failures = failures] ELSE row
     /\ Continue(r)
     /\ strikes' = strikes /\ RunStep

RecordAppFailure(r) ==
  LET a == proc[r].app
      failures == proc[r].todo[a].failures + 1
  IN /\ proc[r].pc = "failed"
     /\ row' = [row EXCEPT ![a].failures = failures,
                           ![a].disabled = @ \/ failures >= MAX_CONSECUTIVE_FAILURES]
     /\ Continue(r)
     /\ strikes' = strikes /\ RunStep

-----------------------------------------------------------------------------
(* updateContainer, in outline (ServiceLifecycle has its steps): the row   *)
(* is read and checked, marked, and reset whatever the outcome, also by an *)
(* update that was refused and marked nothing.                             *)

AskUpdate(u, a, v) ==
  /\ Act
  /\ proc[u].pc = "idle"
  /\ Becomes(u, [NoProc EXCEPT !.pc = "begin", !.app = a, !.target = v])
  /\ UNCHANGED <<row, master, world, hour, due, check, admin, history>>

(* The `finally`: the row is read again and reset.                         *)
Reset(s) == IF s.status = "installing" THEN [s EXCEPT !.status = "idle"] ELSE s

Begin(p) ==
  LET s == row[proc[p].app] IN
  /\ proc[p].pc = "begin"
  /\ IF s.installed /\ s.status # "installing"
     THEN Becomes(p, [proc[p] EXCEPT !.pc = "mark", !.image = s.image, !.avail = s.avail])
     ELSE Go(p, "refused")
  /\ row' = row /\ strikes' = strikes /\ RunStep

(* The mark it resets is that of the update in progress, if there is one,  *)
(* or what a dead one left.                                                *)
Refused(p) ==
  /\ proc[p].pc = "refused"
  /\ row' = [row EXCEPT ![proc[p].app] = Reset(@)]
  /\ Fails(p)
  /\ RunStep

Mark(p) ==
  /\ proc[p].pc = "mark"
  /\ row' = [row EXCEPT ![proc[p].app].status = "installing"]
  /\ Go(p, "work")
  /\ strikes' = strikes /\ RunStep

(* Variation: the version recorded is the available one.                   *)
UpdateSucceeds_toAvailable(p) ==
  LET q == proc[p] IN
  /\ q.pc = "work"
  /\ row' = [row EXCEPT ![q.app] =
       Reset([@ EXCEPT !.image = row[q.app].avail, !.avail = NoVersion])]
  /\ Ends(p, "updated")
  /\ strikes' = strikes /\ RunStep

UpdateSucceeds(p) ==
  LET q == proc[p]
      s == row[q.app]
  IN
  /\ q.pc = "work"
  /\ row' = [row EXCEPT ![q.app] =
       Reset([s EXCEPT !.image = IF q.target = q.image THEN s.image ELSE q.target,
                       !.avail = IF q.avail = NoVersion THEN s.avail ELSE NoVersion])]
  /\ Ends(p, "updated")
  /\ strikes' = strikes /\ RunStep

(* Variation: the row is reset on success only.                            *)
UpdateFails_staysMarked(p) ==
  /\ proc[p].pc = "work"
  /\ row' = row
  /\ Fails(p)
  /\ RunStep

UpdateFails(p) ==
  /\ proc[p].pc = "work"
  /\ row' = [row EXCEPT ![proc[p].app] = Reset(@)]
  /\ Fails(p)
  /\ RunStep

-----------------------------------------------------------------------------
(* Updates of the admin (SystemUpdate has their steps).                    *)

Admin(core, system) ==
  /\ admin' = [core |-> core, system |-> system]
  /\ UNCHANGED <<row, master, world, hour, due, check, proc, history>>

(* AutoUpdateJob's pre-flight, on the same hour in a worker of its own.    *)
CorePreflight ==
  /\ Act
  /\ hour \in Window
  /\ admin.core = "idle" /\ admin.system = "idle"
  /\ ~downloading /\ \A a \in Apps : row[a].status = "idle"
  /\ Admin("vetted", admin.system)

CoreRequest ==
  /\ admin.core = "vetted"
  /\ Admin("idle", "inProgress") /\ acts' = acts

UserSystemUpdate ==
  /\ Act
  /\ admin.system = "idle"
  /\ Admin(admin.core, "inProgress")

SystemUpdateFails ==
  /\ admin.system = "inProgress"
  /\ Admin(admin.core, "idle") /\ acts' = acts

(* The admin's container is replaced: what ran in it is gone, and the job  *)
(* of a run that was active is taken up again.                             *)
Recreate ==
  /\ admin.system = "inProgress"
  /\ admin' = [core |-> "idle", system |-> "idle"]
  /\ proc' = [p \in Updaters |-> NoProc]
  /\ check' = <<>>
  /\ due' = (due \/ \E r \in Runs : proc[r].pc # "idle")
  /\ killed' = [a \in Apps |->
       /\ row[a].status = "installing"
       /\ killed[a] \/ \E p \in Updaters : proc[p].pc = "work" /\ proc[p].app = a]
  /\ UNCHANGED <<row, settings, world, hour, known, strikes>>

-----------------------------------------------------------------------------
RunNext(r) ==
  NextApp(r) \/ RunEnds(r) \/ RecordAppSuccess(r) \/ RecordAppFailure(r)

Update(p) == Begin(p) \/ Refused(p) \/ Mark(p) \/ UpdateSucceeds(p) \/ UpdateFails(p)

UserNext ==
  \/ \E b \in BOOLEAN : SetMaster(b)
  \/ \E a \in Apps : (\E b \in BOOLEAN : SetEnabled(a, b)) \/ Uninstall(a)
  \/ StartDownload
  \/ \E u \in Users, a \in Apps, v \in published : AskUpdate(u, a, v)

AdminNext ==
  CorePreflight \/ CoreRequest \/ UserSystemUpdate \/ SystemUpdateFails \/ Recreate

Next ==
  \/ Tick \/ EndDownload \/ CheckStart \/ CheckApp
  \/ \E r \in Runs : Attempt(r) \/ RunNext(r)
  \/ \E p \in Updaters : Update(p)
  \/ UserNext \/ AdminNext
  \/ \E v \in Versions : Publish(v)

Spec == Init /\ [][Next]_vars

(* Hours pass, workers take up jobs, and what was begun ends.              *)
FairSpec ==
  /\ Spec
  /\ WF_vars(Tick) /\ WF_vars(EndDownload) /\ WF_vars(CheckApp)
  /\ WF_vars(\E r \in Runs : Attempt(r))
  /\ \A r \in Runs : WF_vars(RunNext(r))
  /\ \A p \in Updaters : WF_vars(Update(p))

-----------------------------------------------------------------------------
Rows == [installed : BOOLEAN, enabled : BOOLEAN, image : Versions,
         status : {"idle", "installing"}, avail : Versions \cup {NoVersion},
         age : Ages \cup {NoAge}, failures : 0..MAX_CONSECUTIVE_FAILURES, disabled : BOOLEAN]
Tasks == [target : Versions, status : {"idle", "installing"},
          failures : 0..(MAX_CONSECUTIVE_FAILURES - 1)]
Readings == [image : Versions, avail : Versions \cup {NoVersion}]
ForSome(S) == UNION {[A -> S] : A \in SUBSET Apps}
Procs == [pc : Pcs, todo : ForSome(Tasks), app : Nat, target : Versions \cup {NoVersion},
          image : Versions \cup {NoVersion}, avail : Versions \cup {NoVersion}]

TypeOK ==
  /\ row \in [Apps -> Rows]
  /\ master \in BOOLEAN /\ hour \in 0..(Day - 1) /\ due \in BOOLEAN
  /\ proc \in [Updaters -> Procs]
  /\ check \in ForSome(Readings)
  /\ published \subseteq Versions
  /\ admin \in [core : {"idle", "vetted"}, system : {"idle", "inProgress"}]
  /\ downloading \in BOOLEAN /\ acts \in 0..MaxActs
  /\ known \in [Apps -> [Versions -> Ages \cup {NoAge}]]
  /\ strikes \in [Apps -> 0..MAX_CONSECUTIVE_FAILURES] /\ killed \in [Apps -> BOOLEAN]

(* "Cool-off [...] so a brand-new release has time to prove itself"        *)
(* (docs/updates.md): whatever checks, updates and saves of older readings *)
(* did to the row in between, a run holds no target that was not first     *)
(* found at least Cooloff hours before.                                    *)
CoolOffHonest ==
  \A r \in Runs : \A a \in DOMAIN proc[r].todo : known[a][proc[r].todo[a].target] = Cooloff

(* Overlapping runs save over each other's counts, but never count a       *)
(* failure that did not happen: an app is switched off only after          *)
(* MAX_CONSECUTIVE_FAILURES updates of it failed.                          *)
NotDisabledEarly ==
  \A a \in Apps :
    /\ row[a].failures <= strikes[a]
    /\ row[a].disabled => strikes[a] = MAX_CONSECUTIVE_FAILURES

(* The mark that makes both auto-updates skip ("transient", auto_update_   *)
(* service.ts:273) is that of an update at work, or of one that died with  *)
(* the admin; it may be gone before the update is, because a second one    *)
(* that was refused resets it too, whoever set it.                         *)
MarkIsTransient ==
  \A a \in Apps : row[a].status = "installing" =>
    killed[a] \/ \E p \in Updaters : proc[p].pc = "work" /\ proc[p].app = a

(* What is left to do for an app, its cool-off and its mark apart.         *)
Wanting(a) ==
  /\ master /\ row[a].installed /\ row[a].enabled /\ ~row[a].disabled
  /\ row[a].avail # NoVersion
  /\ row[a].avail > row[a].image /\ MajorOf[row[a].avail] = MajorOf[row[a].image]

(* Once users leave it alone, an app that opted in is kept up to date or   *)
(* backs off for good, however runs overlap and whatever fails: it is not  *)
(* tried for ever.  Only the mark that a dead update left keeps the runs   *)
(* away from it, and only until the next Update click, which is refused    *)
(* and resets it.                                                          *)
KeepsUpOrGivesUp == \A a \in Apps : <>[](Wanting(a) => killed[a])
=============================================================================
