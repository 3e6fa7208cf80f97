-------------------------- MODULE ServiceLifecycle --------------------------
(***************************************************************************)
(* The life of the app containers the admin manages: install, force        *)
(* reinstall, update with rollback, recreate, uninstall, delete, start and *)
(* stop, and the reconciliation of the `services` table with Docker        *)
(* (admin/app/services/docker_service.ts, system_service.ts and the        *)
(* handlers of system_controller.ts that call them).                       *)
(*                                                                         *)
(* Every HTTP request and every queue job constructs its own DockerService *)
(* so its `activeInstallations` set is never seen by another one: it is    *)
(* not part of the state.  A request is a program counter, the Lucid model *)
(* instance it has read, and the container ids it holds.  MySQL answers    *)
(* every query; any Docker call may fail, MaxFaults times in a behaviour.  *)
(***************************************************************************)
EXTENDS Naturals, FiniteSets

CONSTANTS
  Services,    \* names of the apps
  Custom,      \* the apps the user defined (is_custom); the rest are curated
  DependsOn,   \* the app another one needs (depends_on), or NoService
  Versions,    \* image tags
  Ids,         \* container ids
  Requests,    \* handlers that can run at the same time
  Processes,   \* the server process and the queue worker
  HostOf,      \* the process a request runs in
  Allowed,     \* the operations a request may be asked to do, each on an app
  NoService, NoVersion, NoId, NoRow, NoContainer,
  MaxFaults,   \* bound on failing Docker calls and exiting containers
  MaxCrashes   \* bound on crashes of a process

Operations == {"install", "reinstall", "update", "uninstall", "delete",
               "pullLatest", "edit", "start", "stop", "sync"}

Status == {"idle", "installing", "error"}
Row == [installed : BOOLEAN, status : Status, image : Versions]
Container == [svc : Services, name : {"live", "old"}, image : Versions,
              running : BOOLEAN]

(* Only a curated app has a dependency (service_seeder.ts: Ollama on       *)
(* Qdrant), and a dependency has none of its own.                          *)
ASSUME ServicesAssumption ==
  /\ Custom \subseteq Services
  /\ DependsOn \in [Services -> Services \cup {NoService}]
  /\ NoService \notin Services
  /\ \A s \in Services : DependsOn[s] # NoService =>
       {s, DependsOn[s]} \cap Custom = {} /\ DependsOn[DependsOn[s]] = NoService

ASSUME RequestsAssumption ==
  /\ HostOf \in [Requests -> Processes]
  /\ Allowed \in [Requests -> SUBSET (Operations \X Services)]

ASSUME ValuesAssumption ==
  /\ NoVersion \notin Versions /\ NoId \notin Ids
  /\ NoRow \notin Row /\ NoContainer \notin Container
  /\ MaxFaults \in Nat /\ MaxCrashes \in Nat

VARIABLES
  row,     \* the `services` table
  ctr,     \* the containers Docker has, by id
  req,     \* the requests in progress
  faults,  \* Docker calls that failed, containers that exited
  crashes  \* crashes of a process so far

vars == <<row, ctr, req, faults, crashes>>

Dependencies == {DependsOn[s] : s \in Services} \ {NoService}

(***************************************************************************)
(* A request: `goal` is the service it was asked about, `cur` the one it   *)
(* is working on (the goal or its dependency), `snap` the model instances  *)
(* it holds, `old` and `new` container ids, `up` whether the old one ran   *)
(* when it was listed, `left` the failure clean-ups still to run, `seen`   *)
(* and `pending` the names listed and the rows left to a sync, `ok` the    *)
(* result.  A field the code no longer reads returns to its Idle value.    *)
(***************************************************************************)
PcsCreate == {"check", "mark", "depends", "pull", "create", "start", "finish",
              "cleanRow", "cleanContainer"}
PcsReinstall == {"rMark", "rStop", "rRemove", "rClear"}
PcsUpdate == {"uMark", "uPull", "uFind", "uStop", "uStale", "uRename", "uCreate",
              "uStart", "uHealth", "uDropOld", "uRecord", "uDiscard",
              "uRollback", "uRestart", "uFinally"}
PcsRemove == {"xFind", "xStop", "xRemove", "xSave", "xRow"}
PcsRecreate == {"cRead", "cFind", "cStale", "cStop", "cRename", "cPull", "cCreate",
                "cStart", "cReady", "cDropOld", "cSave", "cDiscard", "cRestore",
                "cRestart"}
PcsOther == {"idle", "act", "syncList", "syncSave"}
Pcs == PcsCreate \cup PcsReinstall \cup PcsUpdate \cup PcsRemove
         \cup PcsRecreate \cup PcsOther

Request == [op : Operations \cup {"none"}, pc : Pcs,
            goal : Services \cup {NoService}, cur : Services \cup {NoService},
            snap : [Services -> Row \cup {NoRow}],
            old : Ids \cup {NoId}, new : Ids \cup {NoId}, up : BOOLEAN,
            target : Versions \cup {NoVersion}, left : 0..2,
            seen : SUBSET Services, pending : SUBSET Services, ok : BOOLEAN]

Idle == [op |-> "none", pc |-> "idle", goal |-> NoService, cur |-> NoService,
         snap |-> [s \in Services |-> NoRow], old |-> NoId, new |-> NoId,
         up |-> FALSE, target |-> NoVersion, left |-> 0, seen |-> {},
         pending |-> {}, ok |-> FALSE]

(* service_seeder.ts: every curated app has a row, no custom app does.     *)
Init ==
  /\ row \in [Services -> Row \cup {NoRow}]
  /\ \A s \in Services : IF s \in Custom THEN row[s] = NoRow
       ELSE row[s] # NoRow /\ ~row[s].installed /\ row[s].status = "idle"
  /\ ctr = [i \in Ids |-> NoContainer]
  /\ req = [r \in Requests |-> Idle]
  /\ faults = 0
  /\ crashes = 0

-----------------------------------------------------------------------------
(* Docker, as the code sees it: names are unique, a call on an id that is  *)
(* gone fails, and so does starting a running container or stopping a      *)
(* stopped one (304).                                                      *)

Exists(i) == i # NoId /\ ctr[i] # NoContainer
Runs(i) == Exists(i) /\ ctr[i].running
Named(s, n) == {i \in Ids : Exists(i) /\ ctr[i].svc = s /\ ctr[i].name = n}
Find(s, n) == IF Named(s, n) = {} THEN NoId ELSE CHOOSE i \in Named(s, n) : TRUE

FreshIds ==
  {i \in Ids : ~Exists(i) /\ \A r \in Requests : i \notin {req[r].old, req[r].new}}

Docker(broken) ==
  /\ broken => faults < MaxFaults
  /\ faults' = IF broken THEN faults + 1 ELSE faults

Threw == faults' # faults

Removed(i) == [ctr EXCEPT ![i] = NoContainer]
Renamed(i, n) == [ctr EXCEPT ![i].name = n]
Running(i, b) == [ctr EXCEPT ![i].running = b]

(* Lucid's save(): only the columns that differ from what the instance     *)
(* read are written; an UPDATE of a deleted row writes nothing.            *)
Written(db, was, now) ==
  IF db = NoRow THEN NoRow
  ELSE [installed |-> IF now.installed = was.installed THEN db.installed ELSE now.installed,
        status |-> IF now.status = was.status THEN db.status ELSE now.status,
        image |-> IF now.image = was.image THEN db.image ELSE now.image]

Save(r, s, now) == row' = [row EXCEPT ![s] = Written(@, req[r].snap[s], now)]

At(r, pc) == req[r].pc = pc
Becomes(r, q) == req' = [req EXCEPT ![r] = q]
Go(r, pc) == Becomes(r, [req[r] EXCEPT !.pc = pc])
Done(r) == Becomes(r, Idle)
Old(r, i, pc) == Becomes(r, [req[r] EXCEPT !.pc = pc, !.old = i])
New(r, i, pc) == Becomes(r, [req[r] EXCEPT !.pc = pc, !.new = i])
Holding(q, s, x, pc) == [q EXCEPT !.snap[s] = x, !.pc = pc]
Snap(r, s, x, pc) == Becomes(r, Holding(req[r], s, x, pc))

(* A request as it arrives, and without the variables it no longer reads.  *)
Asked(op, s, pc) == [Idle EXCEPT !.op = op, !.pc = pc, !.goal = s, !.cur = s]
Bare(r) == [Idle EXCEPT !.op = req[r].op, !.goal = req[r].goal, !.cur = req[r].cur]

(* At pc, request r makes a Docker call.  It throws if `fails`, and it may *)
(* throw anyway; then nothing happens in Docker and Catch follows.         *)
Call(r, pc, fails, Then, Catch) ==
  /\ At(r, pc)
  /\ \E broken \in BOOLEAN :
       /\ Docker(broken)
       /\ IF broken \/ fails THEN Catch /\ ctr' = ctr ELSE Then
  /\ UNCHANGED <<row, crashes>>

(* At pc, request r only reads and writes its row.                         *)
Query(r, pc, Then) == At(r, pc) /\ Then /\ UNCHANGED <<ctr, faults, crashes>>

(* A request for `op` on s arrives and reads the row.                      *)
Arrives(r, op, s, pc) ==
  /\ req[r] = Idle
  /\ <<op, s>> \in Allowed[r]
  /\ row[s] # NoRow
  /\ Becomes(r, Holding(Asked(op, s, pc), s, row[s], pc))
  /\ UNCHANGED <<row, ctr, faults, crashes>>

(* docker.createContainer: a container of s that takes the live name.      *)
CreateContainer(r, s, v, pc) ==
  LET i == CHOOSE i \in FreshIds : TRUE IN
  /\ FreshIds # {}
  /\ ctr' = [ctr EXCEPT ![i] =
                [svc |-> s, name |-> "live", image |-> v, running |-> FALSE]]
  /\ New(r, i, pc)

-----------------------------------------------------------------------------
(* createContainerPreflight and _createContainer.                          *)

(* POST /apps/custom adds the row, then runs the preflight on it.          *)
CreateCustom(r, s, v) ==
  /\ req[r] = Idle /\ <<"install", s>> \in Allowed[r] /\ s \in Custom /\ row[s] = NoRow
  /\ row' = [row EXCEPT ![s] = [installed |-> FALSE, status |-> "idle", image |-> v]]
  /\ Becomes(r, Asked("install", s, "check"))
  /\ UNCHANGED <<ctr, faults, crashes>>

(* The guards read the row; a rejected request changes nothing.            *)
Installable(s) == row[s] # NoRow /\ ~row[s].installed /\ row[s].status # "installing"

Install(r, s) == Installable(s) /\ Arrives(r, "install", s, "mark")

Check(r) ==
  LET s == req[r].cur IN
  /\ Query(r, "check", IF Installable(s)
       THEN Snap(r, s, row[s], "mark") ELSE Done(r))
  /\ row' = row

(* status = 'installing', saved; shared by the three operations that set it *)
MarkInstalling(r, pc, next) ==
  LET s == req[r].cur
      now == [req[r].snap[s] EXCEPT !.status = "installing"]
  IN Query(r, pc, /\ Save(r, s, now)
                  /\ Snap(r, s, now, next))

Mark(r) == MarkInstalling(r, "mark", "depends")

(* A dependency that is not installed is created first, by recursion: its  *)
(* own row is read, but never marked 'installing'.                         *)
Depends(r) ==
  LET d == DependsOn[req[r].cur] IN
  /\ Query(r, "depends", IF d # NoService /\ row[d] # NoRow /\ ~row[d].installed
       THEN Becomes(r, [Holding(req[r], d, row[d], "depends") EXCEPT !.cur = d]) ELSE Go(r, "pull"))
  /\ row' = row

(* Variation: a third clean-up.                                            *)
CreateFails_thrice(r) ==
  Becomes(r, [Bare(r) EXCEPT !.pc = "cleanRow", !.left = 3])

(* catch: _cleanupFailedInstallation, and again in the caller's catch.     *)
CreateFails(r) == Becomes(r, [Bare(r) EXCEPT !.pc = "cleanRow", !.left = 2])

Pull(r) == Call(r, "pull", FALSE, Go(r, "create") /\ ctr' = ctr, CreateFails(r))

Create(r) ==
  LET s == req[r].cur IN
  Call(r, "create", Named(s, "live") # {},
       CreateContainer(r, s, req[r].snap[s].image, "start"), CreateFails(r))

Start(r) ==
  LET i == req[r].new IN
  Call(r, "start", ~Exists(i) \/ Runs(i),
       ctr' = Running(i, TRUE) /\ New(r, NoId, "finish"),
       CreateFails(r))

Finish(r) ==
  LET s == req[r].cur
      now == [req[r].snap[s] EXCEPT !.installed = TRUE, !.status = "idle"]
  IN Query(r, "finish",
       /\ Save(r, s, now)
       /\ IF s = req[r].goal THEN Done(r)
          ELSE Becomes(r, [Holding(req[r], s, now, "pull") EXCEPT !.cur = req[r].goal]))

(* _cleanupFailedInstallation: the row first, then the container, found by *)
(* name; a custom app's row is deleted.                                    *)
CleanRow(r) ==
  LET s == req[r].cur IN
  Query(r, "cleanRow",
    /\ row' = [row EXCEPT ![s] = IF s \in Custom \/ @ = NoRow THEN NoRow
                                 ELSE [@ EXCEPT !.status = "error"]]
    /\ Go(r, "cleanContainer"))

(* A failed dependency is cleaned once, then the goal twice: by its own    *)
(* catch and by the caller's.                                              *)
NextCleanUp(r) ==
  IF req[r].cur # req[r].goal
    THEN Becomes(r, [req[r] EXCEPT !.cur = req[r].goal, !.pc = "cleanRow"])
  ELSE IF req[r].left = 2 THEN Becomes(r, [req[r] EXCEPT !.left = 1, !.pc = "cleanRow"])
  ELSE Done(r)

(* _removeServiceContainer: errors are swallowed.                          *)
CleanContainer(r) ==
  LET i == Find(req[r].cur, "live") IN
  Call(r, "cleanContainer", i = NoId, ctr' = Removed(i) /\ NextCleanUp(r), NextCleanUp(r))

-----------------------------------------------------------------------------
(* forceReinstall: guarded by activeInstallations only, so by nothing.     *)

Reinstall(r, s) == Arrives(r, "reinstall", s, "rMark")

ReinstallMark(r) == MarkInstalling(r, "rMark", "rStop")

(* Errors while listing, stopping and removing are logged and ignored.     *)
ReinstallStop(r) ==
  LET i == Find(req[r].cur, "live")
      found == Old(r, i, "rRemove")
  IN Call(r, "rStop", i = NoId, ctr' = Running(i, FALSE) /\ found,
          Go(r, "rClear") \/ (Threw /\ i # NoId /\ found))

ReinstallRemove(r) ==
  LET i == req[r].old
      next == Old(r, NoId, "rClear")
  IN Call(r, "rRemove", ~Exists(i), ctr' = Removed(i) /\ next, next)

(* Volumes are cleared, the row is saved as not installed, and the install *)
(* proper begins.                                                          *)
ReinstallClear(r) ==
  LET s == req[r].cur
      now == [req[r].snap[s] EXCEPT !.installed = FALSE, !.status = "installing"]
  IN Query(r, "rClear", /\ Save(r, s, now)
                        /\ Snap(r, s, now, "depends"))

-----------------------------------------------------------------------------
(* updateContainer.                                                        *)

(* Every exit, a rejection included, runs the finally block.               *)
Update(r, s, v) ==
  LET rejected == ~row[s].installed \/ row[s].status = "installing" IN
  /\ row[s] # NoRow
  /\ req[r] = Idle /\ <<"update", s>> \in Allowed[r]
  /\ Becomes(r, IF rejected THEN Asked("update", s, "uFinally")
                 ELSE [Holding(Asked("update", s, "uMark"), s, row[s], "uMark")
                         EXCEPT !.target = v])
  /\ UNCHANGED <<row, ctr, faults, crashes>>

(* The ways out: before the old container is found; while it still has its *)
(* name (the outer catch restarts nothing); and once it was renamed aside. *)
GivesUp(r) == Becomes(r, [Bare(r) EXCEPT !.pc = "uFinally"])
LeavesIt(r) ==
  Becomes(r, [Bare(r) EXCEPT !.pc = "uFinally", !.up = req[r].up, !.old = req[r].old])
Finally(r, ok) ==
  Becomes(r, [Bare(r) EXCEPT !.pc = "uFinally", !.up = req[r].up, !.ok = ok])

UpdateMark(r) == MarkInstalling(r, "uMark", "uPull")

UpdatePull(r) == Call(r, "uPull", FALSE, Go(r, "uFind") /\ ctr' = ctr, GivesUp(r))

(* The live container is listed and inspected.                             *)
UpdateFind(r) ==
  LET i == Find(req[r].cur, "live") IN
  Call(r, "uFind", i = NoId,
       ctr' = ctr /\ Becomes(r, [req[r] EXCEPT !.old = i, !.up = Runs(i),
                                        !.pc = IF Runs(i) THEN "uStop" ELSE "uStale"]),
       GivesUp(r))

UpdateStop(r) ==
  LET i == req[r].old IN
  Call(r, "uStop", ~Runs(i), Go(r, "uStale") /\ ctr' = Running(i, FALSE), LeavesIt(r))

(* A leftover `_old` container is removed, best effort: or the rename will *)
(* fail.  If the listing throws, the outer catch ends the update.          *)
UpdateStale(r) ==
  LET stale == Find(req[r].cur, "old") IN
  Call(r, "uStale", FALSE,
       Go(r, "uRename") /\ ctr' = (IF stale = NoId THEN ctr ELSE Removed(stale)),
       Go(r, "uRename") \/ LeavesIt(r))

(* Variation: the old container is removed, not renamed aside.             *)
UpdateRename_removes(r) ==
  Call(r, "uRename", FALSE,
       ctr' = Removed(req[r].old) /\ Old(r, NoId, "uCreate"),
       LeavesIt(r))

UpdateRename(r) ==
  LET i == req[r].old IN
  Call(r, "uRename", ~Exists(i) \/ Named(req[r].cur, "old") # {},
       ctr' = Renamed(i, "old") /\ Old(r, NoId, "uCreate"),
       LeavesIt(r))

UpdateCreate(r) ==
  LET s == req[r].cur IN
  Call(r, "uCreate", Named(s, "live") # {},
       CreateContainer(r, s, req[r].target, "uStart"), Go(r, "uRollback"))

UpdateStart(r) ==
  LET i == req[r].new IN
  Call(r, "uStart", ~Exists(i) \/ Runs(i),
       Go(r, "uHealth") /\ ctr' = Running(i, TRUE), Go(r, "uDiscard"))

(* Five seconds later: an inspect that throws skips the rollback.          *)
UpdateHealth(r) ==
  LET i == req[r].new IN
  Call(r, "uHealth", ~Exists(i),
       /\ ctr' = ctr
       /\ IF Runs(i) THEN New(r, NoId, "uDropOld")
          ELSE Go(r, "uDiscard"),
       Finally(r, FALSE))

(* Variation: the old container is kept.                                   *)
UpdateDropOld_skipped(r) == Call(r, "uDropOld", TRUE, ctr' = ctr, Go(r, "uRecord"))

UpdateDropOld(r) ==
  LET i == Find(req[r].cur, "old") IN
  Call(r, "uDropOld", i = NoId, ctr' = Removed(i) /\ Go(r, "uRecord"), Go(r, "uRecord"))

(* Variation: the new image is not saved.                                  *)
UpdateRecord_skipped(r) == Query(r, "uRecord", Finally(r, TRUE) /\ row' = row)

UpdateRecord(r) ==
  LET s == req[r].cur IN
  Query(r, "uRecord",
        Save(r, s, [req[r].snap[s] EXCEPT !.image = req[r].target]) /\ Finally(r, TRUE))

(* The failed replacement is removed, best effort.                         *)
UpdateDiscard(r) ==
  LET i == req[r].new
      next == New(r, NoId, "uRollback")
  IN Call(r, "uDiscard", ~Exists(i), ctr' = Removed(i) /\ next, next)

(* rollbackToOld: the old container is renamed back, an error ignored (if  *)
(* there is none, or the listing throws, the update ends), ...             *)
UpdateRollback(r) ==
  LET s == req[r].cur
      i == Find(s, "old")
      found == Old(r, i, "uRestart")
  IN Call(r, "uRollback", i = NoId \/ Named(s, "live") # {},
          ctr' = Renamed(i, "live") /\ found,
          \/ i # NoId /\ found
          \/ (i = NoId \/ Threw) /\ Finally(r, FALSE))

(* Variation: the old container is renamed back and not started.           *)
UpdateRestart_skipped(r) == Call(r, "uRestart", TRUE, ctr' = ctr, Finally(r, FALSE))

(* ... then started, an error ignored.                                     *)
UpdateRestart(r) ==
  LET i == req[r].old IN
  Call(r, "uRestart", ~Exists(i), ctr' = Running(i, TRUE) /\ Finally(r, FALSE),
       Finally(r, FALSE))

(* Variation: the flag is reset on success only.                           *)
UpdateFinally_onSuccess(r) ==
  Query(r, "uFinally", Done(r) /\ row' = [row EXCEPT ![req[r].cur] =
    IF @ # NoRow /\ req[r].ok THEN [@ EXCEPT !.status = "idle"] ELSE @])

UpdateFinally(r) ==
  Query(r, "uFinally", Done(r) /\ row' = [row EXCEPT ![req[r].cur] =
    IF @ # NoRow /\ @.status = "installing" THEN [@ EXCEPT !.status = "idle"] ELSE @])

-----------------------------------------------------------------------------
(* uninstallService (curated) and DELETE of a custom app: the container is *)
(* removed by removeCustomAppContainer.  A failed removal ends an          *)
(* uninstall; a delete ignores it and drops the row.                       *)

Uninstall(r, s) ==
  /\ s \notin Custom \cup Dependencies
  /\ row[s] # NoRow /\ row[s].installed
  /\ Arrives(r, "uninstall", s, "xFind")

Delete(r, s) == s \in Custom /\ Arrives(r, "delete", s, "xFind")

RemovalFails(r) == IF req[r].op = "delete" THEN Go(r, "xRow") ELSE Done(r)
RemovalSucceeds(r) == Go(r, IF req[r].op = "delete" THEN "xRow" ELSE "xSave")

RemoveFind(r) ==
  LET i == Find(req[r].cur, "live") IN
  Call(r, "xFind", FALSE,
       /\ ctr' = ctr
       /\ IF i = NoId THEN RemovalSucceeds(r)
          ELSE Old(r, i, IF Runs(i) THEN "xStop" ELSE "xRemove"),
       RemovalFails(r))

RemoveStop(r) ==
  LET i == req[r].old IN
  Call(r, "xStop", ~Runs(i),
       Go(r, "xRemove") /\ ctr' = Running(i, FALSE), RemovalFails(r))

Remove(r) ==
  LET i == req[r].old IN
  Call(r, "xRemove", ~Exists(i), RemovalSucceeds(r) /\ ctr' = Removed(i), RemovalFails(r))

UninstallSave(r) ==
  LET s == req[r].cur IN
  Query(r, "xSave",
    /\ Save(r, s, [req[r].snap[s] EXCEPT !.installed = FALSE, !.status = "idle"])
    /\ Done(r))

DeleteRow(r) == Query(r, "xRow", row' = [row EXCEPT ![req[r].cur] = NoRow] /\ Done(r))

-----------------------------------------------------------------------------
(* recreateCustomAppContainer, called by "pull latest" (custom apps) and,  *)
(* once the edited row is saved, by an edit (any app but a dependency).    *)
(* It looks at no flag and takes none.                                     *)

PullLatest(r, s) == s \in Custom /\ Arrives(r, "pullLatest", s, "cFind")

Edit(r, s, v) ==
  /\ s \notin Dependencies
  /\ row[s] # NoRow
  /\ req[r] = Idle /\ <<"edit", s>> \in Allowed[r]
  /\ row' = [row EXCEPT ![s].image = v]
  /\ Becomes(r, Asked("edit", s, "cRead"))
  /\ UNCHANGED <<ctr, faults, crashes>>

RecreateRead(r) ==
  LET s == req[r].cur IN
  /\ Query(r, "cRead", IF row[s] = NoRow THEN Done(r)
       ELSE Snap(r, s, row[s], "cFind"))
  /\ row' = row

(* Outside the try block: a failing listing ends the request.              *)
RecreateFind(r) ==
  LET i == Find(req[r].cur, "live") IN
  Call(r, "cFind", FALSE,
       /\ ctr' = ctr
       /\ Becomes(r, [req[r] EXCEPT !.pc = "cStale", !.old = i, !.up = Runs(i)]),
       Done(r))

(* A leftover `_old` container is removed first, best effort.              *)
RecreateStale(r) ==
  LET stale == Find(req[r].cur, "old")
      next == Go(r, IF req[r].old = NoId THEN "cPull"
                    ELSE IF req[r].up THEN "cStop" ELSE "cRename")
  IN Call(r, "cStale", FALSE,
          next /\ ctr' = (IF stale = NoId THEN ctr ELSE Removed(stale)),
          next \/ Done(r))

RecreateStop(r) ==
  LET i == req[r].old IN
  Call(r, "cStop", ~Runs(i),
       Go(r, "cRename") /\ ctr' = Running(i, FALSE), Go(r, "cRename"))

RecreateFails(r) == Becomes(r, [Bare(r) EXCEPT !.pc = "cDiscard"])

RecreateRename(r) ==
  LET i == req[r].old IN
  Call(r, "cRename", ~Exists(i) \/ Named(req[r].cur, "old") # {},
       Go(r, "cPull") /\ ctr' = Renamed(i, "old"), RecreateFails(r))

RecreatePull(r) == Call(r, "cPull", FALSE, Go(r, "cCreate") /\ ctr' = ctr, RecreateFails(r))

RecreateCreate(r) ==
  LET s == req[r].cur IN
  Call(r, "cCreate", Named(s, "live") # {},
       CreateContainer(r, s, req[r].snap[s].image, "cStart"), RecreateFails(r))

RecreateStart(r) ==
  LET i == req[r].new IN
  Call(r, "cStart", ~Exists(i) \/ Runs(i),
       Go(r, "cReady") /\ ctr' = Running(i, TRUE), RecreateFails(r))

(* _awaitContainerReady: an image's own health check may also say no.      *)
RecreateReady(r) ==
  Call(r, "cReady", ~Runs(req[r].new),
       ctr' = ctr /\ New(r, NoId, IF req[r].old = NoId THEN "cSave" ELSE "cDropOld"),
       RecreateFails(r))

RecreateDropOld(r) ==
  LET i == Find(req[r].cur, "old") IN
  Call(r, "cDropOld", FALSE,
       Go(r, "cSave") /\ ctr' = (IF i = NoId THEN ctr ELSE Removed(i)), RecreateFails(r))

RecreateSave(r) ==
  LET s == req[r].cur IN
  Query(r, "cSave",
    /\ Save(r, s, [req[r].snap[s] EXCEPT !.installed = TRUE, !.status = "idle"])
    /\ Done(r))

(* catch: whatever has the live name is taken for the failed replacement.  *)
(* Errors of the removal are ignored; one of the listing ends the rollback *)
RecreateDiscard(r) ==
  LET i == Find(req[r].cur, "live") IN
  Call(r, "cDiscard", i = NoId, Go(r, "cRestore") /\ ctr' = Removed(i),
       Go(r, "cRestore") \/ (Threw /\ Done(r)))

RecreateRestore(r) ==
  LET s == req[r].cur
      i == Find(s, "old")
  IN Call(r, "cRestore", i = NoId \/ Named(s, "live") # {},
          ctr' = Renamed(i, "live") /\ Old(r, i, "cRestart"),
          Done(r))

RecreateRestart(r) ==
  LET i == req[r].old IN
  Call(r, "cRestart", ~Exists(i), Done(r) /\ ctr' = Running(i, TRUE), Done(r))

-----------------------------------------------------------------------------
(* affectContainer: the row and the listing are read, then the container   *)
(* with the id found is started (or restarted) or stopped.                 *)

Affect(r, op, s) ==
  /\ row[s] # NoRow /\ row[s].installed /\ Find(s, "live") # NoId
  /\ req[r] = Idle /\ <<op, s>> \in Allowed[r]
  /\ Becomes(r, [Asked(op, s, "act") EXCEPT !.old = Find(s, "live")])
  /\ UNCHANGED <<row, ctr, faults, crashes>>

Act(r) ==
  LET i == req[r].old IN
  Call(r, "act", ~Exists(i), Done(r) /\ ctr' = Running(i, req[r].op = "start"), Done(r))

-----------------------------------------------------------------------------
(* _syncContainersWithDatabase, on every listing of the services: all rows *)
(* are read, then the containers are listed (a failing listing is an empty *)
(* one), then the rows that disagree are saved one by one.  No remote      *)
(* Ollama host is configured: it would exempt Ollama's row (919-923).      *)

Sync(r) ==
  /\ req[r] = Idle /\ \E s \in Services : <<"sync", s>> \in Allowed[r]
  /\ Becomes(r, [Idle EXCEPT !.op = "sync", !.pc = "syncList", !.snap = row])
  /\ UNCHANGED <<row, ctr, faults, crashes>>

SyncList(r) ==
  LET listed(S) ==
        Becomes(r, [req[r] EXCEPT !.pc = "syncSave", !.seen = S,
                           !.pending = {s \in Services : req[r].snap[s] # NoRow}])
  IN Call(r, "syncList", FALSE,
          ctr' = ctr /\ listed({s \in Services : Named(s, "live") # {}}), listed({}))

(* Variation: a container that exists does not make its row installed.     *)
SyncSave_onlyMissing(r, s) ==
  LET was == req[r].snap[s] IN
  /\ s \in req[r].pending
  /\ Query(r, "syncSave",
       /\ IF ~was.installed \/ s \in req[r].seen THEN row' = row
          ELSE Save(r, s, [was EXCEPT !.installed = FALSE, !.status = "idle"])
       /\ Becomes(r, [req[r] EXCEPT !.pending = @ \ {s}]))

SyncSave(r, s) ==
  LET was == req[r].snap[s]
      exists == s \in req[r].seen
  IN /\ s \in req[r].pending
     /\ Query(r, "syncSave",
          /\ IF was.installed = exists THEN row' = row
             ELSE Save(r, s, [was EXCEPT !.installed = exists, !.status = "idle"])
          /\ Becomes(r, [req[r] EXCEPT !.pending = @ \ {s}]))

SyncEnd(r) == Query(r, "syncSave", req[r].pending = {} /\ Done(r) /\ row' = row)

-----------------------------------------------------------------------------
(* A container exits by itself.                                            *)
Exits(i) ==
  /\ Runs(i) /\ Docker(TRUE)
  /\ ctr' = Running(i, FALSE)
  /\ UNCHANGED <<row, req, crashes>>

(* A process dies with the requests it serves; rows and containers stay.   *)
Crash(p) ==
  /\ crashes < MaxCrashes
  /\ \E r \in Requests : HostOf[r] = p /\ req[r] # Idle
  /\ crashes' = crashes + 1
  /\ req' = [r \in Requests |-> IF HostOf[r] = p THEN Idle ELSE req[r]]
  /\ UNCHANGED <<row, ctr, faults>>

Arrival(r) ==
  \/ \E s \in Services :
       \/ Install(r, s) \/ Reinstall(r, s) \/ Uninstall(r, s) \/ Delete(r, s)
       \/ PullLatest(r, s)
       \/ \E v \in Versions : CreateCustom(r, s, v) \/ Update(r, s, v) \/ Edit(r, s, v)
       \/ \E op \in {"start", "stop"} : Affect(r, op, s)
  \/ Sync(r)

CreateStep(r) ==
  \/ Check(r) \/ Mark(r) \/ Depends(r) \/ Pull(r) \/ Create(r) \/ Start(r) \/ Finish(r)
  \/ CleanRow(r) \/ CleanContainer(r)

ReinstallStep(r) ==
  ReinstallMark(r) \/ ReinstallStop(r) \/ ReinstallRemove(r) \/ ReinstallClear(r)

UpdateStep(r) ==
  \/ UpdateMark(r) \/ UpdatePull(r) \/ UpdateFind(r) \/ UpdateStop(r) \/ UpdateStale(r)
  \/ UpdateRename(r) \/ UpdateCreate(r) \/ UpdateStart(r) \/ UpdateHealth(r)
  \/ UpdateDropOld(r) \/ UpdateRecord(r) \/ UpdateDiscard(r) \/ UpdateRollback(r)
  \/ UpdateRestart(r) \/ UpdateFinally(r)

RemoveStep(r) ==
  RemoveFind(r) \/ RemoveStop(r) \/ Remove(r) \/ UninstallSave(r) \/ DeleteRow(r)

RecreateStep(r) ==
  \/ RecreateRead(r) \/ RecreateFind(r) \/ RecreateStale(r) \/ RecreateStop(r)
  \/ RecreateRename(r) \/ RecreatePull(r) \/ RecreateCreate(r) \/ RecreateStart(r)
  \/ RecreateReady(r) \/ RecreateDropOld(r) \/ RecreateSave(r) \/ RecreateDiscard(r)
  \/ RecreateRestore(r) \/ RecreateRestart(r)

SyncStep(r) == SyncList(r) \/ SyncEnd(r) \/ \E s \in Services : SyncSave(r, s)

Step(r) ==
  \/ CreateStep(r) \/ ReinstallStep(r) \/ UpdateStep(r) \/ RemoveStep(r)
  \/ RecreateStep(r) \/ Act(r) \/ SyncStep(r)

Next ==
  \/ \E r \in Requests : Arrival(r) \/ Step(r)
  \/ \E i \in Ids : Exits(i)
  \/ \E p \in Processes : Crash(p)

Spec == Init /\ [][Next]_vars

(* A request that has begun goes on: the event loop runs every handler and *)
(* every Docker call answers or throws.  Nobody has to send requests.      *)
FairSpec == Spec /\ \A r \in Requests : WF_vars(Step(r))

-----------------------------------------------------------------------------
(* Types of the variables, and the bounds on faults and crashes.           *)
TypeOK ==
  /\ row \in [Services -> Row \cup {NoRow}]
  /\ ctr \in [Ids -> Container \cup {NoContainer}]
  /\ req \in [Requests -> Request]
  /\ faults \in 0..MaxFaults
  /\ crashes \in 0..MaxCrashes

(* A request q has marked s 'installing' and has yet to clear it.          *)
WorkingPcs ==
  {"depends", "pull", "create", "start", "finish", "cleanRow",
   "rStop", "rRemove", "rClear"} \cup (PcsUpdate \ {"uMark"})
Owns(q, s) ==
  /\ q.goal = s
  /\ q.pc \in WorkingPcs \/ (q.pc = "cleanContainer" /\ q.cur # s)

Installing(s) == row[s] # NoRow /\ row[s].status = "installing"

(* Whatever the interleaving of installs, reinstalls, updates, removals    *)
(* and syncs, each saving what it read a while ago: a row that says        *)
(* 'installing' has a request that will clear it.                          *)
InstallingIsInProgress ==
  \A s \in Services : Installing(s) => \E r \in Requests : Owns(req[r], s)

(* The same as long as no process died, the case the code provides for,    *)
(* for any two requests that run side by side (run TwoRequests).           *)
FlagHasOwner == crashes = 0 => InstallingIsInProgress

(* Without a crash, `installation_status` does not stay 'installing': the  *)
(* guards that read it do not lock the user out of an app for good.        *)
FlagClears == \A s \in Services : Installing(s) ~> ~Installing(s)

HasCopy(s) == Named(s, "live") \cup Named(s, "old") # {}

(* An update, alone, never takes the last container of a service away,     *)
(* whichever call fails and wherever the admin dies: `_old` is the safety  *)
(* net until the replacement has run for five seconds.                     *)
UpdateKeepsACopy ==
  [][\A s \in Services :
       (\E r \in Requests : req[r].op = "update") /\ HasCopy(s) => HasCopy(s)']_vars

(* rollbackToOld: an update of a running app that fails through one        *)
(* failure leaves the app running if the old container had been renamed    *)
(* aside, and otherwise at least leaves that container under its name.     *)
(* Running it need not be then: a listing or a rename that throws after    *)
(* the stop (docker_service.ts:1653, 1664) goes to the outer catch (1816), *)
(* which starts nothing.                                                   *)
FailedUpdateLeavesItRunning ==
  \A r \in Requests :
    At(r, "uFinally") /\ req[r].up /\ ~req[r].ok /\ faults <= 1
      => \E i \in Named(req[r].cur, "live") : Runs(i) \/ i = req[r].old

(* With no failure and no crash, when nothing is in progress the table     *)
(* agrees with Docker: an installed app has its container, made from the   *)
(* image the row records, any other has none, and no `_old` is left over.  *)
QuietAgreement ==
  (\A r \in Requests : req[r] = Idle) /\ faults = 0 /\ crashes = 0 =>
    \A s \in Services :
      /\ Named(s, "old") = {}
      /\ Named(s, "live") # {} <=> row[s] # NoRow /\ row[s].installed
      /\ \A i \in Named(s, "live") : ctr[i].image = row[s].image

(* A sync that listed what Docker has, whatever state failures and crashes *)
(* left behind, ends with every row telling whether its container exists.  *)
SyncReconciles ==
  \A r \in Requests :
    LET live == {s \in Services : Named(s, "live") # {}} IN
    At(r, "syncSave") /\ req[r].pending = {} /\ req[r].seen = live =>
      \A s \in Services : row[s] # NoRow => (row[s].installed <=> s \in live)

-----------------------------------------------------------------------------
(* What comments of the code say, and the code does not do.                *)

(* "a second Update click [...] is rejected cleanly instead of racing two  *)
(* updateContainer runs" (docker_service.ts:1551): the flag the guard reads *)
(* stays up until the update in progress is over.                          *)
UpdateInProgressIsFlagged ==
  \A r \in Requests :
    req[r].pc \in PcsUpdate \ {"uMark", "uFinally"} => Installing(req[r].cur)
=============================================================================
