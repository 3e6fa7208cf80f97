---------------------------- MODULE SystemUpdate ----------------------------
(***************************************************************************)
(* Updates of the admin itself: manual requests, the hourly auto-update    *)
(* with its back-off, and the sidecar that carries requests out            *)
(* (admin/app/services/system_update_service.ts, auto_update_service.ts,   *)
(* updateSetting of system_service.ts and                                  *)
(* install/sidecar-updater/update-watcher.sh).                             *)
(*                                                                         *)
(* The two sides share a volume: the admin writes the request file and     *)
(* reads the status file, the sidecar does the opposite.  Neither file is  *)
(* written atomically: it is truncated first, and a reader may come in     *)
(* between.  The sidecar recreates the admin's container, which kills the  *)
(* admin's requests and jobs wherever they are.                            *)
(***************************************************************************)
EXTENDS Naturals, FiniteSets

CONSTANTS
  Versions,        \* releases; a greater number is a newer one
  MajorOf,         \* their major versions
  Users,           \* requests of the "update now" button
  AutoUpdate,      \* the attempt of AutoUpdateJob: hourly, and over long before the next
  Empty,           \* the tag read from a truncated file
  LatestTag,       \* the tag `latest`
  NoVersion, NoFile, Down,
  MAX_CONSECUTIVE_FAILURES, \* 3 in the code
  MaxTroubles,     \* bound on failing commands of the sidecar, failing writes of
                   \* the request file, and crashes of the sidecar or the admin
  MaxCount         \* bound on the failures counted (a kill before the limit
                   \* takes effect lets the counter run past it)

Requesters == Users \cup {AutoUpdate}
Tags == Versions \cup {LatestTag, Empty}

InProgress == {"starting", "pulling", "pulled", "recreating"}
Stages == InProgress \cup {"idle", "complete", "error"}

ASSUME VersionsAssumption ==
  Versions # {} /\ Versions \subseteq Nat /\ IsFiniteSet(Versions)
    /\ MajorOf \in [Versions -> Nat]

ASSUME NamesAssumption ==
  /\ AutoUpdate \notin Users
  /\ LatestTag \notin Versions /\ Empty \notin Versions /\ LatestTag # Empty
  /\ Empty \notin Stages
  /\ NoVersion \notin Tags /\ Down \notin Versions
  /\ NoFile \notin Tags

ASSUME BoundsAssumption ==
  /\ MaxTroubles \in Nat /\ MaxCount \in Nat
  /\ MAX_CONSECUTIVE_FAILURES \in Nat

VARIABLES
  released,  \* the releases GitHub lists
  kv,        \* settings in MySQL
  file,      \* the request file
  status,    \* the stage in the status file, or Empty
  compose,   \* the admin's image tag in compose.yml
  admin,     \* the version of the running admin container, or Down
  mysql,     \* whether the mysql container is up
  req,       \* the requests and the auto-update attempt in progress
  toggle,    \* the handler that saves the auto-update setting
  side,      \* the sidecar
  troubles   \* what went wrong so far

adminVars == <<kv, file, req, toggle>>
sideVars == <<status, compose, admin, mysql, side>>
env == <<released, troubles>>
vars == <<adminVars, sideVars, env>>

AutoPcs == {"preflight", "request", "succeeded", "failed", "count", "disable"}
Pcs == {"idle", "latest", "open", "write"} \cup AutoPcs

SidePcs == {"down", "boot", "poll", "remove", "starting", "sed", "pulling", "pull",
            "pulled", "recreating", "stop", "up", "complete", "error", "done"}

(* The sidecar's next step writes the status file.                         *)
Writing == {"boot", "starting", "pulling", "pulled", "recreating", "complete",
            "error", "done"}

(* The sidecar between two updates; `svc` is the service it recreates.      *)
AtRest(pc) == [pc |-> pc, tag |-> Empty, svc |-> "admin"]

NoRequest == [pc |-> "idle", tag |-> NoVersion, linked |-> FALSE, n |-> 0]

Newest(S) == CHOOSE v \in S : \A w \in S : w <= v

(* The admin was installed from the newest release at the time.            *)
Init ==
  /\ admin \in Versions
  /\ released = {admin}
  /\ compose = admin
  /\ kv = [enabled |-> FALSE, failures |-> 0]
  /\ file = NoFile
  /\ status = "idle"
  /\ mysql = TRUE
  /\ req = [r \in Requesters |-> NoRequest]
  /\ toggle = "idle"
  /\ side = AtRest("poll")
  /\ troubles = 0

-----------------------------------------------------------------------------
(* A release is published; the settings are saved.                         *)

Publish(v) ==
  /\ \A w \in released : w < v
  /\ released' = released \cup {v}
  /\ UNCHANGED <<adminVars, sideVars, troubles>>

Fails == troubles < MaxTroubles /\ troubles' = troubles + 1
Works == troubles' = troubles

(* A step of the admin that reads or writes MySQL; without it, the handler *)
(* ends with an error.                                                     *)
Serving == admin # Down /\ UNCHANGED <<released, sideVars>>

(* updateSetting('autoUpdate.enabled', b): enabling also resets the        *)
(* back-off, in a second write (and a third clears the reason shown).      *)
SetEnabled(b) ==
  /\ Serving /\ mysql
  /\ toggle = "idle"
  /\ kv' = [kv EXCEPT !.enabled = b]
  /\ toggle' = IF b THEN "failures" ELSE "idle"
  /\ UNCHANGED <<file, req, troubles>>

ResetFailures ==
  /\ Serving
  /\ toggle = "failures"
  /\ kv' = IF mysql THEN [kv EXCEPT !.failures = 0] ELSE kv
  /\ toggle' = "idle"
  /\ UNCHANGED <<file, req, troubles>>

-----------------------------------------------------------------------------
(* requestUpdate, by a user or by the auto-update.                         *)

Becomes(r, q) == req' = [req EXCEPT ![r] = q]
Go(r, pc) == Becomes(r, [req[r] EXCEPT !.pc = pc])

(* What reading the status file may return: nothing while it is rewritten. *)
ReadStatus == {status} \cup (IF side.pc \in Writing THEN {Empty} ELSE {})

(* The end of a request that was not accepted, which the auto-update counts *)
Rejected(r) == IF r = AutoUpdate THEN Go(r, "failed") ELSE Becomes(r, NoRequest)

(* An update in progress rejects the request; an unreadable status does    *)
(* not.  A user's request begins here, the auto-update's is on its way.    *)
RequestUpdate(r) ==
  /\ Serving
  /\ req[r].pc = (IF r = AutoUpdate THEN "request" ELSE "idle")
  /\ \E stage \in ReadStatus :
       IF stage \in InProgress THEN Rejected(r)
       ELSE Go(r, IF r = AutoUpdate THEN "open" ELSE "latest")
  /\ UNCHANGED <<kv, file, toggle, troubles>>

(* Without an explicit tag, the cached `system.latestVersion` is asked for: *)
(* what was the newest release when it was last looked up, if it ever was. *)
ReadLatest(u) ==
  /\ Serving
  /\ req[u].pc = "latest"
  /\ IF mysql
     THEN \E tag \in released \cup {LatestTag} :
            Becomes(u, [req[u] EXCEPT !.pc = "open", !.tag = tag])
     ELSE Rejected(u)
  /\ UNCHANGED <<kv, file, toggle, troubles>>

(* writeFile: the file is created or truncated, then written; the data go  *)
(* to an unlinked file if the sidecar removed it in between.               *)
OpenRequestFile(r) ==
  /\ Serving
  /\ req[r].pc = "open"
  /\ \/ /\ Works
        /\ file' = Empty
        /\ Becomes(r, [req[r] EXCEPT !.pc = "write", !.linked = TRUE])
     \/ Fails /\ file' = file /\ Rejected(r)
  /\ UNCHANGED <<kv, toggle>>

WriteRequestFile(r) ==
  /\ Serving
  /\ req[r].pc = "write"
  /\ file' = IF req[r].linked THEN req[r].tag ELSE file
  /\ IF r = AutoUpdate THEN Go(r, "succeeded") ELSE Becomes(r, NoRequest)
  /\ UNCHANGED <<kv, toggle, troubles>>

-----------------------------------------------------------------------------
(* AutoUpdateService.attempt.                                              *)

(* Variation: what runs is a candidate, too.                               *)
Candidates_any == {v \in released : MajorOf[v] = MajorOf[admin]}

(* selectEligibleTarget: the newest release of the same major, newer than  *)
(* what runs, among those published before some cut-off.                   *)
Candidates == {v \in released : MajorOf[v] = MajorOf[admin] /\ v > admin}

(* evaluate, up to the pre-flight: the setting, the window and the         *)
(* releases.  An attempt that stops here changes nothing.                  *)
Evaluate(v) ==
  /\ Serving /\ mysql
  /\ req[AutoUpdate].pc = "idle"
  /\ kv.enabled
  /\ v \in Candidates
  /\ Becomes(AutoUpdate, [NoRequest EXCEPT !.pc = "preflight", !.tag = v])
  /\ UNCHANGED <<kv, file, toggle, troubles>>

(* runPreflight: a full disk is a failure; an update in progress, a        *)
(* download or an app being installed is a skip.                           *)
Preflight ==
  /\ Serving
  /\ req[AutoUpdate].pc = "preflight"
  /\ \/ Go(AutoUpdate, "failed")
     \/ Becomes(AutoUpdate, NoRequest)
     \/ (\E stage \in ReadStatus : stage \notin InProgress) /\ Go(AutoUpdate, "request")
  /\ UNCHANGED <<kv, file, toggle, troubles>>

RecordSuccess ==
  /\ Serving
  /\ req[AutoUpdate].pc = "succeeded"
  /\ kv' = IF mysql THEN [kv EXCEPT !.failures = 0] ELSE kv
  /\ Becomes(AutoUpdate, NoRequest)
  /\ UNCHANGED <<file, toggle, troubles>>

(* recordFailure: the counter is read, written back, and compared.         *)
ReadFailures ==
  /\ Serving
  /\ req[AutoUpdate].pc = "failed"
  /\ IF mysql
     THEN Becomes(AutoUpdate, [NoRequest EXCEPT !.pc = "count", !.n = kv.failures])
     ELSE Becomes(AutoUpdate, NoRequest)
  /\ UNCHANGED <<kv, file, toggle, troubles>>

(* Variation: counted twice.                                               *)
CountFailure_twice ==
  /\ Serving
  /\ req[AutoUpdate].pc = "count"
  /\ req[AutoUpdate].n < MaxCount
  /\ kv' = [kv EXCEPT !.failures = req[AutoUpdate].n + 2]
  /\ Becomes(AutoUpdate, NoRequest)
  /\ UNCHANGED <<file, toggle, troubles>>

CountFailure ==
  LET failures == req[AutoUpdate].n + 1 IN
  /\ Serving
  /\ req[AutoUpdate].pc = "count"
  /\ failures <= MaxCount
  /\ kv' = IF mysql THEN [kv EXCEPT !.failures = failures] ELSE kv
  /\ IF mysql /\ failures >= MAX_CONSECUTIVE_FAILURES THEN Go(AutoUpdate, "disable")
     ELSE Becomes(AutoUpdate, NoRequest)
  /\ UNCHANGED <<file, toggle, troubles>>

Disable ==
  /\ Serving
  /\ req[AutoUpdate].pc = "disable"
  /\ kv' = IF mysql THEN [kv EXCEPT !.enabled = FALSE] ELSE kv
  /\ Becomes(AutoUpdate, NoRequest)
  /\ UNCHANGED <<file, toggle, troubles>>

-----------------------------------------------------------------------------
(* update-watcher.sh.                                                      *)

Sidecar(pc, next) ==
  /\ side.pc = pc
  /\ side' = next
  /\ UNCHANGED <<released, kv, toggle>>

At(pc) == [side EXCEPT !.pc = pc]

(* write_status; nothing else changes.                                     *)
WriteStatus(pc, stage, next) ==
  /\ Sidecar(pc, next)
  /\ status' = stage
  /\ UNCHANGED <<file, req, compose, admin, mysql, troubles>>

(* Variation: the status file is left as it was found.                     *)
Boot_silent ==
  /\ Sidecar("boot", AtRest("poll"))
  /\ UNCHANGED <<status, file, req, compose, admin, mysql, troubles>>

Boot == WriteStatus("boot", "idle", AtRest("poll"))

(* The request file is read; an empty one gives an empty tag.              *)
Poll ==
  /\ side.pc = "poll"
  /\ file # NoFile
  /\ side' = [AtRest("remove") EXCEPT !.tag = file]
  /\ UNCHANGED <<adminVars, env, status, compose, admin, mysql>>

(* rm -f: a writer that has the file open keeps an unlinked one.           *)
RemoveRequest ==
  /\ Sidecar("remove", At("starting"))
  /\ file' = NoFile
  /\ req' = [r \in Requesters |-> [req[r] EXCEPT !.linked = FALSE]]
  /\ UNCHANGED <<status, compose, admin, mysql, troubles>>

Starting == WriteStatus("starting", "starting", At("sed"))

(* perform_update, a command at a time: a failing one ends the update.     *)
Command(pc, broken, next, Effect) ==
  /\ \/ ~broken /\ Works /\ Sidecar(pc, next) /\ Effect
     \/ /\ (broken /\ Works) \/ Fails
        /\ Sidecar(pc, At("error"))
        /\ UNCHANGED <<compose, admin, mysql>>
  /\ UNCHANGED <<status, file, req>>

(* Variation: the line of compose.yml is not found.                        *)
ApplyTag_noMatch ==
  Command("sed", FALSE, At("pulling"), UNCHANGED <<compose, admin, mysql>>)

ApplyTag ==
  Command("sed", FALSE, At("pulling"),
          compose' = side.tag /\ UNCHANGED <<admin, mysql>>)

Pulling == WriteStatus("pulling", "pulling", At("pull"))

(* The release a tag stands for.                                           *)
Release(tag) == IF tag = LatestTag THEN Newest(released) ELSE tag

(* compose pull: an image without a tag is refused.                        *)
PullImages ==
  Command("pull", compose = Empty,
          [side EXCEPT !.pc = "pulled", !.tag = Release(compose)],
          UNCHANGED <<compose, admin, mysql>>)

Pulled == WriteStatus("pulled", "pulled", At("recreating"))

Recreating == WriteStatus("recreating", "recreating", At("stop"))

(* The admin's requests and jobs die with its process.                     *)
Killed ==
  /\ req' = [r \in Requesters |-> NoRequest]
  /\ toggle' = "idle"

(* stop and rm -f: their errors are warnings, and `up` then replaces the   *)
(* container.  The service that goes is the admin first, mysql after.      *)
StopService ==
  /\ side.pc = "stop"
  /\ side' = At("up")
  /\ IF side.svc = "admin"
     THEN admin' = Down /\ Killed /\ mysql' = mysql
     ELSE mysql' = FALSE /\ UNCHANGED <<admin, req, toggle>>
  /\ UNCHANGED <<env, kv, file, status, compose>>

(* Variation: the containers are not started again.                        *)
StartService_skipped ==
  /\ side.pc = "up"
  /\ side' = [side EXCEPT !.svc = "mysql",
        !.pc = IF side.svc = "admin" THEN "recreating" ELSE "complete"]
  /\ UNCHANGED <<adminVars, env, status, compose, admin, mysql>>

StartService ==
  /\ side.pc = "up"
  /\ \/ /\ Works
        /\ side' = [side EXCEPT !.svc = "mysql",
              !.pc = IF side.svc = "admin" THEN "recreating" ELSE "complete"]
        /\ IF side.svc = "admin" THEN admin' = side.tag /\ mysql' = mysql
           ELSE mysql' = TRUE /\ admin' = admin
     \/ /\ Fails
        /\ side' = At("error")
        /\ UNCHANGED <<admin, mysql>>
  /\ UNCHANGED <<adminVars, released, status, compose>>

Complete ==
  /\ Sidecar("complete", AtRest("done"))
  /\ status' = "complete"
  /\ UNCHANGED <<file, req, compose, admin, mysql, troubles>>

(* Variation: the failure is only logged.                                  *)
Error_silent ==
  /\ Sidecar("error", AtRest("done"))
  /\ UNCHANGED <<status, file, req, compose, admin, mysql, troubles>>

Error == WriteStatus("error", "error", AtRest("done"))

(* Five seconds later the sidecar is ready again.                          *)
Ready == WriteStatus("done", "idle", AtRest("poll"))

-----------------------------------------------------------------------------
(* The sidecar dies, perhaps while it writes the status; Docker restarts   *)
(* it (restart: unless-stopped).                                           *)
CrashSidecar ==
  /\ Fails /\ side.pc # "down"
  /\ side' = AtRest("down")
  /\ status' \in ReadStatus
  /\ UNCHANGED <<adminVars, released, compose, admin, mysql>>

Restart ==
  /\ Sidecar("down", AtRest("boot"))
  /\ UNCHANGED <<file, req, status, compose, admin, mysql, troubles>>

(* The admin dies and Docker restarts it: it is the same container.        *)
CrashAdmin ==
  /\ Fails /\ admin # Down
  /\ (\E r \in Requesters : req[r].pc # "idle") \/ toggle # "idle"
  /\ Killed
  /\ UNCHANGED <<kv, file, sideVars, released>>

SideStep ==
  \/ Boot \/ Poll \/ RemoveRequest \/ Starting \/ ApplyTag \/ Pulling \/ PullImages
  \/ Pulled \/ Recreating \/ StopService \/ StartService \/ Complete \/ Error \/ Ready
  \/ Restart

AutoStep ==
  \/ \E v \in Versions : Evaluate(v)
  \/ Preflight \/ RecordSuccess \/ ReadFailures \/ CountFailure \/ Disable

RequestStep ==
  \/ \E u \in Users : ReadLatest(u)
  \/ \E r \in Requesters : RequestUpdate(r) \/ OpenRequestFile(r) \/ WriteRequestFile(r)

SettingsStep ==
  \/ ResetFailures
  \/ \E b \in BOOLEAN : SetEnabled(b)

Next ==
  \/ SideStep \/ AutoStep \/ RequestStep \/ SettingsStep
  \/ CrashSidecar \/ CrashAdmin
  \/ \E v \in Versions : Publish(v)

Spec == Init /\ [][Next]_vars

(* The sidecar's loop goes on and Docker restarts it; nobody has to ask    *)
(* for an update.                                                          *)
FairSpec == Spec /\ WF_vars(SideStep)

-----------------------------------------------------------------------------
TypeOK ==
  /\ released \in (SUBSET Versions) \ {{}}
  /\ kv \in [enabled : BOOLEAN, failures : 0..MaxCount]
  /\ file \in Tags \cup {NoFile}
  /\ status \in Stages \cup {Empty}
  /\ compose \in Tags
  /\ admin \in Versions \cup {Down}
  /\ mysql \in BOOLEAN
  /\ req \in [Requesters -> [pc : Pcs, tag : Tags \cup {NoVersion}, linked : BOOLEAN,
                             n : 0..MaxCount]]
  /\ toggle \in {"idle", "failures"}
  /\ side \in [pc : SidePcs, tag : Tags, svc : {"admin", "mysql"}]
  /\ troubles \in 0..MaxTroubles

Performing == {"sed", "pulling", "pull", "pulled", "recreating", "stop", "up",
               "complete", "error"}

(* The status both the manual request and the pre-flight rely on: from its *)
(* first command to its last, the sidecar says that it is at work, and it  *)
(* says so at no other time, unless it died and has yet to say "idle".     *)
StatusIsHonest ==
  /\ side.pc \in Performing => status \in InProgress
  /\ status \in InProgress => side.pc \in Performing \cup {"down", "boot"}

(* The auto-update applies newer releases of the same major only: the      *)
(* target vetted against the version that runs stays so until the request  *)
(* is written, for whatever changes the version kills the attempt.         *)
VettedStaysNewer ==
  req[AutoUpdate].pc \in {"preflight", "request", "open", "write"} =>
    /\ admin # Down
    /\ req[AutoUpdate].tag \in Versions
    /\ req[AutoUpdate].tag > admin /\ MajorOf[req[AutoUpdate].tag] = MajorOf[admin]

(* An update in progress ends, whatever fails and even if the sidecar      *)
(* dies: updates are not refused for ever.                                 *)
UpdateEnds == status \in InProgress ~> status \notin InProgress

(* The admin, once stopped, comes back, unless the sidecar dies or ends    *)
(* the update with an error.                                               *)
AdminComesBack ==
  admin = Down /\ side.pc \in Performing ~> admin # Down \/ side.pc \in {"error", "down"}

(* The volume's files and the sidecar's commands keep the promise of an     *)
(* updater: one update at a time, of what a request file named, and the     *)
(* status says "complete" only of a version that runs.                      *)
Promise ==
  INSTANCE Updater WITH
    Latest <- LatestTag, Torn <- Empty, Nothing <- NoFile,
    request <- file,
    target <- IF side.pc \in {"remove", "starting"} \cup Performing THEN side.tag ELSE NoFile,
    running <- admin,
    told <- status = "complete"

KeepsPromise == Promise!Spec
=============================================================================
