------------------------ MODULE SystemUpdate_proofs -------------------------
(* Proofs about SystemUpdate, for every value of its constants: the types, *)
(* the sidecar's honesty about its work, that the auto-update never asks   *)
(* for a version that is not newer than the one that runs, and that the    *)
(* files and commands implement the Updater.                               *)
EXTENDS SystemUpdate, TLAPS

-----------------------------------------------------------------------------
(* The strengthening: `latest` stands for a release, a request that is     *)
(* about to write has a tag to write, and the sidecar starts the admin it  *)
(* has removed from a release it has pulled.                               *)

Request == [pc : Pcs, tag : Tags \cup {NoVersion}, linked : BOOLEAN, n : 0..MaxCount]
Side == [pc : SidePcs, tag : Tags, svc : {"admin", "mysql"}]

VettedPcs == {"preflight", "request", "open", "write"}
HasPulled == {"pulled", "recreating", "stop", "up"}

Asks(q) == q.pc \in VettedPcs => q.tag \in Tags
Vetted(q) ==
  /\ admin # Down
  /\ q.tag \in Versions
  /\ q.tag > admin /\ MajorOf[q.tag] = MajorOf[admin]

HasNewest(S) == \E v \in S : \A w \in S : w <= v
HasRelease(s) == s.pc \in HasPulled => s.tag \in Versions
HasRemoved(s) == s.pc = "up" /\ s.svc = "admin" => admin = Down

IInv ==
  /\ TypeOK /\ StatusIsHonest /\ VettedStaysNewer
  /\ HasNewest(released)
  /\ \A r \in Requesters : Asks(req[r])
  /\ HasRelease(side) /\ HasRemoved(side)

-----------------------------------------------------------------------------
(* Helpers of the model.                                                   *)

(* The newest of the releases is one of them.                              *)
LEMMA NewestType ==
  ASSUME NEW S, HasNewest(S)
  PROVE  Newest(S) \in S
  BY DEF Newest, HasNewest

LEMMA ReleaseType ==
  ASSUME IInv, compose # Empty
  PROVE  Release(compose) \in Versions
  BY NewestType DEF Release, IInv, TypeOK, Tags

LEMMA RestType ==
  ASSUME NEW pc \in SidePcs
  PROVE  AtRest(pc) \in Side /\ AtRest(pc).pc = pc
  BY DEF AtRest, Side, Tags

LEMMA NoRequestType == NoRequest \in Request /\ NoRequest.pc = "idle"
  BY BoundsAssumption DEF NoRequest, Request, Pcs

LEMMA FailsType ==
  ASSUME TypeOK, Fails \/ Works
  PROVE  troubles' \in 0..MaxTroubles
  BY BoundsAssumption DEF TypeOK, Fails, Works

LEMMA ReadStatusType ==
  ASSUME TypeOK
  PROVE  ReadStatus \subseteq Stages \cup {Empty}
  BY DEF ReadStatus, TypeOK

-----------------------------------------------------------------------------
(* The admin's steps.                                                      *)

(* They change nothing of the sidecar, and one request at most.            *)
LEMMA AdminFrame ==
  ASSUME IInv, Serving,
         kv' \in [enabled : BOOLEAN, failures : 0..MaxCount],
         file' \in Tags \cup {NoFile},
         toggle' \in {"idle", "failures"},
         troubles' \in 0..MaxTroubles,
         req' \in [Requesters -> Request],
         \A r \in Requesters : Asks(req'[r]),
         req'[AutoUpdate].pc \in VettedPcs => Vetted(req'[AutoUpdate])
  PROVE  IInv'
  BY DEF IInv, TypeOK, StatusIsHonest, VettedStaysNewer, Serving, sideVars, Request,
         VettedPcs, Vetted, Asks, HasRelease, HasRemoved, HasNewest

LEMMA AutoIsRequester == AutoUpdate \in Requesters
  BY DEF Requesters

LEMMA ReqType ==
  ASSUME IInv, NEW r \in Requesters
  PROVE  req[r] \in Request /\ Asks(req[r])
           /\ (r = AutoUpdate /\ req[r].pc \in VettedPcs => Vetted(req[r]))
  BY DEF IInv, TypeOK, Request, VettedStaysNewer, VettedPcs, Vetted

LEMMA OneRequest ==
  ASSUME IInv, Serving, NEW r \in Requesters, NEW q \in Request, Becomes(r, q),
         kv' \in [enabled : BOOLEAN, failures : 0..MaxCount],
         file' \in Tags \cup {NoFile},
         toggle' = toggle,
         troubles' \in 0..MaxTroubles,
         Asks(q),
         r = AutoUpdate /\ q.pc \in VettedPcs => Vetted(q)
  PROVE  IInv'
<1>1. req' \in [Requesters -> Request]
  BY DEF IInv, TypeOK, Request, Becomes
<1>2. \A s \in Requesters : req'[s] = IF s = r THEN q ELSE req[s]
  BY DEF IInv, TypeOK, Becomes
<1>3. \A s \in Requesters : Asks(req'[s])
  BY <1>2, ReqType
<1>4. req'[AutoUpdate].pc \in VettedPcs => Vetted(req'[AutoUpdate])
  BY <1>2, ReqType, AutoIsRequester
<1>5. toggle' \in {"idle", "failures"}
  BY DEF IInv, TypeOK
<1>6. QED
  BY <1>1, <1>3, <1>4, <1>5, AdminFrame

LEMMA Types ==
  ASSUME IInv
  PROVE  /\ kv \in [enabled : BOOLEAN, failures : 0..MaxCount]
         /\ file \in Tags \cup {NoFile}
         /\ toggle \in {"idle", "failures"}
         /\ troubles \in 0..MaxTroubles
  BY DEF IInv, TypeOK

(* A request that moves on keeps its tag.                                  *)
LEMMA GoKeepsIInv ==
  ASSUME IInv, Serving, NEW r \in Requesters, NEW pc \in Pcs, Go(r, pc),
         pc \in VettedPcs => req[r].pc \in VettedPcs,
         kv' \in [enabled : BOOLEAN, failures : 0..MaxCount],
         file' \in Tags \cup {NoFile},
         toggle' = toggle, troubles' \in 0..MaxTroubles
  PROVE  IInv'
<1> DEFINE q == [req[r] EXCEPT !.pc = pc]
<1>1. q \in Request /\ q.pc = pc /\ q.tag = req[r].tag
  BY ReqType DEF Request
<1>2. Asks(q) /\ (r = AutoUpdate /\ q.pc \in VettedPcs => Vetted(q))
  BY <1>1, ReqType DEF Asks, Vetted
<1>3. QED
  BY <1>1, <1>2, OneRequest DEF Go

LEMMA EndKeepsIInv ==
  ASSUME IInv, Serving, NEW r \in Requesters, Becomes(r, NoRequest),
         kv' \in [enabled : BOOLEAN, failures : 0..MaxCount],
         file' \in Tags \cup {NoFile},
         toggle' = toggle, troubles' \in 0..MaxTroubles
  PROVE  IInv'
<1>1. Asks(NoRequest) /\ NoRequest.pc \notin VettedPcs
  BY NoRequestType DEF Asks, VettedPcs
<1>2. QED
  BY <1>1, NoRequestType, OneRequest

LEMMA RejectedKeepsIInv ==
  ASSUME IInv, Serving, NEW r \in Requesters, Rejected(r),
         kv' = kv, file' = file, toggle' = toggle, troubles' \in 0..MaxTroubles
  PROVE  IInv'
<1>1. "failed" \in Pcs /\ "failed" \notin VettedPcs
  BY DEF Pcs, AutoPcs, VettedPcs
<1>2. QED
  BY <1>1, Types, GoKeepsIInv, EndKeepsIInv DEF Rejected

(* Settings.                                                               *)
LEMMA SettingsKeepIInv ==
  ASSUME IInv, SettingsStep
  PROVE  IInv'
<1>1. req' \in [Requesters -> Request] /\ \A r \in Requesters : Asks(req'[r])
  BY DEF SettingsStep, SetEnabled, ResetFailures, IInv, TypeOK, Request
<1>2. req'[AutoUpdate].pc \in VettedPcs => Vetted(req'[AutoUpdate])
  BY ReqType, AutoIsRequester DEF SettingsStep, SetEnabled, ResetFailures
<1>3. Serving /\ file' = file /\ troubles' = troubles
  BY DEF SettingsStep, SetEnabled, ResetFailures
<1>4. kv' \in [enabled : BOOLEAN, failures : 0..MaxCount]
        /\ toggle' \in {"idle", "failures"}
  BY Types, BoundsAssumption DEF SettingsStep, SetEnabled, ResetFailures
<1>5. QED
  BY <1>1, <1>2, <1>3, <1>4, Types, AdminFrame

(* A request for an update.                                                *)
LEMMA RequestUpdateKeepsIInv ==
  ASSUME IInv, NEW r \in Requesters, RequestUpdate(r)
  PROVE  IInv'
<1>1. Serving /\ kv' = kv /\ file' = file /\ toggle' = toggle /\ troubles' = troubles
  BY DEF RequestUpdate
<1>2. CASE Rejected(r)
  BY <1>1, <1>2, Types, RejectedKeepsIInv
<1>3. CASE r = AutoUpdate /\ Go(r, "open")
  BY <1>1, <1>3, Types, GoKeepsIInv DEF RequestUpdate, VettedPcs, Pcs
<1>4. CASE r # AutoUpdate /\ Go(r, "latest")
  BY <1>1, <1>4, Types, GoKeepsIInv DEF VettedPcs, Pcs
<1>5. QED
  BY <1>2, <1>3, <1>4 DEF RequestUpdate

LEMMA ReadLatestKeepsIInv ==
  ASSUME IInv, NEW u \in Users, ReadLatest(u)
  PROVE  IInv'
<1>1. u \in Requesters /\ u # AutoUpdate
  BY NamesAssumption DEF Requesters
<1>2. Serving /\ kv' = kv /\ file' = file /\ toggle' = toggle /\ troubles' = troubles
  BY DEF ReadLatest
<1>3. CASE Rejected(u)
  BY <1>1, <1>2, <1>3, Types, RejectedKeepsIInv
<1>4. ASSUME NEW tag \in released \cup {LatestTag},
             Becomes(u, [req[u] EXCEPT !.pc = "open", !.tag = tag])
      PROVE  IInv'
  <2> DEFINE q == [req[u] EXCEPT !.pc = "open", !.tag = tag]
  <2>1. tag \in Tags
    BY DEF IInv, TypeOK, Tags
  <2>2. q \in Request /\ q.tag = tag
    BY <1>1, <2>1, ReqType DEF Request, Pcs
  <2>3. Asks(q)
    BY <2>1, <2>2 DEF Asks
  <2>4. QED
    BY <1>1, <1>2, <1>4, <2>2, <2>3, Types, OneRequest
<1>5. QED
  BY <1>3, <1>4 DEF ReadLatest

LEMMA OpenKeepsIInv ==
  ASSUME IInv, NEW r \in Requesters, OpenRequestFile(r)
  PROVE  IInv'
<1>1. Serving /\ kv' = kv /\ toggle' = toggle
  BY DEF OpenRequestFile
<1>2. troubles' \in 0..MaxTroubles
  BY FailsType DEF OpenRequestFile, IInv
<1>3. CASE file' = file /\ Rejected(r)
  BY <1>1, <1>2, <1>3, RejectedKeepsIInv
<1>4. CASE /\ file' = Empty
           /\ Becomes(r, [req[r] EXCEPT !.pc = "write", !.linked = TRUE])
  <2> DEFINE q == [req[r] EXCEPT !.pc = "write", !.linked = TRUE]
  <2>1. q \in Request /\ q.tag = req[r].tag /\ q.pc = "write"
    BY ReqType DEF Request, Pcs
  <2>2. req[r].pc \in VettedPcs
    BY DEF OpenRequestFile, VettedPcs
  <2>3. Asks(q) /\ (r = AutoUpdate => Vetted(q))
    BY <2>1, <2>2, ReqType DEF Asks, Vetted
  <2>4. file' \in Tags
    BY <1>4 DEF Tags
  <2>5. QED
    BY <1>1, <1>2, <1>4, <2>1, <2>3, <2>4, Types, OneRequest
<1>5. QED
  BY <1>3, <1>4 DEF OpenRequestFile

LEMMA WriteKeepsIInv ==
  ASSUME IInv, NEW r \in Requesters, WriteRequestFile(r)
  PROVE  IInv'
<1>1. Serving /\ kv' = kv /\ toggle' = toggle /\ troubles' = troubles
  BY DEF WriteRequestFile
<1>2. file' \in Tags \cup {NoFile}
  BY ReqType, Types DEF WriteRequestFile, Asks, VettedPcs
<1>3. CASE Go(r, "succeeded")
  BY <1>1, <1>2, <1>3, Types, GoKeepsIInv DEF Pcs, AutoPcs, VettedPcs
<1>4. CASE Becomes(r, NoRequest)
  BY <1>1, <1>2, <1>4, Types, EndKeepsIInv
<1>5. QED
  BY <1>3, <1>4 DEF WriteRequestFile

LEMMA RequestKeepsIInv ==
  ASSUME IInv, RequestStep
  PROVE  IInv'
BY RequestUpdateKeepsIInv, ReadLatestKeepsIInv, OpenKeepsIInv, WriteKeepsIInv
   DEF RequestStep

(* An attempt of the auto-update.                                          *)
LEMMA EvaluateKeepsIInv ==
  ASSUME IInv, NEW v \in Versions, Evaluate(v)
  PROVE  IInv'
<1> DEFINE q == [NoRequest EXCEPT !.pc = "preflight", !.tag = v]
<1>1. q \in Request /\ q.tag = v
  BY NoRequestType DEF Request, Pcs, AutoPcs, Tags
<1>2. Asks(q) /\ Vetted(q)
  BY <1>1 DEF Evaluate, Candidates, Serving, Asks, Vetted, Tags
<1>3. QED
  BY <1>1, <1>2, Types, AutoIsRequester, OneRequest DEF Evaluate

LEMMA PreflightKeepsIInv ==
  ASSUME IInv, Preflight
  PROVE  IInv'
<1>1. Serving /\ kv' = kv /\ file' = file /\ toggle' = toggle /\ troubles' = troubles
  BY DEF Preflight
<1>2. CASE Go(AutoUpdate, "failed")
  BY <1>1, <1>2, Types, AutoIsRequester, GoKeepsIInv DEF Pcs, AutoPcs, VettedPcs
<1>3. CASE Becomes(AutoUpdate, NoRequest)
  BY <1>1, <1>3, Types, AutoIsRequester, EndKeepsIInv
<1>4. CASE Go(AutoUpdate, "request")
  BY <1>1, <1>4, Types, AutoIsRequester, GoKeepsIInv
     DEF Preflight, Pcs, AutoPcs, VettedPcs
<1>5. QED
  BY <1>2, <1>3, <1>4 DEF Preflight

LEMMA RecordSuccessKeepsIInv ==
  ASSUME IInv, RecordSuccess
  PROVE  IInv'
<1>1. kv' \in [enabled : BOOLEAN, failures : 0..MaxCount]
  BY Types, BoundsAssumption DEF RecordSuccess
<1>2. QED
  BY <1>1, Types, AutoIsRequester, EndKeepsIInv DEF RecordSuccess

LEMMA ReadFailuresKeepsIInv ==
  ASSUME IInv, ReadFailures
  PROVE  IInv'
<1> DEFINE q == [NoRequest EXCEPT !.pc = "count", !.n = kv.failures]
<1>1. q \in Request /\ q.pc = "count"
  BY Types, NoRequestType DEF Request, Pcs, AutoPcs
<1>2. Asks(q) /\ q.pc \notin VettedPcs
  BY <1>1 DEF Asks, VettedPcs
<1>3. CASE Becomes(AutoUpdate, q)
  BY <1>1, <1>2, <1>3, Types, AutoIsRequester, OneRequest DEF ReadFailures
<1>4. CASE Becomes(AutoUpdate, NoRequest)
  BY <1>4, Types, AutoIsRequester, EndKeepsIInv DEF ReadFailures
<1>5. QED
  BY <1>3, <1>4 DEF ReadFailures

LEMMA CountFailureKeepsIInv ==
  ASSUME IInv, CountFailure
  PROVE  IInv'
<1>1. req[AutoUpdate].n \in 0..MaxCount
  BY ReqType, AutoIsRequester DEF Request
<1>2. kv' \in [enabled : BOOLEAN, failures : 0..MaxCount]
  BY <1>1, Types, BoundsAssumption DEF CountFailure
<1>3. CASE Go(AutoUpdate, "disable")
  BY <1>2, <1>3, Types, AutoIsRequester, GoKeepsIInv
     DEF CountFailure, Pcs, AutoPcs, VettedPcs
<1>4. CASE Becomes(AutoUpdate, NoRequest)
  BY <1>2, <1>4, Types, AutoIsRequester, EndKeepsIInv DEF CountFailure
<1>5. QED
  BY <1>3, <1>4 DEF CountFailure

LEMMA DisableKeepsIInv ==
  ASSUME IInv, Disable
  PROVE  IInv'
<1>1. kv' \in [enabled : BOOLEAN, failures : 0..MaxCount]
  BY Types DEF Disable
<1>2. QED
  BY <1>1, Types, AutoIsRequester, EndKeepsIInv DEF Disable

LEMMA AutoKeepsIInv ==
  ASSUME IInv, AutoStep
  PROVE  IInv'
BY EvaluateKeepsIInv, PreflightKeepsIInv, RecordSuccessKeepsIInv, ReadFailuresKeepsIInv,
   CountFailureKeepsIInv, DisableKeepsIInv DEF AutoStep

-----------------------------------------------------------------------------
(* The sidecar's steps.                                                    *)

(* What is known of the sidecar and of what it changes.                    *)
LEMMA SideTypes ==
  ASSUME IInv
  PROVE  /\ side \in Side /\ HasRelease(side) /\ HasRemoved(side)
         /\ status \in Stages \cup {Empty}
         /\ compose \in Tags /\ mysql \in BOOLEAN
         /\ admin \in Versions \cup {Down}
         /\ released \in SUBSET Versions
         /\ req \in [Requesters -> Request]
         /\ StatusIsHonest
  BY DEF IInv, TypeOK, Side, Request

(* A next state of the sidecar that agrees with the status file.           *)
Agrees(s, stage) ==
  /\ s.pc \in Performing => stage \in InProgress
  /\ stage \in InProgress => s.pc \in Performing \cup {"down", "boot"}

(* It moves on and the admin's container stays.                            *)
LEMMA SideFrame ==
  ASSUME IInv, NEW s \in Side, side' = s, HasRelease(s),
         s.pc = "up" /\ s.svc = "admin" => side.pc = "up" /\ side.svc = "admin",
         status' \in Stages \cup {Empty}, Agrees(s, status'),
         compose' \in Tags, mysql' \in BOOLEAN, admin' = admin,
         file' \in Tags \cup {NoFile}, troubles' \in 0..MaxTroubles,
         UNCHANGED <<released, kv, toggle, req>>
  PROVE  IInv'
  BY DEF IInv, TypeOK, StatusIsHonest, Agrees, VettedStaysNewer, Side, HasRelease,
         HasRemoved, HasNewest, Asks

LEMMA AtType ==
  ASSUME IInv, NEW pc \in SidePcs
  PROVE  /\ At(pc) \in Side /\ At(pc).pc = pc
         /\ At(pc).tag = side.tag /\ At(pc).svc = side.svc
  BY SideTypes DEF At, Side

(* It writes its status.                                                   *)
LEMMA WriteStatusKeepsIInv ==
  ASSUME IInv, NEW pc, NEW stage \in Stages, NEW s \in Side, WriteStatus(pc, stage, s),
         Agrees(s, stage), HasRelease(s), s.pc # "up"
  PROVE  IInv'
  BY Types, SideTypes, SideFrame DEF WriteStatus, Sidecar

LEMMA StatusStepsKeepIInv ==
  ASSUME IInv,
         Boot \/ Starting \/ Pulling \/ Pulled \/ Recreating \/ Error \/ Ready
  PROVE  IInv'
<1> USE DEF Agrees, HasRelease, HasPulled, Performing, InProgress, Stages, SidePcs
<1>1. CASE Boot
  BY <1>1, RestType, WriteStatusKeepsIInv DEF Boot
<1>2. CASE Starting
  BY <1>2, AtType, WriteStatusKeepsIInv DEF Starting
<1>3. CASE Pulling
  BY <1>3, AtType, WriteStatusKeepsIInv DEF Pulling
<1>4. CASE Pulled
  BY <1>4, AtType, SideTypes, WriteStatusKeepsIInv DEF Pulled, WriteStatus, Sidecar
<1>5. CASE Recreating
  BY <1>5, AtType, SideTypes, WriteStatusKeepsIInv DEF Recreating, WriteStatus, Sidecar
<1>6. CASE Error
  BY <1>6, RestType, WriteStatusKeepsIInv DEF Error
<1>7. CASE Ready
  BY <1>7, RestType, WriteStatusKeepsIInv DEF Ready
<1>8. QED
  BY <1>1, <1>2, <1>3, <1>4, <1>5, <1>6, <1>7

LEMMA CompleteKeepsIInv ==
  ASSUME IInv, Complete
  PROVE  IInv'
<1>1. WriteStatus("complete", "complete", AtRest("done"))
  BY DEF Complete, WriteStatus, Sidecar
<1>2. "complete" \in Stages /\ "done" \in SidePcs
  BY DEF Stages, SidePcs
<1>3. QED
  BY <1>1, <1>2, RestType, WriteStatusKeepsIInv
     DEF Agrees, HasRelease, HasPulled, Performing, InProgress

(* Outside an update the status file does not say that there is one.       *)
LEMMA StatusAtRest ==
  ASSUME IInv, side.pc \in {"poll", "remove", "starting", "done"}
  PROVE  status \notin InProgress
  BY DEF IInv, StatusIsHonest, Performing

LEMMA PollKeepsIInv ==
  ASSUME IInv, Poll
  PROVE  IInv'
<1> DEFINE s == [AtRest("remove") EXCEPT !.tag = file]
<1>1. s \in Side /\ s.pc = "remove"
  BY Types, RestType DEF Poll, Side, SidePcs
<1>2. status \notin InProgress
  BY StatusAtRest DEF Poll
<1>3. Agrees(s, status) /\ HasRelease(s)
  BY <1>1, <1>2 DEF Agrees, HasRelease, Performing, HasPulled
<1>4. side' = s /\ UNCHANGED <<released, kv, toggle, req>>
        /\ UNCHANGED <<file, status, compose, admin, mysql, troubles>>
  BY DEF Poll, adminVars, env
<1>5. QED
  BY <1>1, <1>3, <1>4, Types, SideTypes, SideFrame

(* The request file goes; the requests lose their hold of it at most.      *)
LEMMA RemoveRequestKeepsIInv ==
  ASSUME IInv, RemoveRequest
  PROVE  IInv'
<1>1. At("starting") \in Side /\ At("starting").pc = "starting"
  BY AtType DEF SidePcs
<1>2. status \notin InProgress
  BY StatusAtRest DEF RemoveRequest, Sidecar
<1>3. \A r \in Requesters : /\ req'[r] \in Request
                            /\ req'[r].pc = req[r].pc /\ req'[r].tag = req[r].tag
  BY SideTypes DEF RemoveRequest, Request
<1>4. req' \in [Requesters -> Request]
  BY <1>3 DEF RemoveRequest
<1>5. side' = At("starting") /\ file' = NoFile /\ UNCHANGED <<released, kv, toggle>>
        /\ UNCHANGED <<status, compose, admin, mysql, troubles>>
  BY DEF RemoveRequest, Sidecar
<1>6. TypeOK'
  BY <1>1, <1>4, <1>5 DEF IInv, TypeOK, Request, Side
<1>7. StatusIsHonest'
  BY <1>1, <1>2, <1>5 DEF StatusIsHonest, Performing
<1>8. VettedStaysNewer'
  BY <1>3, <1>5, AutoIsRequester DEF IInv, VettedStaysNewer
<1>9. \A r \in Requesters : Asks(req'[r])
  BY <1>3 DEF IInv, Asks
<1>10. HasRelease(side') /\ HasRemoved(side')
  BY <1>1, <1>5 DEF HasRelease, HasPulled, HasRemoved
<1>11. QED
  BY <1>5, <1>6, <1>7, <1>8, <1>9, <1>10 DEF IInv, HasRemoved, HasNewest

(* A command that fails only moves the sidecar to the end.                 *)
LEMMA FailingKeepsIInv ==
  ASSUME IInv, side' = At("error"), side.pc \in Performing, Fails \/ Works,
         UNCHANGED <<released, kv, toggle, req, status, file, compose, admin, mysql>>
  PROVE  IInv'
<1>1. At("error") \in Side /\ At("error").pc = "error"
  BY AtType DEF SidePcs
<1>2. Agrees(At("error"), status) /\ HasRelease(At("error"))
  BY <1>1 DEF IInv, StatusIsHonest, Agrees, Performing, HasRelease, HasPulled
<1>3. troubles' \in 0..MaxTroubles
  BY FailsType DEF IInv
<1>4. QED
  BY <1>1, <1>2, <1>3, Types, SideTypes, SideFrame

LEMMA ApplyTagKeepsIInv ==
  ASSUME IInv, ApplyTag
  PROVE  IInv'
<1>1. side.pc = "sed" /\ UNCHANGED <<released, kv, toggle, req, status, file>>
  BY DEF ApplyTag, Command, Sidecar
<1>2. CASE side' = At("error") /\ UNCHANGED <<compose, admin, mysql>> /\ (Fails \/ Works)
  BY <1>1, <1>2, FailingKeepsIInv DEF Performing
<1>3. CASE side' = At("pulling") /\ Works /\ compose' = side.tag /\ UNCHANGED <<admin, mysql>>
  <2>1. At("pulling") \in Side /\ At("pulling").pc = "pulling"
    BY AtType DEF SidePcs
  <2>2. Agrees(At("pulling"), status) /\ HasRelease(At("pulling"))
    BY <1>1, <2>1 DEF IInv, StatusIsHonest, Agrees, Performing, HasRelease, HasPulled
  <2>3. compose' \in Tags /\ troubles' \in 0..MaxTroubles
    BY <1>3, SideTypes, FailsType DEF Side, IInv
  <2>4. QED
    BY <1>1, <1>3, <2>1, <2>2, <2>3, Types, SideTypes, SideFrame
<1>4. QED
  BY <1>2, <1>3 DEF ApplyTag, Command, Sidecar

LEMMA PullImagesKeepsIInv ==
  ASSUME IInv, PullImages
  PROVE  IInv'
<1> DEFINE s == [side EXCEPT !.pc = "pulled", !.tag = Release(compose)]
<1>1. side.pc = "pull" /\ UNCHANGED <<released, kv, toggle, req, status, file>>
        /\ UNCHANGED <<compose, admin, mysql>>
  BY DEF PullImages, Command, Sidecar
<1>2. CASE side' = At("error") /\ (Fails \/ Works)
  BY <1>1, <1>2, FailingKeepsIInv DEF Performing
<1>3. CASE side' = s /\ Works /\ compose # Empty
  <2>1. Release(compose) \in Versions
    BY <1>3, ReleaseType
  <2>2. s \in Side /\ s.pc = "pulled" /\ s.tag \in Versions
    BY <2>1, SideTypes DEF Side, SidePcs, Tags
  <2>3. Agrees(s, status) /\ HasRelease(s)
    BY <1>1, <2>2 DEF IInv, StatusIsHonest, Agrees, Performing, HasRelease
  <2>4. troubles' \in 0..MaxTroubles
    BY <1>3, FailsType DEF IInv
  <2>5. QED
    BY <1>1, <1>3, <2>2, <2>3, <2>4, Types, SideTypes, SideFrame
<1>4. QED
  BY <1>2, <1>3 DEF PullImages, Command, Sidecar

(* The requests die with the admin.                                        *)
LEMMA KilledType ==
  ASSUME Killed
  PROVE  /\ req' \in [Requesters -> Request] /\ toggle' = "idle"
         /\ \A r \in Requesters : Asks(req'[r])
         /\ req'[AutoUpdate].pc \notin VettedPcs
  BY NoRequestType, AutoIsRequester DEF Killed, Asks, VettedPcs

LEMMA StopServiceKeepsIInv ==
  ASSUME IInv, StopService
  PROVE  IInv'
<1>1. side.pc = "stop" /\ side' = At("up")
        /\ UNCHANGED <<released, kv, file, status, compose, troubles>>
  BY DEF StopService, env
<1>2. At("up") \in Side /\ At("up").pc = "up" /\ At("up").tag = side.tag
        /\ At("up").svc = side.svc
  BY AtType DEF SidePcs
<1>3. side.tag \in Versions
  BY <1>1, SideTypes DEF HasRelease, HasPulled
<1>4. StatusIsHonest' /\ HasRelease(side') /\ HasNewest(released')
  BY <1>1, <1>2, <1>3 DEF IInv, StatusIsHonest, Performing, HasRelease, HasNewest
<1>5. CASE side.svc = "admin"
  <2>1. Killed /\ admin' = Down /\ mysql' = mysql
    BY <1>5 DEF StopService
  <2>2. TypeOK'
    BY <1>1, <1>2, <2>1, KilledType DEF IInv, TypeOK, Request, Side
  <2>3. VettedStaysNewer'
    BY <2>1, KilledType DEF VettedStaysNewer, VettedPcs
  <2>4. HasRemoved(side)'
    BY <2>1 DEF HasRemoved
  <2>5. QED
    BY <1>4, <2>1, <2>2, <2>3, <2>4, KilledType DEF IInv, HasRelease, HasNewest, Asks
<1>6. CASE side.svc # "admin"
  <2>1. mysql' = FALSE /\ UNCHANGED <<admin, req, toggle>>
    BY <1>6 DEF StopService
  <2>2. TypeOK'
    BY <1>1, <1>2, <2>1 DEF IInv, TypeOK, Side
  <2>3. VettedStaysNewer' /\ HasRemoved(side)'
    BY <1>1, <1>2, <1>6, <2>1 DEF IInv, VettedStaysNewer, HasRemoved
  <2>4. QED
    BY <1>4, <2>1, <2>2, <2>3 DEF IInv, HasRelease, HasNewest, Asks
<1>7. QED
  BY <1>5, <1>6

(* The admin starts only where it was removed: no attempt of its           *)
(* auto-update is in progress then.                                        *)
LEMMA StartServiceKeepsIInv ==
  ASSUME IInv, StartService
  PROVE  IInv'
<1> DEFINE s == [side EXCEPT !.svc = "mysql",
                   !.pc = IF side.svc = "admin" THEN "recreating" ELSE "complete"]
<1>1. side.pc = "up" /\ UNCHANGED <<released, kv, toggle, req, file, status, compose>>
  BY DEF StartService, adminVars
<1>2. side.tag \in Versions
  BY <1>1, SideTypes DEF HasRelease, HasPulled
<1>3. s \in Side /\ s.pc \in {"recreating", "complete"} /\ s.tag = side.tag
  BY SideTypes DEF Side, SidePcs
<1>4. Agrees(s, status) /\ HasRelease(s) /\ HasRemoved(s)
  BY <1>1, <1>2, <1>3
     DEF IInv, StatusIsHonest, Agrees, Performing, HasRelease, HasRemoved
<1>5. CASE Fails /\ side' = At("error") /\ UNCHANGED <<admin, mysql>>
  BY <1>1, <1>5, FailingKeepsIInv DEF Performing
<1>6. CASE Works /\ side' = s /\ side.svc = "admin" /\ admin' = side.tag /\ mysql' = mysql
  <2>1. TypeOK'
    BY <1>1, <1>2, <1>3, <1>6, FailsType DEF IInv, TypeOK, Side
  <2>2. admin = Down
    BY <1>1, <1>6, SideTypes DEF HasRemoved
  <2>3. req'[AutoUpdate].pc \notin VettedPcs
    BY <1>1, <2>2, ReqType, AutoIsRequester DEF Vetted
  <2>4. StatusIsHonest' /\ VettedStaysNewer'
    BY <1>1, <1>4, <1>6, <2>3 DEF StatusIsHonest, Agrees, VettedStaysNewer, VettedPcs
  <2>5. HasRelease(side)' /\ HasRemoved(side)'
    BY <1>3, <1>4, <1>6 DEF HasRelease, HasRemoved
  <2>6. QED
    BY <1>1, <2>1, <2>4, <2>5 DEF IInv, HasNewest, Asks
<1>7. CASE Works /\ side' = s /\ mysql' = TRUE /\ admin' = admin
  BY <1>1, <1>3, <1>4, <1>7, Types, SideTypes, FailsType, SideFrame DEF IInv
<1>8. QED
  BY <1>5, <1>6, <1>7 DEF StartService

LEMMA CrashSidecarKeepsIInv ==
  ASSUME IInv, CrashSidecar
  PROVE  IInv'
<1>1. AtRest("down") \in Side /\ AtRest("down").pc = "down"
  BY RestType DEF SidePcs
<1>2. Agrees(AtRest("down"), status') /\ HasRelease(AtRest("down"))
  BY <1>1 DEF Agrees, HasRelease, HasPulled, Performing
<1>3. status' \in Stages \cup {Empty}
  BY ReadStatusType DEF CrashSidecar, IInv
<1>4. troubles' \in 0..MaxTroubles
  BY FailsType DEF CrashSidecar, IInv
<1>5. QED
  BY <1>1, <1>2, <1>3, <1>4, Types, SideTypes, SideFrame DEF CrashSidecar, adminVars

LEMMA RestartKeepsIInv ==
  ASSUME IInv, Restart
  PROVE  IInv'
<1>1. AtRest("boot") \in Side /\ AtRest("boot").pc = "boot"
  BY RestType DEF SidePcs
<1>2. Agrees(AtRest("boot"), status) /\ HasRelease(AtRest("boot"))
  BY <1>1 DEF Agrees, HasRelease, HasPulled, Performing
<1>3. QED
  BY <1>1, <1>2, Types, SideTypes, SideFrame DEF Restart, Sidecar

LEMMA SideKeepsIInv ==
  ASSUME IInv, SideStep
  PROVE  IInv'
BY StatusStepsKeepIInv, PollKeepsIInv, RemoveRequestKeepsIInv, ApplyTagKeepsIInv,
   PullImagesKeepsIInv, StopServiceKeepsIInv, StartServiceKeepsIInv, CompleteKeepsIInv,
   RestartKeepsIInv DEF SideStep

-----------------------------------------------------------------------------
(* The rest of the environment.                                            *)

LEMMA CrashAdminKeepsIInv ==
  ASSUME IInv, CrashAdmin
  PROVE  IInv'
<1>1. Killed /\ UNCHANGED <<kv, file, status, compose, admin, mysql, side, released>>
  BY DEF CrashAdmin, sideVars
<1>2. troubles' \in 0..MaxTroubles
  BY FailsType DEF CrashAdmin, IInv
<1>3. TypeOK'
  BY <1>1, <1>2, KilledType DEF IInv, TypeOK, Request
<1>4. VettedStaysNewer'
  BY KilledType, <1>1 DEF VettedStaysNewer, VettedPcs
<1>5. QED
  BY <1>1, <1>3, <1>4, KilledType
     DEF IInv, StatusIsHonest, HasNewest, HasRelease, HasRemoved, Asks

(* A new release is the newest.                                            *)
LEMMA PublishKeepsIInv ==
  ASSUME IInv, NEW v \in Versions, Publish(v)
  PROVE  IInv'
<1>1. UNCHANGED <<kv, file, req, toggle, status, compose, admin, mysql, side, troubles>>
  BY DEF Publish, adminVars, sideVars
<1>2. HasNewest(released')
  BY VersionsAssumption DEF Publish, HasNewest, IInv, TypeOK
<1>3. TypeOK'
  BY <1>1 DEF Publish, IInv, TypeOK
<1>4. QED
  BY <1>1, <1>2, <1>3
     DEF IInv, StatusIsHonest, VettedStaysNewer, HasNewest, HasRelease, HasRemoved, Asks

-----------------------------------------------------------------------------
(* The inductive invariant holds at the start and after every step.        *)

LEMMA InitIInv == Init => IInv
<1> SUFFICES ASSUME Init PROVE IInv
  OBVIOUS
<1>1. req \in [Requesters -> Request] /\ \A r \in Requesters : req[r] = NoRequest
  BY NoRequestType DEF Init
<1>2. side \in Side /\ side.pc = "poll"
  BY RestType DEF Init, SidePcs
<1>3. TypeOK
  BY <1>1, <1>2, BoundsAssumption DEF Init, TypeOK, Request, Side, Tags, Stages
<1>4. StatusIsHonest /\ HasRelease(side) /\ HasRemoved(side)
  BY <1>2 DEF Init, StatusIsHonest, Performing, InProgress, HasRelease, HasPulled, HasRemoved
<1>5. VettedStaysNewer /\ \A r \in Requesters : Asks(req[r])
  BY <1>1, NoRequestType, AutoIsRequester DEF VettedStaysNewer, Asks, VettedPcs
<1>6. HasNewest(released)
  BY VersionsAssumption DEF Init, HasNewest
<1>7. QED
  BY <1>3, <1>4, <1>5, <1>6 DEF IInv

LEMMA NextIInv == IInv /\ [Next]_vars => IInv'
<1> SUFFICES ASSUME IInv, [Next]_vars PROVE IInv'
  OBVIOUS
<1>1. CASE Next
  BY <1>1, SideKeepsIInv, AutoKeepsIInv, RequestKeepsIInv, SettingsKeepIInv,
     CrashSidecarKeepsIInv, CrashAdminKeepsIInv, PublishKeepsIInv DEF Next
<1>2. CASE UNCHANGED vars
  BY <1>2 DEF vars, adminVars, sideVars, env, IInv, TypeOK, StatusIsHonest,
     VettedStaysNewer, HasNewest, HasRelease, HasRemoved, Asks
<1>3. QED
  BY <1>1, <1>2

LEMMA Inductive == Spec => []IInv
<1>1. QED
  BY InitIInv, NextIInv, PTL DEF Spec

(* The variables keep their types; the sidecar only ever writes a known    *)
(* stage or is caught writing one, and only starts releases.               *)
THEOREM TypeCorrect == Spec => []TypeOK
<1>1. IInv => TypeOK
  BY DEF IInv
<1>2. QED
  BY <1>1, Inductive, PTL

(* The status file says that an update is in progress exactly while the    *)
(* sidecar carries one out, or has died while it did: requestUpdate and    *)
(* the pre-flight read it to refuse a second update.                       *)
THEOREM HonestStatus == Spec => []StatusIsHonest
<1>1. IInv => StatusIsHonest
  BY DEF IInv
<1>2. QED
  BY <1>1, Inductive, PTL

(* What selectEligibleTarget vetted is still newer than what runs, and of  *)
(* the same major, when its request is written, whatever updates anyone    *)
(* else had carried out since.                                             *)
THEOREM VettedNewer == Spec => []VettedStaysNewer
<1>1. IInv => VettedStaysNewer
  BY DEF IInv
<1>2. QED
  BY <1>1, Inductive, PTL

-----------------------------------------------------------------------------
(* The refinement: what the sidecar carries out is what compose.yml says,  *)
(* until the images are pulled, and then what runs, once the admin is      *)
(* recreated; a sidecar that rests has not left "complete" behind.         *)

Target == IF side.pc \in {"remove", "starting"} \cup Performing THEN side.tag ELSE NoFile

Resting == {"poll", "remove", "starting"}
Preparing == {"remove", "starting", "sed", "pulling", "pull", "pulled"}

Applied(s) == s.pc \in {"pulling", "pull"} => compose = s.tag
AdminFirst(s) == s.pc \in Preparing => s.svc = "admin"
Renewed(s) ==
  (s.pc \in {"recreating", "stop", "up"} /\ s.svc = "mysql") \/ s.pc = "complete"
    => s.tag \in Versions /\ admin = s.tag
Forgotten(s) == s.pc \in Resting => status # "complete"

Carries == Applied(side) /\ AdminFirst(side) /\ Renewed(side) /\ Forgotten(side)

LEMMA SideType == IInv => side \in Side
  BY DEF IInv, TypeOK, Side

(* The admin's steps leave the sidecar, its files and its containers.      *)
LEMMA AdminCarries ==
  ASSUME Carries, UNCHANGED <<status, compose, admin, side>>
  PROVE  Carries'
  BY DEF Carries, Applied, AdminFirst, Renewed, Forgotten

LEMMA StatusCarries ==
  ASSUME IInv, Carries, NEW pc \in SidePcs, NEW stage, NEW next \in SidePcs,
         WriteStatus(pc, stage, At(next)),
         <<pc, stage, next>> \in
           {<<"starting", "starting", "sed">>, <<"pulling", "pulling", "pull">>,
            <<"pulled", "pulled", "recreating">>, <<"recreating", "recreating", "stop">>}
  PROVE  Carries'
<1>1. side.pc = pc /\ side \in Side
  BY SideType DEF WriteStatus, Sidecar
<1>2. side'.pc = next /\ side'.tag = side.tag /\ side'.svc = side.svc
  BY <1>1 DEF WriteStatus, Sidecar, At, Side
<1>3. compose' = compose /\ admin' = admin
  BY DEF WriteStatus
<1>4. QED
  BY <1>1, <1>2, <1>3
     DEF Carries, Applied, AdminFirst, Renewed, Forgotten, Resting, Preparing

LEMMA RestCarries ==
  ASSUME NEW pc \in {"down", "boot", "poll", "done"}, side' = AtRest(pc),
         pc = "poll" => status' # "complete"
  PROVE  Carries'
<1>1. side'.pc = pc /\ side'.svc = "admin"
  BY DEF AtRest
<1>2. QED
  BY <1>1 DEF Carries, Applied, AdminFirst, Renewed, Forgotten, Resting, Preparing

(* A command that fails leaves nothing to keep.                            *)
LEMMA FailedCarries ==
  ASSUME IInv, side' = At("error")
  PROVE  Carries'
<1>1. side'.pc = "error"
  BY SideType DEF At, Side
<1>2. QED
  BY <1>1 DEF Carries, Applied, AdminFirst, Renewed, Forgotten, Resting, Preparing

LEMMA SideCarries ==
  ASSUME IInv, Carries, SideStep
  PROVE  Carries'
<1> USE SideType
<1>1. CASE Boot
  BY <1>1, RestCarries DEF Boot, WriteStatus, Sidecar
<1>2. CASE Poll
  <2>1. side'.pc = "remove" /\ side'.svc = "admin" /\ status' = status
    BY <1>2 DEF Poll, AtRest
  <2>2. status # "complete"
    BY <1>2 DEF Poll, Carries, Forgotten, Resting
  <2>3. QED
    BY <2>1, <2>2 DEF Carries, Applied, AdminFirst, Renewed, Forgotten, Preparing
<1>3. CASE RemoveRequest
  <2>1. side.pc = "remove" /\ side'.pc = "starting" /\ side'.svc = side.svc
          /\ status' = status
    BY <1>3 DEF RemoveRequest, Sidecar, At, Side
  <2>2. QED
    BY <2>1 DEF Carries, Applied, AdminFirst, Renewed, Forgotten, Preparing, Resting
<1>4. CASE Starting
  BY <1>4, StatusCarries DEF Starting, SidePcs
<1>5. CASE Pulling
  BY <1>5, StatusCarries DEF Pulling, SidePcs
<1>6. CASE Pulled
  BY <1>6, StatusCarries DEF Pulled, SidePcs
<1>7. CASE Recreating
  BY <1>7, StatusCarries DEF Recreating, SidePcs
<1>8. CASE ApplyTag
  <2>1. CASE side' = At("error")
    BY <2>1, FailedCarries
  <2>2. CASE side.pc = "sed" /\ side' = At("pulling") /\ compose' = side.tag
    <3>1. side'.pc = "pulling" /\ side'.tag = side.tag /\ side'.svc = side.svc
      BY <2>2 DEF At, Side
    <3>2. QED
      BY <2>2, <3>1 DEF Carries, Applied, AdminFirst, Renewed, Forgotten, Preparing, Resting
  <2>3. QED
    BY <1>8, <2>1, <2>2 DEF ApplyTag, Command, Sidecar
<1>9. CASE PullImages
  <2>1. CASE side' = At("error")
    BY <2>1, FailedCarries
  <2>2. CASE side.pc = "pull" /\ side' = [side EXCEPT !.pc = "pulled", !.tag = Release(compose)]
    <3>1. side'.pc = "pulled" /\ side'.svc = side.svc
      BY <2>2 DEF Side
    <3>2. QED
      BY <2>2, <3>1 DEF Carries, Applied, AdminFirst, Renewed, Forgotten, Preparing, Resting
  <2>3. QED
    BY <1>9, <2>1, <2>2 DEF PullImages, Command, Sidecar
<1>10. CASE StopService
  <2>1. side.pc = "stop" /\ side'.pc = "up" /\ side'.tag = side.tag /\ side'.svc = side.svc
          /\ (side.svc = "mysql" => admin' = admin)
    BY <1>10 DEF StopService, At, Side
  <2>2. QED
    BY <2>1 DEF Carries, Applied, AdminFirst, Renewed, Forgotten, Preparing, Resting
<1>11. CASE StartService
  <2>1. CASE side' = At("error")
    BY <2>1, FailedCarries
  <2>2. CASE /\ side' = [side EXCEPT !.svc = "mysql",
                    !.pc = IF side.svc = "admin" THEN "recreating" ELSE "complete"]
             /\ IF side.svc = "admin" THEN admin' = side.tag ELSE admin' = admin
             /\ side.pc = "up"
    <3>1. side'.pc \in {"recreating", "complete"} /\ side'.tag = side.tag
      BY <2>2 DEF Side
    <3>2. side.tag \in Versions
      BY <2>2 DEF IInv, HasRelease, HasPulled
    <3>3. admin' = side.tag
      BY <2>2 DEF Side, Carries, Renewed
    <3>4. QED
      BY <3>1, <3>2, <3>3
         DEF Carries, Applied, AdminFirst, Renewed, Forgotten, Preparing, Resting
  <2>3. QED
    BY <1>11, <2>1, <2>2 DEF StartService
<1>12. CASE Complete
  BY <1>12, RestCarries DEF Complete, Sidecar
<1>13. CASE Error
  BY <1>13, RestCarries DEF Error, WriteStatus, Sidecar
<1>14. CASE Ready
  BY <1>14, RestCarries DEF Ready, WriteStatus, Sidecar
<1>15. CASE Restart
  BY <1>15, RestCarries DEF Restart, Sidecar
<1>16. QED
  BY <1>1, <1>2, <1>3, <1>4, <1>5, <1>6, <1>7, <1>8, <1>9, <1>10, <1>11, <1>12, <1>13,
     <1>14, <1>15 DEF SideStep

(* Everything but the sidecar's own steps and its crash leaves it alone.   *)
LEMMA OthersLeaveSidecar ==
  ASSUME AutoStep \/ RequestStep \/ SettingsStep \/ CrashAdmin
           \/ (\E v \in Versions : Publish(v))
  PROVE  UNCHANGED <<status, compose, admin, side>>
<1>1. CASE AutoStep
  BY <1>1 DEF AutoStep, Evaluate, Preflight, RecordSuccess, ReadFailures, CountFailure,
     Disable, Serving, sideVars
<1>2. CASE RequestStep
  BY <1>2 DEF RequestStep, ReadLatest, RequestUpdate, OpenRequestFile, WriteRequestFile,
     Serving, sideVars
<1>3. CASE SettingsStep
  BY <1>3 DEF SettingsStep, ResetFailures, SetEnabled, Serving, sideVars
<1>4. CASE CrashAdmin
  BY <1>4 DEF CrashAdmin, sideVars
<1>5. CASE \E v \in Versions : Publish(v)
  BY <1>5 DEF Publish, sideVars
<1>6. QED
  BY <1>1, <1>2, <1>3, <1>4, <1>5

LEMMA NextCarries == IInv /\ Carries /\ [Next]_vars => Carries'
<1> SUFFICES ASSUME IInv, Carries, [Next]_vars PROVE Carries'
  OBVIOUS
<1>1. CASE SideStep
  BY <1>1, SideCarries
<1>2. CASE AutoStep \/ RequestStep \/ SettingsStep \/ CrashAdmin
             \/ (\E v \in Versions : Publish(v))
  BY <1>2, OthersLeaveSidecar, AdminCarries
<1>3. CASE CrashSidecar
  BY <1>3, RestCarries DEF CrashSidecar
<1>4. CASE UNCHANGED vars
  BY <1>4, AdminCarries DEF vars, sideVars
<1>5. QED
  BY <1>1, <1>2, <1>3, <1>4 DEF Next

-----------------------------------------------------------------------------
(* Every step is a step of the Updater, or none of its concern.            *)

LEMMA TargetAtRest == side.pc \notin {"remove", "starting"} \cup Performing => Target = NoFile
  BY DEF Target

LEMMA TargetAtWork == side.pc \in {"remove", "starting"} \cup Performing => Target = side.tag
  BY DEF Target

LEMMA NextTargetAtRest ==
  side'.pc \notin {"remove", "starting"} \cup Performing => Target' = NoFile
  BY DEF Target

LEMMA NextTargetAtWork ==
  side'.pc \in {"remove", "starting"} \cup Performing => Target' = side'.tag
  BY DEF Target

(* What nobody outside the volume and the containers notices.              *)
LEMMA Stutters ==
  ASSUME UNCHANGED <<file, admin, status>>, Target' = Target
  PROVE  UNCHANGED Promise!vars
  BY DEF Promise!vars, Target

(* A status that is not "complete" is at most a promise forgotten.         *)
LEMMA Forgoes ==
  ASSUME UNCHANGED <<file, admin>>, Target' = Target, status' # "complete"
  PROVE  [Promise!Next]_(Promise!vars)
  BY DEF Promise!Next, Promise!Forgo, Target

LEMMA GivesUp ==
  ASSUME UNCHANGED <<file, admin>>, Target # NoFile, Target' = NoFile,
         status # "complete", status' # "complete"
  PROVE  [Promise!Next]_(Promise!vars)
  BY DEF Promise!Next, Promise!GiveUp, Target

LEMMA WorkingIsNotComplete ==
  ASSUME IInv, Carries, side.pc \in {"remove", "starting"} \cup Performing
  PROVE  status # "complete"
  BY DEF IInv, StatusIsHonest, InProgress, Carries, Forgotten, Resting

LEMMA WorkHasTarget ==
  ASSUME IInv, side.pc \in {"remove", "starting"} \cup Performing
  PROVE  Target = side.tag /\ Target \in Tags /\ Target # NoFile
  BY SideType, NamesAssumption, TargetAtWork DEF Side

(* A stage written in passing.                                             *)
LEMMA StagePromised ==
  ASSUME IInv, NEW pc \in SidePcs, NEW stage, NEW next \in SidePcs,
         WriteStatus(pc, stage, At(next)), stage # "complete",
         pc \in {"starting"} \cup Performing, next \in Performing
  PROVE  [Promise!Next]_(Promise!vars)
<1>1. side.pc = pc /\ side'.pc = next /\ side'.tag = side.tag
  BY SideType DEF WriteStatus, Sidecar, At, Side
<1>2. Target' = Target
  BY <1>1, TargetAtWork, NextTargetAtWork
<1>3. QED
  BY <1>2, Forgoes DEF WriteStatus

(* A step from rest to rest that leaves no "complete" behind.              *)
LEMMA RestPromised ==
  ASSUME NEW pc \in {"boot", "down", "done"}, NEW next \in {"poll", "boot"},
         side.pc = pc, side' = AtRest(next),
         UNCHANGED <<file, admin>>, status' # "complete" \/ status' = status
  PROVE  [Promise!Next]_(Promise!vars)
<1>1. Target = NoFile /\ Target' = NoFile
  BY TargetAtRest, NextTargetAtRest DEF AtRest, Performing
<1>2. QED
  BY <1>1, Forgoes, Stutters

(* A command that fails.                                                   *)
LEMMA FailurePromised ==
  ASSUME IInv, side.pc \in Performing, side' = At("error"),
         UNCHANGED <<file, status, admin>>
  PROVE  UNCHANGED Promise!vars
<1>1. side'.pc = "error" /\ side'.tag = side.tag
  BY SideType DEF At, Side
<1>2. Target' = Target
  BY <1>1, TargetAtWork, NextTargetAtWork DEF Performing
<1>3. QED
  BY <1>2, Stutters

LEMMA SidePromised ==
  ASSUME IInv, Carries, SideStep
  PROVE  [Promise!Next]_(Promise!vars)
<1>1. CASE Boot
  BY <1>1, RestPromised DEF Boot, WriteStatus, Sidecar
<1>2. CASE Poll
  <2>1. side'.pc = "remove" /\ side'.tag = file
    BY <1>2 DEF Poll, AtRest
  <2>2. Target = NoFile /\ Target' = file
    BY <1>2, <2>1, TargetAtRest, NextTargetAtWork DEF Poll, Performing
  <2>3. Promise!Take
    BY <1>2, <2>2 DEF Promise!Take, Poll, Target, adminVars
  <2>4. QED
    BY <2>3 DEF Promise!Next
<1>3. CASE RemoveRequest
  <2>1. side.pc = "remove" /\ side'.pc = "starting" /\ side'.tag = side.tag
    BY <1>3, SideType DEF RemoveRequest, Sidecar, At, Side
  <2>2. Target # NoFile /\ Target' = Target
    BY <2>1, WorkHasTarget, NextTargetAtWork
  <2>3. Promise!Forget
    BY <1>3, <2>2 DEF Promise!Forget, RemoveRequest, Target
  <2>4. QED
    BY <2>3 DEF Promise!Next
<1>4. CASE Starting
  BY <1>4, StagePromised DEF Starting, SidePcs, Performing
<1>5. CASE Pulling
  BY <1>5, StagePromised DEF Pulling, SidePcs, Performing
<1>6. CASE Pulled
  BY <1>6, StagePromised DEF Pulled, SidePcs, Performing
<1>7. CASE Recreating
  BY <1>7, StagePromised DEF Recreating, SidePcs, Performing
<1>8. CASE ApplyTag
  <2>1. side.pc = "sed" /\ UNCHANGED <<file, status, admin>>
    BY <1>8 DEF ApplyTag, Command, Sidecar
  <2>2. CASE side' = At("error")
    BY <2>1, <2>2, FailurePromised DEF Performing
  <2>3. CASE side' = At("pulling")
    <3>1. side'.pc = "pulling" /\ side'.tag = side.tag
      BY <2>3, SideType DEF At, Side
    <3>2. Target' = Target
      BY <2>1, <3>1, TargetAtWork, NextTargetAtWork DEF Performing
    <3>3. QED
      BY <2>1, <3>2, Stutters
  <2>4. QED
    BY <1>8, <2>2, <2>3 DEF ApplyTag, Command, Sidecar
<1>9. CASE PullImages
  <2>1. side.pc = "pull" /\ UNCHANGED <<file, status, admin>>
    BY <1>9 DEF PullImages, Command, Sidecar
  <2>2. CASE side' = At("error")
    BY <2>1, <2>2, FailurePromised DEF Performing
  <2>3. CASE compose # Empty /\ side' = [side EXCEPT !.pc = "pulled", !.tag = Release(compose)]
    <3>1. side'.pc = "pulled" /\ side'.tag = Release(compose)
      BY <2>3, SideType DEF Side
    <3>2. Target = compose /\ Target' = Release(compose)
      BY <2>1, <3>1, TargetAtWork, NextTargetAtWork DEF Performing, Carries, Applied
    <3>3. CASE compose = LatestTag
      <4>1. Target' \in Versions
        BY <2>3, <3>2, ReleaseType
      <4>2. Promise!Resolve
        BY <2>1, <3>2, <3>3, <4>1 DEF Promise!Resolve, Target
      <4>3. QED
        BY <4>2 DEF Promise!Next
    <3>4. CASE compose # LatestTag
      BY <2>1, <3>2, <3>4, Stutters DEF Release
    <3>5. QED
      BY <3>3, <3>4
  <2>4. QED
    BY <1>9, <2>2, <2>3 DEF PullImages, Command, Sidecar
<1>10. CASE StopService
  <2>1. side.pc = "stop" /\ side'.pc = "up" /\ side'.tag = side.tag
          /\ UNCHANGED <<file, status>>
    BY <1>10, SideType DEF StopService, At, Side
  <2>2. Target = side.tag /\ Target' = side.tag
    BY <2>1, TargetAtWork, NextTargetAtWork DEF Performing
  <2>3. CASE side.svc = "admin"
    <3>1. Target \in Versions
      BY <2>1, <2>2 DEF IInv, HasRelease, HasPulled
    <3>2. Promise!Stop
      BY <1>10, <2>1, <2>2, <2>3, <3>1 DEF Promise!Stop, StopService, Target
    <3>3. QED
      BY <3>2 DEF Promise!Next
  <2>4. CASE side.svc # "admin"
    BY <1>10, <2>1, <2>2, <2>4, Stutters DEF StopService
  <2>5. QED
    BY <2>3, <2>4
<1>11. CASE StartService
  <2>1. side.pc = "up" /\ UNCHANGED <<file, status>>
    BY <1>11 DEF StartService, adminVars
  <2>2. CASE side' = At("error") /\ admin' = admin
    BY <2>1, <2>2, FailurePromised DEF Performing
  <2>3. CASE /\ side' = [side EXCEPT !.svc = "mysql",
                    !.pc = IF side.svc = "admin" THEN "recreating" ELSE "complete"]
             /\ IF side.svc = "admin" THEN admin' = side.tag ELSE admin' = admin
    <3>1. side'.pc \in {"recreating", "complete"} /\ side'.tag = side.tag
      BY <2>3, SideType DEF Side
    <3>2. Target = side.tag /\ Target' = side.tag
      BY <2>1, <3>1, TargetAtWork, NextTargetAtWork DEF Performing
    <3>3. CASE side.svc = "admin"
      <4>1. Target \in Versions /\ admin = Down
        BY <2>1, <3>2, <3>3 DEF IInv, HasRelease, HasPulled, HasRemoved
      <4>2. Promise!Start
        BY <2>1, <2>3, <3>2, <3>3, <4>1 DEF Promise!Start, Target
      <4>3. QED
        BY <4>2 DEF Promise!Next
    <3>4. CASE side.svc # "admin"
      BY <2>1, <2>3, <3>2, <3>4, Stutters
    <3>5. QED
      BY <3>3, <3>4
  <2>4. QED
    BY <1>11, <2>2, <2>3 DEF StartService
<1>12. CASE Complete
  <2>1. side.pc = "complete" /\ side' = AtRest("done")
    BY <1>12 DEF Complete, Sidecar
  <2>2. Target = side.tag /\ Target' = NoFile
    BY <2>1, TargetAtWork, NextTargetAtRest DEF Performing, AtRest
  <2>3. Target \in Versions /\ admin = Target
    BY <2>1, <2>2 DEF Carries, Renewed
  <2>4. Promise!Finish
    BY <1>12, <2>2, <2>3 DEF Promise!Finish, Complete, Target
  <2>5. QED
    BY <2>4 DEF Promise!Next
<1>13. CASE Error
  <2>1. side.pc = "error" /\ side' = AtRest("done") /\ UNCHANGED <<file, admin>>
          /\ status' = "error"
    BY <1>13 DEF Error, WriteStatus, Sidecar
  <2>2. Target # NoFile /\ Target' = NoFile
    BY <2>1, WorkHasTarget, NextTargetAtRest DEF Performing, AtRest
  <2>3. status # "complete"
    BY <2>1, WorkingIsNotComplete DEF Performing
  <2>4. QED
    BY <2>1, <2>2, <2>3, GivesUp
<1>14. CASE Ready
  BY <1>14, RestPromised DEF Ready, WriteStatus, Sidecar
<1>15. CASE Restart
  BY <1>15, RestPromised DEF Restart, Sidecar
<1>16. QED
  BY <1>1, <1>2, <1>3, <1>4, <1>5, <1>6, <1>7, <1>8, <1>9, <1>10, <1>11, <1>12, <1>13,
     <1>14, <1>15 DEF SideStep

(* The sidecar's death is an update given up, or, at rest, the end of what *)
(* it told.                                                                *)
LEMMA CrashPromised ==
  ASSUME IInv, Carries, CrashSidecar
  PROVE  [Promise!Next]_(Promise!vars)
<1>1. Target' = NoFile
  BY NextTargetAtRest DEF CrashSidecar, AtRest, Performing
<1>2. status' = status \/ status' # "complete"
  BY NamesAssumption DEF CrashSidecar, ReadStatus, Stages
<1>3. UNCHANGED <<file, admin>>
  BY DEF CrashSidecar, adminVars
<1>4. CASE side.pc \in {"remove", "starting"} \cup Performing
  BY <1>1, <1>2, <1>3, <1>4, WorkHasTarget, WorkingIsNotComplete, GivesUp
<1>5. CASE side.pc \notin {"remove", "starting"} \cup Performing
  BY <1>1, <1>2, <1>3, <1>5, TargetAtRest, Forgoes, Stutters
<1>6. QED
  BY <1>4, <1>5

(* Whoever writes the request file asks for an update: with a torn request *)
(* first, for a tag that is not torn after.                                *)
LEMMA OthersPromised ==
  ASSUME IInv, AutoStep \/ RequestStep \/ SettingsStep \/ CrashAdmin
           \/ (\E v \in Versions : Publish(v))
  PROVE  [Promise!Next]_(Promise!vars)
<1>1. UNCHANGED <<admin, status, side>>
  BY OthersLeaveSidecar
<1>2. Target' = Target
  BY <1>1 DEF Target
<1>3. CASE file' = file
  BY <1>1, <1>2, <1>3, Stutters
<1>4. ASSUME NEW r \in Requesters, OpenRequestFile(r), file' # file
      PROVE  [Promise!Next]_(Promise!vars)
  <2>1. Promise!Ask(Empty)
    BY <1>1, <1>2, <1>4 DEF Promise!Ask, OpenRequestFile, Serving, Target
  <2>2. QED
    BY <2>1 DEF Promise!Next, Promise!Requests
<1>5. ASSUME NEW r \in Requesters, WriteRequestFile(r), file' # file
      PROVE  [Promise!Next]_(Promise!vars)
  <2>1. file' = req[r].tag /\ req[r].pc = "write" /\ admin # Down
    BY <1>5 DEF WriteRequestFile, Serving
  <2>2. req[r].tag \in Tags
    BY <2>1, ReqType DEF Asks, VettedPcs
  <2>3. Promise!Ask(req[r].tag)
    BY <1>1, <1>2, <2>1 DEF Promise!Ask, Target
  <2>4. QED
    BY <2>2, <2>3 DEF Promise!Next, Promise!Requests, Tags
<1>6. CASE file' # file
  <2>1. \E r \in Requesters : OpenRequestFile(r) \/ WriteRequestFile(r)
    BY <1>6 DEF AutoStep, Evaluate, Preflight, RecordSuccess, ReadFailures, CountFailure,
       Disable, RequestStep, ReadLatest, RequestUpdate, SettingsStep, ResetFailures,
       SetEnabled, CrashAdmin, Publish, adminVars
  <2>2. QED
    BY <1>6, <2>1, <1>4, <1>5
<1>7. QED
  BY <1>3, <1>6

LEMMA InitPromised == Init => Promise!Init
<1> SUFFICES ASSUME Init PROVE Promise!Init
  OBVIOUS
<1>1. Target = NoFile
  BY TargetAtRest DEF Init, AtRest, Performing
<1>2. QED
  BY <1>1 DEF Init, Promise!Init, Target

LEMMA InitCarries == Init => Carries
  BY DEF Init, AtRest, Carries, Applied, AdminFirst, Renewed, Forgotten, Preparing

LEMMA NextPromised == IInv /\ Carries /\ [Next]_vars => [Promise!Next]_(Promise!vars)
<1> SUFFICES ASSUME IInv, Carries, [Next]_vars PROVE [Promise!Next]_(Promise!vars)
  OBVIOUS
<1>1. CASE Next
  BY <1>1, SidePromised, CrashPromised, OthersPromised DEF Next
<1>2. CASE UNCHANGED vars
  <2>1. UNCHANGED <<file, admin, status, side>>
    BY <1>2 DEF vars, adminVars, sideVars
  <2>2. QED
    BY <2>1, Stutters DEF Target
<1>3. QED
  BY <1>1, <1>2

(* The volume's two files and the sidecar's commands implement the         *)
(* Updater: whatever is written half-way, fails or dies, one update is     *)
(* carried out at a time, of a version a request named or the newest, and  *)
(* the status says "complete" only when that version runs.                 *)
THEOREM PromiseKept == Spec => KeepsPromise
<1>1. Spec => []Carries
  BY InitCarries, NextCarries, Inductive, PTL DEF Spec
<1>2. QED
  BY <1>1, Inductive, InitPromised, NextPromised, PTL DEF Spec, KeepsPromise, Promise!Spec
=============================================================================
