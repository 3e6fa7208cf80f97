----------------------- MODULE ServiceLifecycle_proofs -----------------------
(* Proofs about ServiceLifecycle, for every value of its constants: the    *)
(* types, and that a row says 'installing' only while a request owns it.   *)
EXTENDS ServiceLifecycle, TLAPS

-----------------------------------------------------------------------------
(* What a request that has come to a program counter holds: these facts    *)
(* make the two invariants inductive.                                      *)

Sweeping == {"idle", "syncList", "syncSave"}
Nested == PcsCreate \ {"check", "mark"}
Installs == {"depends", "pull", "create", "start", "finish"}
Targeted == PcsUpdate \ {"uDiscard", "uRollback", "uRestart", "uFinally"}
HoldsRow ==
  Installs \cup Targeted \cup PcsReinstall \cup {"mark", "xFind", "xStop", "xRemove", "xSave"}
    \cup (PcsRecreate \ {"cRead", "cDiscard", "cRestore", "cRestart"})

Serves(q) ==
  /\ q.goal \in Services /\ q.cur \in Services
  /\ q.cur \in {q.goal, DependsOn[q.goal]}
  /\ q.pc \notin Nested => q.cur = q.goal

HasRow(q) == q.snap[q.cur] \in Row
HasMarked(q) == q.snap[q.goal] \in Row /\ q.snap[q.goal].status = "installing"

Held ==
  {q \in Request :
     /\ q.pc \notin Sweeping => Serves(q)
     /\ q.pc \in HoldsRow => HasRow(q)
     /\ q.pc \in Installs => HasMarked(q)
     /\ q.pc \in Targeted => q.target \in Versions
     /\ q.pc = "syncSave" => \A s \in q.pending : q.snap[s] \in Row}

IInv == TypeOK /\ req \in [Requests -> Held] /\ FlagHasOwner

(* q may become n: what n must hold, q held, and if q owns a row so does n. *)
Moves(q, n) == n \in Held /\ \A s : Owns(q, s) => Owns(n, s)
Advances(r) == \E n : Moves(req[r], n) /\ Becomes(r, n)

(* The same on program counters only.                                      *)
MayFollow(p, n) ==
  /\ p \in Pcs \ Sweeping /\ n \in Pcs \ Sweeping
  /\ n \in HoldsRow => p \in HoldsRow
  /\ n \in Installs => p \in Installs
  /\ n \in Targeted => p \in Targeted
  /\ p \in Nested => n \in Nested
  /\ p \in WorkingPcs => n \in WorkingPcs
  /\ p # "cleanContainer"

-----------------------------------------------------------------------------
(* Helpers of the model.                                                   *)

(* The container found by name, if any, is one that exists.                *)
LEMMA FindType ==
  ASSUME NEW s, NEW n
  PROVE  /\ Find(s, n) \in Ids \cup {NoId}
         /\ Find(s, n) # NoId => Find(s, n) \in Ids /\ Exists(Find(s, n))
<1>1. CASE Named(s, n) = {}
  BY <1>1 DEF Find
<1>2. CASE Named(s, n) # {}
  <2>1. (CHOOSE i \in Named(s, n) : TRUE) \in Named(s, n)
    BY <1>2
  <2>2. QED
    BY <1>2, <2>1 DEF Find, Named
<1>3. QED
  BY <1>1, <1>2

LEMMA IdleType == Idle \in Held
  BY DEF Idle, Held, Request, Operations, Pcs, PcsOther, Sweeping, HoldsRow, Installs,
         Targeted, PcsCreate, PcsReinstall, PcsUpdate, PcsRecreate

(* Lucid's save keeps a row a row, and marks one 'installing' only if the  *)
(* instance changed to that.                                               *)
LEMMA WrittenType ==
  ASSUME NEW db \in Row \cup {NoRow}, NEW was \in Row, NEW now \in Row
  PROVE  /\ Written(db, was, now) \in Row \cup {NoRow}
         /\ Written(db, was, now) = NoRow <=> db = NoRow
         /\ Written(db, was, now) # NoRow =>
              Written(db, was, now).status =
                IF now.status = was.status THEN db.status ELSE now.status
  BY ValuesAssumption DEF Written, Row

(* Docker calls respect the bound on faults.                               *)
LEMMA DockerType ==
  ASSUME NEW broken \in BOOLEAN, faults \in 0..MaxFaults, Docker(broken)
  PROVE  faults' \in 0..MaxFaults
  BY ValuesAssumption DEF Docker

Containers == [Ids -> Container \cup {NoContainer}]

(* What Docker calls do to the containers.                                 *)
LEMMA ContainerTypes ==
  ASSUME ctr \in Containers, NEW i \in Ids \cup {NoId}
  PROVE  /\ Removed(i) \in Containers
         /\ Exists(i) => \A n \in {"live", "old"} : Renamed(i, n) \in Containers
         /\ Exists(i) => \A b \in BOOLEAN : Running(i, b) \in Containers
<1>1. Removed(i) \in Containers
  BY DEF Removed, Containers
<1>2. ASSUME Exists(i) PROVE i \in Ids /\ ctr[i] \in Container
  BY <1>2 DEF Exists, Containers
<1>3. ASSUME Exists(i), NEW n \in {"live", "old"} PROVE Renamed(i, n) \in Containers
  <2>1. [ctr[i] EXCEPT !.name = n] \in Container
    BY <1>2, <1>3 DEF Container
  <2>2. QED
    BY <2>1 DEF Renamed, Containers
<1>4. ASSUME Exists(i), NEW b \in BOOLEAN PROVE Running(i, b) \in Containers
  <2>1. [ctr[i] EXCEPT !.running = b] \in Container
    BY <1>2, <1>4 DEF Container
  <2>2. QED
    BY <2>1 DEF Running, Containers
<1>5. QED
  BY <1>1, <1>3, <1>4

-----------------------------------------------------------------------------
(* One request moves.                                                      *)

LEMMA Follows ==
  ASSUME NEW q \in Held, NEW n \in Request, MayFollow(q.pc, n.pc),
         n.goal = q.goal, n.cur = q.cur,
         n.pc \in HoldsRow \cup Installs => n.snap = q.snap,
         n.pc \in Targeted => n.target = q.target
  PROVE  Moves(q, n)
  BY DEF Moves, Held, MayFollow, Serves, HasRow, HasMarked, Owns, Sweeping

LEMMA ReqType ==
  ASSUME IInv, NEW r \in Requests
  PROVE  req[r] \in Held /\ req[r] \in Request
  BY DEF IInv, Held

LEMMA GoAdvances ==
  ASSUME IInv, NEW r \in Requests, NEW pc, MayFollow(req[r].pc, pc), Go(r, pc)
  PROVE  Advances(r)
<1> DEFINE n == [req[r] EXCEPT !.pc = pc]
<1>1. n \in Request
  BY ReqType DEF Request, MayFollow
<1>2. n.pc = pc /\ n.goal = req[r].goal /\ n.cur = req[r].cur /\ n.snap = req[r].snap
        /\ n.target = req[r].target
  BY ReqType DEF Request
<1>3. Moves(req[r], n)
  BY <1>1, <1>2, ReqType, Follows
<1>4. QED
  BY <1>3 DEF Advances, Go

LEMMA OldAdvances ==
  ASSUME IInv, NEW r \in Requests, NEW pc, MayFollow(req[r].pc, pc),
         NEW i \in Ids \cup {NoId}, Old(r, i, pc)
  PROVE  Advances(r)
<1> DEFINE n == [req[r] EXCEPT !.pc = pc, !.old = i]
<1>1. n \in Request
  BY ReqType DEF Request, MayFollow
<1>2. n.pc = pc /\ n.goal = req[r].goal /\ n.cur = req[r].cur /\ n.snap = req[r].snap
        /\ n.target = req[r].target
  BY ReqType DEF Request
<1>3. Moves(req[r], n)
  BY <1>1, <1>2, ReqType, Follows
<1>4. QED
  BY <1>3 DEF Advances, Old

LEMMA NewAdvances ==
  ASSUME IInv, NEW r \in Requests, NEW pc, MayFollow(req[r].pc, pc),
         NEW i \in Ids \cup {NoId}, New(r, i, pc)
  PROVE  Advances(r)
<1> DEFINE n == [req[r] EXCEPT !.pc = pc, !.new = i]
<1>1. n \in Request
  BY ReqType DEF Request, MayFollow
<1>2. n.pc = pc /\ n.goal = req[r].goal /\ n.cur = req[r].cur /\ n.snap = req[r].snap
        /\ n.target = req[r].target
  BY ReqType DEF Request
<1>3. Moves(req[r], n)
  BY <1>1, <1>2, ReqType, Follows
<1>4. QED
  BY <1>3 DEF Advances, New

(* A request that drops what it holds but its goal.                        *)
LEMMA BareAdvances ==
  ASSUME IInv, NEW r \in Requests, NEW n, Becomes(r, n),
         NEW pc \in Pcs \ (HoldsRow \cup Installs \cup Targeted), MayFollow(req[r].pc, pc),
         NEW left \in 0..2, NEW up \in BOOLEAN, NEW ok \in BOOLEAN,
         \/ n = [Bare(r) EXCEPT !.pc = pc]
         \/ n = [Bare(r) EXCEPT !.pc = pc, !.left = left]
         \/ n = [Bare(r) EXCEPT !.pc = pc, !.up = up, !.ok = ok]
         \/ n = [Bare(r) EXCEPT !.pc = pc, !.up = up, !.old = req[r].old]
  PROVE  Advances(r)
<1>1. Bare(r) \in Request /\ Bare(r).goal = req[r].goal /\ Bare(r).cur = req[r].cur
  BY ReqType, IdleType DEF Bare, Request, Held, Idle
<1>2. n \in Request /\ n.pc = pc /\ n.goal = req[r].goal /\ n.cur = req[r].cur
  <2>1. CASE n = [Bare(r) EXCEPT !.pc = pc]
    BY <1>1, <2>1 DEF Request
  <2>2. CASE n = [Bare(r) EXCEPT !.pc = pc, !.left = left]
    BY <1>1, <2>2 DEF Request
  <2>3. CASE n = [Bare(r) EXCEPT !.pc = pc, !.up = up, !.ok = ok]
    BY <1>1, <2>3 DEF Request
  <2>4. CASE n = [Bare(r) EXCEPT !.pc = pc, !.up = up, !.old = req[r].old]
    <3>1. req[r].old \in Ids \cup {NoId}
      BY ReqType DEF Request
    <3>2. QED
      BY <1>1, <2>4, <3>1 DEF Request
  <2>5. QED
    BY <2>1, <2>2, <2>3, <2>4
<1>3. Moves(req[r], n)
  BY <1>2, ReqType, Follows
<1>4. QED
  BY <1>3 DEF Advances

LEMMA DoneAdvances ==
  ASSUME IInv, NEW r \in Requests, Done(r), \A s : ~Owns(req[r], s)
  PROVE  Advances(r)
  BY IdleType DEF Advances, Moves, Done

-----------------------------------------------------------------------------
(* Every step by a request is of one of two kinds.                         *)

Rows == [Services -> Row \cup {NoRow}]

(* A step of r that leaves the table alone, Docker failing or not.         *)
Called(r, pc) ==
  /\ req[r].pc = pc /\ row' = row /\ crashes' = crashes
  /\ \E broken \in BOOLEAN : Docker(broken)

LEMMA Typed ==
  ASSUME IInv
  PROVE  /\ row \in Rows /\ ctr \in Containers
         /\ faults \in 0..MaxFaults /\ crashes \in 0..MaxCrashes
  BY DEF IInv, TypeOK, Rows, Containers

LEMMA BecomesHeld ==
  ASSUME IInv, NEW r \in Requests, NEW n \in Held, Becomes(r, n)
  PROVE  /\ req' \in [Requests -> Held] /\ req' \in [Requests -> Request]
         /\ req'[r] = n
         /\ \A q \in Requests : q # r => req'[q] = req[q]
<1>1. req' \in [Requests -> Held]
  BY DEF IInv, Becomes
<1>2. Held \subseteq Request
  BY DEF Held
<1>3. QED
  BY <1>1, <1>2 DEF IInv, Becomes

(* A row becomes 'installing' only if the request then owns it, and stays  *)
(* so only if the request goes on owning what it owned.                    *)
LEMMA WriteKeepsIInv ==
  ASSUME IInv, NEW r \in Requests, NEW n \in Held, Becomes(r, n),
         row' \in Rows, ctr' = ctr, faults' = faults, crashes' = crashes,
         \A s \in Services : Installing(s)' =>
           Owns(n, s) \/ (Installing(s) /\ ~Owns(req[r], s))
  PROVE  IInv'
<1>1. TypeOK'
  BY BecomesHeld DEF IInv, TypeOK, Rows
<1>2. ASSUME crashes = 0, NEW s \in Services, Installing(s)'
      PROVE  \E q \in Requests : Owns(req'[q], s)
  <2>1. CASE Owns(n, s)
    BY <2>1, BecomesHeld
  <2>2. CASE Installing(s) /\ ~Owns(req[r], s)
    <3>1. PICK q \in Requests : Owns(req[q], s)
      BY <1>2, <2>2 DEF IInv, FlagHasOwner, InstallingIsInProgress
    <3>2. q # r
      BY <2>2, <3>1
    <3>3. QED
      BY <3>1, <3>2, BecomesHeld
  <2>3. QED
    BY <1>2, <2>1, <2>2
<1>3. FlagHasOwner'
  BY <1>2 DEF FlagHasOwner, InstallingIsInProgress
<1>4. QED
  BY <1>1, <1>3, BecomesHeld DEF IInv

(* A step that leaves the table alone.                                     *)
LEMMA CallKeepsIInv ==
  ASSUME IInv, NEW r \in Requests, NEW pc, Called(r, pc), Advances(r), ctr' \in Containers
  PROVE  IInv'
<1>1. PICK n : Moves(req[r], n) /\ Becomes(r, n)
  BY DEF Advances
<1>2. n \in Held
  BY <1>1 DEF Moves
<1>3. row' = row /\ crashes' = crashes /\ faults' \in 0..MaxFaults
  BY Typed, DockerType DEF Called
<1>4. TypeOK'
  BY <1>1, <1>2, <1>3, Typed, BecomesHeld DEF TypeOK, Containers, Rows
<1>5. ASSUME crashes = 0, NEW s \in Services, Installing(s)'
      PROVE  \E q \in Requests : Owns(req'[q], s)
  <2>1. Installing(s)
    BY <1>3, <1>5 DEF Installing
  <2>2. PICK q \in Requests : Owns(req[q], s)
    BY <1>5, <2>1 DEF IInv, FlagHasOwner, InstallingIsInProgress
  <2>3. QED
    BY <1>1, <1>2, <2>2, BecomesHeld DEF Moves
<1>6. FlagHasOwner'
  BY <1>3, <1>5 DEF FlagHasOwner, InstallingIsInProgress
<1>7. QED
  BY <1>1, <1>2, <1>4, <1>6, BecomesHeld DEF IInv

LEMMA IdleOwnsNothing ==
  ASSUME NEW q, q.pc \in Pcs \ (WorkingPcs \cup {"cleanContainer"})
  PROVE  \A s : ~Owns(q, s)
  BY DEF Owns

-----------------------------------------------------------------------------
(* A request replaces a row it holds.                                      *)
LEMMA SnapType ==
  ASSUME NEW q \in Request, NEW s \in Services, NEW x \in Row, NEW pc \in Pcs
  PROVE  /\ Holding(q, s, x, pc) \in Request
         /\ Holding(q, s, x, pc).pc = pc
         /\ Holding(q, s, x, pc).goal = q.goal
         /\ Holding(q, s, x, pc).cur = q.cur
         /\ Holding(q, s, x, pc).target = q.target
         /\ Holding(q, s, x, pc).snap[s] = x
         /\ \A t \in Services : t # s => Holding(q, s, x, pc).snap[t] = q.snap[t]
<1>1. [q.snap EXCEPT ![s] = x] \in [Services -> Row \cup {NoRow}]
  BY DEF Request
<1>2. QED
  BY <1>1 DEF Request, Holding

(* `status = 'installing'` saved by a request whose next step owns the row. *)
LEMMA MarkKeepsIInv ==
  ASSUME IInv, NEW r \in Requests, req[r].pc \in HoldsRow \ (Nested \cup Sweeping),
         NEW now \in Row, now.status = "installing",
         Save(r, req[r].cur, now),
         NEW next \in HoldsRow \cap WorkingPcs, next \in Targeted => req[r].pc \in Targeted,
         Snap(r, req[r].cur, now, next),
         UNCHANGED <<ctr, faults, crashes>>
  PROVE  IInv'
<1> DEFINE s == req[r].cur
           was == req[r].snap[s]
<1>0. PICK n : n = Holding(req[r], s, now, next)
  OBVIOUS
<1>1. row' = [row EXCEPT ![s] = Written(@, was, now)]
  BY DEF Save
<1>2. s \in Services /\ was \in Row /\ req[r].goal = s
  BY ReqType DEF Held, Serves, HasRow
<1>3. next \in Pcs /\ next \notin Sweeping
  BY DEF WorkingPcs, Pcs, PcsCreate, PcsUpdate, PcsReinstall, Sweeping
<1>4. n \in Request /\ n.pc = next /\ n.goal = s /\ n.cur = s /\ n.target = req[r].target
        /\ n.snap[s] = now
  BY <1>0, <1>2, <1>3, ReqType, SnapType
<1>5. n \in Held
  <2>1. Serves(n)
    BY <1>2, <1>4 DEF Serves
  <2>2. HasRow(n) /\ HasMarked(n)
    BY <1>4 DEF HasRow, HasMarked
  <2>3. next \in Targeted => n.target \in Versions
    BY <1>4, ReqType DEF Held
  <2>4. QED
    BY <1>3, <1>4, <2>1, <2>2, <2>3 DEF Held, Sweeping
<1>6. row' \in Rows
  BY <1>1, <1>2, Typed, WrittenType DEF Rows
<1>7. Owns(n, s)
  BY <1>4 DEF Owns
<1>8. ASSUME NEW t \in Services, Installing(t)', t # s
      PROVE  Installing(t) /\ ~Owns(req[r], t)
  BY <1>1, <1>2, <1>8, Typed DEF Installing, Owns, Rows
<1>9. QED
  BY <1>0, <1>5, <1>6, <1>7, <1>8, WriteKeepsIInv DEF Snap

LEMMA MarkInstallingKeepsIInv ==
  ASSUME IInv, NEW r \in Requests,
         \/ MarkInstalling(r, "mark", "depends")
         \/ MarkInstalling(r, "rMark", "rStop")
         \/ MarkInstalling(r, "uMark", "uPull")
  PROVE  IInv'
<1> DEFINE now == [req[r].snap[req[r].cur] EXCEPT !.status = "installing"]
<1>1. PICK next \in {"depends", "rStop", "uPull"} :
        /\ req[r].pc \in {"mark", "rMark", "uMark"}
        /\ next = "uPull" => req[r].pc = "uMark"
        /\ Save(r, req[r].cur, now) /\ Snap(r, req[r].cur, now, next)
        /\ UNCHANGED <<ctr, faults, crashes>>
  BY DEF MarkInstalling, Query, At
<1>2. req[r].pc \in HoldsRow \ (Nested \cup Sweeping)
  BY <1>1 DEF HoldsRow, Nested, Sweeping, PcsCreate, PcsReinstall, Targeted, PcsUpdate
<1>3. next \in HoldsRow \cap WorkingPcs /\ (next \in Targeted => req[r].pc \in Targeted)
  BY <1>1 DEF HoldsRow, WorkingPcs, Targeted, PcsUpdate, PcsReinstall, Installs
<1>4. now \in Row /\ now.status = "installing"
  BY <1>2, ReqType DEF Held, HasRow, Row, Status
<1>5. QED
  BY <1>1, <1>2, <1>3, <1>4, MarkKeepsIInv

(* A request that reads its row again.                                     *)
LEMMA ReadAdvances ==
  ASSUME IInv, NEW r \in Requests, row[req[r].cur] # NoRow,
         \/ req[r].pc = "check" /\ Snap(r, req[r].cur, row[req[r].cur], "mark")
         \/ req[r].pc = "cRead" /\ Snap(r, req[r].cur, row[req[r].cur], "cFind")
  PROVE  Advances(r)
<1> DEFINE q == req[r]
           s == q.cur
<1>1. PICK pc \in {"mark", "cFind"} :
        Snap(r, s, row[s], pc) /\ q.pc \in {"check", "cRead"}
  OBVIOUS
<1>2. Serves(q) /\ q.pc \notin Nested
  BY <1>1, ReqType DEF Held, Sweeping, Nested, PcsCreate
<1>3. s \in Services /\ row[s] \in Row /\ q.goal = s
  BY <1>2, Typed DEF Serves, Rows
<1>4. pc \in Pcs \ (Sweeping \cup Installs \cup Targeted \cup Nested)
  BY DEF Pcs, PcsCreate, PcsRecreate, Sweeping, Installs, Targeted, PcsUpdate, Nested
<1>5. PICK n \in Request : n = Holding(q, s, row[s], pc) /\ n.pc = pc /\ n.goal = s /\ n.cur = s
        /\ n.snap[s] = row[s]
  BY <1>3, <1>4, ReqType, SnapType
<1>6. n \in Held
  BY <1>3, <1>4, <1>5 DEF Held, Serves, HasRow, Sweeping
<1>7. \A t : ~Owns(q, t)
  BY <1>1 DEF Owns, WorkingPcs, PcsUpdate
<1>8. QED
  BY <1>1, <1>5, <1>6, <1>7 DEF Advances, Moves, Snap

(* A save that does not turn the status to 'installing'.                   *)
LEMMA SaveType ==
  ASSUME IInv, NEW r \in Requests, NEW s \in Services, req[r].snap[s] \in Row,
         NEW now \in Row, now.status # "installing" \/ now.status = req[r].snap[s].status,
         Save(r, s, now)
  PROVE  row' \in Rows /\ \A t \in Services : Installing(t)' => Installing(t)
<1>1. row' = [row EXCEPT ![s] = Written(row[s], req[r].snap[s], now)] /\ row[s] \in Row \cup {NoRow}
  BY Typed DEF Save, Rows
<1>2. row' \in Rows
  BY <1>1, Typed, WrittenType DEF Rows
<1>3. ASSUME NEW t \in Services, Installing(t)' PROVE Installing(t)
  <2>1. CASE t = s
    <3>1. row'[s] = Written(row[s], req[r].snap[s], now)
      BY <1>1, Typed DEF Rows
    <3>2. QED
      BY <1>1, <1>3, <2>1, <3>1, WrittenType DEF Installing
  <2>2. CASE t # s
    BY <1>1, <1>3, <2>2, Typed DEF Installing, Rows
  <2>3. QED
    BY <2>1, <2>2
<1>4. QED
  BY <1>2, <1>3

LEMMA CreatedType ==
  ASSUME IInv, NEW r \in Requests, NEW s \in Services, NEW v \in Versions, NEW pc,
         CreateContainer(r, s, v, pc)
  PROVE  ctr' \in Containers /\ \E i \in Ids : New(r, i, pc)
<1>1. PICK i : /\ i = CHOOSE j \in FreshIds : TRUE
               /\ ctr' = [ctr EXCEPT ![i] =
                     [svc |-> s, name |-> "live", image |-> v, running |-> FALSE]]
               /\ New(r, i, pc)
  BY DEF CreateContainer
<1>2. i \in Ids
  BY <1>1 DEF CreateContainer, FreshIds
<1>3. QED
  BY <1>1, <1>2, Typed DEF Containers, Container

-----------------------------------------------------------------------------
(* createContainerPreflight and _createContainer.                          *)

LEMMA CreateOrder ==
  /\ MayFollow("pull", "create") /\ MayFollow("create", "start")
  /\ MayFollow("start", "finish") /\ MayFollow("depends", "pull")
  /\ MayFollow("pull", "cleanRow") /\ MayFollow("create", "cleanRow")
  /\ MayFollow("start", "cleanRow")
  BY DEF MayFollow, Pcs, PcsCreate, Sweeping, HoldsRow, Installs, Targeted, Nested,
         PcsUpdate, PcsReinstall, PcsRecreate, WorkingPcs, PcsOther

LEMMA CreateFailsAdvances ==
  ASSUME IInv, NEW r \in Requests, MayFollow(req[r].pc, "cleanRow"), CreateFails(r)
  PROVE  Advances(r)
<1>1. "cleanRow" \in Pcs \ (HoldsRow \cup Installs \cup Targeted)
  BY DEF Pcs, PcsCreate, HoldsRow, Installs, Targeted, PcsUpdate, PcsReinstall, PcsRecreate
<1>2. 2 \in 0..2 /\ FALSE \in BOOLEAN
  OBVIOUS
<1>3. QED
  BY <1>1, <1>2, BareAdvances DEF CreateFails

LEMMA CreateStepKeepsIInv ==
  ASSUME IInv, NEW r \in Requests, CreateStep(r)
  PROVE  IInv'
<1> DEFINE q == req[r]
           s == q.cur
           was == q.snap[s]
<1>1. q \in Held /\ q \in Request
  BY ReqType
<1>2. CASE Check(r)
  <2>1. Called(r, "check") /\ ctr' = ctr
          /\ (Done(r) \/ (row[s] # NoRow /\ Snap(r, s, row[s], "mark")))
    BY <1>2 DEF Check, Query, At, Called, Docker, Installable
  <2>2. Advances(r)
    BY <2>1, ReadAdvances, DoneAdvances, IdleOwnsNothing
       DEF Called, Pcs, PcsCreate, WorkingPcs, PcsUpdate
  <2>3. QED
    BY <2>1, <2>2, Typed, CallKeepsIInv
<1>3. CASE Mark(r)
  BY <1>3, MarkInstallingKeepsIInv DEF Mark
<1>4. CASE Depends(r)
  <2> DEFINE d == DependsOn[s]
  <2>1. Called(r, "depends") /\ ctr' = ctr
    BY <1>4 DEF Depends, Query, At, Called, Docker
  <2>2. CASE Go(r, "pull")
    BY <2>1, <2>2, GoAdvances, CreateOrder, Typed, CallKeepsIInv DEF Called
  <2>3. CASE /\ d # NoService /\ row[d] # NoRow
             /\ Becomes(r, [Holding(q, d, row[d], "depends") EXCEPT !.cur = d])
    <3>1. "depends" \notin Sweeping \cup Targeted /\ "depends" \in Nested \cap Installs \cap Pcs
            /\ "depends" \in WorkingPcs /\ q.pc = "depends"
      BY <2>1 DEF Called, Sweeping, Targeted, Nested, Installs, Pcs, PcsCreate, PcsUpdate, WorkingPcs
    <3>2. Serves(q) /\ HasMarked(q)
      BY <1>1, <3>1 DEF Held
    <3>3. d \in Services /\ d # q.goal /\ d = DependsOn[q.goal]
      BY <2>3, <3>2, ServicesAssumption DEF Serves
    <3>4. row[d] \in Row
      BY <2>3, <3>3, Typed DEF Rows
    <3> DEFINE h == Holding(q, d, row[d], "depends")
    <3>5. h \in Request /\ h.pc = "depends" /\ h.goal = q.goal /\ h.snap[d] = row[d]
            /\ h.snap[q.goal] = q.snap[q.goal]
      BY <1>1, <3>1, <3>2, <3>3, <3>4, SnapType DEF Serves
    <3> DEFINE n == [h EXCEPT !.cur = d]
    <3> HIDE DEF h
    <3>6. n \in Request /\ n.pc = "depends" /\ n.goal = q.goal /\ n.cur = d
            /\ n.snap = h.snap
      BY <3>3, <3>5 DEF Request
    <3> HIDE DEF n
    <3>7. Serves(n) /\ HasRow(n) /\ HasMarked(n)
      BY <3>1, <3>2, <3>3, <3>4, <3>5, <3>6 DEF Serves, HasRow, HasMarked
    <3>8. n \in Held
      BY <3>1, <3>6, <3>7 DEF Held
    <3>9. \A t : Owns(q, t) => Owns(n, t)
      BY <3>1, <3>6 DEF Owns
    <3>10. Advances(r)
      BY <2>3, <3>8, <3>9 DEF Advances, Moves, n, h
    <3>11. QED
      BY <2>1, <3>10, Typed, CallKeepsIInv
  <2>4. QED
    BY <1>4, <2>2, <2>3 DEF Depends, Query
<1>5. CASE Pull(r)
  <2>1. Called(r, "pull") /\ ctr' = ctr /\ (Go(r, "create") \/ CreateFails(r))
    BY <1>5 DEF Pull, Call, At, Called
  <2>2. Advances(r)
    BY <2>1, CreateOrder, CreateFailsAdvances, GoAdvances DEF Called
  <2>3. QED
    BY <2>1, <2>2, Typed, CallKeepsIInv
<1>6. CASE Create(r)
  <2>1. Called(r, "create")
          /\ (CreateContainer(r, s, was.image, "start") \/ (CreateFails(r) /\ ctr' = ctr))
    BY <1>6 DEF Create, Call, At, Called
  <2>2. s \in Services /\ was.image \in Versions
    BY <1>1, <2>1 DEF Called, Held, Serves, HasRow, HoldsRow, Installs, Sweeping, Row
  <2>3. CASE CreateContainer(r, s, was.image, "start")
    <3>1. ctr' \in Containers /\ \E i \in Ids : New(r, i, "start")
      BY <2>2, <2>3, CreatedType
    <3>2. QED
      BY <2>1, <3>1, CreateOrder, NewAdvances, CallKeepsIInv DEF Called
  <2>4. CASE CreateFails(r) /\ ctr' = ctr
    BY <2>1, <2>4, CreateOrder, CreateFailsAdvances, Typed, CallKeepsIInv DEF Called
  <2>5. QED
    BY <2>1, <2>3, <2>4
<1>7. CASE Start(r)
  <2>1. Called(r, "start")
          /\ \/ Exists(q.new) /\ ctr' = Running(q.new, TRUE) /\ New(r, NoId, "finish")
             \/ CreateFails(r) /\ ctr' = ctr
    BY <1>7 DEF Start, Call, At, Called
  <2>2. ctr' \in Containers
    BY <1>1, <2>1, Typed, ContainerTypes DEF Request
  <2>3. Advances(r)
    BY <2>1, CreateOrder, CreateFailsAdvances, NewAdvances DEF Called
  <2>4. QED
    BY <2>1, <2>2, <2>3, CallKeepsIInv
<1>8. CASE Finish(r)
  <2> DEFINE now == [was EXCEPT !.installed = TRUE, !.status = "idle"]
  <2>1. q.pc = "finish" /\ Save(r, s, now) /\ UNCHANGED <<ctr, faults, crashes>>
    BY <1>8 DEF Finish, Query, At
  <2>2. "finish" \in HoldsRow \cap Installs \cap Nested /\ "finish" \notin Sweeping
    BY DEF HoldsRow, Installs, Nested, Sweeping, PcsCreate
  <2>3. Serves(q) /\ was \in Row /\ HasMarked(q) /\ now \in Row /\ now.status = "idle"
    BY <1>1, <2>1, <2>2 DEF Held, HasRow, Row, Status
  <2> HIDE DEF now
  <2>4. row' \in Rows /\ \A t \in Services : Installing(t)' => Installing(t)
    BY <2>1, <2>3, SaveType DEF Serves
  <2>5. CASE s = q.goal /\ Done(r)
    <3>1. row[s] \in Row \cup {NoRow} /\ row'[s] = Written(row[s], was, now)
      BY <2>1, <2>3, Typed DEF Save, Serves, Rows
    <3>2. row'[s] # NoRow => row'[s].status = "idle"
      <4>1. was.status # now.status
        BY <2>3, <2>5 DEF HasMarked
      <4>2. QED
        BY <2>3, <3>1, <4>1, WrittenType
    <3>3. \A t \in Services : Installing(t)' => Installing(t) /\ ~Owns(q, t)
      BY <2>4, <2>5, <3>2 DEF Owns, Installing
    <3>4. QED
      <4>1. PICK n \in Held : Becomes(r, n)
        BY <2>5, IdleType DEF Done
      <4>2. ctr' = ctr /\ faults' = faults /\ crashes' = crashes
        BY <2>1
      <4>3. QED
        BY <2>4, <3>3, <4>1, <4>2, WriteKeepsIInv
  <2>6. CASE s # q.goal /\ Becomes(r, [Holding(q, s, now, "pull") EXCEPT !.cur = q.goal])
    <3> DEFINE h == Holding(q, s, now, "pull")
    <3>1. "pull" \notin Sweeping \cup Targeted /\ "pull" \in Nested \cap Installs \cap Pcs
            /\ "pull" \in WorkingPcs
      BY DEF Sweeping, Targeted, Nested, Installs, Pcs, PcsCreate, PcsUpdate, WorkingPcs
    <3>2. h \in Request /\ h.pc = "pull" /\ h.goal = q.goal
            /\ h.snap[q.goal] = q.snap[q.goal]
      BY <1>1, <2>3, <2>6, <3>1, SnapType DEF Serves
    <3> DEFINE n == [h EXCEPT !.cur = q.goal]
    <3> HIDE DEF h
    <3>3. n \in Request /\ n.pc = "pull" /\ n.goal = q.goal /\ n.cur = q.goal
            /\ n.snap = h.snap
      BY <2>3, <3>2 DEF Request, Serves
    <3> HIDE DEF n
    <3>4. Serves(n) /\ HasRow(n) /\ HasMarked(n)
      BY <2>3, <3>2, <3>3 DEF Serves, HasRow, HasMarked
    <3>5. n \in Held
      BY <3>1, <3>3, <3>4 DEF Held
    <3>6. \A t \in Services : Owns(q, t) => Owns(n, t)
      BY <3>1, <3>3 DEF Owns
    <3>7. QED
      BY <2>1, <2>4, <2>6, <3>5, <3>6, WriteKeepsIInv DEF n, h
  <2>7. QED
    BY <1>8, <2>5, <2>6 DEF Finish, Query, now
<1>9. CASE CleanRow(r)
  <2>1. q.pc = "cleanRow" /\ Go(r, "cleanContainer") /\ UNCHANGED <<ctr, faults, crashes>>
          /\ row' = [row EXCEPT ![s] = IF s \in Custom \/ @ = NoRow THEN NoRow
                                       ELSE [@ EXCEPT !.status = "error"]]
    BY <1>9 DEF CleanRow, Query, At
  <2>2. row' \in Rows /\ \A t \in Services : Installing(t)' => t # s /\ Installing(t)
    BY <2>1, Typed, ValuesAssumption DEF Rows, Row, Status, Installing
  <2> DEFINE n == [q EXCEPT !.pc = "cleanContainer"]
  <2>3. n \in Request /\ n.pc = "cleanContainer" /\ n.goal = q.goal /\ n.cur = q.cur
    BY <1>1 DEF Request, Pcs, PcsCreate
  <2> HIDE DEF n
  <2>4. "cleanRow" \notin Sweeping /\ "cleanRow" \in Nested /\ "cleanContainer" \in Nested
          /\ "cleanContainer" \notin Sweeping \cup HoldsRow \cup Installs \cup Targeted
    BY DEF Sweeping, Nested, HoldsRow, Installs, Targeted, PcsCreate, PcsUpdate, PcsReinstall,
           PcsRecreate
  <2>5. n \in Held
    BY <1>1, <2>1, <2>3, <2>4 DEF Held, Serves
  <2>6. \A t \in Services : t # s /\ Owns(q, t) => Owns(n, t)
    BY <2>3 DEF Owns
  <2>7. QED
    BY <2>1, <2>2, <2>5, <2>6, WriteKeepsIInv DEF Go, n
<1>10. CASE CleanContainer(r)
  <2>1. Called(r, "cleanContainer") /\ NextCleanUp(r)
          /\ (ctr' = ctr \/ ctr' = Removed(Find(s, "live")))
    BY <1>10 DEF CleanContainer, Call, At, Called
  <2>2. ctr' \in Containers
    BY <2>1, Typed, FindType, ContainerTypes
  <2>3. Serves(q) /\ q.pc = "cleanContainer"
    BY <1>1, <2>1 DEF Held, Sweeping, Called
  <2>4. "cleanRow" \in Nested \cap Pcs \cap WorkingPcs
          /\ "cleanRow" \notin Sweeping \cup HoldsRow \cup Installs \cup Targeted
    BY DEF Sweeping, Nested, HoldsRow, Installs, Targeted, PcsCreate, PcsUpdate, PcsReinstall,
           PcsRecreate, Pcs, WorkingPcs
  <2>5. CASE q.cur # q.goal
    <3> DEFINE n == [q EXCEPT !.cur = q.goal, !.pc = "cleanRow"]
    <3>1. n \in Request /\ n.pc = "cleanRow" /\ n.goal = q.goal /\ n.cur = q.goal
      BY <1>1, <2>3, <2>4 DEF Request, Serves
    <3> HIDE DEF n
    <3>2. n \in Held
      BY <2>3, <2>4, <3>1 DEF Held, Serves
    <3>3. \A t : Owns(q, t) => Owns(n, t)
      BY <2>4, <3>1 DEF Owns
    <3>4. Advances(r)
      BY <2>1, <2>5, <3>2, <3>3 DEF NextCleanUp, Advances, Moves, n
    <3>5. QED
      BY <2>1, <2>2, <3>4, CallKeepsIInv
  <2>6. CASE q.cur = q.goal
    <3>1. \A t : ~Owns(q, t)
      BY <2>3, <2>6 DEF Owns, WorkingPcs, PcsUpdate
    <3> DEFINE n == [q EXCEPT !.left = 1, !.pc = "cleanRow"]
    <3>2. n \in Request /\ n.pc = "cleanRow" /\ n.goal = q.goal /\ n.cur = q.cur
      <4>1. 1 \in 0..2
        OBVIOUS
      <4>2. QED
        BY <1>1, <2>4, <4>1 DEF Request
    <3> HIDE DEF n
    <3>3. n \in Held
      BY <2>3, <2>4, <3>2 DEF Held, Serves
    <3>4. Advances(r)
      BY <2>1, <2>6, <3>1, <3>3, DoneAdvances DEF NextCleanUp, Advances, Moves, n
    <3>5. QED
      BY <2>1, <2>2, <3>4, CallKeepsIInv
  <2>7. QED
    BY <2>5, <2>6
<1>11. QED
  BY <1>2, <1>3, <1>4, <1>5, <1>6, <1>7, <1>8, <1>9, <1>10 DEF CreateStep

-----------------------------------------------------------------------------
(* forceReinstall.                                                          *)

LEMMA ReinstallOrder ==
  /\ MayFollow("rStop", "rRemove") /\ MayFollow("rStop", "rClear")
  /\ MayFollow("rRemove", "rClear")
  BY DEF MayFollow, Pcs, PcsCreate, Sweeping, HoldsRow, Installs, Targeted, Nested,
         PcsUpdate, PcsReinstall, PcsRecreate, PcsRemove, WorkingPcs, PcsOther

LEMMA ReinstallStepKeepsIInv ==
  ASSUME IInv, NEW r \in Requests, ReinstallStep(r)
  PROVE  IInv'
<1> DEFINE q == req[r]
           s == q.cur
           was == q.snap[s]
<1>1. q \in Held /\ q \in Request
  BY ReqType
<1>2. CASE ReinstallMark(r)
  BY <1>2, MarkInstallingKeepsIInv DEF ReinstallMark
<1>3. CASE ReinstallStop(r)
  <2>1. Called(r, "rStop")
          /\ \/ Find(s, "live") # NoId /\ Old(r, Find(s, "live"), "rRemove")
                  /\ ctr' \in {ctr, Running(Find(s, "live"), FALSE)}
             \/ Go(r, "rClear") /\ ctr' = ctr
    BY <1>3 DEF ReinstallStop, Call, At, Called
  <2>2. ctr' \in Containers
    BY <2>1, Typed, FindType, ContainerTypes
  <2>3. Advances(r)
    BY <2>1, ReinstallOrder, FindType, GoAdvances, OldAdvances DEF Called
  <2>4. QED
    BY <2>1, <2>2, <2>3, CallKeepsIInv
<1>4. CASE ReinstallRemove(r)
  <2>1. Called(r, "rRemove")
          /\ \/ Old(r, NoId, "rClear") /\ ctr' \in {ctr, Removed(q.old)}
    BY <1>4 DEF ReinstallRemove, Call, At, Called
  <2>2. ctr' \in Containers
    BY <1>1, <2>1, Typed, ContainerTypes DEF Request
  <2>3. Advances(r)
    BY <2>1, ReinstallOrder, OldAdvances DEF Called
  <2>4. QED
    BY <2>1, <2>2, <2>3, CallKeepsIInv
<1>5. CASE ReinstallClear(r)
  <2> DEFINE now == [was EXCEPT !.installed = FALSE, !.status = "installing"]
  <2>1. /\ q.pc = "rClear" /\ Save(r, s, now) /\ Snap(r, s, now, "depends")
        /\ UNCHANGED <<ctr, faults, crashes>>
    BY <1>5 DEF ReinstallClear, Query, At
  <2>2. q.pc \in HoldsRow \ (Nested \cup Sweeping)
    BY <2>1 DEF HoldsRow, Nested, Sweeping, PcsCreate, PcsReinstall
  <2>3. "depends" \in HoldsRow \cap WorkingPcs /\ "depends" \notin Targeted
    BY DEF HoldsRow, WorkingPcs, Targeted, PcsUpdate, Installs
  <2>4. now \in Row /\ now.status = "installing"
    BY <1>1, <2>2 DEF Held, HasRow, Row, Status
  <2>5. QED
    BY <2>1, <2>2, <2>3, <2>4, MarkKeepsIInv
<1>6. QED
  BY <1>2, <1>3, <1>4, <1>5 DEF ReinstallStep

-----------------------------------------------------------------------------
(* updateContainer.                                                         *)

LEMMA UpdateOrder ==
  /\ MayFollow("uPull", "uFind") /\ MayFollow("uFind", "uStop")
  /\ MayFollow("uFind", "uStale") /\ MayFollow("uStop", "uStale")
  /\ MayFollow("uStale", "uRename") /\ MayFollow("uRename", "uCreate")
  /\ MayFollow("uCreate", "uStart") /\ MayFollow("uCreate", "uRollback")
  /\ MayFollow("uStart", "uHealth") /\ MayFollow("uStart", "uDiscard")
  /\ MayFollow("uHealth", "uDropOld") /\ MayFollow("uHealth", "uDiscard")
  /\ MayFollow("uDropOld", "uRecord") /\ MayFollow("uDiscard", "uRollback")
  /\ MayFollow("uRollback", "uRestart") /\ MayFollow("uPull", "uFinally")
  /\ MayFollow("uFind", "uFinally") /\ MayFollow("uStop", "uFinally")
  /\ MayFollow("uStale", "uFinally") /\ MayFollow("uRename", "uFinally")
  /\ MayFollow("uHealth", "uFinally") /\ MayFollow("uRecord", "uFinally")
  /\ MayFollow("uRollback", "uFinally") /\ MayFollow("uRestart", "uFinally")
  BY DEF MayFollow, Pcs, PcsCreate, Sweeping, HoldsRow, Installs, Targeted, Nested,
         PcsUpdate, PcsReinstall, PcsRecreate, PcsRemove, WorkingPcs, PcsOther

LEMMA GivesUpAdvances ==
  ASSUME IInv, NEW r \in Requests, MayFollow(req[r].pc, "uFinally"),
         GivesUp(r) \/ LeavesIt(r) \/ \E ok \in BOOLEAN : Finally(r, ok)
  PROVE  Advances(r)
<1>1. "uFinally" \in Pcs \ (HoldsRow \cup Installs \cup Targeted)
  BY DEF Pcs, PcsCreate, HoldsRow, Installs, Targeted, PcsUpdate, PcsReinstall, PcsRecreate
<1>2. 0 \in 0..2 /\ FALSE \in BOOLEAN /\ req[r].up \in BOOLEAN
  BY ReqType DEF Request
<1>3. QED
  BY <1>1, <1>2, BareAdvances DEF GivesUp, LeavesIt, Finally

LEMMA UpdateStepKeepsIInv ==
  ASSUME IInv, NEW r \in Requests, UpdateStep(r)
  PROVE  IInv'
<1> DEFINE q == req[r]
           s == q.cur
           was == q.snap[s]
<1>1. q \in Held /\ q \in Request
  BY ReqType
<1>2. CASE UpdateMark(r)
  BY <1>2, MarkInstallingKeepsIInv DEF UpdateMark
<1>3. CASE UpdatePull(r)
  <2>1. Called(r, "uPull")
          /\ \/ Go(r, "uFind") /\ ctr' = ctr
             \/ GivesUp(r) /\ ctr' = ctr
    BY <1>3 DEF UpdatePull, Call, At, Called
  <2>2. ctr' \in Containers
    BY <2>1, Typed
  <2>3. Advances(r)
    BY <2>1, UpdateOrder, GivesUpAdvances, GoAdvances DEF Called
  <2>4. QED
    BY <2>1, <2>2, <2>3, CallKeepsIInv
<1>4. CASE UpdateFind(r)
  <2> DEFINE i == Find(s, "live")
             n == [q EXCEPT !.old = i, !.up = Runs(i),
                            !.pc = IF Runs(i) THEN "uStop" ELSE "uStale"]
  <2>1. Called(r, "uFind") /\ ctr' = ctr /\ (GivesUp(r) \/ Becomes(r, n))
    BY <1>4 DEF UpdateFind, Call, At, Called
  <2>2. /\ n \in Request /\ n.pc \in {"uStop", "uStale"} /\ n.goal = q.goal
        /\ n.cur = q.cur /\ n.snap = q.snap /\ n.target = q.target
    <3>1. i \in Ids \cup {NoId} /\ {"uStop", "uStale"} \subseteq Pcs
      BY FindType DEF Pcs, PcsUpdate
    <3>2. PICK b \in BOOLEAN, pc \in {"uStop", "uStale"} :
            n = [q EXCEPT !.old = i, !.up = b, !.pc = pc]
      BY DEF Runs
    <3> HIDE DEF n, i
    <3>3. QED
      BY <1>1, <3>1, <3>2 DEF Request
  <2> HIDE DEF n
  <2>3. Advances(r)
    BY <1>1, <2>1, <2>2, UpdateOrder, Follows, GivesUpAdvances DEF Called, Advances
  <2>4. QED
    BY <2>1, <2>3, Typed, CallKeepsIInv
<1>5. CASE UpdateStop(r)
  <2>1. Called(r, "uStop")
          /\ \/ Go(r, "uStale") /\ Exists(q.old) /\ ctr' = Running(q.old, FALSE)
             \/ LeavesIt(r) /\ ctr' = ctr
    BY <1>5 DEF UpdateStop, Call, At, Called, Runs
  <2>2. ctr' \in Containers
    BY <1>1, <2>1, Typed, ContainerTypes DEF Request
  <2>3. Advances(r)
    BY <2>1, UpdateOrder, GivesUpAdvances, GoAdvances DEF Called
  <2>4. QED
    BY <2>1, <2>2, <2>3, CallKeepsIInv
<1>6. CASE UpdateStale(r)
  <2>1. Called(r, "uStale")
          /\ \/ Go(r, "uRename") /\ ctr' \in {ctr, Removed(Find(s, "old"))}
             \/ LeavesIt(r) /\ ctr' = ctr
    BY <1>6 DEF UpdateStale, Call, At, Called
  <2>2. ctr' \in Containers
    BY <2>1, Typed, FindType, ContainerTypes
  <2>3. Advances(r)
    BY <2>1, UpdateOrder, GivesUpAdvances, GoAdvances DEF Called
  <2>4. QED
    BY <2>1, <2>2, <2>3, CallKeepsIInv
<1>7. CASE UpdateRename(r)
  <2>1. Called(r, "uRename")
          /\ \/ Exists(q.old) /\ ctr' = Renamed(q.old, "old") /\ Old(r, NoId, "uCreate")
             \/ LeavesIt(r) /\ ctr' = ctr
    BY <1>7 DEF UpdateRename, Call, At, Called
  <2>2. ctr' \in Containers
    BY <1>1, <2>1, Typed, ContainerTypes DEF Request
  <2>3. Advances(r)
    BY <2>1, UpdateOrder, GivesUpAdvances, GoAdvances, OldAdvances DEF Called
  <2>4. QED
    BY <2>1, <2>2, <2>3, CallKeepsIInv
<1>8. CASE UpdateCreate(r)
  <2>1. Called(r, "uCreate")
          /\ \/ CreateContainer(r, s, q.target, "uStart")
             \/ Go(r, "uRollback") /\ ctr' = ctr
    BY <1>8 DEF UpdateCreate, Call, At, Called
  <2>2. s \in Services /\ q.target \in Versions
    BY <1>1, <2>1 DEF Called, Held, Serves, Targeted, PcsUpdate, Sweeping
  <2>3. CASE CreateContainer(r, s, q.target, "uStart")
    <3>1. ctr' \in Containers /\ \E i \in Ids : New(r, i, "uStart")
      BY <2>2, <2>3, CreatedType
    <3>2. QED
      BY <2>1, <3>1, UpdateOrder, NewAdvances, CallKeepsIInv DEF Called
  <2>4. CASE Go(r, "uRollback") /\ ctr' = ctr
    BY <2>1, <2>4, UpdateOrder, GoAdvances, Typed, CallKeepsIInv DEF Called
  <2>5. QED
    BY <2>1, <2>3, <2>4
<1>9. CASE UpdateStart(r)
  <2>1. Called(r, "uStart")
          /\ \/ Go(r, "uHealth") /\ Exists(q.new) /\ ctr' = Running(q.new, TRUE)
             \/ Go(r, "uDiscard") /\ ctr' = ctr
    BY <1>9 DEF UpdateStart, Call, At, Called
  <2>2. ctr' \in Containers
    BY <1>1, <2>1, Typed, ContainerTypes DEF Request
  <2>3. Advances(r)
    BY <2>1, UpdateOrder, GoAdvances DEF Called
  <2>4. QED
    BY <2>1, <2>2, <2>3, CallKeepsIInv
<1>10. CASE UpdateHealth(r)
  <2>1. Called(r, "uHealth")
          /\ \/ New(r, NoId, "uDropOld") /\ ctr' = ctr
             \/ Go(r, "uDiscard") /\ ctr' = ctr
             \/ Finally(r, FALSE) /\ ctr' = ctr
    BY <1>10 DEF UpdateHealth, Call, At, Called
  <2>2. ctr' \in Containers
    BY <2>1, Typed
  <2>3. Advances(r)
    BY <2>1, UpdateOrder, GivesUpAdvances, GoAdvances, NewAdvances DEF Called
  <2>4. QED
    BY <2>1, <2>2, <2>3, CallKeepsIInv
<1>11. CASE UpdateDropOld(r)
  <2>1. Called(r, "uDropOld")
          /\ \/ Go(r, "uRecord") /\ ctr' \in {ctr, Removed(Find(s, "old"))}
    BY <1>11 DEF UpdateDropOld, Call, At, Called
  <2>2. ctr' \in Containers
    BY <2>1, Typed, FindType, ContainerTypes
  <2>3. Advances(r)
    BY <2>1, UpdateOrder, GoAdvances DEF Called
  <2>4. QED
    BY <2>1, <2>2, <2>3, CallKeepsIInv
<1>12. CASE UpdateRecord(r)
  <2> DEFINE now == [was EXCEPT !.image = q.target]
  <2>1. /\ q.pc = "uRecord" /\ Save(r, s, now) /\ Finally(r, TRUE)
        /\ UNCHANGED <<ctr, faults, crashes>>
    BY <1>12 DEF UpdateRecord, Query, At
  <2>2. s \in Services /\ was \in Row /\ q.target \in Versions
    BY <1>1, <2>1 DEF Held, Serves, HasRow, HoldsRow, Targeted, PcsUpdate, Sweeping
  <2>3. now \in Row /\ now.status = was.status
    BY <2>2 DEF Row
  <2>4. row' \in Rows /\ \A t \in Services : Installing(t)' => Installing(t)
    BY <2>1, <2>2, <2>3, SaveType
  <2>5. PICK n : Moves(q, n) /\ Becomes(r, n)
    BY <2>1, UpdateOrder, GivesUpAdvances DEF Advances
  <2>6. QED
    BY <2>1, <2>4, <2>5, WriteKeepsIInv DEF Moves
<1>13. CASE UpdateDiscard(r)
  <2>1. Called(r, "uDiscard")
          /\ \/ New(r, NoId, "uRollback") /\ ctr' \in {ctr, Removed(q.new)}
    BY <1>13 DEF UpdateDiscard, Call, At, Called
  <2>2. ctr' \in Containers
    BY <1>1, <2>1, Typed, ContainerTypes DEF Request
  <2>3. Advances(r)
    BY <2>1, UpdateOrder, NewAdvances DEF Called
  <2>4. QED
    BY <2>1, <2>2, <2>3, CallKeepsIInv
<1>14. CASE UpdateRollback(r)
  <2>1. Called(r, "uRollback")
          /\ \/ Old(r, Find(s, "old"), "uRestart") /\ Find(s, "old") # NoId
                  /\ ctr' \in {ctr, Renamed(Find(s, "old"), "live")}
             \/ Finally(r, FALSE) /\ ctr' = ctr
    BY <1>14 DEF UpdateRollback, Call, At, Called
  <2>2. ctr' \in Containers
    BY <2>1, Typed, FindType, ContainerTypes
  <2>3. Advances(r)
    BY <2>1, UpdateOrder, GivesUpAdvances, GoAdvances, FindType, OldAdvances DEF Called
  <2>4. QED
    BY <2>1, <2>2, <2>3, CallKeepsIInv
<1>15. CASE UpdateRestart(r)
  <2>1. Called(r, "uRestart")
          /\ \/ Exists(q.old) /\ ctr' = Running(q.old, TRUE) /\ Finally(r, FALSE)
             \/ Finally(r, FALSE) /\ ctr' = ctr
    BY <1>15 DEF UpdateRestart, Call, At, Called
  <2>2. ctr' \in Containers
    BY <1>1, <2>1, Typed, ContainerTypes DEF Request
  <2>3. Advances(r)
    BY <2>1, UpdateOrder, GivesUpAdvances, GoAdvances DEF Called
  <2>4. QED
    BY <2>1, <2>2, <2>3, CallKeepsIInv
<1>16. CASE UpdateFinally(r)
  <2>1. /\ q.pc = "uFinally" /\ Done(r) /\ UNCHANGED <<ctr, faults, crashes>>
        /\ row' = [row EXCEPT ![s] = IF @ # NoRow /\ @.status = "installing"
                                     THEN [@ EXCEPT !.status = "idle"] ELSE @]
    BY <1>16 DEF UpdateFinally, Query, At
  <2>2. Serves(q) /\ q.goal = s
    BY <1>1, <2>1 DEF Held, Serves, Sweeping, Nested, PcsCreate
  <2>3. row' \in Rows /\ \A t \in Services : Installing(t)' => t # s /\ Installing(t)
    BY <2>1, Typed, ValuesAssumption DEF Rows, Row, Status, Installing
  <2>4. \A t : Owns(q, t) => t = s
    BY <2>2 DEF Owns
  <2>5. PICK n \in Held : Becomes(r, n)
    BY <2>1, IdleType DEF Done
  <2>6. QED
    BY <2>1, <2>3, <2>4, <2>5, WriteKeepsIInv
<1>17. QED
  BY <1>2, <1>3, <1>4, <1>5, <1>6, <1>7, <1>8, <1>9, <1>10, <1>11, <1>12, <1>13, <1>14,
     <1>15, <1>16 DEF UpdateStep

-----------------------------------------------------------------------------
(* Requests that own no row: they may end anywhere.                        *)

Ownless == PcsRemove \cup PcsRecreate \cup {"check", "act", "syncList", "syncSave"}

LEMMA OwnlessType ==
  ASSUME NEW q, q.pc \in Ownless
  PROVE  \A s : ~Owns(q, s)
  BY DEF Ownless, Owns, WorkingPcs, PcsUpdate, PcsRemove, PcsRecreate

LEMMA EndAdvances ==
  ASSUME IInv, NEW r \in Requests, Done(r), req[r].pc \in Ownless
  PROVE  Advances(r)
  BY OwnlessType, DoneAdvances

(* A save, and the end of the request.                                     *)
LEMMA SaveKeepsIInv ==
  ASSUME IInv, NEW r \in Requests, req[r].pc \in Ownless \cap HoldsRow, Done(r),
         NEW now \in Row, now.status = "idle", Save(r, req[r].cur, now),
         UNCHANGED <<ctr, faults, crashes>>
  PROVE  IInv'
<1>1. req[r].snap[req[r].cur] \in Row /\ req[r].cur \in Services
  BY ReqType DEF Held, HasRow, Serves, HoldsRow, Sweeping, Installs, Targeted, PcsUpdate,
                 PcsReinstall, PcsRecreate
<1>2. row' \in Rows /\ \A t \in Services : Installing(t)' => Installing(t)
  BY <1>1, SaveType
<1>3. PICK n : Moves(req[r], n) /\ Becomes(r, n)
  BY EndAdvances DEF Advances
<1>4. QED
  BY <1>2, <1>3, OwnlessType, WriteKeepsIInv DEF Moves

-----------------------------------------------------------------------------
(* uninstallService, and the deletion of a custom app.                      *)

LEMMA RemoveOrder ==
  /\ MayFollow("xFind", "xStop") /\ MayFollow("xFind", "xRemove")
  /\ MayFollow("xFind", "xSave") /\ MayFollow("xFind", "xRow")
  /\ MayFollow("xStop", "xRemove") /\ MayFollow("xStop", "xRow")
  /\ MayFollow("xRemove", "xSave") /\ MayFollow("xRemove", "xRow")
  BY DEF MayFollow, Pcs, PcsCreate, Sweeping, HoldsRow, Installs, Targeted, Nested,
         PcsUpdate, PcsReinstall, PcsRecreate, PcsRemove, WorkingPcs, PcsOther

LEMMA RemoveStepKeepsIInv ==
  ASSUME IInv, NEW r \in Requests, RemoveStep(r)
  PROVE  IInv'
<1> DEFINE q == req[r]
           s == q.cur
           was == q.snap[s]
<1>1. q \in Held /\ q \in Request
  BY ReqType
<1>2. CASE RemoveFind(r)
  <2>1. Called(r, "xFind")
          /\ \/ (Go(r, "xSave") \/ Go(r, "xRow")) /\ ctr' = ctr
             \/ Find(s, "live") # NoId /\ ctr' = ctr
                  /\ (Old(r, Find(s, "live"), "xStop") \/ Old(r, Find(s, "live"), "xRemove"))
             \/ (Go(r, "xRow") \/ Done(r)) /\ ctr' = ctr
    BY <1>2 DEF RemoveFind, Call, At, Called, RemovalSucceeds, RemovalFails
  <2>2. ctr' \in Containers
    BY <2>1, Typed
  <2>3. Advances(r)
    BY <2>1, RemoveOrder, EndAdvances, GoAdvances, FindType, OldAdvances DEF Called, Ownless, PcsRemove
  <2>4. QED
    BY <2>1, <2>2, <2>3, CallKeepsIInv
<1>3. CASE RemoveStop(r)
  <2>1. Called(r, "xStop")
          /\ \/ Go(r, "xRemove") /\ Exists(q.old) /\ ctr' = Running(q.old, FALSE)
             \/ (Go(r, "xRow") \/ Done(r)) /\ ctr' = ctr
    BY <1>3 DEF RemoveStop, Call, At, Called, Runs, RemovalFails
  <2>2. ctr' \in Containers
    BY <1>1, <2>1, Typed, ContainerTypes DEF Request
  <2>3. Advances(r)
    BY <2>1, RemoveOrder, EndAdvances, GoAdvances DEF Called, Ownless, PcsRemove
  <2>4. QED
    BY <2>1, <2>2, <2>3, CallKeepsIInv
<1>4. CASE Remove(r)
  <2>1. Called(r, "xRemove")
          /\ \/ (Go(r, "xSave") \/ Go(r, "xRow")) /\ ctr' = Removed(q.old)
             \/ (Go(r, "xRow") \/ Done(r)) /\ ctr' = ctr
    BY <1>4 DEF Remove, Call, At, Called, RemovalSucceeds, RemovalFails
  <2>2. ctr' \in Containers
    BY <1>1, <2>1, Typed, ContainerTypes DEF Request
  <2>3. Advances(r)
    BY <2>1, RemoveOrder, EndAdvances, GoAdvances DEF Called, Ownless, PcsRemove
  <2>4. QED
    BY <2>1, <2>2, <2>3, CallKeepsIInv
<1>5. CASE UninstallSave(r)
  <2> DEFINE now == [was EXCEPT !.installed = FALSE, !.status = "idle"]
  <2>1. /\ q.pc = "xSave" /\ Save(r, s, now) /\ Done(r)
        /\ UNCHANGED <<ctr, faults, crashes>>
    BY <1>5 DEF UninstallSave, Query, At
  <2>2. q.pc \in Ownless \cap HoldsRow
    BY <2>1 DEF Ownless, HoldsRow, PcsRemove
  <2>3. now \in Row /\ now.status = "idle"
    BY <1>1, <2>2 DEF Held, HasRow, Row, Status
  <2>4. QED
    BY <2>1, <2>2, <2>3, SaveKeepsIInv
<1>6. CASE DeleteRow(r)
  <2>1. /\ q.pc = "xRow" /\ Done(r) /\ UNCHANGED <<ctr, faults, crashes>>
        /\ row' = [row EXCEPT ![s] = NoRow]
    BY <1>6 DEF DeleteRow, Query, At
  <2>2. row' \in Rows /\ \A t \in Services : Installing(t)' => Installing(t)
    BY <2>1, Typed DEF Rows, Installing
  <2>3. q.pc \in Ownless
    BY <2>1 DEF Ownless, PcsRemove
  <2>4. PICK n : Moves(q, n) /\ Becomes(r, n)
    BY <2>1, <2>3, EndAdvances DEF Advances
  <2>5. QED
    BY <2>1, <2>2, <2>3, <2>4, OwnlessType, WriteKeepsIInv DEF Moves
<1>7. QED
  BY <1>2, <1>3, <1>4, <1>5, <1>6 DEF RemoveStep

-----------------------------------------------------------------------------
(* recreateCustomAppContainer.                                              *)

LEMMA RecreateOrder ==
  /\ MayFollow("cFind", "cStale") /\ MayFollow("cStale", "cPull")
  /\ MayFollow("cStale", "cStop") /\ MayFollow("cStale", "cRename")
  /\ MayFollow("cStop", "cRename") /\ MayFollow("cRename", "cPull")
  /\ MayFollow("cPull", "cCreate") /\ MayFollow("cCreate", "cStart")
  /\ MayFollow("cStart", "cReady") /\ MayFollow("cReady", "cDropOld")
  /\ MayFollow("cReady", "cSave") /\ MayFollow("cDropOld", "cSave")
  /\ MayFollow("cDiscard", "cRestore") /\ MayFollow("cRestore", "cRestart")
  /\ MayFollow("cRename", "cDiscard") /\ MayFollow("cPull", "cDiscard")
  /\ MayFollow("cCreate", "cDiscard") /\ MayFollow("cStart", "cDiscard")
  /\ MayFollow("cReady", "cDiscard") /\ MayFollow("cDropOld", "cDiscard")
  BY DEF MayFollow, Pcs, PcsCreate, Sweeping, HoldsRow, Installs, Targeted, Nested,
         PcsUpdate, PcsReinstall, PcsRecreate, PcsRemove, WorkingPcs, PcsOther

LEMMA RecreateFailsAdvances ==
  ASSUME IInv, NEW r \in Requests, MayFollow(req[r].pc, "cDiscard"), RecreateFails(r)
  PROVE  Advances(r)
<1>1. "cDiscard" \in Pcs \ (HoldsRow \cup Installs \cup Targeted)
  BY DEF Pcs, PcsCreate, HoldsRow, Installs, Targeted, PcsUpdate, PcsReinstall, PcsRecreate
<1>2. 0 \in 0..2 /\ FALSE \in BOOLEAN
  OBVIOUS
<1>3. QED
  BY <1>1, <1>2, BareAdvances DEF RecreateFails

LEMMA RecreateStepKeepsIInv ==
  ASSUME IInv, NEW r \in Requests, RecreateStep(r)
  PROVE  IInv'
<1> DEFINE q == req[r]
           s == q.cur
           was == q.snap[s]
<1>1. q \in Held /\ q \in Request
  BY ReqType
<1>2. CASE RecreateRead(r)
  <2>1. Called(r, "cRead") /\ ctr' = ctr
          /\ (Done(r) \/ (row[s] # NoRow /\ Snap(r, s, row[s], "cFind")))
    BY <1>2 DEF RecreateRead, Query, At, Called, Docker
  <2>2. Advances(r)
    BY <2>1, ReadAdvances, EndAdvances DEF Called, Ownless, PcsRecreate
  <2>3. QED
    BY <2>1, <2>2, Typed, CallKeepsIInv
<1>3. CASE RecreateFind(r)
  <2> DEFINE i == Find(s, "live")
             n == [q EXCEPT !.pc = "cStale", !.old = i, !.up = Runs(i)]
  <2>1. Called(r, "cFind") /\ ctr' = ctr /\ (Done(r) \/ Becomes(r, n))
    BY <1>3 DEF RecreateFind, Call, At, Called
  <2>2. /\ n \in Request /\ n.pc = "cStale" /\ n.goal = q.goal
        /\ n.cur = q.cur /\ n.snap = q.snap /\ n.target = q.target
    <3>1. i \in Ids \cup {NoId} /\ "cStale" \in Pcs
      BY FindType DEF Pcs, PcsRecreate
    <3>2. PICK b \in BOOLEAN : n = [q EXCEPT !.pc = "cStale", !.old = i, !.up = b]
      BY DEF Runs
    <3> HIDE DEF n, i
    <3>3. QED
      BY <1>1, <3>1, <3>2 DEF Request
  <2> HIDE DEF n
  <2>3. Advances(r)
    BY <1>1, <2>1, <2>2, RecreateOrder, Follows, EndAdvances
       DEF Called, Advances, Ownless, PcsRecreate
  <2>4. QED
    BY <2>1, <2>3, Typed, CallKeepsIInv
<1>4. CASE RecreateStale(r)
  <2>1. Called(r, "cStale")
          /\ \/ (Go(r, "cPull") \/ Go(r, "cStop") \/ Go(r, "cRename"))
                  /\ ctr' \in {ctr, Removed(Find(s, "old"))}
             \/ Done(r) /\ ctr' = ctr
    BY <1>4 DEF RecreateStale, Call, At, Called
  <2>2. ctr' \in Containers
    BY <2>1, Typed, FindType, ContainerTypes
  <2>3. Advances(r)
    BY <2>1, RecreateOrder, GoAdvances, EndAdvances DEF Called, Ownless, PcsRecreate
  <2>4. QED
    BY <2>1, <2>2, <2>3, CallKeepsIInv
<1>5. CASE RecreateStop(r)
  <2>1. Called(r, "cStop")
          /\ \/ Go(r, "cRename") /\ Exists(q.old) /\ ctr' = Running(q.old, FALSE)
             \/ Go(r, "cRename") /\ ctr' = ctr
    BY <1>5 DEF RecreateStop, Call, At, Called, Runs
  <2>2. ctr' \in Containers
    BY <1>1, <2>1, Typed, ContainerTypes DEF Request
  <2>3. Advances(r)
    BY <2>1, RecreateOrder, GoAdvances DEF Called
  <2>4. QED
    BY <2>1, <2>2, <2>3, CallKeepsIInv
<1>6. CASE RecreateRename(r)
  <2>1. Called(r, "cRename")
          /\ \/ Go(r, "cPull") /\ Exists(q.old) /\ ctr' = Renamed(q.old, "old")
             \/ RecreateFails(r) /\ ctr' = ctr
    BY <1>6 DEF RecreateRename, Call, At, Called
  <2>2. ctr' \in Containers
    BY <1>1, <2>1, Typed, ContainerTypes DEF Request
  <2>3. Advances(r)
    BY <2>1, RecreateOrder, GoAdvances, RecreateFailsAdvances DEF Called
  <2>4. QED
    BY <2>1, <2>2, <2>3, CallKeepsIInv
<1>7. CASE RecreatePull(r)
  <2>1. Called(r, "cPull")
          /\ \/ Go(r, "cCreate") /\ ctr' = ctr
             \/ RecreateFails(r) /\ ctr' = ctr
    BY <1>7 DEF RecreatePull, Call, At, Called
  <2>2. ctr' \in Containers
    BY <2>1, Typed
  <2>3. Advances(r)
    BY <2>1, RecreateOrder, GoAdvances, RecreateFailsAdvances DEF Called
  <2>4. QED
    BY <2>1, <2>2, <2>3, CallKeepsIInv
<1>8. CASE RecreateCreate(r)
  <2>1. Called(r, "cCreate")
          /\ \/ CreateContainer(r, s, was.image, "cStart")
             \/ RecreateFails(r) /\ ctr' = ctr
    BY <1>8 DEF RecreateCreate, Call, At, Called
  <2>2. s \in Services /\ was.image \in Versions
    BY <1>1, <2>1 DEF Called, Held, Serves, HasRow, HoldsRow, PcsRecreate, Sweeping, Row
  <2>3. CASE CreateContainer(r, s, was.image, "cStart")
    <3>1. ctr' \in Containers /\ \E i \in Ids : New(r, i, "cStart")
      BY <2>2, <2>3, CreatedType
    <3>2. QED
      BY <2>1, <3>1, RecreateOrder, NewAdvances, CallKeepsIInv DEF Called
  <2>4. CASE RecreateFails(r) /\ ctr' = ctr
    BY <2>1, <2>4, RecreateOrder, RecreateFailsAdvances, Typed, CallKeepsIInv DEF Called
  <2>5. QED
    BY <2>1, <2>3, <2>4
<1>9. CASE RecreateStart(r)
  <2>1. Called(r, "cStart")
          /\ \/ Go(r, "cReady") /\ Exists(q.new) /\ ctr' = Running(q.new, TRUE)
             \/ RecreateFails(r) /\ ctr' = ctr
    BY <1>9 DEF RecreateStart, Call, At, Called
  <2>2. ctr' \in Containers
    BY <1>1, <2>1, Typed, ContainerTypes DEF Request
  <2>3. Advances(r)
    BY <2>1, RecreateOrder, GoAdvances, RecreateFailsAdvances DEF Called
  <2>4. QED
    BY <2>1, <2>2, <2>3, CallKeepsIInv
<1>10. CASE RecreateReady(r)
  <2>1. Called(r, "cReady")
          /\ \/ (New(r, NoId, "cSave") \/ New(r, NoId, "cDropOld")) /\ ctr' = ctr
             \/ RecreateFails(r) /\ ctr' = ctr
    BY <1>10 DEF RecreateReady, Call, At, Called
  <2>2. ctr' \in Containers
    BY <2>1, Typed
  <2>3. Advances(r)
    BY <2>1, RecreateOrder, GoAdvances, NewAdvances, RecreateFailsAdvances DEF Called
  <2>4. QED
    BY <2>1, <2>2, <2>3, CallKeepsIInv
<1>11. CASE RecreateDropOld(r)
  <2>1. Called(r, "cDropOld")
          /\ \/ Go(r, "cSave") /\ ctr' \in {ctr, Removed(Find(s, "old"))}
             \/ RecreateFails(r) /\ ctr' = ctr
    BY <1>11 DEF RecreateDropOld, Call, At, Called
  <2>2. ctr' \in Containers
    BY <2>1, Typed, FindType, ContainerTypes
  <2>3. Advances(r)
    BY <2>1, RecreateOrder, GoAdvances, RecreateFailsAdvances DEF Called
  <2>4. QED
    BY <2>1, <2>2, <2>3, CallKeepsIInv
<1>12. CASE RecreateSave(r)
  <2> DEFINE now == [was EXCEPT !.installed = TRUE, !.status = "idle"]
  <2>1. /\ q.pc = "cSave" /\ Save(r, s, now) /\ Done(r)
        /\ UNCHANGED <<ctr, faults, crashes>>
    BY <1>12 DEF RecreateSave, Query, At
  <2>2. q.pc \in Ownless \cap HoldsRow
    BY <2>1 DEF Ownless, HoldsRow, PcsRecreate
  <2>3. now \in Row /\ now.status = "idle"
    BY <1>1, <2>2 DEF Held, HasRow, Row, Status
  <2>4. QED
    BY <2>1, <2>2, <2>3, SaveKeepsIInv
<1>13. CASE RecreateDiscard(r)
  <2>1. Called(r, "cDiscard")
          /\ \/ Go(r, "cRestore") /\ ctr' \in {ctr, Removed(Find(s, "live"))}
             \/ Done(r) /\ ctr' = ctr
    BY <1>13 DEF RecreateDiscard, Call, At, Called
  <2>2. ctr' \in Containers
    BY <2>1, Typed, FindType, ContainerTypes
  <2>3. Advances(r)
    BY <2>1, RecreateOrder, GoAdvances, EndAdvances DEF Called, Ownless, PcsRecreate
  <2>4. QED
    BY <2>1, <2>2, <2>3, CallKeepsIInv
<1>14. CASE RecreateRestore(r)
  <2>1. Called(r, "cRestore")
          /\ \/ Find(s, "old") # NoId /\ ctr' = Renamed(Find(s, "old"), "live")
                  /\ Old(r, Find(s, "old"), "cRestart")
             \/ Done(r) /\ ctr' = ctr
    BY <1>14 DEF RecreateRestore, Call, At, Called
  <2>2. ctr' \in Containers
    BY <2>1, Typed, FindType, ContainerTypes
  <2>3. Advances(r)
    BY <2>1, RecreateOrder, FindType, OldAdvances, EndAdvances DEF Called, Ownless, PcsRecreate
  <2>4. QED
    BY <2>1, <2>2, <2>3, CallKeepsIInv
<1>15. CASE RecreateRestart(r)
  <2>1. Called(r, "cRestart")
          /\ \/ Exists(q.old) /\ ctr' = Running(q.old, TRUE) /\ Done(r)
             \/ Done(r) /\ ctr' = ctr
    BY <1>15 DEF RecreateRestart, Call, At, Called
  <2>2. ctr' \in Containers
    BY <1>1, <2>1, Typed, ContainerTypes DEF Request
  <2>3. Advances(r)
    BY <2>1, EndAdvances DEF Called, Ownless, PcsRecreate
  <2>4. QED
    BY <2>1, <2>2, <2>3, CallKeepsIInv
<1>16. QED
  BY <1>2, <1>3, <1>4, <1>5, <1>6, <1>7, <1>8, <1>9, <1>10, <1>11, <1>12, <1>13, <1>14,
     <1>15 DEF RecreateStep

-----------------------------------------------------------------------------
(* affectContainer and _syncContainersWithDatabase.                        *)

LEMMA ActKeepsIInv ==
  ASSUME IInv, NEW r \in Requests, Act(r)
  PROVE  IInv'
<1> DEFINE q == req[r]
<1>1. Called(r, "act") /\ Done(r)
        /\ \/ ctr' = ctr
           \/ Exists(q.old) /\ \E b \in BOOLEAN : ctr' = Running(q.old, b)
  BY DEF Act, Call, At, Called
<1>2. ctr' \in Containers
  BY <1>1, ReqType, Typed, ContainerTypes DEF Request
<1>3. QED
  BY <1>1, <1>2, EndAdvances, CallKeepsIInv DEF Called, Ownless

LEMMA SyncStepKeepsIInv ==
  ASSUME IInv, NEW r \in Requests, SyncStep(r)
  PROVE  IInv'
<1> DEFINE q == req[r]
<1>1. q \in Held /\ q \in Request
  BY ReqType
<1>2. {"syncList", "syncSave"} \subseteq Pcs \cap Sweeping \cap Ownless
        /\ "syncSave" \notin HoldsRow \cup Installs \cup Targeted
  BY DEF Pcs, PcsOther, Sweeping, Ownless, HoldsRow, Installs, Targeted, PcsUpdate,
         PcsReinstall, PcsRecreate
<1>3. CASE SyncList(r)
  <2>1. PICK S \in SUBSET Services :
          Becomes(r, [q EXCEPT !.pc = "syncSave", !.seen = S,
                               !.pending = {s \in Services : q.snap[s] # NoRow}])
    BY <1>3 DEF SyncList, Call
  <2>2. Called(r, "syncList") /\ ctr' = ctr
    BY <1>3 DEF SyncList, Call, At, Called
  <2> DEFINE n == [q EXCEPT !.pc = "syncSave", !.seen = S,
                            !.pending = {s \in Services : q.snap[s] # NoRow}]
  <2>3. /\ n \in Request /\ n.pc = "syncSave" /\ n.snap = q.snap
        /\ n.pending = {s \in Services : q.snap[s] # NoRow}
    BY <1>1, <1>2 DEF Request
  <2> HIDE DEF n
  <2>4. \A s \in n.pending : n.snap[s] \in Row
    BY <1>1, <2>3 DEF Request
  <2>5. n \in Held
    BY <1>2, <2>3, <2>4 DEF Held
  <2>6. Advances(r)
    BY <1>2, <2>1, <2>2, <2>5, OwnlessType DEF Advances, Moves, Called, n
  <2>7. QED
    BY <2>2, <2>6, Typed, CallKeepsIInv
<1>4. CASE SyncEnd(r)
  <2>1. Called(r, "syncSave") /\ ctr' = ctr /\ Done(r)
    BY <1>4 DEF SyncEnd, Query, At, Called, Docker
  <2>2. QED
    BY <1>2, <2>1, EndAdvances, Typed, CallKeepsIInv DEF Called
<1>5. ASSUME NEW s \in Services, SyncSave(r, s)
      PROVE  IInv'
  <2> DEFINE was == q.snap[s]
             n == [q EXCEPT !.pending = @ \ {s}]
  <2>1. /\ q.pc = "syncSave" /\ s \in q.pending /\ Becomes(r, n)
        /\ UNCHANGED <<ctr, faults, crashes>>
    BY <1>5 DEF SyncSave, Query, At
  <2>2. n \in Request /\ n.pc = "syncSave" /\ n.snap = q.snap /\ n.pending = q.pending \ {s}
    BY <1>1, <2>1 DEF Request
  <2> HIDE DEF n
  <2>3. n \in Held
    BY <1>1, <1>2, <2>1, <2>2 DEF Held
  <2>4. was \in Row
    BY <1>1, <2>1 DEF Held
  <2>5. row' \in Rows /\ \A t \in Services : Installing(t)' => Installing(t)
    <3>1. CASE row' = row
      BY <3>1, Typed DEF Installing
    <3> DEFINE now == [was EXCEPT !.installed = (s \in q.seen), !.status = "idle"]
    <3>2. CASE Save(r, s, now)
      <4>1. PICK b \in BOOLEAN : now = [was EXCEPT !.installed = b, !.status = "idle"]
        <5>1. CASE s \in q.seen
          BY <5>1
        <5>2. CASE s \notin q.seen
          <6>1. (s \in q.seen) = FALSE
            BY <5>2
          <6>2. now = [was EXCEPT !.installed = FALSE, !.status = "idle"]
            BY <6>1, Zenon
          <6>3. QED
            BY <6>2
        <5>3. QED
          BY <5>1, <5>2
      <4> HIDE DEF now
      <4>2. now \in Row /\ now.status = "idle"
        BY <2>4, <4>1 DEF Row, Status
      <4>3. QED
        BY <2>4, <3>2, <4>2, SaveType
    <3>3. QED
      BY <1>5, <3>1, <3>2 DEF SyncSave, Query
  <2>6. \A t : ~Owns(q, t)
    BY <1>2, <2>1, OwnlessType
  <2>7. QED
    BY <2>1, <2>3, <2>5, <2>6, WriteKeepsIInv
<1>6. QED
  BY <1>3, <1>4, <1>5 DEF SyncStep

-----------------------------------------------------------------------------
(* Requests arrive, containers exit, processes crash.                      *)

LEMMA AskedType ==
  ASSUME NEW op \in Operations, NEW s \in Services, NEW pc \in Pcs
  PROVE  /\ Asked(op, s, pc) \in Request /\ Asked(op, s, pc).pc = pc
         /\ Asked(op, s, pc).goal = s /\ Asked(op, s, pc).cur = s
<1>1. Idle \in Request
  BY IdleType DEF Held
<1>2. QED
  BY <1>1 DEF Asked, Request

(* A request with the row it read holds what its first step needs.         *)
LEMMA ArrivesHeld ==
  ASSUME NEW op \in Operations, NEW s \in Services, NEW x \in Row,
         NEW pc \in {"mark", "rMark", "uMark", "xFind", "cFind"}
  PROVE  LET n == Holding(Asked(op, s, pc), s, x, pc) IN
         /\ n \in Request /\ n.pc = pc /\ n.goal = s /\ n.cur = s /\ n.snap[s] = x
         /\ pc # "uMark" => n \in Held
<1>1. pc \in Pcs \ (Sweeping \cup Installs \cup Nested) /\ (pc \in Targeted => pc = "uMark")
  BY DEF Pcs, PcsCreate, PcsReinstall, PcsUpdate, PcsRemove, PcsRecreate, Sweeping, Installs,
         Nested, Targeted
<1> DEFINE n == Holding(Asked(op, s, pc), s, x, pc)
<1>2. /\ n \in Request /\ n.pc = pc /\ n.goal = s /\ n.cur = s /\ n.snap[s] = x
  BY <1>1, AskedType, SnapType
<1> HIDE DEF n
<1>3. pc # "uMark" => n \in Held
  BY <1>1, <1>2 DEF Held, Serves, HasRow, Sweeping
<1>4. QED
  BY <1>2, <1>3 DEF n

(* From Idle, nothing is owned: it is enough that the request is Held.     *)
LEMMA ArrivalAdvances ==
  ASSUME IInv, NEW r \in Requests, req[r] = Idle, NEW n \in Held, Becomes(r, n)
  PROVE  Advances(r)
<1>1. \A s : ~Owns(req[r], s)
  BY DEF Owns, Idle, WorkingPcs, PcsUpdate
<1>2. QED
  BY <1>1 DEF Advances, Moves

LEMMA ArrivesKeepsIInv ==
  ASSUME IInv, NEW r \in Requests, NEW op \in Operations, NEW s \in Services,
         NEW pc \in {"mark", "rMark", "xFind", "cFind"}, Arrives(r, op, s, pc)
  PROVE  IInv'
<1>1. row[s] \in Row /\ req[r] = Idle
  BY Typed DEF Arrives, Rows
<1>2. Holding(Asked(op, s, pc), s, row[s], pc) \in Held
  BY <1>1, ArrivesHeld
<1>3. Advances(r)
  BY <1>1, <1>2, ArrivalAdvances DEF Arrives
<1>4. req[r].pc = "idle"
  BY <1>1 DEF Idle
<1>5. Called(r, "idle") /\ ctr' = ctr
  BY <1>4 DEF Arrives, Called, Docker
<1>6. QED
  BY <1>3, <1>5, Typed, CallKeepsIInv

(* Requests whose first step reads no row.                                 *)
LEMMA BlankHeld ==
  ASSUME NEW op \in Operations, NEW s \in Services,
         NEW pc \in {"check", "cRead", "act", "uFinally"}
  PROVE  Asked(op, s, pc) \in Held
<1>1. pc \in Pcs \ (Sweeping \cup Installs \cup Nested \cup Targeted \cup HoldsRow)
  BY DEF Pcs, PcsCreate, PcsReinstall, PcsUpdate, PcsRecreate, PcsOther, Sweeping, Installs,
         Nested, Targeted, HoldsRow
<1>2. QED
  BY <1>1, AskedType DEF Held, Serves, Sweeping

LEMMA ArrivalKeepsIInv ==
  ASSUME IInv, NEW r \in Requests, Arrival(r)
  PROVE  IInv'
<1>1. CASE \E s \in Services : Install(r, s) \/ Reinstall(r, s) \/ Uninstall(r, s)
                                 \/ Delete(r, s) \/ PullLatest(r, s)
  BY <1>1, ArrivesKeepsIInv
     DEF Install, Reinstall, Uninstall, Delete, PullLatest, Operations
<1>2. ASSUME NEW s \in Services, NEW v \in Versions, CreateCustom(r, s, v)
      PROVE  IInv'
  <2> DEFINE n == Asked("install", s, "check")
  <2>1. n \in Held
    BY BlankHeld DEF Operations
  <2> HIDE DEF n
  <2>2. req[r] = Idle /\ Becomes(r, n) /\ UNCHANGED <<ctr, faults, crashes>>
          /\ row' = [row EXCEPT ![s] = [installed |-> FALSE, status |-> "idle", image |-> v]]
    BY <1>2 DEF CreateCustom, n
  <2>3. row' \in Rows /\ \A t \in Services : Installing(t)' => Installing(t)
    BY <2>2, Typed DEF Rows, Row, Status, Installing
  <2>4. \A t : ~Owns(req[r], t)
    BY <2>2 DEF Owns, Idle, WorkingPcs, PcsUpdate
  <2>5. QED
    BY <2>1, <2>2, <2>3, <2>4, WriteKeepsIInv
<1>3. ASSUME NEW s \in Services, NEW v \in Versions, Edit(r, s, v)
      PROVE  IInv'
  <2> DEFINE n == Asked("edit", s, "cRead")
  <2>1. n \in Held
    BY BlankHeld DEF Operations
  <2> HIDE DEF n
  <2>2. req[r] = Idle /\ Becomes(r, n) /\ UNCHANGED <<ctr, faults, crashes>>
          /\ row[s] # NoRow /\ row' = [row EXCEPT ![s].image = v]
    BY <1>3 DEF Edit, n
  <2>3. row' \in Rows /\ \A t \in Services : Installing(t)' => Installing(t)
    <3>1. row[s] \in Row
      BY <2>2, Typed DEF Rows
    <3>2. [row[s] EXCEPT !.image = v] \in Row
            /\ [row[s] EXCEPT !.image = v].status = row[s].status
      BY <3>1 DEF Row
    <3>3. row' = [row EXCEPT ![s] = [row[s] EXCEPT !.image = v]]
      BY <2>2
    <3>4. QED
      BY <2>2, <3>2, <3>3, Typed DEF Rows, Installing
  <2>4. \A t : ~Owns(req[r], t)
    BY <2>2 DEF Owns, Idle, WorkingPcs, PcsUpdate
  <2>5. QED
    BY <2>1, <2>2, <2>3, <2>4, WriteKeepsIInv
<1>4. ASSUME NEW s \in Services, NEW v \in Versions, Update(r, s, v)
      PROVE  IInv'
  <2>1. Called(r, "idle") /\ ctr' = ctr /\ req[r] = Idle /\ row[s] \in Row
    <3>1. req[r] = Idle /\ row[s] # NoRow /\ UNCHANGED <<row, ctr, faults, crashes>>
      BY <1>4 DEF Update
    <3>2. req[r].pc = "idle"
      BY <3>1 DEF Idle
    <3>3. QED
      BY <3>1, <3>2, Typed DEF Called, Docker, Rows
  <2> DEFINE h == Holding(Asked("update", s, "uMark"), s, row[s], "uMark")
             n == [h EXCEPT !.target = v]
  <2>2. Becomes(r, Asked("update", s, "uFinally")) \/ Becomes(r, n)
    BY <1>4 DEF Update
  <2>3. "update" \in Operations /\ "uMark" \notin Sweeping \cup Installs \cup Nested
    BY DEF Operations, Sweeping, Installs, Nested, PcsCreate
  <2>4. h \in Request /\ h.pc = "uMark" /\ h.goal = s /\ h.cur = s /\ h.snap[s] = row[s]
    BY <2>1, <2>3, ArrivesHeld
  <2> HIDE DEF h
  <2>5. /\ n \in Request /\ n.pc = "uMark" /\ n.goal = s /\ n.cur = s /\ n.snap = h.snap
        /\ n.target = v
    BY <2>4 DEF Request
  <2> HIDE DEF n
  <2>6. n \in Held
    BY <2>1, <2>3, <2>4, <2>5 DEF Held, Serves, HasRow, Sweeping
  <2>7. Asked("update", s, "uFinally") \in Held
    BY <2>3, BlankHeld
  <2>8. Advances(r)
    BY <2>1, <2>2, <2>6, <2>7, ArrivalAdvances
  <2>9. QED
    BY <2>1, <2>8, Typed, CallKeepsIInv
<1>5. ASSUME NEW s \in Services, NEW op \in {"start", "stop"}, Affect(r, op, s)
      PROVE  IInv'
  <2>1. req[r] = Idle /\ UNCHANGED <<row, ctr, faults, crashes>>
          /\ Becomes(r, [Asked(op, s, "act") EXCEPT !.old = Find(s, "live")])
    BY <1>5 DEF Affect
  <2>2. req[r].pc = "idle"
    BY <2>1 DEF Idle
  <2>3. Called(r, "idle") /\ ctr' = ctr
    BY <2>1, <2>2 DEF Called, Docker
  <2> DEFINE h == Asked(op, s, "act")
             n == [h EXCEPT !.old = Find(s, "live")]
  <2>4. h \in Held /\ h \in Request /\ h.pc = "act"
    BY BlankHeld, AskedType DEF Operations, Pcs, PcsOther
  <2> HIDE DEF h
  <2>5. n \in Request /\ n.pc = "act" /\ n.goal = h.goal /\ n.cur = h.cur
    BY <2>4, FindType DEF Request
  <2> HIDE DEF n
  <2>6. "act" \notin Nested \cup HoldsRow \cup Installs \cup Targeted \cup Sweeping
    BY DEF Nested, HoldsRow, Installs, Targeted, Sweeping, PcsCreate, PcsUpdate,
           PcsReinstall, PcsRecreate
  <2>7. n \in Held
    BY <2>4, <2>5, <2>6 DEF Held, Serves
  <2>8. Advances(r)
    BY <2>1, <2>7, ArrivalAdvances DEF n, h
  <2>9. QED
    BY <2>3, <2>8, Typed, CallKeepsIInv
<1>6. CASE Sync(r)
  <2> DEFINE n == [Idle EXCEPT !.op = "sync", !.pc = "syncList", !.snap = row]
  <2>1. req[r] = Idle /\ UNCHANGED <<row, ctr, faults, crashes>> /\ Becomes(r, n)
    BY <1>6 DEF Sync
  <2>2. req[r].pc = "idle"
    BY <2>1 DEF Idle
  <2>3. Called(r, "idle") /\ ctr' = ctr
    BY <2>1, <2>2 DEF Called, Docker
  <2>4. n \in Request /\ n.pc = "syncList"
    BY IdleType, Typed DEF Held, Request, Rows, Operations, Pcs, PcsOther
  <2> HIDE DEF n
  <2>5. "syncList" \notin HoldsRow \cup Installs \cup Targeted /\ "syncList" \in Sweeping
    BY DEF HoldsRow, Installs, Targeted, Sweeping, PcsUpdate, PcsReinstall, PcsRecreate
  <2>6. Advances(r)
    BY <2>1, <2>4, <2>5, ArrivalAdvances DEF Held
  <2>7. QED
    BY <2>3, <2>6, Typed, CallKeepsIInv
<1>7. QED
  BY <1>1, <1>2, <1>3, <1>4, <1>5, <1>6 DEF Arrival

LEMMA ExitsKeepsIInv ==
  ASSUME IInv, NEW i \in Ids, Exits(i)
  PROVE  IInv'
<1>1. /\ ctr' \in Containers /\ faults' \in 0..MaxFaults
      /\ row' = row /\ req' = req /\ crashes' = crashes
  BY Typed, ContainerTypes, DockerType DEF Exits, Runs
<1>2. QED
  BY <1>1, Typed
     DEF IInv, TypeOK, Containers, Rows, FlagHasOwner, InstallingIsInProgress, Installing

LEMMA CrashKeepsIInv ==
  ASSUME IInv, NEW p \in Processes, Crash(p)
  PROVE  IInv'
<1>1. /\ crashes' \in 0..MaxCrashes /\ crashes' # 0
      /\ row' = row /\ ctr' = ctr /\ faults' = faults
  BY Typed, ValuesAssumption DEF Crash
<1>2. req' \in [Requests -> Held]
  BY IdleType DEF IInv, Crash
<1>3. req' \in [Requests -> Request]
  BY <1>2 DEF Held
<1>4. QED
  BY <1>1, <1>2, <1>3, Typed DEF IInv, TypeOK, Containers, Rows, FlagHasOwner

-----------------------------------------------------------------------------
(* The inductive invariant holds at the start and after every step.        *)

LEMMA InitIInv == Init => IInv
<1> SUFFICES ASSUME Init PROVE IInv
  OBVIOUS
<1>1. req \in [Requests -> Held] /\ req \in [Requests -> Request]
  BY IdleType DEF Init, Held
<1>2. TypeOK
  BY <1>1, ValuesAssumption DEF Init, TypeOK
<1>3. \A s \in Services : ~Installing(s)
  BY DEF Init, Installing
<1>4. QED
  BY <1>1, <1>2, <1>3 DEF IInv, FlagHasOwner, InstallingIsInProgress

LEMMA NextIInv == IInv /\ [Next]_vars => IInv'
<1> SUFFICES ASSUME IInv, [Next]_vars PROVE IInv'
  OBVIOUS
<1>1. ASSUME NEW r \in Requests, Arrival(r) PROVE IInv'
  BY <1>1, ArrivalKeepsIInv
<1>2. ASSUME NEW r \in Requests, Step(r) PROVE IInv'
  BY <1>2, CreateStepKeepsIInv, ReinstallStepKeepsIInv, UpdateStepKeepsIInv,
     RemoveStepKeepsIInv, RecreateStepKeepsIInv, ActKeepsIInv, SyncStepKeepsIInv DEF Step
<1>3. ASSUME NEW i \in Ids, Exits(i) PROVE IInv'
  BY <1>3, ExitsKeepsIInv
<1>4. ASSUME NEW p \in Processes, Crash(p) PROVE IInv'
  BY <1>4, CrashKeepsIInv
<1>5. CASE UNCHANGED vars
  BY <1>5 DEF vars, IInv, TypeOK, FlagHasOwner, InstallingIsInProgress, Installing
<1>6. QED
  BY <1>1, <1>2, <1>3, <1>4, <1>5 DEF Next

LEMMA Inductive == Spec => []IInv
<1>1. QED
  BY InitIInv, NextIInv, PTL DEF Spec

(* The variables keep their types, and faults and crashes their bounds.    *)
THEOREM TypeCorrect == Spec => []TypeOK
<1>1. IInv => TypeOK
  BY DEF IInv
<1>2. QED
  BY <1>1, Inductive, PTL

(* However many requests install, reinstall, update, remove, recreate and  *)
(* sync any number of apps, whichever Docker calls fail: as long as no     *)
(* process has died, a row that says 'installing' has a request that is    *)
(* about to clear it.                                                      *)
THEOREM InstallingHasOwner == Spec => []FlagHasOwner
<1>1. IInv => FlagHasOwner
  BY DEF IInv
<1>2. QED
  BY <1>1, Inductive, PTL
=============================================================================
