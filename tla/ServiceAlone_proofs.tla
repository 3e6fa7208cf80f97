------------------------- MODULE ServiceAlone_proofs -------------------------
(* Proofs about ServiceLifecycle when one request runs at a time, for      *)
(* every value of the other constants: what an update keeps, what a sync   *)
(* restores, and what the table says when nothing failed.                  *)
EXTENDS ServiceLifecycle_proofs

(* The hypothesis: there is one administrator, with one tab.               *)
Alone == \E r : Requests = {r}

-----------------------------------------------------------------------------
(* Docker's names are unique, and a container a request holds is one of    *)
(* the app it works on: true of any number of requests.                    *)
UniqueNames ==
  \A i, j \in Ids :
    /\ Exists(i) /\ Exists(j) /\ ctr[i].svc = ctr[j].svc /\ ctr[i].name = ctr[j].name
    => i = j

Handless ==
  Sweeping \cup (PcsCreate \ {"start"}) \cup {"rMark", "rStop", "rClear"}

Belongs(q) ==
  /\ \A i \in {q.old, q.new} : Exists(i) => ctr[i].svc = q.cur
  /\ q.pc \in Handless => q.old = NoId /\ q.new = NoId
  /\ q.pc = "start" => q.old = NoId
  /\ q.pc = "rRemove" => q.new = NoId

-----------------------------------------------------------------------------
(* What a request holds of the table is what the table says.               *)
Reconciling(q) ==
  \A s \in Services :
    /\ q.snap[s] = NoRow <=> row[s] = NoRow
    /\ s \in q.pending => row[s] = q.snap[s]
    /\ s \notin q.pending /\ row[s] # NoRow => (row[s].installed <=> s \in q.seen)

UpToDate(q) ==
  /\ q.pc \in HoldsRow => q.snap[q.cur] = row[q.cur]
  /\ q.pc \in Installs => q.snap[q.goal] = row[q.goal]
  /\ q.pc = "syncList" => q.snap = row
  /\ q.pc = "syncSave" => Reconciling(q)

Live(q) == Named(q.cur, "live")
Aside(q) == Named(q.cur, "old")

(* Where an update is: which of the two containers is there, and whether   *)
(* the app runs.                                                           *)
Updating(q) ==
  /\ q.op = "update" <=> q.pc \in PcsUpdate
  /\ q.pc \in {"uStop", "uStale", "uRename"} => q.old \in Live(q)
  /\ q.pc = "uCreate" => Live(q) = {}
  /\ q.pc \in {"uCreate", "uStart", "uHealth", "uDiscard"} => Aside(q) # {}
  /\ q.pc \in {"uStart", "uHealth", "uDiscard"} => q.new \in Live(q)
  /\ q.pc = "uStart" => ~Runs(q.new)
  /\ q.pc = "uHealth" => Runs(q.new) \/ faults >= 1
  /\ q.pc = "uDropOld" => Live(q) # {}
  /\ q.pc \in {"uDiscard", "uRollback", "uRestart"} => faults >= 1
  /\ q.pc = "uRollback" /\ faults <= 1 => Live(q) = {} /\ Aside(q) # {}
  /\ q.pc = "uRestart" /\ faults <= 1 => q.old \in Live(q)
  /\ q.pc = "uFinally" /\ q.old # NoId => q.old \in Live(q)
  /\ q.pc = "uFinally" /\ q.up /\ ~q.ok /\ q.old = NoId =>
       faults >= 1 /\ (faults <= 1 => \E i \in Live(q) : Runs(i))

-----------------------------------------------------------------------------
(* No call has failed and no process died.                                 *)
Agrees(s) ==
  /\ Named(s, "old") = {}
  /\ Named(s, "live") # {} <=> row[s] # NoRow /\ row[s].installed
  /\ \A i \in Named(s, "live") : ctr[i].image = row[s].image

Untouched ==
  Sweeping \cup {"act", "check", "mark", "rMark", "rStop", "rRemove", "uMark", "uPull",
                 "uFind", "uStop", "uStale", "uRename", "uFinally", "xFind", "xStop", "xRemove"}
Undone ==
  {"cleanRow", "cleanContainer", "uDiscard", "uRollback", "uRestart",
   "cDiscard", "cRestore", "cRestart"}

Made(q, v) == \A i \in Live(q) : ctr[i].image = v

NoCopy(s) == Named(s, "live") = {} /\ Named(s, "old") = {}
OthersAgree(q) ==
  \A s \in Services \ {q.cur} : IF s = q.goal THEN NoCopy(s) ELSE Agrees(s)

Place(q) ==
  /\ q.pc \in {"rRemove", "xStop", "xRemove", "cStop", "cRename"} => q.old \in Live(q)
  /\ q.pc \in {"uStop", "xStop"} => Runs(q.old)
  /\ q.pc \in {"rClear", "xSave", "xRow", "depends", "pull", "create", "cPull", "cCreate"} =>
       Live(q) = {}
  /\ q.pc \in {"rClear", "xSave", "xRow", "depends", "pull", "create", "start", "finish",
               "cRead", "cFind", "cStale", "cStop", "cRename", "cSave", "uRecord"} =>
       Aside(q) = {}
  /\ q.pc \in {"start", "cStart", "cReady"} => q.new \in Live(q)
  /\ q.pc \in {"start", "cStart"} => ~Runs(q.new)
  /\ q.pc = "cReady" => Runs(q.new)
  /\ q.pc \in {"finish", "cDropOld", "cSave", "uRecord"} => Live(q) # {}
  /\ q.pc \in {"start", "finish", "cStart", "cReady", "cDropOld", "cSave"} =>
       Made(q, row[q.cur].image)
  /\ q.pc \in {"uStart", "uHealth", "uDropOld", "uRecord"} => Made(q, q.target)
  /\ q.pc \in Targeted => row[q.cur].installed
  /\ q.pc = "cStale" => (q.old = NoId /\ Live(q) = {}) \/ q.old \in Live(q)
  /\ q.pc \in {"cPull", "cCreate", "cStart", "cReady"} /\ q.old = NoId => Aside(q) = {}
  /\ q.pc = "cRead" => row[q.cur] # NoRow
  /\ q.pc = "mark" => ~row[q.cur].installed
  /\ q.pc = "syncSave" => q.seen = {s \in Services : Named(s, "live") # {}}

Quietly(q) ==
  /\ q.pc \notin Undone
  /\ OthersAgree(q) /\ Place(q)
  /\ q.pc \in Untouched => \A s \in Services : Agrees(s)

Quiet == faults = 0 /\ crashes = 0

Well(r) ==
  /\ UniqueNames /\ Belongs(req[r])
  /\ UpToDate(req[r]) /\ Updating(req[r])
  /\ Quiet => Quietly(req[r])

AloneInv == IInv /\ \A r \in Requests : Well(r)

-----------------------------------------------------------------------------
(* What a Docker call does to the names, as sets of containers.            *)
Names == {"live", "old"}

(* Nothing of the other services changes.                                  *)
Elsewhere(s) ==
  \A x \in Services \ {s}, n \in Names :
    Named(x, n)' = Named(x, n) /\ \A i \in Named(x, n) : ctr'[i].image = ctr[i].image

(* No container appears, and none changes hands.                           *)
SameApps ==
  \A i : Exists(i)' => Exists(i) /\ ctr'[i].svc = ctr[i].svc

LEMMA Members ==
  ASSUME NEW s, NEW n, NEW i \in Named(s, n)
  PROVE  i \in Ids /\ i # NoId /\ Exists(i) /\ ctr[i].svc = s /\ ctr[i].name = n
  BY DEF Named, Exists

(* A container is found by name if there is one, and then it is the only one *)
LEMMA Found ==
  ASSUME UniqueNames, NEW s, NEW n
  PROVE  /\ Find(s, n) = NoId => Named(s, n) = {}
         /\ Named(s, n) = {} => Find(s, n) = NoId
         /\ Find(s, n) # NoId => Find(s, n) \in Named(s, n)
         /\ \A i \in Named(s, n) : Named(s, n) = {i} /\ Find(s, n) = i
<1>1. CASE Named(s, n) = {}
  BY <1>1 DEF Find
<1>2. CASE Named(s, n) # {}
  <2>1. Find(s, n) \in Named(s, n)
    BY <1>2 DEF Find
  <2>2. \A i, j \in Named(s, n) : i = j
    BY Members DEF UniqueNames
  <2>3. QED
    BY <1>2, <2>1, <2>2, Members
<1>3. QED
  BY <1>1, <1>2

LEMMA SameNames ==
  ASSUME UniqueNames, ctr' = ctr
  PROVE  /\ UniqueNames' /\ SameApps
         /\ \A s, n : Named(s, n)' = Named(s, n)
         /\ \A s : Elsewhere(s)
         /\ \A i : Runs(i)' <=> Runs(i)
  BY DEF UniqueNames, SameApps, Named, Exists, Runs, Elsewhere

LEMMA AfterRemoved ==
  ASSUME UniqueNames, ctr \in Containers, NEW s, NEW n \in Names, NEW i \in Named(s, n),
         ctr' = Removed(i)
  PROVE  /\ UniqueNames' /\ SameApps /\ Elsewhere(s)
         /\ Named(s, n)' = {} /\ \A m \in Names \ {n} : Named(s, m)' = Named(s, m)
         /\ \A j : j # i => ctr'[j] = ctr[j]
<1>1. /\ i \in Ids /\ Exists(i) /\ ctr[i].svc = s /\ ctr[i].name = n
      /\ \A j \in Ids : ctr'[j] = IF j = i THEN NoContainer ELSE ctr[j]
  BY Members DEF Removed, Containers
<1>2. \A j \in Ids : Exists(j)' <=> Exists(j) /\ j # i
  BY <1>1 DEF Exists
<1>3. \A x, m : Named(x, m)' = Named(x, m) \ {i}
  BY <1>1, <1>2 DEF Named
<1>4. \A x, m : i \in Named(x, m) => x = s /\ m = n
  BY <1>1 DEF Named
<1>5. UniqueNames'
  BY <1>1, <1>2 DEF UniqueNames
<1>6. \A j : j # i => ctr'[j] = ctr[j]
  BY DEF Removed, Containers
<1>7. SameApps
  BY <1>1, <1>6 DEF SameApps, Exists
<1>8. Elsewhere(s)
  BY <1>3, <1>4, <1>6 DEF Elsewhere
<1>9. Named(s, n)' = {}
  BY <1>3, Found
<1>10. QED
  BY <1>3, <1>4, <1>5, <1>6, <1>7, <1>8, <1>9

LEMMA AfterRunning ==
  ASSUME UniqueNames, ctr \in Containers, NEW i \in Ids, Exists(i), NEW b \in BOOLEAN,
         ctr' = Running(i, b)
  PROVE  /\ UniqueNames' /\ SameApps
         /\ \A s, n : Named(s, n)' = Named(s, n)
         /\ \A s : Elsewhere(s)
         /\ \A j \in Ids : ctr'[j].image = ctr[j].image
         /\ Runs(i)' <=> b
         /\ \A j : j # i => (Runs(j)' <=> Runs(j))
<1>1. ctr[i] \in Container /\ [ctr[i] EXCEPT !.running = b] \in Container
  BY DEF Exists, Containers, Container
<1>2. \A j \in Ids : ctr'[j] = IF j = i THEN [ctr[i] EXCEPT !.running = b] ELSE ctr[j]
  BY DEF Running, Containers
<1>3. /\ ctr'[i].svc = ctr[i].svc /\ ctr'[i].name = ctr[i].name /\ ctr'[i].image = ctr[i].image
      /\ ctr'[i].running = b /\ ctr'[i] # NoContainer
  BY <1>1, <1>2, ValuesAssumption DEF Container
<1>4. \A j : j # i => ctr'[j] = ctr[j]
  BY DEF Running, Containers
<1>5. \A j : /\ Exists(j)' <=> Exists(j)
             /\ ctr'[j].svc = ctr[j].svc /\ ctr'[j].name = ctr[j].name
             /\ ctr'[j].image = ctr[j].image
  BY <1>3, <1>4 DEF Exists
<1>6. \A s, n : Named(s, n)' = Named(s, n)
  BY <1>5 DEF Named
<1>7. UniqueNames' /\ SameApps
  BY <1>5 DEF UniqueNames, SameApps
<1>8. \A s : Elsewhere(s)
  BY <1>5, <1>6 DEF Elsewhere
<1>9. (Runs(i)' <=> b) /\ \A j : j # i => (Runs(j)' <=> Runs(j))
  BY <1>3, <1>4, <1>5 DEF Runs
<1>10. QED
  BY <1>5, <1>6, <1>7, <1>8, <1>9

LEMMA AfterRenamed ==
  ASSUME UniqueNames, ctr \in Containers, NEW s, NEW n \in Names, NEW m \in Names \ {n},
         NEW i \in Named(s, n), Named(s, m) = {}, ctr' = Renamed(i, m)
  PROVE  /\ UniqueNames' /\ SameApps /\ Elsewhere(s)
         /\ Named(s, n)' = {} /\ Named(s, m)' = {i}
         /\ ctr'[i].image = ctr[i].image
<1>1. i \in Ids /\ Exists(i) /\ ctr[i].svc = s /\ ctr[i].name = n
  BY Members
<1>2. ctr[i] \in Container /\ [ctr[i] EXCEPT !.name = m] \in Container
  BY <1>1 DEF Exists, Containers, Container, Names
<1>3. \A j \in Ids : ctr'[j] = IF j = i THEN [ctr[i] EXCEPT !.name = m] ELSE ctr[j]
  BY DEF Renamed, Containers
<1>4. /\ ctr'[i].svc = s /\ ctr'[i].name = m /\ ctr'[i].image = ctr[i].image
      /\ ctr'[i] # NoContainer
  BY <1>1, <1>2, <1>3, ValuesAssumption DEF Container
<1>5. \A j : j # i => ctr'[j] = ctr[j]
  BY DEF Renamed, Containers
<1>6. \A j : Exists(j)' <=> Exists(j)
  BY <1>1, <1>4, <1>5 DEF Exists
<1>7. Named(s, n)' = Named(s, n) \ {i} /\ Named(s, m)' = Named(s, m) \cup {i}
  BY <1>1, <1>4, <1>5, <1>6 DEF Named
<1>8. Elsewhere(s)
  BY <1>1, <1>4, <1>5, <1>6 DEF Named, Elsewhere
<1>9. UniqueNames'
  <2> SUFFICES ASSUME NEW j \in Ids, NEW k \in Ids, Exists(j)', Exists(k)',
                      ctr'[j].svc = ctr'[k].svc, ctr'[j].name = ctr'[k].name
               PROVE  j = k
    BY DEF UniqueNames
  <2>1. \A l \in Ids : l # i /\ Exists(l) /\ ctr[l].svc = s => ctr[l].name # m
    BY DEF Named
  <2>2. CASE j # i /\ k # i
    BY <1>5, <1>6, <2>2 DEF UniqueNames
  <2>3. QED
    BY <1>4, <1>5, <1>6, <2>1, <2>2
<1>10. SameApps
  BY <1>1, <1>4, <1>5, <1>6 DEF SameApps
<1>11. QED
  BY <1>4, <1>7, <1>8, <1>9, <1>10, Found

LEMMA AfterCreated ==
  ASSUME UniqueNames, ctr \in Containers, NEW r, NEW s \in Services, NEW v \in Versions,
         NEW pc, CreateContainer(r, s, v, pc), Named(s, "live") = {}
  PROVE  \E i \in Ids :
           /\ New(r, i, pc) /\ Exists(i)' /\ ~Exists(i) /\ ctr'[i].svc = s
           /\ ctr'[i].image = v /\ ~Runs(i)'
           /\ UniqueNames' /\ Elsewhere(s)
           /\ Named(s, "live")' = {i} /\ Named(s, "old")' = Named(s, "old")
           /\ \A j : j # i => ctr'[j] = ctr[j]
<1> DEFINE c == [svc |-> s, name |-> "live", image |-> v, running |-> FALSE]
<1>1. PICK i \in FreshIds : New(r, i, pc) /\ ctr' = [ctr EXCEPT ![i] = c]
  BY DEF CreateContainer
<1>2. i \in Ids /\ i # NoId /\ ~Exists(i)
  BY <1>1, ValuesAssumption DEF FreshIds
<1>3. c \in Container
  BY DEF Container
<1>4. c.svc = s /\ c.name = "live" /\ c.image = v /\ ~c.running /\ c # NoContainer
  BY <1>3, ValuesAssumption
<1> HIDE DEF c
<1>5. ctr'[i] = c /\ \A j : j # i => ctr'[j] = ctr[j]
  BY <1>1, <1>2 DEF Containers
<1>6. Exists(i)' /\ \A j : j # i => (Exists(j)' <=> Exists(j))
  BY <1>2, <1>4, <1>5 DEF Exists
<1>7. Named(s, "live")' = Named(s, "live") \cup {i} /\ Named(s, "old")' = Named(s, "old")
  BY <1>2, <1>4, <1>5, <1>6 DEF Named
<1>8. Elsewhere(s)
  BY <1>2, <1>4, <1>5, <1>6 DEF Named, Elsewhere
<1>9. UniqueNames'
  <2> SUFFICES ASSUME NEW j \in Ids, NEW k \in Ids, Exists(j)', Exists(k)',
                      ctr'[j].svc = ctr'[k].svc, ctr'[j].name = ctr'[k].name
               PROVE  j = k
    BY DEF UniqueNames
  <2>1. \A l \in Ids : Exists(l) /\ ctr[l].svc = s => ctr[l].name # "live"
    BY DEF Named
  <2>2. CASE j # i /\ k # i
    BY <1>5, <1>6, <2>2 DEF UniqueNames
  <2>3. QED
    BY <1>4, <1>5, <1>6, <2>1, <2>2
<1>10. ~Runs(i)'
  BY <1>4, <1>5 DEF Runs
<1>11. QED
  BY <1>1, <1>2, <1>4, <1>5, <1>6, <1>7, <1>8, <1>9, <1>10

(* Whatever the name of the container that goes.                           *)
LEMMA AnyRemoved ==
  ASSUME UniqueNames, ctr \in Containers, NEW s, NEW i \in Ids, Exists(i), ctr[i].svc = s,
         ctr' = Removed(i)
  PROVE  UniqueNames' /\ SameApps /\ Elsewhere(s)
<1>1. ctr[i].name \in Names /\ i \in Named(s, ctr[i].name)
  BY DEF Exists, Containers, Container, Names, Named
<1>2. QED
  BY <1>1, AfterRemoved

-----------------------------------------------------------------------------
(* What a step does to the request: it goes on, with other containers in   *)
(* its hands; it drops what it holds; or it ends.                          *)
Went(r, pc, i, j) ==
  /\ req'[r].op = req[r].op /\ req'[r].goal = req[r].goal /\ req'[r].cur = req[r].cur
  /\ req'[r].snap = req[r].snap /\ req'[r].target = req[r].target
  /\ req'[r].up = req[r].up /\ req'[r].ok = req[r].ok
  /\ req'[r].pc = pc /\ req'[r].old = i /\ req'[r].new = j

Dropped(r, pc, up, ok) ==
  /\ req'[r].op = req[r].op /\ req'[r].goal = req[r].goal /\ req'[r].cur = req[r].cur
  /\ req'[r].up = up /\ req'[r].ok = ok
  /\ req'[r].pc = pc /\ req'[r].old = NoId /\ req'[r].new = NoId

(* It ends with the container it found in its hands.                       *)
Left(r) ==
  /\ req'[r].op = req[r].op /\ req'[r].goal = req[r].goal /\ req'[r].cur = req[r].cur
  /\ req'[r].pc = "uFinally" /\ req'[r].old = req[r].old /\ req'[r].new = NoId

Ended(r) == req'[r] = Idle

LEMMA GoesOn ==
  ASSUME IInv, NEW r \in Requests
  PROVE  /\ \A pc : Go(r, pc) => Went(r, pc, req[r].old, req[r].new)
         /\ \A pc, i : Old(r, i, pc) => Went(r, pc, i, req[r].new)
         /\ \A pc, i : New(r, i, pc) => Went(r, pc, req[r].old, i)
         /\ Done(r) => Ended(r)
<1>1. req[r] \in Request /\ req \in [Requests -> Request]
  BY ReqType DEF IInv, TypeOK
<1>2. ASSUME NEW n, Becomes(r, n) PROVE req'[r] = n
  BY <1>1, <1>2 DEF Becomes
<1>3. ASSUME NEW pc, Go(r, pc) PROVE Went(r, pc, req[r].old, req[r].new)
  <2>1. req'[r] = [req[r] EXCEPT !.pc = pc]
    BY <1>2, <1>3 DEF Go
  <2>2. QED
    BY <1>1, <2>1 DEF Went, Request
<1>4. ASSUME NEW pc, NEW i, Old(r, i, pc) PROVE Went(r, pc, i, req[r].new)
  <2>1. req'[r] = [req[r] EXCEPT !.pc = pc, !.old = i]
    BY <1>2, <1>4 DEF Old
  <2>2. QED
    BY <1>1, <2>1 DEF Went, Request
<1>5. ASSUME NEW pc, NEW i, New(r, i, pc) PROVE Went(r, pc, req[r].old, i)
  <2>1. req'[r] = [req[r] EXCEPT !.pc = pc, !.new = i]
    BY <1>2, <1>5 DEF New
  <2>2. QED
    BY <1>1, <2>1 DEF Went, Request
<1>6. Done(r) => Ended(r)
  BY <1>2 DEF Done, Ended
<1>7. QED
  BY <1>3, <1>4, <1>5, <1>6

LEMMA DropsAll ==
  ASSUME IInv, NEW r \in Requests
  PROVE  /\ GivesUp(r) => Dropped(r, "uFinally", FALSE, FALSE)
         /\ LeavesIt(r) => Left(r)
         /\ \A ok : Finally(r, ok) => Dropped(r, "uFinally", req[r].up, ok)
         /\ CreateFails(r) => Dropped(r, "cleanRow", FALSE, FALSE)
         /\ RecreateFails(r) => Dropped(r, "cDiscard", FALSE, FALSE)
<1>1. req \in [Requests -> Request]
  BY DEF IInv, TypeOK
<1>2. ASSUME NEW n, Becomes(r, n) PROVE req'[r] = n
  BY <1>1, <1>2 DEF Becomes
<1>3. /\ Bare(r) \in Request /\ Bare(r).op = req[r].op /\ Bare(r).goal = req[r].goal
      /\ Bare(r).cur = req[r].cur /\ Bare(r).old = NoId /\ Bare(r).new = NoId
      /\ ~Bare(r).up /\ ~Bare(r).ok
  BY ReqType, IdleType DEF Bare, Request, Held, Idle
<1>4. GivesUp(r) => Dropped(r, "uFinally", FALSE, FALSE)
  <2>1. GivesUp(r) => req'[r] = [Bare(r) EXCEPT !.pc = "uFinally"]
    BY <1>2 DEF GivesUp
  <2>2. QED
    BY <1>3, <2>1 DEF Dropped, Request
<1>5. ASSUME NEW ok, Finally(r, ok) PROVE Dropped(r, "uFinally", req[r].up, ok)
  <2>1. req'[r] = [Bare(r) EXCEPT !.pc = "uFinally", !.up = req[r].up, !.ok = ok]
    BY <1>2, <1>5 DEF Finally
  <2>2. QED
    BY <1>3, <2>1 DEF Dropped, Request
<1>6. CreateFails(r) => Dropped(r, "cleanRow", FALSE, FALSE)
  <2>1. CreateFails(r) => req'[r] = [Bare(r) EXCEPT !.pc = "cleanRow", !.left = 2]
    BY <1>2 DEF CreateFails
  <2>2. QED
    BY <1>3, <2>1 DEF Dropped, Request
<1>7. RecreateFails(r) => Dropped(r, "cDiscard", FALSE, FALSE)
  <2>1. RecreateFails(r) => req'[r] = [Bare(r) EXCEPT !.pc = "cDiscard"]
    BY <1>2 DEF RecreateFails
  <2>2. QED
    BY <1>3, <2>1 DEF Dropped, Request
<1>8. LeavesIt(r) => Left(r)
  <2>1. LeavesIt(r) =>
          req'[r] = [Bare(r) EXCEPT !.pc = "uFinally", !.up = req[r].up, !.old = req[r].old]
    BY <1>2 DEF LeavesIt
  <2>2. QED
    BY <1>3, <2>1 DEF Left, Request
<1>9. QED
  BY <1>4, <1>5, <1>6, <1>7, <1>8

-----------------------------------------------------------------------------
(* What follows for each part of the invariant.                            *)

LEMMA BelongsStill ==
  ASSUME NEW r \in Requests, Belongs(req[r]), SameApps,
         req'[r].cur = req[r].cur,
         \A i \in {req'[r].old, req'[r].new} :
           i \in {req[r].old, req[r].new, NoId} \cup Named(req[r].cur, "live")
                   \cup Named(req[r].cur, "old"),
         req'[r].pc \in Handless => req'[r].old = NoId /\ req'[r].new = NoId,
         req'[r].pc = "start" => req'[r].old = NoId,
         req'[r].pc = "rRemove" => req'[r].new = NoId
  PROVE  Belongs(req[r])'
<1>1. \A i \in {req'[r].old, req'[r].new} : Exists(i)' => ctr'[i].svc = req'[r].cur
  <2> SUFFICES ASSUME NEW i \in {req'[r].old, req'[r].new}, Exists(i)'
               PROVE  ctr'[i].svc = req'[r].cur
    OBVIOUS
  <2>1. Exists(i) /\ ctr'[i].svc = ctr[i].svc /\ i # NoId
    BY DEF SameApps, Exists
  <2>2. ctr[i].svc = req[r].cur
    BY <2>1, Members DEF Belongs
  <2>3. QED
    BY <2>1, <2>2
<1>2. QED
  BY <1>1 DEF Belongs

(* Nothing in hand.                                                        *)
LEMMA BelongsBare ==
  ASSUME NEW r \in Requests, req'[r].old = NoId, req'[r].new = NoId
  PROVE  Belongs(req[r])'
  BY DEF Belongs, Exists

LEMMA UpToDateStill ==
  ASSUME NEW r \in Requests, UpToDate(req[r]), row' = row, NEW i, NEW j,
         Went(r, req'[r].pc, i, j), MayFollow(req[r].pc, req'[r].pc)
  PROVE  UpToDate(req[r])'
  BY DEF UpToDate, Went, MayFollow, Sweeping

LEMMA UpToDateBare ==
  ASSUME NEW r \in Requests, req'[r].pc \notin HoldsRow \cup Installs \cup {"syncList", "syncSave"}
  PROVE  UpToDate(req[r])'
  BY DEF UpToDate

LEMMA NotUpdating ==
  ASSUME NEW r \in Requests, Updating(req[r]),
         req[r].pc \notin PcsUpdate, req'[r].pc \notin PcsUpdate, req'[r].op = req[r].op
  PROVE  Updating(req[r])'
  BY DEF Updating, PcsUpdate

LEMMA OthersAgreeStill ==
  ASSUME NEW r \in Requests, OthersAgree(req[r]), Elsewhere(req[r].cur),
         req'[r].cur = req[r].cur, req'[r].goal = req[r].goal,
         \A s \in Services \ {req[r].cur} : row'[s] = row[s]
  PROVE  OthersAgree(req[r])'
<1> DEFINE c == req[r].cur
<1> SUFFICES ASSUME NEW s \in Services \ {c}
             PROVE  IF s = req[r].goal THEN NoCopy(s)' ELSE Agrees(s)'
  BY DEF OthersAgree
<1>1. /\ \A n \in Names : Named(s, n)' = Named(s, n)
      /\ \A n \in Names : \A i \in Named(s, n) : ctr'[i].image = ctr[i].image
      /\ "live" \in Names /\ "old" \in Names
  BY DEF Elsewhere, Names
<1>2. NoCopy(s) => NoCopy(s)'
  BY <1>1 DEF NoCopy
<1>3. Agrees(s) => Agrees(s)'
  BY <1>1 DEF Agrees
<1>4. QED
  BY <1>2, <1>3 DEF OthersAgree

(* Where everything agrees, it is enough to look at the request's service. *)
LEMMA AllAgree ==
  ASSUME NEW q, OthersAgree(q), q.cur = q.goal, q.cur \in Services => Agrees(q.cur)
  PROVE  \A s \in Services : Agrees(s)
  BY DEF OthersAgree

LEMMA AgreesStill ==
  ASSUME NEW s, Agrees(s), Named(s, "live")' = Named(s, "live"),
         Named(s, "old")' = Named(s, "old"),
         \A i \in Named(s, "live") : ctr'[i].image = ctr[i].image,
         row'[s] = row[s] \/ (/\ row[s] # NoRow /\ row'[s] # NoRow
                              /\ row'[s].installed = row[s].installed
                              /\ row'[s].image = row[s].image)
  PROVE  Agrees(s)'
  BY DEF Agrees

LEMMA EndsWell ==
  ASSUME NEW r \in Requests, Ended(r), UniqueNames', Quiet' => \A s \in Services : Agrees(s)'
  PROVE  Well(r)'
<1>1. req'[r].pc = "idle" /\ req'[r].old = NoId /\ req'[r].new = NoId /\ req'[r].op = "none"
        /\ req'[r].cur = NoService /\ req'[r].goal = NoService
  BY DEF Ended, Idle
<1>2. Belongs(req[r])' /\ UpToDate(req[r])'
  BY <1>1, BelongsBare, UpToDateBare DEF HoldsRow, Installs, Targeted, PcsUpdate, PcsReinstall,
     PcsRecreate
<1>3. Updating(req[r])'
  BY <1>1 DEF Updating, PcsUpdate
<1>4. Quiet' => Quietly(req[r])'
  <2>1. Place(req[r])'
    BY <1>1 DEF Place, Targeted, PcsUpdate
  <2>2. Quiet' => OthersAgree(req[r])'
    BY <1>1, ServicesAssumption DEF OthersAgree
  <2>3. QED
    BY <1>1, <2>1, <2>2 DEF Quietly, Undone
<1>5. QED
  BY <1>2, <1>3, <1>4 DEF Well

(* Lucid's save writes what the instance says, since nobody else writes.   *)
LEMMA SavesIt ==
  ASSUME IInv, NEW r \in Requests, UpToDate(req[r]), req[r].pc \in HoldsRow,
         NEW now \in Row, Save(r, req[r].cur, now)
  PROVE  row' = [row EXCEPT ![req[r].cur] = now] /\ row'[req[r].cur] = now
<1> DEFINE s == req[r].cur
<1>1. s \in Services /\ row[s] \in Row /\ req[r].snap[s] = row[s]
  BY ReqType DEF Held, Serves, HasRow, HoldsRow, Sweeping, UpToDate, Installs, Targeted, PcsUpdate,
     PcsReinstall, PcsRecreate
<1>2. Written(row[s], row[s], now) = now
  BY <1>1, ValuesAssumption DEF Written, Row
<1>3. QED
  BY <1>1, <1>2, Typed DEF Save, Rows

LEMMA MarksIt ==
  ASSUME IInv, NEW r \in Requests, UpToDate(req[r]),
         NEW p \in {"mark", "rMark", "uMark"}, NEW pc \in Pcs, MarkInstalling(r, p, pc)
  PROVE  /\ req[r].pc = p /\ ctr' = ctr /\ faults' = faults /\ crashes' = crashes
         /\ \A s \in Services \ {req[r].cur} : row'[s] = row[s]
         /\ row'[req[r].cur] # NoRow
         /\ row'[req[r].cur].installed = row[req[r].cur].installed
         /\ row'[req[r].cur].image = row[req[r].cur].image
         /\ req'[r].pc = pc /\ req'[r].op = req[r].op /\ req'[r].goal = req[r].goal
         /\ req'[r].cur = req[r].cur /\ req'[r].target = req[r].target
         /\ req'[r].old = req[r].old /\ req'[r].new = req[r].new
         /\ req'[r].snap[req[r].cur] = row'[req[r].cur]
<1> DEFINE s == req[r].cur
           now == [req[r].snap[s] EXCEPT !.status = "installing"]
<1>1. /\ req[r].pc = p /\ ctr' = ctr /\ faults' = faults /\ crashes' = crashes
      /\ Save(r, s, now) /\ Becomes(r, Holding(req[r], s, now, pc))
  BY DEF MarkInstalling, Query, At, Snap
<1>2. req[r].pc \in HoldsRow /\ req[r].pc \notin Sweeping
  BY <1>1 DEF HoldsRow, Sweeping, PcsReinstall, Targeted, PcsUpdate
<1>3. s \in Services /\ row[s] \in Row /\ req[r].snap[s] = row[s]
  BY <1>2, ReqType DEF Held, Serves, HasRow, UpToDate
<1>4. now \in Row /\ now.installed = row[s].installed /\ now.image = row[s].image
  BY <1>3 DEF Row, Status
<1>5. row' = [row EXCEPT ![s] = now] /\ row'[s] = now
  <2> HIDE DEF now
  <2> QED
    BY <1>1, <1>2, <1>4, SavesIt
<1>6. req'[r] = Holding(req[r], s, now, pc)
  BY <1>1 DEF Becomes, IInv, TypeOK
<1>7. /\ req'[r].pc = pc /\ req'[r].op = req[r].op /\ req'[r].goal = req[r].goal
      /\ req'[r].cur = s /\ req'[r].target = req[r].target
      /\ req'[r].old = req[r].old /\ req'[r].new = req[r].new
      /\ req'[r].snap[s] = now
  <2>1. req[r] \in Request /\ req[r].snap \in [Services -> Row \cup {NoRow}]
    BY ReqType DEF Request
  <2> HIDE DEF now
  <2>2. QED
    BY <1>3, <1>6, <2>1 DEF Holding, Request
<1>8. QED
  BY <1>1, <1>4, <1>5, <1>7, ValuesAssumption, Typed DEF Rows

-----------------------------------------------------------------------------
(* updateContainer.                                                        *)

(* A Docker call of r at pc, seen from the bounds.                         *)
LEMMA Counted ==
  ASSUME IInv
  PROVE  /\ faults \in Nat /\ crashes \in Nat
         /\ \A b \in BOOLEAN : Docker(b) =>
              \/ b /\ faults' = faults + 1
              \/ ~b /\ faults' = faults
         /\ crashes' = crashes /\ (faults' = faults \/ faults' = faults + 1) =>
              (Quiet' => Quiet /\ faults' = faults)
<1>1. faults \in Nat /\ crashes \in Nat
  BY Typed, ValuesAssumption
<1>2. QED
  BY <1>1 DEF Docker, Quiet

LEMMA FinallyWell ==
  ASSUME IInv, NEW r \in Requests, Well(r), req[r].pc \in PcsUpdate,
         NEW up \in BOOLEAN, NEW ok \in BOOLEAN, Dropped(r, "uFinally", up, ok), UniqueNames',
         up /\ ~ok => faults' >= 1 /\ (faults' <= 1 => \E i \in Live(req[r])' : Runs(i)'),
         Quiet' => \A s \in Services : Agrees(s)'
  PROVE  Well(r)'
<1>1. req'[r].pc = "uFinally" /\ req'[r].op = "update" /\ req'[r].cur = req'[r].goal
  BY ReqType DEF Well, Updating, Dropped, Held, Serves, Sweeping, Nested, PcsUpdate, PcsCreate
<1>2. Belongs(req[r])' /\ UpToDate(req[r])'
  BY <1>1, BelongsBare, UpToDateBare DEF Dropped, HoldsRow, Installs, Targeted, PcsUpdate,
     PcsReinstall, PcsRecreate
<1>3. Updating(req[r])'
  BY <1>1 DEF Updating, PcsUpdate, Dropped
<1>4. Quiet' => Quietly(req[r])'
  <2>1. Place(req[r])'
    BY <1>1 DEF Place, Targeted, PcsUpdate
  <2>2. Quiet' => OthersAgree(req[r])'
    BY <1>1 DEF OthersAgree
  <2>3. QED
    BY <1>1, <2>1, <2>2 DEF Quietly, Undone
<1>5. QED
  BY <1>2, <1>3, <1>4 DEF Well

(* The same with the old container still under its name.                   *)
LEMMA LeavesItWell ==
  ASSUME IInv, NEW r \in Requests, Well(r), req[r].pc \in {"uStop", "uStale", "uRename"},
         Left(r), UniqueNames', SameApps, Live(req[r])' = Live(req[r]),
         Quiet' => \A s \in Services : Agrees(s)'
  PROVE  Well(r)'
<1>1. /\ req'[r].pc = "uFinally" /\ req'[r].op = "update" /\ req'[r].cur = req'[r].goal
      /\ req'[r].cur = req[r].cur /\ req'[r].old = req[r].old /\ req'[r].new = NoId
      /\ req[r].old \in Live(req[r])
  BY ReqType DEF Well, Updating, Left, Held, Serves, Sweeping, Nested, PcsUpdate, PcsCreate
<1>2. Belongs(req[r])'
  BY <1>1, BelongsStill DEF Well, Handless, Sweeping, PcsCreate
<1>3. UpToDate(req[r])'
  BY <1>1, UpToDateBare DEF HoldsRow, Installs, Targeted, PcsUpdate, PcsReinstall, PcsRecreate
<1>4. Updating(req[r])'
  <2>1. req'[r].old \in Live(req[r])' /\ req'[r].old # NoId
    BY <1>1, Members DEF Live
  <2>2. QED
    BY <1>1, <2>1 DEF Updating, PcsUpdate
<1>5. Quiet' => Quietly(req[r])'
  <2>1. Place(req[r])'
    BY <1>1 DEF Place, Targeted, PcsUpdate
  <2>2. Quiet' => OthersAgree(req[r])'
    BY <1>1 DEF OthersAgree
  <2>3. QED
    BY <1>1, <2>1, <2>2 DEF Quietly, Undone
<1>6. QED
  BY <1>2, <1>3, <1>4, <1>5 DEF Well

(* A call that leaves the table alone and goes on: what remains to be seen *)
(* is where the request is then.                                           *)
LEMMA GoesWell ==
  ASSUME IInv, NEW r \in Requests, NEW s, s = req[r].cur, Well(r), row' = row, crashes' = crashes,
         faults' = faults \/ faults' = faults + 1,
         NEW pc, NEW i, NEW j, Went(r, pc, i, j), MayFollow(req[r].pc, pc),
         UniqueNames', SameApps, Elsewhere(s),
         i \in {req[r].old, req[r].new, NoId} \cup Live(req[r]) \cup Aside(req[r]),
         j \in {req[r].old, req[r].new, NoId},
         pc \in Handless => i = NoId /\ j = NoId,
         pc = "start" => i = NoId,
         pc = "rRemove" => j = NoId,
         Updating(req[r])',
         Quiet' => /\ Place(req[r])' /\ pc \notin Undone
                   /\ pc \in Untouched => Agrees(s)'
  PROVE  Well(r)'
<1>1. Belongs(req[r])'
  <2>1. \A k \in {i, j} : k \in {req[r].old, req[r].new, NoId} \cup Named(req[r].cur, "live")
                                   \cup Named(req[r].cur, "old")
    BY DEF Live, Aside
  <2>2. req'[r].cur = req[r].cur /\ req'[r].pc = pc /\ req'[r].old = i /\ req'[r].new = j
    BY DEF Went
  <2>3. QED
    BY <2>1, <2>2, BelongsStill DEF Well
<1>2. UpToDate(req[r])'
  <2>1. req'[r].pc = pc
    BY DEF Went
  <2>2. QED
    BY <2>1, UpToDateStill DEF Well
<1>3. ASSUME Quiet' PROVE Quietly(req[r])'
  <2>1. Quiet
    BY <1>3, Counted
  <2>2. OthersAgree(req[r])'
    BY <2>1, OthersAgreeStill DEF Well, Quietly, Went
  <2>3. pc \in Untouched => \A x \in Services : Agrees(x)'
    <3>1. ASSUME pc \in Untouched PROVE req'[r].cur = req'[r].goal
      <4>1. req[r].pc \notin Sweeping /\ req[r].pc \notin Nested
        BY <3>1 DEF MayFollow, Untouched, Nested, PcsCreate, Sweeping
      <4>2. QED
        BY <4>1, ReqType DEF Held, Serves, Went
    <3>2. req'[r].cur = req[r].cur
      BY DEF Went
    <3>3. QED
      BY <1>3, <2>2, <3>1, <3>2 DEF OthersAgree
  <2>4. QED
    BY <1>3, <2>2, <2>3 DEF Quietly, Went
<1>4. QED
  BY <1>1, <1>2, <1>3 DEF Well

(* The same for the call that creates a container.                         *)
LEMMA CreatesWell ==
  ASSUME IInv, NEW r \in Requests, NEW s, s = req[r].cur, Well(r), row' = row, crashes' = crashes,
         faults' = faults \/ faults' = faults + 1,
         NEW pc, NEW i, Went(r, pc, req[r].old, i), MayFollow(req[r].pc, pc),
         UniqueNames', Elsewhere(s), ctr'[i].svc = s, ~Exists(i),
         \A j : j # i => ctr'[j] = ctr[j],
         pc \notin Handless \cup {"rRemove"},
         pc = "start" => req[r].old = NoId,
         Updating(req[r])',
         Quiet' => Place(req[r])' /\ pc \notin Undone \cup Untouched
  PROVE  Well(r)'
<1>1. /\ req'[r].cur = s /\ req'[r].pc = pc /\ req'[r].old = req[r].old /\ req'[r].new = i
      /\ req'[r].goal = req[r].goal
  BY DEF Went
<1>2. Belongs(req[r])'
  <2>1. \A k : k # i /\ Exists(k)' => Exists(k) /\ ctr'[k].svc = ctr[k].svc
    BY DEF Exists
  <2>2. QED
    BY <1>1, <2>1 DEF Well, Belongs
<1>3. UpToDate(req[r])'
  BY <1>1, UpToDateStill DEF Well
<1>4. ASSUME Quiet' PROVE Quietly(req[r])'
  <2>1. Quiet
    BY <1>4, Counted
  <2>2. OthersAgree(req[r])'
    BY <1>1, <2>1, OthersAgreeStill DEF Well, Quietly
  <2>3. QED
    BY <1>1, <1>4, <2>2 DEF Quietly
<1>5. QED
  BY <1>2, <1>3, <1>4 DEF Well

(* Where an update may go on to.                                           *)
LEMMA UpdatePcs ==
  /\ {"uPull", "uFind", "uStop", "uStale", "uRename"} \cap (Handless \cup {"start"} \cup Undone) = {}
  /\ {"uCreate", "uStart", "uHealth", "uDropOld", "uRecord"}
       \cap (Handless \cup {"start"} \cup Undone \cup Untouched) = {}
  /\ {"uDiscard", "uRollback", "uRestart"} \cap (Handless \cup {"start"} \cup Untouched) = {}
  BY DEF Handless, Sweeping, PcsCreate, Undone, Untouched

LEMMA UpdateWell ==
  ASSUME IInv, NEW r \in Requests, NEW q, q = req[r], Well(r), UpdateStep(r)
  PROVE  Well(r)'
<1> DEFINE s == q.cur
           n == req'[r]
<1>1. /\ q \in Held /\ q \in Request /\ ctr \in Containers /\ row \in Rows
      /\ faults \in Nat /\ crashes \in Nat
  BY ReqType, Typed, Counted
<1>2. /\ UniqueNames /\ Belongs(q) /\ UpToDate(q) /\ Updating(q)
      /\ Quiet => Place(q) /\ OthersAgree(q) /\ q.pc \notin Undone
      /\ Quiet /\ q.pc \in Untouched => \A x \in Services : Agrees(x)
  BY DEF Well, Quietly
<1>3. q.pc \in PcsUpdate => s \in Services /\ q.goal = s /\ q.op = "update"
  BY <1>1, <1>2 DEF Held, Serves, Sweeping, Nested, PcsUpdate, PcsCreate, Updating
<1>4. q.pc \in Targeted => q.target \in Versions /\ row[s] \in Row /\ q.snap[s] = row[s]
  BY <1>1, <1>2 DEF Held, HasRow, HoldsRow, UpToDate
<1>5. CASE UpdateMark(r)
  <2>0. "uPull" \in Pcs
    BY DEF Pcs, PcsUpdate
  <2>1. /\ q.pc = "uMark" /\ ctr' = ctr /\ faults' = faults /\ crashes' = crashes
        /\ \A x \in Services \ {s} : row'[x] = row[x]
        /\ row'[s] # NoRow /\ row'[s].installed = row[s].installed
        /\ row'[s].image = row[s].image
        /\ n.pc = "uPull" /\ n.op = q.op /\ n.goal = q.goal /\ n.cur = s /\ n.target = q.target
        /\ n.old = q.old /\ n.new = q.new /\ n.snap[s] = row'[s]
    BY <1>2, <1>5, <2>0, MarksIt DEF UpdateMark
  <2>2. s \in Services /\ q.goal = s /\ q.op = "update" /\ row[s] # NoRow
    BY <1>3, <1>4, <2>1, ValuesAssumption DEF PcsUpdate, Targeted
  <2>3. UniqueNames' /\ SameApps /\ Elsewhere(s) /\ \A x, m : Named(x, m)' = Named(x, m)
    BY <1>2, <2>1, SameNames
  <2>4. Belongs(req[r])'
    BY <1>2, <2>1, <2>3, BelongsStill DEF Handless, Sweeping, PcsCreate
  <2>5. UpToDate(req[r])'
    BY <2>1 DEF UpToDate, Installs
  <2>6. Updating(req[r])'
    BY <2>1, <2>2 DEF Updating, PcsUpdate
  <2>7. ASSUME Quiet' PROVE Quietly(req[r])'
    <3>1. Quiet
      BY <2>1, <2>7 DEF Quiet
    <3>2. OthersAgree(req[r])'
      BY <1>2, <2>1, <2>3, <3>1, OthersAgreeStill
    <3>3. \A x \in Services : Agrees(x)
      BY <1>2, <2>1, <3>1 DEF Untouched
    <3>4. \A x \in Services : Agrees(x)'
      BY <2>1, <2>2, <2>3, <3>3, AgreesStill
    <3>5. Place(req[r])'
      BY <1>2, <2>1, <3>1 DEF Place, Targeted, PcsUpdate
    <3>6. QED
      BY <2>1, <3>2, <3>4, <3>5 DEF Quietly, Undone
  <2>8. QED
    BY <2>3, <2>4, <2>5, <2>6, <2>7 DEF Well
<1>6. CASE UpdatePull(r)
  <2>1. /\ q.pc = "uPull" /\ row' = row /\ crashes' = crashes /\ ctr' = ctr
        /\ faults' = faults \/ faults' = faults + 1
        /\ Went(r, "uFind", q.old, q.new) \/ Dropped(r, "uFinally", FALSE, FALSE)
    BY <1>6, Counted, GoesOn, DropsAll DEF UpdatePull, Call, At
  <2>2. UniqueNames' /\ SameApps /\ Elsewhere(s) /\ \A x, m : Named(x, m)' = Named(x, m)
    BY <1>2, <2>1, SameNames
  <2>3. Quiet' => Quiet /\ \A x \in Services : Agrees(x) /\ Agrees(x)'
    BY <1>2, <2>1, <2>2, Counted, AgreesStill DEF Untouched
  <2>4. CASE Went(r, "uFind", q.old, q.new)
    <3>1. Updating(req[r])'
      BY <1>2, <1>3, <2>1, <2>4 DEF Updating, PcsUpdate, Went
    <3>2. Quiet' => Place(req[r])'
      BY <1>2, <2>1, <2>3, <2>4 DEF Place, Went, Targeted, PcsUpdate
    <3>3. QED
      <4>1. MayFollow(req[r].pc, "uFind")
        BY <2>1, UpdateOrder
      <4>2. s \in Services
        BY <1>3, <2>1 DEF PcsUpdate
      <4>3. QED
        BY <2>1, <2>2, <2>3, <2>4, <3>1, <3>2, <4>1, <4>2, UpdatePcs, GoesWell
  <2>5. CASE Dropped(r, "uFinally", FALSE, FALSE)
    BY <2>1, <2>2, <2>3, <2>5, FinallyWell DEF PcsUpdate
  <2>6. QED
    BY <2>1, <2>4, <2>5
<1>7. CASE UpdateFind(r)
  <2>0. PICK i : i = Find(s, "live")
    OBVIOUS
  <2>1. /\ q.pc = "uFind" /\ row' = row /\ crashes' = crashes /\ ctr' = ctr
        /\ faults' = faults \/ faults' = faults + 1
        /\ \/ /\ i # NoId
              /\ Becomes(r, [q EXCEPT !.old = i, !.up = Runs(i),
                                     !.pc = IF Runs(i) THEN "uStop" ELSE "uStale"])
           \/ Dropped(r, "uFinally", FALSE, FALSE)
    BY <1>7, <2>0, Counted, DropsAll DEF UpdateFind, Call, At
  <2>2. UniqueNames' /\ SameApps /\ Elsewhere(s) /\ \A x, m : Named(x, m)' = Named(x, m)
    BY <1>2, <2>1, SameNames
  <2>3. Quiet' => Quiet /\ \A x \in Services : Agrees(x) /\ Agrees(x)'
    BY <1>2, <2>1, <2>2, Counted, AgreesStill DEF Untouched
  <2>4. CASE /\ i # NoId
             /\ Becomes(r, [q EXCEPT !.old = i, !.up = Runs(i),
                                    !.pc = IF Runs(i) THEN "uStop" ELSE "uStale"])
    <3>0. i \in Named(s, "live") /\ i \in Named(s, "live")'
      BY <1>2, <2>0, <2>2, <2>4, Found
    <3>1. /\ n.op = q.op /\ n.goal = q.goal /\ n.cur = q.cur /\ n.snap = q.snap
          /\ n.target = q.target /\ n.old = i /\ n.new = q.new
          /\ n.pc \in {"uStop", "uStale"}
          /\ n.pc = "uStop" => Runs(i)
      <4>1. n = [q EXCEPT !.old = i, !.up = Runs(i), !.pc = IF Runs(i) THEN "uStop" ELSE "uStale"]
        BY <2>4 DEF Becomes, IInv, TypeOK
      <4>2. QED
        BY <1>1, <4>1 DEF Request
    <3>2. Runs(i)' <=> Runs(i)
      BY <2>1 DEF Runs, Exists
    <3>3. Belongs(req[r])'
      BY <1>2, <2>1, <2>2, <3>0, <3>1, BelongsStill DEF Handless, Sweeping, PcsCreate
    <3>4. UpToDate(req[r])'
      BY <1>2, <2>1, <3>1 DEF UpToDate, HoldsRow, Targeted, PcsUpdate, Installs
    <3>5. Updating(req[r])'
      BY <1>3, <2>1, <3>0, <3>1 DEF Updating, PcsUpdate, Live
    <3>6. ASSUME Quiet' PROVE Quietly(req[r])'
      <4>1. OthersAgree(req[r])'
        BY <1>3, <2>1, <2>3, <3>1, <3>6 DEF OthersAgree, PcsUpdate
      <4>2. Place(req[r])'
        BY <1>2, <2>1, <2>3, <3>1, <3>2, <3>6 DEF Place, Targeted, PcsUpdate
      <4>3. QED
        BY <2>3, <3>1, <3>6, <4>1, <4>2 DEF Quietly, Undone
    <3>7. QED
      BY <2>2, <3>3, <3>4, <3>5, <3>6 DEF Well
  <2>5. CASE Dropped(r, "uFinally", FALSE, FALSE)
    BY <2>1, <2>2, <2>3, <2>5, FinallyWell DEF PcsUpdate
  <2>6. QED
    BY <2>1, <2>4, <2>5
<1>8. CASE UpdateStop(r)
  <2>1. /\ q.pc = "uStop" /\ row' = row /\ crashes' = crashes
        /\ faults' = faults \/ faults' = faults + 1
        /\ \/ /\ Went(r, "uStale", q.old, q.new) /\ ctr' = Running(q.old, FALSE)
              /\ Runs(q.old)
           \/ Left(r) /\ ctr' = ctr
    BY <1>8, Counted, GoesOn, DropsAll DEF UpdateStop, Call, At
  <2>2. q.old \in Named(s, "live") /\ s \in Services
    BY <1>2, <1>3, <2>1 DEF Updating, Live, PcsUpdate
  <2>3. /\ UniqueNames' /\ SameApps /\ Elsewhere(s) /\ \A x, m : Named(x, m)' = Named(x, m)
        /\ \A i \in Ids : ctr'[i].image = ctr[i].image
    BY <1>1, <1>2, <2>1, <2>2, SameNames, AfterRunning, Members DEF Runs
  <2>4. Quiet' => Quiet /\ \A x \in Services : Agrees(x) /\ Agrees(x)'
    BY <1>2, <2>1, <2>3, Counted, AgreesStill, Members DEF Untouched
  <2>5. CASE Went(r, "uStale", q.old, q.new)
    <3>1. Updating(req[r])'
      BY <1>3, <2>1, <2>2, <2>3, <2>5 DEF Updating, PcsUpdate, Went, Live
    <3>2. Quiet' => Place(req[r])'
      BY <1>2, <2>1, <2>4, <2>5 DEF Place, Went, Targeted, PcsUpdate
    <3>3. QED
      <4>1. MayFollow(req[r].pc, "uStale")
        BY <2>1, UpdateOrder
      <4>2. QED
        BY <2>1, <2>2, <2>3, <2>4, <2>5, <3>1, <3>2, <4>1, UpdatePcs, GoesWell
  <2>6. CASE Left(r)
    BY <2>1, <2>3, <2>4, <2>6, LeavesItWell DEF Live, Left
  <2>7. QED
    BY <2>1, <2>5, <2>6
<1>9. CASE UpdateStale(r)
  <2>0. PICK i : i = Find(s, "old")
    OBVIOUS
  <2>1. /\ q.pc = "uStale" /\ row' = row /\ crashes' = crashes
        /\ faults' = faults \/ faults' = faults + 1
        /\ ctr' = ctr \/ (i # NoId /\ ctr' = Removed(i))
        /\ Went(r, "uRename", q.old, q.new) \/ Left(r)
    BY <1>9, <2>0, Counted, GoesOn, DropsAll DEF UpdateStale, Call, At
  <2>2. q.old \in Named(s, "live") /\ s \in Services
    BY <1>2, <1>3, <2>1 DEF Updating, Live, PcsUpdate
  <2>3. i # NoId => i \in Named(s, "old")
    BY <1>2, <2>0, Found
  <2>4. /\ UniqueNames' /\ SameApps /\ Elsewhere(s)
        /\ Named(s, "live")' = Named(s, "live")
    BY <1>1, <1>2, <2>1, <2>3, SameNames, AfterRemoved DEF Names
  <2>5. ASSUME Quiet' PROVE Quiet /\ \A x \in Services : Agrees(x) /\ Agrees(x)'
    <3>1. Quiet /\ \A x \in Services : Agrees(x)
      BY <1>2, <2>1, <2>5, Counted DEF Untouched
    <3>2. ctr' = ctr
      BY <2>1, <2>2, <2>3, <3>1 DEF Agrees
    <3>3. \A x \in Services : Agrees(x)'
      BY <1>2, <2>1, <3>1, <3>2, SameNames, AgreesStill
    <3>4. QED
      BY <3>1, <3>3
  <2>6. CASE Went(r, "uRename", q.old, q.new)
    <3>1. Updating(req[r])'
      BY <1>3, <2>1, <2>2, <2>4, <2>6 DEF Updating, PcsUpdate, Went, Live
    <3>2. Quiet' => Place(req[r])'
      BY <1>2, <2>1, <2>5, <2>6 DEF Place, Went, Targeted, PcsUpdate
    <3>3. MayFollow(req[r].pc, "uRename")
      BY <2>1, UpdateOrder
    <3>4. QED
      BY <2>1, <2>2, <2>4, <2>5, <2>6, <3>1, <3>2, <3>3, UpdatePcs, GoesWell
  <2>7. CASE Left(r)
    BY <2>1, <2>4, <2>5, <2>7, LeavesItWell DEF Live, Left
  <2>8. QED
    BY <2>1, <2>6, <2>7
<1>10. CASE UpdateRename(r)
  <2>1. /\ q.pc = "uRename" /\ row' = row /\ crashes' = crashes
        /\ faults' = faults \/ faults' = faults + 1
        /\ \/ /\ Went(r, "uCreate", NoId, q.new) /\ ctr' = Renamed(q.old, "old")
              /\ Named(s, "old") = {}
           \/ Left(r) /\ ctr' = ctr
    BY <1>10, Counted, GoesOn, DropsAll DEF UpdateRename, Call, At
  <2>2. q.old \in Named(s, "live") /\ s \in Services
    BY <1>2, <1>3, <2>1 DEF Updating, Live, PcsUpdate
  <2>3. CASE /\ Went(r, "uCreate", NoId, q.new) /\ ctr' = Renamed(q.old, "old")
             /\ Named(s, "old") = {}
    <3>1. /\ UniqueNames' /\ SameApps /\ Elsewhere(s)
          /\ Named(s, "live")' = {} /\ Named(s, "old")' = {q.old}
      BY <1>1, <1>2, <2>2, <2>3, AfterRenamed DEF Names
    <3>2. Updating(req[r])'
      BY <1>3, <2>1, <2>3, <3>1 DEF Updating, PcsUpdate, Went, Live, Aside
    <3>3. Quiet' => Place(req[r])'
      BY <1>2, <2>1, <2>3, Counted DEF Place, Went, Targeted, PcsUpdate
    <3>4. MayFollow(req[r].pc, "uCreate")
      BY <2>1, UpdateOrder
    <3>5. QED
      BY <2>1, <2>2, <2>3, <3>1, <3>2, <3>3, <3>4, UpdatePcs, GoesWell
  <2>4. CASE Left(r) /\ ctr' = ctr
    <3>1. UniqueNames' /\ SameApps /\ \A x, m : Named(x, m)' = Named(x, m)
      BY <1>2, <2>4, SameNames
    <3>2. Quiet' => \A x \in Services : Agrees(x)'
      BY <1>2, <2>1, <2>4, <3>1, Counted, AgreesStill DEF Untouched
    <3>3. Live(req[r])' = Live(req[r])
      BY <2>4, <3>1 DEF Live, Left
    <3>4. QED
      BY <2>1, <2>4, <3>1, <3>2, <3>3, LeavesItWell
  <2>5. QED
    BY <2>1, <2>3, <2>4
<1>11. CASE UpdateCreate(r)
  <2>1. /\ q.pc = "uCreate" /\ row' = row /\ crashes' = crashes
        /\ faults' = faults \/ faults' = faults + 1
        /\ \/ /\ CreateContainer(r, s, q.target, "uStart") /\ faults' = faults
              /\ Named(s, "live") = {}
           \/ /\ Went(r, "uRollback", q.old, q.new) /\ ctr' = ctr
              /\ Named(s, "live") = {} => faults' = faults + 1
    BY <1>11, Counted, GoesOn DEF UpdateCreate, Call, At
  <2>2. s \in Services /\ q.target \in Versions /\ Named(s, "live") = {} /\ Named(s, "old") # {}
    BY <1>2, <1>3, <1>4, <2>1 DEF Updating, Live, Aside, PcsUpdate, Targeted
  <2>3. CASE CreateContainer(r, s, q.target, "uStart")
    <3>1. PICK i \in Ids :
            /\ New(r, i, "uStart") /\ Exists(i)' /\ ~Exists(i) /\ ctr'[i].svc = s
            /\ ctr'[i].image = q.target /\ ~Runs(i)'
            /\ UniqueNames' /\ Elsewhere(s)
            /\ Named(s, "live")' = {i} /\ Named(s, "old")' = Named(s, "old")
            /\ \A j : j # i => ctr'[j] = ctr[j]
      <4>1. UniqueNames /\ ctr \in Containers
        BY <1>1, <1>2
      <4>2. PICK x \in Services, v \in Versions : x = q.cur /\ v = q.target
        BY <2>2
      <4>3. CreateContainer(r, x, v, "uStart") /\ Named(x, "live") = {}
        BY <2>2, <2>3, <4>2
      <4>4. \E i \in Ids :
              /\ New(r, i, "uStart") /\ Exists(i)' /\ ~Exists(i) /\ ctr'[i].svc = x
              /\ ctr'[i].image = v /\ ~Runs(i)'
              /\ UniqueNames' /\ Elsewhere(x)
              /\ Named(x, "live")' = {i} /\ Named(x, "old")' = Named(x, "old")
              /\ \A j : j # i => ctr'[j] = ctr[j]
        BY <4>1, <4>3, AfterCreated, Z3
      <4>5. QED
        BY <4>2, <4>4
    <3>2. Went(r, "uStart", q.old, i)
      BY <3>1, GoesOn
    <3>3. Updating(req[r])'
      BY <1>3, <2>1, <2>2, <3>1, <3>2 DEF Updating, PcsUpdate, Went, Live, Aside
    <3>4. Quiet' => Place(req[r])'
      BY <1>2, <2>1, <3>1, <3>2, Counted DEF Place, Went, Targeted, PcsUpdate, Made, Live
    <3>5. MayFollow(req[r].pc, "uStart")
      BY <2>1, UpdateOrder
    <3>6. QED
      BY <2>1, <2>2, <3>1, <3>2, <3>3, <3>4, <3>5, UpdatePcs, CreatesWell
  <2>4. CASE /\ Went(r, "uRollback", q.old, q.new) /\ ctr' = ctr
             /\ Named(s, "live") = {} => faults' = faults + 1
    <3>1. UniqueNames' /\ SameApps /\ Elsewhere(s) /\ \A x, m : Named(x, m)' = Named(x, m)
      BY <1>2, <2>4, SameNames
    <3>2. faults' = faults + 1
      BY <2>2, <2>4
    <3>3. Updating(req[r])'
      BY <1>1, <1>3, <2>1, <2>2, <2>4, <3>1, <3>2 DEF Updating, PcsUpdate, Went, Live, Aside
    <3>4. ~Quiet'
      BY <1>1, <2>2, <3>2 DEF Quiet
    <3>5. MayFollow(req[r].pc, "uRollback")
      BY <2>1, UpdateOrder
    <3>6. QED
      BY <2>1, <2>4, <3>1, <3>3, <3>4, <3>5, UpdatePcs, GoesWell
  <2>5. QED
    BY <2>1, <2>3, <2>4
<1>12. CASE UpdateStart(r)
  <2>1. /\ q.pc = "uStart" /\ row' = row /\ crashes' = crashes
        /\ \/ /\ Went(r, "uHealth", q.old, q.new) /\ ctr' = Running(q.new, TRUE)
              /\ faults' = faults
           \/ /\ Went(r, "uDiscard", q.old, q.new) /\ ctr' = ctr
              /\ faults' = faults + 1 \/ (faults' = faults /\ (~Exists(q.new) \/ Runs(q.new)))
    BY <1>12, Counted, GoesOn DEF UpdateStart, Call, At
  <2>2. s \in Services /\ q.new \in Named(s, "live") /\ Named(s, "old") # {} /\ ~Runs(q.new)
    BY <1>2, <1>3, <2>1 DEF Updating, Live, Aside, PcsUpdate
  <2>3. CASE /\ Went(r, "uHealth", q.old, q.new) /\ ctr' = Running(q.new, TRUE)
             /\ faults' = faults
    <3>1. /\ UniqueNames' /\ SameApps /\ Elsewhere(s) /\ \A x, m : Named(x, m)' = Named(x, m)
          /\ Runs(q.new)' /\ \A j \in Ids : ctr'[j].image = ctr[j].image
      BY <1>1, <1>2, <2>2, <2>3, AfterRunning, Members
    <3>2. Updating(req[r])'
      BY <1>3, <2>1, <2>2, <2>3, <3>1 DEF Updating, PcsUpdate, Went, Live, Aside
    <3>3. Quiet' => Place(req[r])'
      <4>1. \A j \in Named(s, "live") : ctr'[j].image = ctr[j].image
        BY <3>1, Members
      <4>2. ASSUME Quiet' PROVE Made(req[r], req[r].target)'
        <5>1. \A j \in Named(s, "live") : ctr[j].image = q.target
          BY <1>2, <2>1, <2>3, <4>2, Counted DEF Place, Made, Live
        <5>2. Live(req[r])' = Named(s, "live") /\ n.target = q.target
          BY <2>3, <3>1 DEF Live, Went
        <5>3. QED
          BY <4>1, <5>1, <5>2 DEF Made
      <4>3. QED
        BY <1>2, <2>1, <2>3, <4>2, Counted DEF Place, Went, Targeted, PcsUpdate
    <3>4. MayFollow(req[r].pc, "uHealth")
      BY <2>1, UpdateOrder
    <3>5. QED
      BY <2>1, <2>3, <3>1, <3>2, <3>3, <3>4, UpdatePcs, GoesWell
  <2>4. CASE /\ Went(r, "uDiscard", q.old, q.new) /\ ctr' = ctr
             /\ faults' = faults + 1 \/ (faults' = faults /\ (~Exists(q.new) \/ Runs(q.new)))
    <3>1. UniqueNames' /\ SameApps /\ Elsewhere(s) /\ \A x, m : Named(x, m)' = Named(x, m)
      BY <1>2, <2>4, SameNames
    <3>2. faults' = faults + 1
      BY <2>2, <2>4, Members
    <3>3. Updating(req[r])'
      BY <1>1, <1>3, <2>1, <2>2, <2>4, <3>1, <3>2 DEF Updating, PcsUpdate, Went, Live, Aside
    <3>4. ~Quiet'
      BY <1>1, <3>2 DEF Quiet
    <3>5. MayFollow(req[r].pc, "uDiscard")
      BY <2>1, UpdateOrder
    <3>6. QED
      BY <2>1, <2>4, <3>1, <3>2, <3>3, <3>4, <3>5, UpdatePcs, GoesWell
  <2>5. QED
    BY <2>1, <2>3, <2>4
<1>13. CASE UpdateHealth(r)
  <2>1. /\ q.pc = "uHealth" /\ row' = row /\ crashes' = crashes /\ ctr' = ctr
        /\ \/ Went(r, "uDropOld", q.old, NoId) /\ faults' = faults /\ Runs(q.new)
           \/ Went(r, "uDiscard", q.old, q.new) /\ faults' = faults /\ ~Runs(q.new)
           \/ /\ Dropped(r, "uFinally", q.up, FALSE)
              /\ faults' = faults + 1 \/ (faults' = faults /\ ~Exists(q.new))
    BY <1>13, Counted, GoesOn, DropsAll DEF UpdateHealth, Call, At
  <2>2. /\ s \in Services /\ q.new \in Named(s, "live") /\ Named(s, "old") # {}
        /\ Runs(q.new) \/ faults >= 1
    BY <1>2, <1>3, <2>1 DEF Updating, Live, Aside, PcsUpdate
  <2>3. /\ UniqueNames' /\ SameApps /\ Elsewhere(s) /\ \A x, m : Named(x, m)' = Named(x, m)
        /\ \A i : Runs(i)' <=> Runs(i)
    BY <1>2, <2>1, SameNames
  <2>4. CASE Went(r, "uDropOld", q.old, NoId) /\ faults' = faults /\ Runs(q.new)
    <3>1. Updating(req[r])'
      BY <1>3, <2>1, <2>2, <2>3, <2>4 DEF Updating, PcsUpdate, Went, Live, Aside
    <3>2. Quiet' => Place(req[r])'
      BY <1>2, <2>1, <2>3, <2>4, Counted DEF Place, Went, Targeted, PcsUpdate, Made, Live
    <3>3. MayFollow(req[r].pc, "uDropOld")
      BY <2>1, UpdateOrder
    <3>4. QED
      BY <2>1, <2>3, <2>4, <3>1, <3>2, <3>3, UpdatePcs, GoesWell
  <2>5. CASE Went(r, "uDiscard", q.old, q.new) /\ faults' = faults /\ ~Runs(q.new)
    <3>1. Updating(req[r])'
      BY <1>3, <2>1, <2>2, <2>3, <2>5 DEF Updating, PcsUpdate, Went, Live, Aside
    <3>2. ~Quiet'
      BY <1>1, <2>2, <2>5 DEF Quiet
    <3>3. MayFollow(req[r].pc, "uDiscard")
      BY <2>1, UpdateOrder
    <3>4. QED
      BY <2>1, <2>3, <2>5, <3>1, <3>2, <3>3, UpdatePcs, GoesWell
  <2>6. CASE /\ Dropped(r, "uFinally", q.up, FALSE)
             /\ faults' = faults + 1 \/ (faults' = faults /\ ~Exists(q.new))
    <3>1. faults' = faults + 1
      BY <2>2, <2>6, Members
    <3>2. faults' >= 1 /\ ~Quiet' /\ (faults' <= 1 => Runs(q.new)')
      BY <1>1, <2>2, <2>3, <3>1 DEF Quiet
    <3>3. q.new \in Live(req[r])'
      BY <2>2, <2>3, <2>6 DEF Live, Dropped
    <3>4. q.up \in BOOLEAN
      BY <1>1 DEF Request
    <3>5. QED
      BY <2>1, <2>3, <2>6, <3>2, <3>3, <3>4, FinallyWell DEF PcsUpdate
  <2>7. QED
    BY <2>1, <2>4, <2>5, <2>6
<1>14. CASE UpdateDropOld(r)
  <2>0. PICK i : i = Find(s, "old")
    OBVIOUS
  <2>1. /\ q.pc = "uDropOld" /\ row' = row /\ crashes' = crashes
        /\ faults' = faults \/ faults' = faults + 1
        /\ Went(r, "uRecord", q.old, q.new)
        /\ \/ i # NoId /\ ctr' = Removed(i)
           \/ ctr' = ctr /\ (i = NoId \/ faults' = faults + 1)
    BY <1>14, <2>0, Counted, GoesOn DEF UpdateDropOld, Call, At
  <2>2. s \in Services /\ Named(s, "live") # {}
    BY <1>2, <1>3, <2>1 DEF Updating, Live, PcsUpdate
  <2>3. /\ i # NoId => i \in Named(s, "old")
        /\ i = NoId => Named(s, "old") = {}
    BY <1>2, <2>0, Found
  <2>4. /\ UniqueNames' /\ SameApps /\ Elsewhere(s) /\ Named(s, "live")' = Named(s, "live")
        /\ \/ Named(s, "old")' = {}
           \/ faults' = faults + 1
        /\ \A j \in Named(s, "live") : ctr'[j] = ctr[j]
    <3>1. CASE i # NoId /\ ctr' = Removed(i)
      <4>1. \A j \in Named(s, "live") : j # i
        BY <2>3, <3>1, Members
      <4>2. QED
        BY <1>1, <1>2, <2>3, <3>1, <4>1, AfterRemoved DEF Names
    <3>2. CASE ctr' = ctr /\ (i = NoId \/ faults' = faults + 1)
      BY <1>2, <2>3, <3>2, SameNames
    <3>3. QED
      BY <2>1, <3>1, <3>2
  <2>5. Updating(req[r])'
    BY <1>3, <2>1, <2>2, <2>4 DEF Updating, PcsUpdate, Went, Live, Aside
  <2>6. Quiet' => Place(req[r])'
    BY <1>1, <1>2, <2>1, <2>2, <2>4, Counted
       DEF Place, Went, Targeted, PcsUpdate, Made, Live, Aside, Quiet
  <2>7. MayFollow(req[r].pc, "uRecord")
    BY <2>1, UpdateOrder
  <2>8. QED
    BY <2>1, <2>4, <2>5, <2>6, <2>7, UpdatePcs, GoesWell
<1>15. CASE UpdateRecord(r)
  <2> DEFINE now == [q.snap[s] EXCEPT !.image = q.target]
  <2>1. /\ q.pc = "uRecord" /\ ctr' = ctr /\ faults' = faults /\ crashes' = crashes
        /\ Save(r, s, now) /\ Dropped(r, "uFinally", q.up, TRUE)
    BY <1>15, DropsAll DEF UpdateRecord, Query, At
  <2>2. s \in Services /\ row[s] \in Row /\ q.snap[s] = row[s] /\ q.target \in Versions
          /\ q.pc \in HoldsRow
    BY <1>3, <1>4, <2>1 DEF PcsUpdate, Targeted, HoldsRow
  <2>3. now \in Row /\ now.installed = row[s].installed /\ now.image = q.target
    BY <2>2 DEF Row
  <2>4. row' = [row EXCEPT ![s] = now] /\ row'[s] = now
    <3> HIDE DEF now
    <3> QED
      BY <1>2, <2>1, <2>2, <2>3, SavesIt
  <2>5. UniqueNames' /\ \A x, m : Named(x, m)' = Named(x, m)
    BY <1>2, <2>1, SameNames
  <2> HIDE DEF now
  <2>6. ASSUME Quiet', NEW x \in Services PROVE Agrees(x)'
    <3>1. Quiet
      BY <2>1, <2>6 DEF Quiet
    <3>2. CASE x # s
      <4>1. Agrees(x)
        BY <1>2, <1>3, <2>1, <3>1, <3>2 DEF OthersAgree, PcsUpdate
      <4>2. row'[x] = row[x]
        BY <2>4, <3>2, <1>1 DEF Rows
      <4>3. QED
        BY <2>1, <2>5, <4>1, <4>2, AgreesStill
    <3>3. CASE x = s
      <4>1. /\ Named(s, "old") = {} /\ Named(s, "live") # {}
            /\ \A i \in Named(s, "live") : ctr[i].image = q.target
            /\ row[s].installed
        BY <1>2, <2>1, <3>1 DEF Place, Live, Aside, Made, Targeted, PcsUpdate
      <4>2. row'[s] # NoRow
        BY <2>3, <2>4, ValuesAssumption
      <4>3. QED
        BY <2>1, <2>3, <2>4, <2>5, <3>3, <4>1, <4>2 DEF Agrees
    <3>4. QED
      BY <3>2, <3>3
  <2>7. q.up \in BOOLEAN
    BY <1>1 DEF Request
  <2>8. QED
    BY <2>1, <2>5, <2>6, <2>7, FinallyWell DEF PcsUpdate
<1>16. CASE UpdateDiscard(r)
  <2>1. /\ q.pc = "uDiscard" /\ row' = row /\ crashes' = crashes
        /\ Went(r, "uRollback", q.old, NoId)
        /\ \/ ctr' = Removed(q.new) /\ faults' = faults
           \/ ctr' = ctr /\ (faults' = faults + 1 \/ (faults' = faults /\ ~Exists(q.new)))
    BY <1>16, Counted, GoesOn DEF UpdateDiscard, Call, At
  <2>2. s \in Services /\ q.new \in Named(s, "live") /\ Named(s, "old") # {} /\ faults >= 1
    BY <1>2, <1>3, <2>1 DEF Updating, Live, Aside, PcsUpdate
  <2>3. /\ UniqueNames' /\ SameApps /\ Elsewhere(s) /\ Named(s, "old")' = Named(s, "old")
        /\ Named(s, "live")' = {} \/ faults' = faults + 1
    <3>1. CASE ctr' = Removed(q.new)
      BY <1>1, <1>2, <2>2, <3>1, AfterRemoved DEF Names
    <3>2. CASE ctr' = ctr /\ (faults' = faults + 1 \/ (faults' = faults /\ ~Exists(q.new)))
      BY <1>2, <2>2, <3>2, SameNames, Members
    <3>3. QED
      BY <2>1, <3>1, <3>2
  <2>4. Updating(req[r])'
    BY <1>1, <1>3, <2>1, <2>2, <2>3 DEF Updating, PcsUpdate, Went, Live, Aside
  <2>5. ~Quiet' /\ (faults' = faults \/ faults' = faults + 1)
    BY <1>1, <2>1, <2>2 DEF Quiet
  <2>6. MayFollow(req[r].pc, "uRollback")
    BY <2>1, UpdateOrder
  <2>7. QED
    BY <2>1, <2>3, <2>4, <2>5, <2>6, UpdatePcs, GoesWell
<1>17. CASE UpdateRollback(r)
  <2>0. PICK i : i = Find(s, "old")
    OBVIOUS
  <2>1. /\ q.pc = "uRollback" /\ row' = row /\ crashes' = crashes
        /\ \/ /\ i # NoId /\ Named(s, "live") = {} /\ ctr' = Renamed(i, "live")
              /\ faults' = faults /\ Went(r, "uRestart", i, q.new)
           \/ /\ i # NoId /\ ctr' = ctr /\ Went(r, "uRestart", i, q.new)
              /\ faults' = faults + 1 \/ (faults' = faults /\ Named(s, "live") # {})
           \/ /\ ctr' = ctr /\ Dropped(r, "uFinally", q.up, FALSE)
              /\ faults' = faults + 1 \/ (faults' = faults /\ i = NoId)
    BY <1>17, <2>0, Counted, GoesOn, DropsAll DEF UpdateRollback, Call, At, Threw
  <2>2. /\ s \in Services /\ faults >= 1
        /\ faults <= 1 => Named(s, "live") = {} /\ Named(s, "old") # {}
    BY <1>2, <1>3, <2>1 DEF Updating, Live, Aside, PcsUpdate
  <2>3. /\ i # NoId => i \in Named(s, "old")
        /\ i = NoId => Named(s, "old") = {}
    BY <1>2, <2>0, Found
  <2>4. ~Quiet' /\ (faults' = faults \/ faults' = faults + 1)
    <3>1. faults' = faults \/ faults' = faults + 1
      BY <2>1
    <3>2. QED
      BY <1>1, <2>2, <3>1 DEF Quiet
  <2>5. CASE i # NoId /\ Went(r, "uRestart", i, q.new)
    <3>1. /\ UniqueNames' /\ SameApps /\ Elsewhere(s)
          /\ faults' <= 1 => i \in Named(s, "live") \/ Named(s, "live")' = {i}
      <4>1. CASE ctr' = Renamed(i, "live") /\ Named(s, "live") = {}
        BY <1>1, <1>2, <2>3, <2>5, <4>1, AfterRenamed DEF Names
      <4>2. CASE ctr' = ctr /\ (faults' = faults + 1 \/ (faults' = faults /\ Named(s, "live") # {}))
        BY <1>1, <1>2, <2>2, <4>2, SameNames
      <4>3. QED
        BY <2>1, <2>5, <4>1, <4>2, <2>2, <1>1 DEF Went, Dropped
    <3>2. faults' <= 1 => i \in Live(req[r])'
      <4>1. faults' <= 1 => faults' = faults /\ faults <= 1 /\ Named(s, "live") = {}
        BY <1>1, <2>2, <2>4
      <4>2. QED
        BY <2>5, <3>1, <4>1 DEF Live, Went
    <3>3. Updating(req[r])'
      BY <1>1, <1>3, <2>1, <2>2, <2>4, <2>5, <3>2 DEF Updating, PcsUpdate, Went
    <3>4. MayFollow(req[r].pc, "uRestart")
      BY <2>1, UpdateOrder
    <3>5. i \in Aside(req[r])
      BY <2>3, <2>5 DEF Aside
    <3>6. QED
      BY <2>1, <2>4, <2>5, <3>1, <3>3, <3>4, <3>5, UpdatePcs, GoesWell
  <2>6. CASE /\ ctr' = ctr /\ Dropped(r, "uFinally", q.up, FALSE)
             /\ faults' = faults + 1 \/ (faults' = faults /\ i = NoId)
    <3>1. ~(faults' <= 1) /\ faults' >= 1
      BY <1>1, <2>2, <2>3, <2>6
    <3>2. UniqueNames' /\ q.up \in BOOLEAN
      BY <1>1, <1>2, <2>6, SameNames DEF Request
    <3>3. QED
      BY <2>1, <2>4, <2>6, <3>1, <3>2, FinallyWell DEF PcsUpdate
  <2>7. QED
    BY <2>1, <2>5, <2>6
<1>18. CASE UpdateRestart(r)
  <2>1. /\ q.pc = "uRestart" /\ row' = row /\ crashes' = crashes
        /\ Dropped(r, "uFinally", q.up, FALSE)
        /\ \/ Exists(q.old) /\ ctr' = Running(q.old, TRUE) /\ faults' = faults
           \/ ctr' = ctr /\ (faults' = faults + 1 \/ (faults' = faults /\ ~Exists(q.old)))
    BY <1>18, Counted, GoesOn, DropsAll DEF UpdateRestart, Call, At
  <2>2. s \in Services /\ faults >= 1 /\ (faults <= 1 => q.old \in Named(s, "live"))
    BY <1>2, <1>3, <2>1 DEF Updating, Live, PcsUpdate
  <2>3. ~Quiet' /\ faults' >= 1
    <3>1. faults' = faults \/ faults' = faults + 1
      BY <2>1
    <3>2. QED
      BY <1>1, <2>2, <3>1 DEF Quiet
  <2>4. q.up \in BOOLEAN /\ (Exists(q.old) => q.old \in Ids)
    BY <1>1 DEF Request, Exists
  <2>5. CASE Exists(q.old) /\ ctr' = Running(q.old, TRUE) /\ faults' = faults
    <3>1. UniqueNames' /\ Runs(q.old)' /\ \A x, m : Named(x, m)' = Named(x, m)
      BY <1>1, <1>2, <2>4, <2>5, AfterRunning
    <3>2. faults' <= 1 => q.old \in Live(req[r])'
      BY <2>1, <2>2, <2>5, <3>1 DEF Live, Dropped
    <3>3. QED
      BY <2>1, <2>3, <2>4, <3>1, <3>2, FinallyWell DEF PcsUpdate
  <2>6. CASE ctr' = ctr /\ (faults' = faults + 1 \/ (faults' = faults /\ ~Exists(q.old)))
    <3>1. ~(faults' <= 1)
      BY <1>1, <2>2, <2>6, Members
    <3>2. UniqueNames'
      BY <1>2, <2>6, SameNames
    <3>3. QED
      BY <2>1, <2>3, <2>4, <3>1, <3>2, FinallyWell DEF PcsUpdate
  <2>7. QED
    BY <2>1, <2>5, <2>6
<1>19. CASE UpdateFinally(r)
  <2>1. /\ q.pc = "uFinally" /\ ctr' = ctr /\ faults' = faults /\ crashes' = crashes
        /\ Ended(r)
        /\ row' = [row EXCEPT ![s] = IF @ # NoRow /\ @.status = "installing"
                                      THEN [@ EXCEPT !.status = "idle"] ELSE @]
    BY <1>19, GoesOn DEF UpdateFinally, Query, At
  <2>2. s \in Services
    BY <1>3, <2>1 DEF PcsUpdate
  <2>3. /\ \A x \in Services : x # s => row'[x] = row[x]
        /\ row'[s] = row[s] \/ (row[s] \in Row /\ row'[s] = [row[s] EXCEPT !.status = "idle"])
    BY <1>1, <2>1, <2>2 DEF Rows
  <2>4. row'[s] = row[s] \/ (/\ row[s] # NoRow /\ row'[s] # NoRow
                              /\ row'[s].installed = row[s].installed
                              /\ row'[s].image = row[s].image)
    <3>1. CASE row[s] \in Row /\ row'[s] = [row[s] EXCEPT !.status = "idle"]
      <4>1. row'[s] \in Row
        BY <3>1 DEF Row, Status
      <4>2. QED
        BY <3>1, <4>1, ValuesAssumption DEF Row
    <3>2. QED
      BY <2>3, <3>1
  <2>5. UniqueNames' /\ \A x, m : Named(x, m)' = Named(x, m)
    BY <1>2, <2>1, SameNames
  <2>6. Quiet' => \A x \in Services : Agrees(x)'
    BY <1>2, <2>1, <2>3, <2>4, <2>5, AgreesStill DEF Quiet, Untouched
  <2>7. QED
    BY <2>1, <2>5, <2>6, EndsWell
<1>20. QED
  BY <1>5, <1>6, <1>7, <1>8, <1>9, <1>10, <1>11, <1>12, <1>13, <1>14, <1>15, <1>16, <1>17,
     <1>18, <1>19 DEF UpdateStep

-----------------------------------------------------------------------------
(* createContainerPreflight, _createContainer and forceReinstall.          *)

(* A request that reads or replaces a row it holds.                        *)
LEMMA HoldsIt ==
  ASSUME IInv, NEW r \in Requests, NEW s \in Services, NEW x, NEW pc, Snap(r, s, x, pc)
  PROVE  /\ req'[r].op = req[r].op /\ req'[r].goal = req[r].goal
         /\ req'[r].cur = req[r].cur /\ req'[r].target = req[r].target
         /\ req'[r].old = req[r].old /\ req'[r].new = req[r].new
         /\ req'[r].pc = pc /\ req'[r].snap[s] = x
         /\ \A t \in Services : t # s => req'[r].snap[t] = req[r].snap[t]
<1>1. req[r] \in Request /\ req[r].snap \in [Services -> Row \cup {NoRow}]
  BY ReqType DEF Request
<1>2. req'[r] = Holding(req[r], s, x, pc)
  BY DEF Snap, Becomes, IInv, TypeOK
<1>3. QED
  BY <1>1, <1>2 DEF Holding, Request

(* After a failure only the shape of the request matters.                  *)
LEMMA FailsWell ==
  ASSUME NEW r \in Requests, Well(r), ~Quiet', UniqueNames',
         req'[r].op = req[r].op, req[r].pc \notin PcsUpdate,
         req'[r].pc \in {"cleanRow", "cleanContainer", "cDiscard"},
         req'[r].old = NoId, req'[r].new = NoId
  PROVE  Well(r)'
<1>1. req'[r].pc \notin PcsUpdate \cup HoldsRow \cup Installs \cup {"syncList", "syncSave"}
  BY DEF PcsUpdate, HoldsRow, Installs, Targeted, PcsReinstall, PcsRecreate
<1>2. QED
  BY <1>1, BelongsBare, UpToDateBare, NotUpdating DEF Well

(* The same for a call that empties a live name.                           *)
LEMMA AgreesMade ==
  ASSUME NEW s, Named(s, "old")' = {}, Named(s, "live")' # {}, row'[s] # NoRow, row'[s].installed,
         \A i \in Named(s, "live")' : ctr'[i].image = row'[s].image
  PROVE  Agrees(s)'
  BY DEF Agrees

LEMMA AgreesGone ==
  ASSUME NEW s, Named(s, "old")' = {}, Named(s, "live")' = {}, row'[s] = NoRow \/ ~row'[s].installed
  PROVE  Agrees(s)'
  BY DEF Agrees

LEMMA CreateWell ==
  ASSUME IInv, NEW r \in Requests, NEW q, q = req[r], Well(r), CreateStep(r)
  PROVE  Well(r)'
<1> DEFINE s == q.cur
           n == req'[r]
<1>1. /\ q \in Held /\ q \in Request /\ ctr \in Containers /\ row \in Rows
      /\ faults \in Nat /\ crashes \in Nat
  BY ReqType, Typed, Counted
<1>2. /\ UniqueNames /\ Belongs(q) /\ UpToDate(q) /\ Updating(q)
      /\ Quiet => Place(q) /\ OthersAgree(q) /\ q.pc \notin Undone
      /\ Quiet /\ q.pc \in Untouched => \A x \in Services : Agrees(x)
  BY DEF Well, Quietly
<1>3. /\ q.pc \in PcsCreate => s \in Services /\ q.op # "update" /\ q.pc \notin PcsUpdate
      /\ q.pc \in PcsCreate => q.goal \in Services /\ s \in {q.goal, DependsOn[q.goal]}
      /\ q.pc \in {"check", "mark"} => q.goal = s
      /\ q.pc \in PcsCreate \ {"start"} => q.old = NoId /\ q.new = NoId
      /\ q.pc = "start" => q.old = NoId
  BY <1>1, <1>2 DEF Held, Serves, Sweeping, Nested, PcsUpdate, PcsCreate, Updating, Belongs, Handless
<1>4. q.pc \in Installs \cup {"mark"} => row[s] \in Row /\ q.snap[s] = row[s]
  BY <1>1, <1>2 DEF Held, HasRow, HoldsRow, UpToDate, Sweeping, Installs
<1>5. CASE Check(r)
  <2>1. /\ q.pc = "check" /\ row' = row /\ ctr' = ctr /\ faults' = faults /\ crashes' = crashes
        /\ \/ Snap(r, s, row[s], "mark") /\ ~row[s].installed
           \/ Ended(r)
    BY <1>5, GoesOn DEF Check, Query, At, Installable
  <2>2. s \in Services /\ q.op # "update" /\ q.old = NoId /\ q.new = NoId /\ q.goal = s
    BY <1>3, <2>1 DEF PcsCreate
  <2>3. /\ UniqueNames' /\ SameApps /\ Elsewhere(s) /\ \A x, m : Named(x, m)' = Named(x, m)
        /\ \A i : Runs(i)' <=> Runs(i)
    BY <1>2, <2>1, SameNames
  <2>4. Quiet' => Quiet /\ \A x \in Services : Agrees(x) /\ Agrees(x)'
    BY <1>2, <2>1, <2>3, AgreesStill DEF Untouched, Quiet
  <2>5. CASE Snap(r, s, row[s], "mark") /\ ~row[s].installed
    <3>1. /\ n.op = q.op /\ n.goal = q.goal /\ n.cur = s /\ n.old = NoId /\ n.new = NoId
          /\ n.pc = "mark" /\ n.snap[s] = row[s]
      BY <2>2, <2>5, HoldsIt
    <3>2. Belongs(req[r])' /\ Updating(req[r])'
      BY <1>2, <2>1, <3>1, BelongsBare, NotUpdating DEF PcsUpdate
    <3>3. UpToDate(req[r])'
      BY <2>1, <3>1 DEF UpToDate, Installs
    <3>4. Quiet' => Quietly(req[r])'
      BY <2>1, <2>2, <2>4, <2>5, <3>1
         DEF Quietly, Undone, OthersAgree, Place, Targeted, PcsUpdate
    <3>5. QED
      BY <2>3, <3>2, <3>3, <3>4 DEF Well
  <2>6. CASE Ended(r)
    BY <2>3, <2>4, <2>6, EndsWell
  <2>7. QED
    BY <2>1, <2>5, <2>6
<1>6. CASE Mark(r)
  <2>0. "depends" \in Pcs
    BY DEF Pcs, PcsCreate
  <2>1. /\ q.pc = "mark" /\ ctr' = ctr /\ faults' = faults /\ crashes' = crashes
        /\ \A x \in Services \ {s} : row'[x] = row[x]
        /\ n.pc = "depends" /\ n.op = q.op /\ n.goal = q.goal /\ n.cur = s
        /\ n.old = q.old /\ n.new = q.new /\ n.snap[s] = row'[s]
    BY <1>2, <1>6, <2>0, MarksIt DEF Mark
  <2>2. s \in Services /\ q.op # "update" /\ q.old = NoId /\ q.new = NoId /\ q.goal = s
    BY <1>3, <2>1 DEF PcsCreate
  <2>3. /\ UniqueNames' /\ SameApps /\ Elsewhere(s) /\ \A x, m : Named(x, m)' = Named(x, m)
    BY <1>2, <2>1, SameNames
  <2>4. Belongs(req[r])' /\ Updating(req[r])'
    BY <1>2, <2>1, <2>2, BelongsBare, NotUpdating DEF PcsUpdate
  <2>5. UpToDate(req[r])'
    BY <2>1, <2>2 DEF UpToDate
  <2>6. ASSUME Quiet' PROVE Quietly(req[r])'
    <3>1. Quiet
      BY <2>1, <2>6 DEF Quiet
    <3>2. Named(s, "live") = {} /\ Named(s, "old") = {}
      BY <1>2, <2>1, <2>2, <3>1 DEF Untouched, Agrees, Place
    <3>3. OthersAgree(req[r])'
      BY <1>2, <2>1, <2>3, <3>1, OthersAgreeStill
    <3>4. Place(req[r])'
      BY <2>1, <2>3, <3>2 DEF Place, Targeted, PcsUpdate, Live, Aside
    <3>5. QED
      BY <2>1, <3>3, <3>4 DEF Quietly, Undone, Untouched, Sweeping
  <2>7. QED
    BY <2>3, <2>4, <2>5, <2>6 DEF Well
<1>7. CASE Depends(r)
  <2>0. PICK d : d = DependsOn[s]
    OBVIOUS
  <2>1. /\ q.pc = "depends" /\ row' = row /\ ctr' = ctr /\ faults' = faults /\ crashes' = crashes
        /\ \/ /\ d # NoService /\ row[d] # NoRow /\ ~row[d].installed
              /\ Becomes(r, [Holding(q, d, row[d], "depends") EXCEPT !.cur = d])
           \/ Went(r, "pull", q.old, q.new)
    BY <1>7, <2>0, GoesOn DEF Depends, Query, At
  <2>2. s \in Services /\ q.op # "update" /\ q.old = NoId /\ q.new = NoId /\ q.goal \in Services
    BY <1>3, <2>1 DEF PcsCreate
  <2>3. /\ UniqueNames' /\ SameApps /\ Elsewhere(s) /\ \A x, m : Named(x, m)' = Named(x, m)
        /\ \A i : Runs(i)' <=> Runs(i)
    BY <1>2, <2>1, SameNames
  <2>4. CASE /\ d # NoService /\ row[d] # NoRow /\ ~row[d].installed
             /\ Becomes(r, [Holding(q, d, row[d], "depends") EXCEPT !.cur = d])
    <3>1. d \in Services /\ s = q.goal /\ d # s
      BY <1>3, <2>0, <2>1, <2>2, <2>4, ServicesAssumption DEF PcsCreate
    <3>2. /\ n.op = q.op /\ n.goal = q.goal /\ n.cur = d /\ n.old = NoId /\ n.new = NoId
          /\ n.pc = "depends" /\ n.snap[d] = row[d] /\ n.snap[s] = q.snap[s]
      <4>1. n = [Holding(q, d, row[d], "depends") EXCEPT !.cur = d]
        BY <2>4 DEF Becomes, IInv, TypeOK
      <4>2. row[d] \in Row /\ "depends" \in Pcs
        BY <1>1, <2>4, <3>1 DEF Rows, Pcs, PcsCreate
      <4>3. PICK h \in Request : h = Holding(q, d, row[d], "depends") /\ h.pc = "depends"
              /\ h.goal = q.goal /\ h.snap[d] = row[d] /\ h.snap[s] = q.snap[s]
        BY <1>1, <2>2, <3>1, <4>2, SnapType
      <4>4. h.op = q.op /\ h.old = NoId /\ h.new = NoId
        BY <1>1, <2>2, <4>3 DEF Holding, Request
      <4>5. QED
        BY <4>1, <4>3, <4>4 DEF Request
    <3>3. Belongs(req[r])' /\ Updating(req[r])'
      BY <1>2, <2>1, <3>2, BelongsBare, NotUpdating DEF PcsUpdate
    <3>4. UpToDate(req[r])'
      BY <1>4, <2>1, <3>1, <3>2 DEF UpToDate, Installs
    <3>5. ASSUME Quiet' PROVE Quietly(req[r])'
      <4>1. Quiet
        BY <2>1, <3>5 DEF Quiet
      <4>2. Named(s, "live") = {} /\ Named(s, "old") = {}
        BY <1>2, <2>1, <4>1 DEF Place, Live, Aside
      <4>3. \A x \in Services : x # s => Agrees(x)
        BY <1>2, <3>1, <4>1 DEF OthersAgree
      <4>4. \A x \in Services : x # s => Agrees(x)'
        BY <2>1, <2>3, <4>3, AgreesStill
      <4>5. NoCopy(s)' /\ Named(d, "live")' = {} /\ Named(d, "old")' = {}
        BY <2>3, <2>4, <3>1, <4>2, <4>3 DEF NoCopy, Agrees
      <4>6. OthersAgree(req[r])'
        BY <3>1, <3>2, <4>4, <4>5 DEF OthersAgree
      <4>7. Place(req[r])'
        BY <3>2, <4>5 DEF Place, Targeted, PcsUpdate, Live, Aside
      <4>8. QED
        BY <3>2, <4>6, <4>7 DEF Quietly, Undone, Untouched, Sweeping
    <3>6. QED
      BY <2>3, <3>3, <3>4, <3>5 DEF Well
  <2>5. CASE Went(r, "pull", q.old, q.new)
    <3>1. Updating(req[r])'
      BY <1>2, <2>1, <2>5, NotUpdating DEF PcsUpdate, Went
    <3>2. Quiet' => Place(req[r])'
      BY <1>2, <2>1, <2>3, <2>5 DEF Place, Went, Targeted, PcsUpdate, Live, Aside, Quiet
    <3>3. MayFollow(req[r].pc, "pull")
      BY <2>1, CreateOrder
    <3>4. QED
      BY <2>1, <2>2, <2>3, <2>5, <3>1, <3>2, <3>3, GoesWell DEF Undone, Untouched, Sweeping
  <2>6. QED
    BY <2>1, <2>4, <2>5
<1>8. CASE Pull(r)
  <2>1. /\ q.pc = "pull" /\ row' = row /\ crashes' = crashes /\ ctr' = ctr
        /\ \/ Went(r, "create", q.old, q.new) /\ faults' = faults
           \/ Dropped(r, "cleanRow", FALSE, FALSE) /\ faults' = faults + 1
    BY <1>8, Counted, GoesOn, DropsAll DEF Pull, Call, At
  <2>2. s \in Services /\ q.op # "update" /\ q.old = NoId /\ q.new = NoId
    BY <1>3, <2>1 DEF PcsCreate
  <2>3. UniqueNames' /\ SameApps /\ Elsewhere(s) /\ \A x, m : Named(x, m)' = Named(x, m)
    BY <1>2, <2>1, SameNames
  <2>4. CASE Went(r, "create", q.old, q.new) /\ faults' = faults
    <3>1. Updating(req[r])'
      BY <1>2, <2>1, <2>4, NotUpdating DEF PcsUpdate, Went
    <3>2. Quiet' => Place(req[r])'
      BY <1>2, <2>1, <2>3, <2>4 DEF Place, Went, Targeted, PcsUpdate, Live, Aside, Quiet
    <3>3. MayFollow(req[r].pc, "create")
      BY <2>1, CreateOrder
    <3>4. QED
      BY <2>1, <2>2, <2>3, <2>4, <3>1, <3>2, <3>3, GoesWell DEF Undone, Untouched, Sweeping
  <2>5. CASE Dropped(r, "cleanRow", FALSE, FALSE) /\ faults' = faults + 1
    <3>1. ~Quiet'
      BY <1>1, <2>5 DEF Quiet
    <3>2. QED
      BY <2>1, <2>3, <2>5, <3>1, FailsWell DEF Dropped, PcsUpdate
  <2>6. QED
    BY <2>1, <2>4, <2>5
<1>9. CASE Create(r)
  <2> DEFINE v == q.snap[s].image
  <2>1. /\ q.pc = "create" /\ row' = row /\ crashes' = crashes
        /\ \/ /\ CreateContainer(r, s, v, "start") /\ faults' = faults
              /\ Named(s, "live") = {}
           \/ /\ Dropped(r, "cleanRow", FALSE, FALSE) /\ ctr' = ctr
              /\ faults' = faults + 1 \/ (faults' = faults /\ Named(s, "live") # {})
    BY <1>9, Counted, DropsAll DEF Create, Call, At
  <2>2. s \in Services /\ q.op # "update" /\ q.old = NoId /\ q.new = NoId
    BY <1>3, <2>1 DEF PcsCreate
  <2>3. v \in Versions /\ v = row[s].image
    BY <1>4, <2>1 DEF Row, Installs
  <2> HIDE DEF v
  <2>4. CASE /\ CreateContainer(r, s, v, "start") /\ faults' = faults
             /\ Named(s, "live") = {}
    <3>1. PICK i \in Ids :
            /\ New(r, i, "start") /\ Exists(i)' /\ ~Exists(i) /\ ctr'[i].svc = s
            /\ ctr'[i].image = v /\ ~Runs(i)'
            /\ UniqueNames' /\ Elsewhere(s)
            /\ Named(s, "live")' = {i} /\ Named(s, "old")' = Named(s, "old")
            /\ \A j : j # i => ctr'[j] = ctr[j]
      BY <1>1, <1>2, <2>2, <2>3, <2>4, AfterCreated
    <3>2. Went(r, "start", q.old, i)
      BY <3>1, GoesOn
    <3>3. Updating(req[r])'
      BY <1>2, <2>1, <3>2, NotUpdating DEF PcsUpdate, Went
    <3>4. ASSUME Quiet' PROVE Place(req[r])'
      <4>1. Quiet /\ Aside(q) = {}
        BY <1>2, <2>1, <2>4, <3>4 DEF Place, Quiet
      <4>2. Live(req[r])' = {i} /\ Aside(req[r])' = {} /\ row'[n.cur].image = v
        BY <2>1, <2>3, <3>1, <3>2, <4>1 DEF Live, Aside, Went
      <4>3. QED
        BY <3>1, <3>2, <4>2 DEF Place, Went, Targeted, PcsUpdate, Made
    <3>5. MayFollow(req[r].pc, "start")
      BY <2>1, CreateOrder
    <3>6. QED
      BY <2>1, <2>2, <2>4, <3>1, <3>2, <3>3, <3>4, <3>5, CreatesWell
         DEF Handless, Sweeping, PcsCreate, Undone, Untouched
  <2>5. CASE /\ Dropped(r, "cleanRow", FALSE, FALSE) /\ ctr' = ctr
             /\ faults' = faults + 1 \/ (faults' = faults /\ Named(s, "live") # {})
    <3>1. ~Quiet'
      BY <1>1, <1>2, <2>1, <2>5 DEF Quiet, Place, Live
    <3>2. UniqueNames'
      BY <1>2, <2>5, SameNames
    <3>3. QED
      BY <2>1, <2>5, <3>1, <3>2, FailsWell DEF Dropped, PcsUpdate
  <2>6. QED
    BY <2>1, <2>4, <2>5
<1>10. CASE Start(r)
  <2>1. /\ q.pc = "start" /\ row' = row /\ crashes' = crashes
        /\ \/ /\ Went(r, "finish", q.old, NoId) /\ ctr' = Running(q.new, TRUE) /\ Exists(q.new)
              /\ faults' = faults
           \/ /\ Dropped(r, "cleanRow", FALSE, FALSE) /\ ctr' = ctr
              /\ faults' = faults + 1 \/ (faults' = faults /\ (~Exists(q.new) \/ Runs(q.new)))
    BY <1>10, Counted, GoesOn, DropsAll DEF Start, Call, At
  <2>2. s \in Services /\ q.op # "update" /\ q.old = NoId
    BY <1>3, <2>1 DEF PcsCreate
  <2>3. Quiet => /\ q.new \in Named(s, "live") /\ ~Runs(q.new) /\ Named(s, "old") = {}
                 /\ \A i \in Named(s, "live") : ctr[i].image = row[s].image
    BY <1>2, <2>1 DEF Place, Live, Aside, Made
  <2>4. CASE /\ Went(r, "finish", q.old, NoId) /\ ctr' = Running(q.new, TRUE) /\ Exists(q.new)
             /\ faults' = faults
    <3>0. q.new \in Ids
      BY <1>1, <2>4 DEF Request, Exists
    <3>1. /\ UniqueNames' /\ SameApps /\ Elsewhere(s) /\ \A x, m : Named(x, m)' = Named(x, m)
          /\ \A j \in Ids : ctr'[j].image = ctr[j].image
      BY <1>1, <1>2, <2>4, <3>0, AfterRunning
    <3>2. Updating(req[r])'
      BY <1>2, <2>1, <2>4, NotUpdating DEF PcsUpdate, Went
    <3>3. ASSUME Quiet' PROVE Place(req[r])'
      <4>1. Quiet
        BY <2>1, <2>4, <3>3 DEF Quiet
      <4>2. \A i \in Named(s, "live") : ctr'[i].image = row[s].image
        BY <2>3, <3>1, <4>1, Members
      <4>3. Live(req[r])' = Named(s, "live") /\ Aside(req[r])' = {} /\ row'[n.cur] = row[s]
        BY <2>1, <2>3, <2>4, <3>1, <4>1 DEF Live, Aside, Went
      <4>4. /\ \A i \in Live(req[r])' : ctr'[i].image = row'[req'[r].cur].image
            /\ Live(req[r])' # {}
        BY <2>3, <4>1, <4>2, <4>3
      <4>5. QED
        BY <2>4, <4>3, <4>4 DEF Place, Went, Targeted, PcsUpdate, Made
    <3>4. MayFollow(req[r].pc, "finish")
      BY <2>1, CreateOrder
    <3>5. QED
      BY <2>1, <2>2, <2>4, <3>1, <3>2, <3>3, <3>4, GoesWell DEF Undone, Untouched, Sweeping
  <2>5. CASE /\ Dropped(r, "cleanRow", FALSE, FALSE) /\ ctr' = ctr
             /\ faults' = faults + 1 \/ (faults' = faults /\ (~Exists(q.new) \/ Runs(q.new)))
    <3>1. ~Quiet'
      <4>1. ASSUME Quiet' PROVE FALSE
        <5>1. Quiet /\ faults' = faults
          BY <1>1, <2>1, <2>5, <4>1 DEF Quiet
        <5>2. QED
          BY <1>1, <2>3, <2>5, <5>1, Members
      <4>2. QED
        BY <4>1
    <3>2. UniqueNames'
      BY <1>2, <2>5, SameNames
    <3>3. QED
      BY <2>1, <2>5, <3>1, <3>2, FailsWell DEF Dropped, PcsUpdate
  <2>6. QED
    BY <2>1, <2>4, <2>5
<1>11. CASE Finish(r)
  <2>0. PICK g : g = q.goal
    OBVIOUS
  <2> DEFINE now == [q.snap[s] EXCEPT !.installed = TRUE, !.status = "idle"]
  <2>1. /\ q.pc = "finish" /\ ctr' = ctr /\ faults' = faults /\ crashes' = crashes
        /\ Save(r, s, now)
        /\ IF s = g THEN Ended(r)
           ELSE Becomes(r, [Holding(q, s, now, "pull") EXCEPT !.cur = g])
    BY <1>11, <2>0, GoesOn DEF Finish, Query, At
  <2>2. /\ s \in Services /\ q.op # "update" /\ q.old = NoId /\ q.new = NoId
        /\ g \in Services /\ q.pc \in HoldsRow /\ q.pc \in Installs
    BY <1>3, <2>0, <2>1 DEF PcsCreate, HoldsRow, Installs
  <2>3. row[s] \in Row /\ q.snap[s] = row[s] /\ q.snap[g] = row[g]
    BY <1>2, <1>4, <2>0, <2>2 DEF UpToDate
  <2>4. now \in Row /\ now.installed /\ now.image = row[s].image
    BY <2>3 DEF Row, Status
  <2>5. row' = [row EXCEPT ![s] = now] /\ row'[s] = now
    <3> HIDE DEF now
    <3> QED
      BY <1>2, <2>1, <2>2, <2>4, SavesIt
  <2> HIDE DEF now
  <2>6. /\ \A x \in Services : x # s => row'[x] = row[x]
        /\ row'[s] # NoRow
    BY <1>1, <2>4, <2>5, ValuesAssumption DEF Rows
  <2>7. /\ UniqueNames' /\ SameApps /\ Elsewhere(s) /\ \A x, m : Named(x, m)' = Named(x, m)
    BY <1>2, <2>1, SameNames
  <2>8. Quiet' => Quiet /\ Agrees(s)'
    <3>1. Quiet => /\ Named(s, "live") # {} /\ Named(s, "old") = {}
                   /\ \A i \in Named(s, "live") : ctr[i].image = row[s].image
      BY <1>2, <2>1 DEF Place, Live, Aside, Made
    <3>2. Quiet' => Quiet
      BY <2>1 DEF Quiet
    <3>3. QED
      BY <2>1, <2>4, <2>5, <2>6, <2>7, <3>1, <3>2, AgreesMade
  <2>9. ASSUME Quiet', NEW x \in Services, x # s, x # g PROVE Agrees(x)'
    <3>1. Agrees(x)
      BY <1>2, <2>0, <2>8, <2>9 DEF OthersAgree
    <3>2. QED
      BY <2>1, <2>6, <2>7, <2>9, <3>1, AgreesStill
  <2>10. CASE s = g
    BY <2>1, <2>7, <2>8, <2>9, <2>10, EndsWell
  <2>11. CASE s # g
    <3>1. /\ n.op = q.op /\ n.goal = g /\ n.cur = g /\ n.old = NoId /\ n.new = NoId
          /\ n.pc = "pull" /\ n.snap[g] = row[g]
      <4>1. n = [Holding(q, s, now, "pull") EXCEPT !.cur = g]
        BY <2>1, <2>11 DEF Becomes, IInv, TypeOK
      <4>2. "pull" \in Pcs
        BY DEF Pcs, PcsCreate
      <4>3. PICK h \in Request : h = Holding(q, s, now, "pull") /\ h.pc = "pull"
              /\ h.goal = q.goal /\ h.snap[g] = q.snap[g]
        BY <1>1, <2>2, <2>4, <2>11, <4>2, SnapType
      <4>4. h.op = q.op /\ h.old = NoId /\ h.new = NoId
        BY <1>1, <2>2, <4>3 DEF Holding, Request
      <4>5. QED
        BY <2>0, <2>3, <4>1, <4>3, <4>4 DEF Request
    <3>2. Belongs(req[r])' /\ Updating(req[r])'
      BY <1>2, <2>1, <3>1, BelongsBare, NotUpdating DEF PcsUpdate
    <3>3. UpToDate(req[r])'
      BY <2>2, <2>6, <2>11, <3>1 DEF UpToDate
    <3>4. ASSUME Quiet' PROVE Quietly(req[r])'
      <4>1. Named(g, "live") = {} /\ Named(g, "old") = {}
        BY <1>2, <2>0, <2>2, <2>8, <2>11, <3>4 DEF OthersAgree, NoCopy
      <4>2. OthersAgree(req[r])'
        BY <2>8, <2>9, <3>1, <3>4 DEF OthersAgree
      <4>3. Place(req[r])'
        BY <2>7, <3>1, <4>1 DEF Place, Targeted, PcsUpdate, Live, Aside
      <4>4. QED
        BY <3>1, <4>2, <4>3 DEF Quietly, Undone, Untouched, Sweeping
    <3>5. QED
      BY <2>7, <3>2, <3>3, <3>4 DEF Well
  <2>12. QED
    BY <2>10, <2>11
<1>12. CASE CleanRow(r)
  <2>1. /\ q.pc = "cleanRow" /\ ctr' = ctr /\ faults' = faults /\ crashes' = crashes
        /\ Went(r, "cleanContainer", q.old, q.new)
    BY <1>12, GoesOn DEF CleanRow, Query, At
  <2>2. q.old = NoId /\ q.new = NoId
    BY <1>3, <2>1 DEF PcsCreate
  <2>3. UniqueNames' /\ ~Quiet'
    BY <1>2, <2>1, SameNames DEF Quiet, Undone
  <2>4. QED
    BY <2>1, <2>2, <2>3, FailsWell DEF Went, PcsUpdate
<1>13. CASE CleanContainer(r)
  <2>0. PICK i : i = Find(s, "live")
    OBVIOUS
  <2>1. /\ q.pc = "cleanContainer" /\ row' = row /\ crashes' = crashes
        /\ faults' = faults \/ faults' = faults + 1
        /\ ctr' = ctr \/ (i # NoId /\ ctr' = Removed(i))
        /\ NextCleanUp(r)
    BY <1>13, <2>0, Counted DEF CleanContainer, Call, At
  <2>2. q.old = NoId /\ q.new = NoId
    BY <1>3, <2>1 DEF PcsCreate
  <2>3. UniqueNames' /\ ~Quiet'
    <3>1. UniqueNames'
      BY <1>1, <1>2, <2>0, <2>1, SameNames, AfterRemoved, Found DEF Names
    <3>2. QED
      BY <1>2, <2>1, <3>1, Counted DEF Undone
  <2>4. CASE Done(r)
    BY <2>3, <2>4, GoesOn, EndsWell
  <2>5. CASE \/ Becomes(r, [q EXCEPT !.cur = q.goal, !.pc = "cleanRow"])
             \/ Becomes(r, [q EXCEPT !.left = 1, !.pc = "cleanRow"])
    <3>1. n.op = q.op /\ n.pc = "cleanRow" /\ n.old = NoId /\ n.new = NoId
      <4>1. \/ n = [q EXCEPT !.cur = q.goal, !.pc = "cleanRow"]
            \/ n = [q EXCEPT !.left = 1, !.pc = "cleanRow"]
        BY <2>5 DEF Becomes, IInv, TypeOK
      <4>2. CASE n = [q EXCEPT !.cur = q.goal, !.pc = "cleanRow"]
        BY <1>1, <2>2, <4>2 DEF Request
      <4>3. CASE n = [q EXCEPT !.left = 1, !.pc = "cleanRow"]
        BY <1>1, <2>2, <4>3 DEF Request
      <4>4. QED
        BY <4>1, <4>2, <4>3
    <3>2. QED
      BY <2>1, <2>3, <3>1, FailsWell DEF PcsUpdate
  <2>6. QED
    BY <2>1, <2>4, <2>5 DEF NextCleanUp
<1>14. QED
  BY <1>5, <1>6, <1>7, <1>8, <1>9, <1>10, <1>11, <1>12, <1>13 DEF CreateStep

LEMMA ReinstallWell ==
  ASSUME IInv, NEW r \in Requests, NEW q, q = req[r], Well(r), ReinstallStep(r)
  PROVE  Well(r)'
<1> DEFINE s == q.cur
           n == req'[r]
<1>1. /\ q \in Held /\ q \in Request /\ ctr \in Containers /\ row \in Rows
      /\ faults \in Nat /\ crashes \in Nat
  BY ReqType, Typed, Counted
<1>2. /\ UniqueNames /\ Belongs(q) /\ UpToDate(q) /\ Updating(q)
      /\ Quiet => Place(q) /\ OthersAgree(q) /\ q.pc \notin Undone
      /\ Quiet /\ q.pc \in Untouched => \A x \in Services : Agrees(x)
  BY DEF Well, Quietly
<1>3. q.pc \in PcsReinstall =>
        s \in Services /\ q.goal = s /\ q.pc \notin PcsUpdate /\ row[s] \in Row /\ q.snap[s] = row[s]
  BY <1>1, <1>2 DEF Held, Serves, HasRow, HoldsRow, Sweeping, Nested, PcsUpdate, PcsReinstall,
     PcsCreate, UpToDate
<1>4. CASE ReinstallMark(r)
  <2>0. "rStop" \in Pcs
    BY DEF Pcs, PcsReinstall
  <2>1. /\ q.pc = "rMark" /\ ctr' = ctr /\ faults' = faults /\ crashes' = crashes
        /\ \A x \in Services \ {s} : row'[x] = row[x]
        /\ row'[s] # NoRow /\ row'[s].installed = row[s].installed
        /\ row'[s].image = row[s].image
        /\ n.pc = "rStop" /\ n.op = q.op /\ n.goal = q.goal /\ n.cur = s
        /\ n.old = q.old /\ n.new = q.new /\ n.snap[s] = row'[s]
    BY <1>2, <1>4, <2>0, MarksIt DEF ReinstallMark
  <2>2. s \in Services /\ q.goal = s /\ row[s] # NoRow /\ q.old = NoId /\ q.new = NoId
    BY <1>2, <1>3, <2>1, ValuesAssumption DEF PcsReinstall, Belongs, Handless
  <2>3. UniqueNames' /\ SameApps /\ Elsewhere(s) /\ \A x, m : Named(x, m)' = Named(x, m)
    BY <1>2, <2>1, SameNames
  <2>4. Belongs(req[r])' /\ Updating(req[r])'
    BY <1>2, <2>1, <2>2, BelongsBare, NotUpdating DEF PcsUpdate
  <2>5. UpToDate(req[r])'
    BY <2>1 DEF UpToDate, Installs
  <2>6. ASSUME Quiet' PROVE Quietly(req[r])'
    <3>1. Quiet
      BY <2>1, <2>6 DEF Quiet
    <3>2. \A x \in Services : Agrees(x)'
      BY <1>2, <2>1, <2>2, <2>3, <3>1, AgreesStill DEF Untouched
    <3>3. OthersAgree(req[r])' /\ Place(req[r])'
      BY <2>1, <2>2, <3>2 DEF OthersAgree, Place, Targeted, PcsUpdate
    <3>4. QED
      BY <2>1, <3>2, <3>3 DEF Quietly, Undone
  <2>7. QED
    BY <2>3, <2>4, <2>5, <2>6 DEF Well
<1>5. CASE ReinstallStop(r)
  <2>0. PICK i : i = Find(s, "live")
    OBVIOUS
  <2>1. /\ q.pc = "rStop" /\ row' = row /\ crashes' = crashes
        /\ faults' = faults \/ faults' = faults + 1
        /\ \/ i # NoId /\ ctr' = Running(i, FALSE) /\ Went(r, "rRemove", i, q.new)
           \/ i # NoId /\ ctr' = ctr /\ Went(r, "rRemove", i, q.new)
           \/ /\ ctr' = ctr /\ Went(r, "rClear", q.old, q.new)
              /\ faults' = faults + 1 \/ i = NoId
    BY <1>5, <2>0, Counted, GoesOn DEF ReinstallStop, Call, At, Threw
  <2>2. s \in Services /\ q.goal = s /\ q.old = NoId /\ q.new = NoId
    BY <1>2, <1>3, <2>1 DEF PcsReinstall, Belongs, Handless
  <2>3. /\ i # NoId => i \in Named(s, "live") /\ i \in Ids /\ Exists(i)
        /\ i = NoId => Named(s, "live") = {}
    BY <1>2, <2>0, Found, Members
  <2>4. /\ UniqueNames' /\ SameApps /\ Elsewhere(s) /\ \A x, m : Named(x, m)' = Named(x, m)
        /\ \A j \in Ids : ctr'[j].image = ctr[j].image
    BY <1>1, <1>2, <2>1, <2>3, SameNames, AfterRunning
  <2>5. Quiet' => Quiet /\ faults' = faults /\ \A x \in Services : Agrees(x) /\ Agrees(x)'
    BY <1>2, <2>1, <2>4, Counted, AgreesStill, Members DEF Untouched
  <2>6. CASE i # NoId /\ Went(r, "rRemove", i, q.new)
    <3>1. Updating(req[r])'
      BY <1>2, <2>1, <2>6, NotUpdating DEF PcsUpdate, Went
    <3>2. Quiet' => Place(req[r])'
      BY <2>3, <2>4, <2>6 DEF Place, Went, Targeted, PcsUpdate, Live
    <3>3. MayFollow(req[r].pc, "rRemove")
      BY <2>1, ReinstallOrder
    <3>4. i \in Live(req[r])
      BY <2>3, <2>6 DEF Live
    <3>5. QED
      BY <2>1, <2>2, <2>4, <2>5, <2>6, <3>1, <3>2, <3>3, <3>4, GoesWell
         DEF Undone, Handless, Sweeping, PcsCreate
  <2>7. CASE /\ ctr' = ctr /\ Went(r, "rClear", q.old, q.new)
             /\ faults' = faults + 1 \/ i = NoId
    <3>1. Updating(req[r])'
      BY <1>2, <2>1, <2>7, NotUpdating DEF PcsUpdate, Went
    <3>2. ASSUME Quiet' PROVE Place(req[r])'
      <4>1. Named(s, "live") = {} /\ Named(s, "old") = {}
        BY <1>1, <2>2, <2>3, <2>5, <2>7, <3>2 DEF Agrees
      <4>2. QED
        BY <2>4, <2>7, <4>1 DEF Place, Went, Targeted, PcsUpdate, Live, Aside
    <3>3. MayFollow(req[r].pc, "rClear")
      BY <2>1, ReinstallOrder
    <3>4. QED
      BY <2>1, <2>2, <2>4, <2>7, <3>1, <3>2, <3>3, GoesWell DEF Undone, Untouched, Sweeping
  <2>8. QED
    BY <2>1, <2>6, <2>7
<1>6. CASE ReinstallRemove(r)
  <2>1. /\ q.pc = "rRemove" /\ row' = row /\ crashes' = crashes
        /\ Went(r, "rClear", NoId, q.new)
        /\ \/ ctr' = Removed(q.old) /\ Exists(q.old) /\ faults' = faults
           \/ ctr' = ctr /\ (faults' = faults + 1 \/ (faults' = faults /\ ~Exists(q.old)))
    BY <1>6, Counted, GoesOn DEF ReinstallRemove, Call, At
  <2>2. s \in Services /\ q.goal = s
    BY <1>3, <2>1 DEF PcsReinstall
  <2>3. q.old \in Ids \cup {NoId} /\ q.new = NoId
    BY <1>1, <1>2, <2>1 DEF Request, Belongs
  <2>4. UniqueNames' /\ SameApps /\ Elsewhere(s)
    <3>1. CASE ctr' = Removed(q.old) /\ Exists(q.old)
      <4>1. q.old \in Ids /\ ctr[q.old].svc = s
        BY <1>2, <2>3, <3>1 DEF Exists, Belongs
      <4>2. QED
        BY <1>1, <1>2, <3>1, <4>1, AnyRemoved
    <3>2. CASE ctr' = ctr
      BY <1>2, <3>2, SameNames
    <3>3. QED
      BY <2>1, <3>1, <3>2
  <2>5. Updating(req[r])'
    BY <1>2, <2>1, NotUpdating DEF PcsUpdate, Went
  <2>6. ASSUME Quiet' PROVE Place(req[r])'
    <3>1. Quiet /\ faults' = faults
      BY <1>1, <2>1, <2>6 DEF Quiet
    <3>2. q.old \in Named(s, "live") /\ Named(s, "old") = {}
      BY <1>2, <2>1, <2>2, <3>1 DEF Place, Live, Untouched, Agrees
    <3>3. ctr' = Removed(q.old)
      BY <1>1, <2>1, <3>1, <3>2, Members
    <3>4. Named(s, "live")' = {} /\ Named(s, "old")' = {}
      BY <1>1, <1>2, <3>2, <3>3, AfterRemoved DEF Names
    <3>5. QED
      BY <2>1, <3>4 DEF Place, Went, Targeted, PcsUpdate, Live, Aside
  <2>7. MayFollow(req[r].pc, "rClear")
    BY <2>1, ReinstallOrder
  <2>8. QED
    BY <2>1, <2>2, <2>3, <2>4, <2>5, <2>6, <2>7, GoesWell DEF Undone, Untouched, Sweeping
<1>7. CASE ReinstallClear(r)
  <2> DEFINE now == [q.snap[s] EXCEPT !.installed = FALSE, !.status = "installing"]
  <2>1. /\ q.pc = "rClear" /\ ctr' = ctr /\ faults' = faults /\ crashes' = crashes
        /\ Save(r, s, now) /\ Snap(r, s, now, "depends")
    BY <1>7 DEF ReinstallClear, Query, At
  <2>2. /\ s \in Services /\ q.goal = s /\ q.pc \in HoldsRow /\ q.old = NoId /\ q.new = NoId
        /\ now \in Row /\ ~now.installed
    BY <1>2, <1>3, <2>1 DEF PcsReinstall, HoldsRow, Belongs, Handless, Row, Status
  <2>3. row' = [row EXCEPT ![s] = now] /\ row'[s] = now
    <3> HIDE DEF now
    <3> QED
      BY <1>2, <2>1, <2>2, SavesIt
  <2>4. /\ n.op = q.op /\ n.goal = q.goal /\ n.cur = s /\ n.old = NoId /\ n.new = NoId
        /\ n.pc = "depends" /\ n.snap[s] = now
    BY <2>1, <2>2, HoldsIt
  <2> HIDE DEF now
  <2>5. UniqueNames' /\ Elsewhere(s) /\ \A x, m : Named(x, m)' = Named(x, m)
    BY <1>2, <2>1, SameNames
  <2>6. Belongs(req[r])' /\ Updating(req[r])'
    BY <1>2, <2>1, <2>4, BelongsBare, NotUpdating DEF PcsUpdate
  <2>7. UpToDate(req[r])'
    BY <2>2, <2>3, <2>4 DEF UpToDate
  <2>8. ASSUME Quiet' PROVE Quietly(req[r])'
    <3>1. Quiet
      BY <2>1, <2>8 DEF Quiet
    <3>2. Named(s, "live") = {} /\ Named(s, "old") = {}
      BY <1>2, <2>1, <3>1 DEF Place, Live, Aside
    <3>3. \A x \in Services : x # s => row'[x] = row[x]
      BY <1>1, <2>3 DEF Rows
    <3>4. OthersAgree(req[r])'
      BY <1>2, <2>4, <2>5, <3>1, <3>3, OthersAgreeStill
    <3>5. Place(req[r])'
      BY <2>4, <2>5, <3>2 DEF Place, Targeted, PcsUpdate, Live, Aside
    <3>6. QED
      BY <2>4, <3>4, <3>5 DEF Quietly, Undone, Untouched, Sweeping
  <2>9. QED
    BY <2>5, <2>6, <2>7, <2>8 DEF Well
<1>8. QED
  BY <1>4, <1>5, <1>6, <1>7 DEF ReinstallStep

-----------------------------------------------------------------------------
(* uninstallService and the deletion of a custom app.                      *)

(* What a request may know at a program counter that no nested create and  *)
(* no sync reaches.                                                        *)
LEMMA Knows ==
  ASSUME IInv, NEW r \in Requests, NEW q, q = req[r], Well(r)
  PROVE  /\ q \in Request /\ q.old \in Ids \cup {NoId} /\ q.new \in Ids \cup {NoId}
         /\ ctr \in Containers /\ row \in Rows /\ faults \in Nat /\ crashes \in Nat
         /\ UniqueNames /\ Belongs(q) /\ UpToDate(q) /\ Updating(q)
         /\ Quiet => Place(q) /\ OthersAgree(q) /\ q.pc \notin Undone
         /\ Quiet /\ q.pc \in Untouched => \A x \in Services : Agrees(x)
         /\ q.pc \in PcsRemove \cup PcsRecreate =>
              q.cur \in Services /\ q.goal = q.cur /\ q.pc \notin PcsUpdate
         /\ q.pc \in HoldsRow => row[q.cur] \in Row /\ q.snap[q.cur] = row[q.cur]
         /\ \A i \in {q.old, q.new} : Exists(i) => i \in Ids /\ ctr[i].svc = q.cur
<1>1. /\ q \in Held /\ q \in Request /\ ctr \in Containers /\ row \in Rows
      /\ faults \in Nat /\ crashes \in Nat
  BY ReqType, Typed, Counted
<1>2. /\ UniqueNames /\ Belongs(q) /\ UpToDate(q) /\ Updating(q)
      /\ Quiet => Place(q) /\ OthersAgree(q) /\ q.pc \notin Undone
      /\ Quiet /\ q.pc \in Untouched => \A x \in Services : Agrees(x)
  BY DEF Well, Quietly
<1>3. q.pc \in PcsRemove \cup PcsRecreate =>
        q.cur \in Services /\ q.goal = q.cur /\ q.pc \notin PcsUpdate
  BY <1>1 DEF Held, Serves, Sweeping, Nested, PcsUpdate, PcsRemove, PcsRecreate, PcsCreate
<1>4. q.pc \in HoldsRow => row[q.cur] \in Row /\ q.snap[q.cur] = row[q.cur]
  BY <1>1, <1>2 DEF Held, HasRow, UpToDate
<1>5. q.old \in Ids \cup {NoId} /\ q.new \in Ids \cup {NoId}
  BY <1>1 DEF Request
<1>6. \A i \in {q.old, q.new} : Exists(i) => i \in Ids /\ ctr[i].svc = q.cur
  BY <1>2, <1>5 DEF Belongs, Exists
<1>7. QED
  BY <1>1, <1>2, <1>3, <1>4, <1>5, <1>6

(* The row of a request's service is written and the request ends.         *)
LEMMA WritesWell ==
  ASSUME IInv, NEW r \in Requests, NEW s \in Services, s = req[r].cur, req[r].goal = s, Well(r),
         Ended(r), ctr' = ctr, faults' = faults, crashes' = crashes,
         NEW x, row' = [row EXCEPT ![s] = x], Quiet => Agrees(s)'
  PROVE  Well(r)'
<1>1. UniqueNames' /\ \A t, m : Named(t, m)' = Named(t, m)
  BY SameNames DEF Well
<1>2. ASSUME Quiet', NEW t \in Services PROVE Agrees(t)'
  <2>1. Quiet /\ OthersAgree(req[r])
    BY <1>2 DEF Quiet, Well, Quietly
  <2>2. CASE t # s
    <3>1. Agrees(t) /\ row'[t] = row[t]
      BY <2>1, <2>2 DEF OthersAgree
    <3>2. QED
      BY <1>1, <3>1, AgreesStill
  <2>3. QED
    BY <2>1, <2>2
<1>3. QED
  BY <1>1, <1>2, EndsWell

LEMMA RemoveWell ==
  ASSUME IInv, NEW r \in Requests, NEW q, q = req[r], Well(r), RemoveStep(r)
  PROVE  Well(r)'
<1> DEFINE s == q.cur
<1>1. /\ q \in Request /\ q.old \in Ids \cup {NoId} /\ q.new \in Ids \cup {NoId}
      /\ ctr \in Containers /\ row \in Rows /\ faults \in Nat /\ crashes \in Nat
      /\ UniqueNames /\ Belongs(q) /\ UpToDate(q) /\ Updating(q)
      /\ Quiet => Place(q) /\ OthersAgree(q) /\ q.pc \notin Undone
      /\ Quiet /\ q.pc \in Untouched => \A x \in Services : Agrees(x)
  BY Knows
<1>2. /\ q.pc \in PcsRemove => s \in Services /\ q.goal = s /\ q.pc \notin PcsUpdate
      /\ q.pc \in HoldsRow => row[s] \in Row /\ q.snap[s] = row[s]
      /\ \A i \in {q.old, q.new} : Exists(i) => i \in Ids /\ ctr[i].svc = s
  BY Knows
<1>3. /\ RemovalSucceeds(r) => \E pc \in {"xSave", "xRow"} : Went(r, pc, q.old, q.new)
      /\ RemovalFails(r) => Went(r, "xRow", q.old, q.new) \/ Ended(r)
  BY GoesOn DEF RemovalSucceeds, RemovalFails
<1>4. CASE RemoveFind(r)
  <2>0. PICK i : i = Find(s, "live")
    OBVIOUS
  <2>1. /\ q.pc = "xFind" /\ row' = row /\ ctr' = ctr /\ crashes' = crashes
        /\ \/ /\ faults' = faults /\ i = NoId
              /\ \E pc \in {"xSave", "xRow"} : Went(r, pc, q.old, q.new)
           \/ /\ faults' = faults /\ i # NoId
              /\ \/ Went(r, "xStop", i, q.new) /\ Runs(i)
                 \/ Went(r, "xRemove", i, q.new)
           \/ faults' = faults + 1 /\ (Went(r, "xRow", q.old, q.new) \/ Ended(r))
    BY <1>3, <1>4, <2>0, Counted, GoesOn DEF RemoveFind, Call, At
  <2>2. s \in Services /\ q.goal = s
    BY <1>2, <2>1 DEF PcsRemove
  <2>3. /\ UniqueNames' /\ SameApps /\ Elsewhere(s) /\ \A x, m : Named(x, m)' = Named(x, m)
        /\ \A j : Runs(j)' <=> Runs(j)
    BY <1>1, <2>1, SameNames
  <2>4. /\ i # NoId => i \in Named(s, "live")
        /\ i = NoId => Named(s, "live") = {}
    BY <1>1, <2>0, Found
  <2>5. Quiet' => Quiet /\ faults' = faults /\ \A x \in Services : Agrees(x) /\ Agrees(x)'
    BY <1>1, <2>1, <2>3, Counted, AgreesStill DEF Untouched
  <2>6. ASSUME NEW pc \in {"xSave", "xRow"}, Went(r, pc, q.old, q.new),
               i = NoId \/ faults' = faults + 1
        PROVE  Well(r)'
    <3>1. Updating(req[r])'
      BY <1>1, <2>1, <2>6, NotUpdating DEF PcsUpdate, Went
    <3>2. ASSUME Quiet' PROVE Place(req[r])'
      <4>1. Named(s, "live")' = {} /\ Named(s, "old")' = {}
        BY <1>1, <2>2, <2>3, <2>4, <2>5, <2>6, <3>2 DEF Agrees
      <4>2. QED
        BY <2>6, <4>1 DEF Place, Went, Targeted, PcsUpdate, Live, Aside
    <3>3. MayFollow(req[r].pc, pc)
      BY <2>1, RemoveOrder
    <3>4. QED
      BY <2>1, <2>2, <2>3, <2>6, <3>1, <3>2, <3>3, GoesWell
         DEF Undone, Untouched, Sweeping, Handless, PcsCreate
  <2>7. ASSUME NEW pc \in {"xStop", "xRemove"}, Went(r, pc, i, q.new), i # NoId,
               pc = "xStop" => Runs(i)
        PROVE  Well(r)'
    <3>1. Updating(req[r])'
      BY <1>1, <2>1, <2>7, NotUpdating DEF PcsUpdate, Went
    <3>2. Place(req[r])'
      BY <2>3, <2>4, <2>7 DEF Place, Went, Targeted, PcsUpdate, Live
    <3>3. MayFollow(req[r].pc, pc)
      BY <2>1, RemoveOrder
    <3>4. i \in Live(req[r])
      BY <2>4, <2>7 DEF Live
    <3>5. QED
      BY <2>1, <2>2, <2>3, <2>5, <2>7, <3>1, <3>2, <3>3, <3>4, GoesWell
         DEF Undone, Sweeping, Handless, PcsCreate
  <2>8. CASE Ended(r)
    BY <2>3, <2>5, <2>8, EndsWell
  <2>9. QED
    BY <2>1, <2>6, <2>7, <2>8
<1>5. CASE RemoveStop(r)
  <2>1. /\ q.pc = "xStop" /\ row' = row /\ crashes' = crashes
        /\ \/ /\ Went(r, "xRemove", q.old, q.new) /\ ctr' = Running(q.old, FALSE) /\ Runs(q.old)
              /\ faults' = faults
           \/ /\ Went(r, "xRow", q.old, q.new) \/ Ended(r)
              /\ ctr' = ctr
              /\ faults' = faults + 1 \/ (faults' = faults /\ ~Runs(q.old))
    BY <1>3, <1>5, Counted, GoesOn DEF RemoveStop, Call, At
  <2>2. s \in Services /\ q.goal = s
    BY <1>2, <2>1 DEF PcsRemove
  <2>3. Runs(q.old) => Exists(q.old) /\ q.old \in Ids
    BY <1>2 DEF Runs
  <2>4. CASE /\ Went(r, "xRemove", q.old, q.new) /\ ctr' = Running(q.old, FALSE) /\ Runs(q.old)
             /\ faults' = faults
    <3>1. /\ UniqueNames' /\ SameApps /\ Elsewhere(s) /\ \A x, m : Named(x, m)' = Named(x, m)
          /\ \A j \in Ids : ctr'[j].image = ctr[j].image
      BY <1>1, <2>3, <2>4, AfterRunning
    <3>2. Quiet' => Quiet /\ Agrees(s)'
      BY <1>1, <2>1, <2>2, <2>4, <3>1, AgreesStill, Members DEF Untouched, Quiet
    <3>3. Updating(req[r])'
      BY <1>1, <2>1, <2>4, NotUpdating DEF PcsUpdate, Went
    <3>4. Quiet' => Place(req[r])'
      <4>1. Quiet' => q.old \in Named(s, "live")'
        BY <1>1, <2>1, <3>1, <3>2 DEF Place, Live
      <4>2. QED
        BY <2>4, <4>1 DEF Place, Went, Targeted, PcsUpdate, Live
    <3>5. MayFollow(req[r].pc, "xRemove")
      BY <2>1, RemoveOrder
    <3>6. QED
      BY <2>1, <2>2, <2>4, <3>1, <3>2, <3>3, <3>4, <3>5, GoesWell
         DEF Undone, Sweeping, Handless, PcsCreate
  <2>5. CASE /\ Went(r, "xRow", q.old, q.new) \/ Ended(r)
             /\ ctr' = ctr
             /\ faults' = faults + 1 \/ (faults' = faults /\ ~Runs(q.old))
    <3>1. UniqueNames' /\ SameApps /\ Elsewhere(s)
      BY <1>1, <2>5, SameNames
    <3>2. ~Quiet'
      BY <1>1, <2>1, <2>5 DEF Quiet, Place
    <3>3. CASE Went(r, "xRow", q.old, q.new)
      <4>1. Updating(req[r])'
        BY <1>1, <2>1, <3>3, NotUpdating DEF PcsUpdate, Went
      <4>2. MayFollow(req[r].pc, "xRow")
        BY <2>1, RemoveOrder
      <4>3. QED
        BY <2>1, <2>5, <3>1, <3>2, <3>3, <4>1, <4>2, GoesWell DEF Sweeping, Handless, PcsCreate
    <3>4. QED
      BY <2>5, <3>1, <3>2, <3>3, EndsWell
  <2>6. QED
    BY <2>1, <2>4, <2>5
<1>6. CASE Remove(r)
  <2>1. /\ q.pc = "xRemove" /\ row' = row /\ crashes' = crashes
        /\ \/ /\ \E pc \in {"xSave", "xRow"} : Went(r, pc, q.old, q.new)
              /\ ctr' = Removed(q.old) /\ Exists(q.old) /\ faults' = faults
           \/ /\ Went(r, "xRow", q.old, q.new) \/ Ended(r)
              /\ ctr' = ctr
              /\ faults' = faults + 1 \/ (faults' = faults /\ ~Exists(q.old))
    BY <1>3, <1>6, Counted, GoesOn DEF Remove, Call, At
  <2>2. s \in Services /\ q.goal = s
    BY <1>2, <2>1 DEF PcsRemove
  <2>3. Quiet => q.old \in Named(s, "live") /\ Exists(q.old) /\ Named(s, "old") = {}
    BY <1>1, <2>1, <2>2, Members DEF Place, Live, Untouched, Agrees
  <2>4. ASSUME NEW pc \in {"xSave", "xRow"}, Went(r, pc, q.old, q.new),
               ctr' = Removed(q.old), Exists(q.old), faults' = faults
        PROVE  Well(r)'
    <3>1. UniqueNames' /\ SameApps /\ Elsewhere(s)
      BY <1>1, <1>2, <2>4, AnyRemoved
    <3>2. Updating(req[r])'
      BY <1>1, <2>1, <2>4, NotUpdating DEF PcsUpdate, Went
    <3>3. ASSUME Quiet' PROVE Place(req[r])'
      <4>1. Quiet
        BY <2>1, <2>4, <3>3 DEF Quiet
      <4>2. Named(s, "live")' = {} /\ Named(s, "old")' = {}
        BY <1>1, <2>3, <2>4, <4>1, AfterRemoved DEF Names
      <4>3. QED
        BY <2>4, <4>2 DEF Place, Went, Targeted, PcsUpdate, Live, Aside
    <3>4. MayFollow(req[r].pc, pc)
      BY <2>1, RemoveOrder
    <3>5. QED
      BY <2>1, <2>2, <2>4, <3>1, <3>2, <3>3, <3>4, GoesWell
         DEF Undone, Untouched, Sweeping, Handless, PcsCreate
  <2>5. CASE /\ Went(r, "xRow", q.old, q.new) \/ Ended(r)
             /\ ctr' = ctr
             /\ faults' = faults + 1 \/ (faults' = faults /\ ~Exists(q.old))
    <3>1. UniqueNames' /\ SameApps /\ Elsewhere(s)
      BY <1>1, <2>5, SameNames
    <3>2. ~Quiet'
      BY <1>1, <2>1, <2>3, <2>5 DEF Quiet
    <3>3. CASE Went(r, "xRow", q.old, q.new)
      <4>1. Updating(req[r])'
        BY <1>1, <2>1, <3>3, NotUpdating DEF PcsUpdate, Went
      <4>2. MayFollow(req[r].pc, "xRow")
        BY <2>1, RemoveOrder
      <4>3. QED
        BY <2>1, <2>5, <3>1, <3>2, <3>3, <4>1, <4>2, GoesWell DEF Sweeping, Handless, PcsCreate
    <3>4. QED
      BY <2>5, <3>1, <3>2, <3>3, EndsWell
  <2>6. QED
    BY <2>1, <2>4, <2>5
<1>7. CASE UninstallSave(r)
  <2> DEFINE now == [q.snap[s] EXCEPT !.installed = FALSE, !.status = "idle"]
  <2>1. /\ q.pc = "xSave" /\ ctr' = ctr /\ faults' = faults /\ crashes' = crashes
        /\ Save(r, s, now) /\ Ended(r)
    BY <1>7, GoesOn DEF UninstallSave, Query, At
  <2>2. /\ s \in Services /\ q.goal = s /\ q.pc \in HoldsRow
        /\ now \in Row /\ ~now.installed
    BY <1>2, <2>1 DEF PcsRemove, HoldsRow, Row, Status
  <2>3. row' = [row EXCEPT ![s] = now] /\ row'[s] = now
    <3> HIDE DEF now
    <3> QED
      BY <1>1, <2>1, <2>2, SavesIt
  <2> HIDE DEF now
  <2>4. Quiet => Named(s, "live") = {} /\ Named(s, "old") = {}
    BY <1>1, <2>1 DEF Place, Live, Aside
  <2>5. Quiet => Agrees(s)'
    BY <1>1, <2>1, <2>2, <2>3, <2>4, SameNames, AgreesGone
  <2>6. QED
    BY <2>1, <2>2, <2>3, <2>5, WritesWell
<1>8. CASE DeleteRow(r)
  <2>1. /\ q.pc = "xRow" /\ ctr' = ctr /\ faults' = faults /\ crashes' = crashes
        /\ row' = [row EXCEPT ![s] = NoRow] /\ Ended(r)
    BY <1>8, GoesOn DEF DeleteRow, Query, At
  <2>2. s \in Services /\ q.goal = s /\ row'[s] = NoRow
    BY <1>1, <1>2, <2>1 DEF PcsRemove, Rows
  <2>3. Quiet => Named(s, "live") = {} /\ Named(s, "old") = {}
    BY <1>1, <2>1 DEF Place, Live, Aside
  <2>4. Quiet => Agrees(s)'
    BY <1>1, <2>1, <2>2, <2>3, SameNames, AgreesGone
  <2>5. QED
    BY <2>1, <2>2, <2>4, WritesWell
<1>9. QED
  BY <1>4, <1>5, <1>6, <1>7, <1>8 DEF RemoveStep

-----------------------------------------------------------------------------
(* recreateCustomAppContainer.                                             *)

(* A failure inside the try block.                                         *)
LEMMA RecreateFailsWell ==
  ASSUME IInv, NEW r \in Requests, Well(r), req[r].pc \in PcsRecreate,
         Dropped(r, "cDiscard", FALSE, FALSE), ctr' = ctr, ~Quiet'
  PROVE  Well(r)'
<1>1. UniqueNames' /\ req[r].pc \notin PcsUpdate
  BY SameNames, Knows DEF Well
<1>2. QED
  BY <1>1, FailsWell DEF Dropped

(* Where a recreate may go on to.                                          *)
LEMMA RecreatePcs ==
  {"cFind", "cStale", "cStop", "cRename", "cPull", "cCreate", "cStart", "cReady", "cDropOld",
   "cSave", "cRestore", "cRestart"} \cap (Handless \cup PcsUpdate \cup Untouched) = {}
  BY DEF Handless, Sweeping, PcsCreate, PcsUpdate, Untouched

LEMMA RecreateWell ==
  ASSUME IInv, NEW r \in Requests, NEW q, q = req[r], Well(r), RecreateStep(r)
  PROVE  Well(r)'
<1> DEFINE s == q.cur
           n == req'[r]
<1>1. /\ q \in Request /\ q.old \in Ids \cup {NoId} /\ q.new \in Ids \cup {NoId}
      /\ ctr \in Containers /\ row \in Rows /\ faults \in Nat /\ crashes \in Nat
      /\ UniqueNames /\ Belongs(q) /\ UpToDate(q) /\ Updating(q)
      /\ Quiet => Place(q) /\ OthersAgree(q) /\ q.pc \notin Undone
      /\ Quiet /\ q.pc \in Untouched => \A x \in Services : Agrees(x)
  BY Knows
<1>2. /\ q.pc \in PcsRecreate => s \in Services /\ q.goal = s /\ q.pc \notin PcsUpdate
      /\ q.pc \in HoldsRow => row[s] \in Row /\ q.snap[s] = row[s]
      /\ \A i \in {q.old, q.new} : Exists(i) => i \in Ids /\ ctr[i].svc = s
  BY Knows
<1>3. ASSUME NEW pc \in {"cFind", "cStale", "cStop", "cRename", "cPull", "cCreate", "cStart",
                         "cReady", "cDropOld", "cSave", "cRestore", "cRestart"},
             NEW i, NEW j, Went(r, pc, i, j), q.pc \in PcsRecreate
      PROVE  Updating(req[r])'
  BY <1>1, <1>2, <1>3, NotUpdating, RecreatePcs DEF Went
<1>4. CASE RecreateRead(r)
  <2>1. /\ q.pc = "cRead" /\ row' = row /\ ctr' = ctr /\ faults' = faults /\ crashes' = crashes
        /\ \/ row[s] = NoRow /\ Ended(r)
           \/ Snap(r, s, row[s], "cFind")
    BY <1>4, GoesOn DEF RecreateRead, Query, At
  <2>2. s \in Services /\ q.goal = s /\ q.pc \notin PcsUpdate
    BY <1>2, <2>1 DEF PcsRecreate
  <2>3. UniqueNames' /\ SameApps /\ Elsewhere(s) /\ \A x, m : Named(x, m)' = Named(x, m)
    BY <1>1, <2>1, SameNames
  <2>4. CASE row[s] = NoRow /\ Ended(r)
    <3>1. ~Quiet'
      BY <1>1, <2>1, <2>4 DEF Place, Quiet
    <3>2. QED
      BY <2>3, <2>4, <3>1, EndsWell
  <2>5. CASE Snap(r, s, row[s], "cFind")
    <3>1. /\ n.op = q.op /\ n.goal = q.goal /\ n.cur = s /\ n.old = q.old /\ n.new = q.new
          /\ n.pc = "cFind" /\ n.snap[s] = row[s]
      BY <2>2, <2>5, HoldsIt
    <3>2. Belongs(req[r])' /\ Updating(req[r])'
      BY <1>1, <2>2, <2>3, <3>1, BelongsStill, NotUpdating, RecreatePcs
    <3>3. UpToDate(req[r])'
      BY <2>1, <3>1 DEF UpToDate, Installs
    <3>4. ASSUME Quiet' PROVE Quietly(req[r])'
      <4>1. Quiet /\ Aside(q) = {}
        BY <1>1, <2>1, <3>4 DEF Place, Quiet
      <4>2. OthersAgree(req[r])'
        BY <1>1, <2>1, <2>3, <3>1, <4>1, OthersAgreeStill
      <4>3. Place(req[r])'
        BY <2>3, <3>1, <4>1 DEF Place, Targeted, PcsUpdate, Aside
      <4>4. QED
        BY <3>1, <4>2, <4>3, RecreatePcs DEF Quietly, Undone
    <3>5. QED
      BY <2>3, <3>2, <3>3, <3>4 DEF Well
  <2>6. QED
    BY <2>1, <2>4, <2>5
<1>5. CASE RecreateFind(r)
  <2>0. PICK i : i = Find(s, "live")
    OBVIOUS
  <2>1. /\ q.pc = "cFind" /\ row' = row /\ ctr' = ctr /\ crashes' = crashes
        /\ \/ /\ faults' = faults
              /\ Becomes(r, [q EXCEPT !.pc = "cStale", !.old = i, !.up = Runs(i)])
           \/ faults' = faults + 1 /\ Ended(r)
    BY <1>5, <2>0, Counted, GoesOn DEF RecreateFind, Call, At
  <2>2. s \in Services /\ q.goal = s /\ q.pc \notin PcsUpdate /\ q.snap[s] = row[s]
    BY <1>2, <2>1 DEF PcsRecreate, HoldsRow
  <2>3. UniqueNames' /\ SameApps /\ Elsewhere(s) /\ \A x, m : Named(x, m)' = Named(x, m)
    BY <1>1, <2>1, SameNames
  <2>4. (i = NoId /\ Named(s, "live") = {}) \/ i \in Named(s, "live")
    BY <1>1, <2>0, Found
  <2>5. CASE faults' = faults /\ Becomes(r, [q EXCEPT !.pc = "cStale", !.old = i, !.up = Runs(i)])
    <3>1. /\ n.op = q.op /\ n.goal = q.goal /\ n.cur = q.cur /\ n.snap = q.snap
          /\ n.old = i /\ n.new = q.new /\ n.pc = "cStale"
      <4>1. n = [q EXCEPT !.pc = "cStale", !.old = i, !.up = Runs(i)]
        BY <2>5 DEF Becomes, IInv, TypeOK
      <4>2. QED
        BY <1>1, <4>1 DEF Request
    <3>2. Belongs(req[r])' /\ Updating(req[r])'
      <4>1. i \in {NoId} \cup Named(s, "live")
        BY <2>4
      <4>2. QED
        BY <1>1, <2>2, <2>3, <3>1, <4>1, BelongsStill, NotUpdating, RecreatePcs
    <3>3. UpToDate(req[r])'
      BY <2>1, <2>2, <3>1 DEF UpToDate, Installs
    <3>4. ASSUME Quiet' PROVE Quietly(req[r])'
      <4>1. Quiet /\ Named(s, "old") = {}
        BY <1>1, <2>1, <2>5, <3>4 DEF Place, Quiet, Aside
      <4>2. OthersAgree(req[r])'
        BY <1>1, <2>1, <2>3, <3>1, <4>1, OthersAgreeStill
      <4>3. Place(req[r])'
        BY <2>3, <2>4, <3>1, <4>1 DEF Place, Targeted, PcsUpdate, Live, Aside
      <4>4. QED
        BY <3>1, <4>2, <4>3, RecreatePcs DEF Quietly, Undone
    <3>5. QED
      BY <2>3, <3>2, <3>3, <3>4 DEF Well
  <2>6. CASE faults' = faults + 1 /\ Ended(r)
    BY <1>1, <2>3, <2>6, EndsWell DEF Quiet
  <2>7. QED
    BY <2>1, <2>5, <2>6
<1>6. CASE RecreateStale(r)
  <2>0. PICK i : i = Find(s, "old")
    OBVIOUS
  <2>1. /\ q.pc = "cStale" /\ row' = row /\ crashes' = crashes
        /\ faults' = faults \/ faults' = faults + 1
        /\ ctr' = ctr \/ (i # NoId /\ ctr' = Removed(i))
        /\ \/ q.old = NoId /\ Went(r, "cPull", q.old, q.new)
           \/ q.old # NoId /\ \E pc \in {"cStop", "cRename"} : Went(r, pc, q.old, q.new)
           \/ faults' = faults + 1 /\ Ended(r)
    <3>1. /\ q.pc = "cStale" /\ row' = row /\ crashes' = crashes
          /\ faults' = faults \/ faults' = faults + 1
          /\ ctr' = ctr \/ (i # NoId /\ ctr' = Removed(i))
          /\ \/ Go(r, IF q.old = NoId THEN "cPull" ELSE IF q.up THEN "cStop" ELSE "cRename")
             \/ faults' = faults + 1 /\ Done(r)
      BY <1>6, <2>0, Counted DEF RecreateStale, Call, At
    <3>2. QED
      BY <3>1, GoesOn
  <2>2. s \in Services /\ q.goal = s
    BY <1>2, <2>1 DEF PcsRecreate
  <2>3. i # NoId => i \in Named(s, "old")
    BY <1>1, <2>0, Found
  <2>4. UniqueNames' /\ SameApps /\ Elsewhere(s)
    BY <1>1, <2>1, <2>3, SameNames, AfterRemoved DEF Names
  <2>5. Quiet' =>
          /\ Named(s, "old")' = {} /\ Named(s, "live")' = Named(s, "live") /\ faults' = faults
          /\ (q.old = NoId /\ Named(s, "live") = {}) \/ q.old \in Named(s, "live")
    <3> SUFFICES ASSUME Quiet'
                 PROVE  /\ Named(s, "old")' = {} /\ Named(s, "live")' = Named(s, "live")
                        /\ faults' = faults
                        /\ (q.old = NoId /\ Named(s, "live") = {}) \/ q.old \in Named(s, "live")
      OBVIOUS
    <3>1. Quiet /\ faults' = faults
      BY <2>1, Counted
    <3>2. /\ Named(s, "old") = {}
          /\ (q.old = NoId /\ Named(s, "live") = {}) \/ q.old \in Named(s, "live")
      BY <1>1, <2>1, <3>1 DEF Place, Live, Aside
    <3>3. ctr' = ctr
      BY <2>1, <2>3, <3>2
    <3>4. QED
      BY <1>1, <3>1, <3>2, <3>3, SameNames
  <2>6. ASSUME NEW pc \in {"cPull", "cStop", "cRename"}, Went(r, pc, q.old, q.new),
               pc = "cPull" <=> q.old = NoId
        PROVE  Well(r)'
    <3>1. Updating(req[r])'
      BY <1>3, <2>1, <2>6 DEF PcsRecreate
    <3>2. Quiet' => Place(req[r])'
      BY <2>5, <2>6, Members DEF Place, Went, Targeted, PcsUpdate, Live, Aside
    <3>3. MayFollow(req[r].pc, pc)
      BY <2>1, RecreateOrder
    <3>4. QED
      BY <2>1, <2>2, <2>4, <2>6, <3>1, <3>2, <3>3, GoesWell, RecreatePcs DEF Undone
  <2>7. CASE faults' = faults + 1 /\ Ended(r)
    BY <1>1, <2>4, <2>7, EndsWell DEF Quiet
  <2>8. QED
    BY <2>1, <2>6, <2>7
<1>7. CASE RecreateStop(r)
  <2>1. /\ q.pc = "cStop" /\ row' = row /\ crashes' = crashes
        /\ faults' = faults \/ faults' = faults + 1
        /\ Went(r, "cRename", q.old, q.new)
        /\ ctr' = ctr \/ (ctr' = Running(q.old, FALSE) /\ Runs(q.old))
    BY <1>7, Counted, GoesOn DEF RecreateStop, Call, At
  <2>2. s \in Services /\ q.goal = s
    BY <1>2, <2>1 DEF PcsRecreate
  <2>3. Runs(q.old) => Exists(q.old) /\ q.old \in Ids
    BY <1>2 DEF Runs
  <2>4. UniqueNames' /\ SameApps /\ Elsewhere(s) /\ \A x, m : Named(x, m)' = Named(x, m)
    BY <1>1, <2>1, <2>3, SameNames, AfterRunning
  <2>5. Updating(req[r])'
    BY <1>3, <2>1 DEF PcsRecreate
  <2>6. ASSUME Quiet' PROVE Place(req[r])'
    <3>1. q.old \in Named(s, "live") /\ Named(s, "old") = {}
      BY <1>1, <2>1, <2>6, Counted DEF Place, Live, Aside
    <3>2. QED
      BY <2>1, <2>4, <3>1 DEF Place, Went, Targeted, PcsUpdate, Live, Aside
  <2>7. MayFollow(req[r].pc, "cRename")
    BY <2>1, RecreateOrder
  <2>8. QED
    BY <2>1, <2>2, <2>4, <2>5, <2>6, <2>7, GoesWell, RecreatePcs DEF Undone
<1>8. CASE RecreateRename(r)
  <2>1. /\ q.pc = "cRename" /\ row' = row /\ crashes' = crashes
        /\ \/ /\ Went(r, "cPull", q.old, q.new) /\ ctr' = Renamed(q.old, "old")
              /\ Exists(q.old) /\ Named(s, "old") = {} /\ faults' = faults
           \/ /\ Dropped(r, "cDiscard", FALSE, FALSE) /\ ctr' = ctr
              /\ \/ faults' = faults + 1
                 \/ faults' = faults /\ (~Exists(q.old) \/ Named(s, "old") # {})
    BY <1>8, Counted, GoesOn, DropsAll DEF RecreateRename, Call, At
  <2>2. s \in Services /\ q.goal = s
    BY <1>2, <2>1 DEF PcsRecreate
  <2>3. CASE /\ Went(r, "cPull", q.old, q.new) /\ ctr' = Renamed(q.old, "old")
             /\ Exists(q.old) /\ Named(s, "old") = {} /\ faults' = faults
    <3>1. q.old \in Ids /\ q.old # NoId /\ q.old \in Named(s, "live")
      <4>1. q.old \in Ids /\ ctr[q.old].svc = s /\ ctr[q.old] \in Container
        BY <1>1, <1>2, <2>3 DEF Exists, Containers
      <4>2. ctr[q.old].name = "live"
        BY <2>3, <4>1 DEF Container, Named
      <4>3. QED
        BY <2>3, <4>1, <4>2, ValuesAssumption DEF Named
    <3>2. UniqueNames' /\ SameApps /\ Elsewhere(s) /\ Named(s, "live")' = {}
      BY <1>1, <2>3, <3>1, AfterRenamed DEF Names
    <3>3. Updating(req[r])'
      BY <1>3, <2>1, <2>3 DEF PcsRecreate
    <3>4. Place(req[r])'
      BY <2>3, <3>1, <3>2 DEF Place, Went, Targeted, PcsUpdate, Live
    <3>5. MayFollow(req[r].pc, "cPull")
      BY <2>1, RecreateOrder
    <3>6. QED
      BY <2>1, <2>2, <2>3, <3>2, <3>3, <3>4, <3>5, GoesWell, RecreatePcs DEF Undone
  <2>4. CASE /\ Dropped(r, "cDiscard", FALSE, FALSE) /\ ctr' = ctr
             /\ \/ faults' = faults + 1
                \/ faults' = faults /\ (~Exists(q.old) \/ Named(s, "old") # {})
    <3>1. Quiet => Exists(q.old) /\ Named(s, "old") = {}
      BY <1>1, <2>1, Members DEF Place, Live, Aside
    <3>2. ~Quiet'
      BY <1>1, <2>1, <2>4, <3>1 DEF Quiet
    <3>3. QED
      BY <2>1, <2>4, <3>2, RecreateFailsWell DEF PcsRecreate
  <2>5. QED
    BY <2>1, <2>3, <2>4
<1>9. CASE RecreatePull(r)
  <2>1. /\ q.pc = "cPull" /\ row' = row /\ crashes' = crashes /\ ctr' = ctr
        /\ \/ Went(r, "cCreate", q.old, q.new) /\ faults' = faults
           \/ Dropped(r, "cDiscard", FALSE, FALSE) /\ faults' = faults + 1
    BY <1>9, Counted, GoesOn, DropsAll DEF RecreatePull, Call, At
  <2>2. s \in Services /\ q.goal = s
    BY <1>2, <2>1 DEF PcsRecreate
  <2>3. UniqueNames' /\ SameApps /\ Elsewhere(s) /\ \A x, m : Named(x, m)' = Named(x, m)
    BY <1>1, <2>1, SameNames
  <2>4. CASE Went(r, "cCreate", q.old, q.new) /\ faults' = faults
    <3>1. Updating(req[r])'
      BY <1>3, <2>1, <2>4 DEF PcsRecreate
    <3>2. Quiet' => Place(req[r])'
      BY <1>1, <2>1, <2>3, <2>4 DEF Place, Went, Targeted, PcsUpdate, Live, Aside, Quiet
    <3>3. MayFollow(req[r].pc, "cCreate")
      BY <2>1, RecreateOrder
    <3>4. QED
      BY <2>1, <2>2, <2>3, <2>4, <3>1, <3>2, <3>3, GoesWell, RecreatePcs DEF Undone
  <2>5. CASE Dropped(r, "cDiscard", FALSE, FALSE) /\ faults' = faults + 1
    <3>1. ~Quiet'
      BY <1>1, <2>5 DEF Quiet
    <3>2. QED
      BY <2>1, <2>5, <3>1, RecreateFailsWell DEF PcsRecreate
  <2>6. QED
    BY <2>1, <2>4, <2>5
<1>10. CASE RecreateCreate(r)
  <2> DEFINE v == q.snap[s].image
  <2>1. /\ q.pc = "cCreate" /\ row' = row /\ crashes' = crashes
        /\ \/ /\ CreateContainer(r, s, v, "cStart") /\ faults' = faults
              /\ Named(s, "live") = {}
           \/ /\ Dropped(r, "cDiscard", FALSE, FALSE) /\ ctr' = ctr
              /\ faults' = faults + 1 \/ (faults' = faults /\ Named(s, "live") # {})
    BY <1>10, Counted, DropsAll DEF RecreateCreate, Call, At
  <2>2. s \in Services /\ q.goal = s
    BY <1>2, <2>1 DEF PcsRecreate
  <2>3. v \in Versions /\ v = row[s].image
    BY <1>2, <2>1 DEF Row, HoldsRow, PcsRecreate
  <2> HIDE DEF v
  <2>4. CASE /\ CreateContainer(r, s, v, "cStart") /\ faults' = faults
             /\ Named(s, "live") = {}
    <3>1. PICK i \in Ids :
            /\ New(r, i, "cStart") /\ Exists(i)' /\ ~Exists(i) /\ ctr'[i].svc = s
            /\ ctr'[i].image = v /\ ~Runs(i)'
            /\ UniqueNames' /\ Elsewhere(s)
            /\ Named(s, "live")' = {i} /\ Named(s, "old")' = Named(s, "old")
            /\ \A j : j # i => ctr'[j] = ctr[j]
      BY <1>1, <2>2, <2>3, <2>4, AfterCreated
    <3>2. Went(r, "cStart", q.old, i)
      BY <3>1, GoesOn
    <3>3. Updating(req[r])'
      BY <1>3, <2>1, <3>2 DEF PcsRecreate
    <3>4. ASSUME Quiet' PROVE Place(req[r])'
      <4>1. Quiet /\ (q.old = NoId => Aside(q) = {})
        BY <1>1, <2>1, <2>4, <3>4 DEF Place, Quiet
      <4>2. /\ Live(req[r])' = {i} /\ (q.old = NoId => Aside(req[r])' = {})
            /\ row'[n.cur].image = v
        BY <2>1, <2>3, <3>1, <3>2, <4>1 DEF Live, Aside, Went
      <4>3. QED
        BY <3>1, <3>2, <4>2 DEF Place, Went, Targeted, PcsUpdate, Made
    <3>5. MayFollow(req[r].pc, "cStart")
      BY <2>1, RecreateOrder
    <3>6. "cStart" \notin Handless \cup {"rRemove"} \cup Undone \cup Untouched
      BY RecreatePcs DEF Undone
    <3>7. QED
      BY <2>1, <2>2, <2>4, <3>1, <3>2, <3>3, <3>4, <3>5, <3>6, CreatesWell
  <2>5. CASE /\ Dropped(r, "cDiscard", FALSE, FALSE) /\ ctr' = ctr
             /\ faults' = faults + 1 \/ (faults' = faults /\ Named(s, "live") # {})
    <3>1. ~Quiet'
      BY <1>1, <2>1, <2>5 DEF Quiet, Place, Live
    <3>2. QED
      BY <2>1, <2>5, <3>1, RecreateFailsWell DEF PcsRecreate
  <2>6. QED
    BY <2>1, <2>4, <2>5
<1>11. CASE RecreateStart(r)
  <2>1. /\ q.pc = "cStart" /\ row' = row /\ crashes' = crashes
        /\ \/ /\ Went(r, "cReady", q.old, q.new) /\ ctr' = Running(q.new, TRUE) /\ Exists(q.new)
              /\ faults' = faults
           \/ /\ Dropped(r, "cDiscard", FALSE, FALSE) /\ ctr' = ctr
              /\ faults' = faults + 1 \/ (faults' = faults /\ (~Exists(q.new) \/ Runs(q.new)))
    BY <1>11, Counted, GoesOn, DropsAll DEF RecreateStart, Call, At
  <2>2. s \in Services /\ q.goal = s
    BY <1>2, <2>1 DEF PcsRecreate
  <2>3. Quiet => /\ q.new \in Named(s, "live") /\ ~Runs(q.new) /\ Exists(q.new)
                 /\ q.old = NoId => Named(s, "old") = {}
                 /\ \A i \in Named(s, "live") : ctr[i].image = row[s].image
    BY <1>1, <2>1, Members DEF Place, Live, Aside, Made
  <2>4. CASE /\ Went(r, "cReady", q.old, q.new) /\ ctr' = Running(q.new, TRUE) /\ Exists(q.new)
             /\ faults' = faults
    <3>0. q.new \in Ids
      BY <1>2, <2>4
    <3>1. /\ UniqueNames' /\ SameApps /\ Elsewhere(s) /\ \A x, m : Named(x, m)' = Named(x, m)
          /\ \A j \in Ids : ctr'[j].image = ctr[j].image
          /\ Runs(q.new)'
      BY <1>1, <2>4, <3>0, AfterRunning
    <3>2. Updating(req[r])'
      BY <1>3, <2>1, <2>4 DEF PcsRecreate
    <3>3. ASSUME Quiet' PROVE Place(req[r])'
      <4>1. Quiet
        BY <2>1, <2>4, <3>3 DEF Quiet
      <4>2. \A i \in Named(s, "live") : ctr'[i].image = row[s].image
        BY <2>3, <3>1, <4>1, Members
      <4>3. /\ Live(req[r])' = Named(s, "live") /\ Aside(req[r])' = Named(s, "old")
            /\ row'[req'[r].cur] = row[s]
        BY <2>1, <2>4, <3>1 DEF Live, Aside, Went
      <4>4. /\ \A i \in Live(req[r])' : ctr'[i].image = row'[req'[r].cur].image
            /\ q.new \in Live(req[r])' /\ (q.old = NoId => Aside(req[r])' = {})
        BY <2>3, <4>1, <4>2, <4>3
      <4>5. QED
        BY <2>4, <3>1, <4>4 DEF Place, Went, Targeted, PcsUpdate, Made
    <3>4. MayFollow(req[r].pc, "cReady")
      BY <2>1, RecreateOrder
    <3>5. QED
      BY <2>1, <2>2, <2>4, <3>1, <3>2, <3>3, <3>4, GoesWell, RecreatePcs DEF Undone
  <2>5. CASE /\ Dropped(r, "cDiscard", FALSE, FALSE) /\ ctr' = ctr
             /\ faults' = faults + 1 \/ (faults' = faults /\ (~Exists(q.new) \/ Runs(q.new)))
    <3>1. ~Quiet'
      BY <1>1, <2>1, <2>3, <2>5 DEF Quiet
    <3>2. QED
      BY <2>1, <2>5, <3>1, RecreateFailsWell DEF PcsRecreate
  <2>6. QED
    BY <2>1, <2>4, <2>5
<1>12. CASE RecreateReady(r)
  <2>1. /\ q.pc = "cReady" /\ row' = row /\ crashes' = crashes /\ ctr' = ctr
        /\ \/ /\ faults' = faults
              /\ \/ q.old = NoId /\ Went(r, "cSave", q.old, NoId)
                 \/ Went(r, "cDropOld", q.old, NoId)
           \/ /\ Dropped(r, "cDiscard", FALSE, FALSE)
              /\ faults' = faults + 1 \/ (faults' = faults /\ ~Runs(q.new))
    BY <1>12, Counted, GoesOn, DropsAll DEF RecreateReady, Call, At
  <2>2. s \in Services /\ q.goal = s
    BY <1>2, <2>1 DEF PcsRecreate
  <2>3. Quiet => /\ q.new \in Named(s, "live") /\ Runs(q.new)
                 /\ q.old = NoId => Named(s, "old") = {}
                 /\ \A i \in Named(s, "live") : ctr[i].image = row[s].image
    BY <1>1, <2>1 DEF Place, Live, Aside, Made
  <2>4. UniqueNames' /\ SameApps /\ Elsewhere(s) /\ \A x, m : Named(x, m)' = Named(x, m)
    BY <1>1, <2>1, SameNames
  <2>5. ASSUME NEW pc \in {"cSave", "cDropOld"}, Went(r, pc, q.old, NoId), faults' = faults,
               pc = "cSave" => q.old = NoId
        PROVE  Well(r)'
    <3>1. Updating(req[r])'
      BY <1>3, <2>1, <2>5 DEF PcsRecreate
    <3>2. ASSUME Quiet' PROVE Place(req[r])'
      <4>1. Quiet
        BY <2>1, <2>5, <3>2 DEF Quiet
      <4>2. /\ \A i \in Live(req[r])' : ctr'[i].image = row'[req'[r].cur].image
            /\ Live(req[r])' # {} /\ (q.old = NoId => Aside(req[r])' = {})
        BY <2>1, <2>3, <2>4, <2>5, <4>1 DEF Live, Aside, Went
      <4>3. QED
        BY <2>5, <4>2 DEF Place, Went, Targeted, PcsUpdate, Made
    <3>3. MayFollow(req[r].pc, pc)
      BY <2>1, RecreateOrder
    <3>4. QED
      BY <2>1, <2>2, <2>4, <2>5, <3>1, <3>2, <3>3, GoesWell, RecreatePcs DEF Undone
  <2>6. CASE /\ Dropped(r, "cDiscard", FALSE, FALSE)
             /\ faults' = faults + 1 \/ (faults' = faults /\ ~Runs(q.new))
    <3>1. ~Quiet'
      BY <1>1, <2>1, <2>3, <2>6 DEF Quiet
    <3>2. QED
      BY <2>1, <2>6, <3>1, RecreateFailsWell DEF PcsRecreate
  <2>7. QED
    BY <2>1, <2>5, <2>6
<1>13. CASE RecreateDropOld(r)
  <2>0. PICK i : i = Find(s, "old")
    OBVIOUS
  <2>1. /\ q.pc = "cDropOld" /\ row' = row /\ crashes' = crashes
        /\ \/ /\ Went(r, "cSave", q.old, q.new) /\ faults' = faults
              /\ (i = NoId /\ ctr' = ctr) \/ (i # NoId /\ ctr' = Removed(i))
           \/ Dropped(r, "cDiscard", FALSE, FALSE) /\ ctr' = ctr /\ faults' = faults + 1
    BY <1>13, <2>0, Counted, GoesOn, DropsAll DEF RecreateDropOld, Call, At
  <2>2. s \in Services /\ q.goal = s
    BY <1>2, <2>1 DEF PcsRecreate
  <2>3. CASE /\ Went(r, "cSave", q.old, q.new) /\ faults' = faults
             /\ (i = NoId /\ ctr' = ctr) \/ (i # NoId /\ ctr' = Removed(i))
    <3>1. /\ i = NoId => Named(s, "old") = {}
          /\ i # NoId => i \in Named(s, "old")
      BY <1>1, <2>0, Found
    <3>2. /\ UniqueNames' /\ SameApps /\ Elsewhere(s)
          /\ Named(s, "old")' = {} /\ Named(s, "live")' = Named(s, "live")
          /\ \A j : j # i => ctr'[j] = ctr[j]
      BY <1>1, <2>3, <3>1, SameNames, AfterRemoved DEF Names
    <3>3. Updating(req[r])'
      BY <1>3, <2>1, <2>3 DEF PcsRecreate
    <3>4. ASSUME Quiet' PROVE Place(req[r])'
      <4>1. Named(s, "live") # {} /\ \A j \in Named(s, "live") : ctr[j].image = row[s].image
        BY <1>1, <2>1, <2>3, <3>4 DEF Place, Live, Made, Quiet
      <4>2. \A j \in Named(s, "live") : ctr'[j] = ctr[j]
        <5>1. \A j \in Named(s, "live") : i # NoId => j # i
          BY <3>1, Members
        <5>2. QED
          BY <2>3, <3>2, <5>1
      <4>3. /\ \A j \in Live(req[r])' : ctr'[j].image = row'[req'[r].cur].image
            /\ Live(req[r])' # {} /\ Aside(req[r])' = {}
        BY <2>1, <2>3, <3>2, <4>1, <4>2 DEF Live, Aside, Went
      <4>4. QED
        BY <2>3, <4>3 DEF Place, Went, Targeted, PcsUpdate, Made
    <3>5. MayFollow(req[r].pc, "cSave")
      BY <2>1, RecreateOrder
    <3>6. QED
      BY <2>1, <2>2, <2>3, <3>2, <3>3, <3>4, <3>5, GoesWell, RecreatePcs DEF Undone
  <2>4. CASE Dropped(r, "cDiscard", FALSE, FALSE) /\ ctr' = ctr /\ faults' = faults + 1
    <3>1. ~Quiet'
      BY <1>1, <2>4 DEF Quiet
    <3>2. QED
      BY <2>1, <2>4, <3>1, RecreateFailsWell DEF PcsRecreate
  <2>5. QED
    BY <2>1, <2>3, <2>4
<1>14. CASE RecreateSave(r)
  <2> DEFINE now == [q.snap[s] EXCEPT !.installed = TRUE, !.status = "idle"]
  <2>1. /\ q.pc = "cSave" /\ ctr' = ctr /\ faults' = faults /\ crashes' = crashes
        /\ Save(r, s, now) /\ Ended(r)
    BY <1>14, GoesOn DEF RecreateSave, Query, At
  <2>2. /\ s \in Services /\ q.goal = s /\ q.pc \in HoldsRow
        /\ now \in Row /\ now.installed /\ now.image = row[s].image
    BY <1>2, <2>1 DEF PcsRecreate, HoldsRow, Row, Status
  <2>3. row' = [row EXCEPT ![s] = now] /\ row'[s] = now /\ now # NoRow
    <3> HIDE DEF now
    <3> QED
      BY <1>1, <2>1, <2>2, SavesIt, ValuesAssumption
  <2> HIDE DEF now
  <2>4. Quiet => /\ Named(s, "live") # {} /\ Named(s, "old") = {}
                 /\ \A i \in Named(s, "live") : ctr[i].image = row[s].image
    BY <1>1, <2>1 DEF Place, Live, Aside, Made
  <2>5. Quiet => Agrees(s)'
    <3>1. \A m : Named(s, m)' = Named(s, m)
      BY <1>1, <2>1, SameNames
    <3>2. QED
      BY <2>1, <2>2, <2>3, <2>4, <3>1, AgreesMade
  <2>6. QED
    BY <2>1, <2>2, <2>3, <2>5, WritesWell
<1>15. CASE RecreateDiscard(r) \/ RecreateRestore(r) \/ RecreateRestart(r)
  <2>1. q.pc \in {"cDiscard", "cRestore", "cRestart"} /\ row' = row /\ crashes' = crashes
        /\ (faults' = faults \/ faults' = faults + 1)
    BY <1>15, Counted DEF RecreateDiscard, RecreateRestore, RecreateRestart, Call, At
  <2>2. s \in Services /\ q.goal = s
    BY <1>2, <2>1 DEF PcsRecreate
  <2>3. ~Quiet'
    BY <1>1, <2>1, Counted DEF Undone
  <2>4. CASE RecreateDiscard(r)
    <3>0. PICK i : i = Find(s, "live")
      OBVIOUS
    <3>1. /\ q.pc = "cDiscard" /\ (ctr' = ctr \/ (i # NoId /\ ctr' = Removed(i)))
          /\ Went(r, "cRestore", q.old, q.new) \/ Ended(r)
      BY <2>4, <3>0, GoesOn DEF RecreateDiscard, Call, At
    <3>2. UniqueNames' /\ SameApps /\ Elsewhere(s)
      <4>1. i # NoId => i \in Named(s, "live")
        BY <1>1, <3>0, Found
      <4>2. QED
        BY <1>1, <3>1, <4>1, SameNames, AfterRemoved DEF Names
    <3>3. CASE Went(r, "cRestore", q.old, q.new)
      <4>1. Updating(req[r])'
        BY <1>3, <2>1, <3>3 DEF PcsRecreate
      <4>2. MayFollow(req[r].pc, "cRestore")
        BY <3>1, RecreateOrder
      <4>3. QED
        BY <2>1, <2>2, <2>3, <3>2, <3>3, <4>1, <4>2, GoesWell, RecreatePcs
    <3>4. QED
      BY <2>3, <3>1, <3>2, <3>3, EndsWell
  <2>5. CASE RecreateRestore(r)
    <3>0. PICK i : i = Find(s, "old")
      OBVIOUS
    <3>1. /\ q.pc = "cRestore"
          /\ \/ /\ i # NoId /\ Named(s, "live") = {}
                /\ ctr' = Renamed(i, "live") /\ Went(r, "cRestart", i, q.new)
             \/ ctr' = ctr /\ Ended(r)
      BY <2>5, <3>0, GoesOn DEF RecreateRestore, Call, At
    <3>2. i # NoId => i \in Named(s, "old")
      BY <1>1, <3>0, Found
    <3>3. UniqueNames' /\ SameApps /\ Elsewhere(s)
      BY <1>1, <3>1, <3>2, SameNames, AfterRenamed DEF Names
    <3>4. CASE i # NoId /\ Went(r, "cRestart", i, q.new)
      <4>1. Updating(req[r])'
        BY <1>3, <2>1, <3>4 DEF PcsRecreate
      <4>2. MayFollow(req[r].pc, "cRestart")
        BY <3>1, RecreateOrder
      <4>3. i \in Aside(req[r])
        BY <3>2, <3>4 DEF Aside
      <4>4. QED
        BY <2>1, <2>2, <2>3, <3>3, <3>4, <4>1, <4>2, <4>3, GoesWell, RecreatePcs
    <3>5. QED
      BY <2>3, <3>1, <3>3, <3>4, EndsWell
  <2>6. CASE RecreateRestart(r)
    <3>1. Ended(r) /\ (ctr' = ctr \/ (ctr' = Running(q.old, TRUE) /\ Exists(q.old)))
      BY <2>6, GoesOn DEF RecreateRestart, Call
    <3>2. UniqueNames'
      BY <1>1, <1>2, <3>1, SameNames, AfterRunning
    <3>3. QED
      BY <2>3, <3>1, <3>2, EndsWell
  <2>7. QED
    BY <1>15, <2>4, <2>5, <2>6
<1>16. QED
  BY <1>4, <1>5, <1>6, <1>7, <1>8, <1>9, <1>10, <1>11, <1>12, <1>13, <1>14, <1>15
     DEF RecreateStep

-----------------------------------------------------------------------------
(* affectContainer and _syncContainersWithDatabase.                        *)

LEMMA ActWell ==
  ASSUME IInv, NEW r \in Requests, NEW q, q = req[r], Well(r), Act(r)
  PROVE  Well(r)'
<1>1. /\ ctr \in Containers /\ UniqueNames
      /\ Quiet /\ q.pc \in Untouched => \A x \in Services : Agrees(x)
      /\ Exists(q.old) => q.old \in Ids
  BY Knows
<1> DEFINE b == q.op = "start"
<1>2. /\ q.pc = "act" /\ row' = row /\ crashes' = crashes /\ Ended(r)
      /\ faults' = faults \/ faults' = faults + 1
      /\ ctr' = ctr \/ (ctr' = Running(q.old, b) /\ Exists(q.old))
  BY Counted, GoesOn DEF Act, Call, At
<1>3. ctr' = ctr \/ (Exists(q.old) /\ \E c \in BOOLEAN : ctr' = Running(q.old, c))
  <2>1. CASE b
    <3>1. b = TRUE
      BY <2>1
    <3> HIDE DEF b
    <3>2. QED
      BY <1>2, <3>1
  <2>2. CASE ~b
    <3>1. b = FALSE
      BY <2>2
    <3> HIDE DEF b
    <3>2. QED
      BY <1>2, <3>1
  <2>3. QED
    BY <2>1, <2>2
<1>4. /\ UniqueNames' /\ \A x, m : Named(x, m)' = Named(x, m)
      /\ \A j \in Ids : ctr'[j].image = ctr[j].image
  BY <1>1, <1>3, SameNames, AfterRunning
<1>5. Quiet' => \A x \in Services : Agrees(x)'
  BY <1>1, <1>2, <1>4, Counted, AgreesStill, Members DEF Untouched
<1>6. QED
  BY <1>2, <1>4, <1>5, EndsWell

LEMMA SyncWell ==
  ASSUME IInv, NEW r \in Requests, NEW q, q = req[r], Well(r), SyncStep(r)
  PROVE  Well(r)'
<1> DEFINE n == req'[r]
<1>1. /\ q \in Request /\ q \in Held /\ row \in Rows /\ faults \in Nat
      /\ UniqueNames /\ Belongs(q) /\ UpToDate(q) /\ Updating(q)
      /\ Quiet => Place(q) /\ OthersAgree(q)
      /\ Quiet /\ q.pc \in Untouched => \A x \in Services : Agrees(x)
  BY Knows, ReqType
<1>2. CASE SyncList(r)
  <2> DEFINE live == {s \in Services : Named(s, "live") # {}}
             pending == {s \in Services : q.snap[s] # NoRow}
  <2>1. PICK S \in SUBSET Services :
          /\ Becomes(r, [q EXCEPT !.pc = "syncSave", !.seen = S, !.pending = pending])
          /\ q.pc = "syncList" /\ row' = row /\ ctr' = ctr /\ crashes' = crashes
          /\ (faults' = faults /\ S = live) \/ faults' = faults + 1
    <3>1. ASSUME NEW S
          PROVE  Becomes(r, [q EXCEPT !.pc = "syncSave", !.seen = S,
                                      !.pending = {s \in Services : q.snap[s] # NoRow}])
                   <=> Becomes(r, [q EXCEPT !.pc = "syncSave", !.seen = S, !.pending = pending])
      OBVIOUS
    <3>2. {} \in SUBSET Services /\ live \in SUBSET Services
      OBVIOUS
    <3> HIDE DEF pending
    <3>3. QED
      BY <1>2, <3>1, <3>2, Counted DEF SyncList, Call, At
  <2>2. /\ n.op = q.op /\ n.goal = q.goal /\ n.cur = q.cur /\ n.snap = q.snap
        /\ n.old = q.old /\ n.new = q.new /\ n.pc = "syncSave" /\ n.seen = S
        /\ n.pending = pending
    <3> HIDE DEF pending
    <3>1. n = [q EXCEPT !.pc = "syncSave", !.seen = S, !.pending = pending]
      BY <2>1 DEF Becomes, IInv, TypeOK
    <3>2. QED
      BY <1>1, <3>1 DEF Request
  <2>3. UniqueNames' /\ SameApps /\ Elsewhere(q.cur) /\ \A x, m : Named(x, m)' = Named(x, m)
    BY <1>1, <2>1, SameNames
  <2>4. Belongs(req[r])'
    BY <1>1, <2>1, <2>2, BelongsBare DEF Belongs, Handless, Sweeping
  <2>5. Updating(req[r])'
    BY <1>1, <2>1, <2>2, NotUpdating DEF PcsUpdate
  <2>6. UpToDate(req[r])'
    <3>1. q.snap = row
      BY <1>1, <2>1 DEF UpToDate
    <3>2. Reconciling(req[r])'
      BY <2>1, <2>2, <3>1 DEF Reconciling
    <3>3. QED
      BY <2>2, <3>2 DEF UpToDate, HoldsRow, Installs, Targeted, PcsUpdate, PcsReinstall, PcsRecreate
  <2>7. ASSUME Quiet' PROVE Quietly(req[r])'
    <3>1. Quiet /\ S = live
      BY <1>1, <2>1, <2>7 DEF Quiet
    <3>2. \A x \in Services : Agrees(x)'
      BY <1>1, <2>1, <2>3, <3>1, AgreesStill DEF Untouched, Sweeping
    <3>3. OthersAgree(req[r])'
      BY <1>1, <2>1, <2>2, <2>3, <3>1, OthersAgreeStill
    <3>4. Place(req[r])'
      BY <2>2, <2>3, <3>1 DEF Place, Targeted, PcsUpdate
    <3>5. QED
      BY <2>2, <3>2, <3>3, <3>4 DEF Quietly, Undone
  <2>8. QED
    BY <2>3, <2>4, <2>5, <2>6, <2>7 DEF Well
<1>3. ASSUME NEW s \in Services, SyncSave(r, s) PROVE Well(r)'
  <2> DEFINE was == q.snap[s]
  <2>0. PICK b \in BOOLEAN : b <=> s \in q.seen
    <3>1. CASE s \in q.seen
      BY <3>1
    <3>2. CASE s \notin q.seen
      BY <3>2
    <3>3. QED
      BY <3>1, <3>2
  <2> DEFINE now == [was EXCEPT !.installed = b, !.status = "idle"]
  <2>1. /\ q.pc = "syncSave" /\ s \in q.pending /\ ctr' = ctr /\ faults' = faults
        /\ crashes' = crashes
        /\ Becomes(r, [q EXCEPT !.pending = @ \ {s}])
    BY <1>3 DEF SyncSave, Query, At
  <2>2. /\ was \in Row /\ row[s] = was /\ row[s] # NoRow
        /\ \A t \in Services : q.snap[t] = NoRow <=> row[t] = NoRow
        /\ \A t \in q.pending : row[t] = q.snap[t]
        /\ \A t \in Services \ q.pending : row[t] # NoRow => (row[t].installed <=> t \in q.seen)
    BY <1>1, <2>1, ValuesAssumption DEF Held, UpToDate, Reconciling, Request
  <2>3. \/ row' = row /\ (was.installed <=> s \in q.seen)
        \/ Save(r, s, now) /\ ~(was.installed <=> s \in q.seen)
    <3>1. was.installed \in BOOLEAN
      BY <2>2 DEF Row
    <3>2. b = (s \in q.seen)
      BY <2>0
    <3>3. IF was.installed = b THEN row' = row ELSE Save(r, s, now)
      BY <1>3, <3>2 DEF SyncSave, Query
    <3>4. (was.installed = b) <=> (was.installed <=> s \in q.seen)
      BY <2>0, <3>1
    <3> HIDE DEF now
    <3>5. QED
      BY <3>3, <3>4
  <2>4. now \in Row /\ (now.installed <=> s \in q.seen) /\ now # NoRow
    BY <2>0, <2>2, ValuesAssumption DEF Row, Status
  <2>5. Written(was, was, now) = now
    <3> HIDE DEF now
    <3> QED
      BY <2>2, <2>4, ValuesAssumption DEF Written, Row
  <2> HIDE DEF now
  <2>6. /\ \A t \in Services : t # s => row'[t] = row[t]
        /\ row'[s] # NoRow /\ (row'[s].installed <=> s \in q.seen)
        /\ (was.installed <=> s \in q.seen) => row' = row
    BY <1>1, <2>2, <2>3, <2>4, <2>5 DEF Save, Rows
  <2>7. /\ n.op = q.op /\ n.goal = q.goal /\ n.cur = q.cur /\ n.snap = q.snap
        /\ n.old = q.old /\ n.new = q.new /\ n.pc = "syncSave" /\ n.seen = q.seen
        /\ n.pending = q.pending \ {s}
    <3>1. n = [q EXCEPT !.pending = @ \ {s}]
      BY <2>1 DEF Becomes, IInv, TypeOK
    <3>2. QED
      BY <1>1, <2>1, <3>1 DEF Request
  <2>8. UniqueNames' /\ SameApps /\ Elsewhere(q.cur) /\ \A x, m : Named(x, m)' = Named(x, m)
    BY <1>1, <2>1, SameNames
  <2>9. Belongs(req[r])'
    BY <1>1, <2>1, <2>7, BelongsBare DEF Belongs, Handless, Sweeping
  <2>10. Updating(req[r])'
    BY <1>1, <2>1, <2>7, NotUpdating DEF PcsUpdate
  <2>11. UpToDate(req[r])'
    <3>1. ASSUME NEW t \in Services
          PROVE  /\ n.snap[t] = NoRow <=> row'[t] = NoRow
                 /\ t \in n.pending => row'[t] = n.snap[t]
                 /\ t \notin n.pending /\ row'[t] # NoRow => (row'[t].installed <=> t \in n.seen)
      <4>1. CASE t = s
        BY <2>2, <2>6, <2>7, <4>1
      <4>2. CASE t # s
        BY <2>2, <2>6, <2>7, <4>2
      <4>3. QED
        BY <4>1, <4>2
    <3>2. Reconciling(req[r])'
      BY <3>1 DEF Reconciling
    <3>3. QED
      BY <2>7, <3>2 DEF UpToDate, HoldsRow, Installs, Targeted, PcsUpdate, PcsReinstall, PcsRecreate
  <2>12. ASSUME Quiet' PROVE Quietly(req[r])'
    <3>1. /\ Quiet /\ Place(q) /\ OthersAgree(q) /\ \A x \in Services : Agrees(x)
      BY <1>1, <2>1, <2>12 DEF Quiet, Untouched, Sweeping
    <3>2. q.seen = {t \in Services : Named(t, "live") # {}}
      BY <2>1, <3>1 DEF Place
    <3>3. row' = row
      BY <2>2, <2>6, <3>1, <3>2 DEF Agrees
    <3>4. \A x \in Services : Agrees(x)'
      BY <2>1, <2>8, <3>1, <3>3, AgreesStill
    <3>5. OthersAgree(req[r])'
      BY <2>7, <2>8, <3>1, <3>3, OthersAgreeStill
    <3>6. Place(req[r])'
      BY <2>7, <2>8, <3>2 DEF Place, Targeted, PcsUpdate
    <3>7. QED
      BY <2>7, <3>4, <3>5, <3>6 DEF Quietly, Undone
  <2>13. QED
    BY <2>8, <2>9, <2>10, <2>11, <2>12 DEF Well
<1>4. CASE SyncEnd(r)
  <2>1. /\ q.pc = "syncSave" /\ row' = row /\ ctr' = ctr /\ faults' = faults /\ crashes' = crashes
        /\ Ended(r)
    BY <1>4, GoesOn DEF SyncEnd, Query, At
  <2>2. UniqueNames' /\ \A x, m : Named(x, m)' = Named(x, m)
    BY <1>1, <2>1, SameNames
  <2>3. Quiet' => \A x \in Services : Agrees(x)'
    BY <1>1, <2>1, <2>2, AgreesStill DEF Untouched, Sweeping, Quiet
  <2>4. QED
    BY <2>1, <2>2, <2>3, EndsWell
<1>5. QED
  BY <1>2, <1>3, <1>4 DEF SyncStep

-----------------------------------------------------------------------------
(* Requests arrive, containers exit, processes crash.                      *)

LEMMA AskedIs ==
  ASSUME NEW op, NEW s, NEW pc, NEW n, n = Asked(op, s, pc)
  PROVE  /\ n.op = op /\ n.pc = pc /\ n.goal = s /\ n.cur = s
         /\ n.old = NoId /\ n.new = NoId /\ ~n.up /\ ~n.ok /\ n.snap = Idle.snap
  BY DEF Asked, Idle

(* While nothing is in progress and nothing has failed, everything agrees. *)
LEMMA IdleAgrees ==
  ASSUME NEW r \in Requests, req[r] = Idle, Well(r)
  PROVE  Quiet => \A x \in Services : Agrees(x)
  BY DEF Idle, Well, Quietly, Untouched, Sweeping

LEMMA ArrivesWell ==
  ASSUME IInv, NEW r \in Requests, NEW op \in Operations \ {"update"}, NEW s \in Services,
         NEW pc \in {"mark", "rMark", "xFind", "cFind"}, Arrives(r, op, s, pc), Well(r),
         pc = "mark" => ~row[s].installed
  PROVE  Well(r)'
<1> DEFINE n == req'[r]
<1>1. /\ row' = row /\ ctr' = ctr /\ faults' = faults /\ crashes' = crashes
      /\ req[r] = Idle /\ row[s] \in Row /\ UniqueNames
      /\ n = Holding(Asked(op, s, pc), s, row[s], pc)
  BY Typed DEF Arrives, Rows, Well, Becomes, IInv, TypeOK
<1>2. /\ n.op = op /\ n.pc = pc /\ n.goal = s /\ n.cur = s /\ n.old = NoId /\ n.new = NoId
      /\ n.snap[s] = row[s]
  <2>1. PICK a : a = Asked(op, s, pc)
    OBVIOUS
  <2>2. a \in Request /\ a.op = op /\ a.goal = s /\ a.cur = s /\ a.old = NoId /\ a.new = NoId
    <3>1. pc \in Pcs
      BY DEF Pcs, PcsCreate, PcsReinstall, PcsRemove, PcsRecreate
    <3>2. QED
      BY <2>1, <3>1, AskedType, AskedIs
  <2>3. n = Holding(a, s, row[s], pc)
    BY <1>1, <2>1
  <2>4. QED
    BY <2>2, <2>3 DEF Holding, Request
<1>3. UniqueNames' /\ \A x, m : Named(x, m)' = Named(x, m)
  BY <1>1, SameNames
<1>4. Belongs(req[r])'
  BY <1>2, BelongsBare
<1>5. UpToDate(req[r])'
  BY <1>1, <1>2 DEF UpToDate, Installs
<1>6. Updating(req[r])'
  BY <1>2 DEF Updating, PcsUpdate
<1>7. ASSUME Quiet' PROVE Quietly(req[r])'
  <2>1. \A x \in Services : Agrees(x) /\ Agrees(x)'
    BY <1>1, <1>3, <1>7, IdleAgrees, AgreesStill DEF Quiet
  <2>2. Named(s, "old")' = {}
    BY <2>1 DEF Agrees
  <2>3. Place(req[r])'
    BY <1>1, <1>2, <2>2 DEF Place, Targeted, PcsUpdate, Aside
  <2>4. QED
    BY <1>2, <2>1, <2>3 DEF Quietly, Undone, OthersAgree
<1>8. QED
  BY <1>3, <1>4, <1>5, <1>6, <1>7 DEF Well

LEMMA ArrivalWell ==
  ASSUME IInv, NEW r \in Requests, Arrival(r), Well(r)
  PROVE  Well(r)'
<1> DEFINE n == req'[r]
<1>0. UniqueNames /\ row \in Rows /\ ctr \in Containers
  BY Typed DEF Well
<1>1. CASE \E s \in Services : Install(r, s) \/ Reinstall(r, s) \/ Uninstall(r, s)
                                 \/ Delete(r, s) \/ PullLatest(r, s)
  BY <1>1, ArrivesWell
     DEF Install, Reinstall, Uninstall, Delete, PullLatest, Operations, Installable
<1>2. ASSUME NEW s \in Services, NEW v \in Versions, CreateCustom(r, s, v)
      PROVE  Well(r)'
  <2> DEFINE x == [installed |-> FALSE, status |-> "idle", image |-> v]
  <2>1. /\ req[r] = Idle /\ row[s] = NoRow /\ row' = [row EXCEPT ![s] = x]
        /\ ctr' = ctr /\ faults' = faults /\ crashes' = crashes
        /\ n = Asked("install", s, "check")
    BY <1>2 DEF CreateCustom, Becomes, IInv, TypeOK
  <2>2. ~x.installed
    OBVIOUS
  <2> HIDE DEF x
  <2>3. ~row'[s].installed /\ \A t \in Services : t # s => row'[t] = row[t]
    BY <1>0, <2>1, <2>2 DEF Rows
  <2>4. /\ n.op = "install" /\ n.pc = "check" /\ n.goal = s /\ n.cur = s
        /\ n.old = NoId /\ n.new = NoId
    BY <2>1, AskedIs
  <2>5. UniqueNames' /\ \A t, m : Named(t, m)' = Named(t, m)
    BY <1>0, <2>1, SameNames
  <2>6. Belongs(req[r])'
    BY <2>4, BelongsBare
  <2>7. UpToDate(req[r])'
    BY <2>4, UpToDateBare DEF HoldsRow, Installs, Targeted, PcsUpdate, PcsReinstall, PcsRecreate
  <2>8. Updating(req[r])'
    BY <2>4 DEF Updating, PcsUpdate
  <2>9. ASSUME Quiet' PROVE Quietly(req[r])'
    <3>1. \A t \in Services : Agrees(t)
      BY <2>1, <2>9, IdleAgrees DEF Quiet
    <3>2. Agrees(s)'
      <4>1. Named(s, "live") = {} /\ Named(s, "old") = {}
        BY <2>1, <3>1 DEF Agrees
      <4>2. QED
        BY <2>3, <2>5, <4>1, AgreesGone
    <3>3. \A t \in Services : Agrees(t)'
      BY <2>1, <2>3, <2>5, <3>1, <3>2, AgreesStill
    <3>4. Place(req[r])'
      BY <2>4 DEF Place, Targeted, PcsUpdate
    <3>5. QED
      BY <2>4, <3>3, <3>4 DEF Quietly, Undone, OthersAgree
  <2>10. QED
    BY <2>5, <2>6, <2>7, <2>8, <2>9 DEF Well
<1>3. ASSUME NEW s \in Services, NEW v \in Versions, Edit(r, s, v)
      PROVE  Well(r)'
  <2>1. /\ req[r] = Idle /\ row[s] # NoRow /\ row' = [row EXCEPT ![s].image = v]
        /\ ctr' = ctr /\ faults' = faults /\ crashes' = crashes
        /\ n = Asked("edit", s, "cRead")
    BY <1>3 DEF Edit, Becomes, IInv, TypeOK
  <2>2. row'[s] # NoRow /\ \A t \in Services : t # s => row'[t] = row[t]
    <3>1. row[s] \in Row /\ [row[s] EXCEPT !.image = v] \in Row
      BY <1>0, <2>1 DEF Rows, Row
    <3>2. row'[s] = [row[s] EXCEPT !.image = v]
      BY <1>0, <2>1 DEF Rows
    <3>3. QED
      BY <1>0, <2>1, <3>1, <3>2, ValuesAssumption DEF Rows
  <2>3. /\ n.op = "edit" /\ n.pc = "cRead" /\ n.goal = s /\ n.cur = s
        /\ n.old = NoId /\ n.new = NoId
    BY <2>1, AskedIs
  <2>4. UniqueNames' /\ \A t, m : Named(t, m)' = Named(t, m)
    BY <1>0, <2>1, SameNames
  <2>5. Belongs(req[r])'
    BY <2>3, BelongsBare
  <2>6. UpToDate(req[r])'
    BY <2>3, UpToDateBare DEF HoldsRow, Installs, Targeted, PcsUpdate, PcsReinstall, PcsRecreate
  <2>7. Updating(req[r])'
    BY <2>3 DEF Updating, PcsUpdate
  <2>8. ASSUME Quiet' PROVE Quietly(req[r])'
    <3>1. \A t \in Services : Agrees(t)
      BY <2>1, <2>8, IdleAgrees DEF Quiet
    <3>2. \A t \in Services : t # s => Agrees(t)'
      BY <2>1, <2>2, <2>4, <3>1, AgreesStill
    <3>3. Named(s, "old")' = {}
      BY <2>4, <3>1 DEF Agrees
    <3>4. Place(req[r])'
      BY <2>2, <2>3, <3>3 DEF Place, Targeted, PcsUpdate, Aside
    <3>5. QED
      BY <2>3, <3>2, <3>4 DEF Quietly, Undone, Untouched, Sweeping, OthersAgree
  <2>9. QED
    BY <2>4, <2>5, <2>6, <2>7, <2>8 DEF Well
<1>4. ASSUME NEW s \in Services, NEW v \in Versions, Update(r, s, v)
      PROVE  Well(r)'
  <2> DEFINE h == Holding(Asked("update", s, "uMark"), s, row[s], "uMark")
  <2>1. /\ req[r] = Idle /\ row[s] # NoRow /\ row' = row
        /\ ctr' = ctr /\ faults' = faults /\ crashes' = crashes
        /\ \/ n = Asked("update", s, "uFinally")
           \/ n = [h EXCEPT !.target = v] /\ row[s].installed
    BY <1>4 DEF Update, Becomes, IInv, TypeOK
  <2>2. UniqueNames' /\ \A t, m : Named(t, m)' = Named(t, m)
    BY <1>0, <2>1, SameNames
  <2>3. Quiet' => \A t \in Services : Agrees(t)'
    BY <2>1, <2>2, IdleAgrees, AgreesStill DEF Quiet
  <2>4. CASE n = Asked("update", s, "uFinally")
    <3>1. /\ n.op = "update" /\ n.pc = "uFinally" /\ n.goal = s /\ n.cur = s
          /\ n.old = NoId /\ n.new = NoId /\ ~n.up
      BY <2>4, AskedIs
    <3>2. Belongs(req[r])'
      BY <3>1, BelongsBare
    <3>3. UpToDate(req[r])'
      BY <3>1, UpToDateBare DEF HoldsRow, Installs, Targeted, PcsUpdate, PcsReinstall, PcsRecreate
    <3>4. Updating(req[r])'
      BY <3>1 DEF Updating, PcsUpdate
    <3>5. Place(req[r])'
      BY <3>1 DEF Place, Targeted, PcsUpdate
    <3>6. Quiet' => Quietly(req[r])'
      BY <2>3, <3>1, <3>5 DEF Quietly, Undone, OthersAgree
    <3>7. QED
      BY <2>2, <3>2, <3>3, <3>4, <3>6 DEF Well
  <2>5. CASE n = [h EXCEPT !.target = v] /\ row[s].installed
    <3>1. /\ n.op = "update" /\ n.pc = "uMark" /\ n.goal = s /\ n.cur = s
          /\ n.old = NoId /\ n.new = NoId /\ n.snap[s] = row[s]
      <4>1. PICK a : a = Asked("update", s, "uMark")
        OBVIOUS
      <4>2. a.op = "update" /\ a.old = NoId /\ a.new = NoId /\ a \in Request
        <5>1. "uMark" \in Pcs /\ "update" \in Operations
          BY DEF Pcs, PcsUpdate, Operations
        <5>2. QED
          BY <4>1, <5>1, AskedType, AskedIs
      <4>3. h = Holding(a, s, row[s], "uMark")
        BY <4>1
      <4>4. /\ h \in Request /\ h.pc = "uMark" /\ h.goal = s /\ h.cur = s /\ h.snap[s] = row[s]
        BY <1>0, <2>1, ArrivesHeld DEF Rows, Operations
      <4> HIDE DEF h
      <4>5. h.op = "update" /\ h.old = NoId /\ h.new = NoId
        BY <4>2, <4>3 DEF Holding, Request
      <4>6. QED
        BY <2>5, <4>4, <4>5 DEF Request
    <3>2. Belongs(req[r])'
      BY <3>1, BelongsBare
    <3>3. UpToDate(req[r])'
      BY <2>1, <3>1 DEF UpToDate, Installs
    <3>4. Updating(req[r])'
      BY <3>1 DEF Updating, PcsUpdate
    <3>5. Place(req[r])'
      BY <2>1, <2>5, <3>1 DEF Place, Targeted, PcsUpdate
    <3>6. Quiet' => Quietly(req[r])'
      BY <2>3, <3>1, <3>5 DEF Quietly, Undone, OthersAgree
    <3>7. QED
      BY <2>2, <3>2, <3>3, <3>4, <3>6 DEF Well
  <2>6. QED
    BY <2>1, <2>4, <2>5
<1>5. ASSUME NEW s \in Services, NEW op \in {"start", "stop"}, Affect(r, op, s)
      PROVE  Well(r)'
  <2>0. PICK i : i = Find(s, "live")
    OBVIOUS
  <2>1. /\ req[r] = Idle /\ row' = row /\ i # NoId
        /\ ctr' = ctr /\ faults' = faults /\ crashes' = crashes
        /\ n = [Asked(op, s, "act") EXCEPT !.old = i]
    BY <1>5, <2>0 DEF Affect, Becomes, IInv, TypeOK
  <2>2. /\ n.op = op /\ n.pc = "act" /\ n.goal = s /\ n.cur = s /\ n.old = i /\ n.new = NoId
    BY <2>1 DEF Asked, Idle
  <2>3. i \in Named(s, "live")
    BY <1>0, <2>0, <2>1, Found
  <2>4. UniqueNames' /\ \A t, m : Named(t, m)' = Named(t, m)
    BY <1>0, <2>1, SameNames
  <2>5. Belongs(req[r])'
    BY <2>1, <2>2, <2>3, Members DEF Belongs, Exists, Handless, Sweeping, PcsCreate
  <2>6. UpToDate(req[r])'
    BY <2>2, UpToDateBare DEF HoldsRow, Installs, Targeted, PcsUpdate, PcsReinstall, PcsRecreate
  <2>7. Updating(req[r])'
    BY <2>2 DEF Updating, PcsUpdate
  <2>8. ASSUME Quiet' PROVE Quietly(req[r])'
    <3>1. \A t \in Services : Agrees(t)'
      BY <2>1, <2>4, <2>8, IdleAgrees, AgreesStill DEF Quiet
    <3>2. Place(req[r])'
      BY <2>2 DEF Place, Targeted, PcsUpdate
    <3>3. QED
      BY <2>2, <3>1, <3>2 DEF Quietly, Undone, OthersAgree
  <2>9. QED
    BY <2>4, <2>5, <2>6, <2>7, <2>8 DEF Well
<1>6. CASE Sync(r)
  <2>1. /\ req[r] = Idle /\ row' = row /\ ctr' = ctr /\ faults' = faults /\ crashes' = crashes
        /\ n = [Idle EXCEPT !.op = "sync", !.pc = "syncList", !.snap = row]
    BY <1>6 DEF Sync, Becomes, IInv, TypeOK
  <2>2. /\ n.op = "sync" /\ n.pc = "syncList" /\ n.goal = NoService /\ n.cur = NoService
        /\ n.old = NoId /\ n.new = NoId /\ n.snap = row
    BY <2>1 DEF Idle
  <2>3. UniqueNames' /\ \A t, m : Named(t, m)' = Named(t, m)
    BY <1>0, <2>1, SameNames
  <2>4. Belongs(req[r])'
    BY <2>2, BelongsBare
  <2>5. UpToDate(req[r])'
    BY <2>1, <2>2 DEF UpToDate, HoldsRow, Installs, Targeted, PcsUpdate, PcsReinstall, PcsRecreate
  <2>6. Updating(req[r])'
    BY <2>2 DEF Updating, PcsUpdate
  <2>7. ASSUME Quiet' PROVE Quietly(req[r])'
    <3>1. \A t \in Services : Agrees(t)'
      BY <2>1, <2>3, <2>7, IdleAgrees, AgreesStill DEF Quiet
    <3>2. Place(req[r])'
      BY <2>2 DEF Place, Targeted, PcsUpdate
    <3>3. OthersAgree(req[r])'
      BY <2>2, <3>1, ServicesAssumption DEF OthersAgree
    <3>4. QED
      BY <2>2, <3>1, <3>2, <3>3 DEF Quietly, Undone
  <2>8. QED
    BY <2>3, <2>4, <2>5, <2>6, <2>7 DEF Well
<1>7. QED
  BY <1>1, <1>2, <1>3, <1>4, <1>5, <1>6 DEF Arrival

(* A container that exits counts as a failure.                             *)
LEMMA ExitsWell ==
  ASSUME IInv, NEW r \in Requests, NEW i \in Ids, Exits(i), Well(r)
  PROVE  Well(r)'
<1>1. /\ ctr \in Containers /\ faults \in Nat
      /\ UniqueNames /\ Belongs(req[r]) /\ UpToDate(req[r]) /\ Updating(req[r])
  BY Typed, Counted DEF Well
<1>2. /\ Exists(i) /\ ctr' = Running(i, FALSE) /\ faults' = faults + 1
      /\ row' = row /\ req' = req
  BY Counted DEF Exits, Runs
<1>3. /\ UniqueNames' /\ SameApps /\ \A x, m : Named(x, m)' = Named(x, m)
      /\ ~Runs(i)' /\ \A j : j # i => (Runs(j)' <=> Runs(j))
  BY <1>1, <1>2, AfterRunning
<1>4. Belongs(req[r])'
  BY <1>1, <1>2, <1>3, BelongsStill DEF Belongs
<1>5. UpToDate(req[r])'
  BY <1>1, <1>2 DEF UpToDate, Reconciling
<1>6. Updating(req[r])'
  <2>1. Live(req[r])' = Live(req[r]) /\ Aside(req[r])' = Aside(req[r])
    BY <1>2, <1>3 DEF Live, Aside
  <2>2. faults' >= 1 /\ (faults >= 1 => ~(faults' <= 1))
    BY <1>1, <1>2
  <2>3. ~Runs(req[r].new) => ~Runs(req[r].new)'
    <3>1. PICK j : j = req[r].new
      OBVIOUS
    <3>2. ~Runs(j) => ~Runs(j)'
      BY <1>3
    <3>3. QED
      BY <1>2, <3>1, <3>2 DEF Runs, Exists
  <2>4. QED
    BY <1>1, <1>2, <2>1, <2>2, <2>3 DEF Updating
<1>7. ~Quiet'
  BY <1>1, <1>2 DEF Quiet
<1>8. QED
  BY <1>3, <1>4, <1>5, <1>6, <1>7 DEF Well

LEMMA CrashWell ==
  ASSUME IInv, NEW r \in Requests, NEW p \in Processes, Crash(p), Well(r)
  PROVE  Well(r)'
<1>1. /\ row' = row /\ ctr' = ctr /\ faults' = faults /\ ~Quiet'
      /\ Ended(r) \/ req'[r] = req[r]
  BY Counted DEF Crash, Quiet, Ended
<1>2. /\ UniqueNames' /\ SameApps /\ \A x, m : Named(x, m)' = Named(x, m)
      /\ \A i : Runs(i)' <=> Runs(i)
  BY <1>1, SameNames DEF Well
<1>3. CASE Ended(r)
  BY <1>1, <1>2, <1>3, EndsWell
<1>4. CASE req'[r] = req[r]
  <2>1. Belongs(req[r])'
    BY <1>2, <1>4, BelongsStill DEF Belongs, Well
  <2>2. UpToDate(req[r])'
    BY <1>1, <1>4 DEF UpToDate, Reconciling, Well
  <2>3. Live(req[r])' = Live(req[r]) /\ Aside(req[r])' = Aside(req[r])
    BY <1>2, <1>4 DEF Live, Aside
  <2>4. Updating(req[r])'
    BY <1>1, <1>2, <1>4, <2>3 DEF Updating, Well
  <2>5. QED
    BY <1>1, <1>2, <2>1, <2>2, <2>4 DEF Well
<1>5. QED
  BY <1>1, <1>3, <1>4

-----------------------------------------------------------------------------
(* The invariant holds at the start and after every step.                  *)

LEMMA InitWell ==
  ASSUME Init, NEW r \in Requests
  PROVE  Well(r)
<1>1. /\ \A i : i \in Ids => ~Exists(i)
      /\ req[r] = Idle /\ \A s \in Services : row[s] = NoRow \/ ~row[s].installed
  BY DEF Init, Exists
<1>2. \A s, m : Named(s, m) = {}
  BY <1>1 DEF Named
<1>3. /\ req[r].pc = "idle" /\ req[r].old = NoId /\ req[r].new = NoId /\ req[r].op = "none"
      /\ req[r].cur = NoService /\ req[r].goal = NoService
  BY <1>1 DEF Idle
<1>4. UniqueNames
  BY <1>1 DEF UniqueNames
<1>5. Belongs(req[r])
  BY <1>3 DEF Belongs, Exists
<1>6. UpToDate(req[r])
  BY <1>3 DEF UpToDate, HoldsRow, Installs, Targeted, PcsUpdate, PcsReinstall, PcsRecreate
<1>7. Updating(req[r])
  BY <1>3 DEF Updating, PcsUpdate
<1>8. \A s \in Services : Agrees(s)
  BY <1>1, <1>2 DEF Agrees
<1>9. Place(req[r])
  BY <1>3 DEF Place, Targeted, PcsUpdate
<1>10. Quietly(req[r])
  BY <1>3, <1>8, <1>9, ServicesAssumption DEF Quietly, Undone, OthersAgree
<1>11. QED
  BY <1>4, <1>5, <1>6, <1>7, <1>10 DEF Well

LEMMA StepWell ==
  ASSUME IInv, NEW r \in Requests, Step(r), Well(r)
  PROVE  Well(r)'
BY CreateWell, ReinstallWell, UpdateWell, RemoveWell, RecreateWell, ActWell, SyncWell DEF Step

LEMMA StillWell ==
  ASSUME NEW r \in Requests, Well(r), UNCHANGED vars
  PROVE  Well(r)'
<1>1. /\ UniqueNames' /\ SameApps /\ \A x, m : Named(x, m)' = Named(x, m)
      /\ \A i : Runs(i)' <=> Runs(i)
  BY SameNames DEF Well, vars
<1>2. row' = row /\ ctr' = ctr /\ req'[r] = req[r] /\ faults' = faults /\ crashes' = crashes
  BY DEF vars
<1>3. Live(req[r])' = Live(req[r]) /\ Aside(req[r])' = Aside(req[r])
  BY <1>1, <1>2 DEF Live, Aside
<1>4. Belongs(req[r])'
  BY <1>1, <1>2, BelongsStill DEF Belongs, Well
<1>5. UpToDate(req[r])'
  BY <1>2 DEF UpToDate, Reconciling, Well
<1>6. Updating(req[r])'
  BY <1>1, <1>2, <1>3 DEF Updating, Well
<1>7. ASSUME Quiet' PROVE Quietly(req[r])'
  <2>1. Quiet
    BY <1>2, <1>7 DEF Quiet
  <2>2. \A s \in Services : /\ Agrees(s) => Agrees(s)'
                            /\ NoCopy(s) => NoCopy(s)'
    BY <1>1, <1>2 DEF Agrees, NoCopy
  <2>3. OthersAgree(req[r])'
    BY <1>2, <2>1, <2>2 DEF OthersAgree, Quietly, Well
  <2>4. Place(req[r])'
    BY <1>1, <1>2, <1>3, <2>1 DEF Place, Made, Quietly, Well
  <2>5. QED
    BY <1>2, <2>1, <2>2, <2>3, <2>4 DEF Quietly, Well
<1>8. QED
  BY <1>1, <1>4, <1>5, <1>6, <1>7 DEF Well

LEMMA NextAlone ==
  ASSUME Alone, AloneInv, [Next]_vars
  PROVE  AloneInv'
<1>1. PICK r : Requests = {r}
  BY DEF Alone
<1>2. r \in Requests /\ IInv /\ Well(r)
  BY <1>1 DEF AloneInv
<1>3. IInv'
  BY <1>2, NextIInv
<1>4. Well(r)'
  <2>1. CASE Arrival(r) \/ Step(r)
    BY <1>2, <2>1, ArrivalWell, StepWell
  <2>2. ASSUME NEW i \in Ids, Exits(i) PROVE Well(r)'
    BY <1>2, <2>2, ExitsWell
  <2>3. ASSUME NEW p \in Processes, Crash(p) PROVE Well(r)'
    BY <1>2, <2>3, CrashWell
  <2>4. CASE UNCHANGED vars
    BY <1>2, <2>4, StillWell
  <2>5. QED
    BY <1>1, <2>1, <2>2, <2>3, <2>4 DEF Next
<1>5. QED
  BY <1>1, <1>3, <1>4 DEF AloneInv

LEMMA AloneInductive ==
  ASSUME Alone
  PROVE  Spec => []AloneInv
<1>1. Init => AloneInv
  BY InitIInv, InitWell DEF AloneInv
<1>2. AloneInv /\ [Next]_vars => AloneInv'
  BY NextAlone
<1>3. QED
  BY <1>1, <1>2, PTL DEF Spec

-----------------------------------------------------------------------------
(* What follows.                                                           *)

(* An update that took a running app out of service and then failed leaves *)
(* it running, if there was one failure only: whichever call it was, and   *)
(* though a container may have exited by itself.                           *)
THEOREM OneFailureIsUndone ==
  ASSUME Alone
  PROVE  Spec => []FailedUpdateLeavesItRunning
<1>1. AloneInv => FailedUpdateLeavesItRunning
  BY DEF AloneInv, Well, Updating, FailedUpdateLeavesItRunning, At, Live
<1>2. QED
  BY <1>1, AloneInductive, PTL

(* Any number of installs, reinstalls, updates, edits and removals of any  *)
(* number of apps, one after the other and without a failure, leave the    *)
(* table and Docker in agreement: on what is installed, from which image.  *)
THEOREM TheTableTellsWhatRuns ==
  ASSUME Alone
  PROVE  Spec => []QuietAgreement
<1>1. ASSUME AloneInv PROVE QuietAgreement
  <2>1. PICK r : r \in Requests /\ Well(r)
    BY <1>1 DEF Alone, AloneInv
  <2>2. QED
    BY <2>1, IdleAgrees DEF QuietAgreement, Quiet, Agrees
<1>2. QED
  BY <1>1, AloneInductive, PTL

(* Whatever failures and crashes left behind, a sync that listed what      *)
(* Docker has ends with each row telling whether its container exists.     *)
THEOREM ASyncRepairsTheTable ==
  ASSUME Alone
  PROVE  Spec => []SyncReconciles
<1>1. AloneInv => SyncReconciles
  BY DEF AloneInv, Well, UpToDate, Reconciling, SyncReconciles, At
<1>2. QED
  BY <1>1, AloneInductive, PTL

-----------------------------------------------------------------------------
(* What an update does to the containers of the apps.                      *)

LEMMA CopyElsewhere ==
  ASSUME NEW s, Elsewhere(s), HasCopy(s) => HasCopy(s)', NEW x \in Services, HasCopy(x)
  PROVE  HasCopy(x)'
<1>1. CASE x = s
  BY <1>1
<1>2. CASE x # s
  BY <1>2 DEF Elsewhere, HasCopy, Names
<1>3. QED
  BY <1>1, <1>2

LEMMA SameCopies ==
  ASSUME NEW x, HasCopy(x), \A n : Named(x, n)' = Named(x, n)
  PROVE  HasCopy(x)'
  BY DEF HasCopy

LEMMA UpdateKeeps ==
  ASSUME IInv, NEW r \in Requests, Well(r), UpdateStep(r), NEW x \in Services, HasCopy(x)
  PROVE  HasCopy(x)'
<1>0. PICK q : q = req[r]
  OBVIOUS
<1> DEFINE s == q.cur
<1>1. /\ UniqueNames /\ ctr \in Containers /\ Updating(q)
      /\ q.old \in Ids \cup {NoId} /\ q.new \in Ids \cup {NoId}
  BY <1>0, Knows
<1>2. /\ q.pc \in PcsUpdate => s \in Services
      /\ q.pc \in Targeted => q.target \in Versions
  BY <1>0, ReqType DEF Held, Serves, Sweeping, PcsUpdate
<1>3. CASE \/ UpdateMark(r) \/ UpdatePull(r) \/ UpdateFind(r) \/ UpdateHealth(r)
           \/ UpdateRecord(r) \/ UpdateFinally(r)
  <2>1. ctr' = ctr
    BY <1>3 DEF UpdateMark, MarkInstalling, UpdatePull, UpdateFind, UpdateHealth, UpdateRecord,
                UpdateFinally, Call, Query
  <2>2. QED
    BY <1>1, <2>1, SameNames, SameCopies
<1>4. CASE UpdateStop(r) \/ UpdateStart(r) \/ UpdateRestart(r)
  <2>1. \/ ctr' = ctr
        \/ \E i \in {q.old, q.new}, b \in BOOLEAN : Exists(i) /\ ctr' = Running(i, b)
    BY <1>0, <1>4 DEF UpdateStop, UpdateStart, UpdateRestart, Call, Runs
  <2>2. \A i \in {q.old, q.new} : Exists(i) => i \in Ids
    BY <1>1 DEF Exists
  <2>3. \A n : Named(x, n)' = Named(x, n)
    BY <1>1, <2>1, <2>2, SameNames, AfterRunning
  <2>4. QED
    BY <2>3, SameCopies
<1>5. CASE UpdateRename(r)
  <2>1. /\ q.pc = "uRename"
        /\ ctr' = ctr \/ (ctr' = Renamed(q.old, "old") /\ Named(s, "old") = {})
    BY <1>0, <1>5 DEF UpdateRename, Call, At
  <2>2. q.old \in Named(s, "live")
    BY <1>1, <2>1 DEF Updating, Live
  <2>3. Elsewhere(s) /\ (HasCopy(s) => HasCopy(s)')
    BY <1>1, <2>1, <2>2, SameNames, SameCopies, AfterRenamed DEF Names, HasCopy
  <2>4. QED
    BY <2>3, CopyElsewhere
<1>6. CASE UpdateRollback(r)
  <2>0. PICK i : i = Find(s, "old")
    OBVIOUS
  <2>1. ctr' = ctr \/ (ctr' = Renamed(i, "live") /\ i # NoId /\ Named(s, "live") = {})
    BY <1>0, <1>6, <2>0 DEF UpdateRollback, Call, At
  <2>2. i # NoId => i \in Named(s, "old")
    BY <1>1, <2>0, Found
  <2>3. Elsewhere(s) /\ (HasCopy(s) => HasCopy(s)')
    BY <1>1, <2>1, <2>2, SameNames, SameCopies, AfterRenamed DEF Names, HasCopy
  <2>4. QED
    BY <2>3, CopyElsewhere
<1>7. CASE UpdateCreate(r)
  <2>1. /\ q.pc = "uCreate"
        /\ ctr' = ctr \/ (CreateContainer(r, s, q.target, "uStart") /\ Named(s, "live") = {})
    BY <1>0, <1>7 DEF UpdateCreate, Call, At
  <2>2. s \in Services /\ q.target \in Versions
    BY <1>2, <2>1 DEF PcsUpdate, Targeted
  <2>3. CASE ctr' = ctr
    BY <1>1, <2>3, SameNames, SameCopies
  <2>4. CASE CreateContainer(r, s, q.target, "uStart") /\ Named(s, "live") = {}
    <3>1. PICK i \in Ids :
            /\ New(r, i, "uStart") /\ Exists(i)' /\ ~Exists(i) /\ ctr'[i].svc = s
            /\ ctr'[i].image = q.target /\ ~Runs(i)'
            /\ UniqueNames' /\ Elsewhere(s)
            /\ Named(s, "live")' = {i} /\ Named(s, "old")' = Named(s, "old")
            /\ \A j : j # i => ctr'[j] = ctr[j]
      BY <1>1, <2>2, <2>4, AfterCreated
    <3>2. HasCopy(s)'
      BY <3>1 DEF HasCopy
    <3>3. QED
      BY <3>1, <3>2, CopyElsewhere
  <2>5. QED
    BY <2>1, <2>3, <2>4
<1>8. CASE UpdateStale(r) \/ UpdateDropOld(r)
  <2>0. PICK i : i = Find(s, "old")
    OBVIOUS
  <2>1. /\ q.pc \in {"uStale", "uDropOld"}
        /\ ctr' = ctr \/ (ctr' = Removed(i) /\ i # NoId)
    BY <1>0, <1>8, <2>0 DEF UpdateStale, UpdateDropOld, Call, At
  <2>2. Named(s, "live") # {}
    BY <1>1, <2>1 DEF Updating, Live
  <2>3. i # NoId => i \in Named(s, "old")
    BY <1>1, <2>0, Found
  <2>4. Elsewhere(s) /\ Named(s, "live")' = Named(s, "live")
    BY <1>1, <2>1, <2>3, SameNames, AfterRemoved DEF Names
  <2>5. QED
    BY <2>2, <2>4, CopyElsewhere DEF HasCopy
<1>9. CASE UpdateDiscard(r)
  <2>1. q.pc = "uDiscard" /\ (ctr' = ctr \/ ctr' = Removed(q.new))
    BY <1>0, <1>9 DEF UpdateDiscard, Call, At
  <2>2. Named(s, "old") # {} /\ q.new \in Named(s, "live")
    BY <1>1, <2>1 DEF Updating, Live, Aside
  <2>3. Elsewhere(s) /\ Named(s, "old")' = Named(s, "old")
    BY <1>1, <2>1, <2>2, SameNames, AfterRemoved DEF Names
  <2>4. QED
    BY <2>2, <2>3, CopyElsewhere DEF HasCopy
<1>10. QED
  BY <1>3, <1>4, <1>5, <1>6, <1>7, <1>8, <1>9 DEF UpdateStep

(* The steps of an update are its own.                                     *)
LEMMA OnlyUpdates ==
  ASSUME NEW r, req[r].pc \in PcsUpdate, Step(r)
  PROVE  UpdateStep(r)
<1>1. ~CreateStep(r)
  BY DEF CreateStep, Check, Mark, Depends, Pull, Create, Start, Finish, CleanRow, CleanContainer,
         MarkInstalling, Call, Query, At, PcsUpdate
<1>2. ~ReinstallStep(r)
  BY DEF ReinstallStep, ReinstallMark, ReinstallStop, ReinstallRemove, ReinstallClear,
         MarkInstalling, Call, Query, At, PcsUpdate
<1>3. ~RemoveStep(r)
  BY DEF RemoveStep, RemoveFind, RemoveStop, Remove, UninstallSave, DeleteRow, Call, Query, At,
         PcsUpdate
<1>4. ~RecreateStep(r)
  BY DEF RecreateStep, RecreateRead, RecreateFind, RecreateStale, RecreateStop, RecreateRename,
         RecreatePull, RecreateCreate, RecreateStart, RecreateReady, RecreateDropOld, RecreateSave,
         RecreateDiscard, RecreateRestore, RecreateRestart, Call, Query, At, PcsUpdate
<1>5. ~Act(r) /\ ~SyncStep(r)
  BY DEF Act, SyncStep, SyncList, SyncSave, SyncEnd, Call, Query, At, PcsUpdate
<1>6. QED
  BY <1>1, <1>2, <1>3, <1>4, <1>5 DEF Step

(* Whichever call fails and wherever the process dies, no step of an       *)
(* update takes the last container of a service away: the old one is kept  *)
(* aside until the replacement has shown that it runs.                     *)
THEOREM AnUpdateKeepsACopy ==
  ASSUME Alone
  PROVE  Spec => UpdateKeepsACopy
<1> DEFINE Kept == \A s \in Services :
             (\E r \in Requests : req[r].op = "update") /\ HasCopy(s) => HasCopy(s)'
<1>1. ASSUME AloneInv, Next PROVE Kept
  <2> SUFFICES ASSUME NEW s \in Services, HasCopy(s), NEW r \in Requests, req[r].op = "update"
               PROVE  HasCopy(s)'
    OBVIOUS
  <2>1. Requests = {r} /\ IInv /\ Well(r)
    BY <1>1 DEF Alone, AloneInv
  <2>2. /\ UniqueNames /\ ctr \in Containers /\ req[r].pc \in PcsUpdate
    BY <2>1, Typed DEF Well, Updating
  <2>3. ~Arrival(r)
    <3>1. req[r] # Idle
      BY <2>2 DEF Idle, PcsUpdate
    <3>2. QED
      BY <3>1 DEF Arrival, Install, Reinstall, Uninstall, Delete, PullLatest, Arrives,
                  CreateCustom, Update, Edit, Affect, Sync
  <2>4. CASE Step(r)
    BY <2>1, <2>2, <2>4, OnlyUpdates, UpdateKeeps
  <2>5. ASSUME NEW i \in Ids, Exits(i) PROVE HasCopy(s)'
    BY <2>2, <2>5, AfterRunning, SameCopies DEF Exits, Runs
  <2>6. ASSUME NEW p \in Processes, Crash(p) PROVE HasCopy(s)'
    BY <2>2, <2>6, SameNames, SameCopies DEF Crash
  <2>7. QED
    BY <1>1, <2>1, <2>3, <2>4, <2>5, <2>6 DEF Next
<1>2. AloneInv /\ [Next]_vars => [Kept]_vars
  BY <1>1
<1>3. [][Kept]_vars => UpdateKeepsACopy
  BY PTL DEF UpdateKeepsACopy
<1>4. QED
  BY <1>2, <1>3, AloneInductive, PTL DEF Spec
=============================================================================
