------------------------------ MODULE Updater -------------------------------
(***************************************************************************)
(* What the "update now" button and the auto-update rely on, with neither  *)
(* files nor a sidecar in sight: one update at a time, of a version that   *)
(* was asked for, and "complete" only when that version runs.  The files   *)
(* and steps that keep this promise are those of SystemUpdate.             *)
(***************************************************************************)
CONSTANTS
  Versions,
  Latest,          \* asks for whatever version is the newest
  Torn,            \* a request that is read before it is written
  Nothing, Down    \* none of them equal to another, or a version

VARIABLES
  request,         \* what was asked for last and has not been taken up
  target,          \* what is being carried out
  running,         \* the version that runs, or Down
  told             \* users are told that the update is complete

vars == <<request, target, running, told>>

Requests == Versions \cup {Latest, Torn}

Init ==
  /\ request = Nothing /\ target = Nothing
  /\ running \in Versions /\ told = FALSE

(* There is room for one request: a second one takes the place of the      *)
(* first.                                                                  *)
Ask(t) ==
  /\ running # Down
  /\ request' = t
  /\ UNCHANGED <<target, running, told>>

Take ==
  /\ target = Nothing /\ request # Nothing
  /\ target' = request
  /\ UNCHANGED <<request, running, told>>

(* What is asked for meanwhile may be forgotten with it.                   *)
Forget ==
  /\ target # Nothing
  /\ request' = Nothing
  /\ UNCHANGED <<target, running, told>>

Resolve ==
  /\ target = Latest
  /\ target' \in Versions
  /\ UNCHANGED <<request, running, told>>

(* There is no going back to the version that ran before.                  *)
Stop ==
  /\ target \in Versions
  /\ running' = Down
  /\ UNCHANGED <<request, target, told>>

Start ==
  /\ target \in Versions /\ running = Down
  /\ running' = target
  /\ UNCHANGED <<request, target, told>>

Finish ==
  /\ target \in Versions /\ running = target
  /\ target' = Nothing /\ told' = TRUE
  /\ UNCHANGED <<request, running>>

GiveUp ==
  /\ target # Nothing
  /\ target' = Nothing
  /\ UNCHANGED <<request, running, told>>

(* They are told so for a few seconds.                                     *)
Forgo == told' = FALSE /\ UNCHANGED <<request, target, running>>

Next ==
  \/ \E t \in Requests : Ask(t)
  \/ Take \/ Forget \/ Resolve \/ Stop \/ Start \/ Finish \/ GiveUp \/ Forgo

Spec == Init /\ [][Next]_vars
=============================================================================
