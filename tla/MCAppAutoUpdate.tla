-------------------------- MODULE MCAppAutoUpdate ---------------------------
(* Small instances of AppAutoUpdate.                                       *)
EXTENDS AppAutoUpdate

CONSTANTS r1, r2, u1

OneMajor == [v \in Versions |-> 1]
Night == {0}
=============================================================================
