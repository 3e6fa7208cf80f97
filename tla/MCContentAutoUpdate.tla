------------------------ MODULE MCContentAutoUpdate -------------------------
(* Small instances of ContentAutoUpdate.                                   *)
EXTENDS ContentAutoUpdate

CONSTANTS map, zim

(* Together they exceed the cap of 2.                                      *)
Sizes == [r \in Resources |-> IF r = zim THEN 2 ELSE 1]
=============================================================================
