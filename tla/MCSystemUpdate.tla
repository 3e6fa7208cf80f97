--------------------------- MODULE MCSystemUpdate ---------------------------
(* Small instances of SystemUpdate.                                        *)
EXTENDS SystemUpdate

CONSTANT u1

(* Two releases of one major version.                                      *)
OneMajor == [v \in Versions |-> 1]
=============================================================================
