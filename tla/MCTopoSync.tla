----------------------------- MODULE MCTopoSync -----------------------------
(* Model-checking instance of TopoSync: three switches, so that a link    *)
(* delete can hit a link other than the first and a node other than the  *)
(* last can leave.                                                        *)
EXTENDS TopoSync

MCDPIDS == {1, 2, 3}
=============================================================================
