----------------------------- MODULE MCDynArray -----------------------------
(***************************************************************************)
(* An instance of DynArray for TLC.                                        *)
(***************************************************************************)
EXTENDS DynArray

CONSTANTS oa, ob, oc

\* Two objects that compare equal, and one that comes after them.
TwoEqual == [o \in Object |-> IF o = oc THEN 2 ELSE 1]

\* A function that makes of every object another one.
Rotate == [o \in Object |-> CASE o = oa -> ob [] o = ob -> oc [] OTHER -> oa]
=============================================================================
