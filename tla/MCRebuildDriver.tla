---------------------------- MODULE MCRebuildDriver ----------------------------
(* Instances of RebuildDriver for TLC: three SDK releases. *)
EXTENDS RebuildDriver

CONSTANTS s1, s2, s3, ty1, ty2

MCSDKs == {s1, s2, s3}
MCTypes == {ty1, ty2}

\* s1 and s2 declare the same types, s3 one more.
MCTypesOf == [s \in MCSDKs |-> IF s = s3 THEN {ty1, ty2} ELSE {ty1}]
===============================================================================
