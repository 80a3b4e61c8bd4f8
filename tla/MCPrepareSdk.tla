----------------------------- MODULE MCPrepareSdk -----------------------------
(* Instances of PrepareSdk for TLC. *)
EXTENDS PrepareSdk, TLC
===============================================================================
