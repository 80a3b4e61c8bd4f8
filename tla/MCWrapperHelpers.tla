--------------------------- MODULE MCWrapperHelpers ---------------------------
(* Instances of WrapperHelpers for TLC. *)
EXTENDS WrapperHelpers, TLC

CONSTANTS c1, c2, d1, d2, b1, b2

MCCallers == {c1, c2}
MCDisplays == {d1, d2}
\* One block less than the callers' pointers can name, so that malloc reuses
\* freed blocks and runs out.
MCBlocks == {b1, b2}

Symmetry == Permutations(MCCallers) \cup Permutations(MCDisplays) \cup Permutations(MCBlocks)
===============================================================================
