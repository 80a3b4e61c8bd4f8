------------------------ MODULE MCSwigPendingException ------------------------
(* Instances of SwigPendingException for TLC. *)
EXTENDS SwigPendingException, TLC

CONSTANTS t1, t2, t3, x1, x2

TwoThreads == {t1, t2}
ThreeThreads == {t1, t2, t3}
TwoExceptions == {x1, x2}
OneException == {x1}

Symmetry == Permutations(ThreeThreads) \cup Permutations(TwoExceptions)
===============================================================================
