----------------------------- MODULE MCSwigProxy -----------------------------
(* Instances of SwigProxy for TLC. *)
EXTENDS SwigProxy, TLC

CONSTANTS t1, t2, p1, p2, p3, o1, o2

MCThreads == {t1, t2}
MCProxies == {p1, p2, p3}
TwoProxies == {p1, p2}
MCObjects == {o1, o2}
OneObject == {o1}

FewCalls == {"new", "value", "newP", "copyP", "access", "member", "delete"}

PathCalls == {"new", "setPath", "keep", "init", "close"}

Symmetry == Permutations(MCThreads) \cup Permutations(MCProxies) \cup Permutations(MCObjects)
===============================================================================
