---------------------------- MODULE MCCApiWrapper ----------------------------
(* Instances of CApiWrapper for TLC. *)
EXTENDS CApiWrapper, TLC

CONSTANTS t1, t2, t3, h1, h2, defaultLib, customLib, noLib, a1, a2, noArgs

MCThreads == {t1, t2}
ThreeThreads == {t1, t2, t3}
MCHandles == {h1, h2}
MCLibs == {defaultLib, customLib}

\* a1 names the custom runtime, a2 carries no path.
MCArgs == {a1, a2}
MCPathOf == (a1 :> customLib) @@ (a2 :> noLib)

\* Runtimes as Intel ships them; one that lacks an entry point the wrapper can do
\* without; one that lacks ctlInit.
FullExports == [l \in MCLibs |-> EntryPoints]
PartialExports == (defaultLib :> EntryPoints) @@ (customLib :> EntryPoints \ {"ctlSetRuntimePath"})
NoInitExports == (defaultLib :> EntryPoints) @@ (customLib :> EntryPoints \ {"ctlInit"})

Symmetry == Permutations(MCHandles) \cup Permutations(ThreeThreads)
===============================================================================
