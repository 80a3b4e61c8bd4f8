----------------------------- MODULE MCHandleTree -----------------------------
(* Instances of HandleTree for TLC: a C++ and a C# application. *)
EXTENDS HandleTree

NativeOuts == HandleKinds
===============================================================================
