----------------------------- MODULE MCRustRun -----------------------------
(***************************************************************************)
(* RustRun with two libraries and a stack of five: a run, a call, a       *)
(* callback, and a second run or call with what it calls back.            *)
(***************************************************************************)
EXTENDS RustRun, TLC

Symmetric == Permutations(Lib)
=============================================================================
