------------------------------ MODULE MCPhpRun ------------------------------
(***************************************************************************)
(* PhpRun with two libraries and two fibers: runs of both nested in either *)
(* order, on one fiber or across both, with callbacks between them.        *)
(***************************************************************************)
EXTENDS PhpRun, TLC

Symmetric == Permutations(Lib)
=============================================================================
