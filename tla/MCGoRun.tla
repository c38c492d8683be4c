------------------------------ MODULE MCGoRun ------------------------------
(***************************************************************************)
(* GoRun with two goroutines over two threads and two libraries.           *)
(* `answer` is what the code is told and no step reads it, so the states   *)
(* are told apart by the rest; ComesToItsFirstFailure is asked of steps.   *)
(* What a library does that was called through a run that had ended is     *)
(* promised nowhere: the states after such a step are left out.            *)
(***************************************************************************)
EXTENDS GoRun, TLC

Symmetric == Permutations(Goroutine) \cup Permutations(Thread) \cup Permutations(Lib)

ToldApart == <<on, locks, stack, asked, raising, roots, runs, scopes, reads, strayed>>

NotStrayed == ~strayed
=============================================================================
