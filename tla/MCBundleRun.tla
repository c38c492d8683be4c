---------------------------- MODULE MCBundleRun ----------------------------
(***************************************************************************)
(* BundleRun with three uses, each of a process of its own: one that may   *)
(* leave a directory behind and two that sweep beside each other; or with *)
(* two of them in one process.                                             *)
(***************************************************************************)
EXTENDS BundleRun, TLC

CONSTANTS u1, u2, u3, p1, p2, p3

Apart == (u1 :> p1) @@ (u2 :> p2) @@ (u3 :> p3)
Shared == (u1 :> p1) @@ (u2 :> p1) @@ (u3 :> p2)
=============================================================================
