--------------------------- MODULE MCLibraryLife ---------------------------
(***************************************************************************)
(* LibraryLife with the constants of LibraryLife.cfg: three threads, a     *)
(* library of the binding's generation and one of another, two patterns    *)
(* and one place more than they can need.                                  *)
(***************************************************************************)
EXTENDS LibraryLife
=============================================================================
