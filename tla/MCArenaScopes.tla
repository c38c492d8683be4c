--------------------------- MODULE MCArenaScopes ---------------------------
(***************************************************************************)
(* A small instance of ArenaScopes: blocks of three slots, values of       *)
(* nothing, of two slots and of more than a block.                         *)
(***************************************************************************)
EXTENDS ArenaScopes, TLC

MCSizes == {0, 16, 32}

ThreadSymmetry == Permutations(Thread)
=============================================================================
