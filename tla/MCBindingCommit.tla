-------------------------- MODULE MCBindingCommit --------------------------
(***************************************************************************)
(* BindingCommit with two commands on the same two directories, each       *)
(* writing the bindings of two generators in an order of its own.          *)
(***************************************************************************)
EXTENDS BindingCommit

CONSTANTS c1, c2, php, go, t1, t2

At(g, t) == [by |-> g, into |-> t]

Crossing == [c \in Command |-> IF c = c1 THEN <<At(php, t1), At(go, t2)>>
                                         ELSE <<At(go, t2), At(php, t1)>>]
=============================================================================
