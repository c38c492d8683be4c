------------------------------- MODULE Unrun -------------------------------
(***************************************************************************)
(* What is written and never run, and so never lowered                     *)
(* (compiler/src/unrun.rs), and where the list a walk grows may stand      *)
(* (compiler/src/growing.rs).                                              *)
(***************************************************************************)
EXTENDS Declarations

\* Which of a call's arguments are functions it never applies.  A kernel is handed what it is given.
NeverApplied(node) ==
    IF Kind(node) # "call" \/ node.is[2][1] = "kernel" THEN {}
    ELSE {i \in DOMAIN node.kids : node.kids[i].ty[1] = "fn" /\ NeverRuns(node.kids[i].ty)}

\* An arm that tests only for an optional of what has no value being present.
NeverEntered(arm, subject) ==
    HoldsNoValue(subject) /\ \A selects \in ToSet(arm.selects) : selects = Held

\* Which children of a node are written and never run.
NeverLowered(node) ==
    CASE Kind(node) = "match" ->
            {i + 1 : i \in {j \in DOMAIN Arms(node) : NeverEntered(Arms(node)[j], node.kids[1].ty)}}
      [] Kind(node) = "call" -> NeverApplied(node)
      [] Kind(node) = "block" -> IF node.ty[1] = "fn" /\ NeverRuns(node.ty) THEN {1} ELSE {}
      [] OTHER -> {}

LoweredChildren(node) ==
    LET at == SelectSeq([i \in DOMAIN node.kids |-> i], LAMBDA i : i \notin NeverLowered(node))
    IN [i \in DOMAIN at |-> node.kids[at[i]]]

RECURSIVE EachLowered(_)
EachLowered(node) ==
    LET below == LoweredChildren(node)
    IN <<node>> \o FlattenSeq([i \in DOMAIN below |-> EachLowered(below[i])])

(***************************************************************************)
(* Growing.  The step of a walk is a block of two parameters under any     *)
(* number of lets.                                                         *)
(***************************************************************************)
IsEmitted(node, operations) == Kind(node) = "call" /\ node.is[2][1] = "emitted" /\ node.is[2][2] \in operations

RECURSIVE UnderLets(_)
UnderLets(node) == IF Kind(node) = "let" THEN UnderLets(node.kids[2]) ELSE node
RECURSIVE AroundStep(_)
AroundStep(node) == IF Kind(node) = "let" THEN <<node>> \o AroundStep(node.kids[2]) ELSE <<>>

WalksAStep(node) ==
    /\ IsEmitted(node, {"BuildList", "BuildMap"})
    /\ node.kids # <<>>
    /\ LET step == UnderLets(node.kids[1]) IN
       /\ Kind(step) = "block" /\ step.ty[1] = "fn"
       /\ Len(step.is[3]) = 2 /\ Len(step.ty[2]) = 2

(***************************************************************************)
(* Where the list a walk grows may be read.  The names the step being read *)
(* has for its list are growing, the enclosing steps' are outside.  What   *)
(* is read leaves its names behind it, in the order the bodies are read.   *)
(***************************************************************************)
NamesTheGrown(node, growing) ==
    LET read == IF Kind(node) = "widen" THEN node.kids[1] ELSE node
    IN Kind(read) = "read" /\ read.is[2] \in growing

Confined(stands, growing) == [stands |-> stands, growing |-> growing]

RECURSIVE Ordinary(_, _, _)
RECURSIVE Answering(_, _, _)
LOCAL EachOf(read(_, _, _), nodes, start, outside) ==
    FoldLeft(LAMBDA sofar, node : IF ~sofar.stands THEN sofar ELSE read(node, sofar.growing, outside),
             start, nodes)

\* A node where it is not what a step answers.
Ordinary(node, growing, outside) ==
    CASE Kind(node) = "read" -> Confined(node.is[2] \notin growing \union outside, growing)
      [] IsEmitted(node, {"GrowList"}) -> Confined(FALSE, growing)
      [] IsEmitted(node, {"BuildList"}) ->
            IF ~WalksAStep(node) THEN Confined(FALSE, growing)
            ELSE LET lets == AroundStep(node.kids[1])
                     step == UnderLets(node.kids[1])
                     values == [i \in DOMAIN lets |-> lets[i].kids[1]]
                     before == EachOf(Ordinary, values, Confined(TRUE, growing), outside)
                     within == Answering(step.kids[1], {step.is[3][1]}, outside \union before.growing)
                 IN IF ~before.stands \/ ~within.stands THEN Confined(FALSE, before.growing)
                    ELSE EachOf(Ordinary, Tail(node.kids), before, outside)
      [] IsEmitted(node, {"BuildMap"}) /\ ~WalksAStep(node) -> Confined(FALSE, growing)
      [] Kind(node) = "let" /\ NamesTheGrown(node.kids[1], growing) ->
            Ordinary(node.kids[2], growing \union {node.is[2]}, outside)
      [] OTHER -> EachOf(Ordinary, node.kids, Confined(TRUE, growing), outside)

\* A node where a step answers: the list it grows, a growth of it, or a fork of those.
Answering(node, growing, outside) ==
    CASE Kind(node) = "read" -> Confined(node.is[2] \in growing, growing)
      [] Kind(node) = "unreachable" -> Confined(TRUE, growing)
      [] Kind(node) = "widen" -> Answering(node.kids[1], growing, outside)
      [] Kind(node) = "let" ->
            IF NamesTheGrown(node.kids[1], growing)
            THEN Answering(node.kids[2], growing \union {node.is[2]}, outside)
            ELSE EachOf(Answering, <<node.kids[2]>>, Ordinary(node.kids[1], growing, outside), outside)
      [] Kind(node) \in {"if", "match"} ->
            EachOf(Answering, Tail(node.kids), Ordinary(node.kids[1], growing, outside), outside)
      [] IsEmitted(node, {"GrowList"}) ->
            IF Len(node.kids) # 2 \/ ~NamesTheGrown(node.kids[1], growing) THEN Confined(FALSE, growing)
            ELSE Ordinary(node.kids[2], growing, outside)
      [] OTHER -> Confined(FALSE, growing)

ConfinedBody(node) == Ordinary(node, {}, {}).stands
=============================================================================
