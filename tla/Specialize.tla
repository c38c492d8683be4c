----------------------------- MODULE Specialize -----------------------------
(***************************************************************************)
(* What the copies of helpers are made of (compiler/src/specialize.rs):    *)
(* the types a call settles a helper's variables to, the body of a copy at *)
(* them, and the calls of the document the making in Copies resolves.      *)
(***************************************************************************)
EXTENDS Runs, Kernels, Copies

(***************************************************************************)
(* What a call settles a helper's variables to                             *)
(***************************************************************************)
RECURSIVE SubstitutionBinds(_, _, _)
SubstitutionBinds(template, actual, bound) ==
    CASE ~IsOpen(template) -> IF template = actual THEN bound ELSE Failed
      [] template[1] = "var" ->
            IF template[2] \in DOMAIN bound THEN (IF bound[template[2]] = actual THEN bound ELSE Failed)
            ELSE bound @@ (template[2] :> actual)
      [] OTHER ->
            IF template[1] # actual[1] \/ Len(Members(template)) # Len(Members(actual)) THEN Failed
            ELSE BindAll(SubstitutionBinds, Members(template), Members(actual), bound)

\* A type with each variable that is bound replaced, and each other left as written.
RECURSIVE PartlyApplied(_, _)
PartlyApplied(bound, ty) ==
    LET each(tys) == [i \in DOMAIN tys |-> PartlyApplied(bound, tys[i])] IN
    CASE ty[1] = "var" -> IF ty[2] \in DOMAIN bound THEN bound[ty[2]] ELSE ty
      [] ty[1] \in {"option", "list", "set"} -> <<ty[1], PartlyApplied(bound, ty[2])>>
      [] ty[1] = "map" -> Map(PartlyApplied(bound, ty[2]), PartlyApplied(bound, ty[3]))
      [] ty[1] = "tuple" -> Tuple(each(ty[2]))
      [] ty[1] = "fn" -> Fn(each(ty[2]), PartlyApplied(bound, ty[3]))
      [] OTHER -> ty

\* What a call of a helper settles its variables to, or Failed where it does not fit the helper.
Called(held, handed, answers) ==
    IF Len(handed) # Len(held.parameters) THEN Failed
    ELSE LET taken == BindAll(SubstitutionBinds, Takes(held), handed, Unbound)
         IN IF taken = Failed THEN Failed ELSE SubstitutionBinds(Answers(held), answers, taken)

\* What each variable of a helper came to, by its number: <<>> for one nothing bound.
ByNumber(bound, held) ==
    [i \in 1..Variables(held) |-> IF i - 1 \in DOMAIN bound THEN <<bound[i - 1]>> ELSE <<>>]
BoundOf(types) == [number \in {i - 1 : i \in {j \in DOMAIN types : types[j] # <<>>}} |-> types[number + 1][1]]

\* Every type written in what is lowered of a body, with its variables replaced.
RECURSIVE Settle(_, _)
Settle(node, bound) ==
    LET tys == [i \in DOMAIN node.tys |-> PartlyApplied(bound, node.tys[i])]
        unrun == NeverLowered(Retyped(node, PartlyApplied(bound, node.ty), tys))
    IN [Retyped(node, PartlyApplied(bound, node.ty), tys) EXCEPT !.kids =
          [i \in DOMAIN node.kids |-> IF i \in unrun THEN node.kids[i] ELSE Settle(node.kids[i], bound)]]

(***************************************************************************)
(* The calls of helpers, and what a call's copy is                         *)
(***************************************************************************)
HelperOf(module, reached) ==
    LET written == doc.modules[CHOOSE i \in DOMAIN doc.modules : doc.modules[i].name = module]
    IN written.helpers[CHOOSE i \in DOMAIN written.helpers : written.helpers[i].reached = reached]

HelperCalls(node) ==
    SelectSeq(EachLowered(node), LAMBDA it : Kind(it) = "call" /\ it.is[2][1] = "helper")
Handed(call) == [i \in DOMAIN call.kids |-> call.kids[i].ty]
CalledBy(module, call) == Called(HelperOf(module, call.is[2][2]), Handed(call), call.ty)
TypesAt(module, call) == ByNumber(CalledBy(module, call), HelperOf(module, call.is[2][2]))

\* The calls of helpers lowered in a body of a module, in the order they are resolved.
CallsIn(module, node) ==
    [i \in DOMAIN HelperCalls(node) |->
       LET call == HelperCalls(node)[i] IN
       IF CalledBy(module, call) = Failed THEN Unfit ELSE <<module, call.is[2][2], TypesAt(module, call)>>]

\* The body of the copy a call needs: the helper's own where it leaves nothing open.
CopiedBody(call) ==
    LET held == HelperOf(call[1], call[2])
    IN IF call[3] = <<>> THEN held.body ELSE Settle(held.body, BoundOf(call[3]))

\* A helper leaving nothing open is one copy, whether a call reaches it or not; one over variables is
\* lowered as its copies alone; every other body is a root.
Roots ==
    LET closed == SelectSeq(RunBodies, LAMBDA body : body.owner[1] = "helper")
        others == SelectSeq(RunBodies, LAMBDA body : body.owner[1] # "helper")
        heldBy(body) == LET written == doc.modules[CHOOSE i \in DOMAIN doc.modules : doc.modules[i].name = body.module]
                        IN written.helpers[body.owner[2]]
        copied(body) == IF Variables(heldBy(body)) # 0 THEN <<>> ELSE <<<<body.module, heldBy(body).reached, <<>>>>>>
    IN FlattenSeq([i \in DOMAIN closed |-> copied(closed[i])])
       \o FlattenSeq([i \in DOMAIN others |-> CallsIn(others[i].module, others[i].node)])

Callee(instances, module, call) ==
    instances[CopyAt(instances, module, call.is[2][2], TypesAt(module, call))]
=============================================================================
