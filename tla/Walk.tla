------------------------------- MODULE Walk -------------------------------
(***************************************************************************)
(* The walk of one body (Walk of compiler/src/coherent.rs): every relation *)
(* the checker held between two statements of it, held again for every     *)
(* node before anything is lowered.                                        *)
(***************************************************************************)
EXTENDS Specialize

CONSTANTS IntMin, IntMax,     \* the range of an Int, which the machine holds in a word
          TemporalRange,      \* the counts each temporal holds
          Nanoseconds         \* the fractions of a second an Instant holds
ASSUME IntAssumption == IntMin \in Int /\ IntMax \in Int /\ IntMin = -IntMax - 1 /\ IntMax > 0
Int64s == IntMin..IntMax

(***************************************************************************)
(* What the document reaches by name                                       *)
(***************************************************************************)
TargetNamed(key) == \E i \in DOMAIN doc.behaviors : doc.behaviors[i].key = key
TargetOf(key) == doc.behaviors[CHOOSE i \in DOMAIN doc.behaviors : doc.behaviors[i].key = key]
ModuleNamed(name) == \E i \in DOMAIN doc.modules : doc.modules[i].name = name
ModuleOf(name) == doc.modules[CHOOSE i \in DOMAIN doc.modules : doc.modules[i].name = name]
HelperHeld(module, reached) ==
    ModuleNamed(module)
    /\ \E i \in DOMAIN ModuleOf(module).helpers : ModuleOf(module).helpers[i].reached = reached
ValueBuilt(module, name) ==
    ModuleNamed(module)
    /\ \E i \in DOMAIN ModuleOf(module).values : ModuleOf(module).values[i].declared = name
ValueOf(module, name) ==
    LET values == ModuleOf(module).values
    IN values[CHOOSE i \in DOMAIN values : values[i].declared = name]
EntriesFor(value) ==
    {entry \in UNION {ToSet(doc.modules[i].entries) : i \in DOMAIN doc.modules} : entry.value = value}
HandoverTypes(value) == [i \in DOMAIN value.handovers |-> value.handovers[i].ty]

(***************************************************************************)
(* A walk of one body: whether type variables stand in it, the module it   *)
(* stands in, what each name in force is bound at, what it was constructed *)
(* with, and the behavior it constructs where it is a row's.               *)
(***************************************************************************)
LeafCases(cases) == \A case \in ToSet(cases) : CaseKnown(case) /\ (case[1] = "declared" => ~IsSum(case[2]))
WalkResolves(walk, ty) == Resolving(ty, walk.open)
\* Mutant of EndsFor: a node that names no reason is let through.
EndsForOrNone(node, owed) == node.aborts \in {owed, <<>>}
\* Mutant of EndsFor: the reasons are counted and not compared.
EndsForAsMany(node, owed) == Len(node.aborts) = Len(owed)
EndsFor(node, owed) == node.aborts = owed
IsNumber(ty) == ty \in {Prim("Int"), Prim("Decimal"), Prim("Rational")}

\* A host's behavior, and one that requires others, is reached from a body constructed with it.
ReachedAsConstructed(walk, key) ==
    \/ key = walk.constructs
    \/ key \in ToSet(walk.environment)
    \/ TargetNamed(key) /\ TargetOf(key).is # "injected" /\ TargetOf(key).requirements = <<>>

KernelName(node) == node.is[2][2]
KernelFact(node) == node.is[2][3]
FactTypes(node) ==
    IF KernelFact(node) # <<>> /\ KernelFact(node)[1] = "ordering" THEN (IF KernelFact(node)[2] THEN 2 ELSE 1) ELSE 0
KernelTakes(node) == SubSeq(node.tys, 1, Len(node.tys) - FactTypes(node))

\* What a call takes where it stands, as one of a sequence; <<>> where nothing it reaches says.
Parameters(node, walk) ==
    LET reaches == node.is[2]
        step == node.kids[1].ty
    IN CASE reaches[1] = "behavior" -> IF TargetNamed(reaches[2]) THEN <<TargetOf(reaches[2]).takes>> ELSE <<>>
         [] reaches[1] = "helper" ->
               IF ~HelperHeld(walk.module, reaches[2]) THEN <<>>
               ELSE IF CalledBy(walk.module, node) = Failed THEN <<>>
               ELSE LET takes == Takes(HelperOf(walk.module, reaches[2]))
                    IN <<[i \in DOMAIN takes |-> PartlyApplied(CalledBy(walk.module, node), takes[i])]>>
         [] reaches[1] = "value" ->
               IF ValueBuilt(walk.module, <<reaches[2], reaches[3]>>)
               THEN <<HandoverTypes(ValueOf(walk.module, <<reaches[2], reaches[3]>>))>> ELSE <<>>
         [] reaches[1] = "publishedvalue" -> << <<>> >>
         [] reaches[1] = "kernel" -> <<KernelTakes(node)>>
         [] reaches[1] = "emitted" /\ reaches[2] \in {"BuildList", "BuildMap"} ->
               IF node.kids = <<>> THEN <<>>
               ELSE IF step[1] # "fn" \/ Len(step[2]) # 2 THEN <<>>
               ELSE << <<step, List(step[2][2]), Int64>> >>
         [] reaches[1] = "emitted" /\ reaches[2] = "GrowList" -> << <<node.ty, node.ty>> >>
         [] reaches[1] = "emitted" /\ reaches[2] = "PutMap" ->
               IF node.ty[1] = "map" THEN << <<node.ty, node.ty[2], node.ty[3]>> >> ELSE <<>>

\* The slots of a node name each of its children once, in order: the type the slot takes, or none.
Typed(tys) == [i \in DOMAIN tys |-> <<tys[i]>>]
FieldTypes(key) == [i \in DOMAIN Shape(key).fields |-> Shape(key).fields[i].ty]
Slots(node, walk) ==
    LET same(n, ty) == [i \in 1..n |-> <<ty>>]
        operands == << <<>>, <<>> >>
    IN CASE Kind(node) = "construct" -> Typed(FieldTypes(node.is[2]))
         [] Kind(node) = "attempt" ->
               Typed(FieldTypes(node.is[2])) \o same(1 + Len(node.is[4]), node.ty)
         [] Kind(node) \in {"field", "member", "widen"} -> << <<>> >>
         [] Kind(node) = "binary" ->
               CASE node.is[2] \in Connectives -> same(2, Truth)
                 [] node.is[2] = "Concat" -> same(2, node.ty)
                 [] OTHER -> operands
         [] Kind(node) = "neg" -> same(1, node.ty)
         [] Kind(node) = "let" -> Typed(<<node.tys[1], node.ty>>)
         [] Kind(node) = "if" -> Typed(<<Truth, node.ty, node.ty>>)
         [] Kind(node) = "match" -> << <<>> >> \o same(Len(Arms(node)), node.ty)
         [] Kind(node) = "some" -> same(1, node.ty[2])
         [] Kind(node) = "tuple" -> Typed(node.ty[2])
         [] Kind(node) = "list" -> same(Len(node.kids), node.ty[2])
         [] Kind(node) = "call" -> Typed(Parameters(node, walk)[1])
         [] Kind(node) = "block" -> <<<<node.ty[3]>>>>
         [] Kind(node) = "apply" -> << <<>> >> \o Typed(node.kids[1].ty[2])
         [] OTHER -> <<>>

\* Each child stands in its slot as the type the slot takes.
HoldSlots(node, walk) ==
    LET slots == Slots(node, walk)
    IN \A i \in DOMAIN node.kids : slots[i] # <<>> => node.kids[i].ty = slots[i][1]

(***************************************************************************)
(* Operators                                                               *)
(***************************************************************************)
Reading(node) == node.is[3][1]
HasOrdering(node) == node.is[4]
ReadIn(node) == node.tys[1]
ReadNewtype(node) == node.tys[1]
ReadBase(node) == node.tys[2]
OrderingBasis(node) == Last(node.tys)

ReadingHolds(node) ==
    LET left == node.kids[1].ty
        right == node.kids[2].ty
    IN /\ node.is[2] \in Connectives \union {"Concat"} => Reading(node) = "asis"
       /\ node.is[2] \in Arithmetic => Reading(node) \in {"asis", "exact"}
       /\ CASE Reading(node) = "asis" -> left = right
            [] Reading(node) = "exact" -> IsNumber(left) /\ IsNumber(right)
            [] Reading(node) = "in" -> Fits(left, ReadIn(node)) /\ Fits(right, ReadIn(node))
            [] Reading(node) = "opened" ->
                  /\ NewtypeSpine(ReadNewtype(node)) # <<>>
                  /\ Opened(ReadNewtype(node)) = ReadBase(node)
                  /\ <<left, right>> \in {<<ReadNewtype(node), ReadBase(node)>>,
                                          <<ReadBase(node), ReadNewtype(node)>>}

OrderedHolds(node) ==
    /\ HasOrdering(node) <=> node.is[2] \in Orders
    /\ HasOrdering(node) =>
          CASE Reading(node) = "exact" -> OrderingBasis(node) = Prim("Rational")
            [] Reading(node) = "asis" -> PlacedOn(OrderingBasis(node), node.kids[1].ty)
            [] Reading(node) = "in" -> PlacedOn(OrderingBasis(node), ReadIn(node))
            [] Reading(node) = "opened" -> PlacedOn(OrderingBasis(node), ReadBase(node))

OperatorHolds(node) ==
    LET left == node.kids[1].ty
        exact == Prim("Rational") \in {left, node.kids[2].ty}
    IN CASE node.is[2] \in Connectives \union Equalities \union Orders -> node.ty = Truth
         [] node.is[2] = "Div" ->
               /\ node.ty = Prim("Rational")
               /\ EndsFor(node, IF exact THEN <<"DivisionByZero", "RequiredFormHasNoPlace">> ELSE <<"DivisionByZero">>)
         [] node.is[2] = "Concat" -> EndsFor(node, <<"RequiredFormHasNoPlace">>)
         [] OTHER ->
               /\ Reading(node) = "asis" => IsNumber(node.ty) /\ node.ty = left
               /\ Reading(node) = "exact" => node.ty = Prim("Rational")
               /\ EndsFor(node, <<"RequiredFormHasNoPlace">>)

(***************************************************************************)
(* Forks and attempted constructions                                       *)
(***************************************************************************)
Tests(subject, selects) ==
    \A one \in ToSet(selects) :
       IF one[1] = "which"
       THEN LeafCases(one[2]) /\ HasCases(subject) /\ Fits(Union(one[2]), subject)
       ELSE subject[1] = "option"

ArmBinds(subject, selects, binding, readAs) ==
    CASE binding[1] = "payload" -> selects = <<Held>> /\ subject[1] = "option" /\ readAs = subject[2]
      [] selects = <<Held>> -> FALSE
      [] Len(selects) = 1 /\ selects[1][1] = "which" ->
            Fits(Union(selects[1][2]), readAs) /\ Fits(readAs, subject)
      [] OTHER -> readAs = subject

\* Which departure each clause takes, by its place among the bodies; 0 where none answers it.
DeparturesTaken(clauses, node) ==
    LET arms == node.is[4]
    IN [place \in DOMAIN clauses |->
          IF AnswersAny(node) THEN 1
          ELSE LET at == {i \in DOMAIN arms : arms[i] = clauses[place]}
               IN IF at = {} THEN 0 ELSE CHOOSE i \in at : TRUE]

DeparturesHold(clauses, node) ==
    AnswersAny(node) \/
    (/\ \A i \in DOMAIN node.is[4] : node.is[4][i] \in ToSet(clauses)
     /\ Distinct(node.is[4])
     /\ \A place \in DOMAIN clauses : DeparturesTaken(clauses, node)[place] # 0)

Fielded(key) == KeyKnown(key) /\ Shape(key).is \in {"product", "newtype"}

\* A field of a sum is one every case declares, and each is a value of what it is read as.
FieldHolds(node) ==
    LET of == node.kids[1].ty
        declares(key) == PositionOf(Shape(key), node.is[2]) # 0
        fieldOf(key) == Shape(key).fields[PositionOf(Shape(key), node.is[2])].ty
    IN /\ IsDeclared(of)
       /\ IF Is(of, "sum")
          THEN \A case \in ToSet(LeavesOf(<<of[2]>>)) :
                  case[1] = "declared" /\ declares(case[2]) /\ Fits(fieldOf(case[2]), node.ty)
          ELSE declares(of[2][2]) /\ node.ty = fieldOf(of[2][2])

(***************************************************************************)
(* Calls                                                                   *)
(***************************************************************************)
KernelHolds(node) ==
    LET contract == KernelContracts[KernelName(node)]
        bound == BindAll(ShapeBinds, contract.takes, KernelTakes(node), Unbound)
        subject == node.tys[Len(KernelTakes(node)) + 1]
        basis == Last(node.tys)
        settled == ShapeSettled(contract.answers, bound)
    IN KernelName(node) \in LoweredKernels =>
         /\ Len(KernelTakes(node)) = Len(contract.takes)
         /\ FactAccepted(contract, KernelFact(node))
         /\ bound # Failed
         /\ FactTypes(node) > 0 =>
               /\ subject = ShapeSettled(contract.fact[2], bound)
               /\ IF KernelFact(node)[2] THEN PlacedOn(basis, subject) ELSE HasNoValue(subject)
         /\ EndsFor(node, contract.aborts)
         /\ IF settled # Failed THEN node.ty = settled ELSE ShapeBinds(contract.answers, node.ty, bound) # Failed

WalkCallHolds(node, kind) ==
    LET step == node.kids[1].ty
    IN node.ty[1] = kind /\ step[2][1][1] = kind /\ node.ty = step[3] /\ EndsFor(node, <<>>)

CallHolds(node, walk) ==
    LET reaches == node.is[2]
        takes == Parameters(node, walk)
    IN /\ takes # <<>>
       /\ Len(node.kids) = Len(takes[1])
       /\ CASE reaches[1] = "behavior" ->
                  ReachedAsConstructed(walk, reaches[2]) /\ node.ty = TargetOf(reaches[2]).answers
            [] reaches[1] = "helper" -> TRUE
            [] reaches[1] = "value" -> node.ty = ValueOf(walk.module, <<reaches[2], reaches[3]>>).body.ty
            [] reaches[1] = "publishedvalue" ->
                  \A entry \in EntriesFor(<<reaches[2], reaches[3]>>) : node.ty = entry.body.ty
            [] reaches[1] = "kernel" -> KernelHolds(node)
            [] reaches[2] = "BuildList" -> WalkCallHolds(node, "list")
            [] reaches[2] = "BuildMap" -> WalkCallHolds(node, "map")
            [] reaches[2] = "GrowList" -> node.ty[1] = "list" /\ EndsFor(node, <<"RequiredFormHasNoPlace">>)
            [] reaches[2] = "PutMap" -> EndsFor(node, <<"RequiredFormHasNoPlace">>)

(***************************************************************************)
(* One node                                                                *)
(***************************************************************************)
TemporalHolds(node) ==
    /\ IsPrim(node.ty) /\ node.ty[2] \in DOMAIN TemporalRange
    /\ node.is[2] \in TemporalRange[node.ty[2]]
    /\ IF node.ty[2] = "Instant" THEN node.is[3] \in Nanoseconds ELSE node.is[3] = 0

\* The relations of a node that holds no other.
LeafHolds(node, walk) ==
    CASE Kind(node) = "int" -> node.ty = Int64
      [] Kind(node) = "bool" -> node.ty = Truth
      [] Kind(node) = "string" -> node.ty = Prim("String")
      [] Kind(node) = "decimal" -> node.ty = Prim("Decimal")
      [] Kind(node) = "temporal" -> TemporalHolds(node)
      [] Kind(node) = "read" -> node.is[2] \in DOMAIN walk.bound /\ node.ty = walk.bound[node.is[2]]
      [] Kind(node) = "unit" ->
            /\ node.is[2][1] = "declared" => Shape(node.is[2][2]).is = "unit"
            /\ node.ty = Ref(node.is[2])
      [] Kind(node) = "none" -> node.ty[1] = "option"
      [] Kind(node) = "unreachable" -> EndsFor(node, <<"UnreachableReached">>)

\* What a node says of itself and of the types of its children.
OwnHolds(node, walk) ==
    LET fn == node.kids[1].ty IN
    CASE Kind(node) = "construct" ->
            /\ node.ty = Ref(Declared(node.is[2]))
            /\ Fielded(node.is[2])
            /\ EndsFor(node, IF ClauseNames(Shape(node.is[2])) = <<>> THEN <<>> ELSE <<"InvariantNotHeld">>)
            /\ Len(node.kids) = Len(Shape(node.is[2]).fields)
      [] Kind(node) = "attempt" ->
            /\ Fielded(node.is[2])
            /\ Len(Values(node)) = Len(Shape(node.is[2]).fields)
            /\ node.tys[1] = Ref(Declared(node.is[2]))
            /\ ClauseNames(Shape(node.is[2])) # <<>>
            /\ DeparturesHold(ClauseNames(Shape(node.is[2])), node)
      [] Kind(node) = "field" -> FieldHolds(node)
      [] Kind(node) = "binary" -> ReadingHolds(node) /\ OrderedHolds(node) /\ OperatorHolds(node)
      [] Kind(node) = "neg" ->
            /\ IsNumber(node.ty)
            /\ EndsFor(node, IF node.ty = Int64 THEN <<"RequiredFormHasNoPlace">> ELSE <<>>)
            /\ node.kids[1].is # <<"int", IntMin>>
      [] Kind(node) = "match" ->
            \A i \in DOMAIN Arms(node) : LET arm == Arms(node)[i] IN
               /\ arm.selects # <<>>
               /\ Tests(node.kids[1].ty, arm.selects)
               /\ arm.binding # <<>> => ArmBinds(node.kids[1].ty, arm.selects, arm.binding, ReadAs(node, i))
      [] Kind(node) = "some" -> node.ty[1] = "option"
      [] Kind(node) = "tuple" -> node.ty[1] = "tuple" /\ Len(node.kids) = Len(node.ty[2])
      [] Kind(node) = "list" -> node.ty[1] = "list"
      [] Kind(node) = "member" ->
            fn[1] = "tuple" /\ node.is[2] < Len(fn[2]) /\ node.ty = fn[2][node.is[2] + 1]
      [] Kind(node) = "call" -> CallHolds(node, walk)
      [] Kind(node) = "block" -> node.ty[1] = "fn" /\ Len(node.is[3]) = Len(node.ty[2])
      [] Kind(node) = "apply" ->
            fn[1] = "fn" /\ Len(node.kids) = Len(fn[2]) + 1 /\ node.ty = fn[3]
      [] Kind(node) = "widen" ->
            Kind(node.kids[1]) # "widen" /\ fn # node.ty /\ Fits(fn, node.ty)
      [] OTHER -> TRUE

\* The names a child of a node stands under, each with the type it is bound at.
BindingsOver(node, i) ==
    CASE Kind(node) = "attempt" /\ i = Len(Values(node)) + 1 -> << <<node.is[3], node.tys[1]>> >>
      [] Kind(node) = "let" /\ i = 2 -> << <<node.is[2], node.tys[1]>> >>
      [] Kind(node) = "match" /\ i > 1 /\ Arms(node)[i - 1].binding # <<>> ->
            << <<Arms(node)[i - 1].binding[2], ReadAs(node, i - 1)>> >>
      [] Kind(node) = "block" -> [j \in DOMAIN node.is[3] |-> <<node.is[3][j], node.ty[2][j]>>]
      [] OTHER -> <<>>

\* A number names one binder in force.
MayBind(walk, bindings) ==
    /\ Distinct([i \in DOMAIN bindings |-> bindings[i][1]])
    /\ \A i \in DOMAIN bindings : bindings[i][1] \notin DOMAIN walk.bound /\ WalkResolves(walk, bindings[i][2])
BindUnder(walk, bindings) ==
    [walk EXCEPT !.bound = [b \in {bindings[i][1] : i \in DOMAIN bindings} |->
                              bindings[CHOOSE i \in DOMAIN bindings : bindings[i][1] = b][2]] @@ @]

RECURSIVE Holds(_, _)
Holds(node, walk) ==
    /\ \A ty \in ToSet(Types(node)) : WalkResolves(walk, ty)
    /\ CanEndWithoutAValue(node) \/ node.aborts = <<>>
    /\ IF node.kids = <<>> /\ Kind(node) \notin {"call", "construct", "tuple", "list"}
       THEN LeafHolds(node, walk)
       ELSE /\ OwnHolds(node, walk)
            /\ \A i \in DOMAIN node.kids :
                  /\ MayBind(walk, BindingsOver(node, i))
                  /\ Holds(node.kids[i], BindUnder(walk, BindingsOver(node, i)))
            /\ HoldSlots(node, walk)
=============================================================================
