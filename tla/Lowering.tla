------------------------------ MODULE Lowering ------------------------------
(***************************************************************************)
(* What lowering a document into an object comes to (compiler/src/lib.rs): *)
(* nothing in the way, something this backend has no lowering for, or one  *)
(* of the facts it takes from the passes before it not being so.  A        *)
(* problem is "not lowered", "owed" (not lowered, and met last, where the  *)
(* hashers and equalities are written) or "panicked"; a node's problems    *)
(* are in the order it is lowered in, and the first is what it comes to.   *)
(***************************************************************************)
EXTENDS Restating

Needs(condition) == IF condition THEN <<>> ELSE <<"not lowered">>
Expects(condition) == IF condition THEN <<>> ELSE <<"panicked">>
Owes(condition) == IF condition THEN <<>> ELSE <<"owed">>
Width(ty) == Needs(HasMachineType(ty))
Widths(tys) == FlattenSeq([i \in DOMAIN tys |-> Width(tys[i])])
OneReason(node) == Expects(Len(node.aborts) = 1)

(***************************************************************************)
(* Where a node is lowered: the module, the copies and the one being       *)
(* defined (0 for none), whether what is lowered was planned, and the      *)
(* names in force and those of the list being grown among them.            *)
(***************************************************************************)
Place0(module, instances, copy, bound) ==
    [module |-> module, instances |-> instances, copy |-> copy, planned |-> TRUE,
     bound |-> bound, grown |-> {}]
Entered(at, name) == [at EXCEPT !.bound = @ \union {name}]
MayEnter(at, name) == Expects(name \notin at.bound)

\* A construction laid out here or made by the declaring object's constructor.
ConstructorHere(key) ==
    \/ key \in Built
    \/ Shape(key).by = "onthepath"
Constructs(key) == IF Construction(Shape(key)) = "laid" THEN <<>> ELSE Needs(ConstructorHere(key))

\* A value carrying its token, which a test of a case reads.
TaggedValue(ty) == Expects(SaysItsCase(ty))
TestProblems(subject, selects) ==
    FlattenSeq([i \in DOMAIN selects |-> IF selects[i][1] = "which" THEN TaggedValue(subject) ELSE <<>>])
BindProblems(subject, binding, readAs) ==
    (IF binding[1] = "payload" THEN <<>> ELSE Needs(Restates(subject, readAs))) \o Width(readAs)

(***************************************************************************)
(* Operators                                                               *)
(***************************************************************************)
OpenedWidths(ty) == Widths(NewtypeSpine(ty))
OrderProblems(ty, basis) ==
    IF Is(basis, "sum") THEN OpenedWidths(ty) \o TaggedValue(Opened(ty))
    ELSE OpenedWidths(ty) \o Needs(IsPrim(basis) /\ basis # Truth)
CompareProblems(node, ty) ==
    CASE node.is[2] \in Equalities -> Needs(Comparable(ty))
      [] node.is[2] \in Orders -> IF HasOrdering(node) THEN OrderProblems(ty, OrderingBasis(node)) ELSE <<"not lowered">>
      [] OTHER -> <<"panicked">>
ExactProblems(node) ==
    Needs(IsNumber(node.kids[1].ty)) \o Needs(IsNumber(node.kids[2].ty))
    \o (IF node.is[2] \in {"Add", "Sub", "Mul"} THEN OneReason(node)
        ELSE Needs(node.is[2] \in {"Div"} \union Equalities \union Orders))

\* What an operator comes to once both its operands are worked out.
OperatorProblems(node) ==
    LET left == node.kids[1].ty
        right == node.kids[2].ty
    IN CASE Reading(node) = "exact" \/ node.is[2] = "Div" -> ExactProblems(node)
         [] Reading(node) = "in" ->
               Needs(Restates(left, ReadIn(node))) \o Needs(Restates(right, ReadIn(node)))
               \o CompareProblems(node, ReadIn(node))
         [] Reading(node) = "opened" ->
               OpenedWidths(left) \o OpenedWidths(right) \o CompareProblems(node, ReadBase(node))
         [] node.is[2] \in {"Add", "Sub", "Mul"} -> Needs(left = right /\ IsNumber(left)) \o OneReason(node)
         [] node.is[2] = "Concat" ->
               Needs(left = right /\ (left = Prim("String") \/ left[1] = "list")) \o OneReason(node)
         [] OTHER -> CompareProblems(node, left)

(***************************************************************************)
(* Kernels                                                                 *)
(***************************************************************************)
\* The type a set or a map is kept over, and how much of it a kernel asks of the runtime.
KeptOver(node) ==
    LET takes == KernelTakes(node) IN
    CASE KernelName(node) \in {"set.singleton", "set.insert", "set.remove", "set.contains", "map.get",
                               "map.containsKey", "map.singleton", "map.insert", "map.remove"} -> <<takes[1]>>
      [] KernelName(node) \in {"set.union", "set.intersection", "set.difference", "set.fromList"} -> <<takes[1][2]>>
      [] KernelName(node) = "map.fromList" -> <<takes[1][2][2][1]>>
      [] OTHER -> <<>>
Hashable(ty) == HashPlan(ty)[1] # "none"
Equated(ty) == HasNoValue(ty) \/ Comparable(ty)
KeyProblems(name, ty) ==
    Owes((name \in {"set.union", "set.intersection", "set.difference"} \/ Hashable(ty)) /\ Equated(ty))

ApplyProblems(fn) == Width(fn[3]) \o Widths(fn[2])
\* A walk over a list whose elements have no value answers what it answers with none.
SubjectProblems(node) ==
    LET subject == node.tys[Len(KernelTakes(node)) + 1] IN
    IF HasNoValue(subject) THEN <<>>
    ELSE Width(subject) \o Needs(KernelFact(node)[2])
         \o (IF KernelFact(node)[2] THEN OrderProblems(subject, Last(node.tys)) ELSE <<>>)

KernelProblems(node) ==
    LET name == KernelName(node)
        takes == KernelTakes(node)
    IN CASE KeptOver(node) # <<>> ->
               KeyProblems(name, KeptOver(node)[1])
               \o (IF name \in {"set.insert", "map.insert", "set.union"} THEN OneReason(node) ELSE <<>>)
         [] name \in {"list.find", "option.map"} -> IF NeverRuns(takes[1]) THEN <<>> ELSE ApplyProblems(takes[1])
         [] name = "list.sortBy" ->
               IF NeverRuns(takes[1]) THEN <<>> ELSE ApplyProblems(takes[1]) \o SubjectProblems(node)
         [] name \in {"list.sort", "list.max", "list.min"} -> SubjectProblems(node)
         [] name \in {"list.sum", "list.product"} -> Needs(IsNumber(takes[1][2])) \o OneReason(node)
         [] name = "rational.divide" -> <<>>
         [] KernelContracts[name].aborts # <<>> -> OneReason(node)
         [] OTHER -> <<>>

(***************************************************************************)
(* Nodes.  A node stands where its value is asked for, where the copy of a *)
(* helper being defined answers ("tail"), or where the run ends ("end").   *)
(***************************************************************************)
CallsItself(node, at) ==
    /\ at.copy # 0 /\ Kind(node) = "call" /\ node.is[2][1] = "helper"
    /\ Callee(at.instances, at.module, node) = at.instances[at.copy]
Forks == {"let", "if", "match", "attempt"}

RECURSIVE Problems(_, _, _)
Each(nodes, at) == FlattenSeq([i \in DOMAIN nodes |-> Problems(nodes[i], "value", at)])

\* Each argument lowered, except a function the callee never applies, which is not lowered at all.
Arguments(node, at) ==
    Each(SelectSeq(node.kids, LAMBDA kid : ~(kid.ty[1] = "fn" /\ NeverRuns(kid.ty))), at)
\* Each argument lowered as it stands, those no pass before this one walked too.
ArgumentsAsTheyStand(node, at) ==
    FlattenSeq([i \in DOMAIN node.kids |->
        Problems(node.kids[i], "value", [at EXCEPT !.planned = @ /\ i \notin NeverApplied(node)])])

\* What is bound around a step is in force over what is walked too, and left after the step.
WalkProblems(node, at) ==
    LET lets == AroundStep(node.kids[1])
        step == UnderLets(node.kids[1])
        entered == FoldLeft(LAMBDA sofar, let :
                       [problems |-> sofar.problems \o Problems(let.kids[1], "value", sofar.at)
                                     \o Width(let.tys[1]) \o MayEnter(sofar.at, let.is[2]),
                        at |-> Entered(sofar.at, let.is[2])],
                       [problems |-> <<>>, at |-> at], lets)
        grown == Entered(entered.at, step.is[3][1])
        growing == IF node.is[2][2] = "BuildList" THEN [grown EXCEPT !.grown = @ \union {step.is[3][1]}] ELSE grown
    IN IF NeverApplied(node) # {} THEN Each(Tail(node.kids), at)
       ELSE entered.problems
            \o Each(Tail(node.kids), entered.at)
            \o MayEnter(entered.at, step.is[3][1])
            \o Width(step.ty[2][2])
            \o MayEnter(grown, step.is[3][2])
            \o Problems(step.kids[1], "value", Entered(growing, step.is[3][2]))

CallProblems(node, at) ==
    LET reaches == node.is[2] IN
    CASE reaches[1] = "behavior" -> Arguments(node, at) \o Width(TargetOf(reaches[2]).answers)
      [] reaches[1] = "helper" -> Expects(at.planned) \o Arguments(node, at) \o Width(node.ty)
      [] reaches[1] \in {"value", "publishedvalue"} -> Arguments(node, at) \o Width(node.ty)
      [] reaches[1] = "kernel" ->
            IF reaches[2] \notin LoweredKernels THEN <<"not lowered">>
            ELSE IF reaches[2] = "string.matches" THEN Problems(node.kids[2], "value", at)
            ELSE Each(node.kids, at) \o KernelProblems(node)
      [] reaches[2] \in {"BuildList", "BuildMap"} -> WalkProblems(node, at)
      [] reaches[2] = "GrowList" ->
            Expects(NamesTheGrown(node.kids[1], at.grown)) \o Problems(node.kids[1], "value", at) \o OneReason(node)
            \o (IF Kind(node.kids[2]) = "list" THEN Each(node.kids[2].kids, at) ELSE Problems(node.kids[2], "value", at))
      [] reaches[2] = "PutMap" ->
            ArgumentsAsTheyStand(node, at) \o KeyProblems("map.insert", node.ty[2]) \o OneReason(node)

\* What a fork chooses by, then each branch where the fork stands.
ForkProblems(node, position, at) ==
    LET kids == node.kids
        arm(i) == LET it == Arms(node)[i] IN
            IF NeverEntered(it, kids[1].ty) THEN <<>>
            ELSE TestProblems(kids[1].ty, it.selects)
                 \o (IF it.binding = <<>> THEN Problems(kids[i + 1], position, at)
                     ELSE BindProblems(kids[1].ty, it.binding, ReadAs(node, i)) \o MayEnter(at, it.binding[2])
                          \o Problems(kids[i + 1], position, Entered(at, it.binding[2])))
        letAt == LET entered == Entered(at, node.is[2]) IN
            IF NamesTheGrown(kids[1], at.grown) THEN [entered EXCEPT !.grown = @ \union {node.is[2]}] ELSE entered
    IN CASE Kind(node) = "let" ->
               Problems(kids[1], "value", at) \o Width(node.tys[1]) \o MayEnter(at, node.is[2])
               \o Problems(kids[2], position, letAt)
         [] Kind(node) = "if" ->
               Problems(kids[1], "value", at) \o Problems(kids[2], position, at) \o Problems(kids[3], position, at)
         [] Kind(node) = "match" ->
               Problems(kids[1], "value", at) \o FlattenSeq([i \in DOMAIN Arms(node) |-> arm(i)])
         [] Kind(node) = "attempt" ->
               Each(Values(node), at)
               \o Needs(ConstructorHere(node.is[2]))
               \o Expects(0 \notin ToSet(DeparturesTaken(ClauseNames(Shape(node.is[2])), node)))
               \o Width(node.tys[1]) \o MayEnter(at, node.is[3])
               \o Problems(Then(node), position, Entered(at, node.is[3]))
               \o FlattenSeq([i \in DOMAIN Departures(node) |-> Problems(Departures(node)[i], position, at)])

\* The names a body reads from around it, among what is lowered of it.
RECURSIVE FreeIn(_)
FreeIn(node) ==
    LET over(i) == {BindingsOver(node, i)[j][1] : j \in DOMAIN BindingsOver(node, i)}
    IN (IF Kind(node) = "read" THEN {node.is[2]} ELSE {})
       \union UNION {FreeIn(node.kids[i]) \ over(i) : i \in DOMAIN node.kids \ NeverLowered(node)}

\* A field every case of a sum declares, read where the case the value is lays it out.
SharedFieldProblems(node) ==
    LET cases == LeavesOf(<<node.kids[1].ty[2]>>)
        fieldOf(key) == Shape(key).fields[PositionOf(Shape(key), node.is[2])].ty
    IN Width(node.ty)
       \o FlattenSeq([i \in DOMAIN cases |->
            Width(fieldOf(cases[i][2])) \o Needs(Restates(fieldOf(cases[i][2]), node.ty))])

Problems(node, position, at) ==
    LET kids == Each(node.kids, at) IN
    CASE position = "tail" /\ CallsItself(node, at) -> ArgumentsAsTheyStand(node, at)
      [] Kind(node) \in Forks ->
            (IF position = "value" THEN Width(node.ty) ELSE <<>>) \o ForkProblems(node, position, at)
      [] position = "end" -> IF Kind(node) = "unreachable" THEN <<>> ELSE Width(node.ty)
      [] Kind(node) \in {"int", "bool", "unreachable"} -> Width(node.ty)
      [] Kind(node) = "read" -> Expects(node.is[2] \in at.bound)
      [] Kind(node) = "neg" ->
            IF Kind(node.kids[1]) = "int" THEN Width(node.kids[1].ty)
            ELSE Width(node.kids[1].ty) \o kids
                 \o (IF node.kids[1].ty \in {Prim("Decimal"), Prim("Rational")} THEN <<>> ELSE OneReason(node))
      [] Kind(node) = "binary" ->
            IF Reading(node) = "asis" /\ node.is[2] \in Connectives
            THEN Problems(node.kids[1], "value", at) \o Width(node.kids[1].ty) \o Problems(node.kids[2], "value", at)
            ELSE kids \o OperatorProblems(node)
      [] Kind(node) = "temporal" -> Expects(IsPrim(node.ty) /\ node.ty[2] \in DOMAIN TemporalRange)
      [] Kind(node) = "unit" ->
            IF node.is[2][1] = "declared" THEN Constructs(node.is[2][2]) ELSE Needs(node.is[2][1] = "language")
      [] Kind(node) = "construct" -> kids \o Constructs(node.is[2])
      [] Kind(node) = "field" ->
            Expects(IsDeclared(node.kids[1].ty)) \o kids
            \o (IF Is(node.kids[1].ty, "sum") THEN SharedFieldProblems(node)
                ELSE Expects(PositionOf(Shape(node.kids[1].ty[2][2]), node.is[2]) # 0) \o Width(node.ty))
      [] Kind(node) = "member" -> kids \o Width(node.ty)
      [] Kind(node) = "widen" ->
            Width(node.ty)
            \o Problems(node.kids[1], IF DoesNotAnswer(node.kids[1].ty) THEN "end" ELSE "value", at)
            \o Needs(Restates(node.kids[1].ty, node.ty))
      [] Kind(node) = "block" ->
            Expects(at.planned) \o (IF NeverRuns(node.ty) THEN <<>> ELSE Expects(FreeIn(node) \subseteq at.bound))
      [] Kind(node) = "apply" -> Expects(node.kids[1].ty[1] = "fn") \o kids \o ApplyProblems(node.kids[1].ty)
      [] Kind(node) = "call" -> CallProblems(node, at)
      [] OTHER -> kids

(***************************************************************************)
(* The object: every signature is declared before any body is lowered.     *)
(***************************************************************************)
\* A value means in another object what it means in this one.
CrossesObject(ty) == Needs(~IsOpen(ty))
CrossesObjects(target) ==
    FlattenSeq([i \in DOMAIN target.takes |-> CrossesObject(target.takes[i])]) \o CrossesObject(target.answers)
Signature(takes, answers) == Widths(takes) \o Width(answers)

\* The bodies lowered as they stand in the document, and the copies of the helpers.
StandsAlone(body) == body.owner[1] \in {"value", "entry", "definition", "example"}
AloneBodies == SelectSeq(RunBodies, StandsAlone)
OthersBodies == SelectSeq(RunBodies, LAMBDA body : body.owner[1] # "helper")
NamesBound(bindings) == {bindings[i][1] : i \in DOMAIN bindings}
HelperTakes(instance) ==
    LET takes == Takes(HelperOf(instance.module, instance.reached))
    IN [i \in DOMAIN takes |-> PartlyApplied(BoundOf(instance.types), takes[i])]

\* What is lowered where: what is asked before it and after it, the nodes, and the place they stand in.
ToLower(first, nodes, position, at, then) ==
    [first |-> first, nodes |-> nodes, position |-> position, at |-> at, then |-> then]
Asking(problems) == ToLower(problems, <<>>, "value", <<>>, <<>>)
BodyAt(first, body, instances) ==
    ToLower(first, <<body.node>>, "value", Place0(body.module, instances, 0, NamesBound(BoundIn(body))), <<>>)

\* Every closure site with code of its own, with the module it stands in; the step of a walk is no site.
SitesIn(node) ==
    LET lowered == EachLowered(node)
        steps == {UnderLets(walk.kids[1]) : walk \in {it \in ToSet(lowered) : WalksAStep(it)}}
    IN SelectSeq(lowered, LAMBDA it : Kind(it) = "block" /\ ~NeverRuns(it.ty) /\ it \notin steps)
SitesWithin(module, blocks) == [i \in DOMAIN blocks |-> [module |-> module, block |-> blocks[i]]]
Sites(instances) ==
    LET over(all) == FlattenSeq([i \in DOMAIN all |-> SitesWithin(all[i][1], SitesIn(all[i][2]))])
        others(bodies) == [i \in DOMAIN bodies |-> <<bodies[i].module, bodies[i].node>>]
    IN over(others(OthersBodies) \o [i \in DOMAIN instances |-> <<instances[i].module, instances[i].body>>])

TargetProblems(target) ==
    Signature(target.takes, target.answers)
    \o (CASE DefinedAs(target) = "here" -> <<>>
          [] DefinedAs(target) = "nowhere" -> <<"not lowered">>
          [] DefinedAs(target) = "elsewhere" /\ target.is = "injected" -> <<>>
          [] OTHER -> CrossesObjects(target))

DeclarationProblems(instances, sites) ==
    LET over(all, of(_)) == FlattenSeq([i \in DOMAIN all |-> of(all[i])])
        handed(bound) == [j \in DOMAIN bound |-> bound[j][2]]
    IN over(sites, LAMBDA site : Signature(site.block.ty[2], site.block.ty[3]))
       \o over(SetToSeq(Built), LAMBDA key : Widths(FieldTypes(key)))
       \o over(doc.behaviors, TargetProblems)
       \o over(instances, LAMBDA it : Signature(HelperTakes(it), it.body.ty))
       \o over(AloneBodies, LAMBDA body : Widths(handed(BoundIn(body))) \o Width(body.node.ty))

\* A stand-in compares what a call arrived with, argument by argument, and answers what it states.
StoodInAt(body, standIn, instances) ==
    LET stated(nodes, then) == ToLower(<<>>, nodes, "value", Place0(body.module, instances, 0, {}), then)
        takes == TargetOf(standIn.of).takes
        entry(it) == [i \in DOMAIN it.arguments |-> stated(<<it.arguments[i]>>, Needs(Comparable(takes[i])))]
                     \o <<stated(<<it.answer>>, <<>>)>>
    IN FlattenSeq([i \in DOMAIN standIn.entries |-> entry(standIn.entries[i])]) \o <<stated(standIn.otherwise, <<>>)>>

\* The row of a behavior a host gives is held to what it states, where that can be compared.
KeepingAt(body, example, instances) ==
    LET target == TargetOf(example.behavior)
        stated == example.expects[2]
    IN IF DefinedAs(target) # "bythehost" \/ example.expects[1] # "value" THEN <<>>
       ELSE IF Restatement(stated.ty, target.answers) = NoPlan \/ ~Comparable(target.answers) THEN <<>>
       ELSE <<ToLower(<<>>, <<stated>>, "value", Place0(body.module, instances, 0, {}),
                        Needs(Restates(stated.ty, target.answers)))>>

ComposedProblems(definition) ==
    LET stages == definition.stages
        answers == TargetOf(definition.declared).answers
        stage(i) == LET running == RunningAfter(stages, i - 1)
                        taken == TargetOf(stages[i].behavior).takes
                    IN Expects(Len(taken) = 1)
                       \o (IF stages[i].accepted = <<>> THEN <<>>
                           ELSE TaggedValue(running) \o Needs(Restates(running, answers)))
                       \o Needs(Restates(running, taken[1]))
    IN Expects(stages # <<>>)
       \o FlattenSeq([i \in 1..(Len(stages) - 1) |-> stage(i + 1)])
       \o Needs(Restates(RunningAfter(stages, Len(stages)), answers))

RuleAt(body, instances) ==
    LET rule == RuleOf(body)
        answers == doc.behaviors[body.owner[2]].answers
        binding == IF rule.guard[1] = Held THEN <<"payload", rule.value>> ELSE <<"selected", rule.value>>
    IN BodyAt(IF rule.guard = <<>> THEN Width(answers)
              ELSE TestProblems(answers, <<rule.guard[1]>>) \o BindProblems(answers, binding, rule.guard[2]),
              body, instances)

\* Everything that is lowered, in the order it is.
Definings(instances, bodies, sites) ==
    LET over(owner, of(_)) == LET owned == SelectSeq(bodies, LAMBDA body : body.owner[1] = owner)
                              IN FlattenSeq([i \in DOMAIN owned |-> of(owned[i])])
        rowOf(body) == ModuleOf(body.module).examples[body.owner[2]]
        stood(body) == LET standsIn == rowOf(body).standsIn
                       IN FlattenSeq([i \in DOMAIN standsIn |-> StoodInAt(body, standsIn[i], instances)])
        copy(i) == ToLower(<<>>, <<instances[i].body>>, "tail",
                             Place0(instances[i].module, instances, i, 0..(Len(HelperTakes(instances[i])) - 1)), <<>>)
        site(it) == ToLower(<<>>, <<it.block.kids[1]>>, "value",
                              Place0(it.module, instances, 0, FreeIn(it.block) \union ToSet(it.block.is[3])), <<>>)
        alone == SelectSeq(bodies, StandsAlone)
        composed == SelectSeq(Definitions, LAMBDA it : it.is = "composed")
    IN [i \in DOMAIN instances |-> copy(i)]
       \o [i \in DOMAIN alone |-> BodyAt(<<>>, alone[i], instances)]
       \o over("example", stood)
       \o over("example", LAMBDA body : KeepingAt(body, rowOf(body), instances))
       \o [i \in DOMAIN composed |-> Asking(ComposedProblems(composed[i]))]
       \o over("ensures", LAMBDA body : <<RuleAt(body, instances)>>)
       \o [i \in DOMAIN sites |-> site(sites[i])]
       \o over("invariant", LAMBDA body : <<BodyAt(<<>>, body, instances)>>)
DefinitionProblems(definings) ==
    LET within(it) == FlattenSeq([i \in DOMAIN it.nodes |-> Problems(it.nodes[i], it.position, it.at)])
    IN FlattenSeq([i \in DOMAIN definings |-> definings[i].first \o within(definings[i]) \o definings[i].then])

\* What lowering comes to: what is met first, with what is owed met last.
ComesTo(problems) ==
    LET met == SelectSeq(problems, LAMBDA problem : problem # "owed")
    IN IF met # <<>> THEN met[1] ELSE IF problems # <<>> THEN "not lowered" ELSE "lowered"
Emits(instances, bodies, sites) ==
    ComesTo(DeclarationProblems(instances, sites) \o DefinitionProblems(Definings(instances, bodies, sites)))
Lowered(instances) == Emits(instances, RunBodies, Sites(instances))
=============================================================================
