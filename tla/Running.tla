------------------------------ MODULE Running ------------------------------
(***************************************************************************)
(* What the code lowered from a document does when it runs                 *)
(* (compiler/src/lib.rs), a node at a time over held values.  A run        *)
(* answers a value, ends with a status for a reason, traps where no arm of *)
(* a fork is taken, or goes wrong: a value is used that is not held as the *)
(* type written where it stands says.                                      *)
(***************************************************************************)
EXTENDS KernelOps

Answered(value) == <<"answered", value>>
EndedFor(status, why) == <<"ended", status, why>>
Wrong(what) == <<"wrong", what>>
Trapped == <<"trapped">>
InjectionUnbound == EndedFor("InjectionUnbound", "InjectionUnbound")

\* What follows an answer; a status is forwarded as it arrived.
Onward(result, next(_)) == IF result[1] = "answered" THEN next(result[2]) ELSE result
OneReasonStatus(node) == node.aborts[1]
Ending(node, result) ==
    IF result[1] = "done" THEN Answered(result[2]) ELSE EndedFor(OneReasonStatus(node), result[2])
Settles(value, ty, result) == IF StandsAs(value, ty) THEN result ELSE Wrong("held another way")
AllStand(values, tys) == Len(values) = Len(tys) /\ \A i \in DOMAIN tys : StandsAs(values[i], tys[i])

(***************************************************************************)
(* Where code runs: the module, the names in force, what it was            *)
(* constructed with (the behaviors required and their capabilities, Null   *)
(* where it was handed none), the row it is the entry of, and what the     *)
(* host does.                                                              *)
(***************************************************************************)
NoRow == [constructs |-> "", handed |-> FALSE, requirements |-> Null]
PlaceOf(module, names, at) ==
    [module |-> module, instances |-> at.instances, names |-> names, requires |-> <<>>,
     held |-> Null, row |-> NoRow, host |-> at.host]
Named(at, number, value) == [at EXCEPT !.names = (number :> value) @@ @]
ByPosition(values) == [i \in 0..(Len(values) - 1) |-> values[i + 1]]
ByBinding(bindings, values) ==
    [b \in {bindings[i][1] : i \in DOMAIN bindings} |->
        values[CHOOSE i \in DOMAIN bindings : bindings[i][1] = b]]

Grown(slots) == <<"growing", slots>>
IsGrown(value) == value[1] = "growing"

(***************************************************************************)
(* Operators over the values of both operands                              *)
(***************************************************************************)
Negated(prim, value) ==
    CASE prim = "Int" -> IntArithmetic("Sub", 0, value[2])
      [] prim = "Decimal" -> Done(<<"Decimal", -value[2], value[3]>>)
      [] prim = "Rational" -> Done(<<"Rational", -value[2], value[3]>>)

\* Two values of one type by an equality or an order.
ComparedBy(node, ty, a, b) ==
    LET basis == OrderingBasis(node)
        on(value) == StandsAs(OpenedValue(ty, value), basis)
    IN IF ~AllStand(<<a, b>>, <<ty, ty>>) THEN Wrong("compared as another type")
       ELSE IF node.is[2] \in Equalities THEN Answered(Byte(Equal(ty, a, b) = (node.is[2] = "Eq")))
       ELSE IF on(a) /\ on(b) THEN Answered(Byte(Ordered(node.is[2], ty, basis, a, b)))
       ELSE Wrong("placed on another order")

Exactly(node, a, b) ==
    LET one == ExactNumber(node.kids[1].ty[2], a)
        other == ExactNumber(node.kids[2].ty[2], b)
        quotient == ExactQuotient(one, other)
        order == RationalCompare(one, other)
    IN CASE node.is[2] = "Div" ->
               IF quotient[1] = "done" THEN Answered(quotient[2]) ELSE EndedFor(quotient[2], quotient[2])
         [] node.is[2] \in {"Add", "Sub", "Mul"} -> Ending(node, RationalArithmetic(node.is[2], one, other))
         [] OTHER ->
               Answered(Byte(CASE node.is[2] = "Eq" -> order = 0 [] node.is[2] = "Ne" -> order # 0
                               [] node.is[2] = "Lt" -> order < 0 [] node.is[2] = "Le" -> order <= 0
                               [] node.is[2] = "Gt" -> order > 0 [] node.is[2] = "Ge" -> order >= 0))

Operated(node, a, b) ==
    LET left == node.kids[1].ty
        right == node.kids[2].ty
        openedAs(ty, value) == IF ty = ReadNewtype(node) THEN OpenedValue(ty, value) ELSE value
    IN CASE Reading(node) = "exact" \/ node.is[2] = "Div" -> Exactly(node, a, b)
         [] Reading(node) = "in" ->
               ComparedBy(node, ReadIn(node), Restated(a, left, ReadIn(node)), Restated(b, right, ReadIn(node)))
         [] Reading(node) = "opened" -> ComparedBy(node, ReadBase(node), openedAs(left, a), openedAs(right, b))
         [] ~StandsAs(b, left) -> Wrong("operated on as another type")
         [] node.is[2] \in {"Add", "Sub", "Mul"} -> Ending(node, ArithmeticOf(left[2], node.is[2], a, b))
         [] node.is[2] = "Concat" -> Ending(node, IF left = Prim("String") THEN AsText(a[2] \o b[2]) ELSE JoinedLists(a[2], b[2]))
         [] OTHER -> ComparedBy(node, left, a, b)

(***************************************************************************)
(* Forks                                                                   *)
(***************************************************************************)
Tested(value, selects) ==
    \E one \in ToSet(selects) :
       CASE one[1] = "which" -> value[2] \in ToSet(one[2])
         [] one = Held -> value # Null
         [] one = Absent -> value = Null
Bound(value, subject, binding, readAs) ==
    IF binding[1] = "payload" THEN OutOfSlot(value[2], readAs) ELSE Restated(value, subject, readAs)
\* The arms in the order they are written, but for those never entered; 0 where none is taken.
ArmTaken(node, value) ==
    LET taken == {i \in DOMAIN Arms(node) : /\ ~NeverEntered(Arms(node)[i], node.kids[1].ty)
                                            /\ Tested(value, Arms(node)[i].selects)}
    IN IF taken = {} THEN 0 ELSE Min(taken)

SlotsOf(values) == [i \in DOMAIN values |-> IntoSlot(values[i])]
FieldRead(value, of, name, ty) ==
    LET case == IF Is(of, "sum") THEN value[2] ELSE of[2]
        at == PositionOf(Shape(case[2]), name)
        field == Shape(case[2]).fields[at].ty
    IN Restated(OutOfSlot(value[3][at], field), field, ty)

(***************************************************************************)
(* Nodes                                                                   *)
(***************************************************************************)
RECURSIVE Run(_, _)

\* What runs besides the nodes of a document: a function value applied, a behavior applied, one a host
\* calls, a row, a row held to what it states, a value a host has, and a host that fails.
Applying(fn, ty, values) == Node(<<"applying", fn, values>>, ty[3], <<>>, <<ty>>, <<>>)
Calling(key, through, values) == Node(<<"calling", key, through, values>>, TargetOf(key).answers, <<>>, <<>>, <<>>)
Hosting(key, held, kids) == Node(<<"hosting", key, held>>, TargetOf(key).answers, <<>>, <<>>, kids)
RowOfModule(module, example) == Node(<<"row", module, example>>, TargetOf(example.behavior).answers, <<>>, <<>>, <<>>)
Keeping(module, example) == Node(<<"keeping", module, example>>, Truth, <<>>, <<>>, <<>>)
Having(value, ty) == Node(<<"having", value>>, ty, <<>>, <<>>, <<>>)
Failing(ty) == Node(<<"failing">>, ty, <<>>, <<>>, <<>>)

\* A value asked for: the list a walk grows is not one.
Value(node, at) ==
    Onward(Run(node, at), LAMBDA value : IF IsGrown(value) THEN Wrong("read while it grows") ELSE Answered(value))
InOrderOf(nodes, at) ==
    FoldLeft(LAMBDA sofar, node :
               Onward(sofar, LAMBDA values : Onward(Value(node, at), LAMBDA value : Answered(Append(values, value)))),
             Answered(<<>>), nodes)
\* A function the callee never applies is not worked out.
Given(node, at) ==
    FoldLeft(LAMBDA sofar, kid :
               Onward(sofar, LAMBDA values :
                  IF kid.ty[1] = "fn" /\ NeverRuns(kid.ty) THEN Answered(Append(values, <<"uncallable">>))
                  ELSE Onward(Value(kid, at), LAMBDA value : Answered(Append(values, value)))),
             Answered(<<>>), node.kids)

\* The place of the first clause a construction does not hold, 0 where it holds every one.
Decided(key, values, at) ==
    LET declaration == Shape(key)
        clauses == ClausesOf(declaration)[1]
        names == ByBinding(FieldsBound(declaration), values)
    IN IF ClausesOf(declaration) = <<>> THEN at.host[<<key>>]
       ELSE FoldLeft(LAMBDA sofar, place : Onward(sofar, LAMBDA failed :
                        IF failed # 0 THEN sofar
                        ELSE Onward(Value(clauses[place].condition, PlaceOf(declaration.module, names, at)),
                                    LAMBDA truth : Answered(IF truth[2] = 1 THEN 0 ELSE place))),
                     Answered(0), [place \in DOMAIN clauses |-> place])

LaidOut(key, values) == Cell(Declared(key), SlotsOf(values))
Constructed(key, values, at) ==
    IF ~AllStand(values, FieldTypes(key)) THEN Wrong("constructed of another type")
    ELSE IF Construction(Shape(key)) = "laid" THEN Answered(LaidOut(key, values))
    ELSE Onward(Decided(key, values, at), LAMBDA failed :
            IF failed = 0 THEN Answered(LaidOut(key, values)) ELSE EndedFor("InvariantNotHeld", "InvariantNotHeld"))

Attempted(node, values, at) ==
    IF ~AllStand(values, FieldTypes(node.is[2])) THEN Wrong("constructed of another type")
    ELSE Onward(Decided(node.is[2], values, at), LAMBDA failed :
            IF failed = 0 THEN Run(Then(node), Named(at, node.is[3], LaidOut(node.is[2], values)))
            ELSE Run(Departures(node)[DeparturesTaken(ClauseNames(Shape(node.is[2])), node)[failed]], at))

Matched(node, value, at) ==
    LET i == ArmTaken(node, value)
        arm == Arms(node)[i]
    IN IF i = 0 THEN Trapped
       ELSE IF arm.binding = <<>> THEN Run(node.kids[i + 1], at)
       ELSE Run(node.kids[i + 1],
                Named(at, arm.binding[2], Bound(value, node.kids[1].ty, arm.binding, ReadAs(node, i))))

\* A function value applied: a closure's code over what it carries, or one restated to another type.
Applied(fn, ty, values, at) ==
    LET block == fn[2]
        from == fn[3]
        to == fn[4]
    IN CASE fn[1] = "uncallable" -> Wrong("applied what is never applied")
         [] ~AllStand(values, ty[2]) -> Wrong("applied to another type")
         [] fn[1] = "closure" ->
               Value(block.kids[1],
                     [PlaceOf(fn[3].module,
                              ByBinding([i \in DOMAIN values |-> <<block.is[3][i], i>>], values) @@ fn[3].names, at) EXCEPT
                        !.requires = fn[3].requires, !.held = fn[3].held])
         [] OTHER ->
               Onward(Run(Applying(fn[2], from, [i \in DOMAIN values |-> Restated(values[i], to[2][i], from[2][i])]), at),
                      LAMBDA answer : Answered(Restated(answer, from[3], to[3])))

\* A closure carries what its body reads from around it, and what the code making it was constructed with.
Made(node, at) ==
    IF NeverRuns(node.ty) THEN <<"uncallable">>
    ELSE <<"closure", node, [module |-> at.module, names |-> [n \in FreeIn(node) |-> at.names[n]],
                             requires |-> at.requires, held |-> at.held]>>

(***************************************************************************)
(* Kernels and walks                                                       *)
(***************************************************************************)
EachApplied(fn, ty, slots, at) ==
    FoldLeft(LAMBDA sofar, slot : Onward(sofar, LAMBDA made :
               Onward(Run(Applying(fn, ty, <<OutOfSlot(slot, ty[2][1])>>), at),
                      LAMBDA answer : Answered(Append(made, IntoSlot(answer))))),
             Answered(<<>>), slots)
Found(fn, ty, slots, at) ==
    FoldLeft(LAMBDA sofar, slot : Onward(sofar, LAMBDA found :
               IF found # Null THEN sofar
               ELSE Onward(Run(Applying(fn, ty, <<OutOfSlot(slot, ty[2][1])>>), at),
                           LAMBDA truth : Answered(IF truth[2] = 1 THEN Present(slot) ELSE Null))),
             Answered(Null), slots)

\* A quotient ends with the reason there is; every other kernel with the one its node names.
EndingOf(node, result) ==
    IF KernelName(node) = "rational.divide" /\ result[1] # "done" THEN EndedFor(result[2], result[2]) ELSE Ending(node, result)
RunKernel(node, given, at) ==
    LET name == KernelName(node)
        takes == KernelTakes(node)
        fn == takes[1]
        subject == node.tys[Len(takes) + 1]
        placed(slots) == HasNoValue(subject) \/
            (KernelFact(node)[2] /\ \A slot \in ToSet(slots) :
                StandsAs(OutOfSlot(slot, subject), subject)
                /\ StandsAs(OpenedValue(subject, OutOfSlot(slot, subject)), Last(node.tys)))
    IN CASE ~AllStand(given, takes) -> Wrong("handed another type")
         [] name = "list.find" -> IF NeverRuns(fn) THEN Answered(Null) ELSE Found(given[1], fn, given[2][2], at)
         [] name = "option.map" ->
               IF NeverRuns(fn) \/ given[2] = Null THEN Answered(Null)
               ELSE Onward(EachApplied(given[1], fn, <<given[2][2]>>, at), LAMBDA made : Answered(Present(made[1])))
         [] name = "list.sortBy" ->
               IF NeverRuns(fn) THEN Answered(given[2])
               ELSE Onward(EachApplied(given[1], fn, given[2][2], at), LAMBDA keys :
                      IF HasNoValue(subject) THEN Answered(given[2])
                      ELSE IF ~placed(keys) THEN Wrong("placed on another order")
                      ELSE Answered(Listed(SortedBeside(subject, Last(node.tys), keys, given[2][2]))))
         [] name \in {"list.sort", "list.max", "list.min"} /\ ~placed(given[1][2]) -> Wrong("placed on another order")
         [] OTHER -> EndingOf(node, KernelAnswers(node, given))

\* Each element from an index on, handed to the step with what it made so far.
Walked(step, slots, from, made, at) ==
    FoldLeft(LAMBDA sofar, slot : Onward(sofar, LAMBDA grown :
               Onward(Run(step.kids[1], Named(Named(at, step.is[3][1], grown), step.is[3][2], OutOfSlot(slot, step.ty[2][2]))),
                      LAMBDA next : IF IsGrown(next) = IsGrown(made) THEN Answered(next) ELSE Wrong("another list grown"))),
             Answered(made), IF Unsigned(from) < Len(slots) THEN SubSeq(slots, from + 1, Len(slots)) ELSE <<>>)

WalkBuilt(node, at) ==
    LET lets == AroundStep(node.kids[1])
        step == UnderLets(node.kids[1])
        ofList == node.is[2][2] = "BuildList"
        handedOver(made) == IF ofList THEN Listed(made[2]) ELSE made
        around == FoldLeft(LAMBDA sofar, let : Onward(sofar, LAMBDA within :
                             Onward(Value(let.kids[1], within), LAMBDA value : Answered(Named(within, let.is[2], value)))),
                           Answered(at), lets)
    IN IF NeverApplied(node) # {}
       THEN Onward(InOrderOf(Tail(node.kids), at), LAMBDA given : Answered(IF ofList THEN Listed(<<>>) ELSE Kept(EmptyTrie)))
       ELSE Onward(around, LAMBDA within : Onward(InOrderOf(Tail(node.kids), within), LAMBDA given :
              Onward(Walked(step, given[1][2], given[2][2], IF ofList THEN Grown(<<>>) ELSE Kept(EmptyTrie), within),
                     LAMBDA made : Answered(handedOver(made)))))

GrownBy(node, at) ==
    Onward(Run(node.kids[1], at), LAMBDA grown :
      Onward(IF Kind(node.kids[2]) = "list" THEN InOrderOf(node.kids[2].kids, at)
             ELSE Onward(Value(node.kids[2], at), LAMBDA list : Answered(list[2])),
             LAMBDA added :
               IF ~IsGrown(grown) THEN Wrong("grown where nothing grows")
               ELSE IF Len(grown[2]) + Len(added) > ListHolds
               THEN EndedFor(OneReasonStatus(node), "RequiredFormHasNoPlace")
               ELSE Answered(Grown(grown[2] \o SlotsOf(added)))))

\* A map put into at its own type, each argument worked out as it stands.
PutMap(node, at) ==
    Onward(InOrderOf(node.kids, at), LAMBDA given :
      IF ~AllStand(given, <<node.ty, node.ty[2], node.ty[3]>>) THEN Wrong("put in as another type")
      ELSE Ending(node, AsCollection(PutIn(node.ty[2], given[1][2], IntoSlot(given[2]), IntoSlot(given[3]), TRUE))))

(***************************************************************************)
(* Behaviors.  How a call reaches one: by its symbol handed what it is     *)
(* constructed with, or through a capability the caller holds for it.      *)
(***************************************************************************)
Symbol(held) == <<"symbol", held>>
Capability(capability) == <<"capability", capability>>
Capabilities(each) == <<"capabilities", each>>
CapabilityAt(held, at) ==
    IF held = Null THEN InjectionUnbound
    ELSE IF held[2][at] = Null THEN InjectionUnbound ELSE Answered(Capability(held[2][at]))
PositionIn(keys, key) == IF key \in ToSet(keys) THEN CHOOSE i \in DOMAIN keys : keys[i] = key ELSE 0

Through(key, at) ==
    LET position == PositionIn(at.requires, key)
    IN CASE at.row.constructs = key ->
               IF at.row.handed THEN CapabilityAt(at.row.requirements, 1) ELSE Answered(Symbol(at.row.requirements))
         [] position # 0 -> CapabilityAt(at.held, position)
         [] OTHER -> Answered(Symbol(Null))

\* Every rule whose guard the answer meets, in the order they are written.
HeldTo(target, values, answer, at) ==
    LET rules == Rules(target)
        stands(rule) == IF rule.guard[1] = Held THEN <<"payload", rule.value>> ELSE <<"selected", rule.value>>
        read(rule) == IF rule.guard = <<>> THEN answer ELSE Bound(answer, target.answers, stands(rule), rule.guard[2])
        names(rule) == (rule.value :> read(rule)) @@ ByPosition(values)
    IN FoldLeft(LAMBDA sofar, rule : Onward(sofar, LAMBDA same :
                  IF rule.guard # <<>> /\ ~Tested(answer, <<rule.guard[1]>>) THEN sofar
                  ELSE Onward(Value(rule.condition, PlaceOf(target.module, names(rule), at)), LAMBDA truth :
                         IF truth[2] = 1 THEN sofar ELSE EndedFor("EnsuresNotHeld", "EnsuresNotHeld"))),
                Answered(answer), rules)

\* How a composition applies a stage: what the stage requires is picked out of what it was handed.
StageThrough(requires, held, key) ==
    LET reached == TargetOf(key)
        picked == [i \in DOMAIN reached.requirements |-> held[2][PositionIn(requires, reached.requirements[i])]]
    IN IF reached.is = "injected" THEN CapabilityAt(held, PositionIn(requires, key))
       ELSE IF reached.requirements = <<>> THEN Answered(Symbol(Null))
       ELSE IF held = Null THEN InjectionUnbound
       ELSE Answered(Symbol(Capabilities(picked)))

\* The stages after the first are offered what runs; what a stage does not accept leaves there.
Composed(target, stages, held, values, at) ==
    LET requires == target.requirements
        apply(key, given) == Onward(StageThrough(requires, held, key), LAMBDA through : Run(Calling(key, through, given), at))
        running(i) == RunningAfter(stages, i - 1)
        leaves(i, value) == stages[i].accepted # <<>> /\ ~Tested(value, <<Which(stages[i].accepted[1])>>)
        offered(i, value) == <<Restated(value, running(i), TargetOf(stages[i].behavior).takes[1])>>
        \* What runs, and whether it has left.
        staged == FoldLeft(LAMBDA sofar, i : Onward(sofar, LAMBDA run :
                     IF run.left THEN sofar
                     ELSE IF leaves(i, run.value)
                     THEN Answered([left |-> TRUE, value |-> Restated(run.value, running(i), target.answers)])
                     ELSE Onward(apply(stages[i].behavior, offered(i, run.value)),
                                 LAMBDA value : Answered([left |-> FALSE, value |-> value]))),
                   Onward(apply(stages[1].behavior, values), LAMBDA value : Answered([left |-> FALSE, value |-> value])),
                   [i \in 1..(Len(stages) - 1) |-> i + 1])
    IN Onward(staged, LAMBDA run :
         Answered(IF run.left THEN run.value ELSE Restated(run.value, running(Len(stages) + 1), target.answers)))

\* A behavior's symbol: its body or its stages here, and another build's where it is elsewhere.
AtSymbol(target, held, values, at) ==
    LET definition == DefinitionOf(target.key)
        within == [PlaceOf(target.module, ByPosition(values), at) EXCEPT
                     !.requires = target.requirements, !.held = held]
        answer == IF definition.is = "composed" THEN Composed(target, definition.stages, held, values, at)
                  ELSE Value(definition.body, within)
    IN IF DefinedAs(target) # "here" THEN Run(at.host[<<target.key>>], at)
       ELSE Onward(answer, LAMBDA value :
              IF ~StandsAs(value, target.answers) THEN Wrong("answered as another type")
              ELSE IF target.ensures[1] = "callee" THEN HeldTo(target, values, value, at) ELSE Answered(value))

\* A row's stand-in: the first entry asked with what the call arrived with answers.
StoodIn(standIn, module, target, values, at) ==
    LET here == PlaceOf(module, Unbound, at)
        entries == standIn.entries
        asked(entry) ==
            FoldLeft(LAMBDA sofar, i : Onward(sofar, LAMBDA matches :
                       IF ~matches THEN sofar
                       ELSE Onward(Value(entry.arguments[i], here), LAMBDA stated :
                              Answered(Equal(target.takes[i], values[i], stated)))),
                     Answered(TRUE), [i \in DOMAIN entry.arguments |-> i])
        \* The place of the entry asked, 0 while none is.
        place == FoldLeft(LAMBDA sofar, i : Onward(sofar, LAMBDA taken :
                            IF taken # 0 THEN sofar
                            ELSE Onward(asked(entries[i]), LAMBDA matches : Answered(IF matches THEN i ELSE 0))),
                          Answered(0), [i \in DOMAIN entries |-> i])
    IN Onward(place, LAMBDA taken :
         IF taken # 0 THEN Value(entries[taken].answer, here)
         ELSE IF standIn.otherwise # <<>> THEN Value(standIn.otherwise[1], here)
         ELSE EndedFor("FakeNoOutput", "FakeNoOutput"))

\* The one way a behavior is applied: an answer arriving from outside is held as it crosses in.
CallBehavior(key, through, values, at) ==
    LET target == TargetOf(key)
        capability == IF through[1] = "capability" THEN through[2] ELSE <<"built", key, through[2]>>
        answer == CASE capability[1] = "host" -> Run(at.host[<<key>>], at)
                    [] capability[1] = "stood" -> StoodIn(capability[2], capability[3], target, values, at)
                    [] target.is = "injected" -> InjectionUnbound
                    [] OTHER -> AtSymbol(target, capability[3], values, at)
    IN IF ~AllStand(values, target.takes) THEN Wrong("called with another type")
       ELSE Onward(answer, LAMBDA value :
              IF target.ensures[1] = "crossing" THEN HeldTo(target, values, value, at) ELSE Answered(value))

(***************************************************************************)
(* Calls, and one node                                                     *)
(***************************************************************************)
RunCall(node, at) ==
    LET reaches == node.is[2]
        copy == CopyAt(at.instances, at.module, reaches[2], TypesAt(at.module, node))
        ofValue == ValueOf(at.module, <<reaches[2], reaches[3]>>)
        entries == EntriesFor(<<reaches[2], reaches[3]>>)
        entry == CHOOSE it \in entries : TRUE
    IN CASE reaches[1] = "kernel" ->
               IF reaches[2] = "string.matches" THEN Onward(Value(node.kids[2], at), LAMBDA text : Answered(Byte(TRUE)))
               ELSE Onward(InOrderOf(node.kids, at), LAMBDA given : RunKernel(node, given, at))
         [] reaches[1] = "emitted" ->
               (CASE reaches[2] \in {"BuildList", "BuildMap"} -> WalkBuilt(node, at)
                  [] reaches[2] = "GrowList" -> GrownBy(node, at)
                  [] reaches[2] = "PutMap" -> PutMap(node, at))
         [] reaches[1] = "behavior" ->
               Onward(Given(node, at), LAMBDA given :
                 Onward(Through(reaches[2], at), LAMBDA through : Run(Calling(reaches[2], through, given), at)))
         [] reaches[1] = "helper" ->
               Onward(Given(node, at), LAMBDA given :
                 IF copy = 0 THEN Wrong("no copy")
                 ELSE IF ~AllStand(given, HelperTakes(at.instances[copy])) THEN Wrong("handed another type")
                 ELSE Value(at.instances[copy].body, PlaceOf(at.module, ByPosition(given), at)))
         [] reaches[1] = "value" ->
               Onward(Given(node, at), LAMBDA given :
                 IF ~AllStand(given, HandoverTypes(ofValue)) THEN Wrong("handed another type")
                 ELSE Value(ofValue.body, PlaceOf(at.module, ByPosition(given), at)))
         [] reaches[1] = "publishedvalue" ->
               IF entries = {} THEN Run(at.host[<<reaches[2], reaches[3]>>], at)
               ELSE Value(entry.body, PlaceOf(reaches[2], Unbound, at))

\* A row is called with the behavior it is of: as the host gives it, or with what the row stands in with.
RowOf(example, module) ==
    LET given == TargetOf(example.behavior).is = "injected"
        stands == [i \in DOMAIN example.standsIn |-> <<"stood", example.standsIn[i], module>>]
    IN [constructs |-> example.behavior, handed |-> given,
        requirements |-> CASE given -> Capabilities(<< <<"host", example.behavior>> >>)
                           [] stands = <<>> -> Null
                           [] OTHER -> Capabilities(stands)]

\* Whether what a row answers is what it states, by the language's equality at what the behavior answers.
RowAnswers(example, at) == Value(example.body, [at EXCEPT !.row = RowOf(example, at.module)])
KeepsItsRow(example, at) ==
    LET answers == TargetOf(example.behavior).answers
        stated == example.expects[2]
        same(answer) == IF example.expects[1] = "case" THEN Answered(Byte(answer[2] = stated))
                        ELSE Onward(Value(stated, at), LAMBDA it :
                               Answered(Byte(Equal(answers, answer, Restated(it, stated.ty, answers)))))
    IN Onward(RowAnswers(example, at), same)

Worked(node, at) ==
    LET first == node.kids[1]
        given(of(_)) == Onward(InOrderOf(node.kids, at), of)
    IN CASE Kind(node) = "int" -> Answered(Word(node.is[2]))
         [] Kind(node) = "bool" -> Answered(Byte(node.is[2]))
         [] Kind(node) = "string" -> Answered(TextOf(node.is[2]))
         [] Kind(node) = "decimal" -> Answered(<<"Decimal", node.is[2], node.is[3]>>)
         [] Kind(node) = "temporal" ->
               Answered(IF node.ty[2] = "Instant" THEN <<"Instant", node.is[2], node.is[3]>> ELSE <<node.ty[2], node.is[2]>>)
         [] Kind(node) = "read" -> IF node.is[2] \in DOMAIN at.names THEN Answered(at.names[node.is[2]]) ELSE Wrong("no such name")
         [] Kind(node) = "unreachable" -> EndedFor("UnreachableReached", "UnreachableReached")
         [] Kind(node) = "neg" ->
               IF Kind(first) = "int" THEN Answered(Word(-first.is[2]))
               ELSE Onward(Value(first, at), LAMBDA value : Ending(node, Negated(first.ty[2], value)))
         [] Kind(node) = "binary" /\ node.is[2] \in Connectives ->
               Onward(Value(first, at), LAMBDA truth :
                 IF (truth[2] = 1) = (node.is[2] = "Or") THEN Answered(truth) ELSE Value(node.kids[2], at))
         [] Kind(node) = "binary" -> given(LAMBDA both : Operated(node, both[1], both[2]))
         [] Kind(node) = "let" ->
               Onward(Run(first, at), LAMBDA value : Run(node.kids[2], Named(at, node.is[2], value)))
         [] Kind(node) = "if" ->
               Onward(Value(first, at), LAMBDA truth : Run(node.kids[IF truth[2] = 1 THEN 2 ELSE 3], at))
         [] Kind(node) = "unit" ->
               IF node.is[2][1] = "declared" THEN Constructed(node.is[2][2], <<>>, at) ELSE Answered(Carry(node.is[2], <<>>))
         [] Kind(node) = "construct" -> given(LAMBDA values : Constructed(node.is[2], values, at))
         [] Kind(node) = "attempt" -> Onward(InOrderOf(Values(node), at), LAMBDA values : Attempted(node, values, at))
         [] Kind(node) = "field" -> Onward(Value(first, at), LAMBDA value : Answered(FieldRead(value, first.ty, node.is[2], node.ty)))
         [] Kind(node) = "match" -> Onward(Value(first, at), LAMBDA value : Matched(node, value, at))
         [] Kind(node) = "some" -> Onward(Value(first, at), LAMBDA value : Answered(Present(IntoSlot(value))))
         [] Kind(node) = "none" -> Answered(Null)
         [] Kind(node) = "tuple" -> given(LAMBDA values : Answered(MembersAt(SlotsOf(values))))
         [] Kind(node) = "member" ->
               Onward(Value(first, at), LAMBDA value : Answered(OutOfSlot(value[2][node.is[2] + 1], node.ty)))
         [] Kind(node) = "list" -> given(LAMBDA values : Answered(Listed(SlotsOf(values))))
         [] Kind(node) = "call" -> RunCall(node, at)
         [] Kind(node) = "block" -> Answered(Made(node, at))
         [] Kind(node) = "apply" ->
               Onward(Value(first, at), LAMBDA fn :
                 Onward(InOrderOf(Tail(node.kids), at), LAMBDA values : Run(Applying(fn, first.ty, values), at)))
         [] Kind(node) = "applying" -> Applied(node.is[2], node.tys[1], node.is[3], at)
         [] Kind(node) = "calling" -> CallBehavior(node.is[2], node.is[3], node.is[4], at)
         [] Kind(node) = "hosting" ->
               given(LAMBDA values : Run(Calling(node.is[2], Symbol(node.is[3]), values), at))
         [] Kind(node) = "row" -> RowAnswers(node.is[3], PlaceOf(node.is[2], Unbound, at))
         [] Kind(node) = "keeping" -> KeepsItsRow(node.is[3], PlaceOf(node.is[2], Unbound, at))
         [] Kind(node) = "having" -> Answered(node.is[2])
         [] Kind(node) = "failing" -> EndedFor("HostException", "HostException")
         [] Kind(node) = "widen" ->
               Onward(Run(first, at), LAMBDA value :
                 IF IsGrown(value) THEN Answered(value) ELSE Answered(Restated(value, first.ty, node.ty)))

Run(node, at) ==
    Onward(Worked(node, at), LAMBDA value : IF IsGrown(value) THEN Answered(value) ELSE Settles(value, node.ty, Answered(value)))
=============================================================================
