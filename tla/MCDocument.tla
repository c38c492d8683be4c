----------------------------- MODULE MCDocument -----------------------------
(***************************************************************************)
(* Documents as the command writes them, small enough to alter at every    *)
(* annotation and to call with every sampled input.                        *)
(***************************************************************************)
EXTENDS Document

CONSTANT Taken     \* which of the documents a run takes

(***************************************************************************)
(* Writing a document                                                      *)
(***************************************************************************)
NoPlace == <<"RequiredFormHasNoPlace">>
Leaf(is, ty) == Node(is, ty, <<>>, <<>>, <<>>)
I(n) == Leaf(<<"int", n>>, Int64)
T(truth) == Leaf(<<"bool", truth>>, Truth)
S(points) == Leaf(<<"string", points>>, Prim("String"))
R(name, ty) == Leaf(<<"read", name>>, ty)
N(name) == R(name, Int64)
Unit(case) == Leaf(<<"unit", case>>, Ref(case))
NoneOf(ty) == Leaf(<<"none">>, Option(ty))
Bin(op, ty, aborts, a, b) == Node(<<"binary", op, <<"asis">>, FALSE>>, ty, aborts, <<>>, <<a, b>>)
Add(a, b) == Bin("Add", a.ty, NoPlace, a, b)
Sub(a, b) == Bin("Sub", a.ty, NoPlace, a, b)
Eq(a, b) == Bin("Eq", Truth, <<>>, a, b)
And(a, b) == Bin("And", Truth, <<>>, a, b)
ByOrder(op, basis, a, b) == Node(<<"binary", op, <<"asis">>, TRUE>>, Truth, <<>>, <<basis>>, <<a, b>>)
Le(a, b) == ByOrder("Le", Int64, a, b)
ReadExact(op, ty, aborts, a, b) == Node(<<"binary", op, <<"exact">>, FALSE>>, ty, aborts, <<>>, <<a, b>>)
EqIn(ty, a, b) == Node(<<"binary", "Eq", <<"in">>, FALSE>>, Truth, <<>>, <<ty>>, <<a, b>>)
Neg(of) == Node(<<"neg">>, of.ty, IF of.ty = Int64 THEN NoPlace ELSE <<>>, <<>>, <<of>>)
Let(name, value, body) == Node(<<"let", name>>, body.ty, <<>>, <<value.ty>>, <<value, body>>)
If(condition, one, other) == Node(<<"if">>, one.ty, <<>>, <<>>, <<condition, one, other>>)
Made1(key, aborts, kids) == Node(<<"construct", key>>, Ref(Declared(key)), aborts, <<>>, kids)
Attempt(key, name, values, then, arms, departures) ==
    Node(<<"attempt", key, name, arms>>, then.ty, <<>>, <<Ref(Declared(key))>>, values \o <<then>> \o departures)
Field(name, ty, of) == Node(<<"field", name>>, ty, <<>>, <<>>, <<of>>)
Arm(selects, binding) == [selects |-> selects, binding |-> binding]
Match(ty, subject, arms, readAs, bodies) == Node(<<"match", arms>>, ty, <<>>, readAs, <<subject>> \o bodies)
Some(of) == Node(<<"some">>, Option(of.ty), <<>>, <<>>, <<of>>)
Tup(kids) == Node(<<"tuple">>, Tuple([i \in DOMAIN kids |-> kids[i].ty]), <<>>, <<>>, kids)
MemberOf(at, of) == Node(<<"member", at>>, of.ty[2][at + 1], <<>>, <<>>, <<of>>)
ListN(ty, kids) == Node(<<"list">>, List(ty), <<>>, <<>>, kids)
Call(reaches, ty, aborts, tys, kids) == Node(<<"call", reaches>>, ty, aborts, tys, kids)
Emitted(op, ty, aborts, kids) == Call(<<"emitted", op>>, ty, aborts, <<>>, kids)
Kernel(name, ty, kids) ==
    Call(<<"kernel", name, <<>>>>, ty, KernelContracts[name].aborts, [i \in DOMAIN kids |-> kids[i].ty], kids)
OrderedKernel(name, ty, subject, basis, kids) ==
    Call(<<"kernel", name, <<"ordering", TRUE>>>>, ty, KernelContracts[name].aborts,
         [i \in DOMAIN kids |-> kids[i].ty] \o <<subject, basis>>, kids)
Helper(reached, ty, kids) == Call(<<"helper", reached>>, ty, <<>>, <<>>, kids)
Behave(key, ty, kids) == Call(<<"behavior", key>>, ty, <<>>, <<>>, kids)
Block(site, params, takes, body) == Node(<<"block", site, params>>, Fn(takes, body.ty), <<>>, <<>>, <<body>>)
Apply(fn, kids) == Node(<<"apply">>, fn.ty[3], <<>>, <<>>, <<fn>> \o kids)
Widen(ty, of) == Node(<<"widen">>, ty, <<>>, <<>>, <<of>>)
Unreached(ty) == Node(<<"unreachable">>, ty, <<"UnreachableReached">>, <<>>, <<>>)

FieldOf(name, ty, binding) == [name |-> name, ty |-> ty, binding |-> binding]
Clause(name, condition) == [name |-> name, condition |-> condition, constraints |-> <<>>, complete |-> FALSE]
Data(key, module, is, fields, clauses) ==
    [key |-> key, module |-> module, by |-> "amodule", is |-> is, fields |-> fields, clauses |-> clauses,
     headers |-> <<>>, cases |-> <<>>, form |-> <<"none">>]
UnitData(key, module) == Data(key, module, "unit", <<>>, <<>>)
SumOf(key, module, cases, form) == [Data(key, module, "sum", <<>>, <<>>) EXCEPT !.cases = cases, !.form = form]
OnThePath(key, module, fields, headers) ==
    [Data(key, module, "product", fields, <<>>) EXCEPT !.by = "onthepath", !.headers = <<headers>>]

Target(key, module, is, takes, answers) ==
    [key |-> key, module |-> module, is |-> is, takes |-> takes, names |-> IF is = "composed" THEN <<>> ELSE <<[i \in DOMAIN takes |-> i - 1]>>,
     answers |-> answers, output |-> <<"none">>, ensures |-> <<"none">>, requirements |-> <<>>]
Bodied(key, takes, body) ==
    [is |-> "body", declared |-> key, parameters |-> [i \in DOMAIN takes |-> i - 1], body |-> body]
ModuleRecord(name, publishes, helpers, definitions) ==
    [name |-> name, publishes |-> publishes, helpers |-> helpers, values |-> <<>>, entries |-> <<>>,
     definitions |-> definitions, examples |-> <<>>, unreproducible |-> <<>>]
\* A module whose behaviors are bodies and nothing else: each a key, what it takes and its body.
Plain(module, declarations, publishes, helpers, bodies) ==
    [declarations |-> declarations,
     behaviors |-> [i \in DOMAIN bodies |-> Target(bodies[i][1], module, "body", bodies[i][2], bodies[i][3].ty)],
     modules |-> <<ModuleRecord(module, publishes, helpers,
                                [i \in DOMAIN bodies |-> Bodied(bodies[i][1], bodies[i][2], bodies[i][3])])>>]

(***************************************************************************)
(* Amounts: a newtype with an invariant, made, attempted, compared and     *)
(* opened; arithmetic that may leave its type.                             *)
(***************************************************************************)
AmountTy == Ref(Declared("m.Amount"))
BadTy == Ref(Declared("m.Bad"))
AmountOrBad == Union(<<Declared("m.Amount"), Declared("m.Bad")>>)
Amounts ==
    Plain("m",
      << Data("m.Amount", "m", "newtype", <<FieldOf("n", Int64, 7)>>,
              << <<Clause(<<"least">>, Le(I(0), N(7))), Clause(<<"most">>, Le(N(7), I(5)))>> >>),
         UnitData("m.Bad", "m"), UnitData("m.Worse", "m") >>,
      <<"m.Amount">>, <<>>,
      << <<"m.sum", <<Int64, Int64>>,
           Let(2, Add(N(0), N(1)), If(Le(N(2), I(1)), Sub(N(2), Neg(N(1))), Kernel("int.floorMod", Int64, <<N(2), N(1)>>)))>>,
         <<"m.make", <<Int64>>, Made1("m.Amount", <<"InvariantNotHeld">>, <<N(0)>>)>>,
         <<"m.attempted", <<Int64>>,
           Attempt("m.Amount", 1, <<N(0)>>, Widen(AmountOrBad, R(1, AmountTy)),
                   << <<"most">>, <<"least">> >>, <<Widen(AmountOrBad, Unit(Declared("m.Bad"))),
                                             Widen(AmountOrBad, Unit(Declared("m.Bad")))>>)>>,
         <<"m.compared", <<AmountTy, Int64>>,
           And(Node(<<"binary", "Le", <<"opened">>, TRUE>>, Truth, <<>>, <<AmountTy, Int64, Int64>>, <<R(0, AmountTy), N(1)>>),
               ByOrder("Lt", Int64, R(0, AmountTy), R(0, AmountTy)))>>,
         <<"m.quotient", <<Int64, Int64>>, Bin("Div", Prim("Rational"), <<"DivisionByZero">>, N(0), N(1))>>,
         <<"m.exact", <<Int64, Prim("Rational")>>,
           ReadExact("Sub", Prim("Rational"), NoPlace, N(0), R(1, Prim("Rational")))>> >>)

(***************************************************************************)
(* Cases: sums, unions that hold a primitive, a field the cases share,     *)
(* optionals, tuples, and an enumeration's order.                          *)
(***************************************************************************)
IntOrRed == Union(<<Primitive("Int"), Declared("c.Red")>>)
ShapeTy == Ref(Declared("c.Shape"))
CircleTy == Ref(Declared("c.Circle"))
SquareTy == Ref(Declared("c.Square"))
ColourTy == Ref(Declared("c.Colour"))
RedTy == Ref(Declared("c.Red"))
MeasureTy == Ref(Declared("c.Measure"))
IsCase(case) == <<Which(<<case>>)>>
IntOf(subject, name, otherwise) ==
    Match(Int64, subject, <<Arm(IsCase(Primitive("Int")), <<"selected", name>>), Arm(IsCase(Declared("c.Red")), <<>>)>>,
          <<Int64>>, <<N(name), otherwise>>)
CasesDeclared ==
    << Data("c.Circle", "c", "product", <<FieldOf("size", Int64, 0), FieldOf("round", Truth, 1)>>, << <<>> >>),
       Data("c.Square", "c", "product", <<FieldOf("round", Truth, 0), FieldOf("size", MeasureTy, 1)>>, << <<>> >>),
       SumOf("c.Shape", "c", <<Declared("c.Circle"), Declared("c.Square")>>, <<"discriminated", "kind">>),
       UnitData("c.Red", "c"), UnitData("c.Green", "c"),
       SumOf("c.Measure", "c", <<Primitive("Int"), Declared("c.Red")>>, <<"discriminated", "kind">>),
       SumOf("c.Colour", "c", <<Declared("c.Green"), Declared("c.Red")>>, <<"enumeration">>) >>
Cases ==
    Plain("c", CasesDeclared, <<"c.Circle">>, <<>>,
      << <<"c.size", <<ShapeTy>>, Field("size", IntOrRed, R(0, ShapeTy))>>,
         <<"c.which", <<ShapeTy>>,
           Match(Int64, R(0, ShapeTy),
                 <<Arm(IsCase(Declared("c.Circle")), <<"selected", 1>>), Arm(IsCase(Declared("c.Square")), <<"selected", 2>>)>>,
                 <<CircleTy, SquareTy>>,
                 <<Field("size", Int64, R(1, CircleTy)), IntOf(Field("size", MeasureTy, R(2, SquareTy)), 3, I(0))>>)>>,
         <<"c.optional", <<Option(Int64), Truth>>,
           Match(Option(IntOrRed), R(0, Option(Int64)),
                 <<Arm(<<Held>>, <<"payload", 2>>), Arm(<<Absent>>, <<>>)>>, <<Int64>>,
                 <<If(R(1, Truth), Widen(Option(IntOrRed), Some(N(2))), Some(Widen(IntOrRed, N(2)))),
                   NoneOf(IntOrRed)>>)>>,
         <<"c.same", <<ShapeTy, CircleTy>>, EqIn(ShapeTy, R(0, ShapeTy), R(1, CircleTy))>>,
         <<"c.order", <<ColourTy, RedTy>>,
           And(ByOrder("Lt", ColourTy, R(0, ColourTy), R(0, ColourTy)),
               Node(<<"binary", "Ge", <<"in">>, TRUE>>, Truth, <<>>, <<ColourTy, ColourTy>>, <<R(0, ColourTy), R(1, RedTy)>>))>>,
         <<"c.pair", <<Int64, Truth>>,
           Let(2, Widen(Tuple(<<IntOrRed, Truth>>), Tup(<<N(0), R(1, Truth)>>)),
               If(MemberOf(1, R(2, Tuple(<<IntOrRed, Truth>>))),
                  IntOf(MemberOf(0, R(2, Tuple(<<IntOrRed, Truth>>))), 3, I(1)),
                  Widen(Int64, Unreached(Never))))>> >>)

(***************************************************************************)
(* Lists: walks that grow a list and put into a map, closures, the kernels *)
(* over lists, sets, maps, texts, numbers and dates.                       *)
(***************************************************************************)
Ints == List(Int64)
IntMap == Map(Int64, Int64)
GrowBy(list, added) == Emitted("GrowList", list.ty, NoPlace, <<list, added>>)
Walking(site, over) ==
    Emitted("BuildList", Ints, <<>>,
      <<Block(site, <<10, 11>>, <<Ints, Int64>>,
              If(Le(N(11), I(0)), R(10, Ints), GrowBy(R(10, Ints), ListN(Int64, <<Add(N(11), N(11))>>)))),
        over, I(0)>>)
Lists ==
    Plain("l", <<UnitData("c.Red", "l")>>, <<>>, <<>>,
      << <<"l.walked", <<Ints>>, Bin("Concat", Ints, NoPlace, Walking(1, R(0, Ints)), R(0, Ints))>>,
         <<"l.closed", <<Int64, Ints>>,
           Let(2, Block(2, <<3>>, <<Int64>>, Add(N(3), N(0))),
               Match(Int64,
                     Kernel("list.find", Option(Int64), <<Block(3, <<4>>, <<Int64>>, Le(N(4), N(0))), R(1, Ints)>>),
                     <<Arm(<<Held>>, <<"payload", 5>>), Arm(<<Absent>>, <<>>)>>, <<Int64>>,
                     <<Apply(R(2, Fn(<<Int64>>, Int64)), <<N(5)>>), N(0)>>))>>,
         <<"l.keyed", <<Ints, Int64>>,
           Kernel("map.get", Option(Int64),
             <<N(1),
               Emitted("BuildMap", IntMap, <<>>,
                 <<Block(4, <<2, 3>>, <<IntMap, Int64>>,
                         Emitted("PutMap", IntMap, NoPlace, <<R(2, IntMap), N(3), Add(N(3), N(1))>>)),
                   R(0, Ints), I(0)>>)>>)>>,
         <<"l.held", <<SetOf(Int64), Int64>>,
           Kernel("set.contains", Truth, <<Widen(IntOrRed, N(1)), Widen(SetOf(IntOrRed), R(0, SetOf(Int64)))>>)>>,
         <<"l.wrapped", <<Int64>>,
           Apply(Widen(Fn(<<Int64>>, IntOrRed), Block(5, <<1>>, <<Int64>>, Sub(N(1), N(0)))), <<I(2)>>)>>,
         <<"l.sorted", <<Ints>>,
           Tup(<<OrderedKernel("list.sort", Ints, Int64, Int64, <<R(0, Ints)>>),
                 OrderedKernel("list.max", Option(Int64), Int64, Int64, <<R(0, Ints)>>),
                 OrderedKernel("list.sortBy", Ints, Int64, Int64,
                               <<Block(6, <<1>>, <<Int64>>, Neg(N(1))), R(0, Ints)>>)>>)>>,
         <<"l.total", <<Ints, Int64>>,
           Tup(<<Kernel("list.sum", Int64, <<R(0, Ints)>>),
                 Kernel("list.get", Option(Int64), <<N(1), R(0, Ints)>>),
                 Kernel("int.truncatingDivide", IntOrDivisionByZero, <<Kernel("list.length", Int64, <<R(0, Ints)>>), N(1)>>)>>)>>,
         <<"l.text", <<Prim("String"), Int64>>,
           Kernel("string.slice", Prim("String"),
                  <<I(0), N(1), Bin("Concat", Prim("String"), NoPlace, R(0, Prim("String")), S(<<9>>))>>)>>,
         <<"l.date", <<Prim("Date"), Int64>>, Kernel("date.addMonths", Prim("Date"), <<N(1), R(0, Prim("Date"))>>)>>,
         <<"l.empty", <<>>,
           Emitted("BuildList", List(Nothing), <<>>,
             <<Block(7, <<0, 1>>, <<List(Nothing), Nothing>>, R(0, List(Nothing))), ListN(Nothing, <<>>), I(0)>>)>> >>)

(***************************************************************************)
(* Given: what a host gives, a composition over it, rows and their         *)
(* stand-ins, published values, and a declaration of another build.        *)
(***************************************************************************)
FarTy == Ref(Declared("x.Far"))
Least(at) == [guard |-> <<>>, value |-> at, condition |-> Le(I(0), N(at))]
StoodFor(entries, otherwise) == [of |-> "d.rate", entries |-> entries, otherwise |-> otherwise]
Row(behavior, at, body, standsIn, expects) ==
    [behavior |-> behavior, at |-> at, body |-> body, standsIn |-> standsIn, expects |-> expects]
Charged == Behave("d.rate", Int64, <<N(0)>>)
GivenBodies ==
    << <<"d.charge", <<Int64>>, If(Le(Charged, I(0)), Widen(IntOrRed, Unit(Declared("c.Red"))), Widen(IntOrRed, Add(Charged, N(0))))>>,
       <<"d.check", <<Int64>>, If(Le(N(0), I(0)), Widen(IntOrRed, Unit(Declared("c.Red"))), Widen(IntOrRed, N(0)))>>,
       <<"d.twice", <<Int64>>, Add(N(0), Call(<<"publishedvalue", "d", "more">>, Int64, <<>>, <<>>, <<>>))>>,
       <<"d.made", <<Int64>>,
         Attempt("x.Far", 1, <<N(0)>>, If(Behave("o.far", Truth, <<R(1, FarTy)>>), Field("n", Int64, R(1, FarTy)), I(1)),
                 << <<>> >>, <<I(0)>>)>> >>
GivenTargets ==
    << [Target("d.rate", "d", "injected", <<Int64>>, Int64) EXCEPT !.ensures = <<"crossing", <<0>>, <<Least(1)>>>>],
       [Target("d.charge", "d", "body", <<Int64>>, IntOrRed) EXCEPT
          !.requirements = <<"d.rate">>,
          !.ensures = <<"callee", <<0>>, << [guard |-> <<Which(<<Primitive("Int")>>), Int64>>, value |-> 1,
                                             condition |-> Le(N(0), N(1))] >> >>],
       Target("d.check", "d", "body", <<Int64>>, IntOrRed),
       Target("d.twice", "d", "body", <<Int64>>, Int64),
       Target("d.made", "d", "body", <<Int64>>, Int64),
       [Target("d.total", "d", "composed", <<Int64>>, IntOrRed) EXCEPT !.requirements = <<"d.rate">>],
       [Target("o.far", "o", "elsewhere", <<FarTy>>, Truth) EXCEPT !.ensures = <<"undecided">>] >>
GivenStages ==
    << [behavior |-> "d.check", accepted |-> <<>>],
       [behavior |-> "d.twice", accepted |-> << <<Primitive("Int")>> >>],
       [behavior |-> "d.charge", accepted |-> <<>>] >>
Given1 ==
    [declarations |-> <<UnitData("c.Red", "d"), OnThePath("x.Far", "x", <<FieldOf("n", Int64, 0)>>, << <<"near">> >>)>>,
     behaviors |-> GivenTargets,
     modules |->
       << [ModuleRecord("d", <<>>, <<>>,
             [i \in DOMAIN GivenBodies |-> Bodied(GivenBodies[i][1], GivenBodies[i][2], GivenBodies[i][3])]
             \o << [is |-> "composed", declared |-> "d.total", stages |-> GivenStages] >>) EXCEPT
          !.values = << [declared |-> <<"d", "base">>, handovers |-> <<>>, body |-> I(2)],
                        [declared |-> <<"d", "more">>, handovers |-> << [ty |-> Int64, carries |-> <<"d", "base">>] >>,
                         body |-> Add(N(0), I(1))] >>,
          !.entries = << [value |-> <<"d", "more">>,
                          body |-> Call(<<"value", "d", "more">>, Int64, <<>>, <<>>,
                                        <<Call(<<"value", "d", "base">>, Int64, <<>>, <<>>, <<>>)>>)] >>,
          !.examples = << Row("d.charge", 1, Behave("d.charge", IntOrRed, <<I(2)>>),
                              <<StoodFor(<< [arguments |-> <<I(2)>>, answer |-> I(3)] >>, <<>>)>>, <<"owed">>),
                          Row("d.total", 1, Behave("d.total", IntOrRed, <<I(1)>>),
                              <<StoodFor(<< [arguments |-> <<I(2)>>, answer |-> I(3)] >>, <<I(0)>>)>>, <<"case", Declared("c.Red")>>),
                          Row("d.charge", 2, Behave("d.charge", IntOrRed, <<I(1)>>),
                              <<StoodFor(<< [arguments |-> <<I(2)>>, answer |-> I(3)] >>, <<>>)>>, <<"owed">>),
                          Row("d.rate", 1, Behave("d.rate", Int64, <<I(1)>>), <<>>, <<"value", I(3)>>) >>] >>]

(***************************************************************************)
(* Generic: helpers left open, called at several types, through another    *)
(* module's copy, in tail position and over a list of nothing.             *)
(***************************************************************************)
A0 == Var(0)
B1 == Var(1)
Own(name) == <<"own", "g", name>>
Held1(reached, tys, body) ==
    [reached |-> reached, parameters |-> [i \in DOMAIN tys |-> [name |-> i, ty |-> tys[i]]], body |-> body]
Counted(n, acc, x) == Helper(Own("count"), acc.ty, <<n, acc, x>>)
Mapped(fn, xs) == Helper(Own("mapped"), List(fn.ty[3]), <<fn, xs>>)
GenericHelpers ==
    << Held1(Own("same"), <<A0>>, R(0, A0)),
       Held1(<<"library", "list", "first">>, <<List(A0)>>, Kernel("list.get", Option(A0), <<I(0), R(0, List(A0))>>)),
       Held1(Own("count"), <<Int64, List(A0), A0>>,
         If(Le(N(0), I(0)), R(1, List(A0)),
            Counted(Sub(N(0), I(1)), Bin("Concat", List(A0), NoPlace, R(1, List(A0)), ListN(A0, <<R(2, A0)>>)), R(2, A0)))),
       Held1(Own("mapped"), <<Fn(<<A0>>, B1), List(A0)>>,
         Emitted("BuildList", List(B1), <<>>,
           <<Let(2, I(1),
               Block(20, <<3, 4>>, <<List(B1), A0>>,
                     GrowBy(R(3, List(B1)), ListN(B1, <<Apply(R(0, Fn(<<A0>>, B1)), <<R(4, A0)>>)>>)))),
             R(1, List(A0)), I(0)>>)) >>
GenericBodies ==
    << <<"g.same", <<Int64>>,
         Tup(<<Helper(Own("same"), Int64, <<N(0)>>), Helper(Own("same"), Ints, <<ListN(Int64, <<N(0)>>)>>)>>)>>,
       <<"g.count", <<Int64, Truth>>, Counted(N(0), ListN(Truth, <<>>), R(1, Truth))>>,
       <<"g.mapped", <<Ints>>,
         Helper(<<"library", "list", "first">>, Option(IntOrRed),
                <<Mapped(Block(21, <<1>>, <<Int64>>, Widen(IntOrRed, Add(N(1), I(1)))), R(0, Ints))>>)>>,
       <<"g.none", <<Int64>>, Mapped(Block(22, <<1>>, <<Nothing>>, N(0)), ListN(Nothing, <<>>))>> >>
Generic ==
    LET g == Plain("g", <<UnitData("c.Red", "g")>>, <<>>, GenericHelpers, GenericBodies)
        h == Plain("h", <<>>, <<>>, << Held1(<<"ofmodule", "g", "same">>, <<A0>>, R(0, A0)) >>,
                   << <<"h.same", <<Truth>>, Helper(<<"ofmodule", "g", "same">>, Truth, <<R(0, Truth)>>)>> >>)
    IN [declarations |-> g.declarations, behaviors |-> g.behaviors \o h.behaviors, modules |-> g.modules \o h.modules]

\* A helper that calls itself at a list of what it was called at: no number of copies closes it.
Deeper ==
    LET deeper(n, x) == Helper(Own("deep"), Int64, <<n, x>>)
    IN Plain("g", <<>>, <<>>,
         << Held1(Own("deep"), <<Int64, A0>>, If(Le(N(0), I(0)), N(0), deeper(Sub(N(0), I(1)), ListN(A0, <<R(1, A0)>>)))) >>,
         << <<"g.deep", <<Int64>>, deeper(N(0), N(0))>> >>)

\* A helper that hands itself a closure in tail position, called over a list of nothing.
Tails ==
    LET again(n, fn, xs) == Helper(Own("again"), Int64, <<n, fn, xs>>)
    IN Plain("g", <<>>, <<>>,
         << Held1(Own("again"), <<Int64, Fn(<<A0>>, Int64), List(A0)>>,
              If(Le(N(0), I(0)), N(0), again(Sub(N(0), I(1)), Block(30, <<3>>, <<A0>>, I(1)), R(2, List(A0))))) >>,
         << <<"g.tail", <<Int64>>, again(N(0), Block(31, <<1>>, <<Nothing>>, I(2)), ListN(Nothing, <<>>))>> >>)

(***************************************************************************)
(* The instance                                                            *)
(***************************************************************************)
AllPrograms == [amounts |-> Amounts, cases |-> Cases, lists |-> Lists, given |-> Given1,
                generic |-> Generic, deeper |-> Deeper, tails |-> Tails]
MCPrograms == {AllPrograms[name] : name \in Taken}
MCAlteredTo == {Int64, Truth, IntOrRed, Ints, Option(IntOrRed)}
MCAbortsAlteredTo == {<<>>, NoPlace, <<"InvariantNotHeld">>}
MCSamples ==
    [Int |-> {Word(-1), Word(0), Word(3)}, Bool |-> {Byte(TRUE), Byte(FALSE)},
     String |-> {<<"text", <<>>>>, <<"text", <<1, 2>>>>}, Decimal |-> {<<"Decimal", 15, 1>>, <<"Decimal", 0, 0>>},
     Rational |-> {<<"Rational", 1, 2>>, <<"Rational", 0, 1>>}, Date |-> {<<"Date", 10956>>},
     Time |-> {<<"Time", 0>>}, DateTime |-> {<<"DateTime", 0>>}, Instant |-> {<<"Instant", 0, 0>>}]
DeclaredCases == {"m.Amount", "m.Bad", "m.Worse", "c.Circle", "c.Square", "c.Red", "c.Green", "x.Far"}
MCTokenAt ==
    [case \in {Declared(key) : key \in DeclaredCases}
              \union {Primitive(prim) : prim \in DOMAIN MCSamples}
              \union {Language(case) : case \in {"DivisionByZero", "NotWhole", "NotANumber", "NotADate", "NotATime", "NotAFiniteDecimal"}}
       |-> Len(case)]
MCTemporalRange == [Date |-> 10592..11687, Time |-> 0..86399, DateTime |-> {0, 946684800}, Instant |-> {0}]
MCIntMin == -4096
MCNanoseconds == {0}
=============================================================================
