----------------------------- MODULE Transport -----------------------------
(***************************************************************************)
(* The document the command hands the driver: its types, its nodes and the *)
(* bodies it holds (compiler/src/transport.rs).  A type, a case and what a *)
(* node is are tuples that begin with their kind.  A node is a record: what *)
(* it is, its type, the reasons it names for ending without a value, every *)
(* other type it writes, and the nodes under it, in the order they are     *)
(* written.                                                                *)
(***************************************************************************)
EXTENDS Integers, Sequences, FiniteSets, SequencesExt

CONSTANT NoDocument          \* what doc is before there is one
VARIABLE doc                 \* the program as the document writes it

(***************************************************************************)
(* Cases and types                                                         *)
(***************************************************************************)
Declared(key) == <<"declared", key>>
Primitive(prim) == <<"primitive", prim>>
Language(case) == <<"language", case>>

Prim(prim) == <<"prim", prim>>
Ref(case) == <<"ref", case>>
Union(cases) == <<"union", cases>>
Option(ty) == <<"option", ty>>
Tuple(tys) == <<"tuple", tys>>
Fn(takes, answers) == <<"fn", takes, answers>>
List(ty) == <<"list", ty>>
SetOf(ty) == <<"set", ty>>
Map(key, value) == <<"map", key, value>>
Var(number) == <<"var", number>>
Nothing == <<"nothing">>
Never == <<"never">>
Int64 == Prim("Int")
Truth == Prim("Bool")

IsPrim(ty) == ty[1] = "prim"
IsDeclared(ty) == ty[1] = "ref" /\ ty[2][1] = "declared"

\* A function with a parameter of the type of what has no value is never applied.
NeverRuns(fn) == Nothing \in ToSet(fn[2])

\* No value of the type is ever made.
HasNoValue(ty) == ty \in {Nothing, Never}
DoesNotAnswer(ty) == ty = Never

\* The one value of the type is what holds nothing.
HoldsNoValue(ty) ==
    \/ ty[1] \in {"option", "list", "set"} /\ HasNoValue(ty[2])
    \/ ty[1] = "map" /\ (HasNoValue(ty[2]) \/ HasNoValue(ty[3]))

Members(ty) ==
    CASE ty[1] \in {"option", "list", "set"} -> <<ty[2]>>
      [] ty[1] = "tuple" -> ty[2]
      [] ty[1] = "fn" -> Append(ty[2], ty[3])
      [] ty[1] = "map" -> <<ty[2], ty[3]>>
      [] OTHER -> <<>>

RECURSIVE WritesNothing(_)
WritesNothing(ty) == ty = Nothing \/ \E member \in ToSet(Members(ty)) : WritesNothing(member)

RECURSIVE Numbers(_)
Numbers(ty) == (IF ty[1] = "var" THEN {ty[2]} ELSE {})
               \union UNION {Numbers(member) : member \in ToSet(Members(ty))}

IsOpen(ty) == Numbers(ty) # {}

(***************************************************************************)
(* Nodes                                                                   *)
(***************************************************************************)
Node(is, ty, aborts, tys, kids) ==
    [is |-> is, ty |-> ty, aborts |-> aborts, tys |-> tys, kids |-> kids]

Kind(node) == node.is[1]
Types(node) == <<node.ty>> \o node.tys
Retyped(node, ty, tys) == [node EXCEPT !.ty = ty, !.tys = tys]
Children(node) == node.kids
Aborts(node) == ToSet(node.aborts)

Arithmetic == {"Add", "Sub", "Mul", "Div"}
Orders == {"Lt", "Le", "Gt", "Ge"}
Equalities == {"Eq", "Ne"}
Connectives == {"And", "Or"}
AbortKinds == {"InvariantNotHeld", "EnsuresNotHeld", "UnreachableReached",
               "DivisionByZero", "RequiredFormHasNoPlace", "InvalidBounds"}

\* A node of this kind may name a reason for ending without a value.
CanEndWithoutAValue(node) ==
    \/ Kind(node) = "binary" /\ node.is[2] \in Arithmetic \union {"Concat"}
    \/ Kind(node) \in {"neg", "construct", "unreachable"}
    \/ Kind(node) = "call" /\ \/ node.is[2][1] = "kernel"
                              \/ /\ node.is[2][1] = "emitted"
                                 /\ node.is[2][2] \in {"GrowList", "PutMap"}

\* The declaration a node builds a value of, and the one it attempts.
Builds(node) ==
    CASE Kind(node) = "construct" -> {node.is[2]}
      [] Kind(node) = "unit" /\ node.is[2][1] = "declared" -> {node.is[2][2]}
      [] OTHER -> {}
Attempts(node) == IF Kind(node) = "attempt" THEN {node.is[2]} ELSE {}

RECURSIVE EachWritten(_)
EachWritten(node) == <<node>> \o FlattenSeq([i \in DOMAIN node.kids |-> EachWritten(node.kids[i])])

(***************************************************************************)
(* The departures of an attempted construction.  Its arms are the names of *)
(* the clauses they answer, <<>> for the arm naming none; a single arm     *)
(* naming none answers every clause.                                       *)
(***************************************************************************)
Values(node) == SubSeq(node.kids, 1, Len(node.kids) - 1 - Len(node.is[4]))
Then(node) == node.kids[Len(node.kids) - Len(node.is[4])]
Departures(node) == SubSeq(node.kids, Len(node.kids) - Len(node.is[4]) + 1, Len(node.kids))
AnswersAny(node) == node.is[4] = << <<>> >>

\* A list of arms the reader takes: one at least, and one naming no clause at most.
DeparturesRead(node) ==
    /\ node.is[4] # <<>>
    /\ \A i, j \in DOMAIN node.is[4] : node.is[4][i] = <<>> /\ node.is[4][j] = <<>> => i = j

(***************************************************************************)
(* The arms of a fork.  An arm is what it selects and the name it          *)
(* introduces, <<>> where it introduces none; what the name is read as is  *)
(* among the node's types, in the order of the arms that introduce one.    *)
(***************************************************************************)
Which(atoms) == <<"which", atoms>>
Held == <<"held">>
Absent == <<"nothing">>

Arms(node) == node.is[2]
ReadAs(node, i) ==
    node.tys[Cardinality({j \in 1..i : Arms(node)[j].binding # <<>>})]

(***************************************************************************)
(* Declarations and what the document holds                                *)
(***************************************************************************)
PositionOf(declaration, field) ==
    LET at == {i \in DOMAIN declaration.fields : declaration.fields[i].name = field}
    IN IF at = {} THEN 0 ELSE CHOOSE i \in at : \A j \in at : i <= j

\* The clauses of a declaration, where they cross: <<>> where they do not, else a sequence of one.
ClausesOf(declaration) ==
    IF declaration.is \in {"unit", "sum"} THEN << <<>> >> ELSE declaration.clauses

\* The type of the field a boundary constraint is about.
ConstraintOf(constraint) ==
    CASE constraint[1] \in {"minlength", "maxlength", "fixedlength", "pattern"} -> "String"
      [] constraint[1] \in {"min", "max", "positive", "nonnegative"} -> "Int"
      [] constraint[1] \in {"decimalmin", "decimalmax", "decimalpositive", "decimalnonnegative"} -> "Decimal"
      [] constraint[1] \in {"nonempty", "minsize", "maxsize", "fixedsize", "unique"} -> "list"
      [] constraint[1] \in {"mapnonempty", "mapminsize", "mapmaxsize"} -> "map"

\* A clause is never the whole of no constraint.
ProjectionRead(clause) == clause.complete => clause.constraints # <<>>

ClauseNames(declaration) ==
    CASE declaration.is \in {"unit", "sum"} -> <<>>
      [] declaration.clauses # <<>> ->
            [i \in DOMAIN declaration.clauses[1] |-> declaration.clauses[1][i].name]
      [] OTHER -> IF declaration.headers = <<>> THEN <<>> ELSE declaration.headers[1]

\* What a target says of a call of it.  Its contract is <<>> where its answer is held to nothing.
Contract(target) == IF target.ensures[1] \in {"callee", "crossing"} THEN <<target.ensures>> ELSE <<>>
Rules(target) == IF Contract(target) = <<>> THEN <<>> ELSE target.ensures[3]

\* A target is refused where how it answers and what it says of its parameters disagree.
TargetRead(target) ==
    /\ target.is \in {"body", "injected", "unwritten"} => target.names # <<>>
    /\ target.is = "composed" => target.names = <<>>
    /\ target.is = "injected" => target.requirements = <<>>
    /\ Contract(target) # <<>> => target.names = <<target.ensures[2]>>

\* What the value a rule is held to is read as.
GuardReadsAs(rule, answers) == IF rule.guard = <<>> THEN answers ELSE rule.guard[2]

\* What a definition requires is what its target says.
RequiredOf(program, key) ==
    LET named == {i \in DOMAIN program.behaviors : program.behaviors[i].key = key}
    IN IF named = {} THEN <<>> ELSE program.behaviors[Max(named)].requirements

\* What a stand-in is asked with and what it answers, in the order they are written.
StoodValues(standIn) ==
    FlattenSeq([i \in DOMAIN standIn.entries |->
                  Append(standIn.entries[i].arguments, standIn.entries[i].answer)])
    \o standIn.otherwise

(***************************************************************************)
(* Every body the document holds, with the module whose copy of a helper a *)
(* call from it reaches, what owns it, and what it was constructed with.   *)
(* A stated answer is a body only in the row of a behavior a host gives.   *)
(***************************************************************************)
Body(module, owner, node) == [module |-> module, owner |-> owner, node |-> node, environment |-> <<>>]

ModuleBodies(program, written, held) ==
    LET each(over, make(_)) == FlattenSeq([i \in DOMAIN over |-> make(i)])
        at(owner, node) == <<Body(written.name, owner, node)>>
        row(i) == LET example == written.examples[i] IN
            at(<<"example", i>>, example.body)
            \o each(example.standsIn, LAMBDA j :
                 LET values == StoodValues(example.standsIn[j])
                 IN [k \in DOMAIN values |-> Body(written.name, <<"stoodin", i, j>>, values[k])])
            \o (IF example.expects[1] = "value" /\ example.behavior \in held
                THEN at(<<"expected", i>>, example.expects[2]) ELSE <<>>)
        definition(i) == LET it == written.definitions[i] IN
            IF it.is = "composed" THEN <<>>
            ELSE << [Body(written.name, <<"definition", it.declared>>, it.body)
                       EXCEPT !.environment = RequiredOf(program, it.declared)] >>
    IN each(written.helpers, LAMBDA i : at(<<"helper", i>>, written.helpers[i].body))
       \o each(written.values, LAMBDA i : at(<<"value", i>>, written.values[i].body))
       \o each(written.entries, LAMBDA i : at(<<"entry", i>>, written.entries[i].body))
       \o each(written.definitions, definition)
       \o each(written.examples, row)

Bodies(program) ==
    LET held == {program.behaviors[i].key : i \in {j \in DOMAIN program.behaviors :
                                                     program.behaviors[j].is = "injected"}}
        clauses(d) == LET of == ClausesOf(d) IN IF of = <<>> THEN <<>> ELSE of[1]
        ofDeclaration(i) == LET d == program.declarations[i] IN
            [at \in DOMAIN clauses(d) |-> Body(d.module, <<"invariant", i, at>>, clauses(d)[at].condition)]
        ofTarget(i) == LET target == program.behaviors[i] IN
            [at \in DOMAIN Rules(target) |->
                Body(target.module, <<"ensures", i, at>>, Rules(target)[at].condition)]
    IN FlattenSeq([i \in DOMAIN program.declarations |-> ofDeclaration(i)])
       \o FlattenSeq([i \in DOMAIN program.behaviors |-> ofTarget(i)])
       \o FlattenSeq([i \in DOMAIN program.modules |-> ModuleBodies(program, program.modules[i], held)])

\* The document is one the reader takes.
ProgramRead(program) ==
    /\ \A i \in DOMAIN program.behaviors : TargetRead(program.behaviors[i])
    /\ \A i \in DOMAIN program.declarations : LET of == ClausesOf(program.declarations[i]) IN
          of # <<>> => \A at \in DOMAIN of[1] : ProjectionRead(of[1][at])
    /\ \A body \in ToSet(Bodies(program)) : \A node \in ToSet(EachWritten(body.node)) :
          Kind(node) = "attempt" => DeparturesRead(node)

(***************************************************************************)
(* A helper a module holds                                                 *)
(***************************************************************************)
Takes(held) == [i \in DOMAIN held.parameters |-> held.parameters[i].ty]
Answers(held) == held.body.ty
HeldNumbers(held) ==
    UNION {Numbers(ty) : ty \in ToSet(Takes(held))}
    \union UNION {UNION {Numbers(ty) : ty \in ToSet(Types(node))} : node \in ToSet(EachWritten(held.body))}
Variables(held) == IF HeldNumbers(held) = {} THEN 0 ELSE Max(HeldNumbers(held)) + 1
=============================================================================
