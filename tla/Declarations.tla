---------------------------- MODULE Declarations ----------------------------
(***************************************************************************)
(* What the declarations of the document say a type is: the part of the   *)
(* driver every pass asks (Declared of compiler/src/lib.rs).               *)
(***************************************************************************)
EXTENDS Transport

NoDeclaration == [key |-> "", is |-> "none", by |-> "amodule", fields |-> <<>>,
                  clauses |-> <<>>, headers |-> <<>>, cases |-> <<>>, form |-> <<>>]

\* The declaration a key reaches.
KeyKnown(key) == \E i \in DOMAIN doc.declarations : doc.declarations[i].key = key
Shape(key) ==
    IF KeyKnown(key) THEN doc.declarations[CHOOSE i \in DOMAIN doc.declarations : doc.declarations[i].key = key]
    ELSE NoDeclaration
IsSum(key) == Shape(key).is = "sum"
Is(ty, kind) == IsDeclared(ty) /\ Shape(ty[2][2]).is = kind

CaseKnown(case) == case[1] = "declared" => KeyKnown(case[2])

RECURSIVE Resolving(_, _)
Resolving(ty, open) ==
    CASE ty[1] = "ref" -> CaseKnown(ty[2])
      [] ty[1] = "union" -> \A case \in ToSet(ty[2]) : CaseKnown(case)
      [] ty[1] = "var" -> open
      [] OTHER -> \A member \in ToSet(Members(ty)) : Resolving(member, open)

\* A type variable stands inside a helper's body and nowhere else.
Resolves(ty) == Resolving(ty, FALSE)
ResolvesOpen(ty) == Resolving(ty, TRUE)

\* The cases and the form of a set of alternatives are what the checker could have settled.
Settled(cases, form) ==
    LET unit(case) == case[1] = "declared" /\ Shape(case[2]).is = "unit"
        everyOne == \A case \in ToSet(cases) : unit(case)
    IN /\ \A case \in ToSet(cases) : CaseKnown(case) /\ (case[1] = "declared" => ~IsSum(case[2]))
       /\ form[1] = "enumeration" <=> everyOne
       /\ form[1] = "discriminated" =>
             \A case \in ToSet(cases) :
                case[1] = "declared" /\ Shape(case[2]).is = "product" =>
                    PositionOf(Shape(case[2]), form[2]) = 0

CasesUnder(declaration, case) == IF declaration.is = "sum" THEN declaration.cases ELSE <<case>>
LeavesUnder(case) == IF case[1] = "declared" THEN CasesUnder(Shape(case[2]), case) ELSE <<case>>
\* A sum gives way to its cases, and each case is kept where it was first reached.
LeavesOf(members) ==
    FoldLeft(LAMBDA leaves, leaf : IF leaf \in ToSet(leaves) THEN leaves ELSE Append(leaves, leaf),
             <<>>, FlattenSeq([i \in DOMAIN members |-> LeavesUnder(members[i])]))

DescendsTo(ty, cases) == ty[1] = "union" /\ LeavesOf(ty[2]) = cases

\* The cases of a type made of cases, and none of any other.
CasesOf(ty) ==
    CASE ty[1] = "ref" -> LeavesOf(<<ty[2]>>)
      [] ty[1] = "union" -> LeavesOf(ty[2])
      [] IsPrim(ty) -> <<Primitive(ty[2])>>
      [] OTHER -> <<>>
IsOfCases(ty) == ty[1] \in {"ref", "union", "prim"}

HasCases(ty) == ty[1] = "union" \/ Is(ty, "sum")

\* Every value of the first type is a value of the second.
RECURSIVE Fits(_, _)
Fits(actual, expected) ==
    \/ actual = expected
    \/ HasNoValue(actual)
    \/ /\ actual # expected
       /\ ~HasNoValue(actual)
       /\ LET allFit(pairs) == \A i \in DOMAIN pairs : Fits(pairs[i][1], pairs[i][2])
              zip(left, right) == [i \in DOMAIN left |-> <<left[i], right[i]>>]
          IN CASE actual[1] = expected[1] /\ actual[1] \in {"option", "list", "set"} ->
                    Fits(actual[2], expected[2])
               [] actual[1] = "map" /\ expected[1] = "map" ->
                    Fits(actual[2], expected[2]) /\ Fits(actual[3], expected[3])
               [] actual[1] = "tuple" /\ expected[1] = "tuple" ->
                    Len(actual[2]) = Len(expected[2]) /\ allFit(zip(actual[2], expected[2]))
               [] actual[1] = "fn" /\ expected[1] = "fn" ->
                    /\ Len(actual[2]) = Len(expected[2])
                    /\ allFit(Append(zip(expected[2], actual[2]), <<actual[3], expected[3]>>))
               [] OTHER -> /\ IsOfCases(actual) /\ IsOfCases(expected)
                           /\ ToSet(CasesOf(actual)) \subseteq ToSet(CasesOf(expected))

\* Each type met as the newtypes round a value come off; Circular where one comes back to itself.
RECURSIVE Spine(_, _)
Spine(ty, worn) ==
    IF ~Is(ty, "newtype") THEN <<>>
    ELSE IF ty \in worn THEN << <<"circular">> >>
    ELSE LET opened == Shape(ty[2][2]).fields[1].ty IN <<opened>> \o Spine(opened, worn \union {ty})
NewtypeSpine(ty) == Spine(ty, {})
Circular(ty) == NewtypeSpine(ty) # <<>> /\ Last(NewtypeSpine(ty)) = <<"circular">>
Opened(ty) == IF NewtypeSpine(ty) = <<>> THEN ty ELSE Last(NewtypeSpine(ty))

OrderOf(enumeration) == Shape(enumeration).cases

\* Mutant of PlacedOn: the newtypes round a value are not taken off.
PlacedOnAsIs(basis, ty) ==
    \/ IsPrim(basis) /\ basis # Truth /\ ty = basis
    \/ /\ Is(basis, "sum")
       /\ Shape(basis[2][2]).form[1] = "enumeration"
       /\ ty[1] \in {"ref", "union"}
       /\ ToSet(CasesOf(ty)) \subseteq ToSet(OrderOf(basis[2][2]))

\* The basis is an order the values of the type are placed on.
PlacedOn(basis, ty) ==
    LET opened == Opened(ty) IN
    \/ IsPrim(basis) /\ basis # Truth /\ opened = basis
    \/ /\ Is(basis, "sum")
       /\ Shape(basis[2][2]).form[1] = "enumeration"
       /\ opened[1] \in {"ref", "union"}
       /\ ToSet(CasesOf(opened)) \subseteq ToSet(OrderOf(basis[2][2]))

Distinct(sequence) == Cardinality(ToSet(sequence)) = Len(sequence)

\* A clause's constraints are about the one field of a data made of one, and of that field's type.
Projected(declaration) ==
    LET clauses == IF ClausesOf(declaration) = <<>> THEN <<>> ELSE ClausesOf(declaration)[1]
        about(constraint, ty) ==
            \/ ConstraintOf(constraint) \in {"list", "map"} /\ ty[1] = ConstraintOf(constraint)
            \/ ty = Prim(ConstraintOf(constraint))
    IN \A at \in DOMAIN clauses : clauses[at].constraints # <<>> =>
          /\ Len(declaration.fields) = 1
          /\ \A constraint \in ToSet(clauses[at].constraints) : about(constraint, declaration.fields[1].ty)

DeclarationStands(declaration) ==
    LET fields == declaration.fields
        names == SelectSeq(ClauseNames(declaration), LAMBDA name : name # <<>>)
    IN /\ declaration.by = "thelanguage" => declaration.is \in {"sum", "unit"}
       /\ \A i \in DOMAIN fields : Resolves(fields[i].ty)
       /\ Distinct([i \in DOMAIN fields |-> fields[i].binding])
       /\ declaration.is \in {"product", "newtype"} =>
             /\ declaration.clauses # <<>> <=> declaration.by = "amodule"
             /\ declaration.headers # <<>> <=> declaration.by = "onthepath"
       /\ Distinct(names)
       /\ Projected(declaration)
       /\ declaration.is = "sum" => Settled(declaration.cases, declaration.form) /\ Distinct(declaration.cases)

\* The declarations are ones the checker could have written.
DeclaredOf ==
    /\ Distinct([i \in DOMAIN doc.declarations |-> doc.declarations[i].key])
    /\ \A i \in DOMAIN doc.declarations : DeclarationStands(doc.declarations[i])
    /\ \A i \in DOMAIN doc.declarations :
          doc.declarations[i].is = "newtype" => ~Circular(Ref(Declared(doc.declarations[i].key)))
=============================================================================
