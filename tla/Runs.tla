-------------------------------- MODULE Runs --------------------------------
(***************************************************************************)
(* What the object runs, which is narrower than what the document says:    *)
(* Runs of compiler/src/lib.rs, and the declarations with an external form *)
(* of compiler/src/codec/mod.rs.                                           *)
(***************************************************************************)
EXTENDS Unrun

\* A type a value is held as on the machine; a field of any other makes its declaration unbuilt here.
HasMachineType(ty) ==
    /\ ty[1] \notin {"var", "nothing", "never"}
    /\ ~(ty[1] = "ref" /\ ty[2][1] = "primitive")

(***************************************************************************)
(* The external form.  What a declaration reaches, with "none" for what    *)
(* has no external form of its own here.                                   *)
(***************************************************************************)
RECURSIVE ShapeReaches(_)
ShapeReaches(ty) ==
    CASE IsPrim(ty) -> IF ty[2] = "Rational" THEN {"none"} ELSE {}
      [] ty[1] = "ref" -> IF IsDeclared(ty) THEN {ty[2][2]} ELSE {"none"}
      [] ty[1] = "map" -> (IF IsPrim(ty[2]) THEN {} ELSE ShapeReaches(ty[2])) \union ShapeReaches(ty[3])
      [] ty[1] \in {"option", "list", "set"} -> ShapeReaches(ty[2])

ReachedBy(declaration) ==
    CASE declaration.is = "unit" -> {}
      [] declaration.is = "sum" ->
            {case[2] : case \in {c \in ToSet(declaration.cases) : c[1] = "declared"}}
            \union (IF Primitive("Rational") \in ToSet(declaration.cases) THEN {"none"} ELSE {})
      [] OTHER -> UNION {ShapeReaches(declaration.fields[i].ty) : i \in DOMAIN declaration.fields}

DeclaredKeys == {doc.declarations[i].key : i \in DOMAIN doc.declarations}

\* Every declaration with an external form: struck until nothing held reaches what is not.
RECURSIVE Strike(_)
Strike(held) ==
    LET kept == {key \in held : ReachedBy(Shape(key)) \subseteq held}
    IN IF kept = held THEN held ELSE Strike(kept)
Carried == Strike({key \in DeclaredKeys : Shape(key).by # "thelanguage"})

RECURSIVE ReachedFrom(_)
ReachedFrom(roots) ==
    LET more == roots \union UNION {ReachedBy(Shape(key)) \ {"none"} : key \in roots}
    IN IF more = roots THEN roots ELSE ReachedFrom(more)

(***************************************************************************)
(* How a construction is made where it stands, and what is built.          *)
(***************************************************************************)
Construction(declaration) ==
    IF ClausesOf(declaration) = << <<>> >> THEN "laid" ELSE "called"

Published == UNION {ToSet(doc.modules[i].publishes) : i \in DOMAIN doc.modules}

IsClause(body) == body.owner[1] = "invariant"
DocumentBodies == SelectSeq(Bodies(doc), LAMBDA body : ~IsClause(body))
LoweredIn(bodies) == UNION {ToSet(EachLowered(bodies[i].node)) : i \in DOMAIN bodies}

CalledConstructors(bodies) ==
    {key \in UNION {Builds(node) : node \in LoweredIn(bodies)} : Construction(Shape(key)) = "called"}
AttemptedIn(bodies) == UNION {Attempts(node) : node \in LoweredIn(bodies)}

Built ==
    LET reached == CalledConstructors(DocumentBodies) \union AttemptedIn(DocumentBodies)
        read == ReachedFrom({key \in Published \intersect Carried : Shape(key).by = "amodule"})
    IN {key \in DeclaredKeys :
          /\ Shape(key).by = "amodule"
          /\ Shape(key).is # "sum"
          /\ key \in Published \union reached \union read
          /\ \A i \in DOMAIN Shape(key).fields : HasMachineType(Shape(key).fields[i].ty)}

\* Every body this object runs: a clause where its declaration is built here, and every other.
RunBodies ==
    DocumentBodies
    \o SelectSeq(Bodies(doc), LAMBDA body : IsClause(body) /\ doc.declarations[body.owner[2]].key \in Built)
=============================================================================
