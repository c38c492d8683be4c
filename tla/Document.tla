------------------------------ MODULE Document ------------------------------
(***************************************************************************)
(* The driver from a document to an object and the runs of it              *)
(* (compiler/src/lib.rs): the document is read, held coherent, its helpers *)
(* copied for the types they are called at, lowered, and what was lowered  *)
(* is called.  The command writes one of Programs, as its checker settled  *)
(* it, or one with one annotation or one node of a body written otherwise: *)
(* what the driver has to refuse or to stand by.                           *)
(***************************************************************************)
EXTENDS Running

CONSTANTS Programs,       \* the documents the checker writes
          AlteredTo,      \* the types an annotation is written as otherwise
          AbortsAlteredTo,\* the reasons a node is made to name
          Samples,        \* the values of each primitive a host hands over
          InputDepth      \* how deep a value handed over is built

VARIABLES stage,          \* how far the driver is
          altered,        \* whether the document is other than the checker wrote it
          result          \* what the last run came to, <<>> before one
vars == <<doc, stage, altered, copying, result>>

Ended == {"refused", "not lowered", "panicked", "lowered", "ran"}

(***************************************************************************)
(* One annotation of one node of one body written otherwise, or one node   *)
(* moved to where another of its type stands                               *)
(***************************************************************************)
RECURSIVE PathsIn(_)
PathsIn(node) ==
    {<<>>} \union UNION {{<<i>> \o path : path \in PathsIn(node.kids[i])} : i \in DOMAIN node.kids}
RECURSIVE NodeAt(_, _)
NodeAt(node, path) == IF path = <<>> THEN node ELSE NodeAt(node.kids[Head(path)], Tail(path))
RECURSIVE PutAt(_, _, _)
PutAt(node, path, new) ==
    IF path = <<>> THEN new ELSE [node EXCEPT !.kids[Head(path)] = PutAt(@, Tail(path), new)]

Otherwise(node) ==
    {[node EXCEPT !.ty = ty] : ty \in AlteredTo}
    \union UNION {{[node EXCEPT !.tys[i] = ty] : ty \in AlteredTo} : i \in DOMAIN node.tys}
    \union {[node EXCEPT !.aborts = aborts] : aborts \in AbortsAlteredTo}

\* The program with the body of an owner written as another node.
Rewritten(program, body, node) ==
    LET m == CHOOSE i \in DOMAIN program.modules : program.modules[i].name = body.module
        at == body.owner[2]
        definitions == program.modules[m].definitions
    IN CASE body.owner[1] = "helper" -> [program EXCEPT !.modules[m].helpers[at].body = node]
         [] body.owner[1] = "value" -> [program EXCEPT !.modules[m].values[at].body = node]
         [] body.owner[1] = "entry" -> [program EXCEPT !.modules[m].entries[at].body = node]
         [] body.owner[1] = "example" -> [program EXCEPT !.modules[m].examples[at].body = node]
         [] body.owner[1] = "definition" ->
               [program EXCEPT !.modules[m].definitions[CHOOSE i \in DOMAIN definitions : definitions[i].declared = at].body = node]
         [] body.owner[1] = "invariant" -> [program EXCEPT !.declarations[at].clauses[1][body.owner[3]].condition = node]
         [] body.owner[1] = "ensures" -> [program EXCEPT !.behaviors[at].ensures[3][body.owner[3]].condition = node]
         [] OTHER -> program

\* What a node may be replaced by: a node of the body of its type that makes no closure and calls no
\* helper, so that what calls itself stops where it did.
Movable(body) ==
    {node \in ToSet(EachWritten(body.node)) :
       \A it \in ToSet(EachWritten(node)) : Kind(it) # "block" /\ (Kind(it) = "call" => it.is[2][1] # "helper")}
Moved(body, node) == IF body.owner[1] = "helper" THEN {} ELSE {other \in Movable(body) : other.ty = node.ty}

Alterations(program) ==
    LET at(body, path) == LET node == NodeAt(body.node, path) IN
            {Rewritten(program, body, PutAt(body.node, path, new)) : new \in Otherwise(node) \union Moved(body, node)}
    IN UNION {UNION {at(body, path) : path \in PathsIn(body.node)} : body \in ToSet(Bodies(program))} \ {program}

(***************************************************************************)
(* The values a host hands over, each as what makes it in the object: a    *)
(* host holds no value of a declaration but one a constructor answered.    *)
(***************************************************************************)
RECURSIVE InputsOf(_, _)
\* Every row of inputs of the types.
RowsOf(tys, deep) ==
    FoldLeft(LAMBDA rows, ty : {Append(row, input) : row \in rows, input \in InputsOf(ty, deep)}, {<<>>}, tys)
InputsOf(ty, deep) ==
    LET rows(tys) == RowsOf(tys, deep - 1)
        upToTwo(of) == rows(<<>>) \union rows(<<of>>) \union rows(<<of, of>>)
        made(kind, row) == Node(<<kind>>, ty, <<>>, <<>>, row)
        read(case, row) == Node(<<"construct", case[2]>>, Ref(case), <<"InvariantNotHeld">>, <<>>, row)
        widened(input) == IF input.ty = ty THEN input ELSE made("widen", <<input>>)
        from(name, of, row) == Node(<<"call", <<"kernel", name, <<>>>>>>, ty, <<>>, <<List(of)>>,
                                    <<Node(<<"list">>, List(of), <<>>, <<>>, row)>>)
        inCase(case) == CASE case[1] = "declared" -> {read(case, row) : row \in rows(BodyOf(case))}
                          [] case[1] = "primitive" -> {row[1] : row \in rows(<<Prim(case[2])>>)}
                          [] OTHER -> {Node(<<"unit", case>>, Ref(case), <<>>, <<>>, <<>>)}
    IN IF deep = 0 THEN {}
       ELSE CASE IsPrim(ty) -> {Having(value, ty) : value \in Samples[ty[2]]}
              [] ty[1] \in {"ref", "union"} -> UNION {{widened(input) : input \in inCase(case)} : case \in ToSet(CasesOf(ty))}
              [] ty[1] = "option" -> {made("none", <<>>)} \union {made("some", row) : row \in rows(<<ty[2]>>)}
              [] ty[1] = "tuple" -> {made("tuple", row) : row \in rows(ty[2])}
              [] ty[1] = "list" -> {made("list", row) : row \in upToTwo(ty[2])}
              [] ty[1] = "set" -> {from("set.fromList", ty[2], row) : row \in upToTwo(ty[2])}
              [] ty[1] = "map" ->
                    {from("map.fromList", Tuple(<<ty[2], ty[3]>>), row) : row \in upToTwo(Tuple(<<ty[2], ty[3]>>))}
              [] OTHER -> {}

\* What the host gives: the injected behaviors, and what other builds answer and decide.
Outside(of) == [module |-> "", instances |-> copies.instances, names |-> Unbound, requires |-> <<>>,
                held |-> Null, row |-> NoRow, host |-> of]
GivenKeys == {doc.behaviors[i].key : i \in {j \in DOMAIN doc.behaviors : doc.behaviors[j].is \in {"injected", "elsewhere"}}}
DecidedElsewhere == {doc.declarations[i].key : i \in {j \in DOMAIN doc.declarations : doc.declarations[j].by = "onthepath"}}
HostAnswers(answers) == InputsOf(answers, InputDepth) \union {Failing(answers)}
\* One thing the host does for each behavior and each declaration of another build.
Hosts ==
    LET does(hosts, key, things) == UNION {{(<<key>> :> thing) @@ host : thing \in things} : host \in hosts}
        decides(hosts, key) == does(hosts, key, {Answered(place) : place \in 0..Len(ClauseNames(Shape(key)))})
        gives(hosts, key) == does(hosts, key, HostAnswers(TargetOf(key).answers))
        none == {[at \in {} |-> Answered(Null)]}
    IN FoldLeft(gives, FoldLeft(decides, none, SetToSeq(DecidedElsewhere)), SetToSeq(GivenKeys))

\* What a behavior is constructed with: nothing, one of them missing, or everything it requires.
BuiltFor(key) ==
    IF TargetOf(key).is = "injected" \/ TargetOf(key).is = "elsewhere" THEN <<"host", key>> ELSE <<"built", key, Null>>
Constructions(requirements) ==
    LET whole == [i \in DOMAIN requirements |-> BuiltFor(requirements[i])]
    IN {Null, Capabilities(whole)} \union {Capabilities([whole EXCEPT ![i] = Null]) : i \in DOMAIN whole}

(***************************************************************************)
(* The driver                                                              *)
(***************************************************************************)
Init ==
    /\ doc = NoDocument
    /\ stage = "start"
    /\ altered = FALSE
    /\ CopyInit
    /\ result = <<>>

Write ==
    /\ stage = "start"
    /\ doc' \in Programs
    /\ stage' = "written"
    /\ UNCHANGED <<altered, copying, result>>

Alter ==
    /\ stage = "written" /\ ~altered
    /\ doc' \in Alterations(doc)
    /\ altered' = TRUE
    /\ UNCHANGED <<stage, copying, result>>

ReadDocument ==
    /\ stage = "written"
    /\ stage' = IF ProgramRead(doc) THEN "read" ELSE "refused"
    /\ UNCHANGED <<doc, altered, copying, result>>

Cohere ==
    /\ stage = "read"
    /\ stage' = IF CoherentDocument THEN "coherent" ELSE "refused"
    /\ UNCHANGED <<doc, altered, copying, result>>

\* How a specialising that has ended leaves the driver: over a limit, or at a call that does not fit.
After(made, otherwise) == IF made.ended = "none" THEN otherwise ELSE made.ended

SpecialiseRoots ==
    /\ stage = "coherent"
    /\ ReadRoots(Roots)
    /\ stage' = "specialising"
    /\ UNCHANGED <<doc, altered, result>>

SpecialiseCall ==
    /\ stage = "specialising"
    /\ LET call == CallsOf(reading)[resolved + 1] IN
         ResolveCall(CopiedBody(call), CallsIn(call[1], CopiedBody(call)))
    /\ stage' = After(copies', stage)
    /\ UNCHANGED <<doc, altered, result>>

SpecialiseNext ==
    /\ stage = "specialising"
    /\ ReadNext
    /\ UNCHANGED <<doc, stage, altered, result>>

Lower ==
    /\ stage = "specialising" /\ AllResolved
    /\ stage' = Lowered(copies.instances)
    /\ UNCHANGED <<doc, altered, copying, result>>

(***************************************************************************)
(* What is called of the object                                            *)
(***************************************************************************)
\* A behavior, constructed with what it requires or not.
BehaviorCalls ==
    UNION {LET target == TargetOf(Definitions[i].declared) IN
             {Hosting(target.key, held, row) : held \in Constructions(target.requirements), row \in RowsOf(target.takes, InputDepth)}
           : i \in DOMAIN Definitions}
\* The value a module publishes.
ValueCalls(written) ==
    {Node(<<"call", <<"publishedvalue", entry.value[1], entry.value[2]>>>>, entry.body.ty, <<>>, <<>>, <<>>) : entry \in ToSet(written.entries)}
\* A row, and a row of what a host gives held to what it states.
RowCalls(written) ==
    {RowOfModule(written.name, example) : example \in ToSet(written.examples)}
    \union {Keeping(written.name, example) : example \in
              {it \in ToSet(written.examples) : DefinedAs(TargetOf(it.behavior)) = "bythehost" /\ it.expects[1] # "owed"}}
\* A value of a published declaration, from fields a host read.
BuildCalls ==
    UNION {{Node(<<"construct", key>>, Ref(Declared(key)), <<"InvariantNotHeld">>, <<>>, row) : row \in RowsOf(FieldTypes(key), InputDepth)}
           : key \in Published \intersect Built}
Calls == BehaviorCalls \union BuildCalls \union UNION {ValueCalls(written) \union RowCalls(written) : written \in ToSet(doc.modules)}

CallObject ==
    /\ stage = "lowered"
    /\ \E call \in Calls, host \in Hosts : result' = Run(call, Outside(host))
    /\ stage' = "ran"
    /\ UNCHANGED <<doc, altered, copying>>

Driver == ReadDocument \/ Cohere \/ SpecialiseRoots \/ SpecialiseCall \/ SpecialiseNext \/ Lower
Next == Write \/ Alter \/ Driver \/ CallObject

Spec == Init /\ [][Next]_vars

(***************************************************************************)
(* What the driver owes                                                    *)
(***************************************************************************)
\* No document that was held coherent makes the lowering meet a fact it takes for granted not being
\* so: an expect, an unreachable or an assertion of emit is reached by none of them.
NeverPanics == stage # "panicked"

\* Every call of a helper that is lowered hands its copy what the copy takes and is taken for what the
\* copy answers.  What was lowered uses no value as another type than the one it is held as, and traps
\* past the last arm of a fork only where the document is not as the checker wrote it.
Sound ==
    LET fits(module, node) == \A call \in ToSet(HelperCalls(node)) :
            /\ Handed(call) = HelperTakes(Callee(copies.instances, module, call))
            /\ call.ty = Callee(copies.instances, module, call).body.ty
    IN /\ stage = "lowered" =>
            /\ \A copy \in ToSet(copies.instances) : fits(copy.module, copy.body)
            /\ \A body \in ToSet(RunBodies) : body.owner[1] # "helper" => fits(body.module, body.node)
       /\ result # <<>> => result[1] # "wrong" /\ (result[1] = "trapped" => altered)

\* A run that ends without a value ends with the status of what ended it: the reason the node names
\* is the reason there is.
EndsForWhatItNames == result # <<>> /\ result[1] = "ended" => result[2] = result[3]

\* A document the checker wrote is never refused as incoherent: whatever the reader and Coherent hold
\* it to, together, is what the checker settles.
CheckedIsCoherent == stage = "refused" => altered
=============================================================================
