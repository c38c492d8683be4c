------------------------------ MODULE Coherent ------------------------------
(***************************************************************************)
(* What a document has to be before anything in it is lowered              *)
(* (compiler/src/coherent.rs): what each module holds and reaches, what a  *)
(* behavior's definition owes its target, and every body walked.           *)
(***************************************************************************)
EXTENDS Walk

(***************************************************************************)
(* What the modules hold                                                   *)
(***************************************************************************)
Routed(module, reached) ==
    CASE reached[1] = "own" -> reached[2] = module
      [] reached[1] = "ofmodule" -> reached[2] # module
      [] reached[1] = "library" -> TRUE

HelpersReached(written) ==
    LET helpers == written.helpers IN
    /\ \A i \in DOMAIN helpers :
          /\ Routed(written.name, helpers[i].reached)
          /\ HeldNumbers(helpers[i]) = 0..(Variables(helpers[i]) - 1)
    /\ Distinct([i \in DOMAIN helpers |-> helpers[i].reached])

ValuesReached(written) ==
    LET values == written.values
        asHelper(value) == {<<"own", value.declared[1], value.declared[2]>>,
                            <<"ofmodule", value.declared[1], value.declared[2]>>}
    IN /\ \A i \in DOMAIN values :
             /\ values[i].declared[1] = written.name
             /\ \A j \in DOMAIN written.helpers : written.helpers[j].reached \notin asHelper(values[i])
             /\ \A j \in DOMAIN values[i].handovers :
                   ValueBuilt(written.name, values[i].handovers[j].carries)
       /\ Distinct([i \in DOMAIN values |-> values[i].declared])

ReachedOf ==
    LET modules == doc.modules
        rows(written) == [i \in DOMAIN written.examples |-> <<written.examples[i].behavior, written.examples[i].at>>]
                         \o written.unreproducible
    IN /\ Distinct([i \in DOMAIN modules |-> modules[i].name])
       /\ \A i \in DOMAIN modules :
             /\ HelpersReached(modules[i])
             /\ ValuesReached(modules[i])
             /\ \A j \in DOMAIN modules[i].entries : modules[i].entries[j].value[1] = modules[i].name
             /\ Distinct(rows(modules[i]))
             /\ \A row \in ToSet(modules[i].unreproducible) : TargetNamed(row[1]) /\ TargetOf(row[1]).module = modules[i].name
       /\ \A i \in DOMAIN modules : Distinct([j \in DOMAIN modules[i].entries |-> modules[i].entries[j].value])

PublishesItsOwn(written) ==
    /\ Distinct(written.publishes)
    /\ \A key \in ToSet(written.publishes) :
          KeyKnown(key) /\ Shape(key).module = written.name /\ Shape(key).by = "amodule"

(***************************************************************************)
(* Definitions and their targets                                           *)
(***************************************************************************)
Definitions == FlattenSeq([i \in DOMAIN doc.modules |-> doc.modules[i].definitions])
DefinedHere(key) == \E i \in DOMAIN Definitions : Definitions[i].declared = key
DefinitionOf(key) == Definitions[CHOOSE i \in DOMAIN Definitions : Definitions[i].declared = key]

DefinitionsStand ==
    /\ \A i \in DOMAIN doc.modules : \A definition \in ToSet(doc.modules[i].definitions) :
          TargetNamed(definition.declared) /\ TargetOf(definition.declared).module = doc.modules[i].name
    /\ Distinct([i \in DOMAIN Definitions |-> Definitions[i].declared])

\* Where a behavior's answer is held to what it declares.
Placed(target) ==
    LET here == ModuleNamed(target.module) IN
    CASE target.ensures[1] = "undecided" -> ~here
      [] target.ensures[1] = "none" -> here
      [] target.ensures[1] = "callee" -> here /\ target.is \in {"body", "unwritten"}
      [] target.ensures[1] = "crossing" -> here /\ target.is \in {"injected", "unwritten"}

TargetStands(target) ==
    /\ \A i \in DOMAIN target.takes : Resolves(target.takes[i])
    /\ Resolves(target.answers)
    /\ target.output[1] = "cases" =>
          Settled(target.output[2], target.output[3]) /\ DescendsTo(target.answers, target.output[2])
    /\ target.is \in {"body", "composed"} => DefinedHere(target.key)
    /\ target.is = "elsewhere" => ~ModuleNamed(target.module)
    /\ Placed(target)

\* How a name is defined: by a body or a composition here, by a host, by another build or by nothing.
DefinedAs(target) ==
    CASE target.is \in {"body", "composed"} -> "here"
      [] target.is = "injected" -> IF ModuleNamed(target.module) THEN "bythehost" ELSE "elsewhere"
      [] target.is = "elsewhere" -> "elsewhere"
      [] target.is = "unwritten" -> "nowhere"

SaysItsCase(ty) == ty[1] = "union" \/ (ty[1] = "ref" /\ ty[2][1] \in {"declared", "language"})

\* A stage is offered what runs by its cases exactly where what runs says which it is.
StageHolds(running, stage, answers) ==
    LET taken == TargetOf(stage.behavior).takes
    IN /\ Len(taken) = 1
       /\ stage.accepted # <<>> <=> SaysItsCase(running)
       /\ IF stage.accepted = <<>> THEN Fits(running, taken[1])
          ELSE LET accepted == stage.accepted[1]
                   leaving == SelectSeq(CasesOf(running), LAMBDA case : case \notin ToSet(LeavesOf(accepted)))
               IN /\ LeafCases(accepted)
                  /\ Fits(Union(accepted), running)
                  /\ Fits(Union(accepted), taken[1])
                  /\ leaving # <<>> => Fits(Union(leaving), answers)

RunningAfter(stages, at) == TargetOf(stages[at].behavior).answers
Composes(target, stages) ==
    /\ stages # <<>>
    /\ stages[1].accepted = <<>>
    /\ \A i \in DOMAIN stages : TargetNamed(stages[i].behavior)
    /\ TargetOf(stages[1].behavior).takes = target.takes
    /\ \A i \in 2..Len(stages) : StageHolds(RunningAfter(stages, i - 1), stages[i], target.answers)
    /\ Fits(RunningAfter(stages, Len(stages)), target.answers)

AgreesWithItsTarget(definition) ==
    LET target == TargetOf(definition.declared) IN
    /\ definition.is = target.is
    /\ definition.is = "body" =>
          Len(definition.parameters) = Len(target.takes) /\ definition.body.ty = target.answers
    /\ definition.is = "composed" => Composes(target, definition.stages)

RequiresWhatItNames(definition) ==
    LET requirements == RequiredOf(doc, definition.declared) IN
    /\ \A key \in ToSet(requirements) : TargetNamed(key) /\ key # definition.declared
    /\ Distinct(requirements)

StagesAreHandedWhatTheyRequire(definition) ==
    definition.is = "composed" =>
       \A i \in DOMAIN definition.stages :
          LET reached == TargetOf(definition.stages[i].behavior)
              handed == ToSet(RequiredOf(doc, definition.declared))
          IN IF reached.is = "injected" THEN reached.key \in handed
             ELSE ToSet(reached.requirements) \subseteq handed

\* A row stands in for each dependency in the order its behavior requires them.
StandsInForWhatItRequires(example) ==
    LET stands == example.standsIn
        requires == IF DefinedHere(example.behavior) THEN RequiredOf(doc, example.behavior) ELSE <<>>
        typed(entry, target) ==
            /\ Len(entry.arguments) = Len(target.takes)
            /\ \A i \in DOMAIN entry.arguments : entry.arguments[i].ty = target.takes[i]
            /\ entry.answer.ty = target.answers
    IN stands # <<>> =>
         /\ [i \in DOMAIN stands |-> stands[i].of] = requires
         /\ \A i \in DOMAIN stands :
               /\ TargetNamed(stands[i].of)
               /\ \A j \in DOMAIN stands[i].entries : typed(stands[i].entries[j], TargetOf(stands[i].of))
               /\ stands[i].otherwise # <<>> => stands[i].otherwise[1].ty = TargetOf(stands[i].of).answers

(***************************************************************************)
(* Every body                                                              *)
(***************************************************************************)
\* A clause and a rule are truths, and build no value from fields.
HoldsAndBuildsNothing(node) ==
    node.ty = Truth /\ \A it \in ToSet(EachWritten(node)) : Kind(it) \notin {"construct", "attempt"}

Positional(tys) == [i \in DOMAIN tys |-> <<i - 1, tys[i]>>]
FieldsBound(declaration) ==
    [i \in DOMAIN declaration.fields |-> <<declaration.fields[i].binding, declaration.fields[i].ty>>]
RuleOf(body) == Rules(doc.behaviors[body.owner[2]])[body.owner[3]]

\* What the parameters of a body are bound at.
BoundIn(body) ==
    LET written == ModuleOf(body.module)
        at == body.owner[2]
    IN CASE body.owner[1] = "helper" -> Positional(Takes(written.helpers[at]))
         [] body.owner[1] = "value" -> Positional(HandoverTypes(written.values[at]))
         [] body.owner[1] = "definition" -> Positional(TargetOf(at).takes)
         [] body.owner[1] = "invariant" -> FieldsBound(doc.declarations[at])
         [] body.owner[1] = "ensures" ->
               Append(Positional(doc.behaviors[at].takes),
                      <<RuleOf(body).value, GuardReadsAs(RuleOf(body), doc.behaviors[at].answers)>>)
         [] OTHER -> <<>>

WalkOf(body) ==
    [open |-> body.owner[1] = "helper", module |-> body.module, bound |-> Unbound,
     environment |-> body.environment,
     constructs |-> IF body.owner[1] = "example" THEN ModuleOf(body.module).examples[body.owner[2]].behavior ELSE ""]

\* A rule over a case tests the answer as an arm does, and reads it under a name as one does.
RuleStands(body) ==
    LET guard == RuleOf(body).guard
        answers == doc.behaviors[body.owner[2]].answers
        stands == IF guard[1] = Held THEN <<"payload", 0>> ELSE <<"selected", 0>>
    IN /\ HoldsAndBuildsNothing(body.node)
       /\ guard # <<>> => Tests(answers, <<guard[1]>>) /\ ArmBinds(answers, <<guard[1]>>, stands, guard[2])

ExampleStands(body) ==
    LET example == ModuleOf(body.module).examples[body.owner[2]] IN
    /\ TargetNamed(example.behavior)
    /\ body.node.ty = TargetOf(example.behavior).answers
    /\ StandsInForWhatItRequires(example)

BodyStands(body) ==
    /\ body.owner[1] = "invariant" => HoldsAndBuildsNothing(body.node)
    /\ body.owner[1] = "ensures" => RuleStands(body)
    /\ body.owner[1] = "example" => ExampleStands(body)
    /\ MayBind(WalkOf(body), BoundIn(body))
    /\ Holds(body.node, BindUnder(WalkOf(body), BoundIn(body)))
    /\ ConfinedBody(body.node)

AllWritten == FlattenSeq([i \in DOMAIN Bodies(doc) |-> EachWritten(Bodies(doc)[i].node)])

\* The numbers of the closure sites under a node, planned or not.  The step of a
\* walk that runs is no closure: what is bound around it, its body and the
\* walk's other arguments are read, and its own number is not.
RECURSIVE SitesUnder(_)
SitesUnder(node) ==
    LET step == UnderLets(node.kids[1])
        lets == AroundStep(node.kids[1])
        read == IF WalksAStep(node) /\ NeverApplied(node) = {}
                THEN [i \in DOMAIN lets |-> lets[i].kids[1]] \o step.kids \o Tail(node.kids)
                ELSE node.kids
        below == FlattenSeq([i \in DOMAIN read |-> SitesUnder(read[i])])
    IN IF Kind(node) = "block" THEN Append(below, node.is[2]) ELSE below

\* A closure site is numbered once over the whole document.
SitesNumbered ==
    Distinct(FlattenSeq([i \in DOMAIN Bodies(doc) |-> SitesUnder(Bodies(doc)[i].node)]))

\* Every call of a published value no entry here answers is typed alike.
PublishedAlike ==
    LET calls == {node \in ToSet(AllWritten) : Kind(node) = "call" /\ node.is[2][1] = "publishedvalue"}
    IN \A one, other \in calls :
          one.is = other.is /\ EntriesFor(<<one.is[2][2], one.is[2][3]>>) = {} => one.ty = other.ty

CoherentDocument ==
    /\ DeclaredOf
    /\ Distinct([i \in DOMAIN doc.behaviors |-> doc.behaviors[i].key])
    /\ SitesNumbered
    /\ ReachedOf
    /\ \A i \in DOMAIN doc.modules : PublishesItsOwn(doc.modules[i])
    /\ DefinitionsStand
    /\ \A i \in DOMAIN doc.behaviors : TargetStands(doc.behaviors[i])
    /\ \A i \in DOMAIN Definitions :
          /\ AgreesWithItsTarget(Definitions[i])
          /\ RequiresWhatItNames(Definitions[i])
          /\ StagesAreHandedWhatTheyRequire(Definitions[i])
    /\ \A body \in ToSet(Bodies(doc)) : BodyStands(body)
    /\ PublishedAlike
=============================================================================
