------------------------------- MODULE Copies -------------------------------
(***************************************************************************)
(* The making of the copies of helpers (compiler/src/specialize.rs,        *)
(* Specializations): the calls of the roots are resolved, then those of    *)
(* each copy in the order the copies were made, and a call whose helper    *)
(* has no copy at its types makes one, within two limits.  What a body     *)
(* calls is left open here: Specialize reads it out of a document, and     *)
(* what is proved holds of every one.                                      *)
(***************************************************************************)
EXTENDS Integers, Sequences, FiniteSets

CONSTANTS Depth,        \* how many copies of a helper one chain may hold
          Reentered     \* how many copies of a helper may be made from a copy of it
ASSUME DepthAssumption == Depth \in Nat \ {0} /\ Reentered \in Nat

VARIABLES copies,       \* the copies made so far, what is spent of the limits, and how it ended
          reading,      \* the copy whose calls are being resolved, 0 for the roots
          resolved,     \* how many of them have been
          rootCalls     \* the calls of the roots
copying == <<copies, reading, resolved, rootCalls>>

(***************************************************************************)
(* A call is the module it stands in, what it reaches there and the types  *)
(* it settles the helper's variables to; Unfit is one that does not fit    *)
(* its helper.  A copy is the helper, those types, which of the helper's   *)
(* copies it is, the copy whose body made it (0 for none), the copies made *)
(* one from another up to it, its body and the calls there.                *)
(***************************************************************************)
Unfit == <<>>
IsFor(copy, call) == copy.module = call[1] /\ copy.reached = call[2] /\ copy.types = call[3]
OfHelper(copy, module, reached) == copy.module = module /\ copy.reached = reached

\* What a count kept by helper says of one, and the count with one more of it.
CountOf(counts, helper) == IF helper \in DOMAIN counts THEN counts[helper] ELSE 0
OneMore(counts, helper) ==
    [it \in DOMAIN counts \cup {helper} |-> IF it = helper THEN CountOf(counts, it) + 1 ELSE counts[it]]

\* Mutant of CopyAt: a copy at any types will do.
CopyAtAny(instances, module, reached, types) ==
    LET at == {i \in DOMAIN instances : OfHelper(instances[i], module, reached)}
    IN IF at = {} THEN 0 ELSE CHOOSE i \in at : TRUE

\* Where a copy stands among those made, 0 where there is none.
CopyAt(instances, module, reached, types) ==
    LET at == {i \in DOMAIN instances : IsFor(instances[i], <<module, reached, types>>)}
    IN IF at = {} THEN 0 ELSE CHOOSE i \in at : TRUE

\* The copies along the chain that ends in one, and how many of a helper they hold.
Line(instances, at) == IF at = 0 THEN {} ELSE instances[at].line
Along(instances, at, module, reached) ==
    Cardinality({i \in Line(instances, at) : OfHelper(instances[i], module, reached)})

Specialising == [instances |-> <<>>, spent |-> [helper \in {} |-> 0], made |-> [helper \in {} |-> 0],
                 ended |-> "none"]

\* Whether either limit refuses a copy made from a body that stands along a chain.
Refused(sofar, parent, module, reached) ==
    LET along == Along(sofar.instances, parent, module, reached) IN
    along >= Depth \/ (along > 0 /\ CountOf(sofar.spent, <<module, reached>>) >= Reentered)

\* A copy is made where there is none yet, within the two limits.
Copy(sofar, parent, call, body, calls) ==
    LET helper == <<call[1], call[2]>>
        made == [module |-> call[1], reached |-> call[2], types |-> call[3],
                 ordinal |-> CountOf(sofar.made, helper), parent |-> parent,
                 line |-> Line(sofar.instances, parent) \cup {Len(sofar.instances) + 1},
                 body |-> body, calls |-> calls]
    IN IF CopyAt(sofar.instances, call[1], call[2], call[3]) # 0 THEN sofar
       ELSE IF Refused(sofar, parent, call[1], call[2]) THEN [sofar EXCEPT !.ended = "not lowered"]
       ELSE [instances |-> Append(sofar.instances, made),
             spent |-> IF Along(sofar.instances, parent, call[1], call[2]) > 0
                       THEN OneMore(sofar.spent, helper) ELSE sofar.spent,
             made |-> OneMore(sofar.made, helper),
             ended |-> sofar.ended]

(***************************************************************************)
(* The steps.  What a helper leaving nothing open is copied for is among   *)
(* the roots' calls: one copy of it is made whether a call reaches it.     *)
(***************************************************************************)
CallsOf(at) == IF at = 0 THEN rootCalls ELSE copies.instances[at].calls

ReadRoots(calls) ==
    /\ copies = Specialising /\ reading = 0 /\ resolved = 0
    /\ rootCalls' = calls
    /\ UNCHANGED <<copies, reading, resolved>>

\* The next call, with the body and the calls its copy has if one is made.
ResolveCall(body, calls) ==
    /\ copies.ended = "none" /\ resolved < Len(CallsOf(reading))
    /\ LET call == CallsOf(reading)[resolved + 1] IN
         copies' = IF call = Unfit THEN [copies EXCEPT !.ended = "panicked"]
                   ELSE Copy(copies, reading, call, body, calls)
    /\ resolved' = IF copies'.ended = "none" THEN resolved + 1 ELSE resolved
    /\ UNCHANGED <<reading, rootCalls>>

\* Every call of a body is resolved: the copy made after it is read.
ReadNext ==
    /\ copies.ended = "none" /\ resolved = Len(CallsOf(reading)) /\ reading < Len(copies.instances)
    /\ reading' = reading + 1 /\ resolved' = 0
    /\ UNCHANGED <<copies, rootCalls>>

\* The making on its own, whatever the roots and the bodies of the copies call.
IsRow(calls) == \E of : calls \in Seq(of)
CopyInit == copies = Specialising /\ reading = 0 /\ resolved = 0 /\ rootCalls = <<>>
CopyNext ==
    \/ \E calls : IsRow(calls) /\ ReadRoots(calls)
    \/ \E body, calls : IsRow(calls) /\ ResolveCall(body, calls)
    \/ ReadNext
Copying == CopyInit /\ [][CopyNext]_copying

(***************************************************************************)
(* What the making owes                                                    *)
(***************************************************************************)
Instances == copies.instances
AllResolved == copies.ended = "none" /\ resolved = Len(CallsOf(reading)) /\ reading = Len(Instances)

\* Once the last copy's calls are resolved, every call of a root or of a copy reaches exactly one
\* copy, of its helper at the types it is called at: what Specializations::callee takes for granted.
CopiesClosed ==
    AllResolved => \A at \in 0..Len(Instances) : \A i \in 1..Len(CallsOf(at)) :
              \E one \in 1..Len(Instances) : \A other \in 1..Len(Instances) :
                 IsFor(Instances[other], CallsOf(at)[i]) <=> other = one

\* The symbol a copy is declared under: the helper's, with its ordinal where it leaves types open.
SymbolOf(copy) ==
    IF copy.types = <<>> THEN <<copy.module, copy.reached>> ELSE <<copy.module, copy.reached, copy.ordinal>>

\* No two copies are declared under one symbol, and none is made that no call of the body it was made
\* from asks for: that body is a root's or one made before it.
CopiesApart ==
    \A at \in 1..Len(Instances) :
       /\ \A other \in 1..Len(Instances) : SymbolOf(Instances[other]) = SymbolOf(Instances[at]) => other = at
       /\ Instances[at].parent \in 0..at - 1
       /\ \E i \in 1..Len(CallsOf(Instances[at].parent)) : IsFor(Instances[at], CallsOf(Instances[at].parent)[i])

\* The copies of a helper along the chain that ends in a copy; those of it made from a copy of it.
AlongOf(at, module, reached) == {i \in Line(Instances, at) : OfHelper(Instances[i], module, reached)}
ReenteringOf(module, reached) ==
    {at \in 1..Len(Instances) : OfHelper(Instances[at], module, reached) /\ AlongOf(Instances[at].parent, module, reached) # {}}

\* The limits hold of every helper, however the copies came to be made, and where the making is given
\* up it is at a call that has no copy and whose copy one of them refuses.
WithinLimits ==
    /\ \A at \in 1..Len(Instances) :
         /\ Instances[at].line = Line(Instances, Instances[at].parent) \cup {at}
         /\ Cardinality(AlongOf(at, Instances[at].module, Instances[at].reached)) <= Depth
         /\ Cardinality(ReenteringOf(Instances[at].module, Instances[at].reached)) <= Reentered
    /\ copies.ended = "not lowered" =>
         LET call == CallsOf(reading)[resolved + 1]
             along == AlongOf(reading, call[1], call[2])
         IN /\ \A at \in 1..Len(Instances) : ~IsFor(Instances[at], call)
            /\ \/ Cardinality(along) >= Depth
               \/ along # {} /\ Cardinality(ReenteringOf(call[1], call[2])) >= Reentered
=============================================================================
