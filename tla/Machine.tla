------------------------------ MODULE Machine ------------------------------
(***************************************************************************)
(* How a value is held on the machine, and what the driver writes for two  *)
(* values of one type: whether they are equal, which comes first, and what *)
(* one hashes to (compiler/src/equality.rs, ordering.rs and hashing.rs).   *)
(*                                                                         *)
(* A held value begins with how it is held: a word, a byte, a number the   *)
(* runtime keeps, or the address of a cell with its token at the front, of *)
(* an optional's slot, of a tuple's members, of a list, of a collection or *)
(* of a closure.  Reading one another way is Wild.                         *)
(***************************************************************************)
EXTENDS Coherent, Trie

CONSTANT TokenAt              \* where the linker put the token of each case

Word(number) == <<"i64", number>>
Byte(truth) == <<"i8", IF truth THEN 1 ELSE 0>>
Cell(case, slots) == <<"cell", case, slots>>
Null == <<"null">>
Present(slot) == <<"held", slot>>
MembersAt(slots) == <<"members", slots>>
Listed(slots) == <<"listed", slots>>
Kept(trie) == <<"trie", trie>>
Wild == <<"wild">>

\* A truth is a byte on its own and a word in a slot.
IntoSlot(value) == IF value[1] = "i8" THEN Word(value[2]) ELSE value
OutOfSlot(slot, ty) ==
    IF ty # Truth THEN slot
    ELSE IF slot[1] = "i64" THEN <<"i8", slot[2] % 256>> ELSE Wild

\* A case no declaration names, made to say which case it is.
Carry(case, holds) == Cell(case, [i \in DOMAIN holds |-> IntoSlot(holds[i])])

\* How a primitive is held.
PrimHeld(prim) ==
    CASE prim = "Int" -> "i64"
      [] prim = "Bool" -> "i8"
      [] prim = "String" -> "text"
      [] OTHER -> prim

\* The types of what a value of a case holds, at the slots after its token.
BodyOf(case) ==
    CASE case[1] = "declared" -> FieldTypes(case[2])
      [] case[1] = "primitive" -> <<Prim(case[2])>>
      [] case[1] = "language" -> <<>>

(***************************************************************************)
(* A value is held as its type is, all the way down.                       *)
(***************************************************************************)
RECURSIVE StandsAs(_, _)
StandsAs(value, ty) ==
    LET each(slots, tys) == /\ Len(slots) = Len(tys)
                            /\ \A i \in DOMAIN slots : StandsAs(OutOfSlot(slots[i], tys[i]), tys[i])
    IN CASE IsPrim(ty) -> value[1] = PrimHeld(ty[2])
         [] ty[1] \in {"ref", "union"} ->
               /\ value[1] = "cell"
               /\ value[2] \in ToSet(CasesOf(ty))
               /\ each(value[3], BodyOf(value[2]))
         [] ty[1] = "option" -> value = Null \/ (value[1] = "held" /\ each(<<value[2]>>, <<ty[2]>>))
         [] ty[1] = "tuple" -> value[1] = "members" /\ each(value[2], ty[2])
         [] ty[1] = "list" -> value[1] = "listed" /\ each(value[2], [i \in DOMAIN value[2] |-> ty[2]])
         [] ty[1] = "set" ->
               /\ value[1] = "trie"
               /\ \A entry \in ToSet(Entries(value[2])) : each(<<entry.key>>, <<ty[2]>>)
         [] ty[1] = "map" ->
               /\ value[1] = "trie"
               /\ \A entry \in ToSet(Entries(value[2])) :
                     each(<<entry.key, entry.value>>, <<ty[2], ty[3]>>)
         [] ty[1] = "fn" -> value[1] \in {"closure", "wrapper", "uncallable"}
         [] OTHER -> FALSE

(***************************************************************************)
(* Numbers, as the runtime keeps them: a Decimal is a whole number and the *)
(* place its point stands at, a Rational two whole numbers in least terms. *)
(***************************************************************************)
Sign(n) == CASE n < 0 -> -1 [] n = 0 -> 0 [] OTHER -> 1
DecimalCompare(a, b) == Sign(a[2] * 10^b[3] - b[2] * 10^a[3])
RationalCompare(a, b) == Sign(a[2] * b[3] - b[2] * a[3])
RECURSIVE TextCompare(_, _)
TextCompare(a, b) ==
    CASE a = <<>> \/ b = <<>> -> Sign(Len(a) - Len(b))
      [] Head(a) # Head(b) -> Sign(Head(a) - Head(b))
      [] OTHER -> TextCompare(Tail(a), Tail(b))

\* The digits of a Decimal with no nought after the last that is not one.
RECURSIVE LeastDigits(_, _)
LeastDigits(unscaled, scale) ==
    IF unscaled = 0 THEN <<0, 0>>
    ELSE IF unscaled % 10 = 0 THEN LeastDigits(unscaled \div 10, scale - 1)
    ELSE <<unscaled, scale>>

\* How two values of a primitive stand: below nought, nought or above it.
PrimCompare(prim, a, b) ==
    CASE prim \in {"Int", "Bool", "Date", "Time", "DateTime"} -> Sign(a[2] - b[2])
      [] prim = "String" -> TextCompare(a[2], b[2])
      [] prim = "Decimal" -> DecimalCompare(a, b)
      [] prim = "Rational" -> RationalCompare(a, b)
      [] prim = "Instant" -> IF a[2] # b[2] THEN Sign(a[2] - b[2]) ELSE Sign(a[3] - b[3])

(***************************************************************************)
(* Equality                                                                *)
(***************************************************************************)
\* The case a value carrying a token is read as: the last is the one tagged by none of the others.
ReadAsCase(value, leaves) == IF value[2] \in ToSet(leaves) THEN value[2] ELSE Last(leaves)

RECURSIVE Equal(_, _, _)
SlotsEqual(a, b, tys) ==
    \A i \in DOMAIN tys : Equal(tys[i], OutOfSlot(a[i], tys[i]), OutOfSlot(b[i], tys[i]))
\* Which keys of a collection equal a key, at the type the site asking takes them as.
Alike(ty, trie, key) == {k \in ToSet(KeysIn(trie)) : SlotsEqual(<<k>>, <<key>>, <<ty>>)}
\* The pairs of equal slots among some, at a type.
EqualPairs(ty, slots) == {pair \in slots \X slots : SlotsEqual(<<pair[1]>>, <<pair[2]>>, <<ty>>)}
EqualKeys(ty, a, b) == EqualPairs(ty, ToSet(KeysIn(a)) \union ToSet(KeysIn(b)))
Equal(ty, a, b) ==
    CASE IsPrim(ty) -> PrimCompare(ty[2], a, b) = 0
      [] ty[1] = "ref" /\ ty[2][1] = "language" -> TRUE
      [] HoldsNoValue(ty) -> TRUE
      [] ty[1] = "set" -> SetsEqual(a[2], b[2], EqualKeys(ty[2], a[2], b[2]))
      [] ty[1] = "map" ->
            MapsEqual(a[2], b[2], EqualKeys(ty[2], a[2], b[2]),
                      EqualPairs(ty[3], ToSet(ValuesIn(a[2])) \union ToSet(ValuesIn(b[2]))))
      [] HasCases(ty) ->
            a[2] = b[2] /\ SlotsEqual(a[3], b[3], BodyOf(ReadAsCase(a, CasesOf(ty))))
      [] ty[1] = "ref" -> SlotsEqual(a[3], b[3], BodyOf(ty[2]))
      [] ty[1] = "option" -> IF Null \in {a, b} THEN a = b ELSE SlotsEqual(<<a[2]>>, <<b[2]>>, <<ty[2]>>)
      [] ty[1] = "tuple" -> SlotsEqual(a[2], b[2], ty[2])
      [] ty[1] = "list" ->
            Len(a[2]) = Len(b[2]) /\ SlotsEqual(a[2], b[2], [i \in DOMAIN a[2] |-> ty[2]])

\* Two values of the type can be compared, and everything a value of it holds: what is being walked is.
RECURSIVE ComparableWithin(_, _)
ComparableWithin(ty, walking) ==
    LET caseCompares(case, within) == case[1] # "declared" \/ ComparableWithin(Ref(case), within)
    IN CASE IsPrim(ty) -> TRUE
         [] ty[1] \in {"fn", "var", "nothing", "never"} -> FALSE
         [] ty[1] = "ref" /\ ty[2][1] # "declared" -> ty[2][1] = "language"
         [] HoldsNoValue(ty) -> TRUE
         [] ty[1] = "union" -> \A case \in ToSet(ty[2]) : caseCompares(case, walking)
         [] ty[1] = "ref" ->
               \/ ty[2][2] \in walking
               \/ LET within == walking \union {ty[2][2]} IN
                  IF IsSum(ty[2][2])
                  THEN \A case \in ToSet(OrderOf(ty[2][2])) : caseCompares(case, within)
                  ELSE \A field \in ToSet(FieldTypes(ty[2][2])) : ComparableWithin(field, within)
         [] OTHER -> \A member \in ToSet(Members(ty)) : ComparableWithin(member, walking)
Comparable(ty) == ComparableWithin(ty, {})

(***************************************************************************)
(* Order.  A newtype is ordered as what it wraps; an enumeration by where  *)
(* each case stands in its declaration.  A basis is none where nothing is  *)
(* placed.                                                                 *)
(***************************************************************************)
\* A value with the newtypes round it taken off.
OpenedValue(ty, value) ==
    FoldLeft(LAMBDA held, inner : OutOfSlot(held[3][1], inner), value, NewtypeSpine(ty))

Place(leaves, value) ==
    LET at == {i \in DOMAIN leaves : leaves[i] = value[2]} IN IF at = {} THEN Len(leaves) ELSE Max(at)

\* How two values stand on the order a basis names: below nought, nought or above it.
Compared(ty, basis, a, b) ==
    LET one == OpenedValue(ty, a)
        other == OpenedValue(ty, b)
    IN IF IsPrim(basis) THEN PrimCompare(basis[2], one, other)
       ELSE Sign(Place(OrderOf(basis[2][2]), one) - Place(OrderOf(basis[2][2]), other))

Stands(op, compared) ==
    CASE op = "Lt" -> compared < 0
      [] op = "Le" -> compared <= 0
      [] op = "Gt" -> compared > 0
      [] op = "Ge" -> compared >= 0
Ordered(op, ty, basis, a, b) == Stands(op, Compared(ty, basis, a, b))

(***************************************************************************)
(* Hashing.  How a value of a type is hashed is its plan: a value hashes   *)
(* as the case it is, whatever sum it is read as.                          *)
(***************************************************************************)
RECURSIVE HashPlan(_)
HashPlan(ty) ==
    CASE IsPrim(ty) -> IF ty[2] \in {"Int", "Bool"} THEN <<"word">> ELSE <<"runtime", ty[2]>>
      [] ty[1] \in {"fn", "var"} -> <<"none">>
      [] HasNoValue(ty) -> <<"unreached">>
      [] ty[1] = "ref" -> IF ty[2][1] = "primitive" THEN <<"none">> ELSE <<"asitscase">>
      [] ty[1] = "union" -> <<"asitscase">>
      [] ty[1] \in {"option", "list", "set", "map", "tuple"} ->
            LET parts == [i \in DOMAIN Members(ty) |-> HashPlan(Members(ty)[i])]
            IN IF \E part \in ToSet(parts) : part[1] = "none" THEN <<"none">>
               ELSE IF ty[1] = "tuple" /\ <<"unreached">> \in ToSet(parts) THEN <<"unreached">>
               ELSE <<ty[1], parts>>

RuntimeHash(prim, value) ==
    CASE prim = "String" -> HashOfParts(value[2])
      [] prim = "Decimal" -> HashOfParts(LeastDigits(value[2], value[3]))
      [] OTHER -> HashOfParts(Tail(value))

RECURSIVE Hashed(_, _)
SlotsHashed(from, slots, tys) ==
    FoldLeft(LAMBDA hash, i : HashCombine(hash, Hashed(tys[i], OutOfSlot(slots[i], tys[i]))),
             from, [i \in DOMAIN tys |-> i])
CaseHashed(case, slots) == SlotsHashed(HashCombine(HashStart, TokenAt[case]), slots, BodyOf(case))
HashedBy(plan, ty, value) ==
    CASE plan = "word" -> HashCombine(HashStart, value[2])
      [] plan = "runtime" -> RuntimeHash(ty[2], value)
      [] plan = "unreached" -> HashStart
      [] plan = "asitscase" -> CaseHashed(ReadAsCase(value, CasesOf(ty)), value[3])
      [] plan = "option" ->
            IF value = Null \/ HashPlan(ty[2])[1] = "unreached" THEN HashStart
            ELSE SlotsHashed(HashPresent, <<value[2]>>, <<ty[2]>>)
      [] plan = "tuple" -> SlotsHashed(HashStart, value[2], ty[2])
      [] plan = "list" ->
            SlotsHashed(HashCombine(HashStart, Len(value[2])), value[2], [i \in DOMAIN value[2] |-> ty[2]])
      [] plan = "set" -> SetHash(value[2])
      [] plan = "map" -> MapHash(value[2], [slot \in ToSet(ValuesIn(value[2])) |-> Hashed(ty[3], OutOfSlot(slot, ty[3]))])

Hashed(ty, value) == HashedBy(HashPlan(ty)[1], ty, value)

\* A slot as the entry a collection of the type keeps it in.
EntryAt(ty, key, value) == Entry(Hashed(ty, OutOfSlot(key, ty)), key, value)
PutIn(ty, trie, key, value, takesValue) == With(trie, EntryAt(ty, key, value), Alike(ty, trie, key), takesValue)
\* Each key with its value put in, in the order they arrive; a set keeps no value.
Gathered(ty, keys, values, takesValue) ==
    FoldLeft(LAMBDA made, i : PutIn(ty, made, keys[i], values[i], takesValue), EmptyTrie, [i \in DOMAIN keys |-> i])
NoValues(slots) == [i \in DOMAIN slots |-> Word(0)]
SetFromList(ty, slots) == Gathered(ty, slots, NoValues(slots), FALSE)
MapFromList(ty, pairs) ==
    Gathered(ty, [i \in DOMAIN pairs |-> pairs[i][2][1]], [i \in DOMAIN pairs |-> pairs[i][2][2]], TRUE)
FindIn(ty, trie, key) == Find(trie, Hashed(ty, OutOfSlot(key, ty)), Alike(ty, trie, key))
RemoveFrom(ty, trie, key) == Without(trie, Hashed(ty, OutOfSlot(key, ty)), Alike(ty, trie, key))
=============================================================================
