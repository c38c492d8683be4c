----------------------------- MODULE Restating -----------------------------
(***************************************************************************)
(* What holding a value of one type as a value of another takes            *)
(* (compiler/src/restating.rs).                                            *)
(***************************************************************************)
EXTENDS Machine

Same == <<"same">>
NoPlan == <<"none">>
\* Mutant of Over: one part that stands as it is says every part does.
OverAny(kind, parts) ==
    IF \E part \in ToSet(parts) : part = NoPlan THEN NoPlan
    ELSE IF \E part \in ToSet(parts) : part = Same THEN Same
    ELSE <<kind, parts>>

\* A plan over what a value is made of, which does nothing where none of its parts does.
Over(kind, parts) ==
    IF \E part \in ToSet(parts) : part = NoPlan THEN NoPlan
    ELSE IF \A part \in ToSet(parts) : part = Same THEN Same
    ELSE <<kind, parts>>

RECURSIVE Restatement(_, _)
Restatement(from, to) ==
    LET zip(left, right) == [i \in DOMAIN left |-> Restatement(left[i], right[i])]
        alike == from[1] = to[1]
    IN CASE from = to \/ (SaysItsCase(from) /\ SaysItsCase(to)) -> Same
         [] HasNoValue(from) -> Same
         [] IsPrim(from) /\ SaysItsCase(to) -> <<"carry", from[2]>>
         [] IsPrim(to) /\ SaysItsCase(from) -> <<"uncarry", to[2]>>
         [] alike /\ from[1] \in {"option", "list", "set"} -> Over(from[1], <<Restatement(from[2], to[2])>>)
         [] alike /\ from[1] = "map" ->
               Over("map", <<Restatement(from[2], to[2]), Restatement(from[3], to[3])>>)
         [] alike /\ from[1] = "tuple" /\ Len(from[2]) = Len(to[2]) -> Over("tuple", zip(from[2], to[2]))
         \* What the position hands a function is a value of what the position takes.
         [] alike /\ from[1] = "fn" /\ Len(from[2]) = Len(to[2]) ->
               Over("fn", Append(zip(to[2], from[2]), Restatement(from[3], to[3])))
         [] OTHER -> NoPlan

\* The code of a plan is written: what it reads and what it hands over each have a width.
RECURSIVE Restates(_, _)
Restates(from, to) ==
    LET plan == Restatement(from, to)
        every(left, right) == \A i \in DOMAIN left : HasMachineType(left[i]) /\ Restates(left[i], right[i])
    IN /\ plan # NoPlan
       /\ plan[1] \in {"option", "list", "set", "map", "tuple"} => every(Members(from), Members(to))
       /\ plan[1] = "fn" =>
             /\ \A ty \in ToSet(Members(from) \o Members(to)) : HasMachineType(ty)
             /\ every(to[2], from[2]) /\ Restates(from[3], to[3])

(***************************************************************************)
(* The value held as the wider type.  A primitive is read back out of a    *)
(* cell only once a test has said the cell is of its case.                 *)
(***************************************************************************)
Wrapper(fn, from, to) == <<"wrapper", fn, from, to>>

RECURSIVE Restated(_, _, _)
RestatedBy(plan, value, from, to) ==
    LET part(slot, ty, wider) == IntoSlot(Restated(OutOfSlot(slot, ty), ty, wider))
        each(slots, ty, wider) == [i \in DOMAIN slots |-> part(slots[i], ty, wider)]
        values(trie) == IF plan[1] = "set" THEN NoValues(KeysIn(trie)) ELSE each(ValuesIn(trie), from[3], to[3])
    IN CASE plan = Same -> value
         [] plan[1] = "carry" -> Carry(Primitive(plan[2]), <<value>>)
         [] plan[1] = "uncarry" ->
               IF value[1] # "cell" \/ Len(value[3]) # 1 THEN Wild ELSE OutOfSlot(value[3][1], to)
         [] value = Wild -> Wild
         [] plan[1] = "option" -> IF value = Null THEN Null ELSE Present(part(value[2], from[2], to[2]))
         [] plan[1] = "list" -> Listed(each(value[2], from[2], to[2]))
         [] plan[1] = "tuple" -> MembersAt([i \in DOMAIN value[2] |-> part(value[2][i], from[2][i], to[2][i])])
         [] plan[1] \in {"set", "map"} ->
               Kept(Gathered(to[2], each(KeysIn(value[2]), from[2], to[2]), values(value[2]), plan[1] = "map"))
         [] plan[1] = "fn" -> Wrapper(value, from, to)
Restated(value, from, to) == RestatedBy(Restatement(from, to), value, from, to)
=============================================================================
