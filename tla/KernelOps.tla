----------------------------- MODULE KernelOps -----------------------------
(***************************************************************************)
(* What each kernel answers that applies no function (lower_kernel of      *)
(* compiler/src/lib.rs, lists.rs and sets.rs, and the runtime's decimal,   *)
(* rational, temporal and string operations).  An operation answers        *)
(* Done(value), or Ends(why) where its value has no place.  The exact      *)
(* arithmetic itself is the library's the runtime calls.                   *)
(***************************************************************************)
EXTENDS Lowering, Calendar

CONSTANTS DecimalMax, ScaleMax,    \* the whole numbers and the scales a Decimal has
          RationalMax,             \* the whole numbers a Rational is made of
          ListHolds, StringHolds   \* how many a list and a string hold
ASSUME PlacesAssumption ==
    /\ {DecimalMax, ScaleMax, RationalMax, ListHolds, StringHolds} \subseteq Nat
    /\ RationalMax > IntMax

Done(value) == <<"done", value>>
Ends(why) == <<"ends", why>>
WrittenOrEnded(written) == IF written = <<>> THEN Ends("RequiredFormHasNoPlace") ELSE Done(written[1])
CarriedCase(case) == Done(Carry(Language(case), <<>>))
CarriedAs(prim, result) == IF result[1] = "ends" THEN result ELSE Done(Carry(Primitive(prim), <<result[2]>>))

(***************************************************************************)
(* Int, held in a word: a sum that left the word has a sign neither of the *)
(* two had, a product is worked out at twice the width.                    *)
(***************************************************************************)
Wrapped(n) == ((n - IntMin) % (IntMax - IntMin + 1)) + IntMin
Unsigned(n) == n % (IntMax - IntMin + 1)
SignsApart(a, b) == (a < 0) # (b < 0)
IntArithmetic(op, a, b) ==
    LET sum == Wrapped(a + b)
        difference == Wrapped(a - b)
        past == CASE op = "Add" -> SignsApart(a, sum) /\ SignsApart(b, sum)
                  [] op = "Sub" -> SignsApart(a, b) /\ SignsApart(a, difference)
                  [] op = "Mul" -> Wrapped(a * b) # a * b
    IN IF past THEN Ends("RequiredFormHasNoPlace")
       ELSE Done(Word(CASE op = "Add" -> sum [] op = "Sub" -> difference [] op = "Mul" -> Wrapped(a * b)))

AbsInt(n) == IF n < 0 THEN -n ELSE n
Quotient(a, b) == IF SignsApart(a, b) THEN -(AbsInt(a) \div AbsInt(b)) ELSE AbsInt(a) \div AbsInt(b)
Remainder(a, b) == a - b * Quotient(a, b)
FloorMod(a, b) ==
    IF b = 0 THEN Ends("DivisionByZero")
    ELSE LET truncated == Remainder(a, b)
         IN Done(Word(IF SignsApart(truncated, b) /\ truncated # 0 THEN truncated + b ELSE truncated))
TruncatingDivision(quotient, a, b) ==
    IF b = 0 THEN CarriedCase("DivisionByZero")
    ELSE IF ~quotient THEN CarriedAs("Int", Done(Word(Remainder(a, b))))
    ELSE IF a = IntMin /\ b = -1 THEN Ends("RequiredFormHasNoPlace")
    ELSE CarriedAs("Int", Done(Word(Quotient(a, b))))

(***************************************************************************)
(* Decimal and Rational                                                    *)
(***************************************************************************)
AsDecimal(unscaled, scale) ==
    WrittenOrEnded(Written(AbsInt(unscaled) <= DecimalMax /\ scale \in 0..ScaleMax, <<"Decimal", unscaled, scale>>))
RECURSIVE Gcd(_, _)
Gcd(a, b) == IF b = 0 THEN a ELSE Gcd(b, a % b)
LeastTerms(n, d) ==
    LET sign == IF d < 0 THEN -1 ELSE 1
        by == Gcd(AbsInt(n), AbsInt(d))
    IN <<"Rational", (sign * n) \div by, AbsInt(d) \div by>>
AsRational(n, d) ==
    LET ratio == LeastTerms(n, d)
    IN WrittenOrEnded(Written(AbsInt(ratio[2]) <= RationalMax /\ ratio[3] <= RationalMax, ratio))

LargerOf(a, b) == IF a > b THEN a ELSE b
DecimalArithmetic(op, a, b) ==
    LET scale == LargerOf(a[3], b[3])
        at(it) == it[2] * 10^(scale - it[3])
    IN CASE op = "Add" -> AsDecimal(at(a) + at(b), scale)
         [] op = "Sub" -> AsDecimal(at(a) - at(b), scale)
         [] op = "Mul" -> AsDecimal(a[2] * b[2], a[3] + b[3])
RationalArithmetic(op, a, b) ==
    CASE op = "Add" -> AsRational(a[2] * b[3] + b[2] * a[3], a[3] * b[3])
      [] op = "Sub" -> AsRational(a[2] * b[3] - b[2] * a[3], a[3] * b[3])
      [] op = "Mul" -> AsRational(a[2] * b[2], a[3] * b[3])

\* An operand read as an exact number.
ExactNumber(prim, value) ==
    CASE prim = "Int" -> LeastTerms(value[2], 1)
      [] prim = "Decimal" -> LeastTerms(value[2], 10^value[3])
      [] prim = "Rational" -> value
ExactQuotient(a, b) ==
    IF b[2] = 0 THEN Ends("DivisionByZero") ELSE AsRational(a[2] * b[3], a[3] * b[2])

ArithmeticOf(prim, op, a, b) ==
    CASE prim = "Int" -> IntArithmetic(op, a[2], b[2])
      [] prim = "Decimal" -> DecimalArithmetic(op, a, b)
      [] prim = "Rational" -> RationalArithmetic(op, a, b)

\* The whole number a fraction rounds to, as the unit a mode was laid out as says.
Rounded(mode, n, d) ==
    LET down == Quotient(n, d)
        left == 2 * AbsInt(n - down * d)
        away == down + (IF n < 0 THEN -1 ELSE 1)
    IN CASE n % d = 0 -> down
         [] mode = "UP" -> away
         [] mode = "DOWN" -> down
         [] mode = "CEILING" -> IF n < 0 THEN down ELSE away
         [] mode = "FLOOR" -> IF n < 0 THEN away ELSE down
         [] mode = "HALF_UP" -> IF left >= d THEN away ELSE down
         [] mode = "HALF_DOWN" -> IF left > d THEN away ELSE down
         [] mode = "HALF_EVEN" -> IF left > d \/ (left = d /\ down % 2 = 1) THEN away ELSE down
ModeOf(value) == value[2][2]
AtScale(scale, mode, ratio) ==
    IF scale \notin 0..ScaleMax THEN Ends("RequiredFormHasNoPlace")
    ELSE AsDecimal(Rounded(ModeOf(mode), ratio[2] * 10^scale, ratio[3]), scale)
AsInt(n) == WrittenOrEnded(Written(n \in Int64s, Word(n)))

NumberKernel(name, given) ==
    LET a == given[1]
        b == given[2]
        prim == IF a[1] = "i64" THEN "Int" ELSE a[1]
        fits == {scale \in 0..ScaleMax : (10^scale) % a[3] = 0}
    IN CASE name \in {"int.add", "decimal.add", "rational.add"} -> ArithmeticOf(prim, "Add", a, b)
         [] name \in {"int.subtract", "decimal.subtract", "rational.subtract"} ->
               ArithmeticOf(prim, "Sub", a, b)
         [] name \in {"int.multiply", "decimal.multiply", "rational.multiply"} ->
               ArithmeticOf(prim, "Mul", a, b)
         [] name = "int.compare" -> Done(Word((IF a[2] > b[2] THEN 1 ELSE 0) - (IF a[2] < b[2] THEN 1 ELSE 0)))
         [] name = "int.floorMod" -> FloorMod(a[2], b[2])
         [] name = "int.truncatingDivide" -> TruncatingDivision(TRUE, a[2], b[2])
         [] name = "int.truncatingRemainder" -> TruncatingDivision(FALSE, a[2], b[2])
         [] name = "decimal.compare" -> Done(Word(DecimalCompare(a, b)))
         [] name = "decimal.fromInt" -> AsDecimal(a[2], 0)
         [] name = "decimal.toInt" -> AsInt(Rounded(ModeOf(a), b[2], 10^b[3]))
         [] name = "decimal.round" -> AtScale(a[2], b, ExactNumber("Decimal", given[3]))
         [] name = "decimal.divide" ->
               IF b[2] = 0 THEN CarriedCase("DivisionByZero")
               ELSE CarriedAs("Decimal", AtScale(given[3][2], given[4],
                                                 LeastTerms(a[2] * 10^b[3], b[2] * 10^a[3])))
         [] name = "rational.fromInt" -> Done(ExactNumber("Int", a))
         [] name = "rational.fromDecimal" -> Done(ExactNumber("Decimal", a))
         [] name = "rational.divide" -> ExactQuotient(a, b)
         [] name = "rational.compare" -> Done(Word(RationalCompare(a, b)))
         [] name = "rational.toInt" -> AsInt(Rounded(ModeOf(a), b[2], b[3]))
         [] name = "rational.toDecimal" -> AtScale(a[2], b, given[3])
         [] name = "rational.toWholeNumber" ->
               IF a[3] # 1 THEN CarriedCase("NotWhole") ELSE CarriedAs("Int", AsInt(a[2]))
         [] name = "rational.toFiniteDecimal" ->
               IF \A k \in 1..a[3] : a[3] % k = 0 /\ Gcd(k, 10) = 1 => k = 1
               THEN CarriedAs("Decimal", IF fits = {} THEN Ends("RequiredFormHasNoPlace")
                                         ELSE AsDecimal((a[2] * 10^Min(fits)) \div a[3], Min(fits)))
               ELSE CarriedCase("NotAFiniteDecimal")

(***************************************************************************)
(* Temporals                                                               *)
(***************************************************************************)
AsTemporal(prim, written) == IF written = <<>> THEN <<>> ELSE << <<prim, written[1]>> >>
CarriedOr(prim, written, case) ==
    IF written = <<>> THEN CarriedCase(case) ELSE CarriedAs(prim, Done(<<prim, written[1]>>))
TemporalKernel(name, given) ==
    LET a == given[1][2]
        b == given[2][2]
        shifted(unit) == WrittenOrEnded(AsTemporal("DateTime", Shifted(b, unit, a)))
        civil == CivilFromDays(a)
    IN CASE name = "date.addDays" -> WrittenOrEnded(AsTemporal("Date", AddDays(a, b)))
         [] name = "date.addMonths" -> WrittenOrEnded(AsTemporal("Date", AddMonths(a, b)))
         [] name = "date.addYears" -> WrittenOrEnded(AsTemporal("Date", AddYears(a, b)))
         [] name = "datetime.addMinutes" -> shifted(60)
         [] name = "datetime.addHours" -> shifted(3600)
         [] name = "datetime.addDays" -> shifted(SecondsPerDay)
         [] name = "date.daysBetween" -> Done(Word(b - a))
         [] name = "date.year" -> Done(Word(civil[1]))
         [] name = "date.month" -> Done(Word(civil[2]))
         [] name = "date.day" -> Done(Word(civil[3]))
         [] name = "date.fromParts" -> CarriedOr("Date", CivilDay(a, b, given[3][2]), "NotADate")
         [] name = "time.fromParts" -> CarriedOr("Time", ClockSecond(a, b, given[3][2]), "NotATime")
         [] name = "time.hour" -> Done(Word(a \div 3600))
         [] name = "time.minute" -> Done(Word((a % 3600) \div 60))
         [] name = "time.second" -> Done(Word(a % 60))
         [] name = "datetime.minutesBetween" -> Done(Word(MinutesBetween(a, b)))
         [] name = "datetime.toDate" -> Done(<<"Date", ToDate(a)>>)
         [] name = "datetime.toTime" -> Done(<<"Time", ToTime(a)>>)
         [] name = "datetime.fromDateAndTime" -> Done(<<"DateTime", FromDateAndTime(a, b)>>)

(***************************************************************************)
(* Text, as the code points it holds                                       *)
(***************************************************************************)
TextOf(points) == <<"text", points>>
AsText(points) == WrittenOrEnded(Written(Len(points) <= StringHolds, TextOf(points)))
Pieces(list) == [i \in DOMAIN list[2] |-> list[2][i][2]]
Between(pieces, separator) ==
    FlattenSeq([i \in DOMAIN pieces |-> IF i = 1 THEN pieces[i] ELSE separator \o pieces[i]])
StringKernel(name, given) ==
    LET s == Last(given)[2]
        first == given[1][2]
    IN CASE name = "string.length" -> Done(Word(Len(s)))
         [] name = "string.append" -> AsText(first \o s)
         [] name = "string.contains" -> Done(Byte(\E i \in 0..Len(s) : IsPrefix(first, SubSeq(s, i + 1, Len(s)))))
         [] name = "string.startsWith" -> Done(Byte(IsPrefix(first, s)))
         [] name = "string.endsWith" -> Done(Byte(IsSuffix(first, s)))
         [] name = "string.reverse" -> AsText(Reverse(s))
         [] name = "string.repeat" ->
               IF first <= 0 THEN Done(TextOf(<<>>))
               ELSE IF Len(s) * first > StringHolds THEN Ends("RequiredFormHasNoPlace")
               ELSE AsText(FlattenSeq([i \in 1..first |-> s]))
         [] name = "string.slice" ->
               IF first >= 0 /\ first <= given[2][2] /\ given[2][2] <= Len(s)
               THEN Done(TextOf(SubSeq(s, first + 1, given[2][2]))) ELSE Ends("InvalidBounds")
         [] name = "string.concat" -> AsText(FlattenSeq(Pieces(given[1])))
         [] name = "string.join" -> AsText(Between(Pieces(given[2]), first))
         [] name = "string.characters" -> Done(Listed([i \in DOMAIN s |-> TextOf(<<s[i]>>)]))
         [] name = "string.codePoints" -> Done(Listed([i \in DOMAIN s |-> Word(s[i])]))

(***************************************************************************)
(* Lists.  An index is below the length read without a sign.               *)
(***************************************************************************)
ListGet(index, list) ==
    IF Unsigned(index) < Len(list) THEN Present(list[Unsigned(index) + 1]) ELSE Null

RangeInclusive(from, to) ==
    LET span == Unsigned(to - from)
    IN IF from <= to /\ span >= ListHolds THEN Ends("RequiredFormHasNoPlace")
       ELSE Done(Listed(IF from > to THEN <<>> ELSE [i \in 1..(span + 1) |-> Word(from + i - 1)]))

\* Numbers one after another, from nought or from one.
Seed(prim, op) ==
    LET n == IF op = "Add" THEN 0 ELSE 1
    IN CASE prim = "Int" -> Word(n) [] prim = "Decimal" -> <<"Decimal", n, 0>> [] prim = "Rational" -> LeastTerms(n, 1)
Total(prim, op, list) ==
    FoldLeft(LAMBDA sofar, it : IF sofar[1] = "ends" THEN sofar ELSE ArithmeticOf(prim, op, sofar[2], it),
             Done(Seed(prim, op)), list)

\* Two runs of a key and what stands beside it, merged: the left run's where the right run's key is
\* not strictly before it.
KeyedBefore(ty, basis, one, other) == Ordered("Lt", ty, basis, OutOfSlot(one[1], ty), OutOfSlot(other[1], ty))
RECURSIVE MergeRuns(_, _, _, _)
MergeRuns(left, right, ty, basis) ==
    IF left = <<>> THEN right
    ELSE IF right = <<>> THEN left
    ELSE IF KeyedBefore(ty, basis, Head(right), Head(left))
    THEN <<Head(right)>> \o MergeRuns(left, Tail(right), ty, basis)
    ELSE <<Head(left)>> \o MergeRuns(Tail(left), right, ty, basis)
\* A pass for every width below the length, merging each pair of runs.
RECURSIVE MergePasses(_, _, _, _)
MergePasses(list, width, ty, basis) ==
    LET count == Len(list)
        upTo(n) == IF n < count THEN n ELSE count
        run(low) == MergeRuns(SubSeq(list, low + 1, upTo(low + width)),
                              SubSeq(list, low + width + 1, upTo(low + 2 * width)), ty, basis)
        pairs == (count + 2 * width - 1) \div (2 * width)
    IN IF width >= count THEN list
       ELSE MergePasses(FlattenSeq([i \in 1..pairs |-> run((i - 1) * 2 * width)]), 2 * width, ty, basis)

\* What a key was handed beside, in the order of the keys.
SortedBeside(ty, basis, keys, list) ==
    LET sorted == MergePasses([i \in DOMAIN list |-> <<keys[i], list[i]>>], 1, ty, basis)
    IN [i \in DOMAIN sorted |-> sorted[i][2]]
Sorted(ty, basis, list) == IF HasNoValue(ty) THEN list ELSE SortedBeside(ty, basis, list, list)
\* The first of those none is beyond.
Extreme(op, ty, basis, list) ==
    IF HasNoValue(ty) \/ list = <<>> THEN Null
    ELSE Present(FoldLeft(LAMBDA best, it :
                            IF Ordered(op, ty, basis, OutOfSlot(it, ty), OutOfSlot(best, ty)) THEN it ELSE best,
                          Head(list), Tail(list)))

JoinedLists(a, b) ==
    IF Len(a) + Len(b) > ListHolds THEN Ends("RequiredFormHasNoPlace") ELSE Done(Listed(a \o b))

ListKernel(node, given) ==
    LET name == KernelName(node)
        list == Last(given)[2]
        element == KernelTakes(node)[1][2]
        subject == node.tys[Len(KernelTakes(node)) + 1]
        basis == Last(node.tys)
    IN CASE name = "list.length" -> Done(Word(Len(list)))
         [] name = "list.get" -> Done(ListGet(given[1][2], list))
         [] name = "list.sort" -> Done(Listed(Sorted(subject, basis, list)))
         [] name = "list.max" -> Done(Extreme("Gt", subject, basis, list))
         [] name = "list.min" -> Done(Extreme("Lt", subject, basis, list))
         [] name = "list.reverse" -> Done(Listed(Reverse(list)))
         [] name = "list.sum" -> Total(element[2], "Add", list)
         [] name = "list.product" -> Total(element[2], "Mul", list)
         [] name = "list.rangeInclusive" -> RangeInclusive(given[1][2], given[2][2])

(***************************************************************************)
(* Sets and maps.  A collection of more than one holds is not made.        *)
(***************************************************************************)
AsCollection(trie) == WrittenOrEnded(Written(HoldsNoMore(trie), Kept(trie)))
SetOrMapKernel(node, given) ==
    LET name == KernelName(node)
        over == IF KeptOver(node) = <<>> THEN Nothing ELSE KeptOver(node)[1]
        key == IntoSlot(given[1])
        kept == Last(given)[2]
        equal == EqualKeys(over, given[1][2], kept)
        put(trie, value, takesValue) == PutIn(over, trie, key, value, takesValue)
        found == FindIn(over, kept, key)
        pairs == [i \in DOMAIN Entries(kept) |-> MembersAt(<<Entries(kept)[i].key, Entries(kept)[i].value>>)]
    IN CASE name \in {"set.empty", "map.empty"} -> Done(Kept(EmptyTrie))
         [] name = "set.singleton" -> Done(Kept(put(EmptyTrie, Word(0), FALSE)))
         [] name = "set.insert" -> AsCollection(put(kept, Word(0), FALSE))
         [] name \in {"set.remove", "map.remove"} -> Done(Kept(RemoveFrom(over, kept, key)))
         [] name \in {"set.contains", "map.containsKey"} -> Done(Byte(found # <<>>))
         [] name = "set.union" -> AsCollection(TrieUnion(given[1][2], kept, equal))
         [] name = "set.intersection" -> Done(Kept(TrieIntersection(given[1][2], kept, equal)))
         [] name = "set.difference" -> Done(Kept(TrieDifference(given[1][2], kept, equal)))
         [] name \in {"set.isEmpty", "map.isEmpty"} -> Done(Byte(kept.size = 0))
         [] name \in {"set.size", "map.size"} -> Done(Word(kept.size))
         [] name \in {"set.toList", "map.keys"} -> Done(Listed(KeysIn(kept)))
         [] name = "set.fromList" -> Done(Kept(SetFromList(over, kept)))
         [] name = "map.get" -> Done(IF found = <<>> THEN Null ELSE Present(found[1].value))
         [] name = "map.values" -> Done(Listed([i \in DOMAIN Entries(kept) |-> Entries(kept)[i].value]))
         [] name = "map.singleton" -> Done(Kept(put(EmptyTrie, IntoSlot(given[2]), TRUE)))
         [] name = "map.insert" -> AsCollection(put(kept, IntoSlot(given[2]), TRUE))
         [] name = "map.toList" -> Done(Listed(pairs))
         [] name = "map.fromList" -> Done(Kept(MapFromList(over, kept)))

\* A kernel handed the values of its arguments.
KernelAnswers(node, given) ==
    LET name == KernelName(node) IN
    CASE name \in DOMAIN SetAndMapKernels -> SetOrMapKernel(node, given)
      [] name \in DOMAIN ListKernels -> ListKernel(node, given)
      [] name \in DOMAIN StringKernels -> StringKernel(name, given)
      [] name \in DOMAIN TemporalKernels -> TemporalKernel(name, given)
      [] OTHER -> NumberKernel(name, given)
=============================================================================
