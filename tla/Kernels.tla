------------------------------ MODULE Kernels ------------------------------
(***************************************************************************)
(* What this backend knows of each kernel it lowers: what it takes and     *)
(* answers, the fact a call of it carries and the reasons it ends for      *)
(* (compiler/src/kernels.rs).  A shape is a type whose variables are the   *)
(* kernel's own.                                                           *)
(***************************************************************************)
EXTENDS Transport, TLC

(***************************************************************************)
(* Reading a type as a shape: a variable is what it first stood for, and   *)
(* stands for nothing else.  Failed is the answer of a type that is not    *)
(* one of the shape.                                                       *)
(***************************************************************************)
Failed == << <<"failed">> >>
Unbound == [at \in {} |-> Nothing]
BindAll(bindOne(_, _, _), shapes, tys, bound) ==
    FoldLeft(LAMBDA sofar, i : IF sofar = Failed THEN Failed ELSE bindOne(shapes[i], tys[i], sofar),
             bound, [i \in DOMAIN shapes |-> i])

RECURSIVE ShapeBinds(_, _, _)
ShapeBinds(shape, ty, bound) ==
    CASE shape[1] = "var" ->
            IF shape[2] \in DOMAIN bound THEN (IF bound[shape[2]] = ty THEN bound ELSE Failed)
            ELSE bound @@ (shape[2] :> ty)
      [] shape[1] \in {"prim", "ref", "union"} -> IF shape = ty THEN bound ELSE Failed
      [] OTHER ->
            IF shape[1] # ty[1] \/ Len(Members(shape)) # Len(Members(ty)) THEN Failed
            ELSE BindAll(ShapeBinds, Members(shape), Members(ty), bound)

\* The type a shape settles as, or Failed where a variable of it stands for nothing yet.
RECURSIVE ShapeSettled(_, _)
ShapeSettled(shape, bound) ==
    LET each(shapes) == [i \in DOMAIN shapes |-> ShapeSettled(shapes[i], bound)] IN
    IF Numbers(shape) \ DOMAIN bound # {} THEN Failed
    ELSE CASE shape[1] = "var" -> bound[shape[2]]
           [] shape[1] \in {"option", "list", "set"} -> <<shape[1], ShapeSettled(shape[2], bound)>>
           [] shape[1] = "map" -> Map(ShapeSettled(shape[2], bound), ShapeSettled(shape[3], bound))
           [] shape[1] = "tuple" -> Tuple(each(shape[2]))
           [] shape[1] = "fn" -> Fn(each(shape[2]), ShapeSettled(shape[3], bound))
           [] OTHER -> shape

(***************************************************************************)
(* The contracts.  A fact is <<>>, <<"matches">> or <<"ordering", shape>>. *)
(***************************************************************************)
Known(takes, answers, aborts) ==
    [takes |-> takes, answers |-> answers, fact |-> <<>>, aborts |-> aborts]
OrderedBy(subject, contract) == [contract EXCEPT !.fact = <<"ordering", subject>>]
FactAccepted(contract, fact) == (IF fact = <<>> THEN <<>> ELSE <<fact[1]>>)
                                = (IF contract.fact = <<>> THEN <<>> ELSE <<contract.fact[1]>>)

RoundingMode == "souther.decimal.RoundingMode"
LOCAL A == Var(0)
LOCAL B == Var(1)
LOCAL I == Prim("Int")
LOCAL S == Prim("String")
LOCAL D == Prim("Decimal")
LOCAL R == Prim("Rational")
LOCAL T == Prim("Bool")
LOCAL Mode == Ref(Declared(RoundingMode))
LOCAL NoPlace == <<"RequiredFormHasNoPlace">>
LOCAL Of(names, contract) == [name \in names |-> contract]

IntOrDivisionByZero == Union(<<Language("DivisionByZero"), Primitive("Int")>>)
DecimalOrDivisionByZero == Union(<<Primitive("Decimal"), Language("DivisionByZero")>>)
IntOrNotANumber == Union(<<Primitive("Int"), Language("NotANumber")>>)
DecimalOrNotANumber == Union(<<Primitive("Decimal"), Language("NotANumber")>>)
IntOrNotWhole == Union(<<Primitive("Int"), Language("NotWhole")>>)
DecimalOrNotAFiniteDecimal == Union(<<Primitive("Decimal"), Language("NotAFiniteDecimal")>>)

IntKernels ==
    Of({"int.add", "int.subtract", "int.multiply"}, Known(<<I, I>>, I, NoPlace))
    @@ Of({"int.compare"}, Known(<<I, I>>, I, <<>>))
    @@ Of({"int.floorMod"}, Known(<<I, I>>, I, <<"DivisionByZero">>))
    @@ Of({"int.truncatingDivide"}, Known(<<I, I>>, IntOrDivisionByZero, NoPlace))
    @@ Of({"int.truncatingRemainder"}, Known(<<I, I>>, IntOrDivisionByZero, <<>>))

ListKernels ==
    Of({"list.length"}, Known(<<List(A)>>, I, <<>>))
    @@ Of({"list.get"}, Known(<<I, List(A)>>, Option(A), <<>>))
    @@ Of({"list.find"}, Known(<<Fn(<<A>>, T), List(A)>>, Option(A), <<>>))
    @@ Of({"list.sortBy"}, OrderedBy(B, Known(<<Fn(<<A>>, B), List(A)>>, List(A), <<>>)))
    @@ Of({"list.sort"}, OrderedBy(A, Known(<<List(A)>>, List(A), <<>>)))
    @@ Of({"list.max", "list.min"}, OrderedBy(A, Known(<<List(A)>>, Option(A), <<>>)))
    @@ Of({"list.reverse"}, Known(<<List(A)>>, List(A), <<>>))
    @@ Of({"list.sum", "list.product"}, Known(<<List(A)>>, A, NoPlace))
    @@ Of({"list.rangeInclusive"}, Known(<<I, I>>, List(I), NoPlace))
    @@ Of({"option.map"}, Known(<<Fn(<<A>>, B), Option(A)>>, Option(B), <<>>))

StringKernels ==
    Of({"string.length"}, Known(<<S>>, I, <<>>))
    @@ Of({"string.toInt"}, Known(<<S>>, IntOrNotANumber, <<>>))
    @@ Of({"string.toDecimal"}, Known(<<S>>, DecimalOrNotANumber, <<>>))
    @@ Of({"string.fromInt"}, Known(<<I>>, S, <<>>))
    @@ Of({"string.fromDecimal"}, Known(<<D>>, S, NoPlace))
    @@ Of({"string.trim"}, Known(<<S>>, S, <<>>))
    @@ Of({"string.lowercase", "string.uppercase", "string.reverse"}, Known(<<S>>, S, NoPlace))
    @@ Of({"string.contains", "string.startsWith", "string.endsWith"}, Known(<<S, S>>, T, <<>>))
    @@ Of({"string.matches"}, [Known(<<S, S>>, T, <<>>) EXCEPT !.fact = <<"matches">>])
    @@ Of({"string.slice"}, Known(<<I, I, S>>, S, <<"InvalidBounds">>))
    @@ Of({"string.append"}, Known(<<S, S>>, S, NoPlace))
    @@ Of({"string.split"}, Known(<<S, S>>, List(S), <<>>))
    @@ Of({"string.join"}, Known(<<S, List(S)>>, S, NoPlace))
    @@ Of({"string.concat"}, Known(<<List(S)>>, S, NoPlace))
    @@ Of({"string.replace"}, Known(<<S, S, S>>, S, NoPlace))
    @@ Of({"string.words", "string.lines", "string.characters"}, Known(<<S>>, List(S), <<>>))
    @@ Of({"string.codePoints"}, Known(<<S>>, List(I), <<>>))
    @@ Of({"string.repeat"}, Known(<<I, S>>, S, NoPlace))
    @@ Of({"string.padLeft", "string.padRight"}, Known(<<I, S, S>>, S, NoPlace))

NumberKernels ==
    Of({"decimal.add", "decimal.subtract", "decimal.multiply"}, Known(<<D, D>>, D, NoPlace))
    @@ Of({"decimal.compare"}, Known(<<D, D>>, I, <<>>))
    @@ Of({"decimal.fromInt"}, Known(<<I>>, D, <<>>))
    @@ Of({"decimal.toInt"}, Known(<<Mode, D>>, I, NoPlace))
    @@ Of({"decimal.round"}, Known(<<I, Mode, D>>, D, NoPlace))
    @@ Of({"decimal.divide"}, Known(<<D, D, I, Mode>>, DecimalOrDivisionByZero, NoPlace))
    @@ Of({"rational.fromInt"}, Known(<<I>>, R, <<>>))
    @@ Of({"rational.fromDecimal"}, Known(<<D>>, R, <<>>))
    @@ Of({"rational.toWholeNumber"}, Known(<<R>>, IntOrNotWhole, NoPlace))
    @@ Of({"rational.toFiniteDecimal"}, Known(<<R>>, DecimalOrNotAFiniteDecimal, NoPlace))
    @@ Of({"rational.toInt"}, Known(<<Mode, R>>, I, NoPlace))
    @@ Of({"rational.toDecimal"}, Known(<<I, Mode, R>>, D, NoPlace))
    @@ Of({"rational.add", "rational.subtract", "rational.multiply"}, Known(<<R, R>>, R, NoPlace))
    @@ Of({"rational.divide"}, Known(<<R, R>>, R, <<"DivisionByZero", "RequiredFormHasNoPlace">>))
    @@ Of({"rational.compare"}, Known(<<R, R>>, I, <<>>))

TemporalKernels ==
    LET date == Prim("Date")
        time == Prim("Time")
        datetime == Prim("DateTime")
    IN Of({"date.addDays", "date.addMonths", "date.addYears"}, Known(<<I, date>>, date, NoPlace))
       @@ Of({"datetime.addMinutes", "datetime.addHours", "datetime.addDays"},
             Known(<<I, datetime>>, datetime, NoPlace))
       @@ Of({"date.daysBetween"}, Known(<<date, date>>, I, <<>>))
       @@ Of({"date.year", "date.month", "date.day"}, Known(<<date>>, I, <<>>))
       @@ Of({"date.fromParts"}, Known(<<I, I, I>>, Union(<<Primitive("Date"), Language("NotADate")>>), <<>>))
       @@ Of({"time.fromParts"}, Known(<<I, I, I>>, Union(<<Language("NotATime"), Primitive("Time")>>), <<>>))
       @@ Of({"time.hour", "time.minute", "time.second"}, Known(<<time>>, I, <<>>))
       @@ Of({"datetime.minutesBetween"}, Known(<<datetime, datetime>>, I, <<>>))
       @@ Of({"datetime.toDate"}, Known(<<datetime>>, date, <<>>))
       @@ Of({"datetime.toTime"}, Known(<<datetime>>, time, <<>>))
       @@ Of({"datetime.fromDateAndTime"}, Known(<<date, time>>, datetime, <<>>))

SetAndMapKernels ==
    Of({"set.empty"}, Known(<<>>, SetOf(A), <<>>))
    @@ Of({"set.singleton"}, Known(<<A>>, SetOf(A), <<>>))
    @@ Of({"set.insert"}, Known(<<A, SetOf(A)>>, SetOf(A), NoPlace))
    @@ Of({"set.remove"}, Known(<<A, SetOf(A)>>, SetOf(A), <<>>))
    @@ Of({"set.contains"}, Known(<<A, SetOf(A)>>, T, <<>>))
    @@ Of({"set.union"}, Known(<<SetOf(A), SetOf(A)>>, SetOf(A), NoPlace))
    @@ Of({"set.intersection", "set.difference"}, Known(<<SetOf(A), SetOf(A)>>, SetOf(A), <<>>))
    @@ Of({"set.isEmpty"}, Known(<<SetOf(A)>>, T, <<>>))
    @@ Of({"set.size"}, Known(<<SetOf(A)>>, I, <<>>))
    @@ Of({"set.toList"}, Known(<<SetOf(A)>>, List(A), <<>>))
    @@ Of({"set.fromList"}, Known(<<List(A)>>, SetOf(A), <<>>))
    @@ Of({"map.empty"}, Known(<<>>, Map(A, B), <<>>))
    @@ Of({"map.get"}, Known(<<A, Map(A, B)>>, Option(B), <<>>))
    @@ Of({"map.containsKey"}, Known(<<A, Map(A, B)>>, T, <<>>))
    @@ Of({"map.keys"}, Known(<<Map(A, B)>>, List(A), <<>>))
    @@ Of({"map.values"}, Known(<<Map(A, B)>>, List(B), <<>>))
    @@ Of({"map.singleton"}, Known(<<A, B>>, Map(A, B), <<>>))
    @@ Of({"map.insert"}, Known(<<A, B, Map(A, B)>>, Map(A, B), NoPlace))
    @@ Of({"map.remove"}, Known(<<A, Map(A, B)>>, Map(A, B), <<>>))
    @@ Of({"map.isEmpty"}, Known(<<Map(A, B)>>, T, <<>>))
    @@ Of({"map.size"}, Known(<<Map(A, B)>>, I, <<>>))
    @@ Of({"map.toList"}, Known(<<Map(A, B)>>, List(Tuple(<<A, B>>)), <<>>))
    @@ Of({"map.fromList"}, Known(<<List(Tuple(<<A, B>>))>>, Map(A, B), <<>>))

KernelContracts == IntKernels @@ ListKernels @@ StringKernels @@ NumberKernels @@ TemporalKernels @@ SetAndMapKernels
LoweredKernels == DOMAIN KernelContracts
=============================================================================
