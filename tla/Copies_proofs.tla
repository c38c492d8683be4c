---------------------------- MODULE Copies_proofs ----------------------------
(***************************************************************************)
(* The making of the copies of helpers is complete, makes each copy once   *)
(* and stays within its limits, whatever the bodies call.                  *)
(***************************************************************************)
EXTENDS Copies, FiniteSetTheorems, SequenceTheorems, TLAPS

(***************************************************************************)
(* Rows                                                                    *)
(***************************************************************************)
\* A row with one more in it.
Longer(s, t, e) ==
    /\ IsRow(t) /\ Len(t) = Len(s) + 1
    /\ \A i \in 1..Len(s) : t[i] = s[i]
    /\ t[Len(s) + 1] = e

LEMMA RowIs ==
    ASSUME NEW s, IsRow(s)
    PROVE  Len(s) \in Nat /\ DOMAIN s = 1..Len(s)
  <1>1. PICK of : s \in Seq(of)
    BY DEF IsRow
  <1> QED BY <1>1, LenProperties

LEMMA EmptyRow == IsRow(<<>>) /\ Len(<<>>) = 0
  <1>1. <<>> \in Seq({})
    OBVIOUS
  <1> QED BY <1>1 DEF IsRow

LEMMA AppendLonger ==
    ASSUME NEW s, IsRow(s), NEW e
    PROVE  Longer(s, Append(s, e), e)
  <1>1. PICK of : s \in Seq(of)
    BY DEF IsRow
  <1>2. PICK more : more = of \cup {e}
    OBVIOUS
  <1>3. s \in Seq(more) /\ e \in more
    BY <1>1, <1>2
  <1>4. /\ Append(s, e) \in Seq(more) /\ Len(Append(s, e)) = Len(s) + 1
        /\ \A i \in 1..Len(s) : Append(s, e)[i] = s[i]
        /\ Append(s, e)[Len(s) + 1] = e
    BY <1>3, AppendProperties
  <1> QED BY <1>4 DEF Longer, IsRow

(***************************************************************************)
(* Counts                                                                  *)
(***************************************************************************)
Counts(counts) == \A helper \in DOMAIN counts : counts[helper] \in Nat

LEMMA CountIs ==
    ASSUME NEW counts, Counts(counts), NEW helper
    PROVE  CountOf(counts, helper) \in Nat
  BY DEF Counts, CountOf

LEMMA OneMoreIs ==
    ASSUME NEW counts, Counts(counts), NEW helper, NEW more, more = OneMore(counts, helper)
    PROVE  /\ Counts(more)
           /\ CountOf(more, helper) = CountOf(counts, helper) + 1
           /\ \A other : other # helper => CountOf(more, other) = CountOf(counts, other)
  <1>1. CountOf(counts, helper) \in Nat
    BY CountIs
  <1>2. DOMAIN more = DOMAIN counts \cup {helper}
    BY DEF OneMore
  <1>3. more[helper] = CountOf(counts, helper) + 1
    BY DEF OneMore
  <1>4. \A other \in DOMAIN counts : other # helper => more[other] = counts[other]
    BY DEF OneMore
  <1>5. Counts(more)
    BY <1>1, <1>2, <1>3, <1>4 DEF Counts
  <1> QED BY <1>2, <1>3, <1>4, <1>5 DEF CountOf

(***************************************************************************)
(* The inductive invariant, over the copies made                           *)
(***************************************************************************)
CallsAt(s, roots, at) == IF at = 0 THEN roots ELSE s[at].calls

\* What each copy says of where it came from.
Lines(s) ==
    \A at \in 1..Len(s) :
       /\ s[at].parent \in 0..at - 1
       /\ s[at].line = Line(s, s[at].parent) \cup {at} /\ s[at].line \subseteq 1..at

\* No two copies are of one helper at the same types.
KeysApart(s) ==
    \A one, other \in 1..Len(s) :
       OfHelper(s[one], s[other].module, s[other].reached) /\ s[one].types = s[other].types => one = other

\* The copies of a helper are numbered below the count of them, each otherwise.
Numbered(s, made) ==
    /\ Counts(made)
    /\ \A at \in 1..Len(s) :
         s[at].ordinal \in Nat /\ s[at].ordinal < CountOf(made, <<s[at].module, s[at].reached>>)
    /\ \A one, other \in 1..Len(s) :
         OfHelper(s[one], s[other].module, s[other].reached) /\ s[one].ordinal = s[other].ordinal => one = other

\* Every copy was made for a call of its parent.
Asked(s, roots) ==
    \A at \in 1..Len(s) : \E i \in 1..Len(CallsAt(s, roots, s[at].parent)) :
       IsFor(s[at], CallsAt(s, roots, s[at].parent)[i])

\* Every call resolved so far has its copy.
Has(s, call) == \E at \in 1..Len(s) : IsFor(s[at], call)
Met(s, roots, body, upTo) ==
    \A at \in 0..body : \A i \in 1..Len(CallsAt(s, roots, at)) :
       at < body \/ i <= upTo => Has(s, CallsAt(s, roots, at)[i])

\* The copies of a helper along a chain, and those made from one of its own copies.
AlongIn(s, at, module, reached) == {i \in Line(s, at) : OfHelper(s[i], module, reached)}
Reenters(s, at) == AlongIn(s, s[at].parent, s[at].module, s[at].reached) # {}
ReenteringIn(s, module, reached) ==
    {at \in 1..Len(s) : OfHelper(s[at], module, reached) /\ Reenters(s, at)}

\* What is spent is the count of those, and neither limit is passed.
Spent(s, spent) ==
    /\ Counts(spent)
    /\ \A module, reached :
         /\ Cardinality(ReenteringIn(s, module, reached)) = CountOf(spent, <<module, reached>>)
         /\ CountOf(spent, <<module, reached>>) <= Reentered
Deep(s) == \A at \in 1..Len(s) : Cardinality(AlongIn(s, at, s[at].module, s[at].reached)) <= Depth

\* The call the making was given up at.
GivenUp(s, at, call) ==
    /\ ~Has(s, call)
    /\ \/ Cardinality(AlongIn(s, at, call[1], call[2])) >= Depth
       \/ /\ AlongIn(s, at, call[1], call[2]) # {}
          /\ Cardinality(ReenteringIn(s, call[1], call[2])) >= Reentered

TypeOK ==
    /\ DOMAIN copies = {"instances", "spent", "made", "ended"}
    /\ copies.ended \in {"none", "not lowered", "panicked"}
    /\ IsRow(copies.instances) /\ IsRow(rootCalls)
    /\ \A at \in 1..Len(copies.instances) : IsRow(copies.instances[at].calls)
    /\ reading \in 0..Len(copies.instances)
    /\ resolved \in 0..Len(CallsAt(copies.instances, rootCalls, reading))

Standing(s, roots, spent, made) ==
    Lines(s) /\ KeysApart(s) /\ Numbered(s, made) /\ Asked(s, roots) /\ Spent(s, spent) /\ Deep(s)

IInv ==
    /\ TypeOK
    /\ Standing(copies.instances, rootCalls, copies.spent, copies.made)
    /\ Met(copies.instances, rootCalls, reading, resolved)
    /\ copies.ended = "not lowered" =>
         GivenUp(copies.instances, reading, CallsAt(copies.instances, rootCalls, reading)[resolved + 1])
(***************************************************************************)
(* One more copy                                                           *)
(***************************************************************************)
\* What the copy made for a call is, of those made before it.
CopyFor(s, e, parent, call, made) ==
    /\ IsFor(e, call) /\ e.parent = parent
    /\ e.ordinal = CountOf(made, <<call[1], call[2]>>)
    /\ e.line = Line(s, parent) \cup {Len(s) + 1}

LEMMA LineKept ==
    ASSUME NEW s, NEW t, NEW e, IsRow(s), Longer(s, t, e), NEW at \in 0..Len(s)
    PROVE  Line(t, at) = Line(s, at)
  <1>1. Len(s) \in Nat
    BY RowIs
  <1> QED BY <1>1 DEF Line, Longer

LEMMA LineIn ==
    ASSUME NEW s, IsRow(s), Lines(s), NEW at \in 0..Len(s)
    PROVE  Line(s, at) \subseteq 1..at /\ Line(s, at) \subseteq 1..Len(s)
  <1>1. Len(s) \in Nat
    BY RowIs
  <1>2. CASE at = 0
    BY <1>2 DEF Line
  <1>3. CASE at # 0
    <2>1. at \in 1..Len(s)
      BY <1>1, <1>3
    <2>2. s[at].line \subseteq 1..at
      BY <2>1 DEF Lines
    <2>3. Line(s, at) \subseteq 1..at
      BY <1>3, <2>2 DEF Line
    <2> QED BY <1>1, <2>1, <2>3
  <1> QED BY <1>2, <1>3

LEMMA LinesGrow ==
    ASSUME NEW s, NEW t, NEW e, IsRow(s), Longer(s, t, e), Lines(s),
           NEW parent \in 0..Len(s), NEW call, NEW made, CopyFor(s, e, parent, call, made)
    PROVE  Lines(t)
  <1>1. Len(s) \in Nat /\ Len(t) = Len(s) + 1
    BY RowIs DEF Longer
  <1>2. ASSUME NEW at \in 1..Len(s)
        PROVE  /\ t[at].parent \in 0..at - 1
               /\ t[at].line = Line(t, t[at].parent) \cup {at} /\ t[at].line \subseteq 1..at
    <2>1. t[at] = s[at]
      BY DEF Longer
    <2>2. /\ s[at].parent \in 0..at - 1
          /\ s[at].line = Line(s, s[at].parent) \cup {at} /\ s[at].line \subseteq 1..at
      BY DEF Lines
    <2>3. s[at].parent \in 0..Len(s)
      BY <1>1, <2>2
    <2>4. Line(t, s[at].parent) = Line(s, s[at].parent)
      BY <2>3, LineKept
    <2> QED BY <2>1, <2>2, <2>4
  <1>3. PICK n : n = Len(s) + 1
    OBVIOUS
  <1>4. t[n] = e /\ e.parent = parent /\ e.line = Line(s, parent) \cup {n}
    BY <1>3 DEF Longer, CopyFor
  <1>5. Line(t, parent) = Line(s, parent) /\ Line(s, parent) \subseteq 1..Len(s)
    BY LineKept, LineIn
  <1>6. parent \in 0..n - 1 /\ 1..Len(s) \subseteq 1..n /\ n \in 1..n
    BY <1>1, <1>3
  <1>7. /\ t[n].parent \in 0..n - 1
        /\ t[n].line = Line(t, t[n].parent) \cup {n} /\ t[n].line \subseteq 1..n
    BY <1>4, <1>5, <1>6
  <1>8. \A at \in 1..Len(t) : at \in 1..Len(s) \/ at = n
    BY <1>1, <1>3
  <1> QED BY <1>2, <1>7, <1>8 DEF Lines

LEMMA AlongKept ==
    ASSUME NEW s, NEW t, NEW e, IsRow(s), Longer(s, t, e), Lines(s), NEW at \in 0..Len(s),
           NEW module, NEW reached
    PROVE  AlongIn(t, at, module, reached) = AlongIn(s, at, module, reached)
  <1>1. Line(t, at) = Line(s, at) /\ Line(s, at) \subseteq 1..Len(s)
    BY LineKept, LineIn
  <1>2. \A i \in Line(s, at) : t[i] = s[i]
    BY <1>1 DEF Longer
  <1> QED BY <1>1, <1>2 DEF AlongIn

LEMMA AlongFinite ==
    ASSUME NEW s, IsRow(s), Lines(s), NEW at \in 0..Len(s), NEW module, NEW reached
    PROVE  /\ IsFiniteSet(AlongIn(s, at, module, reached))
           /\ Cardinality(AlongIn(s, at, module, reached)) \in Nat
           /\ Len(s) + 1 \notin AlongIn(s, at, module, reached)
           /\ Cardinality(AlongIn(s, at, module, reached)) > 0 <=> AlongIn(s, at, module, reached) # {}
  <1>1. Len(s) \in Nat
    BY RowIs
  <1>2. AlongIn(s, at, module, reached) \subseteq 1..Len(s)
    BY LineIn DEF AlongIn
  <1>3. IsFiniteSet(1..Len(s))
    BY <1>1, FS_Interval
  <1>4. IsFiniteSet(AlongIn(s, at, module, reached))
    BY <1>2, <1>3, FS_Subset
  <1>5. Cardinality(AlongIn(s, at, module, reached)) \in Nat
    BY <1>4, FS_CardinalityType
  <1>6. Cardinality(AlongIn(s, at, module, reached)) = 0 <=> AlongIn(s, at, module, reached) = {}
    BY <1>4, FS_EmptySet
  <1>7. Len(s) + 1 \notin 1..Len(s)
    BY <1>1
  <1> QED BY <1>2, <1>4, <1>5, <1>6, <1>7

LEMMA DeepGrow ==
    ASSUME NEW s, NEW t, NEW e, IsRow(s), Longer(s, t, e), Lines(s), Deep(s),
           NEW parent \in 0..Len(s), NEW call, NEW made, CopyFor(s, e, parent, call, made),
           Cardinality(AlongIn(s, parent, call[1], call[2])) < Depth
    PROVE  Deep(t)
  <1>1. Len(s) \in Nat /\ Len(t) = Len(s) + 1
    BY RowIs DEF Longer
  <1>2. ASSUME NEW at \in 1..Len(s)
        PROVE  Cardinality(AlongIn(t, at, t[at].module, t[at].reached)) <= Depth
    <2>1. t[at] = s[at] /\ at \in 0..Len(s)
      BY <1>1 DEF Longer
    <2>2. AlongIn(t, at, s[at].module, s[at].reached) = AlongIn(s, at, s[at].module, s[at].reached)
      BY <2>1, AlongKept
    <2> QED BY <2>1, <2>2 DEF Deep
  <1>3. PICK n, before, more : /\ n = Len(s) + 1
                               /\ before = AlongIn(s, parent, call[1], call[2])
                               /\ more = AlongIn(t, n, call[1], call[2])
    OBVIOUS
  <1>4. /\ t[n] = e /\ e.module = call[1] /\ e.reached = call[2] /\ e.line = Line(s, parent) \cup {n}
        /\ n # 0
    BY <1>1, <1>3 DEF Longer, CopyFor, IsFor
  <1>5. Line(t, n) = Line(s, parent) \cup {n}
    BY <1>4 DEF Line
  <1>6. OfHelper(t[n], call[1], call[2])
    BY <1>4 DEF OfHelper
  <1>7. \A i \in Line(s, parent) : t[i] = s[i]
    BY LineIn DEF Longer
  <1>8. more = before \cup {n}
    BY <1>3, <1>5, <1>6, <1>7 DEF AlongIn
  <1>9. IsFiniteSet(before) /\ Cardinality(before) \in Nat /\ n \notin before
    BY <1>3, AlongFinite
  <1>10. Cardinality(more) = Cardinality(before) + 1
    BY <1>8, <1>9, FS_AddElement
  <1>11. Cardinality(more) <= Depth
    BY <1>3, <1>9, <1>10, DepthAssumption
  <1>12. Cardinality(AlongIn(t, n, t[n].module, t[n].reached)) <= Depth
    BY <1>3, <1>4, <1>11
  <1>13. \A at \in 1..Len(t) : at \in 1..Len(s) \/ at = n
    BY <1>1, <1>3
  <1> QED BY <1>2, <1>12, <1>13 DEF Deep
LEMMA KeysGrow ==
    ASSUME NEW s, NEW t, NEW e, IsRow(s), Longer(s, t, e), KeysApart(s),
           NEW parent, NEW call, NEW made, CopyFor(s, e, parent, call, made), ~Has(s, call)
    PROVE  KeysApart(t)
  <1>1. Len(s) \in Nat /\ Len(t) = Len(s) + 1
    BY RowIs DEF Longer
  <1>2. PICK n : n = Len(s) + 1
    OBVIOUS
  <1>3. t[n] = e /\ e.module = call[1] /\ e.reached = call[2] /\ e.types = call[3]
    BY <1>2 DEF Longer, CopyFor, IsFor
  <1>4. \A at \in 1..Len(t) : at = n \/ (at \in 1..Len(s) /\ t[at] = s[at])
    BY <1>1, <1>2 DEF Longer
  <1>5. \A at \in 1..Len(s) : ~(s[at].module = call[1] /\ s[at].reached = call[2] /\ s[at].types = call[3])
    BY DEF Has, IsFor
  <1> QED BY <1>3, <1>4, <1>5, SMTT(60) DEF KeysApart, OfHelper

LEMMA NumberedGrow ==
    ASSUME NEW s, NEW t, NEW e, IsRow(s), Longer(s, t, e), NEW made, Numbered(s, made),
           NEW parent, NEW call, CopyFor(s, e, parent, call, made),
           NEW more, more = OneMore(made, <<call[1], call[2]>>)
    PROVE  Numbered(t, more)
  <1>1. Len(s) \in Nat /\ Len(t) = Len(s) + 1
    BY RowIs DEF Longer
  <1>2. PICK n, helper : n = Len(s) + 1 /\ helper = <<call[1], call[2]>>
    OBVIOUS
  <1>3. Counts(made)
    BY DEF Numbered
  <1>4. /\ Counts(more) /\ CountOf(more, helper) = CountOf(made, helper) + 1
        /\ \A other : other # helper => CountOf(more, other) = CountOf(made, other)
    BY <1>2, <1>3, OneMoreIs
  <1>5. CountOf(made, helper) \in Nat
    BY <1>3, CountIs
  <1>6. /\ t[n] = e /\ e.module = call[1] /\ e.reached = call[2] /\ e.ordinal = CountOf(made, helper)
    BY <1>2 DEF Longer, CopyFor, IsFor
  <1>7. \A at \in 1..Len(t) : at = n \/ (at \in 1..Len(s) /\ t[at] = s[at])
    BY <1>1, <1>2 DEF Longer
  <1>8. t[n].ordinal \in Nat /\ t[n].ordinal < CountOf(more, <<t[n].module, t[n].reached>>)
    BY <1>2, <1>4, <1>5, <1>6
  <1>9. ASSUME NEW at \in 1..Len(s)
        PROVE  s[at].ordinal \in Nat /\ s[at].ordinal < CountOf(more, <<s[at].module, s[at].reached>>)
    <2>1. PICK own : own = <<s[at].module, s[at].reached>>
      OBVIOUS
    <2>2. s[at].ordinal \in Nat /\ s[at].ordinal < CountOf(made, own) /\ CountOf(made, own) \in Nat
      BY <1>3, <2>1, CountIs DEF Numbered
    <2>3. CountOf(more, own) >= CountOf(made, own) /\ CountOf(more, own) \in Nat
      BY <1>4, <1>5, <2>2
    <2> QED BY <2>1, <2>2, <2>3
  <1>10. ASSUME NEW at \in 1..Len(s), OfHelper(s[at], call[1], call[2])
         PROVE  s[at].ordinal # CountOf(made, helper)
    <2>1. <<s[at].module, s[at].reached>> = helper
      BY <1>2, <1>10 DEF OfHelper
    <2>2. s[at].ordinal \in Nat /\ s[at].ordinal < CountOf(made, helper)
      BY <2>1 DEF Numbered
    <2> QED BY <1>5, <2>2
  <1>11. \A one, other \in 1..Len(s) :
           OfHelper(s[one], s[other].module, s[other].reached) /\ s[one].ordinal = s[other].ordinal => one = other
    BY DEF Numbered
  <1>12. \A one, other \in 1..Len(t) :
           OfHelper(t[one], t[other].module, t[other].reached) /\ t[one].ordinal = t[other].ordinal => one = other
    BY <1>6, <1>7, <1>10, <1>11, SMTT(60) DEF OfHelper
  <1>13. \A at \in 1..Len(t) :
           t[at].ordinal \in Nat /\ t[at].ordinal < CountOf(more, <<t[at].module, t[at].reached>>)
    BY <1>7, <1>8, <1>9
  <1> QED BY <1>4, <1>12, <1>13 DEF Numbered

LEMMA CallsKept ==
    ASSUME NEW s, NEW t, NEW e, IsRow(s), Longer(s, t, e), NEW roots, NEW at \in 0..Len(s)
    PROVE  CallsAt(t, roots, at) = CallsAt(s, roots, at)
  <1>1. Len(s) \in Nat
    BY RowIs
  <1> QED BY <1>1 DEF CallsAt, Longer

LEMMA AskedGrow ==
    ASSUME NEW s, NEW t, NEW e, IsRow(s), Longer(s, t, e), NEW roots, Asked(s, roots), Lines(s),
           NEW parent \in 0..Len(s), NEW call, NEW made, CopyFor(s, e, parent, call, made),
           NEW i \in 1..Len(CallsAt(s, roots, parent)), call = CallsAt(s, roots, parent)[i]
    PROVE  Asked(t, roots)
  <1>1. Len(s) \in Nat /\ Len(t) = Len(s) + 1
    BY RowIs DEF Longer
  <1>2. PICK n : n = Len(s) + 1
    OBVIOUS
  <1>3. t[n] = e /\ IsFor(e, call) /\ e.parent = parent
    BY <1>2 DEF Longer, CopyFor
  <1>4. CallsAt(t, roots, parent) = CallsAt(s, roots, parent)
    BY CallsKept
  <1>5. \E j \in 1..Len(CallsAt(t, roots, t[n].parent)) : IsFor(t[n], CallsAt(t, roots, t[n].parent)[j])
    BY <1>3, <1>4
  <1>6. ASSUME NEW at \in 1..Len(s)
        PROVE  \E j \in 1..Len(CallsAt(t, roots, t[at].parent)) : IsFor(t[at], CallsAt(t, roots, t[at].parent)[j])
    <2>1. t[at] = s[at]
      BY DEF Longer
    <2>2. s[at].parent \in 0..at - 1
      BY DEF Lines
    <2>3. s[at].parent \in 0..Len(s)
      BY <1>1, <2>2
    <2>4. CallsAt(t, roots, s[at].parent) = CallsAt(s, roots, s[at].parent)
      BY <2>3, CallsKept
    <2>5. \E j \in 1..Len(CallsAt(s, roots, s[at].parent)) : IsFor(s[at], CallsAt(s, roots, s[at].parent)[j])
      BY DEF Asked
    <2> QED BY <2>1, <2>4, <2>5
  <1>7. \A at \in 1..Len(t) : at = n \/ at \in 1..Len(s)
    BY <1>1, <1>2
  <1> QED BY <1>5, <1>6, <1>7 DEF Asked

LEMMA HasGrow ==
    ASSUME NEW s, NEW t, NEW e, IsRow(s), Longer(s, t, e), NEW call, Has(s, call) \/ IsFor(e, call)
    PROVE  Has(t, call)
  <1>1. Len(s) \in Nat /\ Len(t) = Len(s) + 1
    BY RowIs DEF Longer
  <1>2. CASE Has(s, call)
    <2>1. PICK at \in 1..Len(s) : IsFor(s[at], call)
      BY <1>2 DEF Has
    <2>2. at \in 1..Len(t) /\ t[at] = s[at]
      BY <1>1 DEF Longer
    <2> QED BY <2>1, <2>2 DEF Has
  <1>3. CASE IsFor(e, call)
    <2>1. Len(t) \in 1..Len(t) /\ t[Len(t)] = e
      BY <1>1 DEF Longer
    <2> QED BY <1>3, <2>1 DEF Has
  <1> QED BY <1>2, <1>3

\* The calls a copy more leaves resolved: those that were, and the one it is made for.
LEMMA MetGrow ==
    ASSUME NEW s, NEW t, NEW e, IsRow(s), Longer(s, t, e), NEW roots,
           NEW body \in 0..Len(s), NEW upTo \in Nat, Met(s, roots, body, upTo),
           IsFor(e, CallsAt(s, roots, body)[upTo + 1])
    PROVE  Met(t, roots, body, upTo + 1)
  <1>1. Len(s) \in Nat
    BY RowIs
  <1> SUFFICES ASSUME NEW at \in 0..body, NEW i \in 1..Len(CallsAt(t, roots, at)),
                      at < body \/ i <= upTo + 1
               PROVE  Has(t, CallsAt(t, roots, at)[i])
    BY DEF Met
  <1>2. at \in 0..Len(s)
    BY <1>1
  <1>3. CallsAt(t, roots, at) = CallsAt(s, roots, at)
    BY <1>2, CallsKept
  <1>4. at < body \/ i <= upTo \/ (at = body /\ i = upTo + 1)
    <2>1. PICK many : many = Len(CallsAt(t, roots, at))
      OBVIOUS
    <2>2. i \in 1..many
      BY <2>1
    <2> QED BY <1>1, <2>2
  <1>5. CASE at < body \/ i <= upTo
    <2>1. Has(s, CallsAt(s, roots, at)[i])
      BY <1>3, <1>5 DEF Met
    <2> QED BY <1>3, <2>1, HasGrow
  <1>6. CASE at = body /\ i = upTo + 1
    BY <1>3, <1>6, HasGrow
  <1> QED BY <1>4, <1>5, <1>6

\* The call that has its copy already.
LEMMA MetAlready ==
    ASSUME NEW s, NEW roots, NEW body \in Nat, NEW upTo \in Nat, Met(s, roots, body, upTo),
           Has(s, CallsAt(s, roots, body)[upTo + 1])
    PROVE  Met(s, roots, body, upTo + 1)
  <1> SUFFICES ASSUME NEW at \in 0..body, NEW i \in 1..Len(CallsAt(s, roots, at)),
                      at < body \/ i <= upTo + 1
               PROVE  Has(s, CallsAt(s, roots, at)[i])
    BY DEF Met
  <1>1. at < body \/ i <= upTo \/ (at = body /\ i = upTo + 1)
    <2>1. PICK many : many = Len(CallsAt(s, roots, at))
      OBVIOUS
    <2>2. i \in 1..many
      BY <2>1
    <2> QED BY <2>2
  <1>2. CASE at < body \/ i <= upTo
    BY <1>2 DEF Met
  <1>3. CASE at = body /\ i = upTo + 1
    BY <1>3
  <1> QED BY <1>1, <1>2, <1>3
LEMMA ReentersKept ==
    ASSUME NEW s, NEW t, NEW e, IsRow(s), Longer(s, t, e), Lines(s), NEW at \in 1..Len(s)
    PROVE  t[at] = s[at] /\ (Reenters(t, at) <=> Reenters(s, at))
  <1>1. Len(s) \in Nat
    BY RowIs
  <1>2. t[at] = s[at]
    BY DEF Longer
  <1>3. s[at].parent \in 0..at - 1
    BY DEF Lines
  <1>4. s[at].parent \in 0..Len(s)
    BY <1>1, <1>3
  <1>5. AlongIn(t, s[at].parent, s[at].module, s[at].reached) = AlongIn(s, s[at].parent, s[at].module, s[at].reached)
    BY <1>4, AlongKept
  <1> QED BY <1>2, <1>5 DEF Reenters

LEMMA ReenteringFinite ==
    ASSUME NEW s, IsRow(s), NEW module, NEW reached
    PROVE  /\ IsFiniteSet(ReenteringIn(s, module, reached))
           /\ Len(s) + 1 \notin ReenteringIn(s, module, reached)
  <1>1. Len(s) \in Nat
    BY RowIs
  <1>2. IsFiniteSet(1..Len(s))
    BY <1>1, FS_Interval
  <1>3. ReenteringIn(s, module, reached) \subseteq 1..Len(s)
    BY DEF ReenteringIn
  <1>4. Len(s) + 1 \notin 1..Len(s)
    BY <1>1
  <1> QED BY <1>2, <1>3, <1>4, FS_Subset

\* The copies made from a copy of their own helper, with one more copy.
LEMMA ReenteringGrow ==
    ASSUME NEW s, NEW t, NEW e, IsRow(s), Longer(s, t, e), Lines(s),
           NEW parent \in 0..Len(s), NEW call, NEW made, CopyFor(s, e, parent, call, made),
           NEW module, NEW reached
    PROVE  ReenteringIn(t, module, reached) =
             IF /\ module = call[1] /\ reached = call[2]
                /\ AlongIn(s, parent, call[1], call[2]) # {}
             THEN ReenteringIn(s, module, reached) \cup {Len(s) + 1}
             ELSE ReenteringIn(s, module, reached)
  <1>1. Len(s) \in Nat /\ Len(t) = Len(s) + 1
    BY RowIs DEF Longer
  <1>2. PICK n, were, are : /\ n = Len(s) + 1
                            /\ were = ReenteringIn(s, module, reached)
                            /\ are = ReenteringIn(t, module, reached)
    OBVIOUS
  <1>3. t[n] = e /\ e.module = call[1] /\ e.reached = call[2] /\ e.parent = parent
    BY <1>2 DEF Longer, CopyFor, IsFor
  <1>4. AlongIn(t, parent, call[1], call[2]) = AlongIn(s, parent, call[1], call[2])
    BY AlongKept
  <1>5. Reenters(t, n) <=> AlongIn(s, parent, call[1], call[2]) # {}
    BY <1>3, <1>4 DEF Reenters
  <1>6. \A at : at \in 1..Len(t) <=> at = n \/ at \in 1..Len(s)
    BY <1>1, <1>2
  <1>7. \A at \in 1..Len(s) : t[at] = s[at] /\ (Reenters(t, at) <=> Reenters(s, at))
    BY ReentersKept
  <1>8. n \notin were
    BY <1>2, ReenteringFinite
  <1>9. \A at : at \in are <=> at \in 1..Len(t) /\ OfHelper(t[at], module, reached) /\ Reenters(t, at)
    BY <1>2 DEF ReenteringIn
  <1>10. \A at : at \in were <=> at \in 1..Len(s) /\ OfHelper(s[at], module, reached) /\ Reenters(s, at)
    BY <1>2 DEF ReenteringIn
  <1>11. \A at : at # n => (at \in are <=> at \in were)
    BY <1>6, <1>7, <1>9, <1>10
  <1>12. n \in are <=> module = call[1] /\ reached = call[2] /\ AlongIn(s, parent, call[1], call[2]) # {}
    BY <1>3, <1>5, <1>6, <1>9 DEF OfHelper
  <1>13. are = IF n \in are THEN were \cup {n} ELSE were
    BY <1>8, <1>11
  <1> QED BY <1>2, <1>12, <1>13

LEMMA SpentGrow ==
    ASSUME NEW s, NEW t, NEW e, IsRow(s), Longer(s, t, e), Lines(s), NEW spent, Spent(s, spent),
           NEW parent \in 0..Len(s), NEW call, NEW made, CopyFor(s, e, parent, call, made),
           NEW along, along = AlongIn(s, parent, call[1], call[2]),
           NEW helper, helper = <<call[1], call[2]>>,
           along # {} => CountOf(spent, helper) < Reentered,
           NEW after, after = IF along # {} THEN OneMore(spent, helper) ELSE spent
    PROVE  Spent(t, after)
  <1>1. Counts(spent) /\ CountOf(spent, helper) \in Nat
    BY CountIs DEF Spent
  <1>2. CASE along = {}
    <2>1. after = spent
      BY <1>2
    <2>2. ASSUME NEW module, NEW reached
          PROVE  ReenteringIn(t, module, reached) = ReenteringIn(s, module, reached)
      <3>1. AlongIn(s, parent, call[1], call[2]) = {}
        BY <1>2
      <3> QED BY <3>1, ReenteringGrow
    <2> QED BY <2>1, <2>2 DEF Spent
  <1>3. CASE along # {}
    <2>1. /\ Counts(after) /\ CountOf(after, helper) = CountOf(spent, helper) + 1
          /\ \A other : other # helper => CountOf(after, other) = CountOf(spent, other)
      BY <1>1, <1>3, OneMoreIs
    <2>2. ASSUME NEW module, NEW reached
          PROVE  /\ Cardinality(ReenteringIn(t, module, reached)) = CountOf(after, <<module, reached>>)
                 /\ CountOf(after, <<module, reached>>) <= Reentered
      <3>1. /\ Cardinality(ReenteringIn(s, module, reached)) = CountOf(spent, <<module, reached>>)
            /\ CountOf(spent, <<module, reached>>) <= Reentered
        BY DEF Spent
      <3>2. CASE <<module, reached>> = helper
        <4>1. module = call[1] /\ reached = call[2]
          BY <3>2
        <4>2. ReenteringIn(t, module, reached) = ReenteringIn(s, module, reached) \cup {Len(s) + 1}
          BY <1>3, <4>1, ReenteringGrow
        <4>3. Cardinality(ReenteringIn(t, module, reached)) = Cardinality(ReenteringIn(s, module, reached)) + 1
          BY <4>2, ReenteringFinite, FS_AddElement
        <4>4. CountOf(spent, helper) < Reentered
          BY <1>3
        <4>5. CountOf(spent, helper) + 1 <= Reentered
          BY <1>1, <4>4, DepthAssumption
        <4> QED BY <2>1, <3>1, <3>2, <4>3, <4>5
      <3>3. CASE <<module, reached>> # helper
        <4>1. ~(module = call[1] /\ reached = call[2])
          BY <3>3
        <4>2. ReenteringIn(t, module, reached) = ReenteringIn(s, module, reached)
          BY <4>1, ReenteringGrow
        <4> QED BY <2>1, <3>1, <3>3, <4>2
      <3> QED BY <3>2, <3>3
    <2> QED BY <2>1, <2>2 DEF Spent
  <1> QED BY <1>2, <1>3

\* Everything that is kept of the copies stands with one more.
LEMMA StandingGrows ==
    ASSUME NEW s, NEW t, NEW e, IsRow(s), Longer(s, t, e), NEW roots, NEW spent, NEW made,
           Standing(s, roots, spent, made), NEW parent \in 0..Len(s),
           NEW i \in 1..Len(CallsAt(s, roots, parent)),
           NEW call, call = CallsAt(s, roots, parent)[i], ~Has(s, call), CopyFor(s, e, parent, call, made),
           NEW along, along = AlongIn(s, parent, call[1], call[2]), Cardinality(along) < Depth,
           NEW helper, helper = <<call[1], call[2]>>,
           along # {} => CountOf(spent, helper) < Reentered,
           NEW after, after = IF along # {} THEN OneMore(spent, helper) ELSE spent,
           NEW more, more = OneMore(made, helper)
    PROVE  Standing(t, roots, after, more)
  <1>1. Lines(s) /\ KeysApart(s) /\ Numbered(s, made) /\ Asked(s, roots) /\ Spent(s, spent) /\ Deep(s)
    BY DEF Standing
  <1>2. Lines(t)
    BY <1>1, LinesGrow
  <1>3. KeysApart(t)
    BY <1>1, KeysGrow
  <1>4. Numbered(t, more)
    BY <1>1, NumberedGrow
  <1>5. Asked(t, roots)
    BY <1>1, AskedGrow
  <1>6. Spent(t, after)
    BY <1>1, SpentGrow
  <1>7. Deep(t)
    BY <1>1, DeepGrow
  <1> QED BY <1>2, <1>3, <1>4, <1>5, <1>6, <1>7 DEF Standing
(***************************************************************************)
(* What Copy comes to                                                      *)
(***************************************************************************)
LEMMA HasCopy ==
    ASSUME NEW s, IsRow(s), NEW call
    PROVE  CopyAt(s, call[1], call[2], call[3]) # 0 <=> Has(s, call)
  <1>1. Len(s) \in Nat /\ DOMAIN s = 1..Len(s)
    BY RowIs
  <1>2. PICK at : at = {i \in 1..Len(s) : IsFor(s[i], <<call[1], call[2], call[3]>>)}
    OBVIOUS
  <1>3. CopyAt(s, call[1], call[2], call[3]) = IF at = {} THEN 0 ELSE CHOOSE i \in at : TRUE
    BY <1>1, <1>2 DEF CopyAt
  <1>4. \A i \in 1..Len(s) : i \in at <=> IsFor(s[i], call)
    BY <1>2 DEF IsFor
  <1>5. at \subseteq 1..Len(s)
    BY <1>2
  <1>6. at # {} <=> Has(s, call)
    BY <1>4, <1>5 DEF Has
  <1>7. at # {} => (CHOOSE i \in at : TRUE) \in 1..Len(s)
    BY <1>5
  <1>8. 0 \notin 1..Len(s)
    BY <1>1
  <1> QED BY <1>3, <1>6, <1>7, <1>8

\* The record of the copies with one more in it.
Adds(sofar, next, e, along, helper) ==
    /\ DOMAIN next = {"instances", "spent", "made", "ended"}
    /\ next.instances = Append(sofar.instances, e)
    /\ next.spent = IF along # {} THEN OneMore(sofar.spent, helper) ELSE sofar.spent
    /\ next.made = OneMore(sofar.made, helper)
    /\ next.ended = sofar.ended

\* The same record, but for how the making ended.
Ends(sofar, next, ended) ==
    /\ DOMAIN next = DOMAIN sofar
    /\ next.instances = sofar.instances /\ next.spent = sofar.spent /\ next.made = sofar.made
    /\ next.ended = ended

LEMMA EndsIs ==
    ASSUME NEW sofar, DOMAIN sofar = {"instances", "spent", "made", "ended"}, NEW ended,
           NEW next, next = [sofar EXCEPT !.ended = ended]
    PROVE  Ends(sofar, next, ended)
  BY DEF Ends

\* What becomes of a call that fits: its copy is there, is refused, or is made.
Comes(sofar, next, s, parent, call, calls, along, helper) ==
    \/ Has(s, call) /\ next = sofar
    \/ /\ ~Has(s, call) /\ Ends(sofar, next, "not lowered")
       /\ Cardinality(along) >= Depth \/ (along # {} /\ CountOf(sofar.spent, helper) >= Reentered)
    \/ /\ ~Has(s, call)
       /\ Cardinality(along) < Depth /\ (along # {} => ~(CountOf(sofar.spent, helper) >= Reentered))
       /\ \E e : Adds(sofar, next, e, along, helper) /\ CopyFor(s, e, parent, call, sofar.made) /\ e.calls = calls

LEMMA CopyCases ==
    ASSUME NEW sofar, DOMAIN sofar = {"instances", "spent", "made", "ended"}, NEW s, s = sofar.instances,
           IsRow(s), Lines(s), NEW parent \in 0..Len(s), NEW call, NEW body, NEW calls,
           NEW along, along = AlongIn(s, parent, call[1], call[2]),
           NEW helper, helper = <<call[1], call[2]>>,
           NEW next, next = Copy(sofar, parent, call, body, calls)
    PROVE  Comes(sofar, next, s, parent, call, calls, along, helper)
  <1>1. CopyAt(s, call[1], call[2], call[3]) # 0 <=> Has(s, call)
    BY HasCopy
  <1>2. Along(s, parent, call[1], call[2]) = Cardinality(along)
    BY DEF Along, AlongIn
  <1>3. Cardinality(along) \in Nat /\ (Cardinality(along) > 0 <=> along # {})
    BY AlongFinite
  <1>4. Refused(sofar, parent, call[1], call[2]) <=>
          Cardinality(along) >= Depth \/ (along # {} /\ CountOf(sofar.spent, helper) >= Reentered)
    BY <1>2, <1>3 DEF Refused
  <1>5. CASE Has(s, call)
    BY <1>1, <1>5 DEF Copy, Comes
  <1>6. CASE ~Has(s, call) /\ Refused(sofar, parent, call[1], call[2])
    <2>1. next = [sofar EXCEPT !.ended = "not lowered"]
      BY <1>1, <1>6 DEF Copy
    <2>2. Ends(sofar, next, "not lowered")
      BY <2>1, EndsIs
    <2> QED BY <1>4, <1>6, <2>2 DEF Comes
  <1>7. CASE ~Has(s, call) /\ ~Refused(sofar, parent, call[1], call[2])
    <2>1. PICK e : e = [module |-> call[1], reached |-> call[2], types |-> call[3],
                        ordinal |-> CountOf(sofar.made, helper), parent |-> parent,
                        line |-> Line(s, parent) \cup {Len(s) + 1}, body |-> body, calls |-> calls]
      OBVIOUS
    <2>2. next = [instances |-> Append(s, e),
                  spent |-> IF Along(s, parent, call[1], call[2]) > 0 THEN OneMore(sofar.spent, helper) ELSE sofar.spent,
                  made |-> OneMore(sofar.made, helper), ended |-> sofar.ended]
      BY <1>1, <1>7, <2>1 DEF Copy
    <2>3. Adds(sofar, next, e, along, helper)
      BY <1>2, <1>3, <2>2 DEF Adds
    <2>4. CopyFor(s, e, parent, call, sofar.made) /\ e.calls = calls
      BY <2>1 DEF CopyFor, IsFor
    <2>5. Cardinality(along) < Depth
      BY <1>3, <1>4, <1>7, DepthAssumption
    <2> QED BY <1>4, <1>7, <2>3, <2>4, <2>5 DEF Comes
  <1> QED BY <1>5, <1>6, <1>7
(***************************************************************************)
(* The steps                                                               *)
(***************************************************************************)
LEMMA InitHolds == CopyInit => IInv
  <1> SUFFICES ASSUME CopyInit PROVE IInv
    OBVIOUS
  <1>1. /\ DOMAIN copies = {"instances", "spent", "made", "ended"} /\ copies.instances = <<>>
        /\ copies.spent = [helper \in {} |-> 0] /\ copies.made = [helper \in {} |-> 0]
        /\ copies.ended = "none" /\ reading = 0 /\ resolved = 0 /\ rootCalls = <<>>
    BY DEF CopyInit, Specialising
  <1>2. PICK s, spent, made : s = copies.instances /\ spent = copies.spent /\ made = copies.made
    OBVIOUS
  <1>3. s = <<>> /\ IsRow(s) /\ Len(s) = 0 /\ 1..Len(s) = {}
    BY <1>1, <1>2, EmptyRow
  <1>4. Counts(spent) /\ Counts(made) /\ \A helper : CountOf(spent, helper) = 0
    BY <1>1, <1>2 DEF Counts, CountOf
  <1>5. \A module, reached : ReenteringIn(s, module, reached) = {}
    BY <1>3 DEF ReenteringIn
  <1>6. Cardinality({}) = 0
    BY FS_EmptySet
  <1>7. Spent(s, spent)
    BY <1>4, <1>5, <1>6, DepthAssumption DEF Spent
  <1>8. Lines(s) /\ KeysApart(s) /\ Numbered(s, made) /\ Asked(s, rootCalls) /\ Deep(s)
    BY <1>3, <1>4 DEF Lines, KeysApart, Numbered, Asked, Deep
  <1>9. CallsAt(s, rootCalls, 0) = <<>>
    BY <1>1 DEF CallsAt
  <1>10. Met(s, rootCalls, 0, 0)
    <2>1. \A at \in 0..0 : 1..Len(CallsAt(s, rootCalls, at)) = {}
      BY <1>9, EmptyRow
    <2> QED BY <2>1 DEF Met
  <1>11. TypeOK
    BY <1>1, <1>2, <1>3, <1>9, EmptyRow DEF TypeOK
  <1> QED BY <1>1, <1>2, <1>7, <1>8, <1>10, <1>11 DEF IInv, Standing

\* The roots are read before any copy is made.
LEMMA ReadRootsKeeps ==
    ASSUME IInv, NEW calls, IsRow(calls), ReadRoots(calls)
    PROVE  IInv'
  <1>1. PICK s, spent, made : s = copies.instances /\ spent = copies.spent /\ made = copies.made
    OBVIOUS
  <1>2. /\ s = <<>> /\ copies.ended = "none" /\ reading = 0 /\ resolved = 0
        /\ copies' = copies /\ reading' = 0 /\ resolved' = 0 /\ rootCalls' = calls
    BY <1>1 DEF ReadRoots, Specialising
  <1>3. 1..Len(s) = {}
    BY <1>2, EmptyRow
  <1>4. Standing(s, calls, spent, made)
    BY <1>1, <1>3 DEF IInv, Standing, Asked
  <1>5. Len(calls) \in Nat
    BY RowIs
  <1>6. Met(s, calls, 0, 0)
    <2>1. CallsAt(s, calls, 0) = calls
      BY DEF CallsAt
    <2>2. \A at \in 0..0 : at = 0
      OBVIOUS
    <2>3. \A i \in 1..Len(calls) : ~(0 < 0 \/ i <= 0)
      BY <1>5
    <2> QED BY <2>1, <2>2, <2>3 DEF Met
  <1>7. TypeOK'
    <2>1. CallsAt(s, calls, 0) = calls
      BY DEF CallsAt
    <2>2. 0 \in 0..Len(s) /\ 0 \in 0..Len(calls)
      BY <1>2, <1>5, EmptyRow
    <2> QED BY <1>1, <1>2, <1>3, <2>1, <2>2 DEF IInv, TypeOK
  <1> QED BY <1>1, <1>2, <1>4, <1>6, <1>7 DEF IInv

\* The next body's calls: none of them is resolved yet, and every one of the body before is.
LEMMA ReadNextKeeps ==
    ASSUME IInv, ReadNext
    PROVE  IInv'
  <1>1. PICK s, roots, spent, made : s = copies.instances /\ roots = rootCalls /\ spent = copies.spent /\ made = copies.made
    OBVIOUS
  <1>2. /\ copies.ended = "none" /\ resolved = Len(CallsAt(s, roots, reading)) /\ reading < Len(s)
        /\ copies' = copies /\ rootCalls' = roots /\ reading' = reading + 1 /\ resolved' = 0
    BY <1>1 DEF ReadNext, CallsOf, CallsAt
  <1>3. TypeOK /\ Standing(s, roots, spent, made) /\ Met(s, roots, reading, resolved)
    BY <1>1 DEF IInv
  <1>4. /\ Len(s) \in Nat /\ reading \in 0..Len(s) /\ IsRow(roots)
        /\ \A at \in 1..Len(s) : IsRow(s[at].calls)
    BY <1>1, <1>3, RowIs DEF TypeOK
  <1>5. \A at \in 0..Len(s) : Len(CallsAt(s, roots, at)) \in Nat
    BY <1>4, RowIs DEF CallsAt
  <1>6. reading + 1 \in 0..Len(s)
    BY <1>2, <1>4
  <1>7. Met(s, roots, reading + 1, 0)
    <2> SUFFICES ASSUME NEW at \in 0..reading + 1, NEW i \in 1..Len(CallsAt(s, roots, at)),
                        at < reading + 1 \/ i <= 0
                 PROVE  Has(s, CallsAt(s, roots, at)[i])
      BY DEF Met
    <2>1. PICK many : many = Len(CallsAt(s, roots, at))
      OBVIOUS
    <2>2. at \in 0..Len(s)
      BY <1>4, <1>6
    <2>3. i \in 1..many /\ many \in Nat
      BY <2>1, <2>2, <1>5
    <2>4. at \in 0..reading /\ (at < reading \/ at = reading)
      BY <1>4, <2>3
    <2>5. at = reading => i <= resolved
      BY <1>2, <2>1, <2>3
    <2> QED BY <1>3, <2>4, <2>5 DEF Met
  <1>8. TypeOK'
    <2>1. 0 \in 0..Len(CallsAt(s, roots, reading + 1))
      BY <1>5, <1>6
    <2> QED BY <1>1, <1>2, <1>3, <1>6, <2>1 DEF TypeOK
  <1> QED BY <1>1, <1>2, <1>3, <1>7, <1>8 DEF IInv
\* A call is resolved: to the copy it has, to one more, or not at all.
LEMMA ResolveCallKeeps ==
    ASSUME IInv, NEW body, NEW calls, IsRow(calls), ResolveCall(body, calls)
    PROVE  IInv'
  <1>1. PICK sofar, next, s, roots, at, upTo :
          /\ sofar = copies /\ next = copies' /\ s = copies.instances /\ roots = rootCalls
          /\ at = reading /\ upTo = resolved
    OBVIOUS
  <1>2. PICK call : call = CallsAt(s, roots, at)[upTo + 1]
    OBVIOUS
  <1>3. /\ sofar.ended = "none" /\ upTo < Len(CallsAt(s, roots, at))
        /\ next = IF call = Unfit THEN [sofar EXCEPT !.ended = "panicked"] ELSE Copy(sofar, at, call, body, calls)
        /\ resolved' = (IF next.ended = "none" THEN upTo + 1 ELSE upTo)
        /\ reading' = at /\ rootCalls' = roots
    BY <1>1, <1>2 DEF ResolveCall, CallsOf, CallsAt
  <1>4. TypeOK /\ Standing(s, roots, sofar.spent, sofar.made) /\ Met(s, roots, at, upTo)
    BY <1>1 DEF IInv
  <1>5. /\ DOMAIN sofar = {"instances", "spent", "made", "ended"} /\ s = sofar.instances
        /\ IsRow(s) /\ IsRow(roots) /\ \A i \in 1..Len(s) : IsRow(s[i].calls)
        /\ at \in 0..Len(s) /\ upTo \in 0..Len(CallsAt(s, roots, at))
    BY <1>1, <1>4 DEF TypeOK
  <1>6. Len(s) \in Nat /\ \A i \in 0..Len(s) : IsRow(CallsAt(s, roots, i))
    BY <1>5, RowIs DEF CallsAt
  <1>7. Len(CallsAt(s, roots, at)) \in Nat
    BY <1>5, <1>6, RowIs
  <1>8. upTo \in Nat /\ at \in Nat /\ upTo + 1 \in 1..Len(CallsAt(s, roots, at))
    BY <1>3, <1>5, <1>6, <1>7
  <1>9. Lines(s)
    BY <1>4 DEF Standing
  <1>10. ASSUME NEW ended, ended \in {"not lowered", "panicked"}, Ends(sofar, next, ended),
                ended = "not lowered" => GivenUp(s, at, call)
         PROVE  IInv'
    <2>1. /\ DOMAIN copies' = {"instances", "spent", "made", "ended"} /\ copies'.instances = s
          /\ copies'.spent = sofar.spent /\ copies'.made = sofar.made /\ copies'.ended = ended
      BY <1>1, <1>5, <1>10 DEF Ends
    <2>2. reading' = at /\ resolved' = upTo /\ rootCalls' = roots
      BY <1>1, <1>3, <1>10, <2>1
    <2>3. TypeOK'
      BY <1>5, <1>10, <2>1, <2>2 DEF TypeOK
    <2>4. ended = "not lowered" => GivenUp(s, at, CallsAt(s, roots, at)[upTo + 1])
      BY <1>2, <1>10
    <2> QED BY <1>4, <2>1, <2>2, <2>3, <2>4 DEF IInv
  <1>11. CASE call = Unfit
    <2>1. next = [sofar EXCEPT !.ended = "panicked"]
      BY <1>3, <1>11
    <2>2. Ends(sofar, next, "panicked")
      BY <1>5, <2>1, EndsIs
    <2> QED BY <1>10, <2>2
  <1>12. CASE call # Unfit
    <2>1. next = Copy(sofar, at, call, body, calls)
      BY <1>3, <1>12
    <2>2. PICK along, helper : along = AlongIn(s, at, call[1], call[2]) /\ helper = <<call[1], call[2]>>
      OBVIOUS
    <2>3. Comes(sofar, next, s, at, call, calls, along, helper)
      BY <1>5, <1>9, <2>1, <2>2, CopyCases
    <2>4. CASE Has(s, call) /\ next = sofar
      <3>1. copies' = copies /\ reading' = at /\ resolved' = upTo + 1 /\ rootCalls' = roots
        BY <1>1, <1>3, <2>4
      <3>2. Met(s, roots, at, upTo + 1)
        BY <1>2, <1>4, <1>8, <2>4, MetAlready
      <3>3. upTo + 1 \in 0..Len(CallsAt(s, roots, at))
        BY <1>7, <1>8
      <3>4. TypeOK'
        BY <1>1, <1>4, <1>5, <3>1, <3>3 DEF TypeOK
      <3>5. copies'.ended = "none"
        BY <1>1, <1>3, <3>1
      <3> QED BY <1>1, <1>4, <3>1, <3>2, <3>4, <3>5 DEF IInv
    <2>5. CASE /\ ~Has(s, call) /\ Ends(sofar, next, "not lowered")
               /\ Cardinality(along) >= Depth \/ (along # {} /\ CountOf(sofar.spent, helper) >= Reentered)
      <3>1. Cardinality(ReenteringIn(s, call[1], call[2])) = CountOf(sofar.spent, helper)
        BY <1>4, <2>2 DEF Standing, Spent
      <3>2. GivenUp(s, at, call)
        BY <2>2, <2>5, <3>1 DEF GivenUp
      <3> QED BY <1>10, <2>5, <3>2
    <2>6. CASE /\ ~Has(s, call)
               /\ Cardinality(along) < Depth /\ (along # {} => ~(CountOf(sofar.spent, helper) >= Reentered))
               /\ \E e : Adds(sofar, next, e, along, helper) /\ CopyFor(s, e, at, call, sofar.made) /\ e.calls = calls
      <3>1. PICK e : Adds(sofar, next, e, along, helper) /\ CopyFor(s, e, at, call, sofar.made) /\ e.calls = calls
        BY <2>6
      <3>2. PICK t, after, more : t = next.instances /\ after = next.spent /\ more = next.made
        OBVIOUS
      <3>3. /\ DOMAIN next = {"instances", "spent", "made", "ended"} /\ t = Append(s, e)
            /\ after = (IF along # {} THEN OneMore(sofar.spent, helper) ELSE sofar.spent)
            /\ more = OneMore(sofar.made, helper) /\ next.ended = "none"
        BY <1>3, <1>5, <3>1, <3>2 DEF Adds
      <3>4. Longer(s, t, e)
        BY <1>5, <3>3, AppendLonger
      <3>5. Counts(sofar.spent)
        BY <1>4 DEF Standing, Spent
      <3>6. along # {} => CountOf(sofar.spent, helper) < Reentered
        BY <2>6, <3>5, CountIs, DepthAssumption
      <3>7. Standing(t, roots, after, more)
        <4>1. /\ IsRow(s) /\ Longer(s, t, e) /\ Standing(s, roots, sofar.spent, sofar.made)
              /\ at \in 0..Len(s) /\ upTo + 1 \in 1..Len(CallsAt(s, roots, at))
              /\ call = CallsAt(s, roots, at)[upTo + 1] /\ ~Has(s, call)
              /\ CopyFor(s, e, at, call, sofar.made)
          BY <1>2, <1>4, <1>5, <1>8, <2>6, <3>1, <3>4, Zenon
        <4>2. /\ along = AlongIn(s, at, call[1], call[2]) /\ Cardinality(along) < Depth
              /\ helper = <<call[1], call[2]>> /\ (along # {} => CountOf(sofar.spent, helper) < Reentered)
              /\ after = (IF along # {} THEN OneMore(sofar.spent, helper) ELSE sofar.spent)
              /\ more = OneMore(sofar.made, helper)
          BY <2>2, <2>6, <3>3, <3>6, Zenon
        <4> QED BY <4>1, <4>2, StandingGrows, ZenonT(60)
      <3>8. IsFor(e, CallsAt(s, roots, at)[upTo + 1])
        BY <1>2, <3>1 DEF CopyFor
      <3>9. Met(t, roots, at, upTo + 1)
        BY <1>4, <1>5, <1>8, <3>4, <3>8, MetGrow
      <3>10. CallsAt(t, roots, at) = CallsAt(s, roots, at)
        BY <1>5, <3>4, CallsKept
      <3>11. /\ copies' = next /\ reading' = at /\ resolved' = upTo + 1 /\ rootCalls' = roots
        BY <1>1, <1>3, <3>3
      <3>12. /\ at \in 0..Len(t) /\ upTo + 1 \in 0..Len(CallsAt(t, roots, at))
        BY <1>5, <1>6, <1>7, <1>8, <3>4, <3>10 DEF Longer
      <3>13. IsRow(t) /\ \A i \in 1..Len(t) : IsRow(t[i].calls)
        <4>1. \A i \in 1..Len(t) : i \in 1..Len(s) \/ i = Len(s) + 1
          BY <1>6, <3>4 DEF Longer
        <4> QED BY <1>5, <3>1, <3>4, <4>1 DEF Longer
      <3>14. TypeOK'
        BY <1>5, <3>2, <3>3, <3>11, <3>12, <3>13 DEF TypeOK
      <3> QED BY <3>2, <3>3, <3>7, <3>9, <3>11, <3>14 DEF IInv
    <2> QED BY <2>3, <2>4, <2>5, <2>6 DEF Comes
  <1> QED BY <1>11, <1>12

LEMMA StepKeeps == IInv /\ [CopyNext]_copying => IInv'
  <1> SUFFICES ASSUME IInv, [CopyNext]_copying PROVE IInv'
    OBVIOUS
  <1>1. CASE \E calls : IsRow(calls) /\ ReadRoots(calls)
    BY <1>1, ReadRootsKeeps
  <1>2. CASE \E body, calls : IsRow(calls) /\ ResolveCall(body, calls)
    BY <1>2, ResolveCallKeeps
  <1>3. CASE ReadNext
    BY <1>3, ReadNextKeeps
  <1>4. CASE UNCHANGED copying
    <2>1. copies' = copies /\ reading' = reading /\ resolved' = resolved /\ rootCalls' = rootCalls
      BY <1>4 DEF copying
    <2> QED BY <2>1 DEF IInv, TypeOK
  <1> QED BY <1>1, <1>2, <1>3, <1>4 DEF CopyNext

LEMMA Inductive == Copying => []IInv
  BY InitHolds, StepKeeps, PTL DEF Copying

(***************************************************************************)
(* The theorems                                                            *)
(***************************************************************************)
\* Once nothing is left to resolve, every call of every root and of every copy reaches exactly one
\* copy, of its helper at its types: the loop of Specializations::of leaves none out and makes none
\* twice, so that callee finds what it expects.
THEOREM EveryCallHasItsCopy == Copying => []CopiesClosed
  <1>1. IInv => CopiesClosed
    <2> SUFFICES ASSUME IInv, AllResolved,
                        NEW at \in 0..Len(Instances), NEW i \in 1..Len(CallsOf(at))
                 PROVE  \E one \in 1..Len(Instances) : \A other \in 1..Len(Instances) :
                           IsFor(Instances[other], CallsOf(at)[i]) <=> other = one
      BY DEF CopiesClosed
    <2>1. PICK s, call : s = copies.instances /\ call = CallsOf(at)[i]
      OBVIOUS
    <2>2. /\ reading = Len(s) /\ resolved = Len(CallsAt(s, rootCalls, reading)) /\ Instances = s
          /\ CallsOf(at) = CallsAt(s, rootCalls, at)
      BY <2>1 DEF AllResolved, Instances, CallsOf, CallsAt
    <2>3. Met(s, rootCalls, reading, resolved) /\ KeysApart(s) /\ IsRow(s)
      BY <2>1 DEF IInv, Standing, TypeOK
    <2>4. Len(s) \in Nat
      BY <2>3, RowIs
    <2>5. PICK many : many = Len(CallsOf(at))
      OBVIOUS
    <2>6. i \in 1..many /\ (at = reading => many = resolved)
      BY <2>2, <2>5
    <2>7. at < reading \/ i <= resolved
      BY <2>2, <2>4, <2>6
    <2>8. at \in 0..reading
      BY <2>2
    <2>9. Has(s, call)
      BY <2>1, <2>2, <2>3, <2>7, <2>8 DEF Met
    <2>10. PICK one \in 1..Len(s) : IsFor(s[one], call)
      BY <2>9 DEF Has
    <2>11. \A other \in 1..Len(s) : IsFor(s[other], call) => other = one
      BY <2>3, <2>10 DEF KeysApart, IsFor, OfHelper
    <2> QED BY <2>1, <2>2, <2>10, <2>11
  <1> QED BY <1>1, Inductive, PTL

\* No two copies share a symbol, and each was made for a call of a body read before it: the ordinal
\* Specializations::copy counts by helper tells the copies of one apart, and copies are made for calls
\* alone.
THEOREM CopiesStayApart == Copying => []CopiesApart
  <1>1. IInv => CopiesApart
    <2> SUFFICES ASSUME IInv, NEW at \in 1..Len(Instances)
                 PROVE  /\ \A other \in 1..Len(Instances) :
                             SymbolOf(Instances[other]) = SymbolOf(Instances[at]) => other = at
                        /\ Instances[at].parent \in 0..at - 1
                        /\ \E i \in 1..Len(CallsOf(Instances[at].parent)) :
                             IsFor(Instances[at], CallsOf(Instances[at].parent)[i])
      BY DEF CopiesApart
    <2>1. PICK s : s = copies.instances
      OBVIOUS
    <2>2. /\ Instances = s /\ Lines(s) /\ KeysApart(s) /\ Asked(s, rootCalls)
          /\ Numbered(s, copies.made) /\ at \in 1..Len(s)
      BY <2>1 DEF IInv, Standing, Instances
    <2>3. ASSUME NEW other \in 1..Len(s), SymbolOf(s[other]) = SymbolOf(s[at])
          PROVE  other = at
      <3>1. PICK a, b : a = s[other] /\ b = s[at]
        OBVIOUS
      <3>2. CASE a.types = <<>> /\ b.types = <<>>
        <4>1. SymbolOf(a) = <<a.module, a.reached>> /\ SymbolOf(b) = <<b.module, b.reached>>
          BY <3>2 DEF SymbolOf
        <4>2. <<a.module, a.reached>> = <<b.module, b.reached>>
          BY <2>3, <3>1, <4>1, Zenon
        <4>3. a.module = b.module /\ a.reached = b.reached
          BY <4>2
        <4> QED BY <2>2, <3>1, <3>2, <4>3 DEF KeysApart, OfHelper
      <3>3. CASE a.types # <<>> /\ b.types # <<>>
        <4>1. SymbolOf(a) = <<a.module, a.reached, a.ordinal>> /\ SymbolOf(b) = <<b.module, b.reached, b.ordinal>>
          BY <3>3 DEF SymbolOf
        <4>2. <<a.module, a.reached, a.ordinal>> = <<b.module, b.reached, b.ordinal>>
          BY <2>3, <3>1, <4>1, Zenon
        <4>3. a.module = b.module /\ a.reached = b.reached /\ a.ordinal = b.ordinal
          BY <4>2
        <4> QED BY <2>2, <3>1, <4>3 DEF Numbered, OfHelper
      <3>4. CASE (a.types = <<>>) # (b.types = <<>>)
        <4>1. SymbolOf(a) # SymbolOf(b)
          BY <3>4 DEF SymbolOf
        <4> QED BY <2>3, <3>1, <4>1
      <3> QED BY <3>2, <3>3, <3>4
    <2>4. s[at].parent \in 0..at - 1
      BY <2>2 DEF Lines
    <2>5. CallsOf(s[at].parent) = CallsAt(s, rootCalls, s[at].parent)
      BY <2>1 DEF CallsOf, CallsAt
    <2>6. \E i \in 1..Len(CallsAt(s, rootCalls, s[at].parent)) : IsFor(s[at], CallsAt(s, rootCalls, s[at].parent)[i])
      BY <2>2 DEF Asked
    <2> QED BY <2>2, <2>3, <2>4, <2>5, <2>6
  <1> QED BY <1>1, Inductive, PTL

\* No chain holds more than Depth copies of a helper and no more than Reentered are made from a copy
\* of their own helper, counted over the copies there are and not by what Budget says it spent; and a
\* program is refused only at a call whose copy one of the two forbids.
THEOREM StaysWithinLimits == Copying => []WithinLimits
  <1>1. IInv => WithinLimits
    <2> SUFFICES ASSUME IInv PROVE WithinLimits
      OBVIOUS
    <2>1. PICK s : s = copies.instances
      OBVIOUS
    <2>2. Instances = s /\ Lines(s) /\ Deep(s) /\ Spent(s, copies.spent) /\ IsRow(s)
      BY <2>1 DEF IInv, TypeOK, Standing, Instances
    <2>3. ASSUME NEW at, NEW module, NEW reached
          PROVE  AlongOf(at, module, reached) = AlongIn(s, at, module, reached)
      BY <2>2 DEF AlongOf, AlongIn
    <2>4. ASSUME NEW module, NEW reached
          PROVE  ReenteringOf(module, reached) = ReenteringIn(s, module, reached)
      <3>1. \A at \in 1..Len(s) : OfHelper(s[at], module, reached) =>
              (Reenters(s, at) <=> AlongOf(s[at].parent, module, reached) # {})
        BY <2>3 DEF OfHelper, Reenters
      <3> QED BY <2>2, <3>1 DEF ReenteringOf, ReenteringIn
    <2>5. ASSUME NEW at \in 1..Len(s)
          PROVE  /\ s[at].line = Line(s, s[at].parent) \cup {at}
                 /\ Cardinality(AlongOf(at, s[at].module, s[at].reached)) <= Depth
                 /\ Cardinality(ReenteringOf(s[at].module, s[at].reached)) <= Reentered
      <3>1. Cardinality(AlongOf(at, s[at].module, s[at].reached)) <= Depth
        BY <2>2, <2>3 DEF Deep
      <3>2. Cardinality(ReenteringOf(s[at].module, s[at].reached)) <= Reentered
        BY <2>2, <2>4 DEF Spent
      <3> QED BY <2>2, <3>1, <3>2 DEF Lines
    <2>6. ASSUME copies.ended = "not lowered"
          PROVE  LET call == CallsOf(reading)[resolved + 1]
                     along == AlongOf(reading, call[1], call[2])
                 IN /\ \A at \in 1..Len(s) : ~IsFor(s[at], call)
                    /\ \/ Cardinality(along) >= Depth
                       \/ along # {} /\ Cardinality(ReenteringOf(call[1], call[2])) >= Reentered
      <3>1. PICK call : call = CallsOf(reading)[resolved + 1]
        OBVIOUS
      <3>2. GivenUp(s, reading, call)
        BY <2>1, <2>6, <3>1 DEF IInv, CallsOf, CallsAt
      <3>3. /\ \A at \in 1..Len(s) : ~IsFor(s[at], call)
            /\ \/ Cardinality(AlongOf(reading, call[1], call[2])) >= Depth
               \/ /\ AlongOf(reading, call[1], call[2]) # {}
                  /\ Cardinality(ReenteringOf(call[1], call[2])) >= Reentered
        BY <2>3, <2>4, <3>2 DEF GivenUp, Has
      <3> QED BY <3>1, <3>3
    <2> QED BY <2>2, <2>5, <2>6 DEF WithinLimits
  <1> QED BY <1>1, Inductive, PTL
=============================================================================
