--------------------------- MODULE RustRun_proofs ---------------------------
(***************************************************************************)
(* What is proved of RustRun, for every set of libraries and payloads and  *)
(* every bound.                                                            *)
(***************************************************************************)
EXTENDS RustRun, SequenceTheorems, FiniteSetTheorems, WellFoundedInduction, TLAPS

-----------------------------------------------------------------------------
(* What is bound to what: a binding a library made stands on that library   *)
(* alone, at any depth.                                                    *)

\* A set of numbers has a least one.
LEMMA LeastNumber ==
    ASSUME NEW S \in SUBSET Nat, S # {}
    PROVE  \E n \in S : \A m \in S : n <= m
  <1>1. \E x \in S : \A y \in S : ~(<<y, x>> \in OpToRel(<, Nat))
    BY NatLessThanWellFounded, WFMin, Zenon
  <1>2. \A x, y \in Nat : <<y, x>> \in OpToRel(<, Nat) <=> y < x
    BY Zenon DEF OpToRel
  <1>3. PICK x \in S : \A y \in S : ~(y < x)
    BY <1>1, <1>2
  <1> QED BY <1>3

BindingOf == [made : Lib \cup {None}, libs : SUBSET Lib, hosts : SUBSET Lib]
OfOne(b) == b \in BindingOf /\ (b.made # None => b.libs \cup b.hosts \subseteq {b.made})

\* What the depths of Bindings come to, and a function that has them up to n.
Depths(f, n) == IF n = 0 THEN {Implemented(l) : l \in Lib} ELSE f[n - 1] \cup BoundTo(f[n - 1])
UpTo(f, n) == f = [k \in 0..n |-> Depths(f, k)]

LEMMA BoundOfOne ==
    ASSUME NEW made, \A b \in made : OfOne(b)
    PROVE  \A b \in BoundTo(made) : OfOne(b)
  <1> SUFFICES ASSUME NEW l \in Lib, NEW requires \in SUBSET made
               PROVE  OfOne(Bound(l, requires))
    BY DEF BoundTo
  <1>1. \A r \in requires : r.made \in Lib \cup {None} /\ r.libs \subseteq Lib /\ r.hosts \subseteq Lib
    BY DEF OfOne, BindingOf
  <1>2. UNION {r.libs : r \in requires} \subseteq Lib /\ UNION {r.hosts : r \in requires} \subseteq Lib
    BY <1>1
  <1>3. Bound(l, requires) \in BindingOf
    BY <1>2 DEF Bound, BindingOf
  <1>4. ASSUME Bound(l, requires).made # None
        PROVE  Bound(l, requires).libs \cup Bound(l, requires).hosts \subseteq {Bound(l, requires).made}
    <2>1. \A r \in requires : r.made = l
      BY <1>4 DEF Bound
    <2>2. \A r \in requires : r.libs \cup r.hosts \subseteq {l}
      BY <2>1, NoneAssumption DEF OfOne
    <2>3. UNION {r.libs : r \in requires} \subseteq {l} /\ UNION {r.hosts : r \in requires} \subseteq {l}
      BY <2>2
    <2>4. Bound(l, requires).made = l
      BY <2>1 DEF Bound
    <2> QED BY <2>3, <2>4 DEF Bound
  <1> QED BY <1>3, <1>4 DEF OfOne

LEMMA DepthsStand == \A n \in Nat : \E g : UpTo(g, n)
  <1> DEFINE bad == {n \in Nat : ~\E g : UpTo(g, n)}
  <1> SUFFICES ASSUME bad # {} PROVE FALSE
    OBVIOUS
  <1>1. PICK n \in bad : \A m \in bad : n <= m
    BY LeastNumber
  <1>2. n # 0
    <2> DEFINE g == [k \in 0..0 |-> Depths(<<>>, k)]
    <2>1. UpTo(g, 0)
      BY DEF UpTo, Depths
    <2> QED BY <2>1
  <1>3. PICK g : UpTo(g, n - 1)
    BY <1>1, <1>2
  <1> DEFINE h == [k \in 0..n |-> IF k = n THEN Depths(g, n) ELSE g[k]]
  <1>4. n \in Nat /\ n - 1 \in Nat
    BY <1>2
  <1>5. \A k \in 0..(n - 1) : h[k] = g[k] /\ g[k] = Depths(g, k)
    BY <1>3, <1>4, SMTT(60) DEF UpTo
  <1>6. ASSUME NEW k \in 0..n PROVE Depths(h, k) = Depths(g, k)
    <2>1. k # 0 => k - 1 \in 0..(n - 1)
      BY <1>4
    <2>2. k # 0 => h[k - 1] = g[k - 1]
      BY <2>1, <1>5
    <2> HIDE DEF h
    <2> QED BY <2>2, Zenon DEF Depths
  <1>7. \A k \in 0..n : h[k] = Depths(h, k)
    BY <1>4, <1>5, <1>6
  <1>8. UpTo(h, n)
    BY <1>7 DEF UpTo
  <1> QED BY <1>8

\* Bound::new checks only what it is handed; what that stands on is the
\* library's too.
LEMMA BindingsOfOne == \A b \in Bindings : OfOne(b)
  <1>1. \E g : UpTo(g, MaxBinding)
    BY DepthsStand, BoundsAssumption
  <1> DEFINE f == CHOOSE g : UpTo(g, MaxBinding)
  <1>2. UpTo(f, MaxBinding)
    BY <1>1
  <1>3. Bindings = f[MaxBinding]
    BY <1>1 DEF Bindings, UpTo, Depths
  <1> HIDE DEF f
  <1> DEFINE bad == {n \in 0..MaxBinding : ~\A b \in f[n] : OfOne(b)}
  <1>4. bad = {}
    <2> SUFFICES ASSUME bad # {} PROVE FALSE
      OBVIOUS
    <2>1. bad \in SUBSET Nat
      BY BoundsAssumption
    <2>2. PICK n \in bad : \A m \in bad : n <= m
      BY <2>1, LeastNumber
    <2>3. n \in 0..MaxBinding /\ f[n] = Depths(f, n)
      BY <1>2 DEF UpTo
    <2>4. CASE n = 0
      <3>1. \A l \in Lib : OfOne(Implemented(l))
        BY DEF OfOne, BindingOf, Implemented
      <3> QED BY <2>3, <2>4, <3>1 DEF Depths
    <2>5. CASE n # 0
      <3>1. n - 1 \in 0..MaxBinding /\ n - 1 < n
        BY <2>3, <2>5, BoundsAssumption
      <3>2. \A b \in f[n - 1] : OfOne(b)
        BY <2>1, <2>2, <3>1
      <3>3. \A b \in BoundTo(f[n - 1]) : OfOne(b)
        BY <3>2, BoundOfOne
      <3> QED BY <2>3, <2>5, <3>2, <3>3 DEF Depths
    <2> QED BY <2>4, <2>5
  <1>5. MaxBinding \in 0..MaxBinding
    BY BoundsAssumption
  <1> QED BY <1>3, <1>4, <1>5
-----------------------------------------------------------------------------
(* Sequences that grow and shrink at their end.                            *)

LEMMA AppendIs ==
    ASSUME NEW S, NEW s \in Seq(S), NEW e \in S
    PROVE  /\ Append(s, e) \in Seq(S)
           /\ Len(s) \in Nat /\ Len(Append(s, e)) = Len(s) + 1
           /\ \A n \in 1..Len(s) : Append(s, e)[n] = s[n]
           /\ Append(s, e)[Len(s) + 1] = e
  OBVIOUS

LEMMA FrontIs ==
    ASSUME NEW S, NEW s \in Seq(S), s # <<>>
    PROVE  /\ Front(s) \in Seq(S)
           /\ Len(s) \in Nat \ {0} /\ Len(Front(s)) = Len(s) - 1
           /\ \A n \in 1..(Len(s) - 1) : Front(s)[n] = s[n]
           /\ s[Len(s)] \in S
  <1>1. Len(s) \in Nat \ {0}
    BY EmptySeq
  <1>2. PICK m \in Nat : m = Len(s) - 1
    BY <1>1
  <1>3. \A n \in 1..m : s[n] \in S
    BY <1>1, <1>2
  <1>4. SubSeq(s, 1, m) \in Seq(S)
    BY <1>3, SubSeqProperties
  <1>5. Len(SubSeq(s, 1, m)) = m /\ \A n \in 1..m : SubSeq(s, 1, m)[n] = s[n]
    <2>1. m \in Nat /\ m < Len(s)
      BY <1>1, <1>2
    <2>2. Len(SubSeq(s, 1, m)) = m
      BY <2>1, <1>3
    <2>3. \A n \in 1..m : SubSeq(s, 1, m)[n] = s[n]
      BY <2>1, <1>3
    <2> QED BY <2>2, <2>3
  <1>6. s[Len(s)] \in S
    BY <1>1
  <1> QED BY <1>1, <1>2, <1>4, <1>5, <1>6 DEF Front

\* The frames of a kind, and which of its kind a frame is.
Of(s, kind) == {i \in 1..Len(s) : s[i].kind = kind}
Nth(s, i) == Cardinality({j \in 1..i : s[j].kind = s[i].kind})

LEMMA Counted ==
    ASSUME NEW s, Len(s) \in Nat
    PROVE  /\ \A kind : IsFiniteSet(Of(s, kind)) /\ Cardinality(Of(s, kind)) \in Nat
           /\ \A i \in 1..Len(s) : Nth(s, i) \in 1..Cardinality(Of(s, s[i].kind))
  <1>1. IsFiniteSet(1..Len(s))
    BY FS_Interval
  <1>2. ASSUME NEW kind PROVE IsFiniteSet(Of(s, kind)) /\ Cardinality(Of(s, kind)) \in Nat
    <2>1. Of(s, kind) \subseteq 1..Len(s)
      BY DEF Of
    <2> QED BY <1>1, <2>1, FS_Subset, FS_CardinalityType
  <1>3. ASSUME NEW i \in 1..Len(s) PROVE Nth(s, i) \in 1..Cardinality(Of(s, s[i].kind))
    <2> DEFINE upTo == {j \in 1..i : s[j].kind = s[i].kind}
    <2>1. upTo \subseteq Of(s, s[i].kind) /\ i \in upTo
      BY DEF Of
    <2>2. IsFiniteSet(upTo) /\ Cardinality(upTo) <= Cardinality(Of(s, s[i].kind))
      BY <1>2, <2>1, FS_Subset
    <2>3. Cardinality(upTo) \in Nat
      BY <2>2, FS_CardinalityType
    <2>4. Cardinality(upTo) # 0
      BY <2>1, <2>2, FS_EmptySet
    <2> QED BY <1>2, <2>2, <2>3, <2>4 DEF Nth
  <1> QED BY <1>2, <1>3

\* A stack t with one frame more than s, and nothing below it that an
\* invariant but CallsHold speaks of changed.
Over(s, t) ==
    /\ Len(s) \in Nat /\ Len(t) = Len(s) + 1
    /\ \A i \in 1..Len(s) :
            /\ t[i].kind = s[i].kind /\ t[i].lib = s[i].lib /\ t[i].keeper = s[i].keeper
            /\ t[i].phase = s[i].phase /\ t[i].runs = s[i].runs /\ t[i].hosts = s[i].hosts

LEMMA OneMore ==
    ASSUME NEW s, NEW t, Over(s, t)
    PROVE  /\ \A i \in 1..Len(s) : Nth(t, i) = Nth(s, i)
           /\ Of(t, t[Len(t)].kind) = Of(s, t[Len(t)].kind) \cup {Len(t)}
           /\ Cardinality(Of(t, t[Len(t)].kind)) = Cardinality(Of(s, t[Len(t)].kind)) + 1
           /\ Nth(t, Len(t)) = Cardinality(Of(t, t[Len(t)].kind))
           /\ \A kind : kind # t[Len(t)].kind => Of(t, kind) = Of(s, kind)
  <1>1. ASSUME NEW i \in 1..Len(s) PROVE Nth(t, i) = Nth(s, i)
    <2>1. \A j \in 1..i : j \in 1..Len(s)
      BY DEF Over
    <2>2. {j \in 1..i : t[j].kind = t[i].kind} = {j \in 1..i : s[j].kind = s[i].kind}
      BY <2>1 DEF Over
    <2> QED BY <2>2 DEF Nth
  <1>2. Of(t, t[Len(t)].kind) = Of(s, t[Len(t)].kind) \cup {Len(t)}
    BY DEF Over, Of
  <1>3. Len(t) \notin Of(s, t[Len(t)].kind)
    BY DEF Over, Of
  <1>4. Cardinality(Of(t, t[Len(t)].kind)) = Cardinality(Of(s, t[Len(t)].kind)) + 1
    <2>1. IsFiniteSet(Of(s, t[Len(t)].kind))
      BY Counted DEF Over
    <2> QED BY <1>2, <1>3, <2>1, FS_AddElement
  <1>5. Nth(t, Len(t)) = Cardinality(Of(t, t[Len(t)].kind))
    BY DEF Nth, Of
  <1>6. \A kind : kind # t[Len(t)].kind => Of(t, kind) = Of(s, kind)
    BY SMTT(30) DEF Over, Of
  <1> QED BY <1>1, <1>2, <1>4, <1>5, <1>6

-----------------------------------------------------------------------------
(* The inductive invariant.                                                *)

FrameOf ==
    [kind : {"run", "scope", "call", "host"}, lib : Lib, keeper : Nat, via : Nat,
     phase : {"in", "closed"}, runs : SUBSET Lib, hosts : SUBSET Lib, raised : Seq(Failed)]
Caught == {Nothing} \cup Failed
CallOf == [runtime : Lib, keeper : Nat, caught : Caught]
Reader == [lib : Lib, scope : Nat, keeper : Nat]

Types ==
    /\ stack \in Seq(FrameOf) /\ OPEN \in Seq(Lib) /\ CALLS \in Seq(CallOf)
    /\ scopes \in [Lib -> Seq(Nat)] /\ rooms \in SUBSET Nat /\ reads \in SUBSET Reader
    /\ unwinding \in Caught /\ unwinding.how \in {"none", "panicked"}

\* What stands in frame i of a stack: a run keeps things itself, and what is
\* lent a run keeps them in one of its library that stands below; only the
\* innermost run is ever half closed; a host was called back by a call; a call
\* runs its library's code alone.
FrameStands(s, i) ==
    /\ s[i].kind \in Runs => s[i].keeper = i
    /\ s[i].keeper \in 1..i /\ s[s[i].keeper].kind \in Runs /\ s[s[i].keeper].lib = s[i].lib
    /\ s[i].phase = "closed" => i = Len(s) /\ s[i].kind \in Runs
    /\ s[i].kind = "host" => i > 1 /\ s[i - 1].kind = "call"
    /\ s[i].kind = "call" => s[i].runs \cup s[i].hosts \subseteq {s[i].lib}

Framed(s) == \A i \in 1..Len(s) : FrameStands(s, i)

\* The scopes of an arena are the runs of its library that are not closed yet.
IsOpen(s, l, i) ==
    i \in 1..Len(s) /\ s[i].kind \in Runs /\ s[i].phase = "in" /\ s[i].lib = l

ScopedAt(s, at, l) ==
    /\ \A n \in 1..Len(at) : IsOpen(s, l, at[n])
    /\ \A i \in 1..Len(s) : IsOpen(s, l, i) => \E n \in 1..Len(at) : at[n] = i
    /\ \A m, n \in 1..Len(at) : m < n => at[m] < at[n]

Scoped(s, sc) == \A l \in Lib : ScopedAt(s, sc[l], l)

\* What an arena holds reads a keeper that stands below the scope it goes with.
ReadIn(s, kept, held) ==
    \A r \in held : r.keeper \in kept /\ r.keeper <= r.scope /\ IsOpen(s, r.lib, r.scope)

\* RegistersFollowTheStack of a stack and its registers.
Registered(s, open, calls) ==
    /\ Len(calls) = Cardinality(Of(s, "call"))
    /\ \A i \in Of(s, "call") : /\ calls[Nth(s, i)].runtime = s[i].lib
                                /\ calls[Nth(s, i)].keeper = s[i].keeper
    /\ Len(open) = Cardinality(Of(s, "run"))
    /\ \A i \in Of(s, "run") : open[Nth(s, i)] = s[i].lib
    /\ IsInjective(open)

\* A call holds the first of what its implementations left.
First(raised) == IF raised = <<>> THEN Nothing ELSE raised[1]
CallsHold(s, calls) == \A i \in Of(s, "call") : calls[Nth(s, i)].caught = First(s[i].raised)

IInv ==
    /\ Types
    /\ Framed(stack)
    /\ Scoped(stack, scopes)
    /\ ReadIn(stack, rooms, reads)
    /\ Registered(stack, OPEN, CALLS)
    /\ CallsHold(stack, CALLS)

-----------------------------------------------------------------------------
(* What a frame more or less does to each part.                            *)

LEMMA PushFramed ==
    ASSUME NEW s, NEW t, Over(s, t), Framed(s),
           \A i \in 1..Len(s) : s[i].phase = "in",
           FrameStands(t, Len(t))
    PROVE  Framed(t)
  <1> SUFFICES ASSUME NEW i \in 1..Len(s) PROVE FrameStands(t, i)
    BY DEF Framed, Over
  <1>1. FrameStands(s, i) /\ s[i].phase = "in" /\ Len(s) \in Nat
    BY DEF Framed, Over
  <1>2. s[i].keeper \in 1..Len(s)
    BY <1>1 DEF FrameStands
  <1>3. s[i].kind = "host" => i - 1 \in 1..Len(s)
    BY <1>1 DEF FrameStands
  <1> QED BY <1>1, <1>2, <1>3, SMTT(60) DEF FrameStands, Over

LEMMA PopFramed ==
    ASSUME NEW s, NEW t, Over(s, t), Framed(t)
    PROVE  Framed(s)
  <1> SUFFICES ASSUME NEW i \in 1..Len(s) PROVE FrameStands(s, i)
    BY DEF Framed
  <1>1. FrameStands(t, i) /\ Len(s) \in Nat /\ i # Len(t)
    BY DEF Framed, Over
  <1>2. t[i].keeper \in 1..Len(s)
    BY <1>1 DEF FrameStands, Over
  <1>3. t[i].kind = "host" => i - 1 \in 1..Len(s)
    BY <1>1 DEF FrameStands
  <1> QED BY <1>1, <1>2, <1>3, SMTT(30) DEF FrameStands, Over

\* Where the frame is no open run, the arenas are as they were.
LEMMA OpenStays ==
    ASSUME NEW s, NEW t, Over(s, t),
           ~(t[Len(t)].kind \in Runs /\ t[Len(t)].phase = "in")
    PROVE  \A l, i : IsOpen(s, l, i) <=> IsOpen(t, l, i)
  BY DEF IsOpen, Over

LEMMA ScopedStays ==
    ASSUME NEW s, NEW t, NEW sc, \A l, i : IsOpen(s, l, i) <=> IsOpen(t, l, i), Scoped(s, sc)
    PROVE  Scoped(t, sc)
  <1> SUFFICES ASSUME NEW l \in Lib PROVE ScopedAt(t, sc[l], l)
    BY DEF Scoped
  <1>1. ScopedAt(s, sc[l], l)
    BY DEF Scoped
  <1>2. \A i : IsOpen(t, l, i) => i \in 1..Len(s)
    BY DEF IsOpen
  <1> QED BY <1>1, <1>2 DEF ScopedAt

LEMMA ReadStays ==
    ASSUME NEW s, NEW t, NEW kept, NEW held,
           \A l, i : IsOpen(s, l, i) <=> IsOpen(t, l, i), ReadIn(s, kept, held)
    PROVE  ReadIn(t, kept, held)
  BY DEF ReadIn

\* The innermost scope is above every open run of its library.
LEMMA Innermost ==
    ASSUME NEW s, NEW sc \in [Lib -> Seq(Nat)], NEW l \in Lib, NEW i, Scoped(s, sc), IsOpen(s, l, i)
    PROVE  sc[l] # <<>> /\ i <= Last(sc[l]) /\ IsOpen(s, l, Last(sc[l])) /\ Last(sc[l]) \in Nat
  <1>1. sc[l] \in Seq(Nat) /\ Len(sc[l]) \in Nat
    OBVIOUS
  <1>2. PICK n \in 1..Len(sc[l]) : sc[l][n] = i
    BY DEF Scoped, ScopedAt, IsOpen
  <1>3. Len(sc[l]) \in 1..Len(sc[l]) /\ sc[l][Len(sc[l])] \in Nat /\ sc[l][n] \in Nat
    BY <1>1, <1>2
  <1>4. n < Len(sc[l]) => sc[l][n] < sc[l][Len(sc[l])]
    BY <1>2, <1>3 DEF Scoped, ScopedAt
  <1>5. IsOpen(s, l, sc[l][Len(sc[l])])
    BY <1>3 DEF Scoped, ScopedAt
  <1>6. sc[l] # <<>>
    BY <1>1, <1>2
  <1>7. i <= sc[l][Len(sc[l])]
    BY <1>1, <1>2, <1>3, <1>4
  <1> QED BY <1>3, <1>5, <1>6, <1>7 DEF Last
\* A run that is entered is the innermost scope of its library's arena.
LEMMA ScopedPush ==
    ASSUME NEW s, NEW t, NEW sc \in [Lib -> Seq(Nat)], NEW sd, NEW l \in Lib,
           Over(s, t), IsOpen(t, l, Len(t)), Scoped(s, sc),
           sd = [sc EXCEPT ![l] = Append(@, Len(s) + 1)]
    PROVE  Scoped(t, sd)
  <1>1. \A m, i : IsOpen(t, m, i) <=> (IsOpen(s, m, i) \/ (m = l /\ i = Len(t)))
    BY SMTT(30) DEF IsOpen, Over
  <1>2. Len(s) \in Nat /\ Len(t) = Len(s) + 1
    BY DEF Over
  <1>3. ASSUME NEW m \in Lib, m # l PROVE ScopedAt(t, sd[m], m)
    <2>1. sd[m] = sc[m] /\ ScopedAt(s, sc[m], m)
      BY <1>3 DEF Scoped
    <2>2. \A i : IsOpen(t, m, i) <=> IsOpen(s, m, i)
      BY <1>1, <1>3
    <2>3. \A i : IsOpen(t, m, i) => i \in 1..Len(s)
      BY <2>2 DEF IsOpen
    <2> QED BY <2>1, <2>2, <2>3 DEF ScopedAt
  <1>4. ScopedAt(t, sd[l], l)
    <2> DEFINE at == sc[l]
               to == sd[l]
    <2>1. at \in Seq(Nat) /\ to = Append(at, Len(t)) /\ ScopedAt(s, at, l)
      BY <1>2 DEF Scoped
    <2>2. /\ Len(at) \in Nat /\ Len(to) = Len(at) + 1
          /\ \A n \in 1..Len(at) : to[n] = at[n]
          /\ to[Len(at) + 1] = Len(t)
      BY <1>2, <2>1, AppendIs
    <2>3. \A n \in 1..Len(at) : IsOpen(s, l, at[n]) /\ at[n] \in 1..Len(s)
      BY <2>1 DEF ScopedAt, IsOpen
    <2> HIDE DEF at, to
    <2>4. \A n \in 1..Len(to) : n \in 1..Len(at) \/ n = Len(at) + 1
      BY <2>2, SMTT(60)
    <2>5. \A n \in 1..Len(to) : IsOpen(t, l, to[n])
      BY <1>1, <2>2, <2>3, <2>4
    <2>6. \A i \in 1..Len(t) : IsOpen(t, l, i) => \E n \in 1..Len(to) : to[n] = i
      <3> SUFFICES ASSUME NEW i \in 1..Len(t), IsOpen(t, l, i) PROVE \E n \in 1..Len(to) : to[n] = i
        OBVIOUS
      <3>1. CASE IsOpen(s, l, i)
        <4>1. PICK n \in 1..Len(at) : at[n] = i
          BY <2>1, <3>1 DEF ScopedAt, IsOpen
        <4> QED BY <4>1, <2>2
      <3>2. CASE i = Len(t)
        BY <2>2, <3>2, SMTT(30)
      <3> QED BY <1>1, <3>1, <3>2
    <2>7. ASSUME NEW m \in 1..Len(to), NEW n \in 1..Len(to), m < n PROVE to[m] < to[n]
      <3>1. m \in 1..Len(at) /\ at[m] \in 1..Len(s) /\ to[m] = at[m]
        BY <2>2, <2>3, <2>7
      <3>2. CASE n \in 1..Len(at)
        BY <2>1, <2>2, <2>7, <3>1, <3>2 DEF ScopedAt
      <3>3. CASE n = Len(at) + 1
        BY <1>2, <2>2, <3>1, <3>3, SMTT(30)
      <3> QED BY <2>4, <3>2, <3>3
    <2>8. ScopedAt(t, to, l)
      BY <2>5, <2>6, <2>7 DEF ScopedAt
    <2> QED BY <2>8 DEF to
  <1> QED BY <1>1, <1>3, <1>4 DEF Scoped

LEMMA OpenGrows ==
    ASSUME NEW s, NEW t, Over(s, t)
    PROVE  \A m, i : IsOpen(s, m, i) => IsOpen(t, m, i)
  BY DEF IsOpen, Over

\* A run that is closed was the innermost scope.
LEMMA ScopedClose ==
    ASSUME NEW s, NEW t, NEW sc \in [Lib -> Seq(Nat)], NEW sd, NEW l \in Lib,
           \A m, i : IsOpen(t, m, i) <=> (IsOpen(s, m, i) /\ i # Len(s)),
           Len(t) = Len(s), IsOpen(s, l, Len(s)), Scoped(s, sc),
           sc[l] # <<>>, Last(sc[l]) = Len(s),
           sd = [sc EXCEPT ![l] = Front(@)]
    PROVE  Scoped(t, sd)
  <1>1. ASSUME NEW m \in Lib, m # l PROVE ScopedAt(t, sd[m], m)
    <2>1. sd[m] = sc[m] /\ ScopedAt(s, sc[m], m)
      BY <1>1 DEF Scoped
    <2>2. \A i : IsOpen(t, m, i) <=> IsOpen(s, m, i)
      BY <1>1, ZenonT(60) DEF IsOpen
    <2> QED BY <2>1, <2>2 DEF ScopedAt
  <1>2. ScopedAt(t, sd[l], l)
    <2> DEFINE at == sc[l]
               to == sd[l]
    <2>1. at \in Seq(Nat) /\ at # <<>> /\ to = Front(at) /\ ScopedAt(s, at, l)
      BY DEF Scoped
    <2>2. /\ Len(at) \in Nat \ {0} /\ Len(to) = Len(at) - 1
          /\ \A n \in 1..(Len(at) - 1) : to[n] = at[n]
      BY <2>1, FrontIs, ZenonT(60)
    <2>3. at[Len(at)] = Len(s)
      BY DEF Last
    <2> HIDE DEF at, to
    <2>4. \A n \in 1..Len(to) : n \in 1..Len(at) /\ n < Len(at) /\ to[n] = at[n]
      BY <2>2
    <2>5. \A n \in 1..Len(at) : at[n] \in Nat
      BY <2>1, SMTT(30)
    <2>6. \A n \in 1..Len(to) : at[n] # Len(s)
      <3>1. Len(at) \in 1..Len(at)
        BY <2>2
      <3>2. \A n \in 1..Len(to) : at[n] < at[Len(at)]
        BY <2>1, <2>4, <3>1 DEF ScopedAt
      <3> QED BY <2>3, <2>4, <2>5, <3>1, <3>2, SMTT(30)
    <2>7. \A n \in 1..Len(to) : IsOpen(t, l, to[n])
      BY <2>1, <2>4, <2>6 DEF ScopedAt
    <2>8. \A i \in 1..Len(t) : IsOpen(t, l, i) => \E n \in 1..Len(to) : to[n] = i
      <3> SUFFICES ASSUME NEW i \in 1..Len(t), IsOpen(t, l, i) PROVE \E n \in 1..Len(to) : to[n] = i
        OBVIOUS
      <3>1. IsOpen(s, l, i) /\ i # Len(s)
        OBVIOUS
      <3>2. PICK n \in 1..Len(at) : at[n] = i
        BY <2>1, <3>1 DEF ScopedAt
      <3>3. n \in 1..Len(to)
        BY <2>2, <2>3, <3>1, <3>2
      <3> QED BY <2>4, <3>2, <3>3
    <2>9. \A m, n \in 1..Len(to) : m < n => to[m] < to[n]
      BY <2>1, <2>4 DEF ScopedAt
    <2>10. ScopedAt(t, to, l)
      BY <2>7, <2>8, <2>9 DEF ScopedAt
    <2> QED BY <2>10 DEF to
  <1> QED BY <1>1, <1>2 DEF Scoped

-----------------------------------------------------------------------------
(* The registers.                                                          *)

\* Registers of the same calls and runs.
LEMMA RegisteredAs ==
    ASSUME NEW s, NEW t, NEW open, NEW calls, NEW held, Len(s) \in Nat, Len(t) = Len(s),
           \A i \in 1..Len(s) : t[i].kind = s[i].kind /\ t[i].lib = s[i].lib /\ t[i].keeper = s[i].keeper,
           Len(held) = Len(calls),
           \A n \in 1..Len(calls) : held[n].runtime = calls[n].runtime /\ held[n].keeper = calls[n].keeper,
           Registered(s, open, calls)
    PROVE  Registered(t, open, held)
  <1>1. \A kind : Of(t, kind) = Of(s, kind) /\ Of(s, kind) \subseteq 1..Len(s)
    BY DEF Of
  <1>2. ASSUME NEW i \in 1..Len(s) PROVE Nth(t, i) = Nth(s, i)
    <2>1. \A j \in 1..i : j \in 1..Len(s)
      OBVIOUS
    <2>2. {j \in 1..i : t[j].kind = t[i].kind} = {j \in 1..i : s[j].kind = s[i].kind}
      BY <2>1
    <2> QED BY <2>2 DEF Nth
  <1>3. \A i \in Of(s, "call") : Nth(s, i) \in 1..Len(calls)
    <2>1. \A i \in Of(s, "call") : i \in 1..Len(s) /\ s[i].kind = "call"
      BY DEF Of
    <2>2. \A i \in 1..Len(s) : Nth(s, i) \in 1..Cardinality(Of(s, s[i].kind))
      BY Counted
    <2>3. Len(calls) = Cardinality(Of(s, "call"))
      BY DEF Registered
    <2> QED BY <2>1, <2>2, <2>3
  <1> QED BY <1>1, <1>2, <1>3, SMTT(60) DEF Registered
\* Which of its kind a frame below the last is.
LEMMA Placed ==
    ASSUME NEW s, NEW t, Over(s, t), NEW kind
    PROVE  /\ \A i \in Of(s, kind) : /\ i \in 1..Len(s) /\ s[i].kind = kind
                                     /\ Nth(t, i) = Nth(s, i) /\ Nth(s, i) \in 1..Cardinality(Of(s, kind))
           /\ Cardinality(Of(s, kind)) \in Nat
           /\ kind = t[Len(t)].kind =>
                /\ Of(t, kind) = Of(s, kind) \cup {Len(t)}
                /\ Cardinality(Of(t, kind)) = Cardinality(Of(s, kind)) + 1
                /\ Nth(t, Len(t)) = Cardinality(Of(s, kind)) + 1
           /\ kind # t[Len(t)].kind => Of(t, kind) = Of(s, kind)
  <1>1. \A i \in Of(s, kind) : i \in 1..Len(s) /\ s[i].kind = kind
    BY DEF Of
  <1>2. Len(s) \in Nat
    BY DEF Over
  <1>3. /\ Cardinality(Of(s, kind)) \in Nat
        /\ \A i \in 1..Len(s) : Nth(s, i) \in 1..Cardinality(Of(s, s[i].kind))
    BY <1>2, Counted
  <1>4. \A i \in 1..Len(s) : Nth(t, i) = Nth(s, i)
    BY OneMore
  <1>5. \A i \in Of(s, kind) : Nth(t, i) = Nth(s, i) /\ Nth(s, i) \in 1..Cardinality(Of(s, kind))
    BY <1>1, <1>3, <1>4
  <1>6. kind # t[Len(t)].kind => Of(t, kind) = Of(s, kind)
    BY OneMore
  <1>7. kind = t[Len(t)].kind =>
                /\ Of(t, kind) = Of(s, kind) \cup {Len(t)}
                /\ Cardinality(Of(t, kind)) = Cardinality(Of(s, kind)) + 1
                /\ Nth(t, Len(t)) = Cardinality(Of(s, kind)) + 1
    BY OneMore
  <1> QED BY <1>1, <1>3, <1>5, <1>6, <1>7

\* What the registers say of the calls, and of the root runs.
CallsSay(s, calls) ==
    /\ Len(calls) = Cardinality(Of(s, "call"))
    /\ \A i \in Of(s, "call") : /\ calls[Nth(s, i)].runtime = s[i].lib
                                /\ calls[Nth(s, i)].keeper = s[i].keeper
OpenSays(s, open) ==
    /\ Len(open) = Cardinality(Of(s, "run"))
    /\ \A i \in Of(s, "run") : open[Nth(s, i)] = s[i].lib
    /\ IsInjective(open)

LEMMA BothSay ==
    \A s, open, calls : Registered(s, open, calls) <=> (CallsSay(s, calls) /\ OpenSays(s, open))
  BY DEF Registered, CallsSay, OpenSays

LEMMA OtherCalls ==
    ASSUME NEW s, NEW t, NEW calls, Over(s, t), t[Len(t)].kind # "call"
    PROVE  CallsSay(s, calls) <=> CallsSay(t, calls)
  <1>1. \A i \in 1..Len(s) : t[i].lib = s[i].lib /\ t[i].keeper = s[i].keeper
    BY DEF Over
  <1>2. Of(t, "call") = Of(s, "call")
        /\ \A i \in Of(s, "call") : i \in 1..Len(s) /\ Nth(t, i) = Nth(s, i)
    BY Placed
  <1> QED BY <1>1, <1>2, SMTT(30) DEF CallsSay

LEMMA OtherOpen ==
    ASSUME NEW s, NEW t, NEW open, Over(s, t), t[Len(t)].kind # "run"
    PROVE  OpenSays(s, open) <=> OpenSays(t, open)
  <1>1. \A i \in 1..Len(s) : t[i].lib = s[i].lib
    BY DEF Over
  <1>2. Of(t, "run") = Of(s, "run")
        /\ \A i \in Of(s, "run") : i \in 1..Len(s) /\ Nth(t, i) = Nth(s, i)
    BY Placed
  <1> QED BY <1>1, <1>2 DEF OpenSays

\* A register with one entry more than before, or one fewer.
Longer(short, long) ==
    Len(short) \in Nat /\ Len(long) = Len(short) + 1 /\ \A n \in 1..Len(short) : long[n] = short[n]

LEMMA CallPushed ==
    ASSUME NEW s, NEW t, NEW calls, NEW held, Over(s, t), t[Len(t)].kind = "call",
           Longer(calls, held), CallsSay(s, calls),
           held[Len(held)].runtime = t[Len(t)].lib, held[Len(held)].keeper = t[Len(t)].keeper
    PROVE  CallsSay(t, held)
  <1>1. \A i \in 1..Len(s) : t[i].lib = s[i].lib /\ t[i].keeper = s[i].keeper
    BY DEF Over
  <1>2. /\ Of(t, "call") = Of(s, "call") \cup {Len(t)}
        /\ Cardinality(Of(t, "call")) = Cardinality(Of(s, "call")) + 1
        /\ Nth(t, Len(t)) = Cardinality(Of(s, "call")) + 1
        /\ \A i \in Of(s, "call") : /\ i \in 1..Len(s)
                                    /\ Nth(t, i) = Nth(s, i) /\ Nth(s, i) \in 1..Cardinality(Of(s, "call"))
    BY Placed
  <1>3. Len(calls) = Cardinality(Of(s, "call")) /\ Len(held) = Cardinality(Of(t, "call"))
    BY <1>2 DEF CallsSay, Longer
  <1>4. ASSUME NEW i \in Of(s, "call")
        PROVE  held[Nth(t, i)].runtime = t[i].lib /\ held[Nth(t, i)].keeper = t[i].keeper
    BY <1>1, <1>2, <1>3, SMTT(60) DEF CallsSay, Longer
  <1>5. held[Nth(t, Len(t))].runtime = t[Len(t)].lib /\ held[Nth(t, Len(t))].keeper = t[Len(t)].keeper
    BY <1>2, <1>3
  <1> QED BY <1>2, <1>3, <1>4, <1>5 DEF CallsSay

LEMMA CallPopped ==
    ASSUME NEW s, NEW t, NEW calls, NEW held, Over(s, t), t[Len(t)].kind = "call",
           Longer(calls, held), CallsSay(t, held)
    PROVE  /\ CallsSay(s, calls)
           /\ held[Len(held)].runtime = t[Len(t)].lib /\ held[Len(held)].keeper = t[Len(t)].keeper
  <1>1. \A i \in 1..Len(s) : t[i].lib = s[i].lib /\ t[i].keeper = s[i].keeper
    BY DEF Over
  <1>2. /\ Of(t, "call") = Of(s, "call") \cup {Len(t)}
        /\ Cardinality(Of(t, "call")) = Cardinality(Of(s, "call")) + 1
        /\ Nth(t, Len(t)) = Cardinality(Of(s, "call")) + 1
        /\ Cardinality(Of(s, "call")) \in Nat
        /\ \A i \in Of(s, "call") : /\ i \in 1..Len(s)
                                    /\ Nth(t, i) = Nth(s, i) /\ Nth(s, i) \in 1..Cardinality(Of(s, "call"))
    BY Placed
  <1>3. Len(calls) = Cardinality(Of(s, "call")) /\ Len(held) = Cardinality(Of(t, "call"))
    BY <1>2 DEF CallsSay, Longer
  <1>4. ASSUME NEW i \in Of(s, "call")
        PROVE  calls[Nth(s, i)].runtime = s[i].lib /\ calls[Nth(s, i)].keeper = s[i].keeper
    BY <1>1, <1>2, <1>3, SMTT(60) DEF CallsSay, Longer
  <1>5. held[Nth(t, Len(t))].runtime = t[Len(t)].lib /\ held[Nth(t, Len(t))].keeper = t[Len(t)].keeper
    BY <1>2 DEF CallsSay
  <1> QED BY <1>2, <1>3, <1>4, <1>5 DEF CallsSay

LEMMA RunPushed ==
    ASSUME NEW s, NEW t, NEW open, NEW opened, Over(s, t), t[Len(t)].kind = "run",
           open \in Seq(Lib), opened \in Seq(Lib), Longer(open, opened), OpenSays(s, open),
           opened[Len(opened)] = t[Len(t)].lib, \A n \in 1..Len(open) : open[n] # t[Len(t)].lib
    PROVE  OpenSays(t, opened)
  <1>1. \A i \in 1..Len(s) : t[i].lib = s[i].lib
    BY DEF Over
  <1>2. /\ Of(t, "run") = Of(s, "run") \cup {Len(t)}
        /\ Cardinality(Of(t, "run")) = Cardinality(Of(s, "run")) + 1
        /\ Nth(t, Len(t)) = Cardinality(Of(s, "run")) + 1
        /\ \A i \in Of(s, "run") : /\ i \in 1..Len(s)
                                   /\ Nth(t, i) = Nth(s, i) /\ Nth(s, i) \in 1..Cardinality(Of(s, "run"))
    BY Placed, SMTT(30)
  <1>3. Len(open) = Cardinality(Of(s, "run")) /\ Len(opened) = Cardinality(Of(t, "run"))
    BY <1>2 DEF OpenSays, Longer
  <1>4. ASSUME NEW i \in Of(s, "run") PROVE opened[Nth(t, i)] = t[i].lib
    BY <1>1, <1>2, <1>3, SMTT(60) DEF OpenSays, Longer
  <1>5. opened[Nth(t, Len(t))] = t[Len(t)].lib
    BY <1>2, <1>3
  <1>6. DOMAIN open = 1..Len(open) /\ DOMAIN opened = 1..Len(opened)
    OBVIOUS
  <1>7. ASSUME NEW m \in 1..Len(opened), NEW n \in 1..Len(opened), opened[m] = opened[n] PROVE m = n
    <2>1. \A k \in 1..Len(opened) : k \in 1..Len(open) \/ k = Len(opened)
      BY DEF Longer
    <2>2. CASE m \in 1..Len(open) /\ n \in 1..Len(open)
      BY <1>6, <1>7, <2>2 DEF OpenSays, Longer, IsInjective
    <2>3. CASE m \in 1..Len(open) /\ n = Len(opened)
      BY <1>7, <2>3 DEF Longer
    <2>4. CASE m = Len(opened) /\ n \in 1..Len(open)
      BY <1>7, <2>4 DEF Longer
    <2> QED BY <2>1, <2>2, <2>3, <2>4
  <1>8. IsInjective(opened)
    BY <1>6, <1>7 DEF IsInjective
  <1> QED BY <1>2, <1>3, <1>4, <1>5, <1>8 DEF OpenSays

\* The run that is left is the last in the register.
LEMMA RunPopped ==
    ASSUME NEW s, NEW t, NEW open, NEW opened, Over(s, t), t[Len(t)].kind = "run",
           open \in Seq(Lib), opened \in Seq(Lib), Longer(open, opened), OpenSays(t, opened)
    PROVE  OpenSays(s, open)
  <1>1. \A i \in 1..Len(s) : t[i].lib = s[i].lib
    BY DEF Over
  <1>2. /\ Of(t, "run") = Of(s, "run") \cup {Len(t)}
        /\ Cardinality(Of(t, "run")) = Cardinality(Of(s, "run")) + 1
        /\ Cardinality(Of(s, "run")) \in Nat
        /\ \A i \in Of(s, "run") : /\ i \in 1..Len(s)
                                   /\ Nth(t, i) = Nth(s, i) /\ Nth(s, i) \in 1..Cardinality(Of(s, "run"))
    BY Placed, SMTT(30)
  <1>3. Len(open) = Cardinality(Of(s, "run")) /\ Len(opened) = Cardinality(Of(t, "run"))
    BY <1>2 DEF OpenSays, Longer
  <1>4. ASSUME NEW i \in Of(s, "run") PROVE open[Nth(s, i)] = s[i].lib
    BY <1>1, <1>2, <1>3 DEF OpenSays, Longer
  <1>5. DOMAIN open = 1..Len(open) /\ DOMAIN opened = 1..Len(opened)
    OBVIOUS
  <1>6. IsInjective(open)
    BY <1>5 DEF OpenSays, Longer, IsInjective
  <1> QED BY <1>3, <1>4, <1>6 DEF OpenSays

LEMMA TopRun ==
    ASSUME NEW s, NEW t, NEW opened, Over(s, t), t[Len(t)].kind = "run", OpenSays(t, opened)
    PROVE  Len(opened) \in Nat \ {0} /\ opened[Len(opened)] = t[Len(t)].lib
  <1>1. /\ Of(t, "run") = Of(s, "run") \cup {Len(t)}
        /\ Cardinality(Of(t, "run")) = Cardinality(Of(s, "run")) + 1
        /\ Nth(t, Len(t)) = Cardinality(Of(s, "run")) + 1
        /\ Cardinality(Of(s, "run")) \in Nat
    BY Placed
  <1> QED BY <1>1 DEF OpenSays

LEMMA TopCall ==
    ASSUME NEW s, NEW t, NEW held, Over(s, t), t[Len(t)].kind = "call", CallsSay(t, held)
    PROVE  Len(held) \in Nat \ {0} /\ Nth(t, Len(t)) = Len(held) /\ Len(t) \in Of(t, "call")
  <1>1. /\ Of(t, "call") = Of(s, "call") \cup {Len(t)}
        /\ Cardinality(Of(t, "call")) = Cardinality(Of(s, "call")) + 1
        /\ Nth(t, Len(t)) = Cardinality(Of(s, "call")) + 1
        /\ Cardinality(Of(s, "call")) \in Nat
    BY Placed
  <1> QED BY <1>1 DEF CallsSay
LEMMA OtherHold ==
    ASSUME NEW s, NEW t, NEW calls, Over(s, t), t[Len(t)].kind # "call",
           \A i \in 1..Len(s) : t[i].raised = s[i].raised
    PROVE  CallsHold(s, calls) <=> CallsHold(t, calls)
  <1>1. Of(t, "call") = Of(s, "call")
        /\ \A i \in Of(s, "call") : i \in 1..Len(s) /\ Nth(t, i) = Nth(s, i)
    BY Placed
  <1> QED BY <1>1 DEF CallsHold

LEMMA HoldPushed ==
    ASSUME NEW s, NEW t, NEW calls, NEW held, Over(s, t), t[Len(t)].kind = "call",
           \A i \in 1..Len(s) : t[i].raised = s[i].raised,
           Longer(calls, held), CallsSay(s, calls), CallsHold(s, calls),
           held[Len(held)].caught = First(t[Len(t)].raised)
    PROVE  CallsHold(t, held)
  <1>1. /\ Of(t, "call") = Of(s, "call") \cup {Len(t)}
        /\ Nth(t, Len(t)) = Cardinality(Of(s, "call")) + 1
        /\ \A i \in Of(s, "call") : /\ i \in 1..Len(s)
                                    /\ Nth(t, i) = Nth(s, i) /\ Nth(s, i) \in 1..Cardinality(Of(s, "call"))
    BY Placed
  <1>2. Len(calls) = Cardinality(Of(s, "call")) /\ Len(held) = Cardinality(Of(s, "call")) + 1
    BY DEF CallsSay, Longer
  <1>3. ASSUME NEW i \in Of(s, "call") PROVE held[Nth(t, i)].caught = First(t[i].raised)
    BY <1>1, <1>2, SMTT(30) DEF CallsHold, Longer
  <1> QED BY <1>1, <1>2, <1>3 DEF CallsHold

LEMMA HoldPopped ==
    ASSUME NEW s, NEW t, NEW calls, NEW held, Over(s, t), t[Len(t)].kind = "call",
           \A i \in 1..Len(s) : t[i].raised = s[i].raised,
           Longer(calls, held), CallsSay(t, held), CallsHold(t, held)
    PROVE  CallsHold(s, calls)
  <1>1. /\ Of(t, "call") = Of(s, "call") \cup {Len(t)}
        /\ Cardinality(Of(t, "call")) = Cardinality(Of(s, "call")) + 1
        /\ Cardinality(Of(s, "call")) \in Nat
        /\ \A i \in Of(s, "call") : /\ i \in 1..Len(s)
                                    /\ Nth(t, i) = Nth(s, i) /\ Nth(s, i) \in 1..Cardinality(Of(s, "call"))
    BY Placed
  <1>2. Len(calls) = Cardinality(Of(s, "call"))
    BY <1>1 DEF CallsSay, Longer
  <1> QED BY <1>1, <1>2, ZenonT(60) DEF CallsHold, Longer

-----------------------------------------------------------------------------
(* Frames pushed and popped.                                               *)

\* A stack t with frame f on top of s.
Topped(s, f, t) ==
    /\ s \in Seq(FrameOf) /\ t \in Seq(FrameOf) /\ f \in FrameOf /\ Over(s, t) /\ Len(s) \in Nat
    /\ Len(t) = Len(s) + 1 /\ t[Len(t)] = f
    /\ \A i \in 1..Len(s) : t[i] = s[i]

LEMMA PushOver ==
    ASSUME NEW s \in Seq(FrameOf), NEW f \in FrameOf, NEW t, t = Append(s, f)
    PROVE  Topped(s, f, t)
  BY AppendIs DEF Over, Topped

LEMMA PopOver ==
    ASSUME NEW t \in Seq(FrameOf), t # <<>>, NEW s, s = Front(t)
    PROVE  Topped(s, t[Len(t)], t)
  <1>1. /\ s \in Seq(FrameOf)
        /\ Len(t) \in Nat \ {0} /\ Len(s) = Len(t) - 1
        /\ \A n \in 1..(Len(t) - 1) : s[n] = t[n]
        /\ t[Len(t)] \in FrameOf
    BY FrontIs
  <1> QED BY <1>1 DEF Over, Topped

\* A register with one entry more, or one fewer.
Lengthened(S, s, e, t) ==
    s \in Seq(S) /\ t \in Seq(S) /\ Longer(s, t) /\ t[Len(t)] = e /\ Len(t) \in Nat \ {0} /\ t # <<>>

LEMMA AppendLonger ==
    ASSUME NEW S, NEW s \in Seq(S), NEW e \in S, NEW t, t = Append(s, e)
    PROVE  Lengthened(S, s, e, t)
  BY AppendIs DEF Longer, Lengthened

LEMMA FrontLonger ==
    ASSUME NEW S, NEW t \in Seq(S), Len(t) # 0, NEW s, s = Front(t)
    PROVE  Lengthened(S, s, t[Len(t)], t)
  <1>1. t # <<>>
    OBVIOUS
  <1>2. /\ s \in Seq(S)
        /\ Len(t) \in Nat \ {0} /\ Len(s) = Len(t) - 1
        /\ \A n \in 1..(Len(t) - 1) : s[n] = t[n]
    BY <1>1, FrontIs
  <1> QED BY <1>1, <1>2 DEF Longer, Lengthened

LEMMA FrameAt ==
    ASSUME NEW s \in Seq(FrameOf), NEW i \in 1..Len(s)
    PROVE  /\ s[i] \in FrameOf /\ s[i].kind \in {"run", "scope", "call", "host"}
           /\ s[i].lib \in Lib /\ s[i].keeper \in Nat /\ s[i].phase \in {"in", "closed"}
           /\ s[i].raised \in Seq(Failed)
  <1>1. s[i] \in FrameOf
    OBVIOUS
  <1> QED BY <1>1 DEF FrameOf

LEMMA AllIn ==
    ASSUME NEW s \in Seq(FrameOf), Framed(s), s # <<>> => s[Len(s)].phase = "in"
    PROVE  \A i \in 1..Len(s) : s[i].phase = "in"
  <1> SUFFICES ASSUME NEW i \in 1..Len(s), s[i].phase # "in" PROVE FALSE
    OBVIOUS
  <1>0. s[i] \in FrameOf
    OBVIOUS
  <1>1. s[i].phase = "closed"
    BY <1>0 DEF FrameOf
  <1>2. i = Len(s) /\ s # <<>>
    BY <1>1 DEF Framed, FrameStands
  <1> QED BY <1>2

\* The frame of a run: what Frame makes.
LEMMA FrameIs ==
    ASSUME NEW kind \in {"run", "scope", "host"}, NEW l \in Lib, NEW keeper \in Nat, NEW via \in Nat
    PROVE  /\ Frame(kind, l, keeper, via) \in FrameOf
           /\ Frame(kind, l, keeper, via).kind = kind /\ Frame(kind, l, keeper, via).lib = l
           /\ Frame(kind, l, keeper, via).keeper = keeper /\ Frame(kind, l, keeper, via).phase = "in"
  <1>1. <<>> \in Seq(Failed)
    OBVIOUS
  <1> QED BY <1>1 DEF Frame, FrameOf
-----------------------------------------------------------------------------
(* Every step keeps the invariant.                                         *)

\* What is read goes on being read in a stack with every open run of before.
LEMMA ReadGrows ==
    ASSUME NEW s, NEW t, NEW kept, NEW more, NEW held,
           \A l, i : IsOpen(s, l, i) => IsOpen(t, l, i), kept \subseteq more, ReadIn(s, kept, held)
    PROVE  ReadIn(t, more, held)
  BY DEF ReadIn

LEMMA EnterRunStep ==
    ASSUME IInv, NEW l \in Lib, EnterRun(l)
    PROVE  IInv'
  <1> USE DEF IInv
  <1>1. CASE Contains(OPEN, l)
    <2>1. UNCHANGED <<stack, OPEN, CALLS, scopes, rooms, reads, unwinding>>
      BY <1>1 DEF EnterRun
    <2> QED BY <2>1 DEF Types
  <1>2. CASE ~Contains(OPEN, l)
    <2> DEFINE f == Frame("run", l, Depth + 1, 0)
    <2>1. /\ OPEN' = Append(OPEN, l) /\ OpenBracket(l) /\ stack' = Append(stack, f)
          /\ UNCHANGED <<CALLS, rooms, reads, unwinding>>
      BY <1>2 DEF EnterRun
    <2>2. stack \in Seq(FrameOf) /\ Len(stack) \in Nat /\ Depth + 1 \in Nat /\ Depth = Len(stack)
      BY DEF Types, Depth
    <2>3. /\ f \in FrameOf /\ f.kind = "run" /\ f.lib = l
          /\ f.keeper = Depth + 1 /\ f.phase = "in"
      BY <2>2, FrameIs
    <2> HIDE DEF f
    <2>4. /\ stack' \in Seq(FrameOf) /\ Over(stack, stack')
          /\ Len(stack') = Len(stack) + 1 /\ stack'[Len(stack')] = f
          /\ \A i \in 1..Len(stack) : stack'[i] = stack[i]
      <3>1. Topped(stack, f, stack')
        BY <2>1, <2>2, <2>3, PushOver, Zenon
      <3> QED BY <3>1 DEF Topped
    <2>5. \A i \in 1..Len(stack) : stack[i].phase = "in"
      BY <2>2, AllIn DEF EnterRun, InHost, Top, Last
    <2>6. Framed(stack')
      <3>1. FrameStands(stack', Len(stack'))
        BY <2>2, <2>3, <2>4 DEF FrameStands, Runs
      <3> QED BY <2>4, <2>5, <3>1, PushFramed
    <2>7. scopes \in [Lib -> Seq(Nat)] /\ scopes' = [scopes EXCEPT ![l] = Append(@, Len(stack) + 1)]
      BY <2>1, <2>2 DEF Types, OpenBracket
    <2>8. IsOpen(stack', l, Len(stack'))
      BY <2>2, <2>3, <2>4 DEF IsOpen, Runs
    <2>9. Scoped(stack', scopes') /\ \A m, i : IsOpen(stack, m, i) => IsOpen(stack', m, i)
      BY <2>4, <2>7, <2>8, ScopedPush, OpenGrows, Zenon
    <2>10. ReadIn(stack', rooms', reads')
      BY <2>1, <2>9, ReadGrows
    <2>11. OPEN \in Seq(Lib) /\ OPEN' \in Seq(Lib) /\ Longer(OPEN, OPEN') /\ OPEN'[Len(OPEN')] = l
      <3>1. OPEN \in Seq(Lib)
        BY DEF Types
      <3>2. Lengthened(Lib, OPEN, l, OPEN')
        BY <2>1, <3>1, AppendLonger, Zenon
      <3> QED BY <3>2 DEF Lengthened
    <2>12. CallsSay(stack, CALLS) /\ OpenSays(stack, OPEN)
      BY BothSay
    <2>13. OpenSays(stack', OPEN')
      <3>1. \A n \in 1..Len(OPEN) : OPEN[n] # l
        BY <1>2 DEF Contains
      <3> QED BY <2>3, <2>4, <2>11, <2>12, <3>1, RunPushed
    <2>14. CallsSay(stack', CALLS')
      BY <2>1, <2>3, <2>4, <2>12, OtherCalls
    <2>15. CallsHold(stack', CALLS')
      BY <2>1, <2>3, <2>4, OtherHold
    <2>16. Types'
      <3>1. scopes' \in [Lib -> Seq(Nat)]
        BY <2>2, <2>7
      <3> QED BY <2>1, <2>4, <2>11, <3>1 DEF Types
    <2> QED BY <2>6, <2>9, <2>10, <2>13, <2>14, <2>15, <2>16, BothSay
  <1> QED BY <1>1, <1>2

LEMMA EnterScopeStep ==
    ASSUME IInv, NEW i \in 1..Depth, EnterScope(i)
    PROVE  IInv'
  <1> USE DEF IInv
  <1>1. PICK l \in Lib : l = stack[i].lib
    BY FrameAt DEF Types, Depth
  <1> DEFINE f == Frame("scope", l, Depth + 1, i)
  <1>2. /\ OpenBracket(l) /\ stack' = Append(stack, f)
        /\ UNCHANGED <<OPEN, CALLS, rooms, reads, unwinding>>
    BY <1>1 DEF EnterScope
  <1>3. stack \in Seq(FrameOf) /\ Len(stack) \in Nat /\ Depth + 1 \in Nat /\ Depth = Len(stack) /\ i \in Nat
    BY DEF Types, Depth
  <1>4. /\ f \in FrameOf /\ f.kind = "scope" /\ f.lib = l
        /\ f.keeper = Depth + 1 /\ f.phase = "in"
    BY <1>3, FrameIs
  <1> HIDE DEF f
  <1>5. /\ stack' \in Seq(FrameOf) /\ Over(stack, stack')
        /\ Len(stack') = Len(stack) + 1 /\ stack'[Len(stack')] = f
        /\ \A n \in 1..Len(stack) : stack'[n] = stack[n]
    <2>1. Topped(stack, f, stack')
      BY <1>2, <1>3, <1>4, PushOver, Zenon
    <2> QED BY <2>1 DEF Topped
  <1>6. \A n \in 1..Len(stack) : stack[n].phase = "in"
    BY <1>3, AllIn DEF EnterScope, InHost, Top, Last
  <1>7. Framed(stack')
    <2>1. FrameStands(stack', Len(stack'))
      BY <1>3, <1>4, <1>5 DEF FrameStands, Runs
    <2> QED BY <1>5, <1>6, <2>1, PushFramed
  <1>8. scopes \in [Lib -> Seq(Nat)] /\ scopes' = [scopes EXCEPT ![l] = Append(@, Len(stack) + 1)]
    BY <1>2, <1>3 DEF Types, OpenBracket
  <1>9. IsOpen(stack', l, Len(stack'))
    BY <1>3, <1>4, <1>5 DEF IsOpen, Runs
  <1>10. Scoped(stack', scopes') /\ \A m, n : IsOpen(stack, m, n) => IsOpen(stack', m, n)
    BY <1>5, <1>8, <1>9, ScopedPush, OpenGrows, Zenon
  <1>11. ReadIn(stack', rooms', reads')
    BY <1>2, <1>10, ReadGrows
  <1>12. CallsSay(stack, CALLS) /\ OpenSays(stack, OPEN)
    BY BothSay
  <1>13. OpenSays(stack', OPEN')
    BY <1>2, <1>4, <1>5, <1>12, OtherOpen
  <1>14. CallsSay(stack', CALLS')
    BY <1>2, <1>4, <1>5, <1>12, OtherCalls
  <1>15. CallsHold(stack', CALLS')
    BY <1>2, <1>4, <1>5, OtherHold
  <1>16. Types'
    <2>1. scopes' \in [Lib -> Seq(Nat)]
      BY <1>3, <1>8
    <2> QED BY <1>2, <1>5, <2>1 DEF Types
  <1> QED BY <1>7, <1>10, <1>11, <1>13, <1>14, <1>15, <1>16, BothSay

LEMMA HostFunctionStep ==
    ASSUME IInv, NEW i \in 1..Depth, HostFunction(i)
    PROVE  IInv'
  <1> USE DEF IInv
  <1>1. /\ rooms' = rooms \cup {stack[i].keeper}
        /\ UNCHANGED <<stack, OPEN, CALLS, scopes, reads, unwinding>>
    BY DEF HostFunction
  <1>2. stack[i].keeper \in Nat
    BY FrameAt DEF Types, Depth
  <1>3. Types'
    BY <1>1, <1>2 DEF Types
  <1>4. ReadIn(stack', rooms', reads')
    BY <1>1 DEF ReadIn
  <1> QED BY <1>1, <1>3, <1>4
\* What the library keeps of a function value reads the keeper of a run that
\* stands, below the scope it goes with.
LEMMA KeptReads ==
    ASSUME IInv, NEW j \in 1..Len(stack), stack[j].keeper \in rooms,
           \A n \in 1..Len(stack) : stack[n].phase = "in"
    PROVE  /\ Kept(stack[j].lib, stack[j].keeper) \subseteq Reader
           /\ ReadIn(stack, rooms, Kept(stack[j].lib, stack[j].keeper))
  <1> USE DEF IInv
  <1>1. PICK l \in Lib : l = stack[j].lib
    BY FrameAt DEF Types
  <1>2. PICK k \in Nat : k = stack[j].keeper
    BY FrameAt DEF Types
  <1>3. IsOpen(stack, l, k)
    <2>1. Len(stack) \in Nat
      BY DEF Types
    <2>2. k \in 1..j /\ stack[k].kind \in Runs /\ stack[k].lib = l
      BY <1>1, <1>2 DEF Framed, FrameStands
    <2> QED BY <2>1, <2>2 DEF IsOpen
  <1>4. scopes \in [Lib -> Seq(Nat)]
    BY DEF Types
  <1>5. k <= Last(scopes[l]) /\ IsOpen(stack, l, Last(scopes[l])) /\ Last(scopes[l]) \in Nat
    BY <1>3, <1>4, Innermost
  <1>6. reads \subseteq Reader
    BY DEF Types
  <1>7. Kept(l, k) \subseteq Reader
    BY <1>5, <1>6 DEF Kept, Reader
  <1>8. ReadIn(stack, rooms, Kept(l, k))
    BY <1>2, <1>5 DEF Kept, ReadIn
  <1> QED BY <1>1, <1>2, <1>7, <1>8

LEMMA CallStep ==
    ASSUME IInv, NEW i \in 1..Depth, NEW bound \in Bindings,
           NEW given \in {{}} \cup {{j} : j \in 1..Depth}, Call(i, bound, given)
    PROVE  IInv'
  <1> USE DEF IInv
  <1>1. PICK l \in Lib : l = stack[i].lib
    BY FrameAt DEF Types, Depth
  <1>2. PICK k \in Nat : k = stack[i].keeper
    BY FrameAt DEF Types, Depth
  <1>3. CASE Refused(l, bound, given)
    <2>1. UNCHANGED <<stack, OPEN, CALLS, scopes, rooms, reads, unwinding>>
      BY <1>1, <1>3 DEF Call
    <2> QED BY <2>1 DEF Types
  <1>4. CASE ~Refused(l, bound, given)
    <2> DEFINE f == [Frame("call", l, k, i) EXCEPT !.runs = bound.libs, !.hosts = bound.hosts]
               c == [runtime |-> l, keeper |-> k, caught |-> Nothing]
    <2>1. /\ stack' = Append(stack, f)
          /\ CALLS' = Append(CALLS, c)
          /\ reads' = UNION ({reads} \cup {Kept(l, stack[j].keeper) : j \in given})
          /\ UNCHANGED <<OPEN, scopes, rooms, unwinding>>
      BY <1>1, <1>2, <1>4 DEF Call
    <2>2. stack \in Seq(FrameOf) /\ Len(stack) \in Nat /\ Depth = Len(stack) /\ i \in Nat /\ i \in 1..Len(stack)
      BY DEF Types, Depth
    <2>3. bound.libs \subseteq Lib /\ bound.hosts \subseteq Lib /\ bound.libs \cup bound.hosts \subseteq {l}
      <3>1. OfOne(bound)
        BY BindingsOfOne
      <3>2. bound.made = l
        BY <1>4 DEF Refused
      <3> QED BY <3>1, <3>2, NoneAssumption DEF OfOne, BindingOf
    <2>4. /\ f \in FrameOf /\ f.kind = "call" /\ f.lib = l /\ f.keeper = k /\ f.phase = "in"
          /\ f.runs \cup f.hosts \subseteq {l} /\ f.raised = <<>>
      <3>1. <<>> \in Seq(Failed)
        OBVIOUS
      <3> QED BY <2>2, <2>3, <3>1 DEF Frame, FrameOf
    <2>5. c \in CallOf /\ c.runtime = l /\ c.keeper = k /\ c.caught = Nothing
      BY DEF CallOf, Caught
    <2> HIDE DEF f, c
    <2>6. /\ stack' \in Seq(FrameOf) /\ Over(stack, stack')
          /\ Len(stack') = Len(stack) + 1 /\ stack'[Len(stack')] = f
          /\ \A n \in 1..Len(stack) : stack'[n] = stack[n]
      <3>1. Topped(stack, f, stack')
        BY <2>1, <2>2, <2>4, PushOver, Zenon
      <3> QED BY <3>1 DEF Topped
    <2>7. /\ CALLS' \in Seq(CallOf) /\ Longer(CALLS, CALLS') /\ CALLS'[Len(CALLS')] = c
      <3>1. CALLS \in Seq(CallOf)
        BY DEF Types
      <3>2. Lengthened(CallOf, CALLS, c, CALLS')
        BY <2>1, <2>5, <3>1, AppendLonger, Zenon
      <3> QED BY <3>2 DEF Lengthened
    <2>8. \A n \in 1..Len(stack) : stack[n].phase = "in"
      BY <2>2, AllIn DEF Call, InHost, Top, Last
    <2>9. Framed(stack')
      <3>1. k \in 1..i /\ stack[k].kind \in Runs /\ stack[k].lib = l
        BY <1>1, <1>2, <2>2 DEF Framed, FrameStands
      <3>2. FrameStands(stack', Len(stack'))
        BY <2>2, <2>4, <2>6, <3>1 DEF FrameStands, Runs
      <3> QED BY <2>6, <2>8, <3>2, PushFramed
    <2>10. \A m, n : IsOpen(stack, m, n) <=> IsOpen(stack', m, n)
      <3>1. ~(stack'[Len(stack')].kind \in Runs)
        BY <2>4, <2>6 DEF Runs
      <3> QED BY <2>6, <3>1, OpenStays
    <2>11. Scoped(stack', scopes')
      BY <2>1, <2>10, ScopedStays
    <2>12. ASSUME NEW j \in given
           PROVE  Kept(l, stack[j].keeper) \subseteq Reader /\ ReadIn(stack, rooms, Kept(l, stack[j].keeper))
      <3>1. j \in 1..Len(stack) /\ stack[j].keeper \in rooms
        BY <2>2 DEF Call, Reached
      <3>2. stack[j].lib = l
        BY <1>4 DEF Refused, WordIn
      <3> QED BY <2>8, <3>1, <3>2, KeptReads
    <2>13. reads' \subseteq Reader /\ ReadIn(stack, rooms, reads')
      <3>1. reads \subseteq Reader
        BY DEF Types
      <3>2. \A r \in reads' : r \in reads \/ \E j \in given : r \in Kept(l, stack[j].keeper)
        BY <2>1
      <3> QED BY <2>12, <3>1, <3>2 DEF ReadIn
    <2>14. ReadIn(stack', rooms', reads')
      BY <2>1, <2>10, <2>13, ReadStays
    <2>15. CallsSay(stack, CALLS) /\ OpenSays(stack, OPEN)
      BY BothSay
    <2>16. OpenSays(stack', OPEN')
      BY <2>1, <2>4, <2>6, <2>15, OtherOpen
    <2>17. CallsSay(stack', CALLS')
      BY <2>4, <2>5, <2>6, <2>7, <2>15, CallPushed, SMTT(30)
    <2>18. CallsHold(stack', CALLS')
      <3>1. CALLS'[Len(CALLS')].caught = First(stack'[Len(stack')].raised)
        BY <2>4, <2>5, <2>6, <2>7 DEF First
      <3> QED BY <2>4, <2>6, <2>7, <2>15, <3>1, HoldPushed, SMTT(30)
    <2>19. Types'
      BY <2>1, <2>6, <2>7, <2>13 DEF Types
    <2> QED BY <2>9, <2>11, <2>14, <2>16, <2>17, <2>18, <2>19, BothSay
  <1> QED BY <1>3, <1>4

\* The stack below an open call, and the call in the register.
LEMMA InnermostCall ==
    ASSUME IInv, stack # <<>>, Top.kind = "call"
    PROVE  /\ Len(CALLS) \in Nat \ {0} /\ CALLS # <<>>
           /\ Last(CALLS).runtime = Top.lib /\ Last(CALLS).keeper = Top.keeper
           /\ Last(CALLS).caught = First(Top.raised)
  <1> USE DEF IInv
  <1>1. Over(Front(stack), stack)
    <2>1. stack \in Seq(FrameOf)
      BY DEF Types
    <2>2. Topped(Front(stack), stack[Len(stack)], stack)
      BY <2>1, PopOver, Zenon
    <2> QED BY <2>2 DEF Topped
  <1>2. Top = stack[Len(stack)] /\ Last(CALLS) = CALLS[Len(CALLS)]
    BY DEF Top, Last
  <1>3. CallsSay(stack, CALLS)
    BY BothSay
  <1>4. Len(CALLS) \in Nat \ {0} /\ Nth(stack, Len(stack)) = Len(CALLS) /\ Len(stack) \in Of(stack, "call")
    BY <1>1, <1>2, <1>3, TopCall
  <1>5. /\ CALLS[Len(CALLS)].runtime = stack[Len(stack)].lib
        /\ CALLS[Len(CALLS)].keeper = stack[Len(stack)].keeper
    BY <1>3, <1>4 DEF CallsSay
  <1>6. CALLS[Len(CALLS)].caught = First(stack[Len(stack)].raised)
    BY <1>4 DEF CallsHold
  <1>7. CALLS # <<>>
    BY <1>4
  <1> QED BY <1>2, <1>4, <1>5, <1>6, <1>7

LEMMA CallBackStep ==
    ASSUME IInv, NEW l \in Lib, CallBack(l)
    PROVE  IInv'
  <1> USE DEF IInv
  <1>1. stack # <<>> /\ Top.kind = "call" /\ Last(CALLS).runtime = l
    BY DEF CallBack, InLibrary, Lends
  <1>2. stack \in Seq(FrameOf) /\ Len(stack) \in Nat \ {0} /\ Depth = Len(stack) /\ Len(stack) \in 1..Len(stack)
    BY <1>1, EmptySeq DEF Types, Depth
  <1>3. PICK k \in Nat : k = Top.keeper
    BY <1>2, FrameAt DEF Top, Last
  <1>4. Last(CALLS).keeper = k /\ Top.lib = l
    BY <1>1, <1>3, InnermostCall
  <1> DEFINE f == Frame("host", l, k, 0)
  <1>5. stack' = Append(stack, f) /\ UNCHANGED <<OPEN, CALLS, scopes, rooms, reads, unwinding>>
    BY <1>4 DEF CallBack, Enters
  <1>6. /\ f \in FrameOf /\ f.kind = "host" /\ f.lib = l /\ f.keeper = k /\ f.phase = "in"
    BY FrameIs
  <1> HIDE DEF f
  <1>7. /\ stack' \in Seq(FrameOf) /\ Over(stack, stack')
        /\ Len(stack') = Len(stack) + 1 /\ stack'[Len(stack')] = f
        /\ \A n \in 1..Len(stack) : stack'[n] = stack[n]
    <2>1. Topped(stack, f, stack')
      BY <1>2, <1>5, <1>6, PushOver, Zenon
    <2> QED BY <2>1 DEF Topped
  <1>8. stack[Len(stack)].kind = "call" /\ stack[Len(stack)].keeper = k /\ stack[Len(stack)].lib = l
    BY <1>1, <1>3, <1>4 DEF Top, Last
  <1>9. FrameStands(stack, Len(stack))
    BY <1>2 DEF Framed
  <1>10. \A n \in 1..Len(stack) : stack[n].phase = "in"
    <2>1. stack[Len(stack)].phase \in {"in", "closed"}
      BY <1>2, FrameAt
    <2>2. stack[Len(stack)].phase = "in"
      BY <1>8, <1>9, <2>1 DEF FrameStands, Runs
    <2> QED BY <1>2, <2>2, AllIn
  <1>11. Framed(stack')
    <2>1. k \in 1..Len(stack) /\ stack[k].kind \in Runs /\ stack[k].lib = l
      BY <1>8, <1>9 DEF FrameStands
    <2>2. FrameStands(stack', Len(stack'))
      BY <1>2, <1>6, <1>7, <1>8, <2>1 DEF FrameStands, Runs
    <2> QED BY <1>7, <1>10, <2>2, PushFramed
  <1>12. \A m, n : IsOpen(stack, m, n) <=> IsOpen(stack', m, n)
    <2>1. ~(stack'[Len(stack')].kind \in Runs)
      BY <1>6, <1>7 DEF Runs
    <2> QED BY <1>7, <2>1, OpenStays
  <1>13. Scoped(stack', scopes')
    BY <1>5, <1>12, ScopedStays
  <1>14. ReadIn(stack', rooms', reads')
    BY <1>5, <1>12, ReadStays
  <1>15. CallsSay(stack', CALLS') /\ OpenSays(stack', OPEN')
    BY <1>5, <1>6, <1>7, BothSay, OtherCalls, OtherOpen
  <1>16. CallsHold(stack', CALLS')
    BY <1>5, <1>6, <1>7, OtherHold
  <1>17. Types'
    BY <1>5, <1>7 DEF Types
  <1> QED BY <1>11, <1>13, <1>14, <1>15, <1>16, <1>17, BothSay
LEMMA HostAnswersStep ==
    ASSUME IInv, NEW function \in BOOLEAN, HostAnswers(function)
    PROVE  IInv'
  <1> USE DEF IInv
  <1>1. /\ stack # <<>> /\ Top.kind = "host" /\ Top.phase = "in" /\ stack' = Front(stack)
        /\ UNCHANGED <<OPEN, CALLS, scopes, rooms, unwinding>>
    BY DEF HostAnswers, InHost
  <1>2. stack \in Seq(FrameOf)
    BY DEF Types
  <1>3. /\ stack' \in Seq(FrameOf) /\ Over(stack', stack)
        /\ Len(stack') \in Nat /\ Len(stack) = Len(stack') + 1
        /\ \A n \in 1..Len(stack') : stack[n] = stack'[n]
    <2>1. Topped(stack', stack[Len(stack)], stack)
      BY <1>1, <1>2, PopOver, Zenon
    <2> QED BY <2>1 DEF Topped
  <1>4. stack[Len(stack)].kind = "host" /\ stack[Len(stack)].phase = "in" /\ Top = stack[Len(stack)]
    BY <1>1 DEF Top, Last
  <1>5. \A n \in 1..Len(stack) : stack[n].phase = "in"
    BY <1>2, <1>4, AllIn
  <1>6. Framed(stack')
    BY <1>3, PopFramed
  <1>7. \A m, n : IsOpen(stack, m, n) <=> IsOpen(stack', m, n)
    <2>1. ~(stack[Len(stack)].kind \in Runs)
      BY <1>4 DEF Runs
    <2> QED BY <1>3, <2>1, OpenStays
  <1>8. Scoped(stack', scopes')
    BY <1>1, <1>7, ScopedStays
  <1>9. reads' \subseteq Reader /\ ReadIn(stack, rooms, reads')
    <2>1. CASE function
      <3>1. reads' = Kept(Top.lib, Top.keeper) /\ Top.keeper \in rooms
        BY <2>1 DEF HostAnswers
      <3>2. Len(stack) \in 1..Len(stack)
        BY <1>3
      <3> QED BY <1>4, <1>5, <3>1, <3>2, KeptReads
    <2>2. CASE ~function
      <3>1. reads' = reads
        BY <2>2 DEF HostAnswers
      <3> QED BY <3>1 DEF Types
    <2> QED BY <2>1, <2>2
  <1>10. ReadIn(stack', rooms', reads')
    BY <1>1, <1>7, <1>9, ReadStays
  <1>11. CallsSay(stack, CALLS) /\ OpenSays(stack, OPEN)
    BY BothSay
  <1>12. CallsSay(stack', CALLS') /\ OpenSays(stack', OPEN')
    BY <1>1, <1>3, <1>4, <1>11, OtherCalls, OtherOpen
  <1>13. CallsHold(stack', CALLS')
    BY <1>1, <1>3, <1>4, OtherHold
  <1>14. Types'
    BY <1>1, <1>3, <1>9 DEF Types
  <1> QED BY <1>6, <1>8, <1>10, <1>12, <1>13, <1>14, BothSay

\* A call that is taken off, by an answer or by a panic beside the library.
LEMMA CallTakenOff ==
    ASSUME IInv, InLibrary, CALLS' = Front(CALLS), stack' = Front(stack),
           unwinding' \in Caught, unwinding'.how \in {"none", "panicked"},
           UNCHANGED <<OPEN, scopes, rooms, reads>>
    PROVE  IInv'
  <1> USE DEF IInv
  <1>1. stack # <<>> /\ Top.kind = "call"
    BY DEF InLibrary
  <1>2. stack \in Seq(FrameOf) /\ CALLS \in Seq(CallOf)
    BY DEF Types
  <1>3. /\ stack' \in Seq(FrameOf) /\ Over(stack', stack)
        /\ Len(stack') \in Nat /\ Len(stack) = Len(stack') + 1
        /\ \A n \in 1..Len(stack') : stack[n] = stack'[n]
    <2>1. Topped(stack', stack[Len(stack)], stack)
      BY <1>1, <1>2, PopOver, Zenon
    <2> QED BY <2>1 DEF Topped
  <1>4. stack[Len(stack)].kind = "call"
    BY <1>1 DEF Top, Last
  <1>5. Len(CALLS) # 0
    BY <1>1, InnermostCall
  <1>6. CALLS' \in Seq(CallOf) /\ Longer(CALLS', CALLS)
    <2>1. Lengthened(CallOf, CALLS', CALLS[Len(CALLS)], CALLS)
      BY <1>2, <1>5, FrontLonger, Zenon
    <2> QED BY <2>1 DEF Lengthened
  <1>7. Framed(stack')
    BY <1>3, PopFramed
  <1>8. \A m, n : IsOpen(stack, m, n) <=> IsOpen(stack', m, n)
    <2>1. ~(stack[Len(stack)].kind \in Runs)
      BY <1>4 DEF Runs
    <2> QED BY <1>3, <2>1, OpenStays
  <1>9. Scoped(stack', scopes')
    BY <1>8, ScopedStays
  <1>10. ReadIn(stack', rooms', reads')
    BY <1>8, ReadStays
  <1>11. CallsSay(stack, CALLS) /\ OpenSays(stack, OPEN)
    BY BothSay
  <1>12. OpenSays(stack', OPEN')
    BY <1>3, <1>4, <1>11, OtherOpen
  <1>13. CallsSay(stack', CALLS')
    BY <1>3, <1>4, <1>6, <1>11, CallPopped
  <1>14. CallsHold(stack', CALLS')
    BY <1>3, <1>4, <1>6, <1>11, HoldPopped
  <1>15. Types'
    BY <1>3, <1>6 DEF Types
  <1> QED BY <1>7, <1>9, <1>10, <1>12, <1>13, <1>14, <1>15, BothSay

LEMMA ReturnStep ==
    ASSUME IInv, NEW status \in Statuses, Return(status)
    PROVE  IInv'
  <1>1. stack # <<>> /\ Top.kind = "call"
    BY DEF Return, InLibrary
  <1>2. Last(CALLS).caught \in Caught
    <2>1. CALLS \in Seq(CallOf)
      BY DEF IInv, Types
    <2>2. Len(CALLS) \in 1..Len(CALLS)
      BY <1>1, InnermostCall
    <2>3. CALLS[Len(CALLS)] \in CallOf
      BY <2>1, <2>2
    <2> QED BY <2>3 DEF Last, CallOf
  <1>3. unwinding' \in Caught /\ unwinding'.how \in {"none", "panicked"}
    <2>1. CASE Last(CALLS).caught.how = "panicked"
      BY <1>2, <2>1 DEF Return
    <2>2. CASE Last(CALLS).caught.how # "panicked"
      BY <2>2 DEF Return, IInv, Types
    <2> QED BY <2>1, <2>2
  <1>4. InLibrary /\ CALLS' = Front(CALLS) /\ stack' = Front(stack) /\ UNCHANGED <<OPEN, scopes, rooms, reads>>
    BY DEF Return
  <1> QED BY <1>3, <1>4, CallTakenOff

\* A panic is one of what a call may hold.
LEMMA PanicIs ==
    ASSUME NEW p \in Payload
    PROVE  [how |-> "panicked", what |-> p] \in Caught
           /\ [how |-> "panicked", what |-> p].how \in {"none", "panicked"}
  BY DEF Caught, Failed

LEMMA NativePanicsStep ==
    ASSUME IInv, NEW p \in Payload, NativePanics(p)
    PROVE  IInv'
  <1>1. unwinding' \in Caught /\ unwinding'.how \in {"none", "panicked"}
    BY PanicIs DEF NativePanics
  <1>2. InLibrary /\ CALLS' = Front(CALLS) /\ stack' = Front(stack) /\ UNCHANGED <<OPEN, scopes, rooms, reads>>
    BY DEF NativePanics
  <1> QED BY <1>1, <1>2, CallTakenOff

LEMMA PanicsStep ==
    ASSUME IInv, NEW p \in Payload, Panics(p)
    PROVE  IInv'
  <1>1. unwinding' \in Caught /\ unwinding'.how \in {"none", "panicked"}
    BY PanicIs DEF Panics
  <1>2. UNCHANGED <<stack, OPEN, CALLS, scopes, rooms, reads>>
    BY DEF Panics
  <1> QED BY <1>1, <1>2 DEF IInv, Types

LEMMA LeavesStep ==
    ASSUME IInv, Leaves
    PROVE  IInv'
  <1>1. unwinding' \in Caught /\ unwinding'.how \in {"none", "panicked"}
    BY DEF Leaves, Nothing, Caught
  <1>2. UNCHANGED <<stack, OPEN, CALLS, scopes, rooms, reads>>
    BY DEF Leaves
  <1> QED BY <1>1, <1>2 DEF IInv, Types

\* The last of a library's name is taken off where it is the last of all.
LEMMA LastTakenOff ==
    ASSUME NEW open \in Seq(Lib), NEW l \in Lib, Len(open) \in Nat \ {0}, open[Len(open)] = l,
           NEW opened,
           opened = RemoveAt(open, CHOOSE n \in 1..Len(open) :
                                open[n] = l /\ \A m \in (n + 1)..Len(open) : open[m] # l)
    PROVE  opened \in Seq(Lib) /\ Longer(opened, open)
  <1> DEFINE at == CHOOSE n \in 1..Len(open) : open[n] = l /\ \A m \in (n + 1)..Len(open) : open[m] # l
  <1>1. Len(open) \in 1..Len(open) /\ open[Len(open)] = l
        /\ \A m \in (Len(open) + 1)..Len(open) : open[m] # l
    OBVIOUS
  <1>2. at \in 1..Len(open) /\ open[at] = l /\ \A m \in (at + 1)..Len(open) : open[m] # l
    BY <1>1, SMTT(30)
  <1>3. at = Len(open)
    BY <1>1, <1>2, SMTT(30)
  <1>4. opened = SubSeq(open, 1, Len(open) - 1) \o SubSeq(open, Len(open) + 1, Len(open))
    BY <1>3 DEF RemoveAt
  <1>5. SubSeq(open, Len(open) + 1, Len(open)) = <<>>
    BY SubSeqEmpty
  <1>6. Lengthened(Lib, Front(open), open[Len(open)], open)
    BY FrontLonger
  <1>7. Front(open) \in Seq(Lib) /\ Longer(Front(open), open)
    BY <1>6 DEF Lengthened
  <1>8. opened = Front(open)
    BY <1>4, <1>5, <1>7, ConcatEmptySeq DEF Front
  <1> QED BY <1>7, <1>8

LEMMA DropRunStep ==
    ASSUME IInv, DropRun
    PROVE  IInv'
  <1> USE DEF IInv
  <1>1. /\ stack # <<>> /\ Top.kind \in Runs /\ Top.phase = "closed" /\ stack' = Front(stack)
        /\ rooms' = rooms \ {Depth} /\ UNCHANGED <<CALLS, scopes, reads, unwinding>>
    BY DEF DropRun
  <1>2. stack \in Seq(FrameOf)
    BY DEF Types
  <1>3. /\ stack' \in Seq(FrameOf) /\ Over(stack', stack)
        /\ Len(stack') \in Nat /\ Len(stack) = Len(stack') + 1
        /\ \A n \in 1..Len(stack') : stack[n] = stack'[n]
    <2>1. Topped(stack', stack[Len(stack)], stack)
      BY <1>1, <1>2, PopOver, Zenon
    <2> QED BY <2>1 DEF Topped
  <1>4. stack[Len(stack)].kind \in Runs /\ stack[Len(stack)].phase = "closed" /\ Top = stack[Len(stack)]
    BY <1>1 DEF Top, Last
  <1>5. Framed(stack')
    BY <1>3, PopFramed
  <1>6. \A m, n : IsOpen(stack, m, n) <=> IsOpen(stack', m, n)
    BY <1>3, <1>4, OpenStays
  <1>7. Scoped(stack', scopes')
    BY <1>1, <1>6, ScopedStays
  <1>8. ReadIn(stack, rooms', reads)
    <2> SUFFICES ASSUME NEW r \in reads PROVE r.keeper # Depth
      BY <1>1 DEF ReadIn
    <2>1. r.keeper \in Nat /\ r.scope \in Nat
      BY DEF Types, Reader
    <2>2. r.keeper <= r.scope /\ r.scope \in 1..Len(stack) /\ r.scope # Len(stack)
      BY <1>4 DEF ReadIn, IsOpen
    <2> QED BY <1>3, <2>1, <2>2 DEF Depth
  <1>9. ReadIn(stack', rooms', reads')
    BY <1>1, <1>6, <1>8, ReadStays
  <1>10. CallsSay(stack, CALLS) /\ OpenSays(stack, OPEN)
    BY BothSay
  <1>11. stack[Len(stack)].kind # "call"
    BY <1>4 DEF Runs
  <1>12. CallsSay(stack', CALLS') /\ CallsHold(stack', CALLS')
    BY <1>1, <1>3, <1>10, <1>11, OtherCalls, OtherHold
  <1>13. OPEN' \in Seq(Lib) /\ OpenSays(stack', OPEN')
    <2>1. CASE Top.kind = "run"
      <3>1. stack[Len(stack)].kind = "run"
        BY <1>4, <2>1
      <3>2. Len(OPEN) \in Nat \ {0} /\ OPEN[Len(OPEN)] = stack[Len(stack)].lib
        BY <1>3, <1>10, <3>1, TopRun
      <3>3. PICK l \in Lib : l = stack[Len(stack)].lib
        BY <1>2, <1>3, FrameAt
      <3>4. OPEN \in Seq(Lib)
        BY DEF Types
      <3>5. OPEN' = RemoveAt(OPEN, CHOOSE n \in 1..Len(OPEN) :
                                OPEN[n] = l /\ \A m \in (n + 1)..Len(OPEN) : OPEN[m] # l)
        BY <1>4, <2>1, <3>3, Zenon DEF DropRun, LeaveOpen
      <3>6. OPEN' \in Seq(Lib) /\ Longer(OPEN', OPEN)
        BY <3>2, <3>3, <3>4, <3>5, LastTakenOff
      <3> QED BY <1>3, <1>10, <3>1, <3>4, <3>6, RunPopped
    <2>2. CASE Top.kind # "run"
      <3>1. OPEN' = OPEN /\ stack[Len(stack)].kind # "run"
        BY <1>4, <2>2 DEF DropRun
      <3> QED BY <1>3, <1>10, <3>1, OtherOpen DEF Types
    <2> QED BY <2>1, <2>2
  <1>14. Types'
    BY <1>1, <1>3, <1>13 DEF Types
  <1> QED BY <1>5, <1>7, <1>9, <1>12, <1>13, <1>14, BothSay
LEMMA CloseBracketStep ==
    ASSUME IInv, CloseBracket
    PROVE  IInv'
  <1> USE DEF IInv
  <1>1. /\ stack # <<>> /\ Top.kind \in Runs /\ Top.phase = "in"
        /\ stack' = [stack EXCEPT ![Depth].phase = "closed"]
        /\ UNCHANGED <<OPEN, CALLS, rooms>>
    BY DEF CloseBracket
  <1>2. stack \in Seq(FrameOf) /\ Len(stack) \in Nat \ {0} /\ Depth = Len(stack) /\ Len(stack) \in 1..Len(stack)
    BY <1>1, EmptySeq DEF Types, Depth
  <1>3. PICK l \in Lib : l = stack[Len(stack)].lib
    BY <1>2, FrameAt
  <1>4. stack[Len(stack)] \in FrameOf
    BY <1>2, FrameAt
  <1>5. stack[Len(stack)].kind \in Runs /\ stack[Len(stack)].phase = "in" /\ Top = stack[Len(stack)]
    BY <1>1 DEF Top, Last
  <1> DEFINE f == [stack[Len(stack)] EXCEPT !.phase = "closed"]
  <1>6. /\ f \in FrameOf /\ f.kind = stack[Len(stack)].kind /\ f.lib = l /\ f.phase = "closed"
        /\ f.keeper = stack[Len(stack)].keeper /\ f.raised = stack[Len(stack)].raised
        /\ f.runs = stack[Len(stack)].runs /\ f.hosts = stack[Len(stack)].hosts
    BY <1>3, <1>4 DEF FrameOf
  <1>7. stack' = [stack EXCEPT ![Len(stack)] = f]
    BY <1>1, <1>2
  <1> HIDE DEF f
  <1>8. /\ stack' \in Seq(FrameOf) /\ Len(stack') = Len(stack) /\ stack'[Len(stack)] = f
        /\ \A n \in 1..Len(stack) : n # Len(stack) => stack'[n] = stack[n]
    BY <1>2, <1>6, <1>7
  <1>9. \A n \in 1..Len(stack) :
            /\ stack'[n].kind = stack[n].kind /\ stack'[n].lib = stack[n].lib
            /\ stack'[n].keeper = stack[n].keeper /\ stack'[n].raised = stack[n].raised
            /\ stack'[n].runs = stack[n].runs /\ stack'[n].hosts = stack[n].hosts
            /\ n # Len(stack) => stack'[n].phase = stack[n].phase
    BY <1>3, <1>6, <1>8
  <1>10. Framed(stack')
    <2> SUFFICES ASSUME NEW n \in 1..Len(stack) PROVE FrameStands(stack', n)
      BY <1>8 DEF Framed
    <2>1. FrameStands(stack, n)
      BY DEF Framed
    <2>2. stack[n].keeper \in 1..Len(stack)
      BY <1>2, <2>1 DEF FrameStands
    <2>3. stack[n].kind = "host" => n - 1 \in 1..Len(stack)
      BY <1>2, <2>1 DEF FrameStands
    <2> QED BY <1>5, <1>8, <1>9, <2>1, <2>2, <2>3, SMTT(30) DEF FrameStands
  <1>11. \A m, n : IsOpen(stack', m, n) <=> (IsOpen(stack, m, n) /\ n # Len(stack))
    BY <1>6, <1>8, <1>9 DEF IsOpen
  <1>12. IsOpen(stack, l, Len(stack))
    BY <1>2, <1>3, <1>5 DEF IsOpen
  <1>13. scopes \in [Lib -> Seq(Nat)]
    BY DEF Types
  <1>14. scopes[l] # <<>> /\ Last(scopes[l]) = Len(stack)
    <2>1. /\ scopes[l] # <<>> /\ Len(stack) <= Last(scopes[l]) /\ Last(scopes[l]) \in Nat
          /\ IsOpen(stack, l, Last(scopes[l]))
      BY <1>12, <1>13, Innermost
    <2> QED BY <1>2, <2>1 DEF IsOpen
  <1>15. /\ scopes' = [scopes EXCEPT ![l] = Front(@)]
         /\ reads' = {r \in reads : ~(r.lib = l /\ r.scope = Len(stack))}
         /\ unwinding' = unwinding
    BY <1>2, <1>3, <1>5, <1>14 DEF CloseBracket
  <1>16. Scoped(stack', scopes')
    BY <1>8, <1>11, <1>12, <1>13, <1>14, <1>15, ScopedClose
  <1>17. ReadIn(stack', rooms', reads')
    <2> SUFFICES ASSUME NEW r \in reads, ~(r.lib = l /\ r.scope = Len(stack))
                 PROVE  r.keeper \in rooms /\ r.keeper <= r.scope /\ IsOpen(stack', r.lib, r.scope)
      BY <1>1, <1>15 DEF ReadIn
    <2>1. r.keeper \in rooms /\ r.keeper <= r.scope /\ IsOpen(stack, r.lib, r.scope)
      BY DEF ReadIn
    <2>2. r.scope # Len(stack)
      BY <1>3, <2>1 DEF IsOpen
    <2> QED BY <1>11, <2>1, <2>2
  <1>18. Registered(stack', OPEN', CALLS')
    <2>1. Len(stack) \in Nat /\ Len(stack') = Len(stack) /\ OPEN' = OPEN /\ CALLS' = CALLS
      BY <1>1, <1>2, <1>8
    <2>2. \A n \in 1..Len(stack) : /\ stack'[n].kind = stack[n].kind /\ stack'[n].lib = stack[n].lib
                                   /\ stack'[n].keeper = stack[n].keeper
      BY <1>9
    <2>3. Registered(stack', OPEN, CALLS)
      BY <2>1, <2>2, RegisteredAs, Zenon
    <2> QED BY <2>1, <2>3
  <1>19. CallsHold(stack', CALLS')
    <2>1. Of(stack', "call") = Of(stack, "call") /\ Of(stack, "call") \subseteq 1..Len(stack)
      BY <1>8, <1>9 DEF Of
    <2>2. ASSUME NEW n \in 1..Len(stack) PROVE Nth(stack', n) = Nth(stack, n)
      <3>1. \A j \in 1..n : j \in 1..Len(stack)
        BY <1>2
      <3>2. {j \in 1..n : stack'[j].kind = stack'[n].kind} = {j \in 1..n : stack[j].kind = stack[n].kind}
        BY <1>9, <3>1
      <3> QED BY <3>2 DEF Nth
    <2>3. ASSUME NEW n \in Of(stack, "call") PROVE CALLS[Nth(stack', n)].caught = First(stack'[n].raised)
      <3>1. n \in 1..Len(stack) /\ CALLS[Nth(stack, n)].caught = First(stack[n].raised)
        BY <2>1 DEF CallsHold
      <3> QED BY <1>9, <2>2, <3>1
    <2>4. CALLS' = CALLS
      BY <1>1
    <2> QED BY <2>1, <2>3, <2>4 DEF CallsHold
  <1>20. Types'
    <2>1. scopes' \in [Lib -> Seq(Nat)]
      <3>1. Front(scopes[l]) \in Seq(Nat)
        BY <1>13, <1>14, FrontIs
      <3> QED BY <1>13, <1>15, <3>1
    <2>2. reads' \subseteq Reader
      BY <1>15 DEF Types
    <2> QED BY <1>1, <1>8, <1>15, <2>1, <2>2 DEF Types
  <1> QED BY <1>10, <1>16, <1>17, <1>18, <1>19, <1>20
\* A failure left for the innermost call: it is the first the call holds, or
\* the call holds the one it held.
LEMMA LeftStep ==
    ASSUME IInv, stack # <<>>, Top.kind = "host", NEW f \in Failed, Left(f),
           unwinding' \in Caught, unwinding'.how \in {"none", "panicked"},
           UNCHANGED <<OPEN, scopes, rooms, reads>>
    PROVE  IInv'
  <1> USE DEF IInv
  <1>1. stack \in Seq(FrameOf) /\ CALLS \in Seq(CallOf)
    BY DEF Types
  <1>2. PICK u : u = Front(stack)
    OBVIOUS
  <1>3. /\ u \in Seq(FrameOf) /\ Over(u, stack) /\ Len(u) \in Nat /\ Len(stack) = Len(u) + 1
        /\ \A n \in 1..Len(u) : stack[n] = u[n]
    <2>1. Topped(u, stack[Len(stack)], stack)
      BY <1>1, <1>2, PopOver, Zenon
    <2> QED BY <2>1 DEF Topped
  <1>4. PICK d : d = Len(u)
    OBVIOUS
  <1>5. stack[Len(stack)].kind = "host"
    BY DEF Top, Last
  <1>6. d \in Nat \ {0} /\ d \in 1..Len(u) /\ u[d].kind = "call" /\ u # <<>>
    <2>1. FrameStands(stack, Len(stack))
      BY <1>3 DEF Framed
    <2>2. Len(stack) > 1 /\ stack[Len(stack) - 1].kind = "call"
      BY <1>5, <2>1 DEF FrameStands
    <2> QED BY <1>3, <1>4, <2>2
  <1>7. u[d] \in FrameOf /\ u[d].raised \in Seq(Failed)
    BY <1>3, <1>6, FrameAt
  <1> DEFINE R == IF Len(u[d].raised) < MaxRaised THEN Append(u[d].raised, f) ELSE u[d].raised
             g == [u[d] EXCEPT !.raised = R]
  <1>8. R \in Seq(Failed)
    BY <1>7
  <1>9. Nothing \notin Failed
    BY DEF Nothing, Failed
  <1>10. First(R) = IF First(u[d].raised) = Nothing THEN f ELSE First(u[d].raised)
    <2>1. CASE u[d].raised = <<>>
      BY <1>7, <2>1, BoundsAssumption DEF First
    <2>2. CASE u[d].raised # <<>>
      <3>1. Len(u[d].raised) \in Nat \ {0} /\ u[d].raised[1] \in Failed
        BY <1>7, <2>2, EmptySeq
      <3>2. R # <<>> /\ R[1] = u[d].raised[1]
        BY <1>7, <2>2, <3>1
      <3> HIDE DEF R
      <3> QED BY <1>9, <2>2, <3>1, <3>2 DEF First
    <2> QED BY <2>1, <2>2
  <1>11. stack' = [u EXCEPT ![d] = g]
    <2>1. Depth - 1 = d
      BY <1>3, <1>4 DEF Depth
    <2> QED BY <1>2, <2>1 DEF Left
  <1> HIDE DEF R
  <1>12. /\ g \in FrameOf /\ g.kind = u[d].kind /\ g.lib = u[d].lib /\ g.keeper = u[d].keeper
         /\ g.phase = u[d].phase /\ g.runs = u[d].runs /\ g.hosts = u[d].hosts /\ g.raised = R
    BY <1>7, <1>8 DEF FrameOf
  <1> HIDE DEF g
  <1>13. /\ stack' \in Seq(FrameOf) /\ Len(stack') = Len(u) /\ stack'[d] = g
         /\ \A n \in 1..Len(u) : n # d => stack'[n] = u[n]
    BY <1>3, <1>6, <1>11, <1>12
  <1>14. \A n \in 1..Len(u) :
            /\ stack'[n].kind = u[n].kind /\ stack'[n].lib = u[n].lib /\ stack'[n].keeper = u[n].keeper
            /\ stack'[n].phase = u[n].phase /\ stack'[n].runs = u[n].runs /\ stack'[n].hosts = u[n].hosts
            /\ n # d => stack'[n].raised = u[n].raised
    BY <1>12, <1>13
  <1>15. Over(stack', stack)
    <2>1. \A n \in 1..Len(u) : stack[n] = u[n]
      BY <1>3
    <2> QED BY <1>3, <1>13, <1>14, <2>1 DEF Over
  <1>16. Framed(stack')
    BY <1>15, PopFramed
  <1>17. \A m, n : IsOpen(stack, m, n) <=> IsOpen(stack', m, n)
    <2>1. ~(stack[Len(stack)].kind \in Runs)
      BY <1>5 DEF Runs
    <2> QED BY <1>15, <2>1, OpenStays
  <1>18. Scoped(stack', scopes')
    BY <1>17, ScopedStays
  <1>19. ReadIn(stack', rooms', reads')
    BY <1>17, ReadStays
  <1>20. CallsSay(stack, CALLS) /\ OpenSays(stack, OPEN)
    BY BothSay
  <1>21. CallsSay(u, CALLS) /\ CallsHold(u, CALLS)
    BY <1>3, <1>5, <1>20, OtherCalls, OtherHold
  <1>22. PICK v : v = Front(u)
    OBVIOUS
  <1>23. Over(v, u)
    <2>1. Topped(v, u[Len(u)], u)
      BY <1>3, <1>6, <1>22, PopOver, Zenon
    <2> QED BY <2>1 DEF Topped
  <1>24. Len(CALLS) \in Nat \ {0} /\ Nth(u, d) = Len(CALLS) /\ d \in Of(u, "call")
    BY <1>4, <1>6, <1>21, <1>23, TopCall
  <1>25. \A n \in Of(u, "call") : n \in 1..Len(u) /\ (n # d => Nth(u, n) \in 1..(Len(CALLS) - 1))
    <2>1. /\ Of(u, "call") = Of(v, "call") \cup {d}
          /\ Cardinality(Of(u, "call")) = Cardinality(Of(v, "call")) + 1
          /\ Cardinality(Of(v, "call")) \in Nat
          /\ \A n \in Of(v, "call") : Nth(u, n) = Nth(v, n) /\ Nth(v, n) \in 1..Cardinality(Of(v, "call"))
      BY <1>4, <1>6, <1>23, Placed
    <2>2. Len(CALLS) = Cardinality(Of(v, "call")) + 1
      BY <1>21, <2>1 DEF CallsSay
    <2>3. Of(u, "call") \subseteq 1..Len(u)
      BY DEF Of
    <2> QED BY <2>1, <2>2, <2>3
  <1> DEFINE e == CALLS[Len(CALLS)]
             h == IF e.caught = Nothing THEN f ELSE e.caught
             c == [e EXCEPT !.caught = h]
  <1>26. CALLS' = [CALLS EXCEPT ![Len(CALLS)] = c]
    BY DEF Left, Keeps
  <1>27. e \in CallOf /\ h \in Caught /\ e.caught = First(u[d].raised)
    <2>1. e \in CallOf
      BY <1>1, <1>24
    <2>2. h \in Caught
      BY <2>1 DEF CallOf, Caught
    <2>3. e.caught = First(u[d].raised)
      BY <1>21, <1>24 DEF CallsHold
    <2> QED BY <2>1, <2>2, <2>3
  <1>28. h = First(R)
    BY <1>10, <1>27
  <1> HIDE DEF h
  <1>29. c \in CallOf /\ c.runtime = e.runtime /\ c.keeper = e.keeper /\ c.caught = h
    BY <1>27 DEF CallOf
  <1> HIDE DEF c
  <1>30. /\ CALLS' \in Seq(CallOf) /\ Len(CALLS') = Len(CALLS) /\ CALLS'[Len(CALLS)] = c
         /\ \A n \in 1..Len(CALLS) : n # Len(CALLS) => CALLS'[n] = CALLS[n]
    BY <1>1, <1>24, <1>26, <1>29
  <1>31. \A n \in 1..Len(CALLS) : CALLS'[n].runtime = CALLS[n].runtime /\ CALLS'[n].keeper = CALLS[n].keeper
    BY <1>29, <1>30
  <1>32. Registered(stack', OPEN', CALLS')
    <2>1. Registered(u, OPEN, CALLS)
      BY <1>3, <1>5, <1>20, <1>21, OtherOpen, BothSay
    <2>2. \A n \in 1..Len(u) : /\ stack'[n].kind = u[n].kind /\ stack'[n].lib = u[n].lib
                               /\ stack'[n].keeper = u[n].keeper
      BY <1>14
    <2>3. Len(u) \in Nat /\ Len(stack') = Len(u) /\ Len(CALLS') = Len(CALLS)
      BY <1>3, <1>13, <1>30
    <2>4. Registered(stack', OPEN, CALLS')
      BY <1>31, <2>1, <2>2, <2>3, RegisteredAs, Zenon
    <2> QED BY <2>4
  <1>33. CallsHold(stack', CALLS')
    <2>1. Of(stack', "call") = Of(u, "call")
      BY <1>13, <1>14 DEF Of
    <2>2. ASSUME NEW n \in 1..Len(u) PROVE Nth(stack', n) = Nth(u, n)
      <3>1. \A j \in 1..n : j \in 1..Len(u)
        BY <1>3
      <3>2. {j \in 1..n : stack'[j].kind = stack'[n].kind} = {j \in 1..n : u[j].kind = u[n].kind}
        BY <1>14, <3>1
      <3> QED BY <3>2 DEF Nth
    <2>3. ASSUME NEW n \in Of(u, "call") PROVE CALLS'[Nth(stack', n)].caught = First(stack'[n].raised)
      <3>1. n \in 1..Len(u) /\ Nth(stack', n) = Nth(u, n)
        BY <1>25, <2>2
      <3>2. CASE n = d
        <4>1. CALLS'[Nth(stack', n)] = c /\ stack'[n] = g
          BY <1>13, <1>24, <1>30, <3>1, <3>2
        <4> QED BY <1>12, <1>28, <1>29, <4>1
      <3>3. CASE n # d
        <4>1. Nth(u, n) \in 1..Len(CALLS) /\ Nth(u, n) # Len(CALLS)
          BY <1>24, <1>25, <3>3
        <4>2. CALLS'[Nth(u, n)] = CALLS[Nth(u, n)] /\ stack'[n].raised = u[n].raised
          BY <1>14, <1>30, <3>1, <3>3, <4>1
        <4> QED BY <1>21, <3>1, <4>2 DEF CallsHold
      <3> QED BY <3>2, <3>3
    <2> QED BY <2>1, <2>3 DEF CallsHold
  <1>34. Types'
    BY <1>13, <1>30 DEF Types
  <1> QED BY <1>16, <1>18, <1>19, <1>32, <1>33, <1>34

LEMMA HostFailsStep ==
    ASSUME IInv, NEW f \in Failed, HostFails(f)
    PROVE  IInv'
  <1>1. /\ stack # <<>> /\ Top.kind = "host" /\ Left(f)
        /\ UNCHANGED <<OPEN, scopes, rooms, reads>> /\ unwinding' = unwinding
    BY DEF HostFails
  <1>2. unwinding' \in Caught /\ unwinding'.how \in {"none", "panicked"}
    BY <1>1 DEF IInv, Types
  <1> QED BY <1>1, <1>2, LeftStep

LEMMA HostCaughtStep ==
    ASSUME IInv, HostCaught
    PROVE  IInv'
  <1>1. /\ stack # <<>> /\ Top.kind = "host" /\ Left(unwinding) /\ unwinding # Nothing
        /\ UNCHANGED <<OPEN, scopes, rooms, reads>> /\ unwinding' = Nothing
    BY DEF HostCaught
  <1>2. unwinding' \in Caught /\ unwinding'.how \in {"none", "panicked"}
    BY <1>1 DEF Caught, Nothing
  <1>3. unwinding \in Failed
    BY <1>1 DEF IInv, Types, Caught
  <1> QED BY <1>1, <1>2, <1>3, LeftStep
-----------------------------------------------------------------------------
(* The theorems.                                                           *)

LEMMA InitIInv == Init => IInv
  <1> SUFFICES ASSUME Init PROVE IInv
    OBVIOUS
  <1>1. /\ stack = <<>> /\ OPEN = <<>> /\ CALLS = <<>> /\ scopes = [l \in Lib |-> <<>>]
        /\ rooms = {} /\ reads = {} /\ unwinding = Nothing
    BY DEF Init
  <1>2. Types
    BY <1>1 DEF Types, Caught, Nothing
  <1>3. Framed(stack) /\ ReadIn(stack, rooms, reads)
    BY <1>1 DEF Framed, ReadIn
  <1>4. Scoped(stack, scopes)
    BY <1>1 DEF Scoped, ScopedAt
  <1>5. \A kind : Of(stack, kind) = {}
    BY <1>1 DEF Of
  <1>6. Cardinality({}) = 0
    BY FS_EmptySet
  <1>7. Registered(stack, OPEN, CALLS)
    <2>1. Cardinality(Of(stack, "call")) = 0 /\ Cardinality(Of(stack, "run")) = 0
      BY <1>5, <1>6
    <2>2. IsInjective(OPEN)
      BY <1>1 DEF IsInjective
    <2>3. Len(OPEN) = 0 /\ Len(CALLS) = 0
      BY <1>1
    <2> QED BY <1>5, <2>1, <2>2, <2>3 DEF Registered
  <1>8. CallsHold(stack, CALLS)
    BY <1>5 DEF CallsHold
  <1> QED BY <1>2, <1>3, <1>4, <1>7, <1>8 DEF IInv

LEMMA NextIInv == IInv /\ [Next]_vars => IInv'
  <1> SUFFICES ASSUME IInv, [Next]_vars PROVE IInv'
    OBVIOUS
  <1>1. ASSUME NEW l \in Lib, EnterRun(l) PROVE IInv'
    BY <1>1, EnterRunStep
  <1>2. ASSUME NEW l \in Lib, CallBackOutside(l) PROVE IInv'
    BY <1>2 DEF CallBackOutside, IInv, Types
  <1>3. ASSUME NEW i \in 1..Depth, EnterScope(i) PROVE IInv'
    BY <1>3, EnterScopeStep
  <1>4. ASSUME NEW i \in 1..Depth, HostFunction(i) PROVE IInv'
    BY <1>4, HostFunctionStep
  <1>5. ASSUME NEW i \in 1..Depth, NEW bound \in Bindings,
               NEW given \in {{}} \cup {{j} : j \in 1..Depth}, Call(i, bound, given)
        PROVE  IInv'
    BY <1>5, CallStep
  <1>6. ASSUME NEW l \in Lib, CallBack(l) PROVE IInv'
    BY <1>6, CallBackStep
  <1>7. ASSUME NEW function \in BOOLEAN, HostAnswers(function) PROVE IInv'
    BY <1>7, HostAnswersStep
  <1>8. ASSUME NEW f \in Failed, HostFails(f) PROVE IInv'
    BY <1>8, HostFailsStep
  <1>9. ASSUME NEW status \in Statuses, Return(status) PROVE IInv'
    BY <1>9, ReturnStep
  <1>10. ASSUME NEW p \in Payload, Panics(p) PROVE IInv'
    BY <1>10, PanicsStep
  <1>11. ASSUME NEW p \in Payload, NativePanics(p) PROVE IInv'
    BY <1>11, NativePanicsStep
  <1>12. CASE HostCaught
    BY <1>12, HostCaughtStep
  <1>13. CASE CloseBracket
    BY <1>13, CloseBracketStep
  <1>14. CASE DropRun
    BY <1>14, DropRunStep
  <1>15. CASE Leaves
    BY <1>15, LeavesStep
  <1>16. CASE UNCHANGED vars
    BY <1>16 DEF vars, IInv, Types
  <1> QED BY <1>1, <1>2, <1>3, <1>4, <1>5, <1>6, <1>7, <1>8, <1>9, <1>10, <1>11, <1>12, <1>13,
             <1>14, <1>15, <1>16, Zenon DEF Next

LEMMA Inductive == Spec => []IInv
  <1> QED BY InitIInv, NextIInv, PTL DEF Spec

\* The thread's registers say what is on the stack, however deep it is and
\* whatever was refused, failed or panicked on the way (run.rs: OPEN, CALLS).
THEOREM RegistersFollow == Spec => []RegistersFollowTheStack
  <1>1. IInv => RegistersFollowTheStack
    <2> SUFFICES ASSUME IInv PROVE RegistersFollowTheStack
      OBVIOUS
    <2>1. \A kind : Standing(kind) = Of(stack, kind)
      BY DEF Standing, Of, Depth
    <2>2. \A i : Ordinal(i) = Nth(stack, i)
      BY DEF Ordinal, Nth
    <2>3. Registered(stack, OPEN, CALLS)
      BY DEF IInv
    <2> QED BY <2>1, <2>2, <2>3 DEF Registered, RegistersFollowTheStack
  <1> QED BY <1>1, Inductive, PTL

\* The run that ends next is the innermost scope of its library's arena, so
\* the library never refuses to close it (run.rs, Bracket::drop).
THEOREM ClosesInnermost == Spec => []ClosesTheInnermost
  <1>1. IInv => ClosesTheInnermost
    <2> SUFFICES ASSUME IInv, NEW i \in 1..Depth, stack[i].kind \in Runs, stack[i].phase = "in",
                        \A j \in (i + 1)..Depth : stack[j].lib # stack[i].lib \/ stack[j].kind \notin Runs
                 PROVE  scopes[stack[i].lib] # <<>> /\ Last(scopes[stack[i].lib]) = i
      BY DEF ClosesTheInnermost
    <2>1. stack \in Seq(FrameOf) /\ scopes \in [Lib -> Seq(Nat)] /\ Len(stack) \in Nat /\ Depth = Len(stack)
      BY DEF IInv, Types, Depth
    <2>2. PICK l \in Lib : l = stack[i].lib
      BY <2>1, FrameAt
    <2>3. IsOpen(stack, l, i)
      BY <2>1, <2>2 DEF IsOpen
    <2>4. /\ scopes[l] # <<>> /\ i <= Last(scopes[l]) /\ IsOpen(stack, l, Last(scopes[l]))
          /\ Last(scopes[l]) \in Nat
      BY <2>1, <2>3, Innermost DEF IInv
    <2>5. Last(scopes[l]) = i
      BY <2>1, <2>2, <2>4 DEF IsOpen
    <2> QED BY <2>2, <2>4, <2>5
  <1> QED BY <1>1, Inductive, PTL

\* Nothing in an arena reads a room that has been freed (run.rs, the order in
\* which a run's parts are dropped).
THEOREM RoomsOutlive == Spec => []RoomsOutliveTheirReaders
  <1>1. IInv => RoomsOutliveTheirReaders
    BY DEF IInv, ReadIn, RoomsOutliveTheirReaders
  <1> QED BY <1>1, Inductive, PTL

\* A call runs one library's code over its own arena, however deep the
\* behavior it was made through is bound (bound.rs, Bound::new).
THEOREM OneLibrary == Spec => []OneLibraryInACall
  <1>1. IInv => OneLibraryInACall
    BY DEF IInv, Framed, FrameStands, OneLibraryInACall, Depth
  <1> QED BY <1>1, Inductive, PTL

\* What a call that no implementation failed under comes to.
Fine == {<<"Ok">>, <<"Abort">>, <<"Unbound">>, <<"ProtocolViolation">>}

\* What a call holds is what Statuses::answered makes its answer of.
LEMMA AnsweredOf ==
    /\ \A status \in Statuses : Answered(status, Nothing) \in Fine
    /\ \A status \in Statuses : \A f \in Failed :
            f.how # "panicked" => Answered(status, f) = Answered("ANSWERED", f)
  <1>1. ASSUME NEW status \in Statuses
        PROVE  Answered(status, Nothing) \in Fine
    BY DEF Answered, Nothing, Statuses, Fine
  <1>2. ASSUME NEW status \in Statuses, NEW f \in Failed, f.how # "panicked"
        PROVE  Answered(status, f) = Answered("ANSWERED", f)
    <2>1. CASE f.how = "host"
      BY <2>1 DEF Answered
    <2>2. CASE f.how = "crossing"
      BY <2>2 DEF Answered
    <2> QED BY <1>2, <2>1, <2>2 DEF Failed
  <1> QED BY <1>1, <1>2

\* A call comes to the first failure an implementation it called back left, a
\* panic or an error, whatever status the library answers and whatever was
\* nested in between; and where none failed it comes to none (run.rs: OpenCall,
\* caught).
THEOREM FirstFailure == Spec => FirstFailureAnswers
  <1>1. ASSUME IInv, [Next]_vars PROVE [Returns => ComesTo(Top.raised)]_vars
    <2> SUFFICES ASSUME Next, Returns
                 PROVE  ComesTo(Top.raised)
      BY <1>1
    <2>1. InLibrary /\ ~InHost /\ stack # <<>> /\ Top.kind = "call" /\ unwinding = Nothing
      BY DEF Returns, InLibrary, InHost
    <2>2. stack \in Seq(FrameOf) /\ Len(stack) \in Nat /\ Len(stack') < Len(stack) /\ Len(stack) \in 1..Len(stack)
      BY <1>1, <2>1, EmptySeq DEF IInv, Types, Returns, Depth
    <2>3. \A l \in Lib : ~CallBack(l)
      BY <2>2 DEF CallBack
    <2>4. \A p \in Payload : ~NativePanics(p)
      BY DEF NativePanics, Returns
    <2>5. PICK status \in Statuses : Return(status)
      <3>1. Top.kind # "host" /\ Top.kind \notin Runs
        BY <2>1 DEF Runs
      <3>2. /\ \A l \in Lib : ~EnterRun(l) /\ ~CallBackOutside(l)
            /\ \A i \in 1..Depth : ~EnterScope(i) /\ ~HostFunction(i)
            /\ \A function \in BOOLEAN : ~HostAnswers(function)
            /\ \A p \in Payload : ~Panics(p)
        BY <2>1, Zenon DEF EnterRun, CallBackOutside, EnterScope, HostFunction, HostAnswers, Panics
      <3>3. \A i \in 1..Depth, bound \in Bindings, given \in {{}} \cup {{j} : j \in 1..Depth} :
                ~Call(i, bound, given)
        BY <2>1, Zenon DEF Call
      <3>4. (\A f \in Failed : ~HostFails(f)) /\ ~HostCaught /\ ~CloseBracket /\ ~DropRun /\ ~Leaves
        BY <2>1, <3>1, Zenon DEF HostFails, HostCaught, CloseBracket, DropRun, Leaves
      <3> QED BY <2>3, <2>4, <3>2, <3>3, <3>4, Zenon DEF Next
    <2>6. Last(CALLS).caught = First(Top.raised)
      BY <1>1, <2>1, InnermostCall
    <2>7. Top.raised \in Seq(Failed)
      BY <2>2, FrameAt DEF Top, Last
    <2>8. CASE Top.raised = <<>>
      <3>1. Last(CALLS).caught = Nothing
        BY <2>6, <2>8 DEF First
      <3>2. unwinding' = Nothing /\ answer' = Answered(status, Nothing)
        BY <2>1, <2>5, <3>1 DEF Return, Nothing
      <3>3. answer' \in Fine
        BY <3>2, AnsweredOf
      <3> QED BY <2>8, <3>2, <3>3 DEF ComesTo, Fine
    <2>9. CASE Top.raised # <<>>
      <3>1. Last(CALLS).caught = Top.raised[1] /\ Top.raised[1] \in Failed
        BY <2>6, <2>7, <2>9, EmptySeq DEF First
      <3>2. CASE Top.raised[1].how = "panicked"
        <4>1. unwinding' = Top.raised[1] /\ answer' = <<"raised">>
          BY <2>5, <3>1, <3>2 DEF Return
        <4> QED BY <2>9, <3>2, <4>1 DEF ComesTo
      <3>3. CASE Top.raised[1].how # "panicked"
        <4>1. unwinding' = Nothing /\ answer' = Answered(status, Top.raised[1])
          BY <2>1, <2>5, <3>1, <3>3 DEF Return
        <4>2. answer' = Answered("ANSWERED", Top.raised[1])
          BY <3>1, <3>3, <4>1, AnsweredOf
        <4> QED BY <2>9, <3>3, <4>1, <4>2 DEF ComesTo
      <3> QED BY <3>2, <3>3
    <2> QED BY <2>8, <2>9
  <1>2. IInv /\ [Next]_vars => [Returns => ComesTo(Top.raised)]_vars
    BY <1>1
  <1> QED BY <1>2, Inductive, PTL DEF Spec, FirstFailureAnswers
=============================================================================
