--------------------------- MODULE PhpRun_proofs ---------------------------
(***************************************************************************)
(* What is proved of PhpRun, for every set of libraries, of fibers and of  *)
(* what may be thrown, and every bound on the stacks and the runs.         *)
(***************************************************************************)
EXTENDS PhpRun, SequenceTheorems, WellFoundedInduction, TLAPS

-----------------------------------------------------------------------------
(* The inductive invariant.                                                *)

SessionOf == [order : Nat, library : Lib, fiber : Fiber]
FrameOf ==
    [kind : {"run", "call", "implementation", "ending"}, session : SessionOf,
     left : Thrown \cup {None}]
ValueOf == [session : SessionOf, scope : Nat]

Types ==
    /\ current \in Fiber
    /\ stack \in [Fiber -> Seq(FrameOf)]
    /\ open \in [Lib -> Seq(SessionOf)]
    /\ holder \in [Lib -> Fiber]
    /\ active \in SUBSET SessionOf /\ keeping \in SUBSET SessionOf
    /\ opened \in Nat
    /\ scopes \in [Lib -> Seq(Nat)]
    /\ pending \in Thrown \cup {None}
    /\ failed \in [left : Thrown \cup {None}, thrown : Thrown \cup {None}]

\* Frame i of a stack is the body of a run, and of one of l.
IsRun(s, i) == i \in 1..Len(s) /\ s[i].kind = "run"
RunAt(s, i, l) == IsRun(s, i) /\ s[i].session.library = l

\* What stands in frame i of the stack of fiber f: a run is of the fiber it was
\* started on; a call was made in the innermost run of its library below it,
\* and what stands on a call is what it called back; only the innermost call
\* knows of what was thrown.
FrameStands(s, f, i) ==
    /\ s[i].kind = "run" => s[i].session.fiber = f
    /\ s[i].kind = "call" =>
            \E j \in 1..(i - 1) :
                /\ s[j].kind = "run" /\ s[j].session = s[i].session
                /\ \A k \in (j + 1)..(i - 1) : ~RunAt(s, k, s[i].session.library)
    /\ s[i].kind = "implementation" => i > 1 /\ s[i - 1].kind = "call"
    /\ s[i].kind = "call" /\ i < Len(s) => s[i + 1].kind = "implementation"
    /\ s[i].left # None => i = Len(s) /\ s[i].kind = "call"

StackStands(s, f) == \A i \in 1..Len(s) : FrameStands(s, f, i)

\* The runs of a stack were started in the order they nest there, n of them at
\* the most so far.
Ordered(s, n) ==
    /\ \A i : IsRun(s, i) => s[i].session.order <= n
    /\ \A i, j : IsRun(s, i) /\ IsRun(s, j) /\ i < j => s[i].session.order < s[j].session.order

\* A fiber that is not running was left in the host's code.
Waits(s) == s # <<>> => s[Len(s)].kind # "call"

\* The runs `at` that a library has going are those of the stack s.
Follows(s, at, l) ==
    /\ \A m \in 1..Len(at) : \E i : RunAt(s, i, l) /\ s[i].session = at[m]
    /\ \A i : RunAt(s, i, l) => \E m \in 1..Len(at) : at[m] = s[i].session
    /\ \A m, k \in 1..Len(at) : m < k => at[m].order < at[k].order

Stacks == \A f \in Fiber : StackStands(stack[f], f) /\ Ordered(stack[f], opened)
Others == \A f \in Fiber : f # current => Waits(stack[f])
OneFiber == \A l \in Lib, f \in Fiber : f # holder[l] => \A i : ~RunAt(stack[f], i, l)
OpenFollows == \A l \in Lib : Follows(stack[holder[l]], open[l], l)
ActiveAreOpen ==
    \A s : s \in active <=> s \in SessionOf /\ \E m \in 1..Len(open[s.library]) : open[s.library][m] = s
Pends ==
    /\ failed.left = failed.thrown
    /\ pending = IF Here # <<>> /\ Top.kind = "call" THEN Top.left ELSE None

IInv ==
    Types /\ Stacks /\ Others /\ OneFiber /\ OpenFollows /\ ActiveAreOpen /\ Pends

-----------------------------------------------------------------------------
(* Sequences that grow and shrink at their end.                            *)

LEMMA AppendIs ==
    ASSUME NEW S, NEW s \in Seq(S), NEW e \in S
    PROVE  /\ Append(s, e) \in Seq(S)
           /\ Len(s) \in Nat /\ Len(Append(s, e)) = Len(s) + 1
           /\ \A n \in 1..Len(s) : Append(s, e)[n] = s[n]
           /\ Append(s, e)[Len(s) + 1] = e
  OBVIOUS

LEMMA FrontIs ==
    ASSUME NEW S, NEW s \in Seq(S), s # <<>>
    PROVE  /\ Front(s) \in Seq(S)
           /\ Len(s) \in Nat \ {0} /\ Len(Front(s)) = Len(s) - 1
           /\ \A n \in 1..(Len(s) - 1) : Front(s)[n] = s[n]
           /\ s[Len(s)] \in S
  <1>1. Len(s) \in Nat \ {0}
    BY EmptySeq
  <1>2. PICK m \in Nat : m = Len(s) - 1
    BY <1>1
  <1>3. \A n \in 1..m : s[n] \in S
    BY <1>1, <1>2
  <1>4. SubSeq(s, 1, m) \in Seq(S)
    BY <1>3, SubSeqProperties
  <1>5. Len(SubSeq(s, 1, m)) = m /\ \A n \in 1..m : SubSeq(s, 1, m)[n] = s[n]
    <2>1. m \in Nat /\ m < Len(s)
      BY <1>1, <1>2
    <2>2. Len(SubSeq(s, 1, m)) = m
      BY <2>1, <1>3
    <2>3. \A n \in 1..m : SubSeq(s, 1, m)[n] = s[n]
      BY <2>1, <1>3
    <2> QED BY <2>2, <2>3
  <1>6. s[Len(s)] \in S
    BY <1>1
  <1> QED BY <1>1, <1>2, <1>4, <1>5, <1>6 DEF Front

\* A sequence t of what s has and e after it.
Topped(S, s, e, t) ==
    /\ s \in Seq(S) /\ t \in Seq(S) /\ e \in S /\ Len(s) \in Nat
    /\ Len(t) = Len(s) + 1 /\ t[Len(t)] = e /\ t # <<>>
    /\ \A i \in 1..Len(s) : t[i] = s[i]

LEMMA PushTopped ==
    ASSUME NEW S, NEW s \in Seq(S), NEW e \in S, NEW t, t = Append(s, e)
    PROVE  Topped(S, s, e, t)
  BY AppendIs DEF Topped

LEMMA PopTopped ==
    ASSUME NEW S, NEW t \in Seq(S), t # <<>>, NEW s, s = Front(t)
    PROVE  Topped(S, s, t[Len(t)], t)
  <1>1. /\ s \in Seq(S)
        /\ Len(t) \in Nat \ {0} /\ Len(s) = Len(t) - 1
        /\ \A n \in 1..(Len(t) - 1) : s[n] = t[n]
        /\ t[Len(t)] \in S
    BY FrontIs
  <1> QED BY <1>1 DEF Topped

LEMMA FrameAt ==
    ASSUME NEW s \in Seq(FrameOf), NEW i \in 1..Len(s)
    PROVE  /\ s[i] \in FrameOf /\ s[i].kind \in {"run", "call", "implementation", "ending"}
           /\ s[i].session \in SessionOf /\ s[i].left \in Thrown \cup {None}
           /\ s[i].session.order \in Nat /\ s[i].session.library \in Lib /\ s[i].session.fiber \in Fiber
  <1>1. s[i] \in FrameOf
    OBVIOUS
  <1>2. s[i].session \in SessionOf
    BY <1>1 DEF FrameOf
  <1> QED BY <1>1, <1>2 DEF FrameOf, SessionOf

-----------------------------------------------------------------------------
(* What a frame more or less does to a stack.                              *)

LEMMA PushStands ==
    ASSUME NEW s, NEW e, NEW t, NEW f, Topped(FrameOf, s, e, t), StackStands(s, f),
           s # <<>> => /\ s[Len(s)].left = None
                       /\ s[Len(s)].kind = "call" => e.kind = "implementation",
           FrameStands(t, f, Len(t))
    PROVE  StackStands(t, f)
  <1> SUFFICES ASSUME NEW i \in 1..Len(s) PROVE FrameStands(t, f, i)
    BY DEF StackStands, Topped
  <1>1. FrameStands(s, f, i) /\ t[i] = s[i] /\ i # Len(t) /\ Len(s) \in Nat /\ Len(t) = Len(s) + 1
    BY DEF StackStands, Topped
  <1>2. \A k \in 1..(i - 1) : t[k] = s[k] /\ \A l : RunAt(t, k, l) <=> RunAt(s, k, l)
    BY <1>1 DEF Topped, RunAt, IsRun
  <1>3. t[i].kind = "run" => t[i].session.fiber = f
    BY <1>1 DEF FrameStands
  <1>4. ASSUME t[i].kind = "call"
        PROVE  \E j \in 1..(i - 1) :
                    /\ t[j].kind = "run" /\ t[j].session = t[i].session
                    /\ \A k \in (j + 1)..(i - 1) : ~RunAt(t, k, t[i].session.library)
    <2>1. PICK j \in 1..(i - 1) :
                    /\ s[j].kind = "run" /\ s[j].session = s[i].session
                    /\ \A k \in (j + 1)..(i - 1) : ~RunAt(s, k, s[i].session.library)
      BY <1>1, <1>4 DEF FrameStands
    <2>2. \A k \in (j + 1)..(i - 1) : k \in 1..(i - 1)
      OBVIOUS
    <2> QED BY <1>1, <1>2, <2>1, <2>2
  <1>5. t[i].kind = "implementation" => i > 1 /\ t[i - 1].kind = "call"
    <2>1. i > 1 => i - 1 \in 1..(i - 1)
      OBVIOUS
    <2> QED BY <1>1, <1>2, <2>1 DEF FrameStands
  <1>6. t[i].kind = "call" /\ i < Len(t) => t[i + 1].kind = "implementation"
    <2>1. CASE i < Len(s)
      <3>1. i + 1 \in 1..Len(s)
        BY <1>1, <2>1
      <3> QED BY <1>1, <2>1, <3>1 DEF FrameStands, Topped
    <2>2. CASE i = Len(s)
      <3>1. s # <<>>
        BY <1>1, <2>2
      <3> QED BY <1>1, <2>2, <3>1 DEF Topped
    <2> QED BY <1>1, <2>1, <2>2
  <1>7. t[i].left = None
    <2>1. CASE i < Len(s)
      BY <1>1, <2>1 DEF FrameStands
    <2>2. CASE i = Len(s)
      <3>1. s # <<>>
        BY <1>1, <2>2
      <3> QED BY <1>1, <2>2, <3>1
    <2> QED BY <1>1, <2>1, <2>2
  <1> QED BY <1>1, <1>3, <1>4, <1>5, <1>6, <1>7 DEF FrameStands

LEMMA PopStands ==
    ASSUME NEW s, NEW e, NEW t, NEW f, Topped(FrameOf, s, e, t), StackStands(t, f)
    PROVE  StackStands(s, f) /\ \A i \in 1..Len(s) : s[i].left = None
  <1> SUFFICES ASSUME NEW i \in 1..Len(s) PROVE FrameStands(s, f, i) /\ s[i].left = None
    BY DEF StackStands
  <1>1. /\ FrameStands(t, f, i) /\ t[i] = s[i] /\ i # Len(t) /\ i < Len(t) /\ Len(s) \in Nat
        /\ Len(t) = Len(s) + 1
    BY DEF StackStands, Topped
  <1>2. \A k \in 1..(i - 1) : t[k] = s[k] /\ \A l : RunAt(t, k, l) <=> RunAt(s, k, l)
    BY <1>1 DEF Topped, RunAt, IsRun
  <1>3. s[i].kind = "run" => s[i].session.fiber = f
    BY <1>1 DEF FrameStands
  <1>4. ASSUME s[i].kind = "call"
        PROVE  \E j \in 1..(i - 1) :
                    /\ s[j].kind = "run" /\ s[j].session = s[i].session
                    /\ \A k \in (j + 1)..(i - 1) : ~RunAt(s, k, s[i].session.library)
    <2>1. PICK j \in 1..(i - 1) :
                    /\ t[j].kind = "run" /\ t[j].session = t[i].session
                    /\ \A k \in (j + 1)..(i - 1) : ~RunAt(t, k, t[i].session.library)
      BY <1>1, <1>4 DEF FrameStands
    <2>2. \A k \in (j + 1)..(i - 1) : k \in 1..(i - 1)
      OBVIOUS
    <2> QED BY <1>1, <1>2, <2>1, <2>2
  <1>5. s[i].kind = "implementation" => i > 1 /\ s[i - 1].kind = "call"
    <2>1. i > 1 => i - 1 \in 1..(i - 1)
      OBVIOUS
    <2> QED BY <1>1, <1>2, <2>1 DEF FrameStands
  <1>6. s[i].kind = "call" /\ i < Len(s) => s[i + 1].kind = "implementation"
    <2>1. i < Len(s) => i + 1 \in 1..Len(s)
      BY <1>1
    <2> QED BY <1>1, <2>1 DEF FrameStands, Topped
  <1>7. s[i].left = None
    BY <1>1 DEF FrameStands
  <1> QED BY <1>3, <1>4, <1>5, <1>6, <1>7 DEF FrameStands

\* The runs on a stack are those on another, each where it was.
SameRuns(s, t) ==
    \A i : (IsRun(s, i) <=> IsRun(t, i)) /\ (IsRun(s, i) => s[i].session = t[i].session)

LEMMA ToppedRuns ==
    ASSUME NEW s, NEW e, NEW t, Topped(FrameOf, s, e, t), e.kind # "run"
    PROVE  SameRuns(s, t) /\ SameRuns(t, s)
  BY DEF SameRuns, IsRun, Topped

LEMMA RunsAgree ==
    ASSUME NEW s, NEW t, SameRuns(s, t)
    PROVE  /\ \A i, l : RunAt(s, i, l) <=> RunAt(t, i, l)
           /\ \A n : Ordered(s, n) => Ordered(t, n)
           /\ \A at, l : Follows(s, at, l) => Follows(t, at, l)
  <1>1. \A i, l : RunAt(s, i, l) <=> RunAt(t, i, l)
    BY DEF SameRuns, RunAt
  <1>2. ASSUME NEW n, Ordered(s, n) PROVE Ordered(t, n)
    BY <1>2 DEF Ordered, SameRuns
  <1>3. \A i, l : RunAt(t, i, l) => s[i].session = t[i].session
    BY DEF RunAt, SameRuns
  <1>4. ASSUME NEW at, NEW l, Follows(s, at, l) PROVE Follows(t, at, l)
    <2>1. \A m \in 1..Len(at) : \E i : RunAt(t, i, l) /\ t[i].session = at[m]
      BY <1>1, <1>3, <1>4, Zenon DEF Follows
    <2>2. \A i : RunAt(t, i, l) => \E m \in 1..Len(at) : at[m] = t[i].session
      BY <1>1, <1>3, <1>4 DEF Follows
    <2> QED BY <1>4, <2>1, <2>2 DEF Follows
  <1> QED BY <1>1, <1>2, <1>4
-----------------------------------------------------------------------------
(* What the invariant says of where the code stands.                       *)

\* The frame that runs, below what is pushed on it.
LEMMA HereIs ==
    ASSUME IInv
    PROVE  /\ current \in Fiber /\ Here = stack[current] /\ Here \in Seq(FrameOf) /\ Len(Here) \in Nat
           /\ StackStands(Here, current) /\ Ordered(Here, opened)
           /\ Top = Here[Len(Here)]
           /\ Here # <<>> => Len(Here) \in 1..Len(Here) /\ Top \in FrameOf /\ FrameStands(Here, current, Len(Here))
  <1>1. current \in Fiber /\ Here = stack[current] /\ Here \in Seq(FrameOf)
    BY DEF IInv, Types, Here
  <1>2. StackStands(Here, current) /\ Ordered(Here, opened)
    BY <1>1 DEF IInv, Stacks
  <1>3. Top = Here[Len(Here)]
    BY DEF Top, Last
  <1>4. Len(Here) \in Nat
    BY <1>1
  <1>5. Here # <<>> => Len(Here) \in 1..Len(Here)
    BY <1>1, EmptySeq
  <1>6. Here # <<>> => Top \in FrameOf
    BY <1>1, <1>3, <1>5, FrameAt
  <1> QED BY <1>1, <1>2, <1>3, <1>4, <1>5, <1>6 DEF StackStands

\* In the host's code nothing is pending.
LEMMA HostTop ==
    ASSUME IInv, HostCode
    PROVE  /\ pending = None
           /\ Here # <<>> => Here[Len(Here)].kind # "call" /\ Here[Len(Here)].left = None
  <1>1. Here # <<>> => Top.kind # "call"
    BY DEF HostCode
  <1>2. pending = None
    BY <1>1 DEF IInv, Pends
  <1>3. Here # <<>> => Top.left = None
    BY <1>1, HereIs DEF FrameStands
  <1> QED BY <1>1, <1>2, <1>3, HereIs

\* A library with no run going has none on any stack.
LEMMA NoneGoing ==
    ASSUME IInv, NEW l \in Lib, open[l] = <<>>
    PROVE  \A f \in Fiber : \A i : ~RunAt(stack[f], i, l)
  <1>1. Follows(stack[holder[l]], open[l], l)
    BY DEF IInv, OpenFollows
  <1>2. \A i : ~RunAt(stack[holder[l]], i, l)
    <2>1. ~\E m : m \in 1..Len(open[l])
      OBVIOUS
    <2> QED BY <1>1, <2>1 DEF Follows
  <1> QED BY <1>2 DEF IInv, OneFiber

\* A session that a computation may start through is that of the innermost run
\* of its library on the running fiber's stack.
LEMMA InnermostRun ==
    ASSUME IInv, NEW s \in SessionOf, Calls(s)
    PROVE  /\ holder[s.library] = current
           /\ \E j \in 1..Len(Here) :
                /\ Here[j].kind = "run" /\ Here[j].session = s
                /\ \A k \in (j + 1)..Len(Here) : ~RunAt(Here, k, s.library)
  <1>1. PICK l \in Lib : l = s.library
    BY DEF SessionOf
  <1>2. PICK m \in 1..Len(open[l]) : open[l][m] = s
    BY <1>1 DEF IInv, ActiveAreOpen, Calls
  <1>3. open[l] \in Seq(SessionOf) /\ holder[l] \in Fiber
    BY DEF IInv, Types
  <1>4. Len(open[l]) \in 1..Len(open[l]) /\ open[l][Len(open[l])] = s /\ Len(open[l]) \in Nat
    BY <1>1, <1>2, <1>3 DEF Calls, Last
  <1>5. Follows(stack[holder[l]], open[l], l)
    BY DEF IInv, OpenFollows
  <1>6. PICK j : RunAt(stack[holder[l]], j, l) /\ stack[holder[l]][j].session = s
    BY <1>2, <1>5 DEF Follows
  <1>7. FrameStands(stack[holder[l]], holder[l], j)
    BY <1>3, <1>6 DEF IInv, Stacks, StackStands, RunAt, IsRun
  <1>8. holder[l] = current
    BY <1>6, <1>7 DEF FrameStands, RunAt, IsRun, Calls
  <1>9. Here = stack[holder[l]] /\ Ordered(Here, opened) /\ Len(Here) \in Nat /\ Here \in Seq(FrameOf)
    BY <1>8, HereIs
  <1>10. ASSUME NEW k \in (j + 1)..Len(Here), RunAt(Here, k, l) PROVE FALSE
    <2>1. PICK n \in 1..Len(open[l]) : open[l][n] = Here[k].session
      BY <1>5, <1>9, <1>10 DEF Follows
    <2>2. j \in 1..Len(Here) /\ k \in 1..Len(Here) /\ j < k
      BY <1>6, <1>9, <1>10 DEF RunAt, IsRun
    <2>3. Here[j].session.order < Here[k].session.order
      BY <1>6, <1>9, <1>10, <2>2 DEF Ordered, RunAt
    <2>4. n < Len(open[l]) => open[l][n].order < open[l][Len(open[l])].order
      BY <1>4, <1>5, <2>1 DEF Follows
    <2>5. Here[j].session.order \in Nat /\ Here[k].session.order \in Nat
      BY <1>9, <2>2, FrameAt
    <2>6. Here[j].session = s
      BY <1>6, <1>9
    <2>7. n = Len(open[l]) => Here[k].session = s
      BY <1>4, <2>1
    <2>8. n < Len(open[l]) => Here[k].session.order < s.order
      BY <1>4, <2>1, <2>4
    <2>9. n < Len(open[l]) \/ n = Len(open[l])
      BY <1>4, <2>1
    <2> QED BY <2>3, <2>5, <2>6, <2>7, <2>8, <2>9, SMTT(30)
  <1>11. j \in 1..Len(Here) /\ Here[j].kind = "run" /\ Here[j].session = s
    BY <1>6, <1>9 DEF RunAt, IsRun
  <1> QED BY <1>1, <1>8, <1>10, <1>11

\* A library that is called goes on in the innermost run it has going.
LEMMA CallTop ==
    ASSUME IInv, Here # <<>>, Top.kind = "call"
    PROVE  LET l == Top.session.library
           IN  l \in Lib /\ holder[l] = current /\ open[l] # <<>> /\ Last(open[l]) = Top.session
  <1>1. Top \in FrameOf /\ Top.session \in SessionOf /\ Top.session.library \in Lib
    BY HereIs, FrameAt
  <1>2. PICK l \in Lib : l = Top.session.library
    BY <1>1
  <1>3. PICK j \in 1..(Len(Here) - 1) :
            /\ Here[j].kind = "run" /\ Here[j].session = Top.session
            /\ \A k \in (j + 1)..(Len(Here) - 1) : ~RunAt(Here, k, l)
    BY <1>2, HereIs DEF FrameStands
  <1>4. Len(Here) \in Nat /\ Here = stack[current] /\ Here \in Seq(FrameOf) /\ current \in Fiber
        /\ Ordered(Here, opened)
    BY HereIs
  <1>5. RunAt(Here, j, l)
    BY <1>2, <1>3, <1>4 DEF RunAt, IsRun
  <1>6. holder[l] = current
    BY <1>4, <1>5 DEF IInv, OneFiber
  <1>7. Follows(Here, open[l], l) /\ open[l] \in Seq(SessionOf)
    BY <1>4, <1>6 DEF IInv, OpenFollows, Types
  <1>8. PICK m \in 1..Len(open[l]) : open[l][m] = Top.session
    BY <1>3, <1>5, <1>7 DEF Follows
  <1>9. Len(open[l]) \in Nat /\ Len(open[l]) \in 1..Len(open[l]) /\ open[l] # <<>>
    BY <1>7, <1>8
  <1>10. m = Len(open[l])
    <2> SUFFICES ASSUME m < Len(open[l]) PROVE FALSE
      BY <1>8, <1>9
    <2>1. PICK k : RunAt(Here, k, l) /\ Here[k].session = open[l][Len(open[l])]
      BY <1>7, <1>9 DEF Follows
    <2>2. Top.session.order < Here[k].session.order
      BY <1>7, <1>8, <1>9, <2>1 DEF Follows
    <2>3. k \in 1..Len(Here) /\ Here[k].kind = "run" /\ k # Len(Here)
      BY <2>1, HereIs DEF RunAt, IsRun
    <2>4. ~(k \in (j + 1)..(Len(Here) - 1))
      BY <1>3, <2>1
    <2>5. k < j \/ k = j
      BY <1>3, <1>4, <2>3, <2>4, SMTT(30)
    <2>6. Here[k].session.order \in Nat /\ Here[j].session.order \in Nat
      BY <1>3, <1>4, <2>3, FrameAt, SMTT(30)
    <2>7. k < j => Here[k].session.order < Here[j].session.order
      BY <1>4, <1>5, <2>1 DEF Ordered, RunAt
    <2>8. k = j => Here[k].session.order = Here[j].session.order
      OBVIOUS
    <2>9. Here[j].session.order < Here[k].session.order
      BY <1>3, <2>2
    <2> QED BY <2>5, <2>6, <2>7, <2>8, <2>9
  <1> QED BY <1>2, <1>6, <1>8, <1>9, <1>10 DEF Last
-----------------------------------------------------------------------------
(* Every step keeps the invariant.                                         *)

\* A step that starts and ends no run: the stack that runs comes to t.
LEMMA QuietStep ==
    ASSUME IInv, NEW t, t \in Seq(FrameOf), stack' = [stack EXCEPT ![current] = t],
           SameRuns(Here, t), StackStands(t, current),
           UNCHANGED <<current, open, active, opened>>,
           holder' \in [Lib -> Fiber], \A l \in Lib : open[l] # <<>> => holder'[l] = holder[l],
           keeping' \in SUBSET SessionOf, scopes' \in [Lib -> Seq(Nat)],
           failed' \in [left : Thrown \cup {None}, thrown : Thrown \cup {None}],
           pending' \in Thrown \cup {None}, failed'.left = failed'.thrown,
           pending' = IF t # <<>> /\ t[Len(t)].kind = "call" THEN t[Len(t)].left ELSE None
    PROVE  IInv'
  <1>1. /\ current \in Fiber /\ Here = stack[current] /\ Ordered(Here, opened)
        /\ stack \in [Fiber -> Seq(FrameOf)]
    BY HereIs DEF IInv, Types
  <1>2. /\ stack' \in [Fiber -> Seq(FrameOf)] /\ stack'[current] = t
        /\ \A f \in Fiber : f # current => stack'[f] = stack[f]
    BY <1>1
  <1>3. Types'
    BY <1>2 DEF IInv, Types
  <1>4. \A i, l : RunAt(Here, i, l) <=> RunAt(t, i, l)
    BY RunsAgree
  <1>5. Stacks'
    <2> SUFFICES ASSUME NEW f \in Fiber PROVE StackStands(stack'[f], f) /\ Ordered(stack'[f], opened)
      BY DEF Stacks
    <2>1. CASE f = current
      <3>1. Ordered(t, opened)
        BY <1>1, RunsAgree
      <3> QED BY <1>2, <2>1, <3>1
    <2>2. CASE f # current
      BY <1>2, <2>2 DEF IInv, Stacks
    <2> QED BY <2>1, <2>2
  <1>6. Others'
    BY <1>2 DEF IInv, Others
  <1>7. \A f \in Fiber : \A i, l : RunAt(stack[f], i, l) <=> RunAt(stack'[f], i, l)
    BY <1>1, <1>2, <1>4
  <1>8. OneFiber'
    <2> SUFFICES ASSUME NEW l \in Lib, NEW f \in Fiber, f # holder'[l], NEW i, RunAt(stack[f], i, l)
                 PROVE  FALSE
      BY <1>7 DEF OneFiber
    <2>1. CASE open[l] = <<>>
      BY <2>1, NoneGoing
    <2>2. CASE open[l] # <<>>
      BY <2>2 DEF IInv, OneFiber
    <2> QED BY <2>1, <2>2
  <1>9. OpenFollows'
    <2> SUFFICES ASSUME NEW l \in Lib PROVE Follows(stack'[holder'[l]], open[l], l)
      BY DEF OpenFollows
    <2>1. holder'[l] \in Fiber
      OBVIOUS
    <2>2. CASE open[l] = <<>>
      <3>1. \A i : ~RunAt(stack'[holder'[l]], i, l)
        BY <1>7, <2>1, <2>2, NoneGoing
      <3>2. 1..Len(open[l]) = {}
        BY <2>2
      <3> QED BY <3>1, <3>2 DEF Follows
    <2>3. CASE open[l] # <<>>
      <3>1. holder'[l] = holder[l] /\ Follows(stack[holder[l]], open[l], l)
        BY <2>3 DEF IInv, OpenFollows
      <3>2. CASE holder[l] = current
        BY <1>1, <1>2, <3>1, <3>2, RunsAgree
      <3>3. CASE holder[l] # current
        BY <1>2, <2>1, <3>1, <3>3
      <3> QED BY <3>2, <3>3
    <2> QED BY <2>2, <2>3
  <1>10. ActiveAreOpen'
    BY DEF IInv, ActiveAreOpen
  <1>11. Pends'
    BY <1>1, <1>2 DEF Pends, Here, Top, Last
  <1> QED BY <1>3, <1>5, <1>6, <1>8, <1>9, <1>10, <1>11 DEF IInv

\* What a quiet step that moves only its stack leaves to show.
LEMMA StillTyped ==
    ASSUME IInv
    PROVE  /\ keeping \in SUBSET SessionOf /\ scopes \in [Lib -> Seq(Nat)]
           /\ failed \in [left : Thrown \cup {None}, thrown : Thrown \cup {None}]
           /\ pending \in Thrown \cup {None} /\ failed.left = failed.thrown
           /\ holder \in [Lib -> Fiber] /\ active \in SUBSET SessionOf /\ opened \in Nat
           /\ open \in [Lib -> Seq(SessionOf)] /\ current \in Fiber
  BY DEF IInv, Types, Pends

\* The innermost session found is one of the active.
LEMMA FoundIsSession ==
    ASSUME IInv, NEW libs \in SUBSET Lib, InnermostOf(libs) # None, Calls(InnermostOf(libs))
    PROVE  InnermostOf(libs) \in SessionOf
  BY StillTyped DEF Calls

LEMMA SwitchStep ==
    ASSUME IInv, NEW f \in Fiber, Switch(f)
    PROVE  IInv'
  <1>1. /\ HostCode /\ f # current /\ current' = f
        /\ UNCHANGED <<stack, open, holder, active, opened, keeping, scopes, values, pending, failed>>
    BY DEF Switch, runs
  <1>2. Types' /\ Stacks' /\ OneFiber' /\ OpenFollows' /\ ActiveAreOpen'
    BY <1>1 DEF IInv, Types, Stacks, OneFiber, OpenFollows, ActiveAreOpen
  <1>3. Waits(stack[current])
    BY <1>1, HostTop, HereIs DEF Waits
  <1>4. Others'
    BY <1>1, <1>3 DEF IInv, Others
  <1>5. Waits(stack[f])
    BY <1>1 DEF IInv, Others
  <1>6. Pends'
    BY <1>1, <1>5, HostTop DEF IInv, Pends, Here, Top, Last, Waits
  <1> QED BY <1>2, <1>4, <1>6 DEF IInv

LEMMA CallStep ==
    ASSUME IInv, NEW libs \in SUBSET Lib, Call(libs)
    PROVE  IInv'
  <1>1. PICK s \in SessionOf : s = InnermostOf(libs)
    BY FoundIsSession DEF Call
  <1> DEFINE e == Frame("call", s)
             t == Append(Here, e)
  <1>2. /\ HostCode /\ Calls(s) /\ stack' = [stack EXCEPT ![current] = t]
        /\ UNCHANGED <<current, open, holder, active, opened, keeping, scopes, values, pending, failed>>
    BY <1>1 DEF Call, Push, runs, Here
  <1>3. e \in FrameOf /\ e.kind = "call" /\ e.session = s /\ e.left = None
    BY DEF Frame, FrameOf
  <1>4. Topped(FrameOf, Here, e, t)
    BY <1>3, HereIs, PushTopped
  <1> HIDE DEF e, t
  <1>5. SameRuns(Here, t)
    BY <1>3, <1>4, ToppedRuns
  <1>6. FrameStands(t, current, Len(t))
    <2>1. PICK j \in 1..Len(Here) :
                /\ Here[j].kind = "run" /\ Here[j].session = s
                /\ \A k \in (j + 1)..Len(Here) : ~RunAt(Here, k, s.library)
      BY <1>2, InnermostRun
    <2>2. Len(t) - 1 = Len(Here) /\ t[Len(t)] = e /\ t[j] = Here[j] /\ Len(t) \in Nat
      BY <1>4 DEF Topped
    <2>3. \A k : RunAt(Here, k, s.library) <=> RunAt(t, k, s.library)
      BY <1>5, RunsAgree
    <2>4. j \in 1..(Len(t) - 1) /\ t[j].kind = "run" /\ t[j].session = s
          /\ \A k \in (j + 1)..(Len(t) - 1) : ~RunAt(t, k, s.library)
      BY <2>1, <2>2, <2>3
    <2> QED BY <1>3, <2>2, <2>4 DEF FrameStands
  <1>7. StackStands(t, current)
    BY <1>2, <1>4, <1>6, HereIs, HostTop, PushStands
  <1>8. pending = None /\ t # <<>> /\ t[Len(t)] = e /\ t \in Seq(FrameOf)
    BY <1>2, <1>4, HostTop DEF Topped
  <1> QED BY <1>2, <1>3, <1>5, <1>7, <1>8, StillTyped, QuietStep

LEMMA ImplementStep ==
    ASSUME IInv, NEW libs \in SUBSET Lib, Implement(libs)
    PROVE  IInv'
  <1>1. PICK s \in SessionOf : s = InnermostOf(libs)
    BY FoundIsSession DEF Implement
  <1>2. /\ keeping' = keeping \cup {s}
        /\ UNCHANGED <<current, stack, open, holder, active, opened, scopes, values, pending, failed>>
    BY <1>1 DEF Implement, runs
  <1>3. Types'
    BY <1>2 DEF IInv, Types
  <1>4. (Stacks /\ Others /\ OneFiber /\ OpenFollows /\ ActiveAreOpen /\ Pends)'
    BY <1>2 DEF IInv, Stacks, Others, OneFiber, OpenFollows, ActiveAreOpen, Pends, Here, Top, Last
  <1> QED BY <1>3, <1>4 DEF IInv

\* A frame that is no run is taken off.
LEMMA PopStep ==
    ASSUME IInv, Here # <<>>, Top.kind # "run", stack' = [stack EXCEPT ![current] = Front(Here)],
           UNCHANGED <<current, open, active, opened>>,
           holder' \in [Lib -> Fiber], \A l \in Lib : open[l] # <<>> => holder'[l] = holder[l],
           keeping' \in SUBSET SessionOf, scopes' \in [Lib -> Seq(Nat)],
           failed' \in [left : Thrown \cup {None}, thrown : Thrown \cup {None}],
           failed'.left = failed'.thrown, pending' = None
    PROVE  IInv'
  <1>1. PICK u : u = Front(Here)
    OBVIOUS
  <1>2. Topped(FrameOf, u, Here[Len(Here)], Here) /\ Here[Len(Here)] = Top
    BY <1>1, HereIs, PopTopped
  <1>3. SameRuns(Here, u)
    BY <1>2, ToppedRuns
  <1>4. StackStands(u, current) /\ \A i \in 1..Len(u) : u[i].left = None
    BY <1>2, HereIs, PopStands
  <1>5. u \in Seq(FrameOf)
    BY <1>2 DEF Topped
  <1>6. u # <<>> => u[Len(u)].left = None
    <2>1. u # <<>> => Len(u) \in 1..Len(u)
      BY <1>5, EmptySeq
    <2> QED BY <1>4, <2>1
  <1>7. stack' = [stack EXCEPT ![current] = u] /\ pending' \in Thrown \cup {None}
    BY <1>1
  <1>8. pending' = IF u # <<>> /\ u[Len(u)].kind = "call" THEN u[Len(u)].left ELSE None
    BY <1>6
  <1> QED BY <1>3, <1>4, <1>5, <1>7, <1>8, QuietStep

\* A call whose implementation threw nothing finds nothing pending.
LEMMA NoneLeft ==
    ASSUME IInv, Here # <<>>, Top.left = None
    PROVE  pending = None
  BY DEF IInv, Pends

LEMMA AnswersStep ==
    ASSUME IInv, Answers
    PROVE  IInv'
  <1>1. /\ Here # <<>> /\ Top.kind = "call" /\ Top.left = None
        /\ stack' = [stack EXCEPT ![current] = Front(Here)]
        /\ UNCHANGED <<current, open, holder, active, opened, keeping, scopes, pending, failed>>
    BY DEF Answers, InLibrary, Pop, runs, Here
  <1> QED BY <1>1, NoneLeft, StillTyped, PopStep

LEMMA AbortsStep ==
    ASSUME IInv, Aborts
    PROVE  IInv'
  <1>1. /\ Here # <<>> /\ Top.kind = "call" /\ Top.left = None
        /\ stack' = [stack EXCEPT ![current] = Front(Here)]
        /\ UNCHANGED <<current, open, holder, active, opened, keeping, scopes, pending, failed>>
    BY DEF Aborts, InLibrary, Pop, runs, Here
  <1> QED BY <1>1, NoneLeft, StillTyped, PopStep

LEMMA FailsStep ==
    ASSUME IInv, Fails
    PROVE  IInv'
  <1>1. /\ Here # <<>> /\ Top.kind = "call"
        /\ stack' = [stack EXCEPT ![current] = Front(Here)]
        /\ failed' = [left |-> Top.left, thrown |-> pending] /\ pending' = None
        /\ UNCHANGED <<current, open, holder, active, opened, keeping, scopes>>
    BY DEF Fails, InLibrary, Pop, runs, Here, Taken
  <1>2. Top.left = pending /\ pending \in Thrown \cup {None}
    BY <1>1 DEF IInv, Pends, Types
  <1>3. failed' \in [left : Thrown \cup {None}, thrown : Thrown \cup {None}] /\ failed'.left = failed'.thrown
    BY <1>1, <1>2
  <1> QED BY <1>1, <1>3, StillTyped, PopStep

LEMMA ImplementationAnswersStep ==
    ASSUME IInv, ImplementationAnswers
    PROVE  IInv'
  <1>1. /\ Here # <<>> /\ Top.kind = "implementation"
        /\ stack' = [stack EXCEPT ![current] = Front(Here)]
        /\ UNCHANGED <<current, open, holder, active, opened, keeping, scopes, pending, failed>>
    BY DEF ImplementationAnswers, Implementation, Pop, runs, Here
  <1>2. pending = None
    BY <1>1 DEF IInv, Pends
  <1> QED BY <1>1, <1>2, StillTyped, PopStep

LEMMA EndedStep ==
    ASSUME IInv, Ended
    PROVE  IInv'
  <1>1. Here # <<>> /\ Top.kind = "ending" /\ stack' = [stack EXCEPT ![current] = Front(Here)]
        /\ UNCHANGED <<current, open, active, opened, pending, failed>>
    BY DEF Ended, Pop, Here
  <1>2. Top.session \in SessionOf /\ Top.session.library \in Lib
    BY <1>1, HereIs, FrameAt
  <1>3. PICK l \in Lib : l = Top.session.library
    BY <1>2
  <1>4. /\ holder' = [holder EXCEPT ![l] = IF open[l] = <<>> THEN Main ELSE @]
        /\ keeping' = keeping \ {Top.session} /\ scopes' = ScopesAfter(Top.session)
    BY <1>3 DEF Ended
  <1>5. holder' \in [Lib -> Fiber] /\ \A m \in Lib : open[m] # <<>> => holder'[m] = holder[m]
    BY <1>4, StillTyped, FiberAssumption
  <1>6. scopes' \in [Lib -> Seq(Nat)]
    <2>1. \A s \in Seq(Nat) : Front(s) \in Seq(Nat)
      <3> SUFFICES ASSUME NEW s \in Seq(Nat) PROVE Front(s) \in Seq(Nat)
        OBVIOUS
      <3>1. CASE s = <<>>
        <4>1. Len(s) = 0
          BY <3>1
        <4>2. SubSeq(s, 1, Len(s) - 1) = <<>>
          BY <4>1, SubSeqEmpty
        <4> QED BY <4>2 DEF Front
      <3>2. CASE s # <<>>
        BY <3>2, FrontIs
      <3> QED BY <3>1, <3>2
    <2> QED BY <1>3, <1>4, <2>1, StillTyped DEF ScopesAfter
  <1>7. keeping' \in SUBSET SessionOf
    BY <1>4, StillTyped
  <1>8. pending' = None
    BY <1>1 DEF IInv, Pends
  <1> QED BY <1>1, <1>5, <1>6, <1>7, <1>8, StillTyped, PopStep

LEMMA CallBackStep ==
    ASSUME IInv, CallBack
    PROVE  IInv'
  <1>1. /\ Here # <<>> /\ Top.kind = "call" /\ Top.left = None
        /\ UNCHANGED <<current, open, holder, active, opened, keeping, scopes, pending, failed>>
    BY DEF CallBack, InLibrary, runs
  <1>2. Last(open[Top.session.library]) = Top.session /\ Top.session \in SessionOf
    BY <1>1, CallTop, HereIs, FrameAt
  <1>3. PICK s \in SessionOf : s = Top.session
    BY <1>2
  <1> DEFINE e == Frame("implementation", s)
             t == Append(Here, e)
  <1>4. stack' = [stack EXCEPT ![current] = t]
    BY <1>2, <1>3 DEF CallBack, Push, Here
  <1>5. e \in FrameOf /\ e.kind = "implementation" /\ e.left = None
    BY DEF Frame, FrameOf
  <1>6. Topped(FrameOf, Here, e, t)
    BY <1>5, HereIs, PushTopped
  <1> HIDE DEF e, t
  <1>7. SameRuns(Here, t)
    BY <1>5, <1>6, ToppedRuns
  <1>8. Len(t) \in Nat /\ Len(Here) \in Nat \ {0} /\ Len(t) - 1 = Len(Here) /\ t[Len(t)] = e
        /\ t[Len(t) - 1].kind = "call" /\ Here[Len(Here)] = Top
    BY <1>1, <1>6, HereIs DEF Topped
  <1>9. FrameStands(t, current, Len(t))
    BY <1>5, <1>8 DEF FrameStands
  <1>10. StackStands(t, current)
    BY <1>1, <1>5, <1>6, <1>8, <1>9, HereIs, PushStands
  <1>11. pending = None /\ t # <<>> /\ t[Len(t)] = e /\ t \in Seq(FrameOf)
    BY <1>1, <1>6, NoneLeft DEF Topped
  <1> QED BY <1>1, <1>4, <1>5, <1>7, <1>10, <1>11, StillTyped, QuietStep
LEMMA ImplementationThrowsStep ==
    ASSUME IInv, NEW x \in Thrown, ImplementationThrows(x)
    PROVE  IInv'
  <1>1. /\ Here # <<>> /\ Top.kind = "implementation" /\ pending' = x
        /\ UNCHANGED <<current, open, holder, active, opened, keeping, scopes, failed>>
    BY DEF ImplementationThrows, Implementation, runs
  <1>2. PICK u : u = Front(Here)
    OBVIOUS
  <1>3. Topped(FrameOf, u, Here[Len(Here)], Here) /\ Here[Len(Here)] = Top
    BY <1>1, <1>2, HereIs, PopTopped
  <1>4. StackStands(u, current) /\ \A i \in 1..Len(u) : u[i].left = None
    BY <1>3, HereIs, PopStands
  <1>5. u \in Seq(FrameOf) /\ Len(u) \in Nat /\ Len(Here) = Len(u) + 1 /\ \A i \in 1..Len(u) : Here[i] = u[i]
    BY <1>3 DEF Topped
  <1>6. PICK d : d = Len(u)
    OBVIOUS
  <1>7. d \in 1..Len(u) /\ d \in Nat \ {0} /\ u[d].kind = "call" /\ Here[d] = u[d]
    <2>1. Len(Here) > 1 /\ Here[Len(Here) - 1].kind = "call"
      BY <1>1, <1>3, HereIs DEF FrameStands
    <2> QED BY <1>5, <1>6, <2>1
  <1> DEFINE e == [u[d] EXCEPT !.left = x]
             t == [u EXCEPT ![d] = e]
  <1>8. stack' = [stack EXCEPT ![current] = t]
    <2>1. Len(stack[current]) - 1 = d
      BY <1>5, <1>6, HereIs
    <2>2. stack' = [stack EXCEPT ![current] = [Front(stack[current]) EXCEPT ![Len(stack[current]) - 1] =
                        [Here[Len(Here) - 1] EXCEPT !.left = x]]]
      BY DEF ImplementationThrows
    <2> QED BY <1>2, <1>7, <2>1, <2>2, HereIs
  <1>9. u[d] \in FrameOf
    BY <1>5, <1>7
  <1>10. e \in FrameOf /\ e.kind = "call" /\ e.session = u[d].session /\ e.left = x
    BY <1>7, <1>9 DEF FrameOf
  <1> HIDE DEF e
  <1>11. /\ t \in Seq(FrameOf) /\ Len(t) = Len(u) /\ t[d] = e
         /\ \A i \in 1..Len(u) : i # d => t[i] = u[i]
    BY <1>5, <1>7, <1>10
  <1> HIDE DEF t
  <1>12. \A i \in 1..Len(u) : /\ t[i].kind = u[i].kind /\ t[i].session = u[i].session
                              /\ i # d => t[i].left = None
    BY <1>4, <1>7, <1>10, <1>11
  <1>13. SameRuns(u, t)
    BY <1>11, <1>12 DEF SameRuns, IsRun
  <1>14. SameRuns(Here, t)
    <2>1. SameRuns(Here, u)
      BY <1>1, <1>3, ToppedRuns
    <2> QED BY <1>13, <2>1 DEF SameRuns
  <1>15. \A k, l : RunAt(t, k, l) <=> RunAt(u, k, l)
    BY <1>13, RunsAgree
  <1>16. StackStands(t, current)
    <2> SUFFICES ASSUME NEW i \in 1..Len(u) PROVE FrameStands(t, current, i)
      BY <1>11 DEF StackStands
    <2>1. FrameStands(u, current, i) /\ t[i].kind = u[i].kind /\ t[i].session = u[i].session
      BY <1>4, <1>12 DEF StackStands
    <2>2. t[i].kind = "run" => t[i].session.fiber = current
      BY <2>1 DEF FrameStands
    <2>3. ASSUME t[i].kind = "call"
          PROVE  \E j \in 1..(i - 1) :
                    /\ t[j].kind = "run" /\ t[j].session = t[i].session
                    /\ \A k \in (j + 1)..(i - 1) : ~RunAt(t, k, t[i].session.library)
      <3>1. PICK j \in 1..(i - 1) :
                    /\ u[j].kind = "run" /\ u[j].session = u[i].session
                    /\ \A k \in (j + 1)..(i - 1) : ~RunAt(u, k, u[i].session.library)
        BY <2>1, <2>3 DEF FrameStands
      <3>2. j \in 1..Len(u)
        BY <1>5
      <3> QED BY <1>12, <1>15, <2>1, <3>1, <3>2
    <2>4. t[i].kind = "implementation" => i > 1 /\ t[i - 1].kind = "call"
      <3>1. i > 1 => i - 1 \in 1..Len(u)
        BY <1>5
      <3> QED BY <1>12, <2>1, <3>1 DEF FrameStands
    <2>5. t[i].kind = "call" /\ i < Len(t) => t[i + 1].kind = "implementation"
      <3>1. i < Len(u) => i + 1 \in 1..Len(u)
        BY <1>5
      <3> QED BY <1>11, <1>12, <2>1, <3>1 DEF FrameStands
    <2>6. t[i].left # None => i = Len(t) /\ t[i].kind = "call"
      BY <1>6, <1>7, <1>11, <1>12
    <2> QED BY <2>2, <2>3, <2>4, <2>5, <2>6 DEF FrameStands
  <1>17. pending' = IF t # <<>> /\ t[Len(t)].kind = "call" THEN t[Len(t)].left ELSE None
    <2>1. t[Len(t)] = e /\ t # <<>>
      BY <1>6, <1>7, <1>11
    <2> QED BY <1>1, <1>10, <2>1
  <1>18. pending' \in Thrown \cup {None} /\ failed'.left = failed'.thrown
         /\ failed' \in [left : Thrown \cup {None}, thrown : Thrown \cup {None}]
         /\ keeping' \in SUBSET SessionOf /\ scopes' \in [Lib -> Seq(Nat)] /\ holder' \in [Lib -> Fiber]
    BY <1>1, StillTyped
  <1> QED BY <1>1, <1>8, <1>11, <1>14, <1>16, <1>17, <1>18, QuietStep

\* A run that starts: its session is the last of its library's, and stands
\* where the others of its library stand.
LEMMA RunStep ==
    ASSUME IInv, NEW l \in Lib, Run(l)
    PROVE  IInv'
  <1> DEFINE session == [order |-> opened + 1, library |-> l, fiber |-> current]
             e == Frame("run", session)
             t == Append(Here, e)
  <1>1. /\ HostCode /\ MayOpen(l)
        /\ holder' = [holder EXCEPT ![l] = current]
        /\ open' = [open EXCEPT ![l] = Append(@, session)]
        /\ active' = active \cup {session}
        /\ opened' = opened + 1
        /\ scopes' = [scopes EXCEPT ![l] = Append(@, session.order)]
        /\ stack' = [stack EXCEPT ![current] = t]
        /\ UNCHANGED <<current, keeping, pending, failed>>
    BY DEF Run, Push, Here
  <1>2. /\ current \in Fiber /\ opened \in Nat /\ holder \in [Lib -> Fiber]
        /\ open \in [Lib -> Seq(SessionOf)] /\ stack \in [Fiber -> Seq(FrameOf)]
        /\ Here = stack[current] /\ scopes \in [Lib -> Seq(Nat)]
    BY HereIs DEF IInv, Types
  <1>3. session \in SessionOf /\ session.order = opened + 1 /\ session.library = l /\ session.fiber = current
    BY <1>2 DEF SessionOf
  <1>4. e \in FrameOf /\ e.kind = "run" /\ e.session = session /\ e.left = None
    BY <1>3 DEF Frame, FrameOf
  <1> HIDE DEF session, e
  <1>5. Topped(FrameOf, Here, e, t)
    BY <1>4, HereIs, PushTopped
  <1>6. Topped(SessionOf, open[l], session, open'[l]) /\ \A m \in Lib : m # l => open'[m] = open[m]
    <2>1. open'[l] = Append(open[l], session) /\ open[l] \in Seq(SessionOf)
      BY <1>1, <1>2
    <2>2. Topped(SessionOf, open[l], session, open'[l])
      BY <1>3, <2>1, PushTopped
    <2> QED BY <1>1, <1>2, <2>2
  <1> HIDE DEF t
  <1>7. /\ t \in Seq(FrameOf) /\ Len(Here) \in Nat /\ Len(t) = Len(Here) + 1 /\ t[Len(t)] = e /\ t # <<>>
        /\ \A i \in 1..Len(Here) : t[i] = Here[i]
    BY <1>5 DEF Topped
  <1>8. /\ stack' \in [Fiber -> Seq(FrameOf)] /\ stack'[current] = t
        /\ \A f \in Fiber : f # current => stack'[f] = stack[f]
    BY <1>1, <1>2, <1>7
  <1>9. \A i : IsRun(t, i) <=> (IsRun(Here, i) \/ i = Len(t))
    BY <1>4, <1>7 DEF IsRun
  <1>10. \A i : IsRun(Here, i) => i < Len(t) /\ i \in Nat /\ t[i].session = Here[i].session /\ i # Len(t)
    BY <1>7 DEF IsRun
  <1>11. \A m \in Lib : \A i : RunAt(t, i, m) <=> (RunAt(Here, i, m) \/ (m = l /\ i = Len(t)))
    BY <1>3, <1>4, <1>7, <1>9, <1>10 DEF RunAt
  <1>12. Types'
    <2>1. open' \in [Lib -> Seq(SessionOf)]
      BY <1>1, <1>2, <1>3
    <2>2. scopes' \in [Lib -> Seq(Nat)]
      BY <1>1, <1>2, <1>3
    <2>3. active' \in SUBSET SessionOf /\ holder' \in [Lib -> Fiber] /\ opened' \in Nat
      BY <1>1, <1>2, <1>3, StillTyped
    <2> QED BY <1>1, <1>8, <2>1, <2>2, <2>3 DEF IInv, Types
  <1>13. StackStands(t, current)
    <2>1. FrameStands(t, current, Len(t))
      BY <1>3, <1>4, <1>7 DEF FrameStands
    <2>2. Here # <<>> => Here[Len(Here)].left = None /\ Here[Len(Here)].kind # "call"
      BY <1>1, HostTop
    <2> QED BY <1>5, <2>1, <2>2, HereIs, PushStands
  <1>14. \A f \in Fiber : Ordered(stack[f], opened)
         /\ \A i : IsRun(stack[f], i) => stack[f][i].session.order \in Nat
    <2> SUFFICES ASSUME NEW f \in Fiber PROVE \A i : IsRun(stack[f], i) => stack[f][i].session.order \in Nat
      BY DEF IInv, Stacks
    <2>1. stack[f] \in Seq(FrameOf)
      BY <1>2
    <2> QED BY <2>1, FrameAt DEF IsRun
  <1>15. Ordered(t, opened + 1)
    <2>1. ASSUME NEW i, IsRun(t, i) PROVE t[i].session.order <= opened + 1
      <3>1. CASE i = Len(t)
        BY <1>2, <1>3, <1>4, <1>7, <3>1
      <3>2. CASE IsRun(Here, i)
        <4>1. Here[i].session.order <= opened /\ Here[i].session.order \in Nat
          BY <1>2, <1>14, <3>2, HereIs DEF Ordered
        <4>2. t[i].session.order = Here[i].session.order
          BY <1>10, <3>2
        <4> QED BY <1>2, <4>1, <4>2, SMTT(30)
      <3> QED BY <1>9, <2>1, <3>1, <3>2
    <2>2. ASSUME NEW i, NEW j, IsRun(t, i), IsRun(t, j), i < j
          PROVE  t[i].session.order < t[j].session.order
      <3>1. CASE j = Len(t)
        <4>1. IsRun(Here, i)
          BY <1>7, <1>9, <2>2, <3>1 DEF IsRun
        <4>2. Here[i].session.order <= opened /\ Here[i].session.order \in Nat
          BY <1>2, <1>14, <4>1, HereIs DEF Ordered
        <4>3. t[i].session = Here[i].session /\ t[j].session.order = opened + 1
          BY <1>3, <1>4, <1>7, <1>10, <3>1, <4>1
        <4> QED BY <1>2, <4>2, <4>3, SMTT(30)
      <3>2. CASE IsRun(Here, j)
        <4>1. IsRun(Here, i)
          BY <1>7, <1>9, <1>10, <2>2, <3>2 DEF IsRun
        <4> QED BY <1>2, <1>10, <1>14, <2>2, <3>2, <4>1 DEF Ordered
      <3> QED BY <1>9, <2>2, <3>1, <3>2
    <2> QED BY <2>1, <2>2 DEF Ordered
  <1>16. Stacks'
    <2> SUFFICES ASSUME NEW f \in Fiber PROVE StackStands(stack'[f], f) /\ Ordered(stack'[f], opened')
      BY DEF Stacks
    <2>1. CASE f = current
      BY <1>1, <1>8, <1>13, <1>15, <2>1
    <2>2. CASE f # current
      <3>1. Ordered(stack[f], opened + 1)
        BY <1>2, <1>14, SMTT(30) DEF Ordered
      <3> QED BY <1>1, <1>8, <2>2, <3>1 DEF IInv, Stacks
    <2> QED BY <2>1, <2>2
  <1>17. Others'
    BY <1>1, <1>8 DEF IInv, Others
  <1>18. \A f \in Fiber : f # current => \A i : ~RunAt(stack[f], i, l)
    <2>1. CASE open[l] = <<>>
      BY <2>1, NoneGoing
    <2>2. CASE open[l] # <<>>
      BY <1>1, <2>2 DEF MayOpen, IInv, OneFiber
    <2> QED BY <2>1, <2>2
  <1>19. holder'[l] = current /\ \A m \in Lib : m # l => holder'[m] = holder[m]
    BY <1>1, <1>2
  <1>20. OneFiber'
    <2> SUFFICES ASSUME NEW m \in Lib, NEW f \in Fiber, f # holder'[m], NEW i PROVE ~RunAt(stack'[f], i, m)
      BY DEF OneFiber
    <2>1. CASE m = l
      BY <1>8, <1>18, <1>19, <2>1
    <2>2. CASE m # l
      BY <1>2, <1>8, <1>11, <1>19, <2>2 DEF IInv, OneFiber
    <2> QED BY <2>1, <2>2
  <1>21. Follows(Here, open[l], l)
    <2>1. CASE open[l] = <<>>
      <3>1. \A i : ~RunAt(Here, i, l)
        BY <1>2, <2>1, NoneGoing
      <3>2. 1..Len(open[l]) = {}
        BY <2>1
      <3> QED BY <3>1, <3>2 DEF Follows
    <2>2. CASE open[l] # <<>>
      BY <1>1, <1>2, <2>2 DEF MayOpen, IInv, OpenFollows
    <2> QED BY <2>1, <2>2
  <1>22. /\ Len(open[l]) \in Nat /\ Len(open'[l]) = Len(open[l]) + 1 /\ open'[l][Len(open'[l])] = session
         /\ \A m \in 1..Len(open[l]) : open'[l][m] = open[l][m] /\ open[l][m] \in SessionOf
    BY <1>6 DEF Topped
  <1>23. Follows(t, open'[l], l)
    <2>1. ASSUME NEW m \in 1..Len(open'[l]) PROVE \E i : RunAt(t, i, l) /\ t[i].session = open'[l][m]
      <3>1. CASE m = Len(open'[l])
        BY <1>4, <1>7, <1>11, <1>22, <3>1
      <3>2. CASE m # Len(open'[l])
        <4>1. m \in 1..Len(open[l])
          BY <1>22, <3>2
        <4>2. PICK i : RunAt(Here, i, l) /\ Here[i].session = open[l][m]
          BY <1>21, <4>1 DEF Follows
        <4> QED BY <1>10, <1>11, <1>22, <4>1, <4>2 DEF RunAt
      <3> QED BY <3>1, <3>2
    <2>2. ASSUME NEW i, RunAt(t, i, l) PROVE \E m \in 1..Len(open'[l]) : open'[l][m] = t[i].session
      <3>1. CASE i = Len(t)
        BY <1>4, <1>7, <1>22, <3>1, SMTT(30)
      <3>2. CASE RunAt(Here, i, l)
        <4>1. PICK m \in 1..Len(open[l]) : open[l][m] = Here[i].session
          BY <1>21, <3>2 DEF Follows
        <4> QED BY <1>10, <1>22, <3>2, <4>1 DEF RunAt
      <3> QED BY <1>11, <2>2, <3>1, <3>2
    <2>3. ASSUME NEW m \in 1..Len(open'[l]), NEW k \in 1..Len(open'[l]), m < k
          PROVE  open'[l][m].order < open'[l][k].order
      <3>1. m \in 1..Len(open[l]) /\ open[l][m].order \in Nat
        BY <1>22, <2>3 DEF SessionOf
      <3>2. CASE k = Len(open'[l])
        <4>1. PICK i : RunAt(Here, i, l) /\ Here[i].session = open[l][m]
          BY <1>21, <3>1 DEF Follows
        <4>2. open[l][m].order <= opened
          BY <4>1, HereIs DEF Ordered, RunAt
        <4>3. open'[l][m].order = open[l][m].order /\ open'[l][k].order = opened + 1
          BY <1>3, <1>22, <3>1, <3>2
        <4> QED BY <1>2, <3>1, <4>2, <4>3, SMTT(30)
      <3>3. CASE k # Len(open'[l])
        <4>1. k \in 1..Len(open[l])
          BY <1>22, <3>3
        <4> QED BY <1>21, <1>22, <2>3, <3>1, <4>1 DEF Follows
      <3> QED BY <3>2, <3>3
    <2> QED BY <2>1, <2>2, <2>3 DEF Follows
  <1>24. OpenFollows'
    <2> SUFFICES ASSUME NEW m \in Lib PROVE Follows(stack'[holder'[m]], open'[m], m)
      BY DEF OpenFollows
    <2>1. CASE m = l
      BY <1>8, <1>19, <1>23, <2>1
    <2>2. CASE m # l
      <3>1. holder'[m] = holder[m] /\ open'[m] = open[m] /\ Follows(stack[holder[m]], open[m], m)
            /\ holder[m] \in Fiber
        BY <1>2, <1>6, <1>19, <2>2 DEF IInv, OpenFollows
      <3>2. CASE holder[m] = current
        <4>1. \A i : RunAt(t, i, m) <=> RunAt(Here, i, m)
          BY <1>11, <2>2
        <4>2. \A i : RunAt(Here, i, m) => t[i].session = Here[i].session
          BY <1>10 DEF RunAt
        <4>3. Follows(t, open[m], m)
          BY <1>2, <3>1, <3>2, <4>1, <4>2 DEF Follows
        <4> QED BY <1>8, <3>1, <3>2, <4>3
      <3>3. CASE holder[m] # current
        BY <1>8, <3>1, <3>3
      <3> QED BY <3>2, <3>3
    <2> QED BY <2>1, <2>2
  <1>25. ActiveAreOpen'
    <2> SUFFICES ASSUME NEW s
                 PROVE  s \in active' <=>
                          s \in SessionOf /\ \E m \in 1..Len(open'[s.library]) : open'[s.library][m] = s
      BY DEF ActiveAreOpen
    <2>1. s \in active <=> s \in SessionOf /\ \E m \in 1..Len(open[s.library]) : open[s.library][m] = s
      BY DEF IInv, ActiveAreOpen
    <2>2. s \in active' <=> s \in active \/ s = session
      BY <1>1
    <2>3. CASE s \notin SessionOf
      BY <1>3, <2>1, <2>2, <2>3
    <2>4. CASE s \in SessionOf /\ s.library # l
      <3>1. s.library \in Lib
        BY <2>4 DEF SessionOf
      <3>2. open'[s.library] = open[s.library] /\ s # session
        BY <1>3, <1>6, <2>4, <3>1
      <3> QED BY <2>1, <2>2, <2>4, <3>2
    <2>5. CASE s \in SessionOf /\ s.library = l
      <3>1. (\E m \in 1..Len(open'[l]) : open'[l][m] = s) <=>
                (\E m \in 1..Len(open[l]) : open[l][m] = s) \/ s = session
        <4>1. \A m \in 1..Len(open'[l]) : m \in 1..Len(open[l]) \/ m = Len(open'[l])
          BY <1>22
        <4>2. \A m \in 1..Len(open[l]) : m \in 1..Len(open'[l])
          BY <1>22
        <4>3. Len(open'[l]) \in 1..Len(open'[l])
          BY <1>22
        <4> QED BY <1>22, <4>1, <4>2, <4>3
      <3> QED BY <2>1, <2>2, <2>5, <3>1
    <2> QED BY <2>3, <2>4, <2>5
  <1>26. Pends'
    <2>1. t[Len(t)].kind # "call" /\ pending' = None /\ failed' = failed /\ failed.left = failed.thrown
      BY <1>1, <1>4, <1>7, HostTop, StillTyped, SMTT(30)
    <2>2. Here' = t /\ Top' = t[Len(t)]
      BY <1>1, <1>8 DEF Here, Top, Last
    <2> QED BY <2>1, <2>2 DEF Pends
  <1> QED BY <1>12, <1>16, <1>17, <1>20, <1>24, <1>25, <1>26 DEF IInv

\* A run that ends is the last its library has going.
LEMMA ClosedIs ==
    ASSUME IInv, Close, NEW session, session = Top.session, NEW l, l = session.library
    PROVE  /\ session \in SessionOf /\ l \in Lib /\ holder[l] = current /\ Follows(Here, open[l], l)
           /\ Topped(SessionOf, open'[l], session, open[l])
           /\ \A m \in Lib : m # l => open'[m] = open[m]
           /\ \A m \in 1..Len(open'[l]) : open[l][m].order < session.order /\ m \in 1..Len(open[l])
  <1>1. Here # <<>> /\ Top.kind = "run"
    BY DEF Close
  <1>2. session \in SessionOf /\ l \in Lib
    BY <1>1, HereIs, FrameAt
  <1>3. Last(open[l]) = session /\ open' = [open EXCEPT ![l] = Front(@)]
    BY DEF Close
  <1>4. open \in [Lib -> Seq(SessionOf)] /\ Here = stack[current] /\ current \in Fiber
    BY HereIs DEF IInv, Types
  <1>5. RunAt(Here, Len(Here), l) /\ Here[Len(Here)] = Top
    BY <1>1, HereIs DEF IsRun, RunAt
  <1>6. holder[l] = current
    BY <1>2, <1>4, <1>5 DEF IInv, OneFiber
  <1>7. Follows(Here, open[l], l)
    BY <1>2, <1>4, <1>6 DEF IInv, OpenFollows
  <1>8. PICK n \in 1..Len(open[l]) : open[l][n] = session
    BY <1>5, <1>7 DEF Follows
  <1>9. Topped(SessionOf, open'[l], session, open[l])
    <2>1. open'[l] = Front(open[l]) /\ open[l] \in Seq(SessionOf)
      BY <1>2, <1>3, <1>4
    <2>2. open[l] # <<>> /\ open[l][Len(open[l])] = session
      BY <1>3, <1>8, <2>1 DEF Last
    <2>3. Topped(SessionOf, open'[l], open[l][Len(open[l])], open[l])
      BY <2>1, <2>2, PopTopped
    <2> QED BY <2>2, <2>3
  <1>10. \A m \in Lib : m # l => open'[m] = open[m]
    BY <1>3, <1>4
  <1>11. ASSUME NEW m \in 1..Len(open'[l])
         PROVE  open[l][m].order < session.order /\ m \in 1..Len(open[l])
    <2>1. /\ Len(open'[l]) \in Nat /\ Len(open[l]) = Len(open'[l]) + 1
          /\ open[l][Len(open[l])] = session
      BY <1>9 DEF Topped
    <2>2. m \in 1..Len(open[l]) /\ Len(open[l]) \in 1..Len(open[l]) /\ m < Len(open[l])
      BY <2>1, SMTT(60)
    <2>3. open[l][m].order < open[l][Len(open[l])].order
      BY <1>7, <2>2, SMTT(30) DEF Follows
    <2> QED BY <2>1, <2>2, <2>3
  <1> QED BY <1>2, <1>6, <1>7, <1>9, <1>10, <1>11

\* So the runs left going are those left on the stack.
LEMMA CloseStep ==
    ASSUME IInv, Close
    PROVE  IInv'
  <1>1. Here # <<>> /\ Top.kind = "run"
    BY DEF Close
  <1>2. Top \in FrameOf /\ Top.session \in SessionOf /\ Top.session.library \in Lib
    BY <1>1, HereIs, FrameAt
  <1>3. PICK session \in SessionOf : session = Top.session
    BY <1>2
  <1>4. PICK l \in Lib : l = session.library
    BY <1>2, <1>3
  <1>5. PICK u : u = Front(Here)
    OBVIOUS
  <1> DEFINE e == Frame("ending", session)
             t == Append(u, e)
  <1>6. /\ Last(open[l]) = session
        /\ open' = [open EXCEPT ![l] = Front(@)]
        /\ active' = active \ {session}
        /\ stack' = [stack EXCEPT ![current] = t]
        /\ UNCHANGED <<current, holder, keeping, opened, scopes, pending, failed>>
    BY <1>3, <1>4, <1>5 DEF Close, Here
  <1>7. /\ current \in Fiber /\ holder \in [Lib -> Fiber]
        /\ open \in [Lib -> Seq(SessionOf)] /\ stack \in [Fiber -> Seq(FrameOf)]
        /\ Here = stack[current] /\ Here \in Seq(FrameOf) /\ Ordered(Here, opened)
    BY HereIs DEF IInv, Types
  <1>8. e \in FrameOf /\ e.kind = "ending" /\ e.session = session /\ e.left = None
    BY DEF Frame, FrameOf
  <1> HIDE DEF e
  <1>9. Topped(FrameOf, u, Here[Len(Here)], Here) /\ Here[Len(Here)] = Top
    BY <1>1, <1>5, HereIs, PopTopped
  <1>10. u \in Seq(FrameOf) /\ Len(u) \in Nat /\ Len(Here) = Len(u) + 1 /\ \A i \in 1..Len(u) : Here[i] = u[i]
    BY <1>9 DEF Topped
  <1>11. Topped(FrameOf, u, e, t)
    BY <1>8, <1>10, PushTopped
  <1> HIDE DEF t
  <1>12. /\ t \in Seq(FrameOf) /\ Len(t) = Len(Here) /\ t[Len(t)] = e /\ t # <<>>
         /\ \A i \in 1..Len(u) : t[i] = Here[i]
    BY <1>10, <1>11 DEF Topped
  <1>13. StackStands(t, current)
    <2>1. StackStands(u, current) /\ \A i \in 1..Len(u) : u[i].left = None
      BY <1>9, HereIs, PopStands
    <2>2. u # <<>> => u[Len(u)].left = None /\ u[Len(u)].kind # "call"
      <3> SUFFICES ASSUME u # <<>> PROVE u[Len(u)].left = None /\ u[Len(u)].kind # "call"
        OBVIOUS
      <3>1. Len(u) \in 1..Len(u)
        BY <1>10, EmptySeq
      <3>2. Len(u) \in 1..Len(Here) /\ Len(u) < Len(Here) /\ Here[Len(u)] = u[Len(u)]
            /\ Here[Len(u) + 1].kind = "run"
        BY <1>1, <1>9, <1>10, <3>1
      <3>3. FrameStands(Here, current, Len(u))
        BY <3>2, HereIs DEF StackStands
      <3>4. u[Len(u)].kind # "call"
        BY <3>2, <3>3 DEF FrameStands
      <3> QED BY <2>1, <3>1, <3>4
    <2>3. FrameStands(t, current, Len(t))
      BY <1>8, <1>12 DEF FrameStands
    <2> QED BY <1>11, <2>1, <2>2, <2>3, PushStands
  <1>14. \A i : IsRun(t, i) <=> (IsRun(Here, i) /\ i # Len(Here))
    BY <1>8, <1>10, <1>12 DEF IsRun
  <1>15. \A i : IsRun(t, i) => t[i].session = Here[i].session /\ t[i] = Here[i]
    BY <1>8, <1>10, <1>12 DEF IsRun
  <1>16. \A i, m : RunAt(t, i, m) <=> (RunAt(Here, i, m) /\ i # Len(Here))
    BY <1>14, <1>15 DEF RunAt
  <1>17. /\ stack' \in [Fiber -> Seq(FrameOf)] /\ stack'[current] = t
         /\ \A f \in Fiber : f # current => stack'[f] = stack[f]
    BY <1>6, <1>7, <1>12
  <1>18. IsRun(Here, Len(Here)) /\ RunAt(Here, Len(Here), l)
    BY <1>1, <1>3, <1>4, <1>9, HereIs DEF IsRun, RunAt
  <1>19. /\ holder[l] = current /\ Follows(Here, open[l], l)
         /\ Topped(SessionOf, open'[l], session, open[l]) /\ \A m \in Lib : m # l => open'[m] = open[m]
         /\ \A m \in 1..Len(open'[l]) : open[l][m].order < session.order /\ m \in 1..Len(open[l])
    BY <1>3, <1>4, ClosedIs
  <1>20. /\ Len(open'[l]) \in Nat /\ Len(open[l]) = Len(open'[l]) + 1 /\ open[l][Len(open[l])] = session
         /\ \A m \in 1..Len(open'[l]) : open[l][m] = open'[l][m] /\ open[l][m] \in SessionOf
         /\ open'[l] \in Seq(SessionOf)
    <2>1. Topped(SessionOf, open'[l], session, open[l])
      BY <1>19
    <2>2. /\ open'[l] \in Seq(SessionOf) /\ open[l] \in Seq(SessionOf)
          /\ Len(open'[l]) \in Nat /\ Len(open[l]) = Len(open'[l]) + 1 /\ open[l][Len(open[l])] = session
          /\ \A m \in 1..Len(open'[l]) : open[l][m] = open'[l][m]
      BY <2>1 DEF Topped
    <2>3. \A m \in 1..Len(open'[l]) : open[l][m] \in SessionOf
      BY <2>2
    <2> QED BY <2>2, <2>3
  <1>21. Types'
    <2>1. open' \in [Lib -> Seq(SessionOf)]
      BY <1>6, <1>7, <1>19, <1>20
    <2>2. active' \in SUBSET SessionOf
      BY <1>6, StillTyped
    <2> QED BY <1>6, <1>17, <2>1, <2>2 DEF IInv, Types
  <1>22. Stacks'
    <2> SUFFICES ASSUME NEW f \in Fiber PROVE StackStands(stack'[f], f) /\ Ordered(stack'[f], opened)
      BY <1>6 DEF Stacks
    <2>1. CASE f = current
      <3>1. Ordered(t, opened)
        BY <1>7, <1>14, <1>15 DEF Ordered
      <3> QED BY <1>13, <1>17, <2>1, <3>1
    <2>2. CASE f # current
      BY <1>17, <2>2 DEF IInv, Stacks
    <2> QED BY <2>1, <2>2
  <1>23. Others'
    BY <1>6, <1>17 DEF IInv, Others
  <1>24. OneFiber'
    <2> SUFFICES ASSUME NEW m \in Lib, NEW f \in Fiber, f # holder[m], NEW i PROVE ~RunAt(stack'[f], i, m)
      BY <1>6 DEF OneFiber
    <2>1. ~RunAt(stack[f], i, m)
      BY DEF IInv, OneFiber
    <2> QED BY <1>7, <1>16, <1>17, <2>1
  <1>25. session.order \in Nat /\ \A m \in 1..Len(open'[l]) : open[l][m].order \in Nat /\ open[l][m] # session
    <2>1. session.order \in Nat
      BY DEF SessionOf
    <2>2. ASSUME NEW m \in 1..Len(open'[l]) PROVE open[l][m].order \in Nat /\ open[l][m] # session
      <3>1. open[l][m] \in SessionOf /\ open[l][m].order < session.order
        BY <1>19, <1>20
      <3>2. open[l][m].order \in Nat
        BY <3>1 DEF SessionOf
      <3> QED BY <2>1, <3>1, <3>2
    <2> QED BY <2>1, <2>2
  <1>26. Follows(t, open'[l], l)
    <2>1. ASSUME NEW m \in 1..Len(open'[l]) PROVE \E i : RunAt(t, i, l) /\ t[i].session = open'[l][m]
      <3>1. PICK i : RunAt(Here, i, l) /\ Here[i].session = open[l][m]
        BY <1>19 DEF Follows
      <3>2. i # Len(Here)
        BY <1>3, <1>9, <1>25, <3>1
      <3>3. RunAt(t, i, l) /\ t[i].session = open[l][m]
        BY <1>15, <1>16, <3>1, <3>2 DEF RunAt
      <3> QED BY <1>20, <3>3
    <2>2. ASSUME NEW i, RunAt(t, i, l) PROVE \E m \in 1..Len(open'[l]) : open'[l][m] = t[i].session
      <3>1. RunAt(Here, i, l) /\ i # Len(Here) /\ t[i].session = Here[i].session /\ i \in 1..Len(Here) /\ i < Len(Here)
        <4>1. RunAt(Here, i, l) /\ i # Len(Here)
          BY <1>16, <2>2
        <4>2. t[i].session = Here[i].session
          BY <1>15, <2>2 DEF RunAt
        <4>3. i \in 1..Len(Here)
          BY <4>1 DEF RunAt, IsRun
        <4> QED BY <1>10, <4>1, <4>2, <4>3
      <3>2. PICK m \in 1..Len(open[l]) : open[l][m] = Here[i].session
        BY <1>19, <3>1 DEF Follows
      <3>3. Here[i].session.order < session.order
        BY <1>3, <1>7, <1>9, <1>18, <3>1 DEF Ordered, RunAt
      <3>4. m # Len(open[l])
        BY <1>20, <1>25, <3>2, <3>3, SMTT(30)
      <3>5. m \in 1..Len(open'[l])
        BY <1>20, <3>4
      <3> QED BY <1>20, <3>1, <3>2, <3>5
    <2>3. ASSUME NEW m \in 1..Len(open'[l]), NEW k \in 1..Len(open'[l]), m < k
          PROVE  open'[l][m].order < open'[l][k].order
      BY <1>19, <1>20, <2>3 DEF Follows
    <2> QED BY <2>1, <2>2, <2>3 DEF Follows
  <1>27. OpenFollows'
    <2> SUFFICES ASSUME NEW m \in Lib PROVE Follows(stack'[holder[m]], open'[m], m)
      BY <1>6 DEF OpenFollows
    <2>1. CASE m = l
      BY <1>17, <1>19, <1>26, <2>1
    <2>2. CASE m # l
      <3>1. open'[m] = open[m] /\ Follows(stack[holder[m]], open[m], m) /\ holder[m] \in Fiber
        BY <1>7, <1>19, <2>2 DEF IInv, OpenFollows
      <3>2. CASE holder[m] = current
        <4>1. \A i : RunAt(t, i, m) <=> RunAt(Here, i, m)
          <5>1. ~RunAt(Here, Len(Here), m)
            BY <1>18, <2>2 DEF RunAt
          <5> QED BY <1>16, <5>1
        <4>2. \A i : RunAt(t, i, m) => t[i].session = Here[i].session
          BY <1>15 DEF RunAt
        <4>3. Follows(t, open[m], m)
          BY <1>7, <3>1, <3>2, <4>1, <4>2 DEF Follows
        <4> QED BY <1>17, <3>1, <3>2, <4>3
      <3>3. CASE holder[m] # current
        BY <1>17, <3>1, <3>3
      <3> QED BY <3>2, <3>3
    <2> QED BY <2>1, <2>2
  <1>28. ActiveAreOpen'
    <2> SUFFICES ASSUME NEW s
                 PROVE  s \in active' <=>
                          s \in SessionOf /\ \E m \in 1..Len(open'[s.library]) : open'[s.library][m] = s
      BY DEF ActiveAreOpen
    <2>1. s \in active <=> s \in SessionOf /\ \E m \in 1..Len(open[s.library]) : open[s.library][m] = s
      BY DEF IInv, ActiveAreOpen
    <2>2. s \in active' <=> s \in active /\ s # session
      BY <1>6
    <2>3. CASE s \notin SessionOf
      BY <2>1, <2>2, <2>3
    <2>4. CASE s \in SessionOf /\ s.library # l
      <3>1. s.library \in Lib /\ s # session
        BY <1>4, <2>4 DEF SessionOf
      <3>2. open'[s.library] = open[s.library]
        BY <1>19, <2>4, <3>1
      <3> QED BY <2>1, <2>2, <2>4, <3>1, <3>2
    <2>5. CASE s \in SessionOf /\ s.library = l
      <3>1. (\E m \in 1..Len(open'[l]) : open'[l][m] = s) <=>
                (\E m \in 1..Len(open[l]) : open[l][m] = s) /\ s # session
        <4>1. \A m \in 1..Len(open[l]) : m \in 1..Len(open'[l]) \/ m = Len(open[l])
          BY <1>20
        <4>2. \A m \in 1..Len(open'[l]) : m \in 1..Len(open[l]) /\ open'[l][m] = open[l][m] /\ open[l][m] # session
          BY <1>20, <1>19, <1>25
        <4> QED BY <1>20, <4>1, <4>2
      <3> QED BY <2>1, <2>2, <2>5, <3>1
    <2> QED BY <2>3, <2>4, <2>5
  <1>29. Pends'
    <2>1. t[Len(t)].kind # "call" /\ pending' = None /\ failed' = failed /\ failed.left = failed.thrown
      <3>1. pending = None
        BY <1>1 DEF IInv, Pends
      <3> QED BY <1>6, <1>8, <1>12, <3>1, StillTyped
    <2>2. Here' = t /\ Top' = t[Len(t)]
      BY <1>6, <1>17 DEF Here, Top, Last
    <2> QED BY <2>1, <2>2 DEF Pends
  <1> QED BY <1>21, <1>22, <1>23, <1>24, <1>27, <1>28, <1>29 DEF IInv

-----------------------------------------------------------------------------
(* What holds whatever a closure's destructor does.                        *)

LEMMA InitIInv == Init => IInv
  <1> SUFFICES ASSUME Init PROVE IInv
    OBVIOUS
  <1>1. Types
    BY FiberAssumption DEF Init, Types
  <1>2. \A f \in Fiber : stack[f] = <<>>
    BY DEF Init
  <1>3. \A f \in Fiber : \A i : ~IsRun(stack[f], i)
    BY <1>2 DEF IsRun
  <1>4. Stacks
    <2>1. \A f \in Fiber : StackStands(stack[f], f)
      BY <1>2 DEF StackStands
    <2>2. \A f \in Fiber : Ordered(stack[f], opened)
      BY <1>3 DEF Ordered
    <2> QED BY <2>1, <2>2 DEF Stacks
  <1>5. Others
    BY <1>2 DEF Others, Waits
  <1>6. OneFiber
    BY <1>3 DEF OneFiber, RunAt
  <1>7. OpenFollows
    <2> SUFFICES ASSUME NEW l \in Lib PROVE Follows(stack[holder[l]], open[l], l)
      BY DEF OpenFollows
    <2>1. open[l] = <<>> /\ holder[l] \in Fiber
      BY <1>1 DEF Init, Types
    <2>2. 1..Len(open[l]) = {}
      BY <2>1
    <2> QED BY <1>3, <2>1, <2>2 DEF Follows, RunAt
  <1>8. ActiveAreOpen
    <2> SUFFICES ASSUME NEW s \in SessionOf, NEW m \in 1..Len(open[s.library]) PROVE FALSE
      BY DEF ActiveAreOpen, Init
    <2>1. s.library \in Lib
      BY DEF SessionOf
    <2>2. open[s.library] = <<>>
      BY <2>1 DEF Init
    <2> QED BY <2>2
  <1>9. Pends
    BY <1>2, FiberAssumption DEF Pends, Init, Here
  <1> QED BY <1>1, <1>4, <1>5, <1>6, <1>7, <1>8, <1>9 DEF IInv

LEMMA NextIInv == IInv /\ [Next]_vars => IInv'
  <1> SUFFICES ASSUME IInv, [Next]_vars PROVE IInv'
    OBVIOUS
  <1>1. ASSUME NEW f \in Fiber, Switch(f) PROVE IInv'
    BY <1>1, SwitchStep
  <1>2. ASSUME NEW l \in Lib, Run(l) PROVE IInv'
    BY <1>2, RunStep
  <1>3. CASE Close
    BY <1>3, CloseStep
  <1>4. CASE Ended
    BY <1>4, EndedStep
  <1>5. ASSUME NEW libs \in SUBSET Lib, Call(libs) PROVE IInv'
    BY <1>5, CallStep
  <1>6. ASSUME NEW libs \in SUBSET Lib, Implement(libs) PROVE IInv'
    BY <1>6, ImplementStep
  <1>7. CASE Answers
    BY <1>7, AnswersStep
  <1>8. CASE Aborts
    BY <1>8, AbortsStep
  <1>9. CASE CallBack
    BY <1>9, CallBackStep
  <1>10. CASE ImplementationAnswers
    BY <1>10, ImplementationAnswersStep
  <1>11. ASSUME NEW x \in Thrown, ImplementationThrows(x) PROVE IInv'
    BY <1>11, ImplementationThrowsStep
  <1>12. CASE Fails
    BY <1>12, FailsStep
  <1>13. CASE UNCHANGED vars
    <2>1. UNCHANGED <<current, stack, open, holder, active, opened, keeping, scopes, pending, failed>>
      BY <1>13 DEF vars
    <2> QED BY <2>1 DEF IInv, Types, Stacks, Others, OneFiber, OpenFollows, ActiveAreOpen, Pends, Here, Top, Last
  <1> QED BY <1>1, <1>2, <1>3, <1>4, <1>5, <1>6, <1>7, <1>8, <1>9, <1>10, <1>11, <1>12, <1>13, Zenon DEF Next

LEMMA Inductive == Spec => []IInv
  BY InitIInv, NextIInv, PTL DEF Spec
\* A slot of one exception for the whole process suffices: it is emptied before
\* the host's code goes on, on whichever fiber, and what a failed call threw
\* was thrown by its own implementation.
THEOREM NothingLeftPending == Spec => []NothingPends
  <1>1. IInv => NothingPends
    BY HostTop DEF NothingPends, IInv, Pends
  <1> QED BY <1>1, Inductive, PTL

LEMMA RunsOnAre ==
    ASSUME IInv, NEW f \in Fiber, NEW l
    PROVE  \A i : i \in RunsOn(f, l) <=> RunAt(stack[f], i, l)
  <1>1. DOMAIN stack[f] = 1..Len(stack[f])
    BY DEF IInv, Types
  <1> QED BY <1>1 DEF RunsOn, RunAt, IsRun

\* On one stack the sessions of two runs are in the order their runs nest in.
LEMMA NestingIsOrder ==
    ASSUME IInv, NEW f \in Fiber, NEW i, NEW j, IsRun(stack[f], i), IsRun(stack[f], j)
    PROVE  /\ i \in Nat /\ j \in Nat
           /\ stack[f][i].session.order \in Nat /\ stack[f][j].session.order \in Nat
           /\ i < j <=> stack[f][i].session.order < stack[f][j].session.order
  <1>1. stack[f] \in Seq(FrameOf) /\ Ordered(stack[f], opened)
    BY DEF IInv, Types, Stacks
  <1>2. i \in 1..Len(stack[f]) /\ j \in 1..Len(stack[f])
    BY DEF IsRun
  <1>3. stack[f][i].session.order \in Nat /\ stack[f][j].session.order \in Nat
    BY <1>1, <1>2, FrameAt
  <1>4. i < j => stack[f][i].session.order < stack[f][j].session.order
    BY <1>1 DEF Ordered
  <1>5. j < i => stack[f][j].session.order < stack[f][i].session.order
    BY <1>1 DEF Ordered
  <1>6. i \in Nat /\ j \in Nat /\ (i < j \/ j < i \/ i = j)
    BY <1>2
  <1>7. i = j => stack[f][i].session.order = stack[f][j].session.order
    OBVIOUS
  <1> QED BY <1>3, <1>4, <1>5, <1>6, <1>7

LEMMA Nests ==
    ASSUME IInv, NEW l \in Lib
    PROVE  RunsNest(l)
  <1>1. holder[l] \in Fiber /\ Follows(stack[holder[l]], open[l], l)
    BY DEF IInv, Types, OpenFollows
  <1>2. \A i : i \in RunsOn(holder[l], l) <=> RunAt(stack[holder[l]], i, l)
    BY <1>1, RunsOnAre
  <1>3. ASSUME NEW f \in Fiber, RunsOn(f, l) # {} PROVE f = holder[l]
    <2>1. PICK i : i \in RunsOn(f, l)
      BY <1>3
    <2>2. RunAt(stack[f], i, l)
      BY <2>1, RunsOnAre
    <2> QED BY <2>2 DEF IInv, OneFiber
  <1>4. \A m \in 1..Len(open[l]) : \E i \in RunsOn(holder[l], l) : open[l][m] = stack[holder[l]][i].session
    BY <1>1, <1>2 DEF Follows
  <1>5. \A i \in RunsOn(holder[l], l) : \E m \in 1..Len(open[l]) : open[l][m] = stack[holder[l]][i].session
    BY <1>1, <1>2 DEF Follows
  <1>6. ASSUME NEW m \in 1..Len(open[l]), NEW k \in 1..Len(open[l]),
               NEW i \in RunsOn(holder[l], l), NEW j \in RunsOn(holder[l], l),
               open[l][m] = stack[holder[l]][i].session, open[l][k] = stack[holder[l]][j].session
        PROVE  m < k <=> i < j
    <2>1. IsRun(stack[holder[l]], i) /\ IsRun(stack[holder[l]], j)
      BY <1>2 DEF RunAt
    <2>2. PICK f \in Fiber : f = holder[l]
      BY <1>1
    <2>3. /\ i \in Nat /\ j \in Nat
          /\ stack[f][i].session.order \in Nat /\ stack[f][j].session.order \in Nat
          /\ i < j <=> stack[f][i].session.order < stack[f][j].session.order
      BY <2>1, <2>2, NestingIsOrder
    <2>4. /\ i \in Nat /\ j \in Nat
          /\ open[l][m].order \in Nat /\ open[l][k].order \in Nat
          /\ i < j <=> open[l][m].order < open[l][k].order
      BY <1>6, <2>2, <2>3
    <2>5. /\ m < k => open[l][m].order < open[l][k].order
          /\ k < m => open[l][k].order < open[l][m].order
      BY <1>1 DEF Follows
    <2>6. m < k \/ k < m \/ m = k
      OBVIOUS
    <2>7. m = k => open[l][m].order = open[l][k].order
      OBVIOUS
    <2> QED BY <2>4, <2>5, <2>6, <2>7, SMTT(30)
  <1> QED BY <1>3, <1>4, <1>5, <1>6 DEF RunsNest

\* The runs a library has going are those of one fiber's stack, whatever the
\* destructors of what closures hold do.
THEOREM RunsAlwaysNest == Spec => [](\A l \in Lib : RunsNest(l))
  <1>1. IInv => \A l \in Lib : RunsNest(l)
    BY Nests
  <1> QED BY <1>1, Inductive, PTL

\* A bounded set of positions that is not empty has a last one.
LEMMA LastPosition ==
    ASSUME NEW n \in Nat, NEW at \in SUBSET (1..n), at # {}
    PROVE  \E i \in at : \A j \in at : j <= i
  <1> DEFINE from == {n - i : i \in at}
  <1>1. from \in SUBSET Nat /\ from # {}
    <2>1. \A i \in at : i \in 1..n
      OBVIOUS
    <2>2. \A i \in at : n - i \in Nat
      BY <2>1
    <2>3. PICK i : i \in at
      OBVIOUS
    <2>4. n - i \in from
      BY <2>3
    <2> QED BY <2>2, <2>4
  <1>2. \E x \in from : \A y \in from : ~(<<y, x>> \in OpToRel(<, Nat))
    BY <1>1, NatLessThanWellFounded, WFMin, Zenon
  <1>3. \A x, y \in Nat : <<y, x>> \in OpToRel(<, Nat) <=> y < x
    BY Zenon DEF OpToRel
  <1>4. PICK x \in from : \A y \in from : ~(y < x)
    BY <1>1, <1>2, <1>3
  <1>5. PICK i \in at : x = n - i
    BY <1>4
  <1>6. ASSUME NEW j \in at PROVE j <= i
    <2>1. ~(n - j < n - i)
      BY <1>4, <1>5
    <2> QED BY <2>1
  <1> QED BY <1>6

\* The session of the innermost run of library l on the running fiber is what
\* l answers with there, and where it has no run there it answers none.
LEMMA HereOf ==
    ASSUME IInv, NEW l \in Lib
    PROVE  /\ \A s \in InnermostHere(l) :
                \E k : RunAt(Here, k, l) /\ Here[k].session = s
           /\ \A i : RunAt(Here, i, l) /\ (\A k : RunAt(Here, k, l) => k <= i)
                        => InnermostHere(l) = {Here[i].session} /\ Calls(Here[i].session)
  <1>1. current \in Fiber /\ Here = stack[current] /\ open[l] \in Seq(SessionOf) /\ Here \in Seq(FrameOf)
    BY HereIs DEF IInv, Types
  <1>2. holder[l] = current => Follows(Here, open[l], l)
    BY <1>1 DEF IInv, OpenFollows
  <1>3. open[l] # <<>> => Len(open[l]) \in 1..Len(open[l])
    BY <1>1, EmptySeq
  <1>4. ASSUME NEW s \in InnermostHere(l)
        PROVE  \E k : RunAt(Here, k, l) /\ Here[k].session = s
    <2>1. holder[l] = current /\ open[l] # <<>> /\ s = open[l][Len(open[l])]
      BY DEF InnermostHere, Last
    <2> QED BY <1>2, <1>3, <2>1 DEF Follows
  <1>5. ASSUME NEW i, RunAt(Here, i, l), \A k : RunAt(Here, k, l) => k <= i
        PROVE  InnermostHere(l) = {Here[i].session} /\ Calls(Here[i].session)
    <2>1. holder[l] = current
      BY <1>1, <1>5 DEF IInv, OneFiber
    <2>2. PICK m \in 1..Len(open[l]) : open[l][m] = Here[i].session
      BY <1>2, <1>5, <2>1 DEF Follows
    <2>3. open[l] # <<>> /\ Len(open[l]) \in 1..Len(open[l])
      BY <1>1, <1>3, <2>2
    <2>4. m = Len(open[l])
      <3> SUFFICES ASSUME m < Len(open[l]) PROVE FALSE
        BY <1>1, <2>2
      <3>1. PICK k : RunAt(Here, k, l) /\ Here[k].session = open[l][Len(open[l])]
        BY <1>2, <2>1, <2>3 DEF Follows
      <3>2. Here[i].session.order < Here[k].session.order
        BY <1>2, <2>1, <2>2, <2>3, <3>1 DEF Follows
      <3>3. i < k /\ i \in Nat /\ k \in Nat
        BY <1>1, <1>5, <3>1, <3>2, NestingIsOrder DEF RunAt
      <3> QED BY <1>5, <3>1, <3>3
    <2>5. Last(open[l]) = Here[i].session
      BY <2>2, <2>4 DEF Last
    <2>6. Here[i].session.library = l /\ Here[i].session \in SessionOf /\ Here[i].kind = "run" /\ i \in 1..Len(Here)
      BY <1>1, <1>5, FrameAt DEF RunAt, IsRun
    <2>7. Here[i].session.fiber = current
      BY <2>6, HereIs DEF StackStands, FrameStands
    <2>8. Here[i].session \in active
      BY <2>2, <2>6 DEF IInv, ActiveAreOpen
    <2> QED BY <2>1, <2>3, <2>5, <2>6, <2>7, <2>8 DEF InnermostHere, Calls
  <1> QED BY <1>4, <1>5

LEMMA Found ==
    ASSUME IInv, NEW libs \in SUBSET Lib, NEW at,
           at = {i \in DOMAIN Here : Here[i].kind = "run" /\ Here[i].session.library \in libs}
    PROVE  IF at = {} THEN InnermostOf(libs) = None
           ELSE \E i \in at : /\ \A j \in at : j <= i
                              /\ InnermostOf(libs) = Here[i].session
                              /\ Calls(Here[i].session)
  <1>1. Here \in Seq(FrameOf) /\ Len(Here) \in Nat /\ DOMAIN Here = 1..Len(Here) /\ Here = stack[current]
        /\ current \in Fiber
    BY HereIs
  <1>2. \A i : i \in at <=> \E l \in libs : RunAt(Here, i, l)
    BY <1>1 DEF RunAt, IsRun
  <1>3. PICK here : here = UNION {InnermostHere(l) : l \in libs}
    OBVIOUS
  <1>4. InnermostOf(libs) =
            IF here = {} THEN None ELSE CHOOSE s \in here : \A o \in here : s.order >= o.order
    BY <1>3 DEF InnermostOf
  <1>5. \A s \in here : \E k \in at : Here[k].session = s /\ IsRun(Here, k)
    <2> SUFFICES ASSUME NEW l \in libs, NEW s \in InnermostHere(l)
                 PROVE  \E k \in at : Here[k].session = s /\ IsRun(Here, k)
      BY <1>3
    <2>1. l \in Lib
      OBVIOUS
    <2>2. PICK k : RunAt(Here, k, l) /\ Here[k].session = s
      BY <2>1, HereOf
    <2> QED BY <1>2, <2>2 DEF RunAt
  <1>6. CASE at = {}
    BY <1>4, <1>5, <1>6
  <1>7. CASE at # {}
    <2>1. at \in SUBSET (1..Len(Here))
      BY <1>1
    <2>2. PICK i \in at : \A j \in at : j <= i
      BY <1>1, <1>7, <2>1, LastPosition, ZenonT(60)
    <2>3. PICK l \in libs : RunAt(Here, i, l)
      BY <1>2, <2>2
    <2>4. l \in Lib /\ \A k : RunAt(Here, k, l) => k <= i
      BY <1>2, <2>2
    <2>5. InnermostHere(l) = {Here[i].session} /\ Calls(Here[i].session)
      BY <2>3, <2>4, HereOf
    <2>6. PICK s : s = Here[i].session
      OBVIOUS
    <2>7. s \in here
      BY <1>3, <2>5, <2>6
    <2>8. ASSUME NEW o \in here PROVE s.order >= o.order /\ (o.order >= s.order => o = s)
      <3>1. PICK k \in at : Here[k].session = o /\ IsRun(Here, k)
        BY <1>5
      <3>2. k <= i /\ IsRun(Here, i)
        BY <2>2, <2>3, <3>1 DEF RunAt
      <3>3. /\ k \in Nat /\ i \in Nat
            /\ o.order \in Nat /\ s.order \in Nat
            /\ k < i <=> o.order < s.order
        BY <1>1, <2>6, <3>1, <3>2, NestingIsOrder
      <3>4. k = i => o = s
        BY <2>6, <3>1
      <3> QED BY <3>2, <3>3, <3>4
    <2>9. (CHOOSE r \in here : \A o \in here : r.order >= o.order) = s
      <3>1. PICK r : r = CHOOSE q \in here : \A o \in here : q.order >= o.order
        OBVIOUS
      <3>2. r \in here /\ \A o \in here : r.order >= o.order
        BY <2>7, <2>8, <3>1
      <3> QED BY <2>7, <2>8, <3>1, <3>2
    <2>10. InnermostOf(libs) = Here[i].session
      BY <1>4, <2>6, <2>7, <2>9
    <2> QED BY <1>7, <2>2, <2>5, <2>10
  <1> QED BY <1>6, <1>7

\* A function of a binding goes to the innermost run of the running fiber, over
\* all the libraries the binding was loaded for.
THEOREM FindsInnermost == Spec => []FoundIsInnermost
  <1>1. IInv => FoundIsInnermost
    BY Found DEF FoundIsInnermost
  <1> QED BY <1>1, Inductive, PTL
-----------------------------------------------------------------------------
(* What holds where no destructor uses the binding.                        *)

\* The scopes `up` are those of the runs `at`, each by its number, and with
\* them that of a run which has ended.
Numbers(at, up) == Len(up) = Len(at) /\ \A m \in 1..Len(at) : up[m] = at[m].order
NumbersAnd(at, session, up) ==
    /\ Len(up) = Len(at) + 1 /\ up[Len(up)] = session.order
    /\ \A m \in 1..Len(at) : up[m] = at[m].order

\* No run is ending, and each library's scopes are those of its runs.
Calm ==
    /\ \A f \in Fiber : \A i \in 1..Len(stack[f]) : stack[f][i].kind # "ending"
    /\ \A l \in Lib : Numbers(open[l], scopes[l])

\* One run is, whose scope is the innermost of its library.
Closing ==
    /\ Here # <<>> /\ Top.kind = "ending"
    /\ \A f \in Fiber : \A i \in 1..Len(stack[f]) :
            stack[f][i].kind = "ending" => f = current /\ i = Len(stack[f])
    /\ \A l \in Lib : IF l = Top.session.library THEN NumbersAnd(open[l], Top.session, scopes[l])
                      ELSE Numbers(open[l], scopes[l])

\* A value is in no scope inside its own run's, and while its run is active in
\* that of one of the runs `at` its library has going.
ValueStands(v, at, going, n) ==
    /\ v \in ValueOf /\ v.scope <= v.session.order /\ v.session.order <= n
    /\ v.session \in going => \E m \in 1..Len(at) : at[m].order = v.scope

SInv ==
    /\ Calm \/ Closing
    /\ \A v \in values : ValueStands(v, open[v.session.library], active, opened)

\* Then no other code runs between the end of a session and of its scope.
LEMMA OnlyEndedInside ==
    ASSUME ~Reentrant, SInv, HostCode
    PROVE  Calm
  BY DEF SInv, Closing, HostCode

LEMMA CalmUnlessEnding ==
    ASSUME SInv, Here = <<>> \/ Top.kind # "ending"
    PROVE  Calm
  BY DEF SInv, Closing

\* A step that starts and ends no run leaves every scope where it was.
LEMMA CalmStep ==
    ASSUME IInv, SInv, Calm, NEW t, t \in Seq(FrameOf), stack' = [stack EXCEPT ![current] = t],
           \A i \in 1..Len(t) : t[i].kind # "ending",
           UNCHANGED <<open, active, opened, scopes>>,
           \A v \in values' : v \in values \/ ValueStands(v, open[v.session.library], active, opened)
    PROVE  SInv'
  <1>1. stack \in [Fiber -> Seq(FrameOf)] /\ current \in Fiber
    BY DEF IInv, Types
  <1>2. \A f \in Fiber : stack'[f] = IF f = current THEN t ELSE stack[f]
    BY <1>1
  <1>3. Calm'
    BY <1>2 DEF Calm
  <1>4. \A v \in values' : ValueStands(v, open'[v.session.library], active', opened')
    BY DEF SInv
  <1> QED BY <1>3, <1>4 DEF SInv

LEMMA PopCalm ==
    ASSUME IInv, SInv, Here # <<>>, Top.kind # "ending",
           stack' = [stack EXCEPT ![current] = Front(Here)],
           UNCHANGED <<open, active, opened, scopes>>,
           \A v \in values' : v \in values \/ ValueStands(v, open[v.session.library], active, opened)
    PROVE  SInv'
  <1>1. PICK u : u = Front(Here)
    OBVIOUS
  <1>2. Topped(FrameOf, u, Here[Len(Here)], Here)
    BY <1>1, HereIs, PopTopped
  <1>3. Calm
    BY CalmUnlessEnding
  <1>4. \A i \in 1..Len(Here) : Here[i].kind # "ending"
    BY <1>3, HereIs DEF Calm
  <1>5. u \in Seq(FrameOf) /\ \A i \in 1..Len(u) : u[i].kind # "ending"
    BY <1>2, <1>4 DEF Topped
  <1> QED BY <1>1, <1>3, <1>5, CalmStep

LEMMA PushCalm ==
    ASSUME IInv, SInv, Calm, NEW e \in FrameOf, e.kind # "ending",
           stack' = [stack EXCEPT ![current] = Append(Here, e)],
           UNCHANGED <<open, active, opened, scopes>>,
           \A v \in values' : v \in values \/ ValueStands(v, open[v.session.library], active, opened)
    PROVE  SInv'
  <1>1. PICK t : t = Append(Here, e)
    OBVIOUS
  <1>2. Topped(FrameOf, Here, e, t)
    BY <1>1, HereIs, PushTopped
  <1>3. \A i \in 1..Len(Here) : Here[i].kind # "ending"
    BY HereIs DEF Calm
  <1>4. t \in Seq(FrameOf) /\ \A i \in 1..Len(t) : t[i].kind # "ending"
    BY <1>2, <1>3 DEF Topped
  <1> QED BY <1>1, <1>4, CalmStep

\* A value a call hands out stands in a scope of the runs its library has going.
LEMMA HandsOut ==
    ASSUME IInv, SInv, Here # <<>>, Top.kind = "call"
    PROVE  LET l == Top.session.library
           IN /\ Calm /\ l \in Lib /\ scopes[l] # <<>> /\ scopes[l] \in Seq(Nat)
              /\ \A n \in 1..Len(scopes[l]) :
                    ValueStands([session |-> Top.session, scope |-> scopes[l][n]], open[l], active, opened)
  <1>1. Calm
    BY CalmUnlessEnding
  <1>2. PICK s \in SessionOf : s = Top.session
    BY HereIs, FrameAt
  <1>3. PICK l \in Lib : l = s.library
    BY DEF SessionOf
  <1>4. holder[l] = current /\ open[l] # <<>> /\ Last(open[l]) = s
    BY <1>2, <1>3, CallTop
  <1>5. open[l] \in Seq(SessionOf) /\ scopes[l] \in Seq(Nat) /\ Numbers(open[l], scopes[l])
    BY <1>1 DEF IInv, Types, Calm
  <1>6. Len(open[l]) \in 1..Len(open[l]) /\ open[l][Len(open[l])] = s /\ Len(scopes[l]) = Len(open[l])
    BY <1>4, <1>5, EmptySeq DEF Last, Numbers
  <1>7. scopes[l] # <<>>
    BY <1>6
  <1>8. Follows(Here, open[l], l) /\ Ordered(Here, opened)
    BY <1>4, HereIs DEF IInv, OpenFollows
  <1>9. s.order <= opened
    BY <1>6, <1>8 DEF Follows, Ordered, RunAt
  <1>10. ASSUME NEW n \in 1..Len(scopes[l])
         PROVE  ValueStands([session |-> s, scope |-> scopes[l][n]], open[l], active, opened)
    <2>1. n \in 1..Len(open[l]) /\ scopes[l][n] = open[l][n].order /\ scopes[l][n] \in Nat
      BY <1>5, <1>6 DEF Numbers
    <2>2. scopes[l][n] <= s.order
      <3>1. CASE n = Len(open[l])
        BY <1>6, <2>1, <3>1
      <3>2. CASE n < Len(open[l])
        <4>1. open[l][n].order < s.order
          BY <1>6, <1>8, <2>1, <3>2 DEF Follows
        <4>2. s.order \in Nat
          BY DEF SessionOf
        <4> QED BY <2>1, <4>1, <4>2
      <3> QED BY <1>5, <2>1, <3>1, <3>2
    <2>3. [session |-> s, scope |-> scopes[l][n]] \in ValueOf
      BY <2>1 DEF ValueOf
    <2> QED BY <1>9, <2>1, <2>2, <2>3 DEF ValueStands
  <1> QED BY <1>1, <1>2, <1>3, <1>5, <1>7, <1>10
LEMMA RunCalm ==
    ASSUME ~Reentrant, IInv, SInv, NEW l \in Lib, Run(l)
    PROVE  SInv'
  <1> DEFINE session == [order |-> opened + 1, library |-> l, fiber |-> current]
             e == Frame("run", session)
  <1>1. /\ open' = [open EXCEPT ![l] = Append(@, session)]
        /\ active' = active \cup {session}
        /\ opened' = opened + 1
        /\ scopes' = [scopes EXCEPT ![l] = Append(@, session.order)]
        /\ stack' = [stack EXCEPT ![current] = Append(Here, e)]
        /\ UNCHANGED <<current, values>>
    BY DEF Run, Push, Here
  <1>2. Calm
    BY OnlyEndedInside DEF Run
  <1>3. /\ current \in Fiber /\ opened \in Nat /\ stack \in [Fiber -> Seq(FrameOf)]
        /\ open \in [Lib -> Seq(SessionOf)] /\ scopes \in [Lib -> Seq(Nat)]
    BY DEF IInv, Types
  <1>4. session \in SessionOf /\ session.order = opened + 1 /\ session.library = l
    BY <1>3 DEF SessionOf
  <1>5. e \in FrameOf /\ e.kind = "run"
    BY <1>4 DEF Frame, FrameOf
  <1> HIDE DEF session, e
  <1>6. PICK t : t = Append(Here, e)
    OBVIOUS
  <1>7. Topped(FrameOf, Here, e, t)
    BY <1>5, <1>6, HereIs, PushTopped
  <1>8. \A i \in 1..Len(Here) : Here[i].kind # "ending"
    BY <1>2, HereIs DEF Calm
  <1>9. \A i \in 1..Len(t) : t[i].kind # "ending"
    BY <1>5, <1>7, <1>8 DEF Topped
  <1>10. \A f \in Fiber : stack'[f] = IF f = current THEN t ELSE stack[f]
    BY <1>1, <1>3, <1>6
  <1>11. Topped(SessionOf, open[l], session, open'[l]) /\ \A m \in Lib : m # l => open'[m] = open[m]
    <2>1. open'[l] = Append(open[l], session) /\ open[l] \in Seq(SessionOf)
      BY <1>1, <1>3
    <2>2. Topped(SessionOf, open[l], session, open'[l])
      BY <1>4, <2>1, PushTopped
    <2> QED BY <1>1, <1>3, <2>2
  <1>12. Topped(Nat, scopes[l], session.order, scopes'[l]) /\ \A m \in Lib : m # l => scopes'[m] = scopes[m]
    <2>1. scopes'[l] = Append(scopes[l], session.order) /\ scopes[l] \in Seq(Nat) /\ session.order \in Nat
      BY <1>1, <1>3, <1>4
    <2>2. Topped(Nat, scopes[l], session.order, scopes'[l])
      BY <2>1, PushTopped
    <2> QED BY <1>1, <1>3, <2>2
  <1>13. ASSUME NEW m \in Lib PROVE Numbers(open'[m], scopes'[m])
    <2>1. Numbers(open[m], scopes[m])
      BY <1>2 DEF Calm
    <2>2. CASE m = l
      <3>1. /\ Len(open'[l]) = Len(open[l]) + 1 /\ Len(open[l]) \in Nat
            /\ open'[l][Len(open'[l])] = session
            /\ \A n \in 1..Len(open[l]) : open'[l][n] = open[l][n]
        BY <1>11 DEF Topped
      <3>2. /\ Len(scopes'[l]) = Len(scopes[l]) + 1
            /\ scopes'[l][Len(scopes'[l])] = session.order
            /\ \A n \in 1..Len(scopes[l]) : scopes'[l][n] = scopes[l][n]
        BY <1>12 DEF Topped
      <3>3. Len(scopes[l]) = Len(open[l]) /\ \A n \in 1..Len(open[l]) : scopes[l][n] = open[l][n].order
        BY <2>1, <2>2 DEF Numbers
      <3>4. ASSUME NEW n \in 1..Len(open'[l]) PROVE scopes'[l][n] = open'[l][n].order
        <4>1. n = Len(open'[l]) \/ n \in 1..Len(open[l])
          BY <3>1
        <4> QED BY <3>1, <3>2, <3>3, <4>1
      <3> QED BY <2>2, <3>1, <3>2, <3>3, <3>4 DEF Numbers
    <2>3. CASE m # l
      BY <1>11, <1>12, <2>1, <2>3
    <2> QED BY <2>2, <2>3
  <1>14. Calm'
    <2>1. \A f \in Fiber : \A i \in 1..Len(stack'[f]) : stack'[f][i].kind # "ending"
      BY <1>2, <1>9, <1>10 DEF Calm
    <2> QED BY <1>13, <2>1 DEF Calm
  <1>15. ASSUME NEW v \in values PROVE ValueStands(v, open'[v.session.library], active', opened')
    <2>1. ValueStands(v, open[v.session.library], active, opened)
      BY DEF SInv
    <2>2. /\ v \in ValueOf /\ v.session \in SessionOf /\ v.session.order \in Nat
          /\ v.session.library \in Lib /\ v.session.order <= opened
      BY <2>1 DEF ValueStands, ValueOf, SessionOf
    <2>3. v.session \in active' => v.session \in active
      BY <1>1, <1>3, <1>4, <2>2
    <2>4. ASSUME NEW n \in 1..Len(open[v.session.library])
          PROVE  n \in 1..Len(open'[v.session.library])
                 /\ open'[v.session.library][n] = open[v.session.library][n]
      <3>1. /\ Len(open'[l]) = Len(open[l]) + 1 /\ Len(open[l]) \in Nat
            /\ \A k \in 1..Len(open[l]) : open'[l][k] = open[l][k]
        BY <1>11 DEF Topped
      <3>2. CASE v.session.library = l
        BY <3>1, <3>2
      <3>3. CASE v.session.library # l
        BY <1>11, <2>2, <3>3
      <3> QED BY <3>2, <3>3
    <2>5. v.session.order <= opened'
      BY <1>1, <1>3, <2>2, SMTT(30)
    <2>6. v.session \in active' =>
            \E n \in 1..Len(open'[v.session.library]) : open'[v.session.library][n].order = v.scope
      <3> SUFFICES ASSUME v.session \in active'
                   PROVE  \E n \in 1..Len(open'[v.session.library]) :
                            open'[v.session.library][n].order = v.scope
        OBVIOUS
      <3>1. PICK n \in 1..Len(open[v.session.library]) : open[v.session.library][n].order = v.scope
        BY <2>1, <2>3 DEF ValueStands
      <3> QED BY <2>4, <3>1
    <2> QED BY <2>1, <2>5, <2>6 DEF ValueStands
  <1> QED BY <1>1, <1>14, <1>15 DEF SInv

\* What stands in the scope of the run that ends was made in that run.
LEMMA CloseCalm ==
    ASSUME IInv, SInv, Close
    PROVE  SInv'
  <1>1. Here # <<>> /\ Top.kind = "run"
    BY DEF Close
  <1>2. PICK session : session = Top.session
    OBVIOUS
  <1>3. PICK l : l = session.library
    OBVIOUS
  <1>4. /\ session \in SessionOf /\ l \in Lib /\ Follows(Here, open[l], l)
        /\ Topped(SessionOf, open'[l], session, open[l])
        /\ \A m \in Lib : m # l => open'[m] = open[m]
        /\ \A m \in 1..Len(open'[l]) : open[l][m].order < session.order /\ m \in 1..Len(open[l])
    BY <1>2, <1>3, ClosedIs
  <1>5. PICK u : u = Front(Here)
    OBVIOUS
  <1> DEFINE e == Frame("ending", session)
             t == Append(u, e)
  <1>6. /\ active' = active \ {session}
        /\ stack' = [stack EXCEPT ![current] = t]
        /\ UNCHANGED <<current, opened, scopes, values>>
    BY <1>2, <1>5 DEF Close, Here
  <1>7. e \in FrameOf /\ e.kind = "ending" /\ e.session = session
    BY <1>4 DEF Frame, FrameOf
  <1> HIDE DEF e
  <1>8. Topped(FrameOf, u, Here[Len(Here)], Here)
    BY <1>1, <1>5, HereIs, PopTopped
  <1>9. Topped(FrameOf, u, e, t)
    BY <1>7, <1>8, PushTopped DEF Topped
  <1> HIDE DEF t
  <1>10. current \in Fiber /\ stack \in [Fiber -> Seq(FrameOf)]
    BY DEF IInv, Types
  <1>11. \A f \in Fiber : stack'[f] = IF f = current THEN t ELSE stack[f]
    BY <1>6, <1>10
  <1>12. Calm
    BY <1>1, CalmUnlessEnding
  <1>13. \A i \in 1..Len(Here) : Here[i].kind # "ending"
    BY <1>12, HereIs DEF Calm
  <1>14. \A i \in 1..Len(t) : t[i].kind = "ending" => i = Len(t)
    BY <1>8, <1>9, <1>13 DEF Topped
  <1>15. \A f \in Fiber : \A i \in 1..Len(stack'[f]) :
            stack'[f][i].kind = "ending" => f = current /\ i = Len(stack'[f])
    BY <1>11, <1>12, <1>14 DEF Calm
  <1>16. Here' = t /\ Top' = e /\ t # <<>>
    BY <1>6, <1>9, <1>10, <1>11 DEF Here, Top, Last, Topped
  <1>17. ASSUME NEW m \in Lib
         PROVE  IF m = l THEN NumbersAnd(open'[m], session, scopes[m]) ELSE Numbers(open'[m], scopes[m])
    <2>1. Numbers(open[m], scopes[m])
      BY <1>12 DEF Calm
    <2>2. CASE m = l
      <3>1. /\ Len(open[l]) = Len(open'[l]) + 1 /\ Len(open'[l]) \in Nat
            /\ open[l][Len(open[l])] = session
            /\ \A n \in 1..Len(open'[l]) : open[l][n] = open'[l][n]
        BY <1>4 DEF Topped
      <3>2. Len(scopes[l]) = Len(open[l]) /\ Len(open[l]) \in 1..Len(open[l])
        BY <2>1, <2>2, <3>1 DEF Numbers
      <3>3. scopes[l][Len(scopes[l])] = session.order
        BY <2>1, <2>2, <3>1, <3>2, SMTT(30) DEF Numbers
      <3>4. \A n \in 1..Len(open'[l]) : scopes[l][n] = open'[l][n].order
        BY <1>4, <2>1, <2>2, <3>1 DEF Numbers
      <3> QED BY <2>2, <3>1, <3>2, <3>3, <3>4 DEF NumbersAnd
    <2>3. CASE m # l
      BY <1>4, <2>1, <2>3
    <2> QED BY <2>2, <2>3
  <1>18. Closing'
    BY <1>3, <1>6, <1>7, <1>15, <1>16, <1>17 DEF Closing
  <1>19. ASSUME NEW v \in values PROVE ValueStands(v, open'[v.session.library], active', opened')
    <2>1. ValueStands(v, open[v.session.library], active, opened)
      BY DEF SInv
    <2>2. /\ v \in ValueOf /\ v.session \in SessionOf /\ v.session.order \in Nat /\ v.scope \in Nat
          /\ v.session.library \in Lib /\ v.scope <= v.session.order
      BY <2>1 DEF ValueStands, ValueOf, SessionOf
    <2>3. ASSUME v.session \in active'
          PROVE  \E m \in 1..Len(open'[v.session.library]) : open'[v.session.library][m].order = v.scope
      <3>1. v.session \in active /\ v.session # session
        BY <1>6, <2>3
      <3>2. PICK m \in 1..Len(open[v.session.library]) : open[v.session.library][m].order = v.scope
        BY <2>1, <3>1 DEF ValueStands
      <3>3. CASE v.session.library # l
        BY <1>4, <2>2, <3>2, <3>3
      <3>4. CASE v.session.library = l
        <4>1. PICK k \in 1..Len(open[l]) : open[l][k] = v.session
          BY <3>1, <3>4 DEF IInv, ActiveAreOpen
        <4>2. /\ Len(open[l]) = Len(open'[l]) + 1 /\ Len(open'[l]) \in Nat
              /\ open[l][Len(open[l])] = session
              /\ \A n \in 1..Len(open'[l]) : open[l][n] = open'[l][n]
          BY <1>4 DEF Topped
        <4>3. k \in 1..Len(open'[l])
          BY <3>1, <4>1, <4>2
        <4>4. v.session.order < session.order /\ session.order \in Nat
          BY <1>4, <4>1, <4>3 DEF SessionOf
        <4>5. m # Len(open[l])
          BY <2>2, <3>2, <3>4, <4>2, <4>4, SMTT(30)
        <4>6. m \in 1..Len(open'[l])
          BY <3>2, <3>4, <4>2, <4>5
        <4> QED BY <3>2, <3>4, <4>2, <4>6
      <3> QED BY <3>3, <3>4
    <2> QED BY <1>6, <2>1, <2>3 DEF ValueStands
  <1> QED BY <1>6, <1>18, <1>19 DEF SInv

\* souther_scope_close is handed the innermost scope.
LEMMA EndedCalm ==
    ASSUME IInv, SInv, Ended
    PROVE  SInv'
  <1>1. /\ Here # <<>> /\ Top.kind = "ending"
        /\ stack' = [stack EXCEPT ![current] = Front(Here)]
        /\ scopes' = ScopesAfter(Top.session)
        /\ UNCHANGED <<current, open, active, opened, values>>
    BY DEF Ended, Pop, Here
  <1>2. Top.session \in SessionOf /\ Top.session.library \in Lib
    BY <1>1, HereIs, FrameAt
  <1>3. PICK l \in Lib : l = Top.session.library
    BY <1>2
  <1>4. /\ current \in Fiber /\ stack \in [Fiber -> Seq(FrameOf)] /\ scopes \in [Lib -> Seq(Nat)]
        /\ open \in [Lib -> Seq(SessionOf)] /\ Here = stack[current]
    BY HereIs DEF IInv, Types
  <1>5. Closing
    BY <1>1, <1>4, HereIs DEF SInv, Calm
  <1>6. NumbersAnd(open[l], Top.session, scopes[l]) /\ \A m \in Lib : m # l => Numbers(open[m], scopes[m])
    BY <1>3, <1>5 DEF Closing
  <1>7. Len(open[l]) \in Nat /\ scopes[l] \in Seq(Nat) /\ scopes[l] # <<>>
        /\ Last(scopes[l]) = Top.session.order
    BY <1>4, <1>6 DEF NumbersAnd, Last
  <1>8. scopes' = [scopes EXCEPT ![l] = Front(@)]
    BY <1>1, <1>3, <1>7 DEF ScopesAfter
  <1>9. scopes'[l] = Front(scopes[l]) /\ \A m \in Lib : m # l => scopes'[m] = scopes[m]
    BY <1>4, <1>8
  <1>10. Topped(Nat, scopes'[l], scopes[l][Len(scopes[l])], scopes[l])
    BY <1>7, <1>9, PopTopped
  <1>11. Numbers(open[l], scopes'[l])
    <2>1. /\ Len(scopes[l]) = Len(scopes'[l]) + 1 /\ Len(scopes'[l]) \in Nat
          /\ \A n \in 1..Len(scopes'[l]) : scopes[l][n] = scopes'[l][n]
      BY <1>10 DEF Topped
    <2>2. Len(scopes[l]) = Len(open[l]) + 1 /\ \A n \in 1..Len(open[l]) : scopes[l][n] = open[l][n].order
      BY <1>6 DEF NumbersAnd
    <2>3. Len(scopes'[l]) = Len(open[l])
      BY <1>7, <2>1, <2>2
    <2> QED BY <2>1, <2>2, <2>3 DEF Numbers
  <1>12. \A m \in Lib : Numbers(open[m], scopes'[m])
    BY <1>6, <1>9, <1>11
  <1>13. PICK u : u = Front(Here)
    OBVIOUS
  <1>14. Topped(FrameOf, u, Here[Len(Here)], Here)
    BY <1>1, <1>13, HereIs, PopTopped
  <1>15. \A i \in 1..Len(Here) : Here[i].kind = "ending" => i = Len(Here)
    BY <1>4, <1>5 DEF Closing
  <1>16. \A i \in 1..Len(u) : u[i].kind # "ending"
    BY <1>14, <1>15 DEF Topped
  <1>17. \A f \in Fiber : stack'[f] = IF f = current THEN u ELSE stack[f]
    BY <1>1, <1>4, <1>13
  <1>18. \A f \in Fiber : \A i \in 1..Len(stack'[f]) : stack'[f][i].kind # "ending"
    BY <1>5, <1>16, <1>17 DEF Closing
  <1>19. Calm'
    BY <1>1, <1>12, <1>18 DEF Calm
  <1> QED BY <1>1, <1>19 DEF SInv
\* What a call answers, and what it hands to what it calls back, stands.
LEMMA AnswersCalm ==
    ASSUME IInv, SInv, Answers
    PROVE  SInv'
  <1>1. /\ Here # <<>> /\ Top.kind = "call"
        /\ values' = values \cup {[session |-> Top.session, scope |-> Last(scopes[Top.session.library])]}
        /\ stack' = [stack EXCEPT ![current] = Front(Here)]
        /\ UNCHANGED <<open, active, opened, scopes>>
    BY DEF Answers, InLibrary, Pop, runs, Here
  <1>2. PICK l : l = Top.session.library
    OBVIOUS
  <1>3. /\ scopes[l] # <<>> /\ scopes[l] \in Seq(Nat)
        /\ \A n \in 1..Len(scopes[l]) :
              ValueStands([session |-> Top.session, scope |-> scopes[l][n]], open[l], active, opened)
    BY <1>1, <1>2, HandsOut
  <1>4. Len(scopes[l]) \in 1..Len(scopes[l])
    BY <1>3, EmptySeq
  <1>5. PICK v : v = [session |-> Top.session, scope |-> Last(scopes[l])]
    OBVIOUS
  <1>6. ValueStands(v, open[l], active, opened) /\ v.session.library = l
    BY <1>2, <1>3, <1>4, <1>5 DEF Last
  <1>7. \A o \in values' : o \in values \/ ValueStands(o, open[o.session.library], active, opened)
    BY <1>1, <1>2, <1>5, <1>6
  <1> QED BY <1>1, <1>7, PopCalm

LEMMA CallBackCalm ==
    ASSUME IInv, SInv, CallBack
    PROVE  SInv'
  <1>1. /\ Here # <<>> /\ Top.kind = "call"
        /\ UNCHANGED <<open, active, opened, scopes>>
    BY DEF CallBack, InLibrary, runs
  <1>2. PICK l : l = Top.session.library
    OBVIOUS
  <1>3. Last(open[l]) = Top.session
    BY <1>1, <1>2, CallTop
  <1>4. /\ Calm /\ scopes[l] \in Seq(Nat)
        /\ \A n \in 1..Len(scopes[l]) :
              ValueStands([session |-> Top.session, scope |-> scopes[l][n]], open[l], active, opened)
    BY <1>1, <1>2, HandsOut
  <1> DEFINE e == Frame("implementation", Top.session)
  <1>5. PICK scope \in ToSet(scopes[l]) :
            values' = values \cup {[session |-> Top.session, scope |-> scope]}
    BY <1>2, <1>3 DEF CallBack
  <1>6. PICK n \in 1..Len(scopes[l]) : scope = scopes[l][n]
    BY <1>4, SMTT(30) DEF ToSet
  <1>7. PICK v : v = [session |-> Top.session, scope |-> scope]
    OBVIOUS
  <1>8. ValueStands(v, open[l], active, opened) /\ v.session.library = l
    BY <1>2, <1>4, <1>6, <1>7
  <1>9. \A o \in values' : o \in values \/ ValueStands(o, open[o.session.library], active, opened)
    BY <1>5, <1>7, <1>8
  <1>10. stack' = [stack EXCEPT ![current] = Append(Here, e)]
    BY <1>2, <1>3 DEF CallBack, Push, Here
  <1>11. Top.session \in SessionOf
    BY <1>1, HereIs, FrameAt
  <1>12. e \in FrameOf /\ e.kind # "ending"
    BY <1>11 DEF Frame, FrameOf
  <1> HIDE DEF e
  <1> QED BY <1>1, <1>4, <1>9, <1>10, <1>12, PushCalm

LEMMA CallCalm ==
    ASSUME ~Reentrant, IInv, SInv, NEW libs \in SUBSET Lib, Call(libs)
    PROVE  SInv'
  <1>1. PICK s \in SessionOf : s = InnermostOf(libs)
    BY FoundIsSession DEF Call
  <1> DEFINE e == Frame("call", s)
  <1>2. /\ HostCode /\ stack' = [stack EXCEPT ![current] = Append(Here, e)]
        /\ UNCHANGED <<open, active, opened, scopes, values>>
    BY <1>1 DEF Call, Push, runs, Here
  <1>3. e \in FrameOf /\ e.kind # "ending"
    BY DEF Frame, FrameOf
  <1>4. Calm
    BY <1>2, OnlyEndedInside
  <1> HIDE DEF e
  <1> QED BY <1>2, <1>3, <1>4, PushCalm

LEMMA ThrowsCalm ==
    ASSUME IInv, SInv, NEW x \in Thrown, ImplementationThrows(x)
    PROVE  SInv'
  <1>1. /\ Here # <<>> /\ Top.kind = "implementation"
        /\ UNCHANGED <<current, open, active, opened, scopes, values>>
    BY DEF ImplementationThrows, Implementation, runs
  <1>2. Calm
    BY <1>1, CalmUnlessEnding
  <1>3. IInv' /\ current \in Fiber
    BY ImplementationThrowsStep, HereIs
  <1>4. PICK t : t = stack'[current]
    OBVIOUS
  <1>5. stack \in [Fiber -> Seq(FrameOf)] /\ stack' \in [Fiber -> Seq(FrameOf)] /\ Here = stack[current]
    BY <1>3, HereIs DEF IInv, Types
  <1>6. PICK u : u = Front(Here)
    OBVIOUS
  <1>7. PICK d : d = Len(Here) - 1
    OBVIOUS
  <1>8. /\ Topped(FrameOf, u, Here[Len(Here)], Here)
        /\ Len(Here) > 1 /\ Here[d].kind = "call"
    BY <1>1, <1>6, <1>7, HereIs, PopTopped DEF FrameStands
  <1>9. d \in 1..Len(u) /\ Len(u) = d /\ u \in Seq(FrameOf) /\ \A i \in 1..Len(u) : Here[i] = u[i]
    BY <1>7, <1>8 DEF Topped
  <1> DEFINE e == [Here[d] EXCEPT !.left = x]
  <1>10. stack' = [stack EXCEPT ![current] = [u EXCEPT ![d] = e]]
    <2>1. stack' = [stack EXCEPT ![current] =
                      [Front(stack[current]) EXCEPT ![Len(stack[current]) - 1] = [Here[Len(Here) - 1] EXCEPT !.left = x]]]
      BY DEF ImplementationThrows
    <2> QED BY <1>5, <1>6, <1>7, <2>1
  <1>11. e.kind = "call"
    <2>1. Here[d] \in FrameOf
      BY <1>9
    <2> QED BY <1>8, <2>1 DEF FrameOf
  <1> HIDE DEF e
  <1>12. t = [u EXCEPT ![d] = e]
    BY <1>3, <1>4, <1>5, <1>10
  <1>13. Len(t) = Len(u) /\ \A i \in 1..Len(u) : t[i] = IF i = d THEN e ELSE u[i]
    BY <1>9, <1>12
  <1>14. \A i \in 1..Len(Here) : Here[i].kind # "ending"
    BY <1>2, HereIs DEF Calm
  <1>15. \A i \in 1..Len(u) : i \in 1..Len(Here)
    BY <1>8 DEF Topped
  <1>16. \A i \in 1..Len(t) : t[i].kind # "ending"
    BY <1>9, <1>11, <1>13, <1>14, <1>15
  <1>17. t \in Seq(FrameOf) /\ stack' = [stack EXCEPT ![current] = t]
    BY <1>3, <1>4, <1>5, <1>10, <1>12
  <1> QED BY <1>1, <1>2, <1>16, <1>17, CalmStep

LEMMA NextSInv ==
    ASSUME ~Reentrant, IInv, SInv, [Next]_vars
    PROVE  SInv'
  <1>1. ASSUME NEW f \in Fiber, Switch(f) PROVE SInv'
    <2>1. Calm /\ UNCHANGED <<stack, open, active, opened, scopes, values>>
      BY <1>1, OnlyEndedInside DEF Switch, runs
    <2>2. Calm'
      BY <2>1 DEF Calm
    <2>3. \A v \in values' : ValueStands(v, open'[v.session.library], active', opened')
      BY <2>1 DEF SInv
    <2> QED BY <2>2, <2>3 DEF SInv
  <1>2. ASSUME NEW l \in Lib, Run(l) PROVE SInv'
    BY <1>2, RunCalm
  <1>3. CASE Close
    BY <1>3, CloseCalm
  <1>4. CASE Ended
    BY <1>4, EndedCalm
  <1>5. ASSUME NEW libs \in SUBSET Lib, Call(libs) PROVE SInv'
    BY <1>5, CallCalm
  <1>6. ASSUME NEW libs \in SUBSET Lib, Implement(libs) PROVE SInv'
    <2>1. Calm /\ UNCHANGED <<stack, open, active, opened, scopes, values>>
      BY <1>6, OnlyEndedInside DEF Implement, runs
    <2>2. Calm'
      BY <2>1 DEF Calm
    <2>3. \A v \in values' : ValueStands(v, open'[v.session.library], active', opened')
      BY <2>1 DEF SInv
    <2> QED BY <2>2, <2>3 DEF SInv
  <1>7. CASE Answers
    BY <1>7, AnswersCalm
  <1>8. CASE Aborts
    <2>1. /\ Here # <<>> /\ Top.kind # "ending" /\ stack' = [stack EXCEPT ![current] = Front(Here)]
          /\ UNCHANGED <<open, active, opened, scopes, values>>
      BY <1>8 DEF Aborts, InLibrary, Pop, runs, Here
    <2> QED BY <2>1, PopCalm
  <1>9. CASE CallBack
    BY <1>9, CallBackCalm
  <1>10. CASE ImplementationAnswers
    <2>1. /\ Here # <<>> /\ Top.kind # "ending" /\ stack' = [stack EXCEPT ![current] = Front(Here)]
          /\ UNCHANGED <<open, active, opened, scopes, values>>
      BY <1>10 DEF ImplementationAnswers, Implementation, Pop, runs, Here
    <2> QED BY <2>1, PopCalm
  <1>11. ASSUME NEW x \in Thrown, ImplementationThrows(x) PROVE SInv'
    BY <1>11, ThrowsCalm
  <1>12. CASE Fails
    <2>1. /\ Here # <<>> /\ Top.kind # "ending" /\ stack' = [stack EXCEPT ![current] = Front(Here)]
          /\ UNCHANGED <<open, active, opened, scopes, values>>
      BY <1>12 DEF Fails, InLibrary, Pop, runs, Here
    <2> QED BY <2>1, PopCalm
  <1>13. CASE UNCHANGED vars
    <2>1. UNCHANGED <<current, stack, open, active, opened, scopes, values>>
      BY <1>13 DEF vars
    <2> QED BY <2>1 DEF SInv, Calm, Closing, Here, Top, Last
  <1> QED BY <1>1, <1>2, <1>3, <1>4, <1>5, <1>6, <1>7, <1>8, <1>9, <1>10, <1>11, <1>12, <1>13, Zenon DEF Next

LEMMA InitSInv == Init => SInv
  <1> SUFFICES ASSUME Init PROVE SInv
    OBVIOUS
  <1>1. \A l \in Lib : open[l] = <<>> /\ scopes[l] = <<>>
    BY DEF Init
  <1>2. \A l \in Lib : Numbers(open[l], scopes[l])
    BY <1>1 DEF Numbers
  <1>3. \A f \in Fiber : stack[f] = <<>>
    BY DEF Init
  <1>4. Calm
    BY <1>2, <1>3 DEF Calm
  <1> QED BY <1>4 DEF SInv, Init

LEMMA InductiveInside ==
    ASSUME ~Reentrant
    PROVE  Spec => [](IInv /\ SInv)
  <1>1. Init => IInv /\ SInv
    BY InitIInv, InitSInv
  <1>2. IInv /\ SInv /\ [Next]_vars => (IInv /\ SInv)'
    BY NextIInv, NextSInv
  <1> QED BY <1>1, <1>2, PTL DEF Spec

LEMMA OneStack ==
    ASSUME IInv, SInv
    PROVE  RunsAreOneStack
  <1> SUFFICES ASSUME NEW l \in Lib, ~Ending(l)
               PROVE  scopes[l] = [m \in 1..Len(open[l]) |-> open[l][m].order]
    BY Nests DEF RunsAreOneStack
  <1>1. scopes[l] \in Seq(Nat) /\ DOMAIN stack[current] = 1..Len(stack[current]) /\ current \in Fiber
    BY DEF IInv, Types
  <1>2. Numbers(open[l], scopes[l])
    <2>1. CASE Calm
      BY <2>1 DEF Calm
    <2>2. CASE Closing
      <3>1. l # Top.session.library
        BY <1>1, <2>2, HereIs DEF Ending, Closing
      <3> QED BY <2>2, <3>1 DEF Closing
    <2> QED BY <2>1, <2>2 DEF SInv
  <1>3. PICK up \in Seq(Nat) : up = scopes[l]
    BY <1>1
  <1>4. up = [m \in 1..Len(up) |-> up[m]]
    OBVIOUS
  <1>5. Len(up) = Len(open[l]) /\ \A m \in 1..Len(open[l]) : up[m] = open[l][m].order
    BY <1>2, <1>3 DEF Numbers
  <1> QED BY <1>3, <1>4, <1>5

\* The runs of a library are one stack whatever fibers there are: with none
\* ending its arena has a scope open for each and no other, so that the scope
\* souther_scope_close is handed is the innermost (NativeLibrary.php, $holder).
THEOREM OneStackOfRuns ==
    ASSUME ~Reentrant
    PROVE  Spec => []RunsAreOneStack
  <1>1. IInv /\ SInv => RunsAreOneStack
    BY OneStack
  <1> QED BY <1>1, InductiveInside, PTL

\* "A value made in a run is good until then" (Session.php): what borrow()
\* hands over stands in a scope its arena still has.
THEOREM BorrowedStands ==
    ASSUME ~Reentrant
    PROVE  Spec => []HeldValuesStand
  <1>1. ASSUME IInv, SInv PROVE HeldValuesStand
    <2> SUFFICES ASSUME NEW v \in values, NEW into \in active, Borrow(v, into)
                 PROVE  v.scope \in ToSet(scopes[into.library])
      BY DEF HeldValuesStand
    <2>1. ValueStands(v, open[v.session.library], active, opened)
      BY <1>1 DEF SInv
    <2>2. PICK l \in Lib : l = v.session.library
      BY <2>1 DEF ValueStands, ValueOf, SessionOf
    <2>3. v.session \in active /\ into.library = l
      BY <2>2 DEF Borrow
    <2>4. PICK m \in 1..Len(open[l]) : open[l][m].order = v.scope
      BY <2>1, <2>2, <2>3 DEF ValueStands
    <2>5. open[l] \in Seq(SessionOf) /\ scopes[l] \in Seq(Nat)
      BY <1>1 DEF IInv, Types
    <2>6. m \in 1..Len(scopes[l]) /\ scopes[l][m] = open[l][m].order
      <3>1. Numbers(open[l], scopes[l]) \/ NumbersAnd(open[l], Top.session, scopes[l])
        BY <1>1 DEF SInv, Calm, Closing
      <3> QED BY <2>5, <3>1, SMTT(60) DEF Numbers, NumbersAnd
    <2>7. m \in DOMAIN scopes[l]
      BY <2>5, <2>6
    <2> QED BY <2>3, <2>4, <2>6, <2>7 DEF ToSet
  <1>2. IInv /\ SInv => HeldValuesStand
    BY <1>1
  <1> QED BY <1>2, InductiveInside, PTL
=============================================================================
