---------------------------- MODULE GoRun_proofs ----------------------------
(***************************************************************************)
(* What is proved of GoRun, for every set of goroutines, threads and       *)
(* libraries and every bound: all of it until a run that had ended passes a *)
(* check (strayed), and where a goroutine asks only the runs it opened.    *)
(***************************************************************************)
EXTENDS GoRun, SequenceTheorems, FiniteSetTheorems, WellFoundedInduction, TLAPS

-----------------------------------------------------------------------------
(* Numbers, and sequences that grow and shrink at their end.               *)

\* A set of numbers has a least one.
LEMMA LeastNumber ==
    ASSUME NEW S \in SUBSET Nat, S # {}
    PROVE  \E n \in S : \A m \in S : n <= m
  <1>1. \E x \in S : \A y \in S : ~(<<y, x>> \in OpToRel(<, Nat))
    BY NatLessThanWellFounded, WFMin, Zenon
  <1>2. \A x, y \in Nat : <<y, x>> \in OpToRel(<, Nat) <=> y < x
    BY Zenon DEF OpToRel
  <1>3. PICK x \in S : \A y \in S : ~(y < x)
    BY <1>1, <1>2
  <1> QED BY <1>3

LEMMA AppendIs ==
    ASSUME NEW S, NEW s \in Seq(S), NEW e \in S
    PROVE  /\ Append(s, e) \in Seq(S)
           /\ Len(s) \in Nat /\ Len(Append(s, e)) = Len(s) + 1
           /\ \A n \in 1..Len(s) : Append(s, e)[n] = s[n]
           /\ Append(s, e)[Len(s) + 1] = e
  OBVIOUS

LEMMA FrontIs ==
    ASSUME NEW S, NEW s \in Seq(S), s # <<>>
    PROVE  /\ Front(s) \in Seq(S)
           /\ Len(s) \in Nat \ {0} /\ Len(Front(s)) = Len(s) - 1
           /\ \A n \in 1..(Len(s) - 1) : Front(s)[n] = s[n]
           /\ s[Len(s)] \in S
  <1>1. Len(s) \in Nat \ {0}
    BY EmptySeq
  <1>2. PICK m \in Nat : m = Len(s) - 1
    BY <1>1
  <1>3. \A n \in 1..m : s[n] \in S
    BY <1>1, <1>2
  <1>4. SubSeq(s, 1, m) \in Seq(S)
    BY <1>3, SubSeqProperties
  <1>5. Len(SubSeq(s, 1, m)) = m /\ \A n \in 1..m : SubSeq(s, 1, m)[n] = s[n]
    <2>1. m \in Nat /\ m < Len(s)
      BY <1>1, <1>2
    <2>2. Len(SubSeq(s, 1, m)) = m
      BY <2>1, <1>3
    <2>3. \A n \in 1..m : SubSeq(s, 1, m)[n] = s[n]
      BY <2>1, <1>3
    <2> QED BY <2>2, <2>3
  <1>6. s[Len(s)] \in S
    BY <1>1
  <1> QED BY <1>1, <1>2, <1>4, <1>5, <1>6 DEF Front

\* A sequence t of what s has and e after it.
Topped(S, s, e, t) ==
    /\ s \in Seq(S) /\ t \in Seq(S) /\ e \in S /\ Len(s) \in Nat
    /\ Len(t) = Len(s) + 1 /\ t[Len(t)] = e /\ t # <<>>
    /\ \A i \in 1..Len(s) : t[i] = s[i]

LEMMA PushTopped ==
    ASSUME NEW S, NEW s \in Seq(S), NEW e \in S, NEW t, t = Append(s, e)
    PROVE  Topped(S, s, e, t)
  BY AppendIs DEF Topped

LEMMA PopTopped ==
    ASSUME NEW S, NEW t \in Seq(S), t # <<>>, NEW s, s = Front(t)
    PROVE  Topped(S, s, t[Len(t)], t)
  <1>1. /\ s \in Seq(S)
        /\ Len(t) \in Nat \ {0} /\ Len(s) = Len(t) - 1
        /\ \A n \in 1..(Len(t) - 1) : s[n] = t[n]
        /\ t[Len(t)] \in S
    BY FrontIs
  <1> QED BY <1>1 DEF Topped

-----------------------------------------------------------------------------
(* The inductive invariant.  Its parts speak of the stack s of a goroutine *)
(* g on a thread t, and of the runs rs.                                    *)

FrameOf ==
    [kind : Opened \cup {"call", "host"}, run : Nat,
     phase : {"in", "expired", "closed", "refused", "ended", "left"},
     given : SUBSET Nat, raised : Seq(Caught), at : Nat]
RunOf ==
    [lib : Lib, thread : Thread, live : BOOLEAN, child : Nat, calls : Seq(Caught \cup {Nothing}),
     room : BOOLEAN, by : Goroutine]
Told ==
    Caught \cup {Nothing, "ErrAlreadyRunning", "ErrForeignHandle", "answered",
                 "ErrProtocolViolation", "ErrUnbound", "Abort"}
KeyOf == [identity : Lib, thread : Thread]
ReadOf == [thread : Thread, scope : Nat, room : Nat]

TypeOK ==
    /\ on \in [Goroutine -> Thread \cup {None}]
    /\ locks \in [Goroutine -> Nat]
    /\ stack \in [Goroutine -> Seq(FrameOf)]
    /\ asked \in [Goroutine -> Nat]
    /\ raising \in [Goroutine -> {Nothing, "panicked"}]
    /\ answer \in [Goroutine -> Told]
    /\ roots \in Seq(KeyOf)
    /\ runs \in Seq(RunOf)
    /\ scopes \in [Thread -> [Lib -> Seq(Nat)]]
    /\ reads \in SUBSET ReadOf

\* Frame i is of an open run, and of one of library l.
IsOpen(s, i) == s[i].kind \in Opened
OpenOf(s, rs, i, l) == IsOpen(s, i) /\ rs[s[i].run].lib = l

\* How many of the frames 1..i are calls through run n, and how many root runs.
Nth(s, n, i) == Cardinality({j \in 1..i : s[j].kind = "call" /\ s[j].run = n})
Roots(s, i) == Cardinality({j \in 1..i : s[j].kind = "run"})

\* What is so of an open run, of a call and of a host's function at frame i,
\* which depends on the frames up to i alone.
RunStands(s, rs, g, t, i) ==
    LET l == rs[s[i].run].lib IN
    /\ rs[s[i].run].by = g /\ rs[s[i].run].thread = t
    /\ \A j \in 1..(i - 1) : IsOpen(s, j) => s[j].run < s[i].run
    /\ s[i].kind = "run" => \A j \in 1..(i - 1) : ~OpenOf(s, rs, j, l)
    /\ s[i].kind = "scope" => \E j \in 1..(i - 1) : s[j].kind = "run" /\ rs[s[j].run].lib = l

CallStands(s, rs, i) ==
    LET l == rs[s[i].run].lib IN
    /\ \E j \in 1..(i - 1) :
            /\ IsOpen(s, j) /\ s[j].run = s[i].run
            /\ \A k \in (j + 1)..(i - 1) : ~OpenOf(s, rs, k, l)
    /\ \A o \in s[i].given : \E j \in 1..(i - 1) : OpenOf(s, rs, j, l) /\ s[j].run = o

HostStands(s, i) ==
    /\ i > 1 /\ s[i - 1].kind = "call" /\ s[i - 1].run = s[i].run
    /\ s[i].at = Nth(s, s[i].run, i - 1)

Stands(s, rs, g, t, i) ==
    /\ s[i].run \in 1..Len(rs)
    /\ i = 1 => s[i].kind = "run"
    /\ i > 1 /\ s[i - 1].kind = "call" => s[i].kind = "host"
    /\ IsOpen(s, i) => RunStands(s, rs, g, t, i)
    /\ s[i].kind = "call" => CallStands(s, rs, i)
    /\ s[i].kind = "host" => HostStands(s, i)

\* Only the innermost frame can be ending, and only a run does; a root run is left.
Phased(s) ==
    \A i \in 1..Len(s) : s[i].phase # "in" =>
        i = Len(s) /\ IsOpen(s, i) /\ (s[i].phase = "left" => s[i].kind = "run")

\* A run is live from when it is opened until its function has returned.
LiveIn(s, rs, g) ==
    \A n \in 1..Len(rs) : rs[n].by = g =>
        (rs[n].live <=> \E i \in 1..Len(s) : IsOpen(s, i) /\ s[i].phase = "in" /\ s[i].run = n)

\* A run has inside it the next one of its library.
Inside(s, rs, i, j) ==
    /\ OpenOf(s, rs, j, rs[s[i].run].lib)
    /\ \A k \in (i + 1)..(j - 1) : ~OpenOf(s, rs, k, rs[s[i].run].lib)
Chained(s, rs, i) ==
    IF rs[s[i].run].child = 0
    THEN \A j \in (i + 1)..Len(s) : ~OpenOf(s, rs, j, rs[s[i].run].lib)
    ELSE \E j \in (i + 1)..Len(s) : Inside(s, rs, i, j) /\ s[j].run = rs[s[i].run].child

\* A run keeps as many calls as are under way through it.
Counted(s, rs, i) == Len(rs[s[i].run].calls) = Nth(s, s[i].run, Len(s))

\* What a call keeps is the first failure of an implementation it called back.
FirstOf(raised) == IF raised = <<>> THEN Nothing ELSE raised[1]
Kept(s, rs, i) == rs[s[i].run].calls[Nth(s, s[i].run, i)] = FirstOf(s[i].raised)

Nested(s, rs, g, t) ==
    /\ \A i \in 1..Len(s) : Stands(s, rs, g, t, i)
    /\ Phased(s)
    /\ LiveIn(s, rs, g)
    /\ \A i \in 1..Len(s) : IsOpen(s, i) => Chained(s, rs, i) /\ Counted(s, rs, i)
    /\ \A i \in 1..Len(s) : s[i].kind = "call" => Kept(s, rs, i)

\* A run opened inside another is the same goroutine's, and was opened later.
ChildrenLater(rs) ==
    \A n \in 1..Len(rs) : rs[n].child # 0 =>
        rs[n].child \in (n + 1)..Len(rs) /\ rs[rs[n].child].by = rs[n].by

\* A goroutine with a stack is locked to a thread, and no thread runs two.
Placed ==
    /\ \A g \in Goroutine : locks[g] = Roots(stack[g], Len(stack[g]))
    /\ \A g \in Goroutine : stack[g] # <<>> => on[g] # None
    /\ \A g, h \in Goroutine : on[g] = on[h] /\ on[g] # None => g = h

\* The host's code, and no call, panics and asks.
InCode(s) == s # <<>> => s[Len(s)].kind # "call"
Asks(n, what, s, rs) ==
    /\ what # Nothing => InCode(s)
    /\ n # 0 =>
            /\ n \in 1..Len(rs) /\ what = Nothing
            /\ InCode(s) /\ (s # <<>> => s[Len(s)].phase = "in")

\* The scopes up are those of the runs of l that stand on s, in their order.
StandingAt(s, rs, l, i) == OpenOf(s, rs, i, l) /\ s[i].phase \in {"in", "expired"}
Fits(up, s, rs, l) ==
    /\ \A m, k \in 1..Len(up) : m < k => up[m] < up[k]
    /\ \A m \in 1..Len(up) : \E i \in 1..Len(s) : StandingAt(s, rs, l, i) /\ s[i].run = up[m]
    /\ \A i \in 1..Len(s) : StandingAt(s, rs, l, i) => \E m \in 1..Len(up) : up[m] = s[i].run

ScopesFollow ==
    /\ \A g \in Goroutine : on[g] # None => \A l \in Lib : Fits(scopes[on[g]][l], stack[g], runs, l)
    /\ \A t \in Thread : (\A g \in Goroutine : on[g] # t) => \A l \in Lib : scopes[t][l] = <<>>

\* The root runs are the ones on the stacks that have not been left.
RootedAt(s, rs, l, i) == s[i].kind = "run" /\ s[i].phase # "left" /\ rs[s[i].run].lib = l
Has(keys, l, t) == \E i \in 1..Len(keys) : keys[i] = [identity |-> l, thread |-> t]
RootsFollow ==
    /\ \A i, j \in 1..Len(roots) : roots[i] = roots[j] => i = j
    /\ \A i \in 1..Len(roots) : \E g \in Goroutine : on[g] = roots[i].thread
    /\ \A g \in Goroutine : on[g] # None => \A l \in Lib :
            Has(roots, l, on[g]) <=> \E i \in 1..Len(stack[g]) : RootedAt(stack[g], runs, l, i)

\* What reads the room of a run is in a scope that stands inside it.
ReadStands(r, s) ==
    \E i, j \in 1..Len(s) :
        /\ IsOpen(s, i) /\ IsOpen(s, j) /\ i <= j
        /\ s[i].run = r.room /\ s[j].run = r.scope /\ s[j].phase \in {"in", "expired"}
ReadsStand ==
    \A r \in reads :
        /\ r.room \in 1..Len(runs) /\ runs[r.room].room
        /\ ReadStands(r, stack[runs[r.room].by])

IInv ==
    /\ TypeOK
    /\ \A g \in Goroutine : Nested(stack[g], runs, g, on[g])
    /\ ChildrenLater(runs)
    /\ Placed
    /\ \A g \in Goroutine : Asks(asked[g], raising[g], stack[g], runs)
    /\ ScopesFollow /\ RootsFollow /\ ReadsStand

-----------------------------------------------------------------------------
(* How many frames of a kind there are.                                    *)

LEMMA NthIs ==
    ASSUME NEW s, NEW n, NEW i \in Nat
    PROVE  /\ Nth(s, n, i) \in Nat
           /\ \A j \in 0..i : Nth(s, n, j) \in Nat /\ Nth(s, n, j) <= Nth(s, n, i)
           /\ (\A j \in 1..i : ~(s[j].kind = "call" /\ s[j].run = n)) => Nth(s, n, i) = 0
  <1> DEFINE Hits(k) == {j \in 1..k : s[j].kind = "call" /\ s[j].run = n}
  <1>1. ASSUME NEW j \in 0..i
        PROVE  /\ IsFiniteSet(Hits(i)) /\ Cardinality(Hits(i)) \in Nat
               /\ Cardinality(Hits(j)) \in Nat /\ Cardinality(Hits(j)) <= Cardinality(Hits(i))
    <2>1. IsFiniteSet(1..i)
      BY FS_Interval
    <2>2. Hits(i) \subseteq 1..i /\ Hits(j) \subseteq Hits(i)
      OBVIOUS
    <2>3. IsFiniteSet(Hits(i))
      BY <2>1, <2>2, FS_Subset
    <2>4. IsFiniteSet(Hits(j)) /\ Cardinality(Hits(j)) <= Cardinality(Hits(i))
      BY <2>2, <2>3, FS_Subset
    <2> QED BY <2>3, <2>4, FS_CardinalityType
  <1>2. ASSUME \A j \in 1..i : ~(s[j].kind = "call" /\ s[j].run = n) PROVE Nth(s, n, i) = 0
    <2>1. Hits(i) = {}
      BY <1>2
    <2> QED BY <2>1, FS_EmptySet DEF Nth
  <1>3. i \in 0..i
    OBVIOUS
  <1> QED BY <1>1, <1>2, <1>3 DEF Nth

LEMMA NthNext ==
    ASSUME NEW s, NEW n, NEW i \in Nat
    PROVE  /\ s[i + 1].kind = "call" /\ s[i + 1].run = n => Nth(s, n, i + 1) = Nth(s, n, i) + 1
           /\ ~(s[i + 1].kind = "call" /\ s[i + 1].run = n) => Nth(s, n, i + 1) = Nth(s, n, i)
  <1> DEFINE Hits(k) == {j \in 1..k : s[j].kind = "call" /\ s[j].run = n}
  <1>1. IsFiniteSet(Hits(i))
    <2>1. IsFiniteSet(1..i) /\ Hits(i) \subseteq 1..i
      BY FS_Interval
    <2> QED BY <2>1, FS_Subset
  <1>2. i + 1 \notin Hits(i)
    OBVIOUS
  <1>3. ASSUME s[i + 1].kind = "call" /\ s[i + 1].run = n PROVE Nth(s, n, i + 1) = Nth(s, n, i) + 1
    <2>1. Hits(i + 1) = Hits(i) \cup {i + 1}
      BY <1>3
    <2>2. Cardinality(Hits(i) \cup {i + 1}) = Cardinality(Hits(i)) + 1
      BY <1>1, <1>2, FS_AddElement
    <2> QED BY <2>1, <2>2 DEF Nth
  <1>4. ASSUME ~(s[i + 1].kind = "call" /\ s[i + 1].run = n) PROVE Nth(s, n, i + 1) = Nth(s, n, i)
    <2>1. Hits(i + 1) = Hits(i)
      BY <1>4
    <2> QED BY <2>1 DEF Nth
  <1> QED BY <1>3, <1>4

LEMMA RootsNext ==
    ASSUME NEW s, NEW i \in Nat
    PROVE  /\ Roots(s, i) \in Nat /\ Roots(s, 0) = 0
           /\ s[i + 1].kind = "run" => Roots(s, i + 1) = Roots(s, i) + 1
           /\ s[i + 1].kind # "run" => Roots(s, i + 1) = Roots(s, i)
           /\ i # 0 /\ s[1].kind = "run" => Roots(s, i) # 0
  <1> DEFINE Hits(k) == {j \in 1..k : s[j].kind = "run"}
  <1>1. IsFiniteSet(Hits(i))
    <2>1. IsFiniteSet(1..i) /\ Hits(i) \subseteq 1..i
      BY FS_Interval
    <2> QED BY <2>1, FS_Subset
  <1>2. i + 1 \notin Hits(i)
    OBVIOUS
  <1>3. ASSUME s[i + 1].kind = "run" PROVE Roots(s, i + 1) = Roots(s, i) + 1
    <2>1. Hits(i + 1) = Hits(i) \cup {i + 1}
      BY <1>3
    <2>2. Cardinality(Hits(i) \cup {i + 1}) = Cardinality(Hits(i)) + 1
      BY <1>1, <1>2, FS_AddElement
    <2> QED BY <2>1, <2>2 DEF Roots
  <1>4. ASSUME s[i + 1].kind # "run" PROVE Roots(s, i + 1) = Roots(s, i)
    <2>1. Hits(i + 1) = Hits(i)
      BY <1>4
    <2> QED BY <2>1 DEF Roots
  <1>5. Roots(s, 0) = 0
    <2>1. Hits(0) = {}
      OBVIOUS
    <2> QED BY <2>1, FS_EmptySet DEF Roots
  <1>6. ASSUME i # 0, s[1].kind = "run" PROVE Roots(s, i) # 0
    <2>1. 1 \in Hits(i)
      BY <1>6
    <2> QED BY <1>1, <2>1, FS_EmptySet DEF Roots
  <1>7. Roots(s, i) \in Nat
    BY <1>1, FS_CardinalityType DEF Roots
  <1> QED BY <1>3, <1>4, <1>5, <1>6, <1>7

-----------------------------------------------------------------------------
(* What stands at a frame depends on what is below it.                     *)

\* The frames 1..i of s and u are the same but for how far they have come.
Agree(s, u, i) ==
    \A j \in 1..i : /\ u[j].kind = s[j].kind /\ u[j].run = s[j].run
                    /\ u[j].given = s[j].given /\ u[j].at = s[j].at

\* A step of goroutine g changes the runs rs to qs: only its own, of which
\* it leaves what they were opened with, and any new one is its own.
Changes(g, rs, qs) ==
    /\ Len(rs) \in Nat /\ Len(qs) \in Nat /\ Len(rs) <= Len(qs)
    /\ \A n \in 1..Len(rs) :
            /\ qs[n].lib = rs[n].lib /\ qs[n].thread = rs[n].thread /\ qs[n].by = rs[n].by
            /\ rs[n].by # g => qs[n] = rs[n]
    /\ \A n \in (Len(rs) + 1)..Len(qs) : qs[n].by = g

LEMMA NthAgree ==
    ASSUME NEW s, NEW u, NEW i \in Nat, Agree(s, u, i), NEW n
    PROVE  Nth(u, n, i) = Nth(s, n, i)
  <1>1. {j \in 1..i : u[j].kind = "call" /\ u[j].run = n} = {j \in 1..i : s[j].kind = "call" /\ s[j].run = n}
    BY DEF Agree
  <1> QED BY <1>1 DEF Nth

LEMMA StandsStays ==
    ASSUME NEW s, NEW u, NEW i \in Nat \ {0}, Agree(s, u, i),
           NEW rs, NEW qs, NEW g, NEW h, Changes(h, rs, qs), NEW t,
           \A j \in 1..i : Stands(s, rs, g, t, j)
    PROVE  Stands(u, qs, g, t, i)
  <1>1. \A j \in 1..i : /\ s[j].run \in 1..Len(rs) /\ u[j].run = s[j].run
                        /\ qs[u[j].run].lib = rs[s[j].run].lib
                        /\ u[j].kind = s[j].kind
    BY ZenonT(60) DEF Stands, Agree, Changes
  <1>2. i \in 1..i /\ Stands(s, rs, g, t, i)
    OBVIOUS
  <1>3. \A j \in 1..(i - 1) : j \in 1..i
    OBVIOUS
  <1>4. IsOpen(u, i) => RunStands(u, qs, g, t, i)
    <2> SUFFICES ASSUME IsOpen(u, i) PROVE RunStands(u, qs, g, t, i)
      OBVIOUS
    <2>1. RunStands(s, rs, g, t, i)
      BY <1>1, <1>2 DEF Stands, IsOpen
    <2>2. qs[u[i].run].by = g /\ qs[u[i].run].thread = t
      BY <1>1, <1>2, <2>1, SMTT(30) DEF RunStands, Changes
    <2>3. \A j \in 1..(i - 1) : IsOpen(u, j) => u[j].run < u[i].run
      BY <1>1, <1>2, <1>3, <2>1 DEF RunStands, IsOpen
    <2>4. u[i].kind = "run" => \A j \in 1..(i - 1) : ~OpenOf(u, qs, j, qs[u[i].run].lib)
      BY <1>1, <1>2, <1>3, <2>1 DEF RunStands, IsOpen, OpenOf
    <2>5. u[i].kind = "scope" =>
            \E j \in 1..(i - 1) : u[j].kind = "run" /\ qs[u[j].run].lib = qs[u[i].run].lib
      BY <1>1, <1>2, <1>3, <2>1, SMTT(30) DEF RunStands
    <2> QED BY <2>2, <2>3, <2>4, <2>5 DEF RunStands
  <1>5. u[i].kind = "call" => CallStands(u, qs, i)
    <2> SUFFICES ASSUME u[i].kind = "call" PROVE CallStands(u, qs, i)
      OBVIOUS
    <2>1. CallStands(s, rs, i)
      BY <1>1, <1>2 DEF Stands
    <2>2. PICK j \in 1..(i - 1) :
            /\ IsOpen(s, j) /\ s[j].run = s[i].run
            /\ \A k \in (j + 1)..(i - 1) : ~OpenOf(s, rs, k, rs[s[i].run].lib)
      BY <2>1 DEF CallStands
    <2>3. IsOpen(u, j) /\ u[j].run = u[i].run
      BY <2>2, <1>1, <1>2, <1>3 DEF IsOpen
    <2>4. \A k \in (j + 1)..(i - 1) : k \in 1..i
      BY <2>2
    <2>5. \A k \in (j + 1)..(i - 1) : ~OpenOf(u, qs, k, qs[u[i].run].lib)
      BY <2>2, <2>4, <1>1, <1>2 DEF OpenOf, IsOpen
    <2>6. ASSUME NEW o \in u[i].given
          PROVE  \E k \in 1..(i - 1) : OpenOf(u, qs, k, qs[u[i].run].lib) /\ u[k].run = o
      <3>1. o \in s[i].given
        BY <1>2 DEF Agree
      <3>2. PICK k \in 1..(i - 1) : OpenOf(s, rs, k, rs[s[i].run].lib) /\ s[k].run = o
        BY <3>1, <2>1 DEF CallStands
      <3>3. OpenOf(u, qs, k, qs[u[i].run].lib) /\ u[k].run = o
        BY <3>2, <1>1, <1>2, <1>3 DEF OpenOf, IsOpen
      <3> QED BY <3>3
    <2> QED BY <2>3, <2>5, <2>6 DEF CallStands
  <1>6. u[i].kind = "host" => HostStands(u, i)
    <2> SUFFICES ASSUME u[i].kind = "host" PROVE HostStands(u, i)
      OBVIOUS
    <2>1. HostStands(s, i)
      BY <1>1, <1>2 DEF Stands
    <2>2. i - 1 \in 1..(i - 1) /\ i - 1 \in Nat
      BY <2>1 DEF HostStands
    <2>3. Agree(s, u, i - 1)
      BY <1>3 DEF Agree
    <2>4. Nth(u, u[i].run, i - 1) = Nth(s, u[i].run, i - 1)
      BY <2>2, <2>3, NthAgree
    <2>5. u[i].at = s[i].at
      BY <1>2 DEF Agree
    <2> QED BY <1>1, <1>2, <1>3, <2>1, <2>2, <2>4, <2>5 DEF HostStands
  <1>7. /\ u[i].run \in 1..Len(qs)
        /\ i = 1 => u[i].kind = "run"
        /\ i > 1 /\ u[i - 1].kind = "call" => u[i].kind = "host"
    <2>1. i > 1 => i - 1 \in 1..i
      OBVIOUS
    <2> QED BY <1>1, <1>2, <2>1 DEF Stands, Changes
  <1> QED BY <1>4, <1>5, <1>6, <1>7 DEF Stands

\* The open runs of the stacks s and u are the same ones.
SameOpen(s, u) ==
    /\ Len(s) \in Nat /\ Len(u) \in Nat
    /\ \A i \in 1..Len(s) : IsOpen(s, i) => i \in 1..Len(u) /\ u[i].kind = s[i].kind /\ u[i].run = s[i].run
    /\ \A i \in 1..Len(u) : IsOpen(u, i) => i \in 1..Len(s) /\ s[i].kind = u[i].kind /\ s[i].run = u[i].run

\* They are the same ones, come equally far.
SameRuns(s, u) ==
    /\ Len(s) \in Nat /\ Len(u) \in Nat
    /\ \A i \in 1..Len(s) : IsOpen(s, i) =>
            i \in 1..Len(u) /\ u[i].kind = s[i].kind /\ u[i].run = s[i].run /\ u[i].phase = s[i].phase
    /\ \A i \in 1..Len(u) : IsOpen(u, i) =>
            i \in 1..Len(s) /\ s[i].kind = u[i].kind /\ s[i].run = u[i].run /\ s[i].phase = u[i].phase

\* The runs rs and qs of goroutine g differ in what they keep alone.
SameLives(g, rs, qs) ==
    /\ Len(qs) = Len(rs)
    /\ \A n \in 1..Len(rs) : rs[n].by = g => qs[n].child = rs[n].child /\ (qs[n].live <=> rs[n].live)

\* The frames of s are of runs of g.
OfRuns(s, rs, g) ==
    /\ \A i \in 1..Len(s) : s[i].run \in 1..Len(rs)
    /\ \A i \in 1..Len(s) : IsOpen(s, i) => rs[s[i].run].by = g

LEMMA NestedOfRuns ==
    ASSUME NEW s, NEW rs, NEW g, NEW t, \A i \in 1..Len(s) : Stands(s, rs, g, t, i)
    PROVE  OfRuns(s, rs, g)
  BY DEF Stands, RunStands, OfRuns

LEMMA SameTwice ==
    ASSUME NEW s, NEW u, NEW w, SameRuns(s, u), SameRuns(u, w)
    PROVE  SameRuns(s, w)
  <1>1. \A i \in 1..Len(s) : IsOpen(s, i) => i \in 1..Len(u) /\ IsOpen(u, i)
    BY DEF SameRuns, IsOpen
  <1>2. \A i \in 1..Len(w) : IsOpen(w, i) => i \in 1..Len(u) /\ IsOpen(u, i)
    BY DEF SameRuns, IsOpen
  <1>3. ASSUME NEW i \in 1..Len(s), IsOpen(s, i)
        PROVE  i \in 1..Len(w) /\ w[i].kind = s[i].kind /\ w[i].run = s[i].run /\ w[i].phase = s[i].phase
    BY <1>1, <1>3 DEF SameRuns
  <1>4. ASSUME NEW i \in 1..Len(w), IsOpen(w, i)
        PROVE  i \in 1..Len(s) /\ s[i].kind = w[i].kind /\ s[i].run = w[i].run /\ s[i].phase = w[i].phase
    BY <1>2, <1>4 DEF SameRuns
  <1> QED BY <1>3, <1>4 DEF SameRuns

LEMMA ChainedStays ==
    ASSUME NEW s, NEW u, SameOpen(s, u), NEW g, NEW h, NEW rs, NEW qs, Changes(h, rs, qs),
           SameLives(g, rs, qs), OfRuns(s, rs, g),
           \A i \in 1..Len(s) : IsOpen(s, i) => Chained(s, rs, i)
    PROVE  \A i \in 1..Len(u) : IsOpen(u, i) => Chained(u, qs, i)
  <1> SUFFICES ASSUME NEW i \in 1..Len(u), IsOpen(u, i) PROVE Chained(u, qs, i)
    OBVIOUS
  <1>1. i \in 1..Len(s) /\ IsOpen(s, i) /\ s[i].run = u[i].run
    BY DEF SameOpen, IsOpen
  <1>2. Chained(s, rs, i)
    BY <1>1
  <1>3. qs[u[i].run].child = rs[s[i].run].child /\ qs[u[i].run].lib = rs[s[i].run].lib
    BY <1>1 DEF OfRuns, Changes, SameLives
  <1>4. \A j : j \in 1..Len(u) /\ OpenOf(u, qs, j, qs[u[i].run].lib)
                <=> j \in 1..Len(s) /\ OpenOf(s, rs, j, rs[s[i].run].lib)
    <2>1. \A j : j \in 1..Len(u) /\ IsOpen(u, j) <=> j \in 1..Len(s) /\ IsOpen(s, j)
      BY DEF SameOpen, IsOpen
    <2>2. \A j \in 1..Len(s) : IsOpen(s, j) => qs[u[j].run].lib = rs[s[j].run].lib
      BY SMTT(30) DEF SameOpen, OfRuns, Changes
    <2> QED BY <2>1, <2>2, <1>3 DEF OpenOf
  <1>5. CASE rs[s[i].run].child = 0
    <2>1. \A j \in (i + 1)..Len(s) : ~OpenOf(s, rs, j, rs[s[i].run].lib)
      BY <1>2, <1>5 DEF Chained
    <2>2. \A j \in (i + 1)..Len(u) : ~OpenOf(u, qs, j, qs[u[i].run].lib)
      BY <2>1, <1>1, <1>4, SMTT(30) DEF SameOpen
    <2> QED BY <2>2, <1>3, <1>5 DEF Chained
  <1>6. CASE rs[s[i].run].child # 0
    <2>1. PICK j \in (i + 1)..Len(s) : Inside(s, rs, i, j) /\ s[j].run = rs[s[i].run].child
      BY <1>2, <1>6 DEF Chained
    <2>2. j \in 1..Len(s) /\ OpenOf(s, rs, j, rs[s[i].run].lib)
      BY <1>1, <2>1 DEF Inside, SameOpen
    <2>3. j \in (i + 1)..Len(u) /\ OpenOf(u, qs, j, qs[u[i].run].lib)
      BY <1>1, <1>4, <2>1, <2>2 DEF SameOpen
    <2>4. u[j].run = s[j].run
      BY <2>2 DEF OpenOf, SameOpen
    <2>5. \A k \in (i + 1)..(j - 1) : k \in 1..Len(s)
      BY <1>1, <2>1 DEF SameOpen
    <2>6. \A k \in (i + 1)..(j - 1) : ~OpenOf(u, qs, k, qs[u[i].run].lib)
      <3>1. \A k \in (i + 1)..(j - 1) : k \in 1..Len(u)
        BY <2>3, <1>1 DEF SameOpen
      <3> QED BY <2>1, <2>5, <3>1, <1>4 DEF Inside
    <2>7. Inside(u, qs, i, j)
      BY <2>3, <2>6 DEF Inside
    <2> QED BY <2>1, <2>3, <2>4, <2>7, <1>3, <1>6 DEF Chained
  <1> QED BY <1>5, <1>6

LEMMA LiveStays ==
    ASSUME NEW s, NEW u, SameRuns(s, u), NEW g, NEW h, NEW rs, NEW qs, Changes(h, rs, qs),
           SameLives(g, rs, qs), LiveIn(s, rs, g)
    PROVE  LiveIn(u, qs, g)
  <1> SUFFICES ASSUME NEW n \in 1..Len(qs), qs[n].by = g
               PROVE  qs[n].live <=> \E i \in 1..Len(u) : IsOpen(u, i) /\ u[i].phase = "in" /\ u[i].run = n
    BY DEF LiveIn
  <1>1. n \in 1..Len(rs) /\ rs[n].by = g /\ (qs[n].live <=> rs[n].live)
    BY DEF Changes, SameLives
  <1>2. rs[n].live <=> \E i \in 1..Len(s) : IsOpen(s, i) /\ s[i].phase = "in" /\ s[i].run = n
    BY <1>1 DEF LiveIn
  <1>3. (\E i \in 1..Len(s) : IsOpen(s, i) /\ s[i].phase = "in" /\ s[i].run = n)
        <=> \E i \in 1..Len(u) : IsOpen(u, i) /\ u[i].phase = "in" /\ u[i].run = n
    BY DEF SameRuns, IsOpen
  <1> QED BY <1>1, <1>2, <1>3

\* The scopes, the root runs and what reads a room speak of open runs alone.
LEMMA FitsStays ==
    ASSUME NEW s, NEW u, SameRuns(s, u), NEW h, NEW g, NEW rs, NEW qs, Changes(h, rs, qs),
           OfRuns(s, rs, g), NEW l, NEW up, Fits(up, s, rs, l)
    PROVE  Fits(up, u, qs, l)
  <1>1. \A i \in 1..Len(s) : StandingAt(s, rs, l, i) =>
            i \in 1..Len(u) /\ StandingAt(u, qs, l, i) /\ u[i].run = s[i].run
    BY SMTT(30) DEF StandingAt, OpenOf, SameRuns, IsOpen, OfRuns, Changes
  <1>2. \A i \in 1..Len(u) : StandingAt(u, qs, l, i) =>
            i \in 1..Len(s) /\ StandingAt(s, rs, l, i) /\ u[i].run = s[i].run
    BY SMTT(30) DEF StandingAt, OpenOf, SameRuns, IsOpen, OfRuns, Changes
  <1>3. \A m \in 1..Len(up) : \E i \in 1..Len(u) : StandingAt(u, qs, l, i) /\ u[i].run = up[m]
    <2> SUFFICES ASSUME NEW m \in 1..Len(up)
                 PROVE  \E i \in 1..Len(u) : StandingAt(u, qs, l, i) /\ u[i].run = up[m]
      OBVIOUS
    <2>1. PICK i \in 1..Len(s) : StandingAt(s, rs, l, i) /\ s[i].run = up[m]
      BY DEF Fits
    <2> QED BY <2>1, <1>1
  <1>4. \A i \in 1..Len(u) : StandingAt(u, qs, l, i) => \E m \in 1..Len(up) : up[m] = u[i].run
    BY <1>2 DEF Fits
  <1> QED BY <1>3, <1>4 DEF Fits

LEMMA RootedStays ==
    ASSUME NEW s, NEW u, SameRuns(s, u), NEW h, NEW g, NEW rs, NEW qs, Changes(h, rs, qs),
           OfRuns(s, rs, g), NEW l
    PROVE  (\E i \in 1..Len(u) : RootedAt(u, qs, l, i)) <=> \E i \in 1..Len(s) : RootedAt(s, rs, l, i)
  <1>1. \A i \in 1..Len(s) : RootedAt(s, rs, l, i) => i \in 1..Len(u) /\ RootedAt(u, qs, l, i)
    BY SMTT(60) DEF RootedAt, SameRuns, IsOpen, Opened, OfRuns, Changes
  <1>2. \A i \in 1..Len(u) : RootedAt(u, qs, l, i) => i \in 1..Len(s) /\ RootedAt(s, rs, l, i)
    BY SMTT(30) DEF RootedAt, SameRuns, IsOpen, Opened, OfRuns, Changes
  <1> QED BY <1>1, <1>2

LEMMA ReadStays ==
    ASSUME NEW s, NEW u, SameRuns(s, u), NEW r, ReadStands(r, s)
    PROVE  ReadStands(r, u)
  <1>1. PICK i, j \in 1..Len(s) :
            /\ IsOpen(s, i) /\ IsOpen(s, j) /\ i <= j
            /\ s[i].run = r.room /\ s[j].run = r.scope /\ s[j].phase \in {"in", "expired"}
    BY DEF ReadStands
  <1>2. i \in 1..Len(u) /\ IsOpen(u, i) /\ u[i].run = r.room
    BY <1>1 DEF SameRuns, IsOpen
  <1>3. j \in 1..Len(u) /\ IsOpen(u, j) /\ u[j].run = r.scope /\ u[j].phase \in {"in", "expired"}
    BY <1>1 DEF SameRuns, IsOpen
  <1> QED BY <1>1, <1>2, <1>3 DEF ReadStands

LEMMA RootsStays ==
    ASSUME NEW s, NEW u, SameOpen(s, u)
    PROVE  Roots(u, Len(u)) = Roots(s, Len(s))
  <1>1. {j \in 1..Len(u) : u[j].kind = "run"} = {j \in 1..Len(s) : s[j].kind = "run"}
    BY DEF SameOpen, IsOpen, Opened
  <1> QED BY <1>1 DEF Roots

\* What a goroutine does leaves the others' stacks standing.
LEMMA OthersNested ==
    ASSUME NEW s, Len(s) \in Nat, NEW h, NEW t, NEW g, h # g, NEW rs, NEW qs, Changes(g, rs, qs),
           Nested(s, rs, h, t)
    PROVE  Nested(s, qs, h, t)
  <1>1. OfRuns(s, rs, h)
    BY NestedOfRuns DEF Nested
  <1>2. SameRuns(s, s)
    BY DEF SameRuns
  <1>3. \A n \in 1..Len(rs) : rs[n].by = h => qs[n] = rs[n]
    BY DEF Changes
  <1>4. \A i \in 1..Len(s) : Stands(s, qs, h, t, i)
    <2> SUFFICES ASSUME NEW i \in 1..Len(s) PROVE Stands(s, qs, h, t, i)
      OBVIOUS
    <2>1. Agree(s, s, i) /\ i \in Nat \ {0}
      BY DEF Agree
    <2>2. \A j \in 1..i : Stands(s, rs, h, t, j)
      BY DEF Nested
    <2> QED BY <2>1, <2>2, StandsStays
  <1>5. LiveIn(s, qs, h)
    <2> SUFFICES ASSUME NEW n \in 1..Len(qs), qs[n].by = h
                 PROVE  qs[n].live <=> \E i \in 1..Len(s) : IsOpen(s, i) /\ s[i].phase = "in" /\ s[i].run = n
      BY DEF LiveIn
    <2>1. n \in 1..Len(rs) /\ rs[n].by = h /\ qs[n] = rs[n]
      BY DEF Changes
    <2> QED BY <2>1 DEF Nested, LiveIn
  <1>6. \A i \in 1..Len(s) : IsOpen(s, i) => Counted(s, qs, i)
    BY <1>1, <1>3 DEF Nested, Counted, OfRuns
  <1>7. \A i \in 1..Len(s) : s[i].kind = "call" => Kept(s, qs, i)
    <2> SUFFICES ASSUME NEW i \in 1..Len(s), s[i].kind = "call" PROVE Kept(s, qs, i)
      OBVIOUS
    <2>1. CallStands(s, rs, i) /\ Kept(s, rs, i)
      BY DEF Nested, Stands
    <2>2. PICK j \in 1..(i - 1) : IsOpen(s, j) /\ s[j].run = s[i].run
      BY <2>1 DEF CallStands
    <2>3. qs[s[i].run] = rs[s[i].run]
      <3>1. j \in 1..Len(s)
        BY <2>2
      <3> QED BY <3>1, <2>2, <1>1, <1>3 DEF OfRuns
    <2> QED BY <2>1, <2>3 DEF Kept
  <1>8. \A i \in 1..Len(s) : IsOpen(s, i) => Chained(s, qs, i)
    <2> SUFFICES ASSUME NEW i \in 1..Len(s), IsOpen(s, i) PROVE Chained(s, qs, i)
      OBVIOUS
    <2>1. Chained(s, rs, i)
      BY DEF Nested
    <2>2. \A j \in 1..Len(s) : IsOpen(s, j) => qs[s[j].run] = rs[s[j].run]
      BY <1>1, <1>3, Zenon DEF OfRuns
    <2>3. \A j \in 1..Len(s) : OpenOf(s, qs, j, rs[s[i].run].lib) <=> OpenOf(s, rs, j, rs[s[i].run].lib)
      BY <2>2 DEF OpenOf
    <2>4. \A j \in (i + 1)..Len(s) : j \in 1..Len(s)
      OBVIOUS
    <2>5. \A j \in (i + 1)..Len(s) : Inside(s, rs, i, j) => Inside(s, qs, i, j)
      <3> SUFFICES ASSUME NEW j \in (i + 1)..Len(s), Inside(s, rs, i, j) PROVE Inside(s, qs, i, j)
        OBVIOUS
      <3>1. \A k \in (i + 1)..(j - 1) : k \in 1..Len(s)
        OBVIOUS
      <3> QED BY <3>1, <2>2, <2>3, <2>4 DEF Inside
    <2> QED BY <2>1, <2>2, <2>3, <2>4, <2>5 DEF Chained
  <1> QED BY <1>4, <1>5, <1>6, <1>7, <1>8 DEF Nested
-----------------------------------------------------------------------------
(* Calls and callbacks: the open runs stay as they are.                    *)

LEMMA AllStand ==
    ASSUME NEW s, NEW u, NEW m \in Nat, Agree(s, u, m),
           NEW rs, NEW qs, NEW g, NEW h, Changes(h, rs, qs), NEW t,
           \A i \in 1..m : Stands(s, rs, g, t, i)
    PROVE  \A i \in 1..m : Stands(u, qs, g, t, i)
  <1> SUFFICES ASSUME NEW i \in 1..m PROVE Stands(u, qs, g, t, i)
    OBVIOUS
  <1>1. i \in Nat \ {0} /\ \A j \in 1..i : j \in 1..m
    OBVIOUS
  <1>2. Agree(s, u, i)
    BY <1>1 DEF Agree
  <1> QED BY <1>1, <1>2, StandsStays

LEMMA QuietNested ==
    ASSUME NEW s, NEW u, SameRuns(s, u), NEW g, NEW t, NEW rs, NEW qs, Changes(g, rs, qs),
           SameLives(g, rs, qs), Nested(s, rs, g, t), Phased(u),
           \A i \in 1..Len(u) : Stands(u, qs, g, t, i),
           \A i \in 1..Len(u) : IsOpen(u, i) => Counted(u, qs, i),
           \A i \in 1..Len(u) : u[i].kind = "call" => Kept(u, qs, i)
    PROVE  Nested(u, qs, g, t)
  <1>1. OfRuns(s, rs, g)
    BY NestedOfRuns DEF Nested
  <1>2. \A i \in 1..Len(s) : IsOpen(s, i) => Chained(s, rs, i)
    BY DEF Nested
  <1>3. \A i \in 1..Len(u) : IsOpen(u, i) => Chained(u, qs, i)
    <2>1. SameOpen(s, u)
      BY DEF SameRuns, SameOpen
    <2> QED BY <1>1, <1>2, <2>1, ChainedStays
  <1>4. LiveIn(u, qs, g)
    BY LiveStays DEF Nested
  <1> QED BY <1>3, <1>4 DEF Nested

LEMMA OverIs ==
    ASSUME NEW s, NEW f, NEW u, Topped(FrameOf, s, f, u)
    PROVE  /\ Agree(s, u, Len(s)) /\ Agree(u, s, Len(s))
           /\ Len(s) \in Nat /\ Len(u) = Len(s) + 1 /\ u[Len(s) + 1] = f
           /\ \A n : Nth(u, n, Len(s)) = Nth(s, n, Len(s))
           /\ \A n, i : i \in 1..Len(s) => Nth(u, n, i) = Nth(s, n, i)
           /\ f.kind \notin Opened => SameRuns(s, u) /\ SameRuns(u, s)
  <1>1. /\ Len(s) \in Nat /\ Len(u) = Len(s) + 1 /\ u[Len(s) + 1] = f
        /\ \A i \in 1..Len(s) : u[i] = s[i]
    BY DEF Topped
  <1>2. Agree(s, u, Len(s)) /\ Agree(u, s, Len(s))
    BY <1>1 DEF Agree
  <1>3. \A n : Nth(u, n, Len(s)) = Nth(s, n, Len(s))
    BY <1>1, <1>2, NthAgree
  <1>4. ASSUME NEW n, NEW i \in 1..Len(s) PROVE Nth(u, n, i) = Nth(s, n, i)
    <2>1. Agree(s, u, i) /\ i \in Nat
      BY <1>1, <1>2 DEF Agree
    <2> QED BY <2>1, NthAgree
  <1>5. ASSUME f.kind \notin Opened PROVE SameRuns(s, u) /\ SameRuns(u, s)
    <2>1. \A i \in 1..Len(u) : i \in 1..Len(s) \/ i = Len(s) + 1
      BY <1>1
    <2>2. \A i \in 1..Len(s) : i \in 1..Len(u)
      BY <1>1
    <2>3. ~IsOpen(u, Len(s) + 1)
      BY <1>1, <1>5 DEF IsOpen
    <2>4. Len(u) \in Nat
      BY <1>1
    <2> QED BY <1>1, <2>1, <2>2, <2>3, <2>4 DEF SameRuns, IsOpen
  <1> QED BY <1>1, <1>2, <1>3, <1>4, <1>5

LEMMA NthHit ==
    ASSUME NEW s, NEW m \in Nat, NEW i \in 1..m, s[i].kind = "call"
    PROVE  /\ Nth(s, s[i].run, i) \in 1..Nth(s, s[i].run, m)
           /\ Nth(s, s[i].run, m) \in Nat
           /\ i < m /\ s[m].kind = "call" /\ s[m].run = s[i].run =>
                Nth(s, s[i].run, i) < Nth(s, s[i].run, m)
  <1> DEFINE n == s[i].run
  <1>1. i - 1 \in Nat /\ (i - 1) + 1 = i
    OBVIOUS
  <1>2. Nth(s, n, i) = Nth(s, n, i - 1) + 1
    BY <1>1, NthNext
  <1>3. Nth(s, n, i - 1) \in Nat
    BY <1>1, NthIs
  <1>4. i \in 0..m /\ Nth(s, n, i) <= Nth(s, n, m) /\ Nth(s, n, m) \in Nat
    BY NthIs
  <1>5. ASSUME i < m, s[m].kind = "call", s[m].run = n PROVE Nth(s, n, i) < Nth(s, n, m)
    <2>1. m - 1 \in Nat /\ (m - 1) + 1 = m /\ i \in 0..(m - 1)
      BY <1>5
    <2>2. Nth(s, n, m) = Nth(s, n, m - 1) + 1
      BY <1>5, <2>1, NthNext
    <2>3. Nth(s, n, i) <= Nth(s, n, m - 1) /\ Nth(s, n, m - 1) \in Nat /\ Nth(s, n, i) \in Nat
      BY <2>1, NthIs
    <2> QED BY <2>2, <2>3
  <1> QED BY <1>2, <1>3, <1>4, <1>5

\* Of the runs rs, only what run r keeps of its calls is changed.
CallsOf(rs, qs, r, calls) ==
    /\ rs \in Seq(RunOf) /\ r \in 1..Len(rs) /\ Len(qs) = Len(rs)
    /\ \A n \in 1..Len(rs) \ {r} : qs[n] = rs[n]
    /\ qs[r].lib = rs[r].lib /\ qs[r].thread = rs[r].thread /\ qs[r].by = rs[r].by
    /\ qs[r].child = rs[r].child /\ qs[r].live = rs[r].live
    /\ qs[r].calls = calls

LEMMA CallsOfChanges ==
    ASSUME NEW rs, NEW qs, NEW r, NEW calls, CallsOf(rs, qs, r, calls), NEW g, rs[r].by = g
    PROVE  /\ Changes(g, rs, qs) /\ SameLives(g, rs, qs)
           /\ rs[r].calls \in Seq(Caught \cup {Nothing})
  <1>1. Len(rs) \in Nat /\ Len(qs) = Len(rs) /\ rs[r] \in RunOf
    BY DEF CallsOf
  <1>2. \A n \in 1..Len(rs) : n # r => qs[n] = rs[n]
    BY DEF CallsOf
  <1>3. Changes(g, rs, qs)
    BY <1>1, <1>2 DEF CallsOf, Changes
  <1>4. SameLives(g, rs, qs)
    BY <1>1, <1>2 DEF CallsOf, SameLives
  <1> QED BY <1>1, <1>3, <1>4 DEF RunOf

LEMMA PushPhased ==
    ASSUME NEW s, NEW f, NEW u, Topped(FrameOf, s, f, u), Phased(s), f.phase = "in",
           s # <<>> => s[Len(s)].phase = "in"
    PROVE  Phased(u)
  <1> SUFFICES ASSUME NEW i \in 1..Len(u), u[i].phase # "in"
               PROVE  i = Len(u) /\ IsOpen(u, i) /\ (u[i].phase = "left" => u[i].kind = "run")
    BY DEF Phased
  <1>1. Len(s) \in Nat /\ Len(u) = Len(s) + 1 /\ u[Len(u)] = f /\ s \in Seq(FrameOf)
    BY DEF Topped
  <1>2. i \in 1..Len(s) /\ u[i] = s[i]
    BY <1>1 DEF Topped
  <1>3. i = Len(s) /\ s # <<>>
    BY <1>1, <1>2 DEF Phased
  <1> QED BY <1>2, <1>3

LEMMA PopPhased ==
    ASSUME NEW s, NEW f, NEW u, Topped(FrameOf, s, f, u), Phased(u)
    PROVE  \A i \in 1..Len(s) : s[i].phase = "in"
  BY DEF Topped, Phased
\* A call is made: its frame is on the stack, and its run keeps one call more.
LEMMA CallNested ==
    ASSUME NEW s, NEW f, NEW u, Topped(FrameOf, s, f, u), NEW g, NEW t, NEW rs, NEW qs,
           Nested(s, rs, g, t), f.kind = "call", f.phase = "in", f.raised = <<>>,
           CallsOf(rs, qs, f.run, Append(rs[f.run].calls, Nothing)), rs[f.run].by = g,
           InCode(s), s # <<>> /\ s[Len(s)].phase = "in",
           CallStands(u, qs, Len(s) + 1)
    PROVE  Nested(u, qs, g, t) /\ Changes(g, rs, qs) /\ SameRuns(s, u)
  <1> DEFINE r == f.run
  <1>1. Changes(g, rs, qs) /\ SameLives(g, rs, qs) /\ rs[r].calls \in Seq(Caught \cup {Nothing})
    BY CallsOfChanges
  <1>2. /\ Agree(s, u, Len(s)) /\ Len(s) \in Nat /\ Len(u) = Len(s) + 1 /\ u[Len(s) + 1] = f
        /\ \A n : Nth(u, n, Len(s)) = Nth(s, n, Len(s))
        /\ \A n, i : i \in 1..Len(s) => Nth(u, n, i) = Nth(s, n, i)
    BY OverIs
  <1>3. SameRuns(s, u)
    BY OverIs DEF Opened
  <1>4. Phased(u)
    BY PushPhased DEF Nested
  <1>5. \A i \in 1..Len(s) : u[i] = s[i]
    BY DEF Topped
  <1>6. \A i \in 1..Len(u) : Stands(u, qs, g, t, i)
    <2>1. \A i \in 1..Len(s) : Stands(u, qs, g, t, i)
      BY <1>1, <1>2, AllStand DEF Nested
    <2>2. Stands(u, qs, g, t, Len(s) + 1)
      <3>1. s \in Seq(FrameOf) /\ Len(s) # 0
        BY <1>2 DEF Topped
      <3>2. Len(s) \in 1..Len(s) /\ u[Len(s)].kind # "call"
        BY <1>2, <1>5, <3>1 DEF InCode
      <3>3. f.run \in 1..Len(qs)
        BY DEF CallsOf
      <3> QED BY <1>2, <3>1, <3>2, <3>3 DEF Stands, IsOpen, Opened
    <2> QED BY <1>2, <2>1, <2>2
  <1>7. Nth(u, r, Len(u)) = Nth(s, r, Len(s)) + 1
    BY <1>2, NthNext
  <1>8. \A n : n # r => Nth(u, n, Len(u)) = Nth(s, n, Len(s))
    BY <1>2, NthNext
  <1>9. PICK k \in 1..Len(s) : IsOpen(s, k) /\ s[k].run = r
    <2>1. PICK k \in 1..((Len(s) + 1) - 1) : IsOpen(u, k) /\ u[k].run = u[Len(s) + 1].run
      BY DEF CallStands
    <2>2. k \in 1..Len(s)
      BY <1>2
    <2> QED BY <1>2, <1>5, <2>1, <2>2 DEF IsOpen
  <1>10. Len(rs[r].calls) = Nth(s, r, Len(s))
    BY <1>9 DEF Nested, Counted
  <1>11. PICK calls \in Seq(Caught \cup {Nothing}) : calls = rs[r].calls
    BY <1>1
  <1>12. /\ Len(Append(calls, Nothing)) = Len(calls) + 1 /\ Len(calls) \in Nat
         /\ \A m \in 1..Len(calls) : Append(calls, Nothing)[m] = calls[m]
         /\ Append(calls, Nothing)[Len(calls) + 1] = Nothing
    <2>1. PICK e \in Caught \cup {Nothing} : e = Nothing
      OBVIOUS
    <2>2. /\ Len(Append(calls, e)) = Len(calls) + 1 /\ Len(calls) \in Nat
          /\ \A m \in 1..Len(calls) : Append(calls, e)[m] = calls[m]
          /\ Append(calls, e)[Len(calls) + 1] = e
      BY AppendIs, SMTT(30)
    <2> QED BY <2>1, <2>2
  <1>13. qs[r].calls = Append(calls, Nothing)
    BY <1>11 DEF CallsOf
  <1>14. ASSUME NEW i \in 1..Len(u), IsOpen(u, i) PROVE Counted(u, qs, i)
    <2>1. i \in 1..Len(s) /\ IsOpen(s, i) /\ u[i].run = s[i].run
      BY <1>14, <1>3, SMTT(30) DEF SameRuns, IsOpen
    <2>2. s[i].run \in 1..Len(rs) /\ Counted(s, rs, i)
      BY <2>1, SMTT(30) DEF Nested, Stands
    <2>3. CASE s[i].run = r
      BY <2>1, <2>3, <1>7, <1>10, <1>11, <1>12, <1>13 DEF Counted
    <2>4. CASE s[i].run # r
      <3>1. qs[s[i].run] = rs[s[i].run]
        BY <2>2, <2>4 DEF CallsOf
      <3> QED BY <2>1, <2>2, <2>4, <3>1, <1>8, Zenon DEF Counted
    <2> QED BY <2>3, <2>4
  <1>15. ASSUME NEW i \in 1..Len(u), u[i].kind = "call" PROVE Kept(u, qs, i)
    <2>1. CASE i = Len(s) + 1
      <3>1. Nth(u, r, i) = Len(calls) + 1
        BY <2>1, <1>2, <1>7, <1>10, <1>11
      <3> QED BY <2>1, <3>1, <1>2, <1>12, <1>13 DEF Kept, FirstOf
    <2>2. CASE i # Len(s) + 1
      <3>1. i \in 1..Len(s) /\ u[i] = s[i] /\ s[i].kind = "call"
        BY <2>2, <1>2, <1>5, <1>15
      <3>2. Kept(s, rs, i) /\ s[i].run \in 1..Len(rs)
        BY <3>1 DEF Nested, Stands
      <3>3. Nth(u, s[i].run, i) = Nth(s, s[i].run, i)
        BY <3>1, <1>2
      <3>4. CASE s[i].run = r
        <4>1. Nth(s, r, i) \in 1..Len(calls)
          BY <3>1, <3>4, <1>2, <1>10, <1>11, NthHit
        <4>2. qs[r].calls[Nth(s, r, i)] = calls[Nth(s, r, i)]
          BY <4>1, <1>12, <1>13
        <4> QED BY <3>1, <3>2, <3>3, <3>4, <4>2, <1>11 DEF Kept
      <3>5. CASE s[i].run # r
        <4>1. qs[s[i].run] = rs[s[i].run]
          BY <3>2, <3>5 DEF CallsOf
        <4> QED BY <3>1, <3>2, <3>3, <4>1, SMTT(30) DEF Kept
      <3> QED BY <3>4, <3>5
    <2> QED BY <2>1, <2>2
  <1> QED BY <1>1, <1>3, <1>4, <1>6, <1>14, <1>15, QuietNested

\* A host's function is called back, or answers: the runs stay as they are.
LEMMA SameChanges ==
    ASSUME NEW rs, Len(rs) \in Nat, NEW g
    PROVE  Changes(g, rs, rs) /\ SameLives(g, rs, rs)
  BY DEF Changes, SameLives

LEMMA HostNested ==
    ASSUME NEW s, NEW f, NEW u, Topped(FrameOf, s, f, u), NEW g, NEW t, NEW rs, Len(rs) \in Nat,
           Nested(s, rs, g, t), f.kind = "host", f.phase = "in",
           s # <<>> /\ s[Len(s)].kind = "call" /\ s[Len(s)].run = f.run,
           f.run \in 1..Len(rs), f.at = Nth(s, f.run, Len(s))
    PROVE  Nested(u, rs, g, t) /\ SameRuns(s, u)
  <1>1. Changes(g, rs, rs) /\ SameLives(g, rs, rs)
    BY SameChanges
  <1>2. /\ Agree(s, u, Len(s)) /\ Len(s) \in Nat /\ Len(u) = Len(s) + 1 /\ u[Len(s) + 1] = f
        /\ \A n : Nth(u, n, Len(s)) = Nth(s, n, Len(s))
        /\ \A n, i : i \in 1..Len(s) => Nth(u, n, i) = Nth(s, n, i)
    BY OverIs
  <1>3. SameRuns(s, u)
    BY OverIs DEF Opened
  <1>4. Len(s) \in 1..Len(s)
    BY <1>2 DEF Topped
  <1>5. Phased(u)
    <2>1. s[Len(s)].phase = "in"
      BY <1>4 DEF Nested, Phased, IsOpen, Opened
    <2> QED BY <2>1, PushPhased DEF Nested
  <1>6. \A i \in 1..Len(s) : u[i] = s[i]
    BY DEF Topped
  <1>7. \A i \in 1..Len(u) : Stands(u, rs, g, t, i)
    <2>1. \A i \in 1..Len(s) : Stands(u, rs, g, t, i)
      BY <1>1, <1>2, AllStand DEF Nested
    <2>2. Stands(u, rs, g, t, Len(s) + 1)
      <3>1. (Len(s) + 1) - 1 = Len(s) /\ Len(s) + 1 > 1
        BY <1>2, <1>4
      <3>2. u[Len(s)].kind = "call" /\ u[Len(s)].run = f.run
        BY <1>4, <1>6
      <3>3. HostStands(u, Len(s) + 1)
        BY <1>2, <3>1, <3>2 DEF HostStands
      <3> QED BY <1>2, <3>1, <3>2, <3>3 DEF Stands, IsOpen, Opened
    <2> QED BY <1>2, <2>1, <2>2
  <1>8. \A n : Nth(u, n, Len(u)) = Nth(s, n, Len(s))
    BY <1>2, NthNext
  <1>9. \A i \in 1..Len(u) : IsOpen(u, i) => i \in 1..Len(s) /\ Counted(u, rs, i)
    BY <1>3, <1>8, SMTT(30) DEF SameRuns, IsOpen, Nested, Counted
  <1>10. ASSUME NEW i \in 1..Len(u), u[i].kind = "call" PROVE Kept(u, rs, i)
    <2>1. i \in 1..Len(s) /\ u[i] = s[i] /\ s[i].kind = "call"
      BY <1>2, <1>6, <1>10
    <2> QED BY <2>1, <1>2, SMTT(30) DEF Nested, Kept
  <1> QED BY <1>1, <1>3, <1>5, <1>7, <1>9, <1>10, QuietNested

LEMMA HostLeavesNested ==
    ASSUME NEW s, NEW f, NEW u, Topped(FrameOf, s, f, u), NEW g, NEW t, NEW rs, Len(rs) \in Nat,
           Nested(u, rs, g, t), f.kind = "host"
    PROVE  Nested(s, rs, g, t) /\ SameRuns(u, s)
  <1>1. Changes(g, rs, rs) /\ SameLives(g, rs, rs)
    BY SameChanges
  <1>2. /\ Agree(u, s, Len(s)) /\ Len(s) \in Nat /\ Len(u) = Len(s) + 1 /\ u[Len(s) + 1] = f
        /\ \A n : Nth(u, n, Len(s)) = Nth(s, n, Len(s))
        /\ \A n, i : i \in 1..Len(s) => Nth(u, n, i) = Nth(s, n, i)
    BY OverIs
  <1>3. SameRuns(u, s)
    BY OverIs DEF Opened
  <1>4. Phased(s)
    BY PopPhased DEF Nested, Phased
  <1>5. \A i \in 1..Len(s) : u[i] = s[i] /\ i \in 1..Len(u)
    BY DEF Topped
  <1>6. \A i \in 1..Len(s) : Stands(s, rs, g, t, i)
    <2>1. \A i \in 1..Len(s) : Stands(u, rs, g, t, i)
      BY <1>5 DEF Nested
    <2> QED BY <1>1, <1>2, <2>1, AllStand
  <1>7. \A n : Nth(u, n, Len(u)) = Nth(s, n, Len(s))
    BY <1>2, NthNext
  <1>8. \A i \in 1..Len(s) : IsOpen(s, i) => Counted(s, rs, i)
    BY <1>5, <1>7 DEF IsOpen, Nested, Counted
  <1>9. \A i \in 1..Len(s) : s[i].kind = "call" => Kept(s, rs, i)
    BY <1>2, <1>5, SMTT(30) DEF Nested, Kept
  <1> QED BY <1>1, <1>3, <1>4, <1>6, <1>8, <1>9, QuietNested

\* The call under way innermost is the last its run keeps.
LEMMA TopCall ==
    ASSUME NEW u, NEW g, NEW t, NEW rs, Nested(u, rs, g, t), Len(u) \in Nat \ {0},
           u[Len(u)].kind = "call"
    PROVE  LET r == u[Len(u)].run IN
           /\ r \in 1..Len(rs) /\ rs[r].by = g
           /\ Len(rs[r].calls) = Nth(u, r, Len(u)) /\ Nth(u, r, Len(u)) \in Nat \ {0}
           /\ rs[r].calls[Len(rs[r].calls)] = FirstOf(u[Len(u)].raised)
  <1> DEFINE r == u[Len(u)].run
  <1>1. Len(u) \in 1..Len(u) /\ Len(u) \in Nat
    OBVIOUS
  <1>2. CallStands(u, rs, Len(u)) /\ r \in 1..Len(rs) /\ Kept(u, rs, Len(u))
    BY <1>1 DEF Nested, Stands
  <1>3. PICK k \in 1..(Len(u) - 1) : IsOpen(u, k) /\ u[k].run = r
    BY <1>2 DEF CallStands
  <1>4. k \in 1..Len(u)
    OBVIOUS
  <1>5. rs[r].by = g /\ Len(rs[r].calls) = Nth(u, r, Len(u))
    BY <1>3, <1>4 DEF Nested, Stands, RunStands, Counted
  <1>6. Nth(u, r, Len(u)) \in Nat \ {0}
    BY <1>1, NthHit
  <1> QED BY <1>2, <1>5, <1>6 DEF Kept

\* A call comes back: its frame and what its run kept of it are gone.
LEMMA ReturnNested ==
    ASSUME NEW s, NEW f, NEW u, Topped(FrameOf, s, f, u), NEW g, NEW t, NEW rs, NEW qs,
           Nested(u, rs, g, t), f.kind = "call",
           CallsOf(rs, qs, f.run, Front(rs[f.run].calls))
    PROVE  Nested(s, qs, g, t) /\ Changes(g, rs, qs) /\ SameRuns(u, s)
  <1> DEFINE r == f.run
  <1>1. /\ Agree(u, s, Len(s)) /\ Len(s) \in Nat /\ Len(u) = Len(s) + 1 /\ u[Len(s) + 1] = f
        /\ \A n : Nth(u, n, Len(s)) = Nth(s, n, Len(s))
        /\ \A n, i : i \in 1..Len(s) => Nth(u, n, i) = Nth(s, n, i)
    BY OverIs
  <1>2. Len(u) \in Nat \ {0} /\ u[Len(u)] = f
    BY <1>1
  <1>3. r \in 1..Len(rs) /\ rs[r].by = g /\ Len(rs[r].calls) = Nth(u, r, Len(u)) /\ Nth(u, r, Len(u)) \in Nat \ {0}
    BY <1>2, TopCall
  <1>4. Changes(g, rs, qs) /\ SameLives(g, rs, qs) /\ rs[r].calls \in Seq(Caught \cup {Nothing})
    BY <1>3, CallsOfChanges, SMTT(30)
  <1>5. SameRuns(u, s)
    BY OverIs DEF Opened
  <1>6. Phased(s)
    BY PopPhased DEF Nested, Phased
  <1>7. \A i \in 1..Len(s) : u[i] = s[i] /\ i \in 1..Len(u)
    BY DEF Topped
  <1>8. \A i \in 1..Len(s) : Stands(s, qs, g, t, i)
    <2>1. \A i \in 1..Len(s) : Stands(u, rs, g, t, i)
      BY <1>7 DEF Nested
    <2> QED BY <1>1, <1>4, <2>1, AllStand
  <1>9. Nth(u, r, Len(u)) = Nth(s, r, Len(s)) + 1
    BY <1>1, NthNext
  <1>10. \A n : n # r => Nth(u, n, Len(u)) = Nth(s, n, Len(s))
    BY <1>1, NthNext
  <1>11. PICK calls \in Seq(Caught \cup {Nothing}) : calls = rs[r].calls
    BY <1>4
  <1>12. /\ Len(Front(calls)) = Len(calls) - 1 /\ Len(calls) \in Nat \ {0}
         /\ \A m \in 1..(Len(calls) - 1) : Front(calls)[m] = calls[m]
    <2>1. calls # <<>>
      BY <1>3, <1>11
    <2> QED BY <2>1, FrontIs
  <1>13. qs[r].calls = Front(calls)
    BY <1>11 DEF CallsOf
  <1>14. Len(Front(calls)) = Nth(s, r, Len(s)) /\ Nth(s, r, Len(s)) = Len(calls) - 1
    <2>1. Nth(s, r, Len(s)) \in Nat
      BY <1>1, NthIs
    <2>2. Len(calls) = Nth(u, r, Len(u))
      BY <1>3, <1>11
    <2>3. Len(calls) - 1 = Nth(s, r, Len(s))
      BY <2>1, <2>2, <1>9
    <2> QED BY <2>3, <1>12
  <1>15. ASSUME NEW i \in 1..Len(s), IsOpen(s, i) PROVE Counted(s, qs, i)
    <2>1. i \in 1..Len(u) /\ IsOpen(u, i) /\ u[i].run = s[i].run
      BY <1>7, <1>15 DEF IsOpen
    <2>2. s[i].run \in 1..Len(rs) /\ Counted(u, rs, i)
      BY <2>1 DEF Nested, Stands
    <2>3. CASE s[i].run = r
      BY <2>3, <1>13, <1>14 DEF Counted
    <2>4. CASE s[i].run # r
      <3>1. qs[s[i].run] = rs[s[i].run]
        BY <2>2, <2>4 DEF CallsOf
      <3> QED BY <2>1, <2>2, <2>4, <3>1, <1>10 DEF Counted
    <2> QED BY <2>3, <2>4
  <1>16. ASSUME NEW i \in 1..Len(s), s[i].kind = "call" PROVE Kept(s, qs, i)
    <2>1. i \in 1..Len(u) /\ u[i] = s[i] /\ s[i].kind = "call"
      BY <1>7, <1>16
    <2>2. Kept(u, rs, i) /\ s[i].run \in 1..Len(rs)
      BY <2>1 DEF Nested, Stands
    <2>3. Nth(u, s[i].run, i) = Nth(s, s[i].run, i)
      BY <1>1
    <2>4. CASE s[i].run = r
      <3>1. Nth(s, r, i) \in 1..Nth(s, r, Len(s))
        BY <2>1, <2>4, <1>1, NthHit
      <3>2. qs[r].calls[Nth(s, r, i)] = calls[Nth(s, r, i)]
        BY <3>1, <1>12, <1>13, <1>14
      <3> QED BY <2>1, <2>2, <2>3, <2>4, <3>2, <1>11 DEF Kept
    <2>5. CASE s[i].run # r
      <3>1. qs[s[i].run] = rs[s[i].run]
        BY <2>2, <2>5 DEF CallsOf
      <3> QED BY <2>1, <2>2, <2>3, <3>1 DEF Kept
    <2> QED BY <2>4, <2>5
  <1> QED BY <1>4, <1>5, <1>6, <1>8, <1>15, <1>16, QuietNested

\* A host's function failed: the innermost call keeps that, if it is the first.
Fails(s, w, caught) ==
    /\ Len(s) \in Nat \ {0} /\ Len(w) = Len(s) /\ s[Len(s)].kind = "call"
    /\ Agree(s, w, Len(s)) /\ \A i \in 1..Len(s) : w[i].phase = s[i].phase
    /\ \A i \in 1..Len(s) : i # Len(s) => w[i].raised = s[i].raised
    /\ FirstOf(w[Len(s)].raised) = KeptOf(FirstOf(s[Len(s)].raised), caught)
Keeps(calls, now, caught) == now = [calls EXCEPT ![Len(calls)] = KeptOf(calls[Len(calls)], caught)]

\* The counts of a call that keeps a failure are those it had, and so is what the others keep.
LEMMA KeepsCalls ==
    ASSUME NEW calls \in Seq(Caught \cup {Nothing}), Len(calls) \in Nat \ {0},
           NEW caught \in Caught, NEW now, Keeps(calls, now, caught)
    PROVE  /\ Len(now) = Len(calls) /\ \A m \in 1..Len(calls) : m # Len(calls) => now[m] = calls[m]
           /\ now[Len(calls)] = KeptOf(calls[Len(calls)], caught)
  <1>1. Len(calls) \in 1..Len(calls)
    OBVIOUS
  <1>2. calls[Len(calls)] \in Caught \cup {Nothing}
    BY <1>1
  <1>3. KeptOf(calls[Len(calls)], caught) \in Caught \cup {Nothing}
    BY <1>2 DEF KeptOf
  <1>4. PICK m \in 1..Len(calls), e \in Caught \cup {Nothing} :
          m = Len(calls) /\ e = KeptOf(calls[Len(calls)], caught)
    BY <1>1, <1>3, Zenon
  <1>5. now = [calls EXCEPT ![m] = e]
    BY <1>4, Zenon DEF Keeps
  <1>6. /\ Len([calls EXCEPT ![m] = e]) = Len(calls)
        /\ \A j \in 1..Len(calls) : [calls EXCEPT ![m] = e][j] = IF j = m THEN e ELSE calls[j]
    BY ExceptSeq
  <1>7. PICK f : f = [calls EXCEPT ![m] = e]
    OBVIOUS
  <1>8. /\ now = f /\ Len(f) = Len(calls)
        /\ \A j \in 1..Len(calls) : f[j] = IF j = m THEN e ELSE calls[j]
    BY <1>5, <1>6, <1>7, Zenon
  <1> QED BY <1>1, <1>4, <1>8

LEMMA FailNested ==
    ASSUME NEW s, NEW w, NEW caught \in Caught, Fails(s, w, caught),
           NEW g, NEW t, NEW rs, NEW qs, Nested(s, rs, g, t), NEW now,
           CallsOf(rs, qs, s[Len(s)].run, now), Keeps(rs[s[Len(s)].run].calls, now, caught)
    PROVE  Nested(w, qs, g, t) /\ Changes(g, rs, qs) /\ SameRuns(s, w)
  <1> DEFINE r == s[Len(s)].run
  <1>0. PICK calls : calls = rs[r].calls
    OBVIOUS
  <1>13. Len(s) \in Nat \ {0} /\ Len(w) = Len(s) /\ s[Len(s)].kind = "call"
    BY DEF Fails
  <1>14. Agree(s, w, Len(s)) /\ \A i \in 1..Len(s) : w[i].phase = s[i].phase
    BY DEF Fails
  <1>15. /\ \A i \in 1..Len(s) : i # Len(s) => w[i].raised = s[i].raised
         /\ FirstOf(w[Len(s)].raised) = KeptOf(FirstOf(s[Len(s)].raised), caught)
    BY SMTT(30) DEF Fails
  <1>1. /\ r \in 1..Len(rs) /\ rs[r].by = g
        /\ Len(calls) = Nth(s, r, Len(s)) /\ Nth(s, r, Len(s)) \in Nat \ {0}
        /\ calls[Len(calls)] = FirstOf(s[Len(s)].raised)
    BY <1>0, <1>13, TopCall, SMTT(30)
  <1>2. Changes(g, rs, qs) /\ SameLives(g, rs, qs) /\ calls \in Seq(Caught \cup {Nothing})
    BY <1>0, <1>1, CallsOfChanges
  <1>4. \A i \in 1..Len(s) : w[i].kind = s[i].kind /\ w[i].run = s[i].run
    BY <1>14 DEF Agree
  <1>3. SameRuns(s, w)
    BY <1>13, <1>14, <1>4 DEF SameRuns, IsOpen, Agree
  <1>5. Phased(w)
    BY <1>4, <1>13, <1>14 DEF Nested, Phased, IsOpen
  <1>6. \A i \in 1..Len(w) : Stands(w, qs, g, t, i)
    BY <1>2, <1>3, <1>13, <1>14, AllStand DEF Nested
  <1>7. ASSUME NEW n, NEW i \in 1..Len(s) PROVE Nth(w, n, i) = Nth(s, n, i)
    <2>1. Agree(s, w, i) /\ i \in Nat
      BY <1>13, <1>14 DEF Agree
    <2> QED BY <2>1, NthAgree
  <1>8. Len(s) \in 1..Len(s) /\ Len(s) \in Nat
    BY <1>13
  <1>9. now = qs[r].calls
    BY Zenon DEF CallsOf
  <1>10. /\ Len(now) = Len(calls) /\ \A m \in 1..Len(calls) : m # Len(calls) => now[m] = calls[m]
         /\ now[Len(calls)] = KeptOf(calls[Len(calls)], caught)
    <2>1. Keeps(calls, now, caught)
      BY <1>0, Zenon
    <2>2. Len(calls) \in Nat \ {0}
      BY <1>1, Zenon
    <2> QED BY <1>2, <2>1, <2>2, KeepsCalls
  <1>11. ASSUME NEW i \in 1..Len(w), IsOpen(w, i) PROVE Counted(w, qs, i)
    <2>1. i \in 1..Len(s) /\ IsOpen(s, i) /\ w[i].run = s[i].run
      BY <1>4, <1>11, <1>13 DEF IsOpen
    <2>2. s[i].run \in 1..Len(rs) /\ Counted(s, rs, i)
      BY <2>1 DEF Nested, Stands
    <2>3. Len(qs[s[i].run].calls) = Len(rs[s[i].run].calls)
      <3>1. s[i].run # r => qs[s[i].run] = rs[s[i].run]
        BY <2>2 DEF CallsOf
      <3>2. Len(now) = Len(calls)
        BY <1>10, Zenon
      <3> QED BY <3>1, <3>2, <1>0, <1>9, Zenon
    <2> QED BY <2>1, <2>2, <2>3, <1>7, <1>8, <1>13 DEF Counted
  <1>12. ASSUME NEW i \in 1..Len(w), w[i].kind = "call" PROVE Kept(w, qs, i)
    <2>1. i \in 1..Len(s) /\ s[i].kind = "call" /\ w[i].run = s[i].run
      BY <1>4, <1>12, <1>13
    <2>2. Kept(s, rs, i) /\ s[i].run \in 1..Len(rs) /\ Nth(w, s[i].run, i) = Nth(s, s[i].run, i)
      <3>1. Kept(s, rs, i)
        BY <2>1, Zenon DEF Nested
      <3>2. Stands(s, rs, g, t, i)
        BY <2>1, Zenon DEF Nested
      <3>3. s[i].run \in 1..Len(rs)
        BY <3>2, Zenon DEF Stands
      <3> QED BY <2>1, <3>1, <3>3, <1>7, Zenon
    <2>3. CASE i = Len(s)
      <3>1. Nth(w, w[i].run, i) = Len(calls) /\ w[i].run = r
        BY <2>1, <2>2, <2>3, <1>1, Zenon
      <3>2. now[Len(calls)] = FirstOf(w[i].raised)
        BY <2>3, <1>1, <1>10, <1>15, ZenonT(60)
      <3> QED BY <3>1, <3>2, <1>9, Zenon DEF Kept
    <2>4. CASE i # Len(s) /\ s[i].run = r
      <3>1. Nth(s, r, i) \in 1..Len(calls) /\ Nth(s, r, i) # Len(calls)
        <4>1. i < Len(s)
          BY <2>1, <2>4, <1>13
        <4>2. Nth(s, r, i) \in 1..Nth(s, r, Len(s)) /\ Nth(s, r, i) < Nth(s, r, Len(s))
          BY <2>1, <2>4, <4>1, <1>8, <1>13, NthHit
        <4> QED BY <4>2, <1>1
      <3>2. now[Nth(s, r, i)] = calls[Nth(s, r, i)]
        BY <3>1, <1>10
      <3> QED BY <2>1, <2>2, <2>4, <3>2, <1>0, <1>9, <1>15 DEF Kept
    <2>5. CASE i # Len(s) /\ s[i].run # r
      <3>1. qs[s[i].run] = rs[s[i].run]
        BY <2>2, <2>5 DEF CallsOf
      <3> QED BY <2>1, <2>2, <2>5, <3>1, <1>15, Zenon DEF Kept
    <2> QED BY <2>3, <2>4, <2>5
  <1> QED BY <1>2, <1>3, <1>5, <1>6, <1>11, <1>12, QuietNested

\* A run holds a room: its calls stay as they are.
LEMMA RoomNested ==
    ASSUME NEW s, Len(s) \in Nat, NEW g, NEW t, NEW rs, NEW qs, NEW r, Nested(s, rs, g, t),
           CallsOf(rs, qs, r, rs[r].calls), rs[r].by = g
    PROVE  Nested(s, qs, g, t) /\ Changes(g, rs, qs) /\ SameRuns(s, s)
  <1>1. Changes(g, rs, qs) /\ SameLives(g, rs, qs)
    BY CallsOfChanges
  <1>2. SameRuns(s, s) /\ Agree(s, s, Len(s))
    BY DEF SameRuns, Agree
  <1>3. \A n \in 1..Len(rs) : qs[n].calls = rs[n].calls
    <2>1. \A n \in 1..Len(rs) : n # r => qs[n] = rs[n]
      BY DEF CallsOf
    <2> QED BY <2>1 DEF CallsOf
  <1>4. \A i \in 1..Len(s) : Stands(s, qs, g, t, i) /\ s[i].run \in 1..Len(rs)
    <2>1. \A i \in 1..Len(s) : Stands(s, rs, g, t, i)
      BY DEF Nested
    <2>2. \A i \in 1..Len(s) : Stands(s, qs, g, t, i)
      BY <1>1, <1>2, <2>1, AllStand
    <2> QED BY <2>1, <2>2 DEF Stands
  <1>5. \A i \in 1..Len(s) : IsOpen(s, i) => Counted(s, qs, i)
    BY <1>3, <1>4 DEF Nested, Counted
  <1>6. \A i \in 1..Len(s) : s[i].kind = "call" => Kept(s, qs, i)
    BY <1>3, <1>4 DEF Nested, Kept
  <1>7. Phased(s)
    BY DEF Nested
  <1> QED BY <1>1, <1>2, <1>4, <1>5, <1>6, <1>7, QuietNested
-----------------------------------------------------------------------------
(* Runs that are opened and that end.                                      *)

\* No two frames of a stack are of one run that is open there.
LEMMA OneFrame ==
    ASSUME NEW s, Len(s) \in Nat, NEW g, NEW t, NEW rs, Len(rs) \in Nat,
           \A i \in 1..Len(s) : Stands(s, rs, g, t, i),
           NEW i \in 1..Len(s), NEW j \in 1..Len(s), IsOpen(s, i), IsOpen(s, j)
    PROVE  (s[i].run = s[j].run => i = j) /\ (s[i].run < s[j].run <=> i < j)
  <1>1. /\ \A k \in 1..(i - 1) : IsOpen(s, k) => s[k].run < s[i].run
        /\ \A k \in 1..(j - 1) : IsOpen(s, k) => s[k].run < s[j].run
        /\ s[i].run \in Nat /\ s[j].run \in Nat
    BY DEF Stands, RunStands
  <1>2. CASE i < j
    <2>1. i \in 1..(j - 1)
      BY <1>2
    <2> QED BY <1>1, <1>2, <2>1
  <1>3. CASE j < i
    <2>1. j \in 1..(i - 1)
      BY <1>3
    <2> QED BY <1>1, <1>3, <2>1
  <1>4. CASE i = j
    BY <1>1, <1>4
  <1> QED BY <1>2, <1>3, <1>4

\* A run that is the innermost frame has no call under way, and is live no
\* more once its function has returned.
LEMMA TopRun ==
    ASSUME NEW s, Len(s) \in Nat \ {0}, NEW g, NEW t, NEW rs, Len(rs) \in Nat,
           Nested(s, rs, g, t), IsOpen(s, Len(s))
    PROVE  LET n == s[Len(s)].run IN
           /\ n \in 1..Len(rs) /\ rs[n].by = g /\ rs[n].thread = t
           /\ \A i \in 1..Len(s) : s[i].kind = "call" => s[i].run # n
           /\ Nth(s, n, Len(s)) = 0 /\ Len(rs[n].calls) = 0
           /\ rs[n].live <=> s[Len(s)].phase = "in"
  <1> DEFINE n == s[Len(s)].run
  <1>1. Len(s) \in 1..Len(s) /\ \A i \in 1..Len(s) : Stands(s, rs, g, t, i)
    BY DEF Nested
  <1>2. n \in 1..Len(rs) /\ rs[n].by = g /\ rs[n].thread = t
    BY <1>1 DEF Stands, RunStands
  <1>3. ASSUME NEW i \in 1..Len(s), s[i].kind = "call", s[i].run = n PROVE FALSE
    <2>1. PICK j \in 1..(i - 1) : IsOpen(s, j) /\ s[j].run = n
      BY <1>1, <1>3 DEF Stands, CallStands
    <2>2. j \in 1..Len(s) /\ j # Len(s)
      OBVIOUS
    <2> QED BY <1>1, <2>1, <2>2, OneFrame
  <1>4. Nth(s, n, Len(s)) = 0
    <2>1. \A j \in 1..Len(s) : ~(s[j].kind = "call" /\ s[j].run = n)
      BY <1>3
    <2> QED BY <2>1, NthIs
  <1>5. Len(rs[n].calls) = 0
    BY <1>1, <1>4 DEF Nested, Counted
  <1>6. rs[n].live <=> \E i \in 1..Len(s) : IsOpen(s, i) /\ s[i].phase = "in" /\ s[i].run = n
    BY <1>2 DEF Nested, LiveIn
  <1>7. \A i \in 1..Len(s) : IsOpen(s, i) /\ s[i].run = n => i = Len(s)
    BY <1>1, OneFrame
  <1> QED BY <1>1, <1>2, <1>3, <1>4, <1>5, <1>6, <1>7

\* The innermost run comes as far as phase, and its run is ended as qs has it.
Comes(s, w, phase) ==
    /\ Len(s) \in Nat \ {0} /\ Len(w) = Len(s) /\ Agree(s, w, Len(s))
    /\ \A i \in 1..Len(s) : w[i].raised = s[i].raised /\ (i # Len(s) => w[i].phase = s[i].phase)
    /\ w[Len(s)].phase = phase
Ends(rs, qs, n) ==
    /\ Len(rs) \in Nat /\ Len(qs) = Len(rs) /\ n \in 1..Len(rs)
    /\ \A m \in 1..Len(rs) : m # n => qs[m] = rs[m]
    /\ qs[n].lib = rs[n].lib /\ qs[n].thread = rs[n].thread /\ qs[n].by = rs[n].by
    /\ qs[n].child = rs[n].child
    /\ Len(qs[n].calls) = Len(rs[n].calls) \/ Len(qs[n].calls) = 0

LEMMA EndsNested ==
    ASSUME NEW s, NEW w, NEW phase, Comes(s, w, phase), phase # "in", NEW g, NEW t, NEW rs, NEW qs,
           Nested(s, rs, g, t), IsOpen(s, Len(s)), Ends(rs, qs, s[Len(s)].run),
           ~qs[s[Len(s)].run].live, phase = "left" => s[Len(s)].kind = "run"
    PROVE  Nested(w, qs, g, t) /\ Changes(g, rs, qs) /\ SameOpen(s, w)
  <1> DEFINE n == s[Len(s)].run
  <1>1. Len(s) \in Nat \ {0} /\ Len(rs) \in Nat /\ Len(w) = Len(s) /\ Len(qs) = Len(rs)
    BY DEF Comes, Ends
  <1>2. /\ n \in 1..Len(rs) /\ rs[n].by = g
        /\ \A i \in 1..Len(s) : s[i].kind = "call" => s[i].run # n
        /\ Nth(s, n, Len(s)) = 0 /\ Len(rs[n].calls) = 0
    BY <1>1, TopRun
  <1>3. \A m \in 1..Len(rs) : m # n => qs[m] = rs[m]
    BY SMTT(30) DEF Ends
  <1>4. Changes(g, rs, qs)
    BY <1>2, <1>3, SMTT(30) DEF Ends, Changes
  <1>5. \A i \in 1..Len(s) : w[i].kind = s[i].kind /\ w[i].run = s[i].run
    BY DEF Comes, Agree
  <1>6. SameOpen(s, w)
    BY <1>1, <1>5 DEF SameOpen, IsOpen
  <1>7. \A i \in 1..Len(s) : Stands(s, rs, g, t, i) /\ s[i].run \in 1..Len(rs)
    BY DEF Nested, Stands
  <1>8. \A i \in 1..Len(w) : Stands(w, qs, g, t, i)
    <2>1. Agree(s, w, Len(s)) /\ Len(s) \in Nat
      BY DEF Comes
    <2> QED BY <2>1, <1>1, <1>4, <1>7, AllStand
  <1>9. Phased(w)
    <2> SUFFICES ASSUME NEW i \in 1..Len(w), w[i].phase # "in"
                 PROVE  i = Len(w) /\ IsOpen(w, i) /\ (w[i].phase = "left" => w[i].kind = "run")
      BY DEF Phased
    <2>1. i \in 1..Len(s)
      BY <1>1
    <2>2. i # Len(s) => s[i].phase # "in"
      BY <2>1 DEF Comes
    <2>3. i = Len(s)
      BY <2>1, <2>2 DEF Nested, Phased
    <2>4. w[i].phase = "left" => s[i].kind = "run"
      BY <2>3 DEF Comes
    <2> QED BY <2>1, <2>3, <2>4, <1>1, <1>5 DEF IsOpen
  <1>10. LiveIn(w, qs, g)
    <2> SUFFICES ASSUME NEW m \in 1..Len(qs), qs[m].by = g
                 PROVE  qs[m].live <=> \E i \in 1..Len(w) : IsOpen(w, i) /\ w[i].phase = "in" /\ w[i].run = m
      BY DEF LiveIn
    <2>1. CASE m = n
      <3>1. \A i \in 1..Len(s) : IsOpen(s, i) /\ s[i].run = n => i = Len(s)
        <4>1. Len(s) \in 1..Len(s)
          BY <1>1
        <4> QED BY <1>1, <1>7, <4>1, OneFrame
      <3>2. \A i \in 1..Len(w) : IsOpen(w, i) /\ w[i].run = n => w[i].phase # "in"
        BY <1>1, <1>5, <3>1 DEF IsOpen, Comes
      <3> QED BY <2>1, <3>2
    <2>2. CASE m # n
      <3>1. m \in 1..Len(rs) /\ qs[m] = rs[m]
        BY <2>2, <1>1, <1>3
      <3>2. rs[m].live <=> \E i \in 1..Len(s) : IsOpen(s, i) /\ s[i].phase = "in" /\ s[i].run = m
        BY <3>1 DEF Nested, LiveIn
      <3>3. \A i \in 1..Len(s) : s[i].run = m => w[i].phase = s[i].phase
        BY <2>2 DEF Comes
      <3> QED BY <3>1, <3>2, <3>3, <1>1, <1>5 DEF IsOpen
    <2> QED BY <2>1, <2>2
  <1>11. \A i \in 1..Len(w) : IsOpen(w, i) => Chained(w, qs, i)
    <2> SUFFICES ASSUME NEW i \in 1..Len(w), IsOpen(w, i) PROVE Chained(w, qs, i)
      OBVIOUS
    <2>1. \A m \in 1..Len(rs) : qs[m].lib = rs[m].lib /\ qs[m].child = rs[m].child
      BY <1>3 DEF Ends
    <2>2. i \in 1..Len(s) /\ IsOpen(s, i)
      BY <1>1, <1>5 DEF IsOpen
    <2>3. Chained(s, rs, i)
      BY <2>2 DEF Nested
    <2>4. \A j \in 1..Len(s) : \A l : OpenOf(w, qs, j, l) <=> OpenOf(s, rs, j, l)
      BY <1>5, <1>7, <2>1 DEF OpenOf, IsOpen
    <2>5. qs[w[i].run].lib = rs[s[i].run].lib /\ qs[w[i].run].child = rs[s[i].run].child
      BY <2>1, <2>2, <1>5, <1>7
    <2>6. CASE rs[s[i].run].child = 0
      <3>1. \A j \in (i + 1)..Len(s) : j \in 1..Len(s) /\ ~OpenOf(s, rs, j, rs[s[i].run].lib)
        BY <2>2, <2>3, <2>6, <1>1, SMTT(30) DEF Chained
      <3> QED BY <3>1, <2>4, <2>5, <2>6, <1>1 DEF Chained
    <2>7. CASE rs[s[i].run].child # 0
      <3>1. PICK j \in (i + 1)..Len(s) : Inside(s, rs, i, j) /\ s[j].run = rs[s[i].run].child
        BY <2>3, <2>7 DEF Chained
      <3>2. j \in 1..Len(s) /\ \A k \in (i + 1)..(j - 1) : k \in 1..Len(s)
        BY <2>2, <3>1, <1>1, SMTT(30)
      <3>3. Inside(w, qs, i, j)
        BY <3>1, <3>2, <2>4, <2>5 DEF Inside
      <3> QED BY <3>1, <3>2, <3>3, <2>5, <2>7, <1>1, <1>5 DEF Chained
    <2> QED BY <2>6, <2>7
  <1>12. \A m, i : i \in 1..Len(s) => Nth(w, m, i) = Nth(s, m, i)
    <2> SUFFICES ASSUME NEW m, NEW i \in 1..Len(s) PROVE Nth(w, m, i) = Nth(s, m, i)
      OBVIOUS
    <2>1. Agree(s, w, i) /\ i \in Nat
      BY <1>1 DEF Agree, Comes
    <2> QED BY <2>1, NthAgree
  <1>13. ASSUME NEW i \in 1..Len(w), IsOpen(w, i) PROVE Counted(w, qs, i)
    <2>1. i \in 1..Len(s) /\ IsOpen(s, i) /\ w[i].run = s[i].run
      BY <1>1, <1>5, <1>13 DEF IsOpen
    <2>2. Counted(s, rs, i) /\ Nth(w, s[i].run, Len(w)) = Nth(s, s[i].run, Len(s))
      <3>1. Len(s) \in 1..Len(s)
        BY <1>1, SMTT(30)
      <3> QED BY <2>1, <3>1, <1>1, <1>12 DEF Nested
    <2>3. CASE s[i].run = n
      BY <2>1, <2>2, <2>3, <1>2 DEF Counted, Ends
    <2>4. CASE s[i].run # n
      BY <2>1, <2>2, <2>4, <1>3, <1>7 DEF Counted
    <2> QED BY <2>3, <2>4
  <1>14. ASSUME NEW i \in 1..Len(w), w[i].kind = "call" PROVE Kept(w, qs, i)
    <2>1. i \in 1..Len(s) /\ s[i].kind = "call" /\ w[i].run = s[i].run /\ w[i].raised = s[i].raised
      BY <1>1, <1>5, <1>14 DEF Comes
    <2>2. Kept(s, rs, i) /\ qs[s[i].run] = rs[s[i].run]
      BY <2>1, <1>2, <1>3, <1>7 DEF Nested
    <2> QED BY <2>1, <2>2, <1>12 DEF Kept
  <1> QED BY <1>4, <1>6, <1>8, <1>9, <1>10, <1>11, <1>13, <1>14 DEF Nested

\* The runs rs and qs differ in the run open inside each alone, and the frames
\* of s whose run had n inside have none.
Leaves(rs, qs, s, n) ==
    /\ Len(rs) \in Nat /\ Len(qs) = Len(rs)
    /\ \A m \in 1..Len(rs) :
            /\ qs[m].lib = rs[m].lib /\ qs[m].thread = rs[m].thread /\ qs[m].by = rs[m].by
            /\ (qs[m].live <=> rs[m].live) /\ qs[m].calls = rs[m].calls
    /\ \A i \in 1..Len(s) : IsOpen(s, i) =>
            qs[s[i].run].child = IF rs[s[i].run].child = n THEN 0 ELSE rs[s[i].run].child

LEMMA LeaveNested ==
    ASSUME NEW s, NEW f, NEW u, Topped(FrameOf, s, f, u), NEW g, NEW t, NEW rs, NEW qs,
           Nested(u, rs, g, t), f.kind \in Opened, f.phase # "in", Leaves(rs, qs, s, f.run),
           Changes(g, rs, qs)
    PROVE  Nested(s, qs, g, t)
  <1> DEFINE n == f.run
  <1>1. /\ Agree(u, s, Len(s)) /\ Len(s) \in Nat /\ Len(u) = Len(s) + 1 /\ u[Len(s) + 1] = f
        /\ \A m : Nth(u, m, Len(s)) = Nth(s, m, Len(s))
        /\ \A m, i : i \in 1..Len(s) => Nth(u, m, i) = Nth(s, m, i)
    BY OverIs
  <1>2. Len(u) \in Nat \ {0} /\ u[Len(u)] = f /\ Len(rs) \in Nat /\ Len(qs) = Len(rs)
    BY <1>1 DEF Leaves
  <1>3. IsOpen(u, Len(u)) /\ Len(u) \in 1..Len(u)
    BY <1>2 DEF IsOpen
  <1>4. ~rs[n].live
    BY <1>2, <1>3, TopRun
  <1>5. \A i \in 1..Len(s) : u[i] = s[i] /\ i \in 1..Len(u)
    BY DEF Topped
  <1>6. \A i \in 1..Len(u) : Stands(u, rs, g, t, i) /\ u[i].run \in 1..Len(rs)
    BY DEF Nested, Stands
  <1>7. \A i \in 1..Len(s) : Stands(s, qs, g, t, i)
    BY <1>1, <1>5, <1>6, AllStand, SMTT(30)
  <1>8. Phased(s)
    BY PopPhased DEF Nested, Phased
  <1>9. \A i \in 1..Len(u) : IsOpen(u, i) /\ u[i].run = n => i = Len(u)
    BY <1>2, <1>3, <1>6, OneFrame
  <1>10. LiveIn(s, qs, g)
    <2> SUFFICES ASSUME NEW m \in 1..Len(qs), qs[m].by = g
                 PROVE  qs[m].live <=> \E i \in 1..Len(s) : IsOpen(s, i) /\ s[i].phase = "in" /\ s[i].run = m
      BY DEF LiveIn
    <2>1. m \in 1..Len(rs) /\ rs[m].by = g /\ (qs[m].live <=> rs[m].live)
      BY <1>2 DEF Leaves
    <2>2. rs[m].live <=> \E i \in 1..Len(u) : IsOpen(u, i) /\ u[i].phase = "in" /\ u[i].run = m
      BY <2>1 DEF Nested, LiveIn
    <2>3. \A i \in 1..Len(u) : u[i].phase = "in" => i \in 1..Len(s)
      BY <1>1, <1>2
    <2> QED BY <2>1, <2>2, <2>3, <1>5 DEF IsOpen
  <1>11. ASSUME NEW i \in 1..Len(s), IsOpen(s, i) PROVE Chained(s, qs, i)
    <2>1. i \in 1..Len(u) /\ IsOpen(u, i) /\ u[i] = s[i] /\ Chained(u, rs, i)
      BY <1>5, <1>11 DEF IsOpen, Nested
    <2>2. \A j \in 1..Len(s) : \A l : OpenOf(s, qs, j, l) <=> OpenOf(u, rs, j, l)
      BY <1>5, <1>6 DEF OpenOf, IsOpen, Leaves
    <2>3. qs[s[i].run].lib = rs[s[i].run].lib
      BY <2>1, <1>6, SMTT(30) DEF Leaves
    <2>4. qs[s[i].run].child = IF rs[s[i].run].child = n THEN 0 ELSE rs[s[i].run].child
      BY <1>11 DEF Leaves
    <2>5. n \in Nat \ {0}
      BY <1>2, <1>3, <1>6
    <2>6. CASE rs[s[i].run].child = 0
      <3>1. \A j \in (i + 1)..Len(s) : j \in 1..Len(s) /\ j \in (i + 1)..Len(u)
        BY <1>1
      <3>2. \A j \in (i + 1)..Len(u) : ~OpenOf(u, rs, j, rs[s[i].run].lib)
        BY <2>1, <2>6 DEF Chained
      <3> QED BY <2>2, <2>3, <2>4, <2>6, <3>1, <3>2 DEF Chained
    <2>7. CASE rs[s[i].run].child # 0
      <3>1. PICK j \in (i + 1)..Len(u) : Inside(u, rs, i, j) /\ u[j].run = rs[s[i].run].child
        BY <2>1, <2>7 DEF Chained
      <3>2. j \in 1..Len(u) /\ IsOpen(u, j)
        BY <3>1, <1>1 DEF Inside, OpenOf
      <3>3. \A k \in (i + 1)..(j - 1) : k \in 1..Len(s) /\ ~OpenOf(s, qs, k, qs[s[i].run].lib)
        <4>1. \A k \in (i + 1)..(j - 1) : k \in 1..Len(s)
          BY <3>1, <1>1
        <4> QED BY <4>1, <3>1, <2>1, <2>2, <2>3 DEF Inside
      <3>4. CASE rs[s[i].run].child = n
        <4>1. j = Len(s) + 1
          BY <3>1, <3>2, <3>4, <1>1, <1>9
        <4>2. \A k \in (i + 1)..Len(s) : ~OpenOf(s, qs, k, qs[s[i].run].lib)
          BY <4>1, <3>3, <1>1
        <4> QED BY <4>2, <2>4, <3>4 DEF Chained
      <3>5. CASE rs[s[i].run].child # n
        <4>1. j # Len(s) + 1
          BY <3>1, <3>5, <1>1
        <4>2. j \in (i + 1)..Len(s) /\ j \in 1..Len(s)
          BY <4>1, <3>1, <1>1
        <4>3. Inside(s, qs, i, j)
          BY <4>2, <3>1, <3>3, <2>1, <2>2, <2>3 DEF Inside
        <4> QED BY <4>2, <4>3, <3>1, <3>5, <2>4, <2>7, <1>5 DEF Chained
      <3> QED BY <3>4, <3>5
    <2> QED BY <2>6, <2>7
  <1>12. \A m : Nth(u, m, Len(u)) = Nth(s, m, Len(s))
    BY <1>1, NthNext DEF Opened
  <1>13. ASSUME NEW i \in 1..Len(s), IsOpen(s, i) PROVE Counted(s, qs, i)
    <2>1. Counted(u, rs, i) /\ u[i] = s[i] /\ s[i].run \in 1..Len(rs)
      BY <1>5, <1>6, <1>13 DEF Nested, IsOpen
    <2> QED BY <2>1, <1>12 DEF Counted, Leaves
  <1>14. ASSUME NEW i \in 1..Len(s), s[i].kind = "call" PROVE Kept(s, qs, i)
    <2>1. Kept(u, rs, i) /\ u[i] = s[i] /\ s[i].run \in 1..Len(rs)
      BY <1>5, <1>6, <1>14 DEF Nested
    <2> QED BY <2>1, <1>1, ZenonT(60) DEF Kept, Leaves
  <1> QED BY <1>7, <1>8, <1>10, <1>11, <1>13, <1>14 DEF Nested

\* A run of library l is opened by g, inside the ones of the frames of s that
\* had none of l inside.
Opens(rs, qs, s, g, l, t) ==
    /\ Len(rs) \in Nat /\ Len(qs) = Len(rs) + 1
    /\ \A m \in 1..Len(rs) :
            /\ qs[m].lib = rs[m].lib /\ qs[m].thread = rs[m].thread /\ qs[m].by = rs[m].by
            /\ (qs[m].live <=> rs[m].live) /\ qs[m].calls = rs[m].calls
    /\ qs[Len(qs)].lib = l /\ qs[Len(qs)].thread = t /\ qs[Len(qs)].by = g /\ qs[Len(qs)].live
    /\ qs[Len(qs)].child = 0 /\ Len(qs[Len(qs)].calls) = 0
    /\ \A i \in 1..Len(s) : IsOpen(s, i) =>
            qs[s[i].run].child = IF rs[s[i].run].child = 0 /\ rs[s[i].run].lib = l
                                 THEN Len(qs) ELSE rs[s[i].run].child

LEMMA OpenNested ==
    ASSUME NEW s, NEW f, NEW u, Topped(FrameOf, s, f, u), NEW g, NEW t, NEW rs, NEW qs, NEW l,
           Nested(s, rs, g, t), Opens(rs, qs, s, g, l, t), Changes(g, rs, qs),
           f.kind \in Opened, f.phase = "in", f.run = Len(qs),
           InCode(s), s # <<>> => s[Len(s)].phase = "in", s = <<>> => f.kind = "run",
           f.kind = "run" => \A i \in 1..Len(s) : ~OpenOf(s, rs, i, l),
           f.kind = "scope" => \E i \in 1..Len(s) : s[i].kind = "run" /\ rs[s[i].run].lib = l
    PROVE  Nested(u, qs, g, t)
  <1> DEFINE n == Len(qs)
  <1>1. /\ Agree(s, u, Len(s)) /\ Len(s) \in Nat /\ Len(u) = Len(s) + 1 /\ u[Len(s) + 1] = f
        /\ \A m : Nth(u, m, Len(s)) = Nth(s, m, Len(s))
        /\ \A m, i : i \in 1..Len(s) => Nth(u, m, i) = Nth(s, m, i)
    BY OverIs
  <1>2. \A i \in 1..Len(s) : u[i] = s[i] /\ i \in 1..Len(u)
    BY DEF Topped
  <1>3. \A i \in 1..Len(s) : Stands(s, rs, g, t, i) /\ s[i].run \in 1..Len(rs)
    BY DEF Nested, Stands
  <1>4. Len(rs) \in Nat /\ n = Len(rs) + 1
    BY DEF Opens
  <1>5. \A i \in 1..Len(u) : i \in 1..Len(s) \/ i = Len(s) + 1
    BY <1>1
  <1>6. \A i \in 1..Len(s) : \A k : OpenOf(u, qs, i, k) <=> OpenOf(s, rs, i, k)
    <2>1. \A m \in 1..Len(rs) : qs[m].lib = rs[m].lib
      BY DEF Opens
    <2>2. \A i \in 1..Len(s) : u[i] = s[i] /\ qs[s[i].run].lib = rs[s[i].run].lib
      BY <1>2, <1>3, <2>1
    <2> QED BY <2>2 DEF OpenOf, IsOpen
  <1>7. \A i \in 1..Len(u) : Stands(u, qs, g, t, i)
    <2>1. \A i \in 1..Len(s) : Stands(u, qs, g, t, i)
      BY <1>1, <1>3, AllStand
    <2>2. RunStands(u, qs, g, t, Len(s) + 1)
      <3>1. (Len(s) + 1) - 1 = Len(s) /\ u[Len(s) + 1].run = n
        BY <1>1
      <3>2. qs[n].by = g /\ qs[n].thread = t /\ qs[n].lib = l
        BY DEF Opens
      <3>3. \A j \in 1..Len(s) : IsOpen(u, j) => u[j].run < n
        BY <1>2, <1>3, <1>4
      <3>4. f.kind = "run" => \A j \in 1..Len(s) : ~OpenOf(u, qs, j, l)
        BY <1>6
      <3>5. f.kind = "scope" => \E j \in 1..Len(s) : u[j].kind = "run" /\ qs[u[j].run].lib = l
        <4>1. \A m \in 1..Len(rs) : qs[m].lib = rs[m].lib
          BY DEF Opens
        <4>2. \A i \in 1..Len(s) : u[i] = s[i] /\ qs[s[i].run].lib = rs[s[i].run].lib
          BY <1>2, <1>3, <4>1
        <4> QED BY <4>2
      <3> QED BY <1>1, <3>1, <3>2, <3>3, <3>4, <3>5, Zenon DEF RunStands
    <2>3. Stands(u, qs, g, t, Len(s) + 1)
      <3>1. s \in Seq(FrameOf) /\ (Len(s) + 1 = 1 => s = <<>>)
        BY <1>1 DEF Topped
      <3>2. Len(s) + 1 > 1 => u[Len(s)].kind # "call"
        <4> SUFFICES ASSUME Len(s) + 1 > 1 PROVE u[Len(s)].kind # "call"
          OBVIOUS
        <4>1. Len(s) \in 1..Len(s) /\ s # <<>>
          BY <1>1
        <4> QED BY <4>1, <1>2 DEF InCode
      <3>3. n \in 1..Len(qs)
        BY <1>4
      <3>4. (Len(s) + 1) - 1 = Len(s)
        BY <1>1
      <3> QED BY <1>1, <2>2, <3>1, <3>2, <3>3, <3>4 DEF Stands, Opened
    <2> QED BY <1>5, <2>1, <2>3
  <1>8. Phased(u)
    BY PushPhased DEF Nested
  <1>9. LiveIn(u, qs, g)
    <2> SUFFICES ASSUME NEW m \in 1..Len(qs), qs[m].by = g
                 PROVE  qs[m].live <=> \E i \in 1..Len(u) : IsOpen(u, i) /\ u[i].phase = "in" /\ u[i].run = m
      BY DEF LiveIn
    <2>1. CASE m = n
      <3>1. Len(s) + 1 \in 1..Len(u) /\ IsOpen(u, Len(s) + 1)
        BY <1>1 DEF IsOpen
      <3> QED BY <2>1, <3>1, <1>1 DEF Opens
    <2>2. CASE m # n
      <3>1. m \in 1..Len(rs)
        BY <2>2, <1>4
      <3>2. rs[m].by = g /\ (qs[m].live <=> rs[m].live)
        BY <3>1 DEF Opens
      <3>3. rs[m].live <=> \E i \in 1..Len(s) : IsOpen(s, i) /\ s[i].phase = "in" /\ s[i].run = m
        BY <3>1, <3>2 DEF Nested, LiveIn
      <3>4. \A i \in 1..Len(u) : u[i].run = m => i \in 1..Len(s)
        BY <2>2, <1>1, <1>5
      <3> QED BY <3>2, <3>3, <3>4, <1>2, SMTT(30) DEF IsOpen
    <2> QED BY <2>1, <2>2
  <1>10. ASSUME NEW i \in 1..Len(u), IsOpen(u, i) PROVE Chained(u, qs, i)
    <2>1. CASE i = Len(s) + 1
      <3>1. \A j \in (i + 1)..Len(u) : FALSE
        BY <2>1, <1>1
      <3>2. qs[u[i].run].child = 0
        BY <2>1, <1>1 DEF Opens
      <3> QED BY <3>1, <3>2 DEF Chained
    <2>2. CASE i \in 1..Len(s)
      <3>1. IsOpen(s, i) /\ u[i] = s[i] /\ Chained(s, rs, i) /\ s[i].run \in 1..Len(rs)
        BY <2>2, <1>2, <1>3, <1>10 DEF IsOpen, Nested
      <3>2. qs[s[i].run].lib = rs[s[i].run].lib
        BY <3>1, SMTT(30) DEF Opens
      <3>3. qs[s[i].run].child = IF rs[s[i].run].child = 0 /\ rs[s[i].run].lib = l
                                 THEN n ELSE rs[s[i].run].child
        BY <2>2, <3>1 DEF Opens
      <3>4. Len(s) + 1 \in (i + 1)..Len(u) /\ \A k \in (i + 1)..Len(s) : k \in 1..Len(s)
        BY <2>2, <1>1
      <3>5. \A k : OpenOf(u, qs, Len(s) + 1, k) <=> k = l
        BY <1>1 DEF OpenOf, IsOpen, Opens
      <3>6. CASE rs[s[i].run].child = 0 /\ rs[s[i].run].lib = l
        <4>1. \A j \in (i + 1)..Len(s) : ~OpenOf(u, qs, j, l)
          BY <3>1, <3>4, <3>6, <1>6 DEF Chained
        <4>2. Inside(u, qs, i, Len(s) + 1)
          <5>1. (Len(s) + 1) - 1 = Len(s)
            BY <1>1
          <5> QED BY <5>1, <4>1, <3>1, <3>2, <3>5, <3>6 DEF Inside
        <4>3. n # 0 /\ u[Len(s) + 1].run = n
          BY <1>1, <1>4
        <4> QED BY <4>2, <4>3, <3>1, <3>3, <3>4, <3>6, SMTT(30) DEF Chained
      <3>7. CASE rs[s[i].run].child = 0 /\ rs[s[i].run].lib # l
        <4>1. \A j \in (i + 1)..Len(s) : ~OpenOf(u, qs, j, rs[s[i].run].lib)
          BY <3>1, <3>4, <3>7, <1>6 DEF Chained
        <4>2. \A j \in (i + 1)..Len(u) : j \in (i + 1)..Len(s) \/ j = Len(s) + 1
          BY <2>2, <1>1, SMTT(30)
        <4> QED BY <4>1, <4>2, <3>1, <3>2, <3>3, <3>5, <3>7 DEF Chained
      <3>8. CASE rs[s[i].run].child # 0
        <4>1. PICK j \in (i + 1)..Len(s) : Inside(s, rs, i, j) /\ s[j].run = rs[s[i].run].child
          BY <3>1, <3>8 DEF Chained
        <4>2. j \in 1..Len(s) /\ j \in (i + 1)..Len(u) /\ \A k \in (i + 1)..(j - 1) : k \in 1..Len(s)
          BY <4>1, <2>2, <1>1, SMTT(30)
        <4>3. Inside(u, qs, i, j)
          BY <4>1, <4>2, <3>1, <3>2, <1>6 DEF Inside
        <4> QED BY <4>1, <4>2, <4>3, <3>1, <3>3, <3>8, <1>2 DEF Chained
      <3> QED BY <3>6, <3>7, <3>8
    <2> QED BY <1>5, <2>1, <2>2
  <1>11. \A m : Nth(u, m, Len(u)) = Nth(s, m, Len(s))
    BY <1>1, NthNext DEF Opened
  <1>12. ASSUME NEW i \in 1..Len(u), IsOpen(u, i) PROVE Counted(u, qs, i)
    <2>1. CASE i = Len(s) + 1
      <3>1. \A j \in 1..Len(s) : s[j].run # n
        BY <1>3, <1>4
      <3>2. Nth(s, n, Len(s)) = 0
        BY <3>1, <1>1, NthIs
      <3> QED BY <2>1, <3>2, <1>1, <1>11 DEF Counted, Opens
    <2>2. CASE i \in 1..Len(s)
      <3>1. Counted(s, rs, i) /\ u[i] = s[i] /\ s[i].run \in 1..Len(rs)
        BY <2>2, <1>2, <1>3, <1>12 DEF Nested, IsOpen
      <3>2. qs[s[i].run].calls = rs[s[i].run].calls
        BY <3>1 DEF Opens
      <3> QED BY <3>1, <3>2, <1>11 DEF Counted
    <2> QED BY <1>5, <2>1, <2>2
  <1>13. ASSUME NEW i \in 1..Len(u), u[i].kind = "call" PROVE Kept(u, qs, i)
    <2>1. i \in 1..Len(s)
      BY <1>1, <1>5, <1>13 DEF Opened
    <2>2. Kept(s, rs, i) /\ u[i] = s[i] /\ s[i].run \in 1..Len(rs)
      BY <2>1, <1>2, <1>3, <1>13 DEF Nested
    <2>3. qs[s[i].run].calls = rs[s[i].run].calls
      BY <2>2 DEF Opens
    <2>4. Nth(u, s[i].run, i) = Nth(s, s[i].run, i)
      BY <2>1, <1>1
    <2> QED BY <2>2, <2>3, <2>4 DEF Kept
  <1> QED BY <1>7, <1>8, <1>9, <1>10, <1>12, <1>13 DEF Nested
-----------------------------------------------------------------------------
(* The arenas, the root runs and what reads a room, as runs open and end.  *)

\* Scope n is opened in the arena of l.
Grown(up, k, l, n, now) == now = IF k = l THEN Append(up, n) ELSE up

LEMMA OpenFits ==
    ASSUME NEW s, NEW f, NEW u, Topped(FrameOf, s, f, u), NEW g, NEW t, NEW rs, NEW qs, NEW l, NEW k,
           Nested(s, rs, g, t), Opens(rs, qs, s, g, l, t),
           f.kind \in Opened, f.phase = "in", f.run = Len(qs),
           NEW up \in Seq(Nat), Fits(up, s, rs, k),
           NEW now, Grown(up, k, l, Len(qs), now)
    PROVE  Fits(now, u, qs, k)
  <1>0. now = IF k = l THEN Append(up, Len(qs)) ELSE up
    BY DEF Grown
  <1> DEFINE n == Len(qs)
  <1>1. Len(s) \in Nat /\ Len(u) = Len(s) + 1 /\ u[Len(s) + 1] = f
    BY DEF Topped
  <1>2. \A i \in 1..Len(s) : u[i] = s[i] /\ i \in 1..Len(u)
    BY DEF Topped
  <1>3. \A i \in 1..Len(s) : s[i].run \in 1..Len(rs)
    BY DEF Nested, Stands
  <1>4. Len(rs) \in Nat /\ n = Len(rs) + 1 /\ n \in Nat
    BY DEF Opens
  <1>5. \A i \in 1..Len(u) : i \in 1..Len(s) \/ i = Len(s) + 1
    BY <1>1
  <1>6. \A i \in 1..Len(s) : StandingAt(u, qs, k, i) <=> StandingAt(s, rs, k, i)
    <2> SUFFICES ASSUME NEW i \in 1..Len(s) PROVE StandingAt(u, qs, k, i) <=> StandingAt(s, rs, k, i)
      OBVIOUS
    <2>1. u[i] = s[i] /\ s[i].run \in 1..Len(rs)
      BY <1>2, <1>3
    <2>2. qs[s[i].run].lib = rs[s[i].run].lib
      BY <2>1 DEF Opens
    <2> QED BY <2>1, <2>2 DEF StandingAt, OpenOf, IsOpen
  <1>7. StandingAt(u, qs, k, Len(s) + 1) <=> k = l
    BY <1>1 DEF StandingAt, OpenOf, IsOpen, Opens
  <1>8. CASE k = l
    <2>1. /\ Len(now) = Len(up) + 1 /\ Len(up) \in Nat /\ now[Len(up) + 1] = n
          /\ \A m \in 1..Len(up) : now[m] = up[m] /\ up[m] \in Nat
      BY <1>0, <1>4, <1>8, AppendIs, SMTT(30)
    <2>2. \A m \in 1..Len(now) : m \in 1..Len(up) \/ m = Len(up) + 1
      BY <2>1
    <2>3. \A m \in 1..Len(up) : up[m] < n
      <3> SUFFICES ASSUME NEW m \in 1..Len(up) PROVE up[m] < n
        OBVIOUS
      <3>1. PICK i \in 1..Len(s) : s[i].run = up[m]
        BY DEF Fits
      <3>2. s[i].run \in 1..Len(rs)
        BY <1>3
      <3> QED BY <3>1, <3>2, <1>4, SMTT(30)
    <2>4. ASSUME NEW m \in 1..Len(now), NEW j \in 1..Len(now), m < j PROVE now[m] < now[j]
      <3>1. m \in 1..Len(up)
        BY <2>1, <2>4
      <3>2. CASE j = Len(up) + 1
        BY <3>1, <3>2, <2>1, <2>3
      <3>3. CASE j \in 1..Len(up)
        <4>1. up[m] < up[j]
          BY <2>4, <3>1, <3>3 DEF Fits
        <4> QED BY <4>1, <3>1, <3>3, <2>1
      <3> QED BY <2>2, <3>2, <3>3
    <2>5. \A m \in 1..Len(now) : \E i \in 1..Len(u) : StandingAt(u, qs, k, i) /\ u[i].run = now[m]
      <3> SUFFICES ASSUME NEW m \in 1..Len(now)
                   PROVE  \E i \in 1..Len(u) : StandingAt(u, qs, k, i) /\ u[i].run = now[m]
        BY SMTT(30)
      <3>1. CASE m = Len(up) + 1
        <4>1. Len(s) + 1 \in 1..Len(u)
          BY <1>1
        <4> QED BY <3>1, <4>1, <2>1, <1>1, <1>7, <1>8
      <3>2. CASE m \in 1..Len(up)
        <4>1. PICK i \in 1..Len(s) : StandingAt(s, rs, k, i) /\ s[i].run = up[m]
          BY <3>2 DEF Fits
        <4> QED BY <3>2, <4>1, <2>1, <1>2, <1>6
      <3> QED BY <2>2, <3>1, <3>2
    <2>6. \A i \in 1..Len(u) : StandingAt(u, qs, k, i) => \E m \in 1..Len(now) : now[m] = u[i].run
      <3> SUFFICES ASSUME NEW i \in 1..Len(u), StandingAt(u, qs, k, i)
                   PROVE  \E m \in 1..Len(now) : now[m] = u[i].run
        OBVIOUS
      <3>1. CASE i = Len(s) + 1
        BY <3>1, <2>1, <1>1, SMTT(30)
      <3>2. CASE i \in 1..Len(s)
        <4>1. PICK m \in 1..Len(up) : up[m] = s[i].run
          BY <3>2, <1>6 DEF Fits
        <4>2. m \in 1..Len(now) /\ now[m] = up[m]
          BY <2>1
        <4> QED BY <3>2, <4>1, <4>2, <1>2
      <3> QED BY <1>5, <3>1, <3>2
    <2> QED BY <2>4, <2>5, <2>6 DEF Fits
  <1>9. CASE k # l
    <2>1. \A m \in 1..Len(up) : \E i \in 1..Len(u) : StandingAt(u, qs, k, i) /\ u[i].run = up[m]
      <3> SUFFICES ASSUME NEW m \in 1..Len(up)
                   PROVE  \E i \in 1..Len(u) : StandingAt(u, qs, k, i) /\ u[i].run = up[m]
        OBVIOUS
      <3>1. PICK i \in 1..Len(s) : StandingAt(s, rs, k, i) /\ s[i].run = up[m]
        BY DEF Fits
      <3> QED BY <3>1, <1>2, <1>6
    <2>2. \A i \in 1..Len(u) : StandingAt(u, qs, k, i) => \E m \in 1..Len(up) : up[m] = u[i].run
      BY <1>2, <1>5, <1>6, <1>7, <1>9 DEF Fits
    <2> QED BY <1>0, <1>9, <2>1, <2>2 DEF Fits
  <1> QED BY <1>8, <1>9

\* The innermost run's scope is the innermost its arena has open.
LEMMA FitsLast ==
    ASSUME NEW s, NEW g, NEW t, NEW rs, Len(rs) \in Nat, Len(s) \in Nat, Nested(s, rs, g, t),
           NEW i \in 1..Len(s), NEW l, StandingAt(s, rs, l, i),
           \A j \in (i + 1)..Len(s) : ~OpenOf(s, rs, j, l),
           NEW up \in Seq(Nat), Fits(up, s, rs, l)
    PROVE  up # <<>> /\ up[Len(up)] = s[i].run
  <1>1. PICK m \in 1..Len(up) : up[m] = s[i].run
    BY DEF Fits
  <1>2. up # <<>> /\ Len(up) \in 1..Len(up)
    BY <1>1
  <1>3. PICK j \in 1..Len(s) : StandingAt(s, rs, l, j) /\ s[j].run = up[Len(up)]
    BY <1>2 DEF Fits
  <1>4. j <= i
    <2>1. OpenOf(s, rs, j, l)
      BY <1>3 DEF StandingAt
    <2> QED BY <2>1
  <1>5. IsOpen(s, i) /\ IsOpen(s, j) /\ \A k \in 1..Len(s) : Stands(s, rs, g, t, k)
    BY <1>3 DEF StandingAt, OpenOf, Nested
  <1>6. s[i].run \in Nat /\ s[j].run \in Nat /\ ~(s[i].run < s[j].run)
    <2>1. s[i].run < s[j].run <=> i < j
      BY <1>5, OneFrame
    <2>2. s[i].run \in Nat /\ s[j].run \in Nat
      BY <1>5, SMTT(30) DEF Stands
    <2> QED BY <1>4, <2>1, <2>2
  <1>7. m = Len(up)
    BY <1>1, <1>2, <1>3, <1>6 DEF Fits
  <1> QED BY <1>1, <1>2, <1>7

\* A run comes further: its scope is open until it is closed.
LEMMA ComesFits ==
    ASSUME NEW s, NEW w, NEW phase, Comes(s, w, phase), NEW rs, NEW qs, NEW h, Changes(h, rs, qs),
           OfRuns(s, rs, h), NEW l, NEW up, Fits(up, s, rs, l),
           phase \in {"in", "expired"} <=> s[Len(s)].phase \in {"in", "expired"}
    PROVE  Fits(up, w, qs, l)
  <1>1. Len(s) \in Nat \ {0} /\ Len(w) = Len(s)
    BY DEF Comes
  <1>2. \A i \in 1..Len(s) : w[i].run = s[i].run /\ w[i].kind = s[i].kind
    BY DEF Comes, Agree
  <1>3. \A i \in 1..Len(s) : w[i].phase \in {"in", "expired"} <=> s[i].phase \in {"in", "expired"}
    BY <1>1 DEF Comes
  <1>4. \A i \in 1..Len(s) : qs[w[i].run].lib = rs[s[i].run].lib
    BY <1>2, SMTT(30) DEF OfRuns, Changes
  <1>5. \A i \in 1..Len(s) : StandingAt(w, qs, l, i) <=> StandingAt(s, rs, l, i)
    BY <1>2, <1>3, <1>4 DEF StandingAt, OpenOf, IsOpen
  <1>6. \A m \in 1..Len(up) : \E i \in 1..Len(w) : StandingAt(w, qs, l, i) /\ w[i].run = up[m]
    <2> SUFFICES ASSUME NEW m \in 1..Len(up)
                 PROVE  \E i \in 1..Len(w) : StandingAt(w, qs, l, i) /\ w[i].run = up[m]
      OBVIOUS
    <2>1. PICK i \in 1..Len(s) : StandingAt(s, rs, l, i) /\ s[i].run = up[m]
      BY DEF Fits
    <2> QED BY <2>1, <1>1, <1>2, <1>5
  <1>7. \A i \in 1..Len(w) : StandingAt(w, qs, l, i) => \E m \in 1..Len(up) : up[m] = w[i].run
    BY <1>1, <1>2, <1>5 DEF Fits
  <1> QED BY <1>6, <1>7 DEF Fits

LEMMA CloseFits ==
    ASSUME NEW s, NEW w, Comes(s, w, "closed"), NEW g, NEW t, NEW rs, Len(rs) \in Nat, NEW l, NEW k,
           Nested(s, rs, g, t), StandingAt(s, rs, l, Len(s)),
           NEW up \in Seq(Nat), Fits(up, s, rs, k),
           NEW now, now = IF k = l THEN Front(up) ELSE up
    PROVE  Fits(now, w, rs, k)
  <1>1. Len(s) \in Nat \ {0} /\ Len(w) = Len(s) /\ Len(s) \in 1..Len(s)
    BY DEF Comes
  <1>2. \A i \in 1..Len(s) : w[i].run = s[i].run /\ w[i].kind = s[i].kind
    BY DEF Comes, Agree
  <1>3. \A i \in 1..Len(s) : StandingAt(w, rs, k, i) <=> StandingAt(s, rs, k, i) /\ i # Len(s)
    BY <1>1, <1>2 DEF StandingAt, OpenOf, IsOpen, Comes
  <1>4. \A i \in 1..Len(s) : Stands(s, rs, g, t, i)
    BY DEF Nested
  <1>5. CASE k = l
    <2>1. up # <<>> /\ up[Len(up)] = s[Len(s)].run
      <3>1. \A j \in (Len(s) + 1)..Len(s) : ~OpenOf(s, rs, j, l)
        BY <1>1
      <3>2. Fits(up, s, rs, l) /\ Len(s) \in Nat /\ Len(s) \in 1..Len(s)
        BY <1>1, <1>5
      <3> QED BY <3>1, <3>2, FitsLast
    <2>2. /\ Len(up) \in Nat \ {0} /\ Len(now) = Len(up) - 1
          /\ \A m \in 1..(Len(up) - 1) : now[m] = up[m]
      BY <1>5, <2>1, FrontIs
    <2>3. \A m \in 1..Len(now) : m \in 1..Len(up) /\ m # Len(up) /\ now[m] = up[m]
      BY <2>2, SMTT(30)
    <2>4. \A m, j \in 1..Len(now) : m < j => now[m] < now[j]
      BY <2>3 DEF Fits
    <2>5. ASSUME NEW m \in 1..Len(now)
          PROVE  \E i \in 1..Len(w) : StandingAt(w, rs, k, i) /\ w[i].run = now[m]
      <3>1. PICK i \in 1..Len(s) : StandingAt(s, rs, k, i) /\ s[i].run = up[m]
        BY <2>3 DEF Fits
      <3>2. up[m] < up[Len(up)]
        BY <2>2, <2>3 DEF Fits
      <3>3. up[m] \in Nat
        BY <2>3, SMTT(30)
      <3>4. i # Len(s)
        BY <3>1, <3>2, <3>3, <2>1
      <3> QED BY <3>1, <3>4, <2>3, <1>1, <1>2, <1>3
    <2>6. ASSUME NEW i \in 1..Len(w), StandingAt(w, rs, k, i)
          PROVE  \E m \in 1..Len(now) : now[m] = w[i].run
      <3>1. i \in 1..Len(s) /\ StandingAt(s, rs, k, i) /\ i # Len(s)
        BY <1>1, <1>3, <2>6
      <3>2. PICK m \in 1..Len(up) : up[m] = s[i].run
        BY <3>1 DEF Fits
      <3>3. s[i].run # s[Len(s)].run
        <4>1. IsOpen(s, i) /\ IsOpen(s, Len(s))
          BY <3>1 DEF StandingAt, OpenOf
        <4> QED BY <4>1, <3>1, <1>1, <1>4, OneFrame
      <3>4. m # Len(up)
        BY <3>2, <3>3, <2>1
      <3>5. m \in 1..Len(now)
        BY <3>4, <2>2
      <3> QED BY <3>1, <3>2, <3>5, <2>3, <1>2
    <2> QED BY <2>4, <2>5, <2>6 DEF Fits
  <1>6. CASE k # l
    <2>1. ~StandingAt(s, rs, k, Len(s))
      BY <1>6 DEF StandingAt, OpenOf
    <2>2. \A i \in 1..Len(s) : StandingAt(w, rs, k, i) <=> StandingAt(s, rs, k, i)
      BY <2>1, <1>3
    <2>3. \A m \in 1..Len(up) : \E i \in 1..Len(w) : StandingAt(w, rs, k, i) /\ w[i].run = up[m]
      <3> SUFFICES ASSUME NEW m \in 1..Len(up)
                   PROVE  \E i \in 1..Len(w) : StandingAt(w, rs, k, i) /\ w[i].run = up[m]
        OBVIOUS
      <3>1. PICK i \in 1..Len(s) : StandingAt(s, rs, k, i) /\ s[i].run = up[m]
        BY DEF Fits
      <3> QED BY <3>1, <2>2, <1>1, <1>2
    <2>4. \A i \in 1..Len(w) : StandingAt(w, rs, k, i) => \E m \in 1..Len(up) : up[m] = w[i].run
      BY <2>2, <1>1, <1>2 DEF Fits
    <2> QED BY <1>6, <2>3, <2>4 DEF Fits
  <1> QED BY <1>5, <1>6

LEMMA LeaveFits ==
    ASSUME NEW s, NEW f, NEW u, Topped(FrameOf, s, f, u), NEW rs, NEW qs, NEW h, Changes(h, rs, qs),
           OfRuns(u, rs, h), f.phase \notin {"in", "expired"}, NEW l, NEW up, Fits(up, u, rs, l)
    PROVE  Fits(up, s, qs, l)
  <1>1. Len(s) \in Nat /\ Len(u) = Len(s) + 1 /\ u[Len(s) + 1] = f
    BY DEF Topped
  <1>2. \A i \in 1..Len(s) : u[i] = s[i] /\ i \in 1..Len(u)
    BY DEF Topped
  <1>3. \A i \in 1..Len(s) : StandingAt(s, qs, l, i) <=> StandingAt(u, rs, l, i)
    BY <1>2, SMTT(30) DEF StandingAt, OpenOf, IsOpen, OfRuns, Changes
  <1>4. \A i \in 1..Len(u) : StandingAt(u, rs, l, i) => i \in 1..Len(s)
    BY <1>1 DEF StandingAt
  <1>5. ASSUME NEW m \in 1..Len(up)
        PROVE  \E i \in 1..Len(s) : StandingAt(s, qs, l, i) /\ s[i].run = up[m]
    <2>1. PICK i \in 1..Len(u) : StandingAt(u, rs, l, i) /\ u[i].run = up[m]
      BY DEF Fits
    <2> QED BY <2>1, <1>2, <1>3, <1>4
  <1>6. \A i \in 1..Len(s) : StandingAt(s, qs, l, i) => \E m \in 1..Len(up) : up[m] = s[i].run
    BY <1>2, <1>3 DEF Fits
  <1> QED BY <1>5, <1>6 DEF Fits

LEMMA PushRead ==
    ASSUME NEW s, NEW f, NEW u, Topped(FrameOf, s, f, u), NEW r, ReadStands(r, s)
    PROVE  ReadStands(r, u)
  <1>1. \A i \in 1..Len(s) : u[i] = s[i] /\ i \in 1..Len(u)
    BY DEF Topped
  <1> QED BY <1>1 DEF ReadStands, IsOpen

LEMMA LeaveRead ==
    ASSUME NEW s, NEW f, NEW u, Topped(FrameOf, s, f, u), f.phase \notin {"in", "expired"},
           NEW r, ReadStands(r, u)
    PROVE  ReadStands(r, s)
  <1>1. Len(s) \in Nat /\ Len(u) = Len(s) + 1 /\ u[Len(s) + 1] = f
    BY DEF Topped
  <1>2. \A i \in 1..Len(s) : u[i] = s[i]
    BY DEF Topped
  <1>3. PICK i, j \in 1..Len(u) :
            /\ IsOpen(u, i) /\ IsOpen(u, j) /\ i <= j
            /\ u[i].run = r.room /\ u[j].run = r.scope /\ u[j].phase \in {"in", "expired"}
    BY DEF ReadStands
  <1>4. j \in 1..Len(s) /\ i \in 1..Len(s)
    BY <1>1, <1>3
  <1> QED BY <1>2, <1>3, <1>4, Zenon DEF ReadStands, IsOpen

\* The innermost run comes further: what is in a scope still open stands.
LEMMA ComesRead ==
    ASSUME NEW s, NEW w, NEW phase, Comes(s, w, phase), NEW r, ReadStands(r, s),
           \/ phase \in {"in", "expired"}
           \/ s[Len(s)].phase \notin {"in", "expired"}
           \/ r.scope # s[Len(s)].run
    PROVE  ReadStands(r, w)
  <1>1. PICK i, j \in 1..Len(s) :
            /\ IsOpen(s, i) /\ IsOpen(s, j) /\ i <= j
            /\ s[i].run = r.room /\ s[j].run = r.scope /\ s[j].phase \in {"in", "expired"}
    BY DEF ReadStands
  <1>2. \A k \in 1..Len(s) : w[k].run = s[k].run /\ w[k].kind = s[k].kind
    BY DEF Comes, Agree
  <1>3. w[j].phase \in {"in", "expired"}
    BY <1>1 DEF Comes
  <1>4. Len(w) = Len(s)
    BY DEF Comes
  <1> QED BY <1>1, <1>2, <1>3, <1>4, SMTT(30) DEF ReadStands, IsOpen

\* What the innermost run holds is read by nothing once its scope is closed.
LEMMA ReadElsewhere ==
    ASSUME NEW s, Len(s) \in Nat \ {0}, NEW g, NEW t, NEW rs, Len(rs) \in Nat, Nested(s, rs, g, t),
           IsOpen(s, Len(s)), s[Len(s)].phase \notin {"in", "expired"}, NEW r, ReadStands(r, s)
    PROVE  r.room # s[Len(s)].run
  <1>1. PICK i, j \in 1..Len(s) :
            /\ IsOpen(s, i) /\ IsOpen(s, j) /\ i <= j
            /\ s[i].run = r.room /\ s[j].run = r.scope /\ s[j].phase \in {"in", "expired"}
    BY DEF ReadStands
  <1>2. i # Len(s) /\ Len(s) \in 1..Len(s)
    BY <1>1
  <1>3. \A k \in 1..Len(s) : Stands(s, rs, g, t, k)
    BY DEF Nested
  <1>4. s[i].run = s[Len(s)].run => i = Len(s)
    BY <1>1, <1>2, <1>3, OneFrame
  <1> QED BY <1>1, <1>2, <1>4

-----------------------------------------------------------------------------
(* Steps: what the others see, and what is left to show of the goroutine   *)
(* that takes one.                                                         *)

OnlyOf(g) ==
    /\ on' = on
    /\ \A h \in Goroutine : h # g =>
            /\ stack'[h] = stack[h] /\ asked'[h] = asked[h]
            /\ raising'[h] = raising[h] /\ locks'[h] = locks[h]
    /\ Changes(g, runs, runs')
    /\ \A t \in Thread : t # on[g] => scopes'[t] = scopes[t]
    /\ \A l \in Lib : \A t \in Thread : t # on[g] => (Has(roots', l, t) <=> Has(roots, l, t))
    /\ \A r \in reads' : (r \in reads /\ runs[r.room].by # g)
                         \/ /\ r.room \in 1..Len(runs') /\ runs'[r.room].by = g /\ runs'[r.room].room
                            /\ ReadStands(r, stack'[g])

LEMMA StepOf ==
    ASSUME IInv, TypeOK', NEW g \in Goroutine, OnlyOf(g), ChildrenLater(runs'),
           Nested(stack'[g], runs', g, on[g]),
           Asks(asked'[g], raising'[g], stack'[g], runs'),
           locks'[g] = Roots(stack'[g], Len(stack'[g])),
           stack'[g] # <<>> => on[g] # None,
           on[g] # None => \A l \in Lib : Fits(scopes'[on[g]][l], stack'[g], runs', l),
           \A i, j \in 1..Len(roots') : roots'[i] = roots'[j] => i = j,
           on[g] # None => \A l \in Lib :
                Has(roots', l, on[g]) <=> \E i \in 1..Len(stack'[g]) : RootedAt(stack'[g], runs', l, i)
    PROVE  IInv'
  <1>1. on' = on /\ Changes(g, runs, runs')
    BY DEF OnlyOf
  <1>2. ASSUME NEW h \in Goroutine, h # g
        PROVE  /\ stack'[h] = stack[h] /\ asked'[h] = asked[h]
               /\ raising'[h] = raising[h] /\ locks'[h] = locks[h] /\ on'[h] = on[h]
    BY <1>1, <1>2 DEF OnlyOf
  <1>3. ASSUME NEW h \in Goroutine
        PROVE  /\ Len(stack[h]) \in Nat /\ Nested(stack[h], runs, h, on[h]) /\ OfRuns(stack[h], runs, h)
               /\ SameRuns(stack[h], stack[h])
    <2>1. stack[h] \in Seq(FrameOf)
      BY DEF IInv, TypeOK
    <2>2. Len(stack[h]) \in Nat
      BY <2>1
    <2>3. Nested(stack[h], runs, h, on[h])
      BY DEF IInv
    <2>4. OfRuns(stack[h], runs, h)
      BY <2>3, NestedOfRuns DEF Nested
    <2> QED BY <2>2, <2>3, <2>4 DEF SameRuns
  <1>4. \A h \in Goroutine : Nested(stack'[h], runs', h, on'[h])
    <2> SUFFICES ASSUME NEW h \in Goroutine PROVE Nested(stack'[h], runs', h, on'[h])
      OBVIOUS
    <2>1. CASE h = g
      BY <2>1, <1>1
    <2>2. CASE h # g
      <3>1. Nested(stack[h], runs', h, on[h])
        BY <1>1, <1>3, <2>2, OthersNested
      <3> QED BY <3>1, <2>2, <1>2
    <2> QED BY <2>1, <2>2
  <1>5. \A h \in Goroutine : Asks(asked'[h], raising'[h], stack'[h], runs')
    <2> SUFFICES ASSUME NEW h \in Goroutine PROVE Asks(asked'[h], raising'[h], stack'[h], runs')
      OBVIOUS
    <2>1. CASE h = g
      BY <2>1, <1>1
    <2>2. CASE h # g
      <3>1. Asks(asked[h], raising[h], stack[h], runs)
        BY DEF IInv
      <3>2. Asks(asked[h], raising[h], stack[h], runs')
        BY <3>1, <2>2, <1>1 DEF Asks, Changes
      <3> QED BY <3>2, <2>2, <1>2
    <2> QED BY <2>1, <2>2
  <1>6. Placed'
    <2>1. \A h \in Goroutine : locks'[h] = Roots(stack'[h], Len(stack'[h]))
      BY <1>2 DEF IInv, Placed
    <2>2. \A h \in Goroutine : stack'[h] # <<>> => on'[h] # None
      BY <1>1, <1>2 DEF IInv, Placed
    <2>3. \A h, k \in Goroutine : on'[h] = on'[k] /\ on'[h] # None => h = k
      BY <1>1 DEF IInv, Placed
    <2> QED BY <2>1, <2>2, <2>3 DEF Placed
  <1>7. \A h \in Goroutine : h # g /\ on[h] # None => on[h] \in Thread /\ on[h] # on[g]
    BY DEF IInv, TypeOK, Placed
  <1>8. ScopesFollow'
    <2>1. ASSUME NEW h \in Goroutine, on'[h] # None, NEW l \in Lib
          PROVE  Fits(scopes'[on'[h]][l], stack'[h], runs', l)
      <3>1. CASE h = g
        BY <3>1, <2>1, <1>1
      <3>2. CASE h # g
        <4>1. on[h] # None /\ Fits(scopes[on[h]][l], stack[h], runs, l)
          BY <2>1, <1>1 DEF IInv, ScopesFollow
        <4>2. scopes'[on'[h]] = scopes[on[h]] /\ stack'[h] = stack[h]
          BY <3>2, <4>1, <1>1, <1>2, <1>7 DEF OnlyOf
        <4>3. Fits(scopes[on[h]][l], stack[h], runs', l)
          BY <4>1, <1>1, <1>3, FitsStays
        <4> QED BY <4>2, <4>3
      <3> QED BY <3>1, <3>2
    <2>2. ASSUME NEW t \in Thread, \A h \in Goroutine : on'[h] # t, NEW l \in Lib
          PROVE  scopes'[t][l] = <<>>
      <3>1. t # on[g] /\ \A h \in Goroutine : on[h] # t
        BY <2>2, <1>1
      <3> QED BY <3>1 DEF OnlyOf, IInv, ScopesFollow
    <2> QED BY <2>1, <2>2 DEF ScopesFollow
  <1>9. RootsFollow'
    <2>1. ASSUME NEW i \in 1..Len(roots') PROVE \E h \in Goroutine : on'[h] = roots'[i].thread
      <3>1. roots'[i] \in KeyOf
        BY DEF TypeOK
      <3>2. PICK l \in Lib, t \in Thread : roots'[i] = [identity |-> l, thread |-> t]
        BY <3>1 DEF KeyOf
      <3>3. CASE t = on[g]
        BY <3>2, <3>3, <1>1
      <3>4. CASE t # on[g]
        <4>1. Has(roots', l, t)
          BY <3>2 DEF Has
        <4>2. Has(roots, l, t)
          BY <3>4, <4>1 DEF OnlyOf
        <4>3. PICK j \in 1..Len(roots) : roots[j] = [identity |-> l, thread |-> t]
          BY <4>2 DEF Has
        <4>4. PICK h \in Goroutine : on[h] = roots[j].thread
          BY DEF IInv, RootsFollow
        <4> QED BY <3>2, <4>3, <4>4, <1>1
      <3> QED BY <3>3, <3>4
    <2>2. ASSUME NEW h \in Goroutine, on'[h] # None, NEW l \in Lib
          PROVE  Has(roots', l, on'[h]) <=> \E i \in 1..Len(stack'[h]) : RootedAt(stack'[h], runs', l, i)
      <3>1. CASE h = g
        BY <3>1, <2>2, <1>1
      <3>2. CASE h # g
        <4>1. on[h] # None /\ (Has(roots, l, on[h]) <=> \E i \in 1..Len(stack[h]) : RootedAt(stack[h], runs, l, i))
          BY <2>2, <1>1 DEF IInv, RootsFollow
        <4>2. Has(roots', l, on[h]) <=> Has(roots, l, on[h])
          BY <3>2, <4>1, <1>7 DEF OnlyOf
        <4>3. (\E i \in 1..Len(stack[h]) : RootedAt(stack[h], runs', l, i))
              <=> \E i \in 1..Len(stack[h]) : RootedAt(stack[h], runs, l, i)
          BY <1>1, <1>3, RootedStays, SMTT(30)
        <4> QED BY <3>2, <4>1, <4>2, <4>3, <1>2
      <3> QED BY <3>1, <3>2
    <2> QED BY <2>1, <2>2 DEF RootsFollow
  <1>10. ReadsStand'
    <2> SUFFICES ASSUME NEW r \in reads'
                 PROVE  /\ r.room \in 1..Len(runs') /\ runs'[r.room].room
                        /\ ReadStands(r, stack'[runs'[r.room].by])
      BY DEF ReadsStand
    <2>1. CASE r \in reads /\ runs[r.room].by # g
      <3>1. r.room \in 1..Len(runs) /\ runs[r.room].room /\ ReadStands(r, stack[runs[r.room].by])
        BY <2>1 DEF IInv, ReadsStand
      <3>2. runs'[r.room] = runs[r.room] /\ r.room \in 1..Len(runs')
        BY <2>1, <3>1, <1>1 DEF Changes
      <3>3. runs[r.room].by \in Goroutine
        <4>1. runs[r.room] \in RunOf
          BY <3>1, SMTT(30) DEF IInv, TypeOK
        <4> QED BY <4>1 DEF RunOf
      <3> QED BY <2>1, <3>1, <3>2, <3>3, <1>2
    <2>2. CASE ~(r \in reads /\ runs[r.room].by # g)
      BY <2>2 DEF OnlyOf
    <2> QED BY <2>1, <2>2
  <1> QED BY <1>4, <1>5, <1>6, <1>8, <1>9, <1>10 DEF IInv

LEMMA RunsExcept ==
    ASSUME NEW rs \in Seq(RunOf), NEW r \in 1..Len(rs), NEW e \in RunOf, NEW qs, qs = [rs EXCEPT ![r] = e]
    PROVE  /\ qs \in Seq(RunOf) /\ Len(qs) = Len(rs) /\ Len(rs) \in Nat /\ qs[r] = e
           /\ \A n \in 1..Len(rs) : n # r => qs[n] = rs[n]
  <1>1. /\ [rs EXCEPT ![r] = e] \in Seq(RunOf) /\ Len([rs EXCEPT ![r] = e]) = Len(rs)
        /\ \A j \in 1..Len(rs) : [rs EXCEPT ![r] = e][j] = IF j = r THEN e ELSE rs[j]
    BY ExceptSeq
  <1> QED BY <1>1

\* A step of g that leaves the open runs as they are.
Others(g) ==
    \A h \in Goroutine : h # g =>
        stack'[h] = stack[h] /\ asked'[h] = asked[h] /\ raising'[h] = raising[h] /\ locks'[h] = locks[h]

ReadFor(r, g, s, rs) ==
    r.room \in 1..Len(rs) /\ rs[r.room].by = g /\ rs[r.room].room /\ ReadStands(r, s)

LEMMA Facts ==
    ASSUME IInv, NEW g \in Goroutine
    PROVE  /\ stack[g] \in Seq(FrameOf) /\ Len(stack[g]) \in Nat
           /\ runs \in Seq(RunOf) /\ Len(runs) \in Nat
           /\ Nested(stack[g], runs, g, on[g]) /\ OfRuns(stack[g], runs, g)
           /\ SameRuns(stack[g], stack[g]) /\ Changes(g, runs, runs)
           /\ Asks(asked[g], raising[g], stack[g], runs)
  <1>1. stack[g] \in Seq(FrameOf) /\ runs \in Seq(RunOf)
    BY DEF IInv, TypeOK
  <1>2. Len(stack[g]) \in Nat /\ Len(runs) \in Nat
    BY <1>1
  <1>3. Nested(stack[g], runs, g, on[g]) /\ Asks(asked[g], raising[g], stack[g], runs)
    BY DEF IInv
  <1>4. OfRuns(stack[g], runs, g)
    BY <1>3, NestedOfRuns DEF Nested
  <1>5. SameRuns(stack[g], stack[g]) /\ Changes(g, runs, runs)
    BY <1>2 DEF SameRuns, Changes
  <1> QED BY <1>1, <1>2, <1>3, <1>4, <1>5

LEMMA SameStep ==
    ASSUME IInv, TypeOK', NEW g \in Goroutine, Others(g), UNCHANGED <<on, locks, roots, scopes>>,
           SameRuns(stack[g], stack'[g]), Nested(stack'[g], runs', g, on[g]), Changes(g, runs, runs'),
           Len(runs') = Len(runs),
           \A n \in 1..Len(runs) : runs'[n].child = runs[n].child /\ (runs[n].room => runs'[n].room),
           Asks(asked'[g], raising'[g], stack'[g], runs'),
           stack'[g] # <<>> => on[g] # None,
           \A r \in reads' : r \in reads \/ ReadFor(r, g, stack'[g], runs')
    PROVE  IInv'
  <1>1. OfRuns(stack[g], runs, g) /\ Len(runs) \in Nat
    BY Facts
  <1>2. ChildrenLater(runs')
    <2>1. ChildrenLater(runs)
      BY DEF IInv
    <2> QED BY <2>1, <1>1, SMTT(30) DEF ChildrenLater, Changes
  <1>3. OnlyOf(g)
    <2>1. ASSUME NEW r \in reads'
          PROVE  (r \in reads /\ runs[r.room].by # g) \/ ReadFor(r, g, stack'[g], runs')
      <3>1. CASE r \in reads /\ runs[r.room].by = g
        <4>1. r.room \in 1..Len(runs) /\ runs[r.room].room /\ ReadStands(r, stack[g])
          BY <3>1 DEF IInv, ReadsStand
        <4>2. ReadStands(r, stack'[g])
          BY <4>1, ReadStays
        <4>3. runs'[r.room].by = g
          BY <3>1, <4>1 DEF Changes
        <4> QED BY <4>1, <4>2, <4>3 DEF ReadFor
      <3> QED BY <3>1
    <2> QED BY <2>1 DEF OnlyOf, Others, ReadFor
  <1>4. locks'[g] = Roots(stack'[g], Len(stack'[g]))
    <2>1. SameOpen(stack[g], stack'[g])
      BY DEF SameRuns, SameOpen
    <2>2. Roots(stack'[g], Len(stack'[g])) = Roots(stack[g], Len(stack[g]))
      BY <2>1, RootsStays
    <2> QED BY <2>2 DEF IInv, Placed
  <1>5. ASSUME on[g] # None, NEW l \in Lib PROVE Fits(scopes'[on[g]][l], stack'[g], runs', l)
    <2>1. Fits(scopes[on[g]][l], stack[g], runs, l)
      BY <1>5 DEF IInv, ScopesFollow
    <2>2. Fits(scopes[on[g]][l], stack'[g], runs', l)
      BY <2>1, <1>1, FitsStays
    <2> QED BY <2>2
  <1>6. \A i, j \in 1..Len(roots') : roots'[i] = roots'[j] => i = j
    BY DEF IInv, RootsFollow
  <1>7. ASSUME on[g] # None, NEW l \in Lib
        PROVE  Has(roots', l, on[g]) <=> \E i \in 1..Len(stack'[g]) : RootedAt(stack'[g], runs', l, i)
    <2>1. Has(roots, l, on[g]) <=> \E i \in 1..Len(stack[g]) : RootedAt(stack[g], runs, l, i)
      BY <1>7 DEF IInv, RootsFollow
    <2>2. (\E i \in 1..Len(stack'[g]) : RootedAt(stack'[g], runs', l, i))
          <=> \E i \in 1..Len(stack[g]) : RootedAt(stack[g], runs, l, i)
      BY <1>1, RootedStays
    <2> QED BY <2>1, <2>2, SMTT(30)
  <1> QED BY <1>2, <1>3, <1>4, <1>5, <1>6, <1>7, StepOf

\* A step of g that touches no stack and no run.
LEMMA QuietStep ==
    ASSUME IInv, TypeOK', NEW g \in Goroutine, Others(g),
           UNCHANGED <<on, locks, stack, roots, runs, scopes, reads>>,
           Asks(asked'[g], raising'[g], stack[g], runs)
    PROVE  IInv'
  <1>1. /\ Nested(stack[g], runs, g, on[g]) /\ SameRuns(stack[g], stack[g]) /\ Changes(g, runs, runs)
    BY Facts
  <1>2. stack[g] # <<>> => on[g] # None
    BY DEF IInv, Placed
  <1>3. stack' = stack /\ runs' = runs /\ reads' = reads
    OBVIOUS
  <1> QED BY <1>1, <1>2, <1>3, SameStep

\* A live run whose thread a goroutine is on is that goroutine's.
LEMMA LiveHere ==
    ASSUME IInv, NEW g \in Goroutine, NEW n \in 1..Len(runs), runs[n].live, runs[n].thread = on[g]
    PROVE  /\ runs[n].by = g
           /\ \E i \in 1..Len(stack[g]) : IsOpen(stack[g], i) /\ stack[g][i].phase = "in" /\ stack[g][i].run = n
  <1>1. PICK h \in Goroutine : runs[n].by = h
    <2>1. runs[n] \in RunOf
      BY DEF IInv, TypeOK
    <2> QED BY <2>1 DEF RunOf
  <1>2. Nested(stack[h], runs, h, on[h]) /\ Len(stack[h]) \in Nat /\ stack[h] \in Seq(FrameOf)
    BY Facts
  <1>3. PICK i \in 1..Len(stack[h]) : IsOpen(stack[h], i) /\ stack[h][i].phase = "in" /\ stack[h][i].run = n
    BY <1>1, <1>2, SMTT(30) DEF Nested, LiveIn
  <1>4. runs[n].thread = on[h]
    BY <1>2, <1>3 DEF Nested, Stands, RunStands
  <1>5. on[h] # None
    <2>1. stack[h] # <<>>
      BY <1>2, <1>3
    <2> QED BY <2>1 DEF IInv, Placed
  <1>6. h = g
    BY <1>4, <1>5 DEF IInv, Placed
  <1> QED BY <1>1, <1>3, <1>6

LEMMA AskLiveStep ==
    ASSUME IInv, NEW g \in Goroutine, NEW n \in Run, AskLive(g, n)
    PROVE  IInv'
  <1>1. n \in 1..Len(runs) /\ n \in Nat \ {0}
    BY DEF IInv, TypeOK, Run
  <1>2. TypeOK'
    BY <1>1 DEF IInv, TypeOK, AskLive, Misused, Answers, Told
  <1>3. Asks(asked[g], raising[g], stack[g], runs)
    BY Facts
  <1>4. InCode(stack[g]) /\ (stack[g] # <<>> => stack[g][Len(stack[g])].phase = "in")
    BY DEF AskLive, InHost, Top, Last, InCode
  <1>5. Asks(asked'[g], raising'[g], stack[g], runs)
    <2>1. CASE runs[n].live
      <3>1. asked'[g] = n /\ raising'[g] = Nothing
        BY <2>1 DEF AskLive, InHost, IInv, TypeOK
      <3> QED BY <1>1, <1>4, <2>1, <3>1 DEF Asks
    <2>2. CASE ~runs[n].live
      <3>1. asked'[g] = 0
        BY <2>2 DEF AskLive, InHost
      <3> QED BY <1>4, <3>1 DEF Asks
    <2> QED BY <2>1, <2>2
  <1>6. Others(g)
    BY DEF Others, AskLive, Misused, IInv, TypeOK
  <1>7. UNCHANGED <<on, locks, stack, roots, runs, scopes, reads>>
    BY DEF AskLive
  <1> QED BY <1>2, <1>5, <1>6, <1>7, QuietStep

LEMMA RefusedStep ==
    ASSUME IInv, NEW g \in Goroutine, Refused(g)
    PROVE  IInv'
  <1>1. TypeOK'
    BY DEF IInv, TypeOK, Refused, Misused, AskedNothing
  <1>2. Asks(asked[g], raising[g], stack[g], runs) /\ asked[g] # 0
    BY Facts DEF Refused, Making
  <1>3. asked'[g] = 0
    BY DEF Refused, AskedNothing, IInv, TypeOK
  <1>4. Asks(asked'[g], raising'[g], stack[g], runs)
    BY <1>2, <1>3 DEF Asks
  <1>5. Others(g)
    BY DEF Others, Refused, Misused, AskedNothing, IInv, TypeOK
  <1>6. UNCHANGED <<on, locks, stack, roots, runs, scopes, reads>>
    BY DEF Refused
  <1> QED BY <1>1, <1>4, <1>5, <1>6, QuietStep

LEMMA PanicsStep ==
    ASSUME IInv, NEW g \in Goroutine, Panics(g)
    PROVE  IInv'
  <1>1. TypeOK'
    BY DEF IInv, TypeOK, Panics, Misused, Answers, Told
  <1>2. asked'[g] = 0 /\ InCode(stack[g])
    BY DEF Panics, InHost, Top, Last, InCode
  <1>3. Asks(asked'[g], raising'[g], stack[g], runs)
    BY <1>2 DEF Asks
  <1>4. Others(g)
    BY DEF Others, Panics, Misused, IInv, TypeOK
  <1>5. UNCHANGED <<on, locks, stack, roots, runs, scopes, reads>>
    BY DEF Panics
  <1> QED BY <1>1, <1>3, <1>4, <1>5, QuietStep

LEMMA RecoversStep ==
    ASSUME IInv, NEW g \in Goroutine, Recovers(g)
    PROVE  IInv'
  <1>1. TypeOK'
    BY DEF IInv, TypeOK, Recovers
  <1>2. Asks(asked[g], raising[g], stack[g], runs)
    BY Facts
  <1>3. asked'[g] = asked[g] /\ raising'[g] = Nothing
    BY DEF Recovers, IInv, TypeOK
  <1>4. Asks(asked'[g], raising'[g], stack[g], runs)
    BY <1>2, <1>3 DEF Asks
  <1>5. Others(g)
    BY DEF Others, Recovers, IInv, TypeOK
  <1>6. UNCHANGED <<on, locks, stack, roots, runs, scopes, reads>>
    BY DEF Recovers
  <1> QED BY <1>1, <1>4, <1>5, <1>6, QuietStep
-----------------------------------------------------------------------------
(* Run.innermost: down the runs open inside a run is the last of its       *)
(* library.                                                                *)

\* A function that goes down from each of the runs m..Len(rs).
Down(f, rs, m) == f = [n \in m..Len(rs) |-> IF rs[n].child = 0 THEN n ELSE f[rs[n].child]]

LEMMA DownStands ==
    ASSUME NEW rs, Len(rs) \in Nat, ChildrenLater(rs)
    PROVE  \E f : Down(f, rs, 1)
  <1> DEFINE bad == {k \in Nat : k <= Len(rs) /\ ~\E f : Down(f, rs, Len(rs) + 1 - k)}
  <1>1. Len(rs) \notin bad
    <2> SUFFICES ASSUME bad # {} PROVE FALSE
      OBVIOUS
    <2>1. PICK k \in bad : \A j \in bad : k <= j
      BY LeastNumber
    <2> DEFINE m == Len(rs) + 1 - k
    <2>2. k # 0
      <3> DEFINE g == [n \in (Len(rs) + 1)..Len(rs) |-> 0]
      <3>1. Down(g, rs, Len(rs) + 1)
        BY DEF Down
      <3> QED BY <3>1
    <2>3. m \in 1..Len(rs) /\ Len(rs) + 1 - (k - 1) = m + 1
      BY <2>2
    <2>4. PICK g : Down(g, rs, m + 1)
      BY <2>1, <2>2, <2>3
    <2> HIDE DEF m
    <2> DEFINE h == [n \in m..Len(rs) |->
                        IF n = m THEN (IF rs[m].child = 0 THEN m ELSE g[rs[m].child]) ELSE g[n]]
    <2>5. \A n \in m..Len(rs) : rs[n].child # 0 => rs[n].child \in (m + 1)..Len(rs)
      BY <2>3, SMTT(30) DEF ChildrenLater
    <2>6. \A n \in (m + 1)..Len(rs) : h[n] = g[n] /\ n # m
      BY <2>3
    <2>7. \A n \in (m + 1)..Len(rs) : g[n] = IF rs[n].child = 0 THEN n ELSE g[rs[n].child]
      BY <2>4 DEF Down
    <2>8. ASSUME NEW n \in m..Len(rs) PROVE h[n] = IF rs[n].child = 0 THEN n ELSE h[rs[n].child]
      <3>1. rs[n].child # 0 => h[rs[n].child] = g[rs[n].child]
        BY <2>5, <2>6
      <3>2. CASE n = m
        BY <3>1, <3>2
      <3>3. CASE n # m
        <4>1. n \in (m + 1)..Len(rs)
          BY <3>3, <2>3
        <4>2. h[n] = g[n]
          BY <4>1, <2>6
        <4> HIDE DEF h
        <4> QED BY <3>1, <4>1, <4>2, <2>7
      <3> QED BY <3>2, <3>3
    <2>9. Down(h, rs, m)
      BY <2>8 DEF Down
    <2> QED BY <2>9 DEF m
  <1>2. Len(rs) + 1 - Len(rs) = 1
    OBVIOUS
  <1> QED BY <1>1, <1>2

LEMMA DownIs ==
    ASSUME runs \in Seq(RunOf), ChildrenLater(runs)
    PROVE  \A n \in 1..Len(runs) : down[n] = IF runs[n].child = 0 THEN n ELSE down[runs[n].child]
  <1>1. Len(runs) \in Nat /\ Run = 1..Len(runs)
    BY DEF Run
  <1>2. \E f : Down(f, runs, 1)
    BY <1>1, DownStands
  <1> DEFINE f == CHOOSE g : Down(g, runs, 1)
  <1>3. Down(f, runs, 1)
    BY <1>2
  <1>4. down = f
    BY <1>1 DEF down, Down
  <1> HIDE DEF f
  <1> QED BY <1>3, <1>4 DEF Down

\* From a run open on a stack it comes to the last one of its library there.
LEMMA DownTo ==
    ASSUME IInv, NEW g \in Goroutine, NEW l, NEW k \in 1..Len(stack[g]), OpenOf(stack[g], runs, k, l),
           \A j \in (k + 1)..Len(stack[g]) : ~OpenOf(stack[g], runs, j, l),
           NEW i \in 1..Len(stack[g]), OpenOf(stack[g], runs, i, l)
    PROVE  down[stack[g][i].run] = stack[g][k].run
  <1>1. PICK s \in Seq(FrameOf) : s = stack[g]
    BY Facts
  <1>2. Len(s) \in Nat /\ Nested(s, runs, g, on[g]) /\ runs \in Seq(RunOf) /\ Len(runs) \in Nat
    BY <1>1, Facts
  <1>3. \A n \in 1..Len(runs) : down[n] = IF runs[n].child = 0 THEN n ELSE down[runs[n].child]
    BY <1>2, DownIs DEF IInv
  <1>4. \A j \in 1..Len(s) : s[j].run \in 1..Len(runs) /\ (IsOpen(s, j) => Chained(s, runs, j))
    BY <1>2 DEF Nested, Stands
  <1>5. \A j \in 1..Len(s) : OpenOf(s, runs, j, l) => j <= k
    BY <1>1, <1>2
  <1> DEFINE bad == {d \in Nat : \E j \in 1..Len(s) :
                        d = k - j /\ OpenOf(s, runs, j, l) /\ down[s[j].run] # s[k].run}
  <1>6. bad = {}
    <2> SUFFICES ASSUME bad # {} PROVE FALSE
      OBVIOUS
    <2>1. PICK d \in bad : \A e \in bad : d <= e
      BY LeastNumber
    <2>2. PICK j \in 1..Len(s) : d = k - j /\ OpenOf(s, runs, j, l) /\ down[s[j].run] # s[k].run
      OBVIOUS
    <2>6. d \in Nat
      OBVIOUS
    <2> HIDE DEF bad
    <2>3. Chained(s, runs, j) /\ s[j].run \in 1..Len(runs) /\ runs[s[j].run].lib = l
      BY <1>4, <2>2 DEF OpenOf
    <2>4. CASE runs[s[j].run].child = 0
      <3>1. \A q \in (j + 1)..Len(s) : ~OpenOf(s, runs, q, l)
        BY <2>3, <2>4 DEF Chained
      <3>2. j = k
        BY <3>1, <1>1, <1>2, <1>5, <2>2
      <3> QED BY <3>2, <2>2, <2>3, <2>4, <1>3
    <2>5. CASE runs[s[j].run].child # 0
      <3>1. PICK q \in (j + 1)..Len(s) : Inside(s, runs, j, q) /\ s[q].run = runs[s[j].run].child
        BY <2>3, <2>5 DEF Chained
      <3>2. q \in 1..Len(s) /\ OpenOf(s, runs, q, l)
        BY <3>1, <2>3, <1>2 DEF Inside
      <3>3. k - q \in Nat /\ k - q < d
        <4>1. q <= k
          BY <1>5, <3>2
        <4>2. j \in Nat /\ q \in Nat /\ k \in Nat /\ q > j
          BY <1>1, <1>2, <3>1
        <4> QED BY <2>2, <4>1, <4>2, SMTT(30)
      <3>4. k - q \notin bad
        BY <3>3, <2>1, <2>6
      <3>5. down[s[q].run] = s[k].run
        BY <3>2, <3>3, <3>4 DEF bad
      <3> QED BY <3>1, <3>5, <2>2, <2>3, <2>5, <1>3
    <2> QED BY <2>4, <2>5
  <1>7. i <= k /\ k - i \in Nat
    BY <1>1, <1>2, <1>5
  <1> QED BY <1>1, <1>6, <1>7

\* What a call is handed was made in runs from which it comes to the call's run.
LEMMA GivenTo ==
    ASSUME IInv, NEW g \in Goroutine, InLibrary(g), NEW o \in Top(g).given
    PROVE  /\ Innermost(o) = Top(g).run /\ o \in 1..Len(runs) /\ runs[o].by = g
           /\ runs[o].live /\ runs[o].thread = on[g]
  <1>1. PICK s \in Seq(FrameOf) : s = stack[g]
    BY Facts
  <1>2. Len(s) \in Nat \ {0} /\ Top(g) = s[Len(s)] /\ s[Len(s)].kind = "call"
    BY <1>1 DEF InLibrary, Top, Last
  <1>3. Nested(s, runs, g, on[g]) /\ Len(s) \in 1..Len(s) /\ Len(runs) \in Nat
    BY <1>1, <1>2, Facts
  <1>4. CallStands(s, runs, Len(s))
    BY <1>2, <1>3 DEF Nested, Stands
  <1> DEFINE l == runs[s[Len(s)].run].lib
  <1>5. PICK k \in 1..(Len(s) - 1) :
            /\ IsOpen(s, k) /\ s[k].run = s[Len(s)].run
            /\ \A j \in (k + 1)..(Len(s) - 1) : ~OpenOf(s, runs, j, l)
    BY <1>4 DEF CallStands
  <1>6. PICK i \in 1..(Len(s) - 1) : OpenOf(s, runs, i, l) /\ s[i].run = o
    BY <1>2, <1>4 DEF CallStands
  <1>7. i \in 1..Len(s) /\ k \in 1..Len(s) /\ i # Len(s) /\ OpenOf(s, runs, k, l)
    BY <1>5, <1>6, <1>2 DEF OpenOf
  <1>8. \A j \in (k + 1)..Len(s) : ~OpenOf(s, runs, j, l)
    <2>1. ~OpenOf(s, runs, Len(s), l)
      BY <1>2 DEF OpenOf, IsOpen, Opened
    <2>2. \A j \in (k + 1)..Len(s) : j \in (k + 1)..(Len(s) - 1) \/ j = Len(s)
      BY <1>2, SMTT(30)
    <2> QED BY <1>5, <2>1, <2>2
  <1>9. down[o] = s[Len(s)].run
    <2>1. PICK m : m = l
      BY SMTT(60)
    <2>2. /\ k \in 1..Len(stack[g]) /\ OpenOf(stack[g], runs, k, m)
          /\ \A j \in (k + 1)..Len(stack[g]) : ~OpenOf(stack[g], runs, j, m)
          /\ i \in 1..Len(stack[g]) /\ OpenOf(stack[g], runs, i, m)
      BY <1>1, <1>6, <1>7, <1>8, <2>1
    <2>3. down[stack[g][i].run] = stack[g][k].run
      BY <2>2, DownTo
    <2> QED BY <2>3, <1>1, <1>5, <1>6
  <1>10. o \in 1..Len(runs) /\ runs[o].by = g /\ runs[o].thread = on[g]
    BY <1>3, <1>6, <1>7 DEF Nested, Stands, RunStands, OpenOf
  <1>11. s[i].phase = "in"
    BY <1>3, <1>7 DEF Nested, Phased
  <1>12. runs[o].live
    BY <1>3, <1>6, <1>7, <1>10, <1>11 DEF Nested, LiveIn, OpenOf
  <1> QED BY <1>2, <1>9, <1>10, <1>12 DEF Innermost
-----------------------------------------------------------------------------
(* Making something through a run, calls, callbacks.                       *)

\* What is made through a live run is made through an open run of this goroutine
\* that has none of its library inside.
LEMMA Made ==
    ASSUME IInv, NEW g \in Goroutine, MayMake(g), runs[asked[g]].live
    PROVE  /\ asked[g] \in 1..Len(runs) /\ runs[asked[g]].by = g /\ runs[asked[g]].live
           /\ runs[asked[g]].thread = on[g] /\ runs[asked[g]].child = 0
           /\ raising[g] = Nothing /\ on[g] \in Thread /\ on[g] # None
           /\ InCode(stack[g]) /\ stack[g] # <<>> /\ stack[g][Len(stack[g])].phase = "in"
           /\ \E i \in 1..Len(stack[g]) :
                /\ IsOpen(stack[g], i) /\ stack[g][i].phase = "in" /\ stack[g][i].run = asked[g]
                /\ \A j \in (i + 1)..Len(stack[g]) : ~OpenOf(stack[g], runs, j, runs[asked[g]].lib)
  <1>1. PICK n : n = asked[g]
    OBVIOUS
  <1>2. n # 0 /\ on[g] # None /\ runs[n].thread = on[g] /\ runs[n].child = 0 /\ runs[n].live
    BY <1>1 DEF MayMake, Making, IsCurrent
  <1>3. Asks(n, raising[g], stack[g], runs)
    BY <1>1, Facts
  <1>10. /\ n \in 1..Len(runs) /\ raising[g] = Nothing
         /\ InCode(stack[g]) /\ (stack[g] # <<>> => stack[g][Len(stack[g])].phase = "in")
    BY <1>2, <1>3 DEF Asks
  <1>4. runs[n].by = g
    BY <1>2, <1>10, LiveHere
  <1>5. PICK i \in 1..Len(stack[g]) : IsOpen(stack[g], i) /\ stack[g][i].phase = "in" /\ stack[g][i].run = n
    BY <1>2, <1>10, LiveHere
  <1>6. stack[g] # <<>>
    BY <1>5, Facts
  <1>7. Chained(stack[g], runs, i)
    BY <1>5, Facts DEF Nested
  <1>8. \A j \in (i + 1)..Len(stack[g]) : ~OpenOf(stack[g], runs, j, runs[n].lib)
    BY <1>2, <1>5, <1>7 DEF Chained
  <1>9. on[g] \in Thread
    BY <1>2 DEF IInv, TypeOK
  <1> QED BY <1>1, <1>2, <1>4, <1>5, <1>6, <1>8, <1>9, <1>10

LEMMA ImplementStep ==
    ASSUME IInv, NEW g \in Goroutine, Implement(g), ~strayed'
    PROVE  IInv'
  <1>1. MayMake(g) /\ runs[asked[g]].live
    BY DEF Implement, Straying
  <1>2. PICK n \in 1..Len(runs) : n = asked[g]
    BY <1>1, Made
  <1>3. runs[n].by = g /\ runs[n].live /\ on[g] # None
    BY <1>1, <1>2, Made
  <1>4. runs \in Seq(RunOf) /\ Len(runs) \in Nat /\ Len(stack[g]) \in Nat /\ Nested(stack[g], runs, g, on[g])
    BY Facts
  <1>5. PICK e : e = [runs[n] EXCEPT !.room = TRUE]
    OBVIOUS
  <1>6. /\ e \in RunOf /\ e.lib = runs[n].lib /\ e.thread = runs[n].thread /\ e.by = runs[n].by
        /\ e.child = runs[n].child /\ e.live = runs[n].live /\ e.calls = runs[n].calls /\ e.room = TRUE
    <2>1. runs[n] \in RunOf
      BY <1>4
    <2> QED BY <2>1, <1>5 DEF RunOf
  <1>7. runs' = [runs EXCEPT ![n] = e]
    BY <1>2, <1>5 DEF Implement
  <1>8. /\ runs' \in Seq(RunOf) /\ Len(runs') = Len(runs) /\ runs'[n] = e
        /\ \A m \in 1..Len(runs) : m # n => runs'[m] = runs[m]
    BY <1>4, <1>6, <1>7, RunsExcept
  <1>9. TypeOK'
    BY <1>8 DEF IInv, TypeOK, Implement, AskedNothing
  <1>10. CallsOf(runs, runs', n, runs[n].calls)
    BY <1>4, <1>6, <1>8 DEF CallsOf
  <1>11. Nested(stack[g], runs', g, on[g]) /\ Changes(g, runs, runs') /\ SameRuns(stack[g], stack[g])
    BY <1>3, <1>4, <1>10, RoomNested, ZenonT(60)
  <1>12. \A m \in 1..Len(runs) : runs'[m].child = runs[m].child /\ (runs[m].room => runs'[m].room)
    BY <1>6, <1>8
  <1>13. Asks(asked'[g], raising'[g], stack'[g], runs')
    <2>1. asked'[g] = 0 /\ raising'[g] = Nothing
      BY <1>1, Made DEF Implement, AskedNothing, IInv, TypeOK
    <2> QED BY <2>1 DEF Asks
  <1>14. Others(g)
    BY DEF Others, Implement, AskedNothing, IInv, TypeOK
  <1>15. stack' = stack /\ reads' = reads /\ UNCHANGED <<on, locks, roots, scopes>>
    BY ZenonT(60) DEF Implement
  <1> QED BY <1>3, <1>8, <1>9, <1>11, <1>12, <1>13, <1>14, <1>15, SameStep

\* What is made is made in the scope of the run that was asked.
LEMMA MadeIn ==
    ASSUME IInv, NEW g \in Goroutine, MayMake(g), runs[asked[g]].live, NEW n, n = asked[g]
    PROVE  \E up \in Seq(Nat) : up = scopes[on[g]][runs[n].lib] /\ up # <<>> /\ up[Len(up)] = n
  <1>1. PICK s \in Seq(FrameOf) : s = stack[g]
    BY Facts
  <1>2. PICK l : l = runs[n].lib
    OBVIOUS
  <1>3. PICK i \in 1..Len(s) :
            /\ IsOpen(s, i) /\ s[i].phase = "in" /\ s[i].run = n
            /\ \A j \in (i + 1)..Len(s) : ~OpenOf(s, runs, j, l)
    BY <1>1, <1>2, Made
  <1>4. Len(runs) \in Nat /\ Len(s) \in Nat /\ Nested(s, runs, g, on[g])
    BY <1>1, Facts
  <1>5. l \in Lib
    <2>1. runs \in Seq(RunOf) /\ n \in 1..Len(runs)
      BY Facts, Made
    <2>2. runs[n] \in RunOf
      BY <2>1
    <2> QED BY <1>2, <2>2 DEF RunOf
  <1>6. on[g] \in Thread /\ on[g] # None
    BY Made
  <1>7. PICK up \in Seq(Nat) : up = scopes[on[g]][l]
    BY <1>5, <1>6 DEF IInv, TypeOK
  <1>8. Fits(up, s, runs, l)
    BY <1>1, <1>5, <1>6, <1>7 DEF IInv, ScopesFollow
  <1>9. StandingAt(s, runs, l, i)
    BY <1>2, <1>3 DEF StandingAt, OpenOf
  <1>10. \A j \in (i + 1)..Len(s) : ~OpenOf(s, runs, j, l)
    BY <1>3
  <1>11. up # <<>> /\ up[Len(up)] = s[i].run
    BY <1>4, <1>8, <1>9, <1>10, FitsLast, SMTT(30)
  <1> QED BY <1>2, <1>3, <1>7, <1>11

LEMMA CallStep ==
    ASSUME IInv, NEW g \in Goroutine, NEW given \in {{}} \cup {{o} : o \in Run}, Call(g, given), ~strayed'
    PROVE  IInv'
  <1>1. MayMake(g) /\ runs[asked[g]].live
    BY DEF Call, Straying
  <1>2. PICK n \in 1..Len(runs) : n = asked[g]
    BY <1>1, Made
  <1>3. /\ runs[n].by = g /\ runs[n].live /\ on[g] # None /\ on[g] \in Thread /\ raising[g] = Nothing
        /\ runs[n].thread = on[g]
        /\ InCode(stack[g]) /\ stack[g] # <<>> /\ stack[g][Len(stack[g])].phase = "in"
    BY <1>1, <1>2, Made
  <1>4. runs \in Seq(RunOf) /\ Len(runs) \in Nat /\ Len(stack[g]) \in Nat /\ Nested(stack[g], runs, g, on[g])
    BY Facts
  <1>5. given \in SUBSET (1..Len(runs)) /\ given \in SUBSET Nat
    BY <1>4 DEF Run
  <1>6. CASE \E o \in given : ~Usable(g, o)
    <2>1. TypeOK'
      BY <1>6 DEF IInv, TypeOK, Call, Misused, AskedNothing
    <2>2. asked'[g] = 0
      BY DEF Call, AskedNothing, IInv, TypeOK
    <2>3. Asks(asked'[g], raising'[g], stack[g], runs)
      BY <1>3, <2>2 DEF Asks
    <2>4. Others(g)
      BY <1>6 DEF Others, Call, Misused, AskedNothing, IInv, TypeOK
    <2>5. UNCHANGED <<on, locks, stack, roots, runs, scopes, reads>>
      BY <1>6, SMTT(30) DEF Call
    <2> QED BY <2>1, <2>3, <2>4, <2>5, QuietStep, SMTT(30)
  <1>7. CASE (~\E o \in given : ~Usable(g, o)) /\ \E o \in given : runs[o].lib # runs[asked[g]].lib
    <2>1. TypeOK'
      BY <1>7 DEF IInv, TypeOK, Call, Answers, AskedNothing, Told
    <2>2. asked'[g] = 0
      BY DEF Call, AskedNothing, IInv, TypeOK
    <2>3. Asks(asked'[g], raising'[g], stack[g], runs)
      BY <1>3, <2>2 DEF Asks
    <2>4. Others(g)
      BY <1>7 DEF Others, Call, Answers, AskedNothing, IInv, TypeOK
    <2>5. UNCHANGED <<on, locks, stack, roots, runs, scopes, reads>>
      BY <1>7, SMTT(30) DEF Call
    <2> QED BY <2>1, <2>3, <2>4, <2>5, QuietStep, SMTT(30)
  <1>8. CASE (\A o \in given : Usable(g, o)) /\ \A o \in given : runs[o].lib = runs[n].lib
    <2>1. PICK s \in Seq(FrameOf) : s = stack[g]
      BY Facts
    <2>2. PICK f : f = Frame("call", n, given, 0)
      OBVIOUS
    <2>3. /\ f \in FrameOf /\ f.kind = "call" /\ f.run = n /\ f.phase = "in" /\ f.given = given
          /\ f.raised = <<>>
      <3>1. n \in Nat /\ given \in SUBSET Nat
        BY <1>4, <1>5
      <3> PICK raised \in Seq(Caught) : raised = <<>>
        <4>1. <<>> \in Seq(Caught)
          OBVIOUS
        <4> QED BY <4>1
      <3>2. f = [kind |-> "call", run |-> n, phase |-> "in", given |-> given, raised |-> raised, at |-> 0]
        BY <2>2 DEF Frame
      <3>3. f \in FrameOf
        BY <3>1, <3>2 DEF FrameOf
      <3> QED BY <3>2, <3>3
    <2>4. PICK u : u = Append(s, f)
      OBVIOUS
    <2>5. Topped(FrameOf, s, f, u)
      BY <2>3, <2>4, PushTopped
    <2>6. stack' = [stack EXCEPT ![g] = u]
      BY <1>2, <1>8, <2>1, <2>2, <2>4 DEF Call
    <2>7. stack'[g] = u /\ u \in Seq(FrameOf)
      BY <2>5, <2>6 DEF IInv, TypeOK, Topped
    <2>8. PICK calls \in Seq(Caught \cup {Nothing}) : calls = runs[n].calls
      <3>1. runs[n] \in RunOf
        BY <1>4
      <3> QED BY <3>1 DEF RunOf
    <2>9. Append(calls, Nothing) \in Seq(Caught \cup {Nothing})
      BY <2>8
    <2>10. PICK e : e = [runs[n] EXCEPT !.calls = Append(calls, Nothing)]
      OBVIOUS
    <2>11. /\ e \in RunOf /\ e.lib = runs[n].lib /\ e.thread = runs[n].thread /\ e.by = runs[n].by
           /\ e.child = runs[n].child /\ e.live = runs[n].live /\ e.calls = Append(calls, Nothing)
           /\ e.room = runs[n].room
      <3>1. runs[n] \in RunOf
        BY <1>4, SMTT(30)
      <3> QED BY <3>1, <2>9, <2>10 DEF RunOf
    <2>12. runs' = [runs EXCEPT ![n] = e]
      BY <1>2, <1>8, <2>8, <2>10 DEF Call
    <2>13. /\ runs' \in Seq(RunOf) /\ Len(runs') = Len(runs) /\ runs'[n] = e
           /\ \A m \in 1..Len(runs) : m # n => runs'[m] = runs[m]
      BY <1>4, <2>11, <2>12, RunsExcept
    <2>14. CallsOf(runs, runs', f.run, Append(runs[f.run].calls, Nothing))
      BY <1>4, <2>3, <2>8, <2>11, <2>13 DEF CallsOf
    <2>15. \A m \in 1..Len(runs) : runs'[m].lib = runs[m].lib /\ runs'[m].by = runs[m].by
                                   /\ runs'[m].child = runs[m].child /\ runs'[m].room = runs[m].room
      BY <2>11, <2>13, Zenon
    <2>16. PICK i \in 1..Len(s) :
            /\ IsOpen(s, i) /\ s[i].phase = "in" /\ s[i].run = n
            /\ \A j \in (i + 1)..Len(s) : ~OpenOf(s, runs, j, runs[n].lib)
      BY <1>1, <1>2, <2>1, Made
    <2>17. /\ Len(s) \in Nat /\ Len(u) = Len(s) + 1 /\ u[Len(s) + 1] = f /\ (Len(s) + 1) - 1 = Len(s)
           /\ \A j \in 1..Len(s) : u[j] = s[j] /\ s[j].run \in 1..Len(runs)
      BY <2>1, <2>5, <1>4 DEF Topped, Nested, Stands
    <2>18. \A j \in 1..Len(s) : OpenOf(u, runs', j, runs'[n].lib) <=> OpenOf(s, runs, j, runs[n].lib)
      BY <2>15, <2>17, SMTT(60) DEF OpenOf, IsOpen
    <2>19. CallStands(u, runs', Len(s) + 1)
      <3>1. IsOpen(u, i) /\ u[i].run = n
        BY <2>16, <2>17 DEF IsOpen
      <3>2. \A j \in (i + 1)..Len(s) : ~OpenOf(u, runs', j, runs'[n].lib)
        <4>1. \A j \in (i + 1)..Len(s) : j \in 1..Len(s)
          BY <2>17
        <4> QED BY <4>1, <2>16, <2>18
      <3>3. ASSUME NEW o \in given
            PROVE  \E j \in 1..Len(s) : OpenOf(u, runs', j, runs'[n].lib) /\ u[j].run = o
        <4>1. o \in 1..Len(runs) /\ runs[o].live /\ runs[o].thread = on[g] /\ runs[o].lib = runs[n].lib
          BY <1>5, <1>8 DEF Usable, IsCurrent
        <4>2. PICK j \in 1..Len(stack[g]) : IsOpen(stack[g], j) /\ stack[g][j].run = o
          BY <4>1, LiveHere, SMTT(30)
        <4>3. OpenOf(s, runs, j, runs[n].lib) /\ j \in 1..Len(s) /\ s[j].run = o
          BY <4>1, <4>2, <2>1 DEF OpenOf
        <4> QED BY <4>3, <2>17, <2>18
      <3> QED BY <3>1, <3>2, <3>3, <2>3, <2>17 DEF CallStands
    <2>20. Nested(u, runs', g, on[g]) /\ Changes(g, runs, runs') /\ SameRuns(s, u)
      BY <1>3, <1>4, <2>1, <2>3, <2>5, <2>14, <2>19, CallNested, ZenonT(60)
    <2>21. PICK up \in Seq(Nat) : up = scopes[on[g]][runs[n].lib] /\ up # <<>> /\ up[Len(up)] = n
      BY <1>1, <1>2, MadeIn, SMTT(60)
    <2>23. Last(up) = n
      BY <2>21, Zenon DEF Last
    <2>24. reads' = reads \cup {[thread |-> on[g], scope |-> n, room |-> o] : o \in {o \in given : runs[o].room}}
      BY <1>2, <1>8, <2>21, <2>23 DEF Call
    <2>31. ASSUME NEW o \in given
           PROVE  runs[o].by = g /\ \E j \in 1..Len(stack[g]) : IsOpen(stack[g], j) /\ stack[g][j].run = o
      <3>1. o \in 1..Len(runs) /\ runs[o].live /\ runs[o].thread = on[g]
        BY <1>5, <1>8 DEF Usable, IsCurrent
      <3>2. runs[o].by = g
        BY <3>1, LiveHere
      <3>3. PICK j \in 1..Len(stack[g]) : IsOpen(stack[g], j) /\ stack[g][j].run = o
        BY <3>1, LiveHere, SMTT(30)
      <3> QED BY <3>2, <3>3
    <2>25. ASSUME NEW r \in reads' PROVE r \in reads \/ (ReadFor(r, g, u, runs') /\ r \in ReadOf)
      <3> SUFFICES ASSUME NEW o \in given, runs[o].room, r = [thread |-> on[g], scope |-> n, room |-> o]
                   PROVE  ReadFor(r, g, u, runs') /\ r \in ReadOf
        BY <2>24
      <3>1. o \in 1..Len(runs) /\ runs[o].live /\ runs[o].thread = on[g] /\ runs[o].lib = runs[n].lib
        BY <1>5, <1>8 DEF Usable, IsCurrent
      <3>2. runs[o].by = g /\ \E j \in 1..Len(stack[g]) : IsOpen(stack[g], j) /\ stack[g][j].run = o
        BY <2>31
      <3>3. PICK j \in 1..Len(stack[g]) : IsOpen(stack[g], j) /\ stack[g][j].run = o
        BY <3>2
      <3>4. OpenOf(s, runs, j, runs[n].lib) /\ j \in 1..Len(s) /\ s[j].run = o
        BY <3>1, <3>3, <2>1 DEF OpenOf
      <3>5. j <= i
        BY <3>4, <2>16, <2>17
      <3>6. r.room = o /\ r.scope = n /\ r \in ReadOf
        BY <1>3, <3>1, SMTT(30) DEF ReadOf
      <3>7. ReadStands(r, u)
        <4>1. IsOpen(u, j) /\ IsOpen(u, i) /\ j \in 1..Len(u) /\ i \in 1..Len(u)
          BY <3>4, <2>16, <2>17, SMTT(30) DEF IsOpen, OpenOf
        <4> QED BY <4>1, <3>4, <3>5, <3>6, <2>16, <2>17 DEF ReadStands
      <3> QED BY <3>1, <3>2, <3>6, <3>7, <2>13, <2>15 DEF ReadFor
    <2>26. TypeOK'
      <3>1. reads' \in SUBSET ReadOf
        BY <2>25 DEF IInv, TypeOK
      <3> QED BY <1>8, <2>6, <2>7, <2>13, <3>1, <1>2 DEF IInv, TypeOK, Call, AskedNothing
    <2>27. Asks(asked'[g], raising'[g], stack'[g], runs')
      <3>1. asked'[g] = 0 /\ raising'[g] = Nothing
        BY <1>2, <1>3, <1>8, Zenon DEF Call, AskedNothing, IInv, TypeOK
      <3> QED BY <3>1 DEF Asks
    <2>28. Others(g)
      BY <1>2, <1>8, <2>6 DEF Others, Call, AskedNothing, IInv, TypeOK
    <2>29. UNCHANGED <<on, locks, roots, scopes>>
      BY DEF Call
    <2>30. \A r \in reads' : r \in reads \/ ReadFor(r, g, stack'[g], runs')
      BY <2>7, <2>25
    <2> QED BY <1>3, <2>1, <2>7, <2>13, <2>15, <2>20, <2>26, <2>27, <2>28, <2>29, <2>30, SameStep
  <1> QED BY <1>2, <1>6, <1>7, <1>8

LEMMA CallBackStep ==
    ASSUME IInv, NEW g \in Goroutine, NEW o \in Run, CallBack(g, o)
    PROVE  IInv'
  <1>1. InLibrary(g) /\ o \in Top(g).given
    BY DEF CallBack
  <1>2. PICK s \in Seq(FrameOf) : s = stack[g]
    BY Facts
  <1>3. /\ Len(s) \in Nat \ {0} /\ s # <<>> /\ Top(g) = s[Len(s)] /\ s[Len(s)].kind = "call"
        /\ Nested(s, runs, g, on[g]) /\ Len(runs) \in Nat /\ Changes(g, runs, runs)
    BY <1>1, <1>2, Facts DEF InLibrary, Top, Last
  <1>4. PICK r : r = s[Len(s)].run
    OBVIOUS
  <1>5. r \in 1..Len(runs) /\ Len(runs[r].calls) = Nth(s, r, Len(s)) /\ Nth(s, r, Len(s)) \in Nat
    BY <1>3, <1>4, TopCall
  <1>6. Innermost(o) = r
    BY <1>1, <1>3, <1>4, GivenTo
  <1>7. PICK f : f = Frame("host", r, {}, Len(runs[r].calls))
    OBVIOUS
  <1>8. f \in FrameOf /\ f.kind = "host" /\ f.run = r /\ f.phase = "in" /\ f.at = Len(runs[r].calls)
    <2>1. r \in Nat
      BY <1>3, <1>5
    <2>2. PICK at \in Nat : at = Len(runs[r].calls)
      BY <1>5
    <2>3. PICK none \in SUBSET Nat : none = {}
      OBVIOUS
    <2> PICK raised \in Seq(Caught) : raised = <<>>
      <3>1. <<>> \in Seq(Caught)
        OBVIOUS
      <3> QED BY <3>1
    <2>4. f = [kind |-> "host", run |-> r, phase |-> "in", given |-> none, raised |-> raised, at |-> at]
      BY <2>2, <2>3, <1>7 DEF Frame
    <2> QED BY <2>1, <2>2, <2>4 DEF FrameOf
  <1>9. PICK u : u = Append(s, f)
    OBVIOUS
  <1>10. Topped(FrameOf, s, f, u)
    BY <1>8, <1>9, PushTopped
  <1>11. stack' = [stack EXCEPT ![g] = u]
    BY <1>2, <1>6, <1>7, <1>9 DEF CallBack
  <1>12. stack'[g] = u /\ u \in Seq(FrameOf)
    BY <1>10, <1>11 DEF IInv, TypeOK, Topped
  <1>13. Nested(u, runs, g, on[g]) /\ SameRuns(s, u)
    BY <1>3, <1>4, <1>5, <1>8, <1>10, HostNested
  <1>14. TypeOK'
    BY <1>11, <1>12 DEF IInv, TypeOK, CallBack, Answers, Told
  <1>15. Asks(asked'[g], raising'[g], stack'[g], runs')
    <2>1. Asks(asked[g], raising[g], s, runs)
      BY <1>2, Facts
    <2>2. asked[g] = 0 /\ raising[g] = Nothing
      BY <2>1, <1>3 DEF Asks, InCode
    <2>3. asked'[g] = 0 /\ raising'[g] = Nothing
      BY <2>2 DEF CallBack
    <2> QED BY <2>3 DEF Asks
  <1>16. Others(g)
    BY <1>11 DEF Others, CallBack, IInv, TypeOK
  <1>17. runs' = runs /\ reads' = reads /\ UNCHANGED <<on, locks, roots, scopes>>
    BY DEF CallBack
  <1>18. on[g] # None
    BY <1>2, <1>3 DEF IInv, Placed
  <1>19. SameRuns(stack[g], stack'[g]) /\ Nested(stack'[g], runs', g, on[g]) /\ Changes(g, runs, runs')
    BY <1>2, <1>3, <1>12, <1>13, <1>17
  <1> QED BY <1>14, <1>15, <1>16, <1>17, <1>18, <1>19, SameStep

\* The stack of g without its innermost frame f, which is a host's function.
LEMMA TopHost ==
    ASSUME IInv, NEW g \in Goroutine, stack[g] # <<>>, Top(g).kind = "host"
    PROVE  \E s, f, u :
            /\ u = stack[g] /\ s = Front(u) /\ f = Top(g) /\ Topped(FrameOf, s, f, u)
            /\ Nested(s, runs, g, on[g]) /\ SameRuns(u, s)
            /\ Len(s) \in Nat \ {0} /\ s # <<>> /\ s[Len(s)].kind = "call" /\ s[Len(s)].run = f.run
            /\ f.at = Nth(s, f.run, Len(s))
  <1>1. PICK u \in Seq(FrameOf) : u = stack[g]
    BY Facts
  <1>2. PICK s : s = Front(u)
    OBVIOUS
  <1>3. PICK f : f = Top(g)
    OBVIOUS
  <1>4. f = u[Len(u)]
    BY <1>1, <1>3 DEF Top, Last
  <1>5. Topped(FrameOf, s, f, u)
    BY <1>1, <1>2, <1>4, PopTopped
  <1>6. /\ Len(s) \in Nat /\ Len(u) = Len(s) + 1 /\ u[Len(s) + 1] = f
        /\ \A n : Nth(u, n, Len(s)) = Nth(s, n, Len(s))
    BY <1>5, OverIs
  <1>7. Nested(u, runs, g, on[g]) /\ Len(runs) \in Nat
    BY <1>1, Facts
  <1>8. Nested(s, runs, g, on[g]) /\ SameRuns(u, s)
    BY <1>3, <1>5, <1>7, HostLeavesNested
  <1>9. HostStands(u, Len(u))
    <2>1. Len(u) \in 1..Len(u)
      BY <1>6
    <2> QED BY <2>1, <1>3, <1>4, <1>7 DEF Nested, Stands
  <1>10. Len(s) # 0 /\ u[Len(s)].kind = "call" /\ u[Len(s)].run = f.run /\ f.at = Nth(u, f.run, Len(s))
    <2>1. Len(u) - 1 = Len(s)
      BY <1>6
    <2> QED BY <1>4, <1>6, <1>9, <2>1 DEF HostStands
  <1>11. Len(s) \in 1..Len(s) /\ s # <<>>
    BY <1>5, <1>6, <1>10 DEF Topped
  <1>12. u[Len(s)] = s[Len(s)]
    BY <1>5, <1>11 DEF Topped
  <1> QED BY <1>1, <1>2, <1>3, <1>5, <1>6, <1>8, <1>10, <1>11, <1>12

LEMMA HostAnswersStep ==
    ASSUME IInv, NEW g \in Goroutine, HostAnswers(g)
    PROVE  IInv'
  <1>1. stack[g] # <<>> /\ Top(g).kind = "host"
    BY DEF HostAnswers
  <1>2. PICK s, f, u :
            /\ u = stack[g] /\ s = Front(u) /\ f = Top(g) /\ Topped(FrameOf, s, f, u)
            /\ Nested(s, runs, g, on[g]) /\ SameRuns(u, s)
    BY <1>1, TopHost
  <1>3. stack' = [stack EXCEPT ![g] = s]
    BY <1>2 DEF HostAnswers
  <1>4. stack'[g] = s /\ s \in Seq(FrameOf)
    BY <1>2, <1>3 DEF IInv, TypeOK, Topped
  <1>5. TypeOK'
    BY <1>3, <1>4 DEF IInv, TypeOK, HostAnswers, Answers, Told
  <1>6. Asks(asked'[g], raising'[g], stack'[g], runs')
    <2>1. asked'[g] = 0 /\ raising'[g] = Nothing
      BY DEF HostAnswers, InHost
    <2> QED BY <2>1 DEF Asks
  <1>7. Others(g)
    BY <1>3 DEF Others, HostAnswers, IInv, TypeOK
  <1>8. runs' = runs /\ reads' = reads /\ UNCHANGED <<on, locks, roots, scopes>>
    BY DEF HostAnswers
  <1>9. on[g] # None
    BY <1>1 DEF IInv, Placed
  <1>10. SameRuns(stack[g], stack'[g]) /\ Nested(stack'[g], runs', g, on[g]) /\ Changes(g, runs, runs')
    BY <1>2, <1>4, <1>8, Facts
  <1> QED BY <1>5, <1>6, <1>7, <1>8, <1>9, <1>10, SameStep

LEMMA HostFailsStep ==
    ASSUME IInv, NEW g \in Goroutine, NEW caught \in Caught, HostFails(g, caught)
    PROVE  IInv'
  <1>1. stack[g] # <<>> /\ Top(g).kind = "host" /\ asked[g] = 0
    BY DEF HostFails
  <1>2. PICK s, f, u :
            /\ u = stack[g] /\ s = Front(u) /\ f = Top(g) /\ Topped(FrameOf, s, f, u)
            /\ Nested(s, runs, g, on[g]) /\ SameRuns(u, s)
            /\ Len(s) \in Nat \ {0} /\ s # <<>> /\ s[Len(s)].kind = "call" /\ s[Len(s)].run = f.run
            /\ f.at = Nth(s, f.run, Len(s))
    BY <1>1, TopHost
  <1>3. PICK r : r = s[Len(s)].run
    OBVIOUS
  <1>4. /\ r \in 1..Len(runs) /\ runs[r].by = g /\ Len(runs[r].calls) = Nth(s, r, Len(s))
        /\ Nth(s, r, Len(s)) \in Nat \ {0}
    BY <1>2, <1>3, TopCall
  <1>5. runs \in Seq(RunOf) /\ Len(runs) \in Nat /\ runs[r] \in RunOf
    BY <1>4, Facts
  <1>6. PICK calls \in Seq(Caught \cup {Nothing}) : calls = runs[r].calls
    BY <1>5 DEF RunOf
  <1>7. f.run = r /\ f.at = Len(calls) /\ Len(calls) \in 1..Len(calls)
    BY <1>2, <1>3, <1>4, <1>6
  <1>8. PICK kept \in Caught \cup {Nothing} : kept = KeptOf(calls[Len(calls)], caught)
    <2>1. calls[Len(calls)] \in Caught \cup {Nothing}
      BY <1>6, <1>7
    <2> QED BY <2>1 DEF KeptOf
  <1>9. PICK now : now = [calls EXCEPT ![Len(calls)] = kept]
    OBVIOUS
  <1>10. now \in Seq(Caught \cup {Nothing})
    BY <1>6, <1>7, <1>8, <1>9, ExceptSeq
  <1>11. PICK e : e = [runs[r] EXCEPT !.calls = now]
    OBVIOUS
  <1>12. /\ e \in RunOf /\ e.lib = runs[r].lib /\ e.thread = runs[r].thread /\ e.by = runs[r].by
         /\ e.child = runs[r].child /\ e.live = runs[r].live /\ e.calls = now /\ e.room = runs[r].room
    BY <1>5, <1>10, <1>11 DEF RunOf
  <1>13. runs' = [runs EXCEPT ![r] = e]
    <2>1. runs' = [runs EXCEPT ![f.run].calls[f.at] = KeptOf(@, caught)]
      BY <1>2 DEF HostFails
    <2> QED BY <2>1, <1>6, <1>7, <1>8, <1>9, <1>11
  <1>14. /\ runs' \in Seq(RunOf) /\ Len(runs') = Len(runs) /\ runs'[r] = e
         /\ \A m \in 1..Len(runs) : m # r => runs'[m] = runs[m]
    BY <1>4, <1>5, <1>12, <1>13, RunsExcept
  <1>15. CallsOf(runs, runs', r, now)
    BY <1>4, <1>5, <1>12, <1>14 DEF CallsOf
  <1>16. PICK top \in FrameOf : top = s[Len(s)]
    BY <1>2 DEF Topped
  <1>17. PICK raised \in Seq(Caught) : raised = Remembered(top.raised, caught)
    <2>1. PICK old \in Seq(Caught) : old = top.raised
      BY <1>16 DEF FrameOf
    <2>2. Append(old, caught) \in Seq(Caught)
      BY AppendIs
    <2> QED BY <2>1, <2>2 DEF Remembered
  <1>18. FirstOf(raised) = KeptOf(FirstOf(top.raised), caught)
    <2>1. PICK old \in Seq(Caught) : old = top.raised
      BY <1>16 DEF FrameOf
    <2>2. CASE old = <<>>
      <3>1. Len(old) = 0 /\ 0 < MaxRaised
        BY <2>2, BoundsAssumption
      <3>2. raised = Append(old, caught)
        BY <3>1, <2>1, <1>17 DEF Remembered
      <3>3. raised # <<>> /\ raised[1] = caught
        BY <3>1, <3>2
      <3> QED BY <2>1, <2>2, <3>3 DEF FirstOf, KeptOf
    <2>3. CASE old # <<>>
      <3>1. Len(old) \in Nat \ {0} /\ old[1] \in Caught
        BY <2>3
      <3>2. raised # <<>> /\ raised[1] = old[1]
        BY <3>1, <2>1, <1>17 DEF Remembered
      <3>3. old[1] # Nothing
        BY <3>1 DEF Caught, Nothing
      <3> QED BY <2>1, <2>3, <3>2, <3>3 DEF FirstOf, KeptOf
    <2> QED BY <2>2, <2>3
  <1>19. PICK last : last = [top EXCEPT !.raised = raised]
    OBVIOUS
  <1>20. /\ last \in FrameOf /\ last.kind = top.kind /\ last.run = top.run /\ last.phase = top.phase
         /\ last.given = top.given /\ last.at = top.at /\ last.raised = raised
    BY <1>16, <1>17, <1>19 DEF FrameOf
  <1>21. PICK w : w = [s EXCEPT ![Len(s)] = last]
    OBVIOUS
  <1>22. /\ w \in Seq(FrameOf) /\ Len(w) = Len(s) /\ w[Len(s)] = last
         /\ \A i \in 1..Len(s) : i # Len(s) => w[i] = s[i]
    <2>1. s \in Seq(FrameOf)
      BY <1>2 DEF Topped
    <2>2. PICK m \in 1..Len(s) : m = Len(s)
      BY <1>2
    <2>3. /\ [s EXCEPT ![m] = last] \in Seq(FrameOf) /\ Len([s EXCEPT ![m] = last]) = Len(s)
          /\ \A j \in 1..Len(s) : [s EXCEPT ![m] = last][j] = IF j = m THEN last ELSE s[j]
      BY <2>1, <1>20, ExceptSeq
    <2>4. w = [s EXCEPT ![m] = last]
      BY <2>2, <1>21
    <2> QED BY <2>2, <2>3, <2>4
  <1>23. stack' = [stack EXCEPT ![g] = w]
    <2>1. stack' = [stack EXCEPT ![g] = [s EXCEPT ![Len(s)].raised = Remembered(@, caught)]]
      BY <1>2 DEF HostFails
    <2> QED BY <2>1, <1>16, <1>17, <1>19, <1>21
  <1>24. stack'[g] = w
    BY <1>23 DEF IInv, TypeOK
  <1>25. Agree(s, w, Len(s)) /\ \A i \in 1..Len(s) : w[i].phase = s[i].phase
    BY <1>16, <1>20, <1>22 DEF Agree
  <1>26. Nested(w, runs', g, on[g]) /\ Changes(g, runs, runs') /\ SameRuns(s, w)
    <2>1. FirstOf(w[Len(s)].raised) = KeptOf(FirstOf(s[Len(s)].raised), caught)
      BY <1>16, <1>18, <1>20, <1>22
    <2>2. \A i \in 1..Len(s) : i # Len(s) => w[i].raised = s[i].raised
      <3>1. \A i \in 1..Len(s) : i # Len(s) => w[i] = s[i]
        BY <1>22, ZenonT(60)
      <3> QED BY <3>1, ZenonT(30)
    <2>3. CallsOf(runs, runs', s[Len(s)].run, now) /\ Keeps(runs[s[Len(s)].run].calls, now, caught)
      BY <1>3, <1>6, <1>8, <1>9, <1>15 DEF Keeps
    <2>4. Fails(s, w, caught)
      BY <1>2, <1>22, <1>25, <2>1, <2>2 DEF Fails
    <2> QED BY <1>2, <2>3, <2>4, FailNested
  <1>27. SameRuns(u, w)
    BY <1>2, <1>26, SameTwice
  <1>28. TypeOK'
    <2>1. raising' \in [Goroutine -> {Nothing, "panicked"}] /\ answer' \in [Goroutine -> Told]
      BY DEF IInv, TypeOK, HostFails, Answers, Told
    <2>2. stack' \in [Goroutine -> Seq(FrameOf)]
      BY <1>22, <1>23 DEF IInv, TypeOK
    <2>3. UNCHANGED <<on, locks, asked, roots, scopes, reads>>
      BY DEF HostFails
    <2> QED BY <1>14, <2>1, <2>2, <2>3 DEF IInv, TypeOK
  <1>29. Asks(asked'[g], raising'[g], stack'[g], runs')
    <2>1. asked'[g] = 0 /\ raising'[g] = Nothing
      BY DEF HostFails, IInv, TypeOK
    <2> QED BY <2>1 DEF Asks
  <1>30. Others(g)
    BY <1>23 DEF Others, HostFails, IInv, TypeOK
  <1>31. reads' = reads /\ UNCHANGED <<on, locks, roots, scopes>>
    BY DEF HostFails
  <1>32. on[g] # None
    BY <1>1 DEF IInv, Placed
  <1>33. \A m \in 1..Len(runs) : runs'[m].child = runs[m].child /\ (runs[m].room => runs'[m].room)
    BY <1>12, <1>14
  <1>34. SameRuns(stack[g], stack'[g]) /\ Nested(stack'[g], runs', g, on[g])
    BY <1>2, <1>24, <1>26, <1>27, SMTT(30)
  <1> QED BY <1>14, <1>26, <1>28, <1>29, <1>30, <1>31, <1>32, <1>33, <1>34, SameStep, SMTT(30)

\* The stack of g without its innermost frame f, which is a call of run r.
LEMMA TopOfCall ==
    ASSUME IInv, NEW g \in Goroutine, InLibrary(g)
    PROVE  \E s, f, u, r :
            /\ u = stack[g] /\ s = Front(u) /\ f = Top(g) /\ Topped(FrameOf, s, f, u) /\ r = f.run
            /\ f.kind = "call" /\ f = u[Len(u)] /\ Len(u) \in Nat \ {0} /\ InCode(s)
            /\ Nested(u, runs, g, on[g]) /\ asked[g] = 0 /\ raising[g] = Nothing /\ on[g] # None
            /\ r \in 1..Len(runs) /\ runs[r].by = g /\ runs[r].calls # <<>>
            /\ runs[r].calls \in Seq(Caught \cup {Nothing})
            /\ Last(runs[r].calls) = FirstOf(f.raised)
  <1>1. PICK u \in Seq(FrameOf) : u = stack[g]
    BY Facts
  <1>2. PICK s : s = Front(u)
    OBVIOUS
  <1>3. PICK f : f = Top(g)
    OBVIOUS
  <1>4. f = u[Len(u)] /\ u # <<>> /\ f.kind = "call"
    BY <1>1, <1>3 DEF Top, Last, InLibrary
  <1>5. Topped(FrameOf, s, f, u)
    BY <1>1, <1>2, <1>4, PopTopped
  <1>6. Len(s) \in Nat /\ Len(u) = Len(s) + 1
    BY <1>5, OverIs
  <1>7. Nested(u, runs, g, on[g]) /\ Len(runs) \in Nat /\ runs \in Seq(RunOf)
    BY <1>1, Facts
  <1>8. InCode(s)
    <2>1. SUFFICES ASSUME s # <<>> PROVE s[Len(s)].kind # "call"
      BY DEF InCode
    <2>2. Len(s) \in 1..Len(s)
      BY <1>5, <1>6, <2>1 DEF Topped
    <2>3. Stands(u, runs, g, on[g], Len(u)) /\ Len(u) > 1 /\ Len(u) - 1 = Len(s)
      BY <1>6, <1>7, <2>2 DEF Nested
    <2>4. u[Len(s)] = s[Len(s)]
      BY <1>5, <2>2 DEF Topped
    <2> QED BY <1>4, <2>3, <2>4 DEF Stands
  <1>9. Asks(asked[g], raising[g], u, runs)
    BY <1>1, Facts
  <1>10. asked[g] = 0 /\ raising[g] = Nothing
    BY <1>4, <1>9 DEF Asks, InCode
  <1>11. on[g] # None
    BY <1>1, <1>4 DEF IInv, Placed
  <1>12. PICK r : r = f.run
    OBVIOUS
  <1>13. /\ r \in 1..Len(runs) /\ runs[r].by = g
         /\ Len(runs[r].calls) \in Nat \ {0}
         /\ runs[r].calls[Len(runs[r].calls)] = FirstOf(u[Len(u)].raised)
    <2>1. Len(u) \in Nat \ {0} /\ u[Len(u)].kind = "call"
      BY <1>4, <1>6
    <2> QED BY <1>4, <1>7, <1>12, <2>1, TopCall
  <1>14. runs[r] \in RunOf
    BY <1>7, <1>13
  <1>15. PICK calls \in Seq(Caught \cup {Nothing}) : calls = runs[r].calls
    BY <1>14 DEF RunOf
  <1>16. calls # <<>> /\ Last(calls) = FirstOf(f.raised)
    BY <1>4, <1>13, <1>15 DEF Last
  <1>17. /\ u = stack[g] /\ s = Front(u) /\ f = Top(g) /\ Topped(FrameOf, s, f, u) /\ r = f.run
         /\ f.kind = "call" /\ f = u[Len(u)] /\ Len(u) \in Nat \ {0} /\ InCode(s)
         /\ Nested(u, runs, g, on[g]) /\ asked[g] = 0 /\ raising[g] = Nothing /\ on[g] # None
    BY <1>1, <1>2, <1>3, <1>4, <1>5, <1>6, <1>7, <1>8, <1>10, <1>11, <1>12
  <1>18. /\ r \in 1..Len(runs) /\ runs[r].by = g /\ runs[r].calls # <<>>
         /\ runs[r].calls \in Seq(Caught \cup {Nothing}) /\ Last(runs[r].calls) = FirstOf(f.raised)
    BY <1>13, <1>15, <1>16
  <1> QED BY <1>17, <1>18, SMTT(30)

LEMMA OutcomeIs ==
    ASSUME NEW status, NEW kept \in Caught \cup {Nothing}
    PROVE  /\ Outcome(status, kept) \in Told
           /\ kept # Nothing => Outcome(status, kept) = kept
           /\ kept = Nothing => Outcome(status, kept) \notin Caught
  <1>1. CASE kept # Nothing
    <2>1. Outcome(status, kept) = kept
      BY <1>1 DEF Outcome
    <2> QED BY <2>1, <1>1 DEF Told
  <1>2. CASE kept = Nothing
    BY <1>2, ZenonT(60) DEF Outcome, Told, Caught, Nothing
  <1> QED BY <1>1, <1>2

LEMMA ReturnStep ==
    ASSUME IInv, NEW g \in Goroutine, NEW status, Return(g, status)
    PROVE  IInv'
  <1>1. InLibrary(g)
    BY DEF Return
  <1>2. PICK s, f, u, r :
            /\ u = stack[g] /\ s = Front(u) /\ f = Top(g) /\ Topped(FrameOf, s, f, u) /\ r = f.run
            /\ f.kind = "call" /\ f = u[Len(u)] /\ Len(u) \in Nat \ {0} /\ InCode(s)
            /\ Nested(u, runs, g, on[g]) /\ asked[g] = 0 /\ raising[g] = Nothing /\ on[g] # None
            /\ r \in 1..Len(runs) /\ runs[r].by = g /\ runs[r].calls # <<>>
            /\ runs[r].calls \in Seq(Caught \cup {Nothing})
    BY <1>1, TopOfCall, SMTT(30)
  <1>3. runs \in Seq(RunOf) /\ Len(runs) \in Nat /\ runs[r] \in RunOf
    BY <1>2, Facts
  <1>4. PICK calls : calls = Front(runs[r].calls)
    BY SMTT(30)
  <1>5. calls \in Seq(Caught \cup {Nothing})
    BY <1>2, <1>4, FrontIs
  <1>6. PICK e : e = [runs[r] EXCEPT !.calls = calls]
    OBVIOUS
  <1>7. /\ e \in RunOf /\ e.lib = runs[r].lib /\ e.thread = runs[r].thread /\ e.by = runs[r].by
        /\ e.child = runs[r].child /\ e.live = runs[r].live /\ e.calls = calls /\ e.room = runs[r].room
    BY <1>3, <1>5, <1>6 DEF RunOf
  <1>8. runs' = [runs EXCEPT ![r] = e]
    BY <1>2, <1>4, <1>6 DEF Return, Dropped
  <1>9. /\ runs' \in Seq(RunOf) /\ Len(runs') = Len(runs) /\ runs'[r] = e
        /\ \A m \in 1..Len(runs) : m # r => runs'[m] = runs[m]
    <2>1. r \in 1..Len(runs)
      BY <1>2, ZenonT(60)
    <2> QED BY <2>1, <1>3, <1>7, <1>8, RunsExcept
  <1>10. CallsOf(runs, runs', f.run, Front(runs[f.run].calls))
    BY <1>2, <1>3, <1>4, <1>7, <1>9, ZenonT(60) DEF CallsOf
  <1>11. Nested(s, runs', g, on[g]) /\ Changes(g, runs, runs') /\ SameRuns(u, s)
    <2>1. Topped(FrameOf, s, f, u) /\ Nested(u, runs, g, on[g]) /\ f.kind = "call"
      BY <1>2, Zenon
    <2> QED BY <2>1, <1>10, ReturnNested
  <1>12. stack' = [stack EXCEPT ![g] = s]
    BY <1>2 DEF Return, Dropped
  <1>13. stack'[g] = s /\ s \in Seq(FrameOf)
    BY <1>2, <1>12 DEF IInv, TypeOK, Topped
  <1>14. PICK came \in Told : came = Outcome(status, Last(runs[Top(g).run].calls))
    <2>1. PICK old \in Seq(Caught \cup {Nothing}) : old = runs[r].calls /\ old # <<>>
      BY <1>2, Zenon
    <2>2. old[Len(old)] \in Caught \cup {Nothing}
      BY <2>1, SMTT(30)
    <2>3. Last(runs[Top(g).run].calls) \in Caught \cup {Nothing}
      BY <1>2, <2>1, <2>2 DEF Last
    <2> QED BY <2>3, OutcomeIs, Zenon
  <1>15. /\ raising' \in [Goroutine -> {Nothing, "panicked"}] /\ answer' \in [Goroutine -> Told]
         /\ \A h \in Goroutine : h # g => raising'[h] = raising[h]
    <2>1. IF came = "panicked" THEN Misused(g) /\ Answers(g, Nothing)
                               ELSE Answers(g, came) /\ UNCHANGED raising
      BY <1>14 DEF Return
    <2>2. Nothing \in Told
      BY DEF Told
    <2> QED BY <2>1, <2>2 DEF Misused, Answers, IInv, TypeOK
  <1>16. UNCHANGED <<on, locks, asked, roots, scopes, reads>>
    BY DEF Return
  <1>17. TypeOK'
    <2>1. stack' \in [Goroutine -> Seq(FrameOf)]
      BY <1>12, <1>13, Zenon DEF IInv, TypeOK
    <2> QED BY <1>9, <1>15, <1>16, <2>1, Zenon DEF IInv, TypeOK
  <1>18. Asks(asked'[g], raising'[g], stack'[g], runs')
    BY <1>2, <1>13, <1>16 DEF Asks
  <1>19. Others(g)
    BY <1>12, <1>15, <1>16 DEF Others, IInv, TypeOK
  <1>20. \A m \in 1..Len(runs) : runs'[m].child = runs[m].child /\ (runs[m].room => runs'[m].room)
    BY <1>7, <1>9, SMTT(30)
  <1>21. SameRuns(stack[g], stack'[g]) /\ Nested(stack'[g], runs', g, on[g])
    BY <1>2, <1>11, <1>13, SMTT(30)
  <1> QED BY <1>2, <1>9, <1>11, <1>16, <1>17, <1>18, <1>19, <1>20, <1>21, SameStep
-----------------------------------------------------------------------------
(* The end of a run, step by step.                                         *)

\* The innermost frame of g is of its run n, which has come to phase.
TopIs(s, rs, g, t, n, phase) ==
    /\ s \in Seq(FrameOf) /\ Len(s) \in Nat \ {0} /\ s[Len(s)] \in FrameOf
    /\ IsOpen(s, Len(s)) /\ s[Len(s)].phase = phase /\ s[Len(s)].run = n
    /\ rs \in Seq(RunOf) /\ Len(rs) \in Nat /\ n \in 1..Len(rs) /\ rs[n] \in RunOf
    /\ rs[n].by = g /\ rs[n].thread = t /\ t \in Thread /\ t # None
    /\ Nested(s, rs, g, t) /\ OfRuns(s, rs, g) /\ Len(rs[n].calls) = 0 /\ (rs[n].live <=> phase = "in")

LEMMA TopEnds ==
    ASSUME IInv, NEW g \in Goroutine, NEW phase, Ending(g, phase)
    PROVE  \E s, n : s = stack[g] /\ n = Top(g).run /\ TopIs(s, runs, g, on[g], n, phase) /\ Top(g) = s[Len(s)]
  <1>1. PICK s \in Seq(FrameOf) : s = stack[g]
    BY Facts
  <1>2. PICK n : n = Top(g).run
    OBVIOUS
  <1>3. /\ Len(s) \in Nat \ {0} /\ Top(g) = s[Len(s)] /\ s[Len(s)].kind \in Opened
        /\ s[Len(s)].phase = phase /\ s # <<>>
    BY <1>1 DEF Ending, Top, Last
  <1>4. /\ runs \in Seq(RunOf) /\ Len(runs) \in Nat /\ Nested(s, runs, g, on[g]) /\ OfRuns(s, runs, g)
    BY <1>1, Facts
  <1>5. IsOpen(s, Len(s)) /\ s[Len(s)] \in FrameOf
    BY <1>1, <1>3 DEF IsOpen
  <1>6. /\ n \in 1..Len(runs) /\ runs[n].by = g /\ runs[n].thread = on[g]
        /\ Len(runs[n].calls) = 0 /\ (runs[n].live <=> phase = "in")
    BY <1>2, <1>3, <1>4, <1>5, TopRun
  <1>7. runs[n] \in RunOf
    BY <1>4, <1>6
  <1>8. on[g] # None /\ on[g] \in Thread
    BY <1>1, <1>3 DEF IInv, Placed, TypeOK
  <1> QED BY <1>1, <1>2, <1>3, <1>4, <1>5, <1>6, <1>7, <1>8 DEF TopIs

LEMMA ComesToIs ==
    ASSUME IInv, NEW g \in Goroutine, NEW s, s = stack[g], NEW n, NEW t, NEW old, TopIs(s, runs, g, t, n, old),
           NEW phase \in {"in", "expired", "closed", "refused", "ended", "left"}, ComesTo(g, phase)
    PROVE  /\ stack' \in [Goroutine -> Seq(FrameOf)] /\ \A h \in Goroutine : h # g => stack'[h] = stack[h]
           /\ Comes(s, stack'[g], phase) /\ IsOpen(stack'[g], Len(stack'[g]))
  <1>1. /\ s \in Seq(FrameOf) /\ Len(s) \in Nat \ {0} /\ s[Len(s)] \in FrameOf /\ IsOpen(s, Len(s))
    BY DEF TopIs
  <1>2. PICK m \in 1..Len(s) : m = Len(s)
    BY <1>1
  <1>3. PICK top \in FrameOf : top = s[m]
    BY <1>1, <1>2
  <1>4. PICK e : e = [top EXCEPT !.phase = phase]
    OBVIOUS
  <1>5. /\ e \in FrameOf /\ e.kind = top.kind /\ e.run = top.run /\ e.phase = phase
        /\ e.given = top.given /\ e.at = top.at /\ e.raised = top.raised
    BY <1>3, <1>4, SMTT(30) DEF FrameOf
  <1>6. PICK w : w = [s EXCEPT ![m] = e]
    OBVIOUS
  <1>7. stack' = [stack EXCEPT ![g] = w]
    <2>1. stack' = [stack EXCEPT ![g][m].phase = phase]
      BY <1>2 DEF ComesTo, Height
    <2> QED BY <2>1, <1>3, <1>4, <1>6
  <1>8. /\ [s EXCEPT ![m] = e] \in Seq(FrameOf) /\ Len([s EXCEPT ![m] = e]) = Len(s)
        /\ \A j \in 1..Len(s) : [s EXCEPT ![m] = e][j] = IF j = m THEN e ELSE s[j]
    BY <1>1, <1>5, ExceptSeq
  <1>9. /\ w \in Seq(FrameOf) /\ Len(w) = Len(s) /\ w[m] = e
        /\ \A j \in 1..Len(s) : j # m => w[j] = s[j]
    BY <1>6, <1>8
  <1>10. stack'[g] = w
    BY <1>7 DEF IInv, TypeOK
  <1>11. Comes(s, w, phase)
    <2>1. Agree(s, w, Len(s))
      BY <1>3, <1>5, <1>9 DEF Agree
    <2> QED BY <2>1, <1>1, <1>2, <1>3, <1>5, <1>9, Zenon DEF Comes
  <1>12. IsOpen(w, Len(w))
    BY <1>1, <1>2, <1>3, <1>5, <1>9 DEF IsOpen
  <1>13. stack' \in [Goroutine -> Seq(FrameOf)] /\ \A h \in Goroutine : h # g => stack'[h] = stack[h]
    BY <1>7, <1>9 DEF IInv, TypeOK
  <1> QED BY <1>10, <1>11, <1>12, <1>13

\* Root runs are the same ones where none is left.
LEMMA ComesRooted ==
    ASSUME NEW s, NEW w, NEW phase, Comes(s, w, phase), phase # "left", s[Len(s)].phase # "left",
           NEW rs, NEW qs, NEW h, Changes(h, rs, qs), OfRuns(s, rs, h), NEW l
    PROVE  (\E i \in 1..Len(w) : RootedAt(w, qs, l, i)) <=> \E i \in 1..Len(s) : RootedAt(s, rs, l, i)
  <1>1. Len(w) = Len(s) /\ Len(s) \in Nat \ {0}
    BY DEF Comes
  <1>2. ASSUME NEW i \in 1..Len(s) PROVE RootedAt(w, qs, l, i) <=> RootedAt(s, rs, l, i)
    <2>1. w[i].kind = s[i].kind /\ w[i].run = s[i].run /\ (w[i].phase # "left" <=> s[i].phase # "left")
      BY <1>1 DEF Comes, Agree
    <2>2. s[i].run \in 1..Len(rs)
      BY DEF OfRuns
    <2>3. qs[s[i].run].lib = rs[s[i].run].lib
      BY <2>2, Zenon DEF Changes
    <2> QED BY <2>1, <2>3 DEF RootedAt
  <1> QED BY <1>1, <1>2

\* The innermost run of g comes to phase: what is left to show.
LEMMA ComesStep ==
    ASSUME IInv, TypeOK', NEW g \in Goroutine, Others(g), UNCHANGED <<on, locks, asked>>, asked[g] = 0,
           NEW s, s = stack[g], NEW n, NEW old, TopIs(s, runs, g, on[g], n, old),
           NEW w, stack'[g] = w, NEW phase, Comes(s, w, phase), phase # "in", IsOpen(w, Len(w)),
           Ends(runs, runs', n), ~runs'[n].live, phase = "left" => s[Len(s)].kind = "run",
           \A t \in Thread : t # on[g] => scopes'[t] = scopes[t],
           \A l \in Lib : Fits(scopes'[on[g]][l], w, runs', l),
           \A l \in Lib : \A t \in Thread : t # on[g] => (Has(roots', l, t) <=> Has(roots, l, t)),
           \A i, j \in 1..Len(roots') : roots'[i] = roots'[j] => i = j,
           \A l \in Lib : Has(roots', l, on[g]) <=> \E i \in 1..Len(w) : RootedAt(w, runs', l, i),
           \A r \in reads' : r \in reads /\ (runs[r.room].by = g => runs'[r.room].room /\ ReadStands(r, w))
    PROVE  IInv'
  <1>1. /\ n = s[Len(s)].run /\ IsOpen(s, Len(s)) /\ Nested(s, runs, g, on[g]) /\ on[g] # None
        /\ Len(runs) \in Nat /\ Len(s) \in Nat \ {0}
    BY DEF TopIs
  <1>2. Nested(w, runs', g, on[g]) /\ Changes(g, runs, runs') /\ SameOpen(s, w)
    <2>1. PICK qs : qs = runs'
      BY Zenon
    <2>2. Ends(runs, qs, s[Len(s)].run) /\ ~qs[s[Len(s)].run].live
      BY <1>1, <2>1
    <2>3. Nested(s, runs, g, on[g]) /\ IsOpen(s, Len(s))
      BY <1>1
    <2>4. Comes(s, w, phase) /\ phase # "in" /\ (phase = "left" => s[Len(s)].kind = "run")
      OBVIOUS
    <2>5. Nested(w, qs, g, on[g]) /\ Changes(g, runs, qs) /\ SameOpen(s, w)
      BY <2>2, <2>3, <2>4, EndsNested, SMTT(60)
    <2> QED BY <2>1, <2>5
  <1>3. Roots(w, Len(w)) = Roots(s, Len(s))
    BY <1>2, RootsStays
  <1>4. locks'[g] = Roots(w, Len(w))
    BY <1>3 DEF IInv, Placed
  <1>5. ChildrenLater(runs')
    <2>1. ChildrenLater(runs)
      BY DEF IInv
    <2>2. /\ Len(runs') = Len(runs)
          /\ \A m \in 1..Len(runs) : runs'[m].child = runs[m].child /\ runs'[m].by = runs[m].by
      BY DEF Ends
    <2> QED BY <1>1, <2>1, <2>2, SMTT(60) DEF ChildrenLater
  <1>6. Asks(asked'[g], raising'[g], w, runs')
    <2>1. InCode(w)
      BY DEF InCode, IsOpen, Opened
    <2> QED BY <2>1 DEF Asks
  <1>7. OnlyOf(g)
    <2>1. ASSUME NEW r \in reads', runs[r.room].by = g
          PROVE  r.room \in 1..Len(runs') /\ runs'[r.room].by = g /\ runs'[r.room].room /\ ReadStands(r, stack'[g])
      <3>1. r \in reads /\ runs'[r.room].room /\ ReadStands(r, w)
        BY <2>1
      <3>2. r.room \in 1..Len(runs)
        BY <3>1 DEF IInv, ReadsStand
      <3> QED BY <2>1, <3>1, <3>2, <1>2 DEF Changes, Ends
    <2>2. \A r \in reads' : (r \in reads /\ runs[r.room].by # g)
                         \/ /\ r.room \in 1..Len(runs') /\ runs'[r.room].by = g /\ runs'[r.room].room
                            /\ ReadStands(r, stack'[g])
      BY <2>1
    <2> QED BY <1>2, <2>2 DEF OnlyOf, Others
  <1> QED BY <1>1, <1>2, <1>4, <1>5, <1>6, <1>7, StepOf

\* Nothing but the end of a run is asked for or panics where one is ending.
LEMMA EndingAsks ==
    ASSUME IInv, NEW g \in Goroutine, NEW phase, Ending(g, phase), phase # "in"
    PROVE  asked[g] = 0
  <1>1. PICK s, n : s = stack[g] /\ TopIs(s, runs, g, on[g], n, phase)
    BY TopEnds
  <1>2. Asks(asked[g], raising[g], s, runs)
    BY <1>1, Facts
  <1>3. s # <<>> /\ s[Len(s)].phase # "in"
    BY <1>1 DEF TopIs
  <1> QED BY <1>2, <1>3 DEF Asks

\* Where the roots stay as they are.
LEMMA SameRoots ==
    ASSUME IInv, NEW g \in Goroutine, roots' = roots, on[g] # None, NEW s, s = stack[g],
           NEW w, NEW phase, Comes(s, w, phase), phase # "left", s[Len(s)].phase # "left",
           Changes(g, runs, runs'), OfRuns(s, runs, g)
    PROVE  /\ \A l \in Lib : \A t \in Thread : t # on[g] => (Has(roots', l, t) <=> Has(roots, l, t))
           /\ \A i, j \in 1..Len(roots') : roots'[i] = roots'[j] => i = j
           /\ \A l \in Lib : Has(roots', l, on[g]) <=> \E i \in 1..Len(w) : RootedAt(w, runs', l, i)
  <1>1. \A i, j \in 1..Len(roots') : roots'[i] = roots'[j] => i = j
    BY DEF IInv, RootsFollow
  <1>2. ASSUME NEW l \in Lib
        PROVE  Has(roots', l, on[g]) <=> \E i \in 1..Len(w) : RootedAt(w, runs', l, i)
    <2>1. Has(roots, l, on[g]) <=> \E i \in 1..Len(s) : RootedAt(s, runs, l, i)
      BY DEF IInv, RootsFollow
    <2>2. (\E i \in 1..Len(w) : RootedAt(w, runs', l, i)) <=> \E i \in 1..Len(s) : RootedAt(s, runs, l, i)
      <3>1. PICK qs : qs = runs'
        OBVIOUS
      <3>2. Changes(g, runs, qs)
        BY <3>1
      <3>3. (\E i \in 1..Len(w) : RootedAt(w, qs, l, i)) <=> \E i \in 1..Len(s) : RootedAt(s, runs, l, i)
        BY <3>2, ComesRooted
      <3> QED BY <3>1, <3>3
    <2> QED BY <2>1, <2>2
  <1> QED BY <1>1, <1>2

\* Of run n, all is as it was but whether it is live, its room and its calls.
LEMMA EndsOf ==
    ASSUME NEW s, NEW g, NEW t, NEW rs, NEW n, NEW old, TopIs(s, rs, g, t, n, old),
           NEW e, NEW qs, qs \in Seq(RunOf), Len(qs) = Len(rs), qs[n] = e,
           \A m \in 1..Len(rs) : m # n => qs[m] = rs[m],
           e.lib = rs[n].lib, e.thread = rs[n].thread, e.by = rs[n].by, e.child = rs[n].child,
           Len(e.calls) = 0
    PROVE  Ends(rs, qs, n) /\ Changes(g, rs, qs)
  <1>1. rs \in Seq(RunOf) /\ Len(rs) \in Nat /\ n \in 1..Len(rs) /\ rs[n].by = g
    BY DEF TopIs
  <1>2. Ends(rs, qs, n)
    BY <1>1 DEF Ends
  <1>3. Changes(g, rs, qs)
    BY <1>1 DEF Changes
  <1> QED BY <1>2, <1>3

LEMMA ExpireStep ==
    ASSUME IInv, NEW g \in Goroutine, Expire(g)
    PROVE  IInv'
  <1>1. Ending(g, "in") /\ asked[g] = 0 /\ ComesTo(g, "expired")
    BY DEF Expire
  <1>2. PICK s, n : s = stack[g] /\ n = Top(g).run /\ TopIs(s, runs, g, on[g], n, "in")
    BY <1>1, TopEnds
  <1>3. PICK phase \in {"in", "expired", "closed", "refused", "ended", "left"} : phase = "expired"
    OBVIOUS
  <1>4. /\ stack' \in [Goroutine -> Seq(FrameOf)] /\ \A h \in Goroutine : h # g => stack'[h] = stack[h]
        /\ Comes(s, stack'[g], phase) /\ IsOpen(stack'[g], Len(stack'[g]))
    <2>1. ComesTo(g, phase)
      BY <1>1, <1>3
    <2> QED BY <1>2, <2>1, ComesToIs
  <1> PICK w : w = stack'[g]
    OBVIOUS
  <1>5. /\ s[Len(s)].phase = "in" /\ on[g] # None /\ OfRuns(s, runs, g) /\ runs[n] \in RunOf
        /\ Len(runs[n].calls) = 0 /\ on[g] \in Thread
    BY <1>2 DEF TopIs
  <1>6. PICK e : e = [runs[n] EXCEPT !.live = FALSE]
    OBVIOUS
  <1>7. /\ e \in RunOf /\ e.lib = runs[n].lib /\ e.thread = runs[n].thread /\ e.by = runs[n].by
        /\ e.child = runs[n].child /\ ~e.live /\ e.calls = runs[n].calls /\ e.room = runs[n].room
    BY <1>5, <1>6 DEF RunOf
  <1>8. runs' = [runs EXCEPT ![n] = e]
    BY <1>2, <1>6 DEF Expire
  <1>9. /\ runs' \in Seq(RunOf) /\ Ends(runs, runs', n) /\ Changes(g, runs, runs') /\ runs'[n] = e
        /\ \A m \in 1..Len(runs) : m # n => runs'[m] = runs[m]
    <2>1. Len(e.calls) = 0 /\ n \in 1..Len(runs) /\ runs \in Seq(RunOf)
      BY <1>2, <1>5, <1>7 DEF TopIs
    <2>2. /\ runs' \in Seq(RunOf) /\ Len(runs') = Len(runs) /\ runs'[n] = e
          /\ \A m \in 1..Len(runs) : m # n => runs'[m] = runs[m]
      BY <2>1, <1>7, <1>8, RunsExcept
    <2>3. TopIs(s, runs, g, on[g], n, "in")
      BY <1>2
    <2> QED BY <1>7, <2>1, <2>2, <2>3, EndsOf
  <1>10. UNCHANGED <<on, locks, asked, raising, roots, scopes, reads>>
    BY DEF Expire
  <1>11. TypeOK'
    <2>1. answer' \in [Goroutine -> Told]
      BY DEF Expire, Answers, IInv, TypeOK, Told
    <2> QED BY <1>4, <1>9, <1>10, <2>1 DEF IInv, TypeOK
  <1>12. Others(g)
    BY <1>4, <1>10 DEF Others, IInv, TypeOK
  <1>13. ASSUME NEW l \in Lib PROVE Fits(scopes'[on[g]][l], w, runs', l)
    <2>1. Fits(scopes[on[g]][l], s, runs, l)
      BY <1>2, <1>5 DEF IInv, ScopesFollow
    <2>2. phase \in {"in", "expired"} /\ s[Len(s)].phase \in {"in", "expired"}
      BY <1>3, <1>5
    <2>3. Fits(scopes[on[g]][l], w, runs', l)
      BY <1>4, <1>5, <1>9, <2>1, <2>2, ComesFits
    <2> QED BY <2>3, <1>10
  <1>14. /\ \A l \in Lib : \A t \in Thread : t # on[g] => (Has(roots', l, t) <=> Has(roots, l, t))
         /\ \A i, j \in 1..Len(roots') : roots'[i] = roots'[j] => i = j
         /\ \A l \in Lib : Has(roots', l, on[g]) <=> \E i \in 1..Len(w) : RootedAt(w, runs', l, i)
    <2>1. phase # "left" /\ s[Len(s)].phase # "left" /\ roots' = roots
      BY <1>3, <1>5, <1>10
    <2> QED BY <1>2, <1>4, <1>5, <1>9, <2>1, SameRoots
  <1>15. ASSUME NEW r \in reads'
         PROVE  r \in reads /\ (runs[r.room].by = g => runs'[r.room].room /\ ReadStands(r, w))
    <2>1. r \in reads
      BY <1>10
    <2>2. r.room \in 1..Len(runs) /\ runs[r.room].room /\ (runs[r.room].by = g => ReadStands(r, s))
      BY <2>1, <1>2 DEF IInv, ReadsStand
    <2>3. runs'[r.room].room
      BY <2>2, <1>7, <1>9
    <2>4. phase \in {"in", "expired"}
      BY <1>3
    <2>5. ReadStands(r, s) => ReadStands(r, w)
      BY <1>4, <2>4, ComesRead
    <2> QED BY <2>1, <2>2, <2>3, <2>5
  <1>16. phase \notin {"in", "left"} /\ ~runs'[n].live /\ asked[g] = 0 /\ \A t \in Thread : t # on[g] => scopes'[t] = scopes[t]
    BY <1>1, <1>3, <1>7, <1>9, <1>10
  <1>17. UNCHANGED <<on, locks, asked>>
    BY <1>10
  <1> QED BY <1>2, <1>4, <1>9, <1>11, <1>12, <1>13, <1>14, <1>15, <1>16, <1>17, ComesStep

\* The scope of a run that has expired is the innermost of its arena: no close is
\* refused.
LEMMA ClosesItsOwn ==
    ASSUME IInv, NEW g \in Goroutine, NEW s, s = stack[g], NEW n, TopIs(s, runs, g, on[g], n, "expired")
    PROVE  /\ scopes[on[g]][runs[n].lib] \in Seq(Nat) /\ scopes[on[g]][runs[n].lib] # <<>>
           /\ Last(scopes[on[g]][runs[n].lib]) = n /\ runs[n].lib \in Lib
           /\ StandingAt(s, runs, runs[n].lib, Len(s))
  <1>1. /\ on[g] \in Thread /\ on[g] # None /\ runs[n] \in RunOf /\ Len(s) \in Nat \ {0} /\ Len(runs) \in Nat
        /\ Nested(s, runs, g, on[g]) /\ IsOpen(s, Len(s)) /\ s[Len(s)].phase = "expired" /\ s[Len(s)].run = n
    BY DEF TopIs
  <1>2. PICK l \in Lib : l = runs[n].lib
    BY <1>1 DEF RunOf
  <1>3. scopes[on[g]][l] \in Seq(Nat)
    BY <1>1 DEF IInv, TypeOK
  <1>4. PICK up \in Seq(Nat) : up = scopes[on[g]][l]
    BY <1>3
  <1>5. Fits(up, s, runs, l)
    BY <1>1, <1>4 DEF IInv, ScopesFollow
  <1>6. StandingAt(s, runs, l, Len(s))
    BY <1>1, <1>2 DEF StandingAt, OpenOf
  <1>7. PICK i \in 1..Len(s) : i = Len(s)
    BY <1>1
  <1>8. \A j \in (i + 1)..Len(s) : ~OpenOf(s, runs, j, l)
    BY <1>1, <1>7
  <1>9. StandingAt(s, runs, l, i) /\ Len(s) \in Nat
    BY <1>1, <1>6, <1>7
  <1>10. up # <<>> /\ up[Len(up)] = s[i].run
    BY <1>1, <1>5, <1>8, <1>9, FitsLast, SMTT(30)
  <1> QED BY <1>1, <1>2, <1>4, <1>6, <1>7, <1>10 DEF Last

LEMMA CloseScopeStep ==
    ASSUME IInv, NEW g \in Goroutine, CloseScope(g)
    PROVE  IInv'
  <1>1. Ending(g, "expired")
    BY DEF CloseScope
  <1>2. PICK s, n : s = stack[g] /\ n = Top(g).run /\ TopIs(s, runs, g, on[g], n, "expired")
    BY <1>1, TopEnds
  <1>3. PICK l, t : l = runs[n].lib /\ t = on[g]
    OBVIOUS
  <1>4. PICK up : up = scopes[t][l]
    BY SMTT(30)
  <1>5. up \in Seq(Nat) /\ up # <<>> /\ Last(up) = n /\ l \in Lib /\ StandingAt(s, runs, l, Len(s))
    BY <1>2, <1>3, <1>4, ClosesItsOwn, SMTT(30)
  <1>6. /\ scopes' = [scopes EXCEPT ![t][l] = Front(@)]
        /\ reads' = {r \in reads : r.scope # n}
        /\ ComesTo(g, "closed")
    BY <1>2, <1>3, <1>4, <1>5 DEF CloseScope
  <1>7. UNCHANGED <<on, locks, asked, raising, answer, roots, runs>>
    BY DEF CloseScope
  <1>8. PICK phase \in {"in", "expired", "closed", "refused", "ended", "left"} : phase = "closed"
    OBVIOUS
  <1>9. /\ stack' \in [Goroutine -> Seq(FrameOf)] /\ \A h \in Goroutine : h # g => stack'[h] = stack[h]
        /\ Comes(s, stack'[g], phase) /\ IsOpen(stack'[g], Len(stack'[g]))
    <2>1. ComesTo(g, phase)
      BY <1>6, <1>8
    <2> QED BY <1>2, <2>1, ComesToIs
  <1> PICK w : w = stack'[g]
    OBVIOUS
  <1>10. /\ s[Len(s)].phase = "expired" /\ s[Len(s)].run = n /\ t # None /\ t \in Thread
         /\ OfRuns(s, runs, g) /\ n \in 1..Len(runs)
         /\ runs \in Seq(RunOf) /\ Len(runs) \in Nat /\ ~runs[n].live /\ Nested(s, runs, g, t)
         /\ TopIs(s, runs, g, t, n, "expired")
    BY <1>2, <1>3 DEF TopIs
  <1>11. PICK now : now = Front(up)
    OBVIOUS
  <1>12. now \in Seq(Nat)
    BY <1>5, <1>11, FrontIs
  <1>13. /\ scopes' \in [Thread -> [Lib -> Seq(Nat)]]
         /\ \A u \in Thread : u # t => scopes'[u] = scopes[u]
         /\ scopes'[t][l] = now /\ \A k \in Lib : k # l => scopes'[t][k] = scopes[t][k]
    <2>1. scopes \in [Thread -> [Lib -> Seq(Nat)]]
      BY DEF IInv, TypeOK
    <2>2. scopes' = [scopes EXCEPT ![t] = [scopes[t] EXCEPT ![l] = now]]
      BY <1>4, <1>6, <1>11
    <2>3. [scopes[t] EXCEPT ![l] = now] \in [Lib -> Seq(Nat)]
      BY <2>1, <1>5, <1>10, <1>12
    <2> QED BY <2>1, <2>2, <2>3, <1>5, <1>10
  <1>14. TypeOK'
    <2>1. reads' \in SUBSET ReadOf
      BY <1>6 DEF IInv, TypeOK
    <2> QED BY <1>7, <1>9, <1>13, <2>1 DEF IInv, TypeOK
  <1>15. Others(g)
    BY <1>7, <1>9 DEF Others
  <1>16. Ends(runs, runs', n) /\ Changes(g, runs, runs') /\ ~runs'[n].live
    <2>1. Ends(runs, runs, n)
      BY <1>10 DEF Ends
    <2>2. Changes(g, runs, runs)
      BY <1>10, SameChanges
    <2> QED BY <1>7, <1>10, <2>1, <2>2
  <1>17. ASSUME NEW k \in Lib PROVE Fits(scopes'[on[g]][k], w, runs', k)
    <2>1. PICK old \in Seq(Nat) : old = scopes[t][k]
      BY <1>10 DEF IInv, TypeOK
    <2>2. Fits(old, s, runs, k)
      BY <1>2, <1>3, <1>10, <2>1 DEF IInv, ScopesFollow
    <2>3. PICK left : left = scopes'[t][k]
      OBVIOUS
    <2>4. left = IF k = l THEN Front(old) ELSE old
      BY <1>4, <1>11, <1>13, <2>1, <2>3
    <2>5. Comes(s, w, "closed")
      BY <1>8, <1>9
    <2>6. Fits(left, w, runs, k)
      BY <1>5, <1>10, <2>2, <2>4, <2>5, CloseFits
    <2> QED BY <2>3, <2>6, <1>3, <1>7
  <1>18. /\ \A k \in Lib : \A u \in Thread : u # on[g] => (Has(roots', k, u) <=> Has(roots, k, u))
         /\ \A i, j \in 1..Len(roots') : roots'[i] = roots'[j] => i = j
         /\ \A k \in Lib : Has(roots', k, on[g]) <=> \E i \in 1..Len(w) : RootedAt(w, runs', k, i)
    <2>1. phase # "left" /\ s[Len(s)].phase # "left" /\ roots' = roots /\ on[g] # None
      BY <1>3, <1>7, <1>8, <1>10
    <2> QED BY <1>2, <1>9, <1>10, <1>16, <2>1, SameRoots
  <1>19. ASSUME NEW r \in reads'
         PROVE  r \in reads /\ (runs[r.room].by = g => runs'[r.room].room /\ ReadStands(r, w))
    <2>1. r \in reads /\ r.scope # n
      BY <1>6
    <2>2. r.room \in 1..Len(runs) /\ runs[r.room].room /\ (runs[r.room].by = g => ReadStands(r, s))
      BY <2>1, <1>2 DEF IInv, ReadsStand
    <2>3. r.scope # s[Len(s)].run
      BY <2>1, <1>10
    <2>4. ReadStands(r, s) => ReadStands(r, w)
      BY <1>9, <2>3, ComesRead
    <2> QED BY <2>1, <2>2, <2>4, <1>7
  <1>20. phase \notin {"in", "left"} /\ asked[g] = 0 /\ \A u \in Thread : u # on[g] => scopes'[u] = scopes[u]
    BY <1>1, <1>3, <1>8, <1>13, EndingAsks
  <1>21. UNCHANGED <<on, locks, asked>>
    BY <1>7
  <1> QED BY <1>2, <1>9, <1>14, <1>15, <1>16, <1>17, <1>18, <1>19, <1>20, <1>21, ComesStep, ZenonT(60)

LEMMA ReleaseStep ==
    ASSUME IInv, NEW g \in Goroutine, Release(g)
    PROVE  IInv'
  <1>1. PICK old : old \in {"closed", "refused"} /\ Ending(g, old)
    BY DEF Release
  <1>2. PICK s, n : s = stack[g] /\ n = Top(g).run /\ TopIs(s, runs, g, on[g], n, old)
    BY <1>1, TopEnds
  <1>3. PICK phase \in {"in", "expired", "closed", "refused", "ended", "left"} : phase = "ended"
    OBVIOUS
  <1>4. /\ stack' \in [Goroutine -> Seq(FrameOf)] /\ \A h \in Goroutine : h # g => stack'[h] = stack[h]
        /\ Comes(s, stack'[g], phase) /\ IsOpen(stack'[g], Len(stack'[g]))
    <2>1. ComesTo(g, phase)
      BY <1>3 DEF Release
    <2> QED BY <1>2, <2>1, ComesToIs
  <1> PICK w : w = stack'[g]
    OBVIOUS
  <1>5. /\ s[Len(s)].phase = old /\ on[g] # None /\ OfRuns(s, runs, g) /\ runs[n] \in RunOf
        /\ on[g] \in Thread /\ ~runs[n].live /\ n \in 1..Len(runs) /\ runs \in Seq(RunOf)
        /\ Len(s) \in Nat \ {0} /\ Len(runs) \in Nat /\ Nested(s, runs, g, on[g])
        /\ IsOpen(s, Len(s)) /\ n = s[Len(s)].run
    BY <1>1, <1>2 DEF TopIs
  <1>6. PICK none \in Seq(Caught \cup {Nothing}) : none = <<>>
    <2>1. <<>> \in Seq(Caught \cup {Nothing})
      OBVIOUS
    <2> QED BY <2>1
  <1>7. PICK e : e = [runs[n] EXCEPT !.room = FALSE, !.calls = none]
    OBVIOUS
  <1>8. /\ e \in RunOf /\ e.lib = runs[n].lib /\ e.thread = runs[n].thread /\ e.by = runs[n].by
        /\ e.child = runs[n].child /\ e.live = runs[n].live /\ e.calls = none
    BY <1>5, <1>7 DEF RunOf
  <1>9. runs' = [runs EXCEPT ![n] = e]
    BY <1>2, <1>6, <1>7 DEF Release
  <1>10. /\ runs' \in Seq(RunOf) /\ Len(runs') = Len(runs) /\ runs'[n] = e
         /\ \A m \in 1..Len(runs) : m # n => runs'[m] = runs[m]
    BY <1>5, <1>8, <1>9, RunsExcept
  <1>11. Ends(runs, runs', n) /\ Changes(g, runs, runs')
    <2>1. Len(e.calls) = 0
      BY <1>6, <1>8
    <2>2. TopIs(s, runs, g, on[g], n, old)
      BY <1>2
    <2> QED BY <1>8, <1>10, <2>1, <2>2, EndsOf
  <1>12. UNCHANGED <<on, locks, asked, answer, roots, scopes, reads>>
    BY DEF Release
  <1>13. /\ raising' \in [Goroutine -> {Nothing, "panicked"}]
         /\ \A h \in Goroutine : h # g => raising'[h] = raising[h]
    BY DEF Release, Misused, IInv, TypeOK
  <1>14. TypeOK'
    BY <1>4, <1>10, <1>12, <1>13 DEF IInv, TypeOK
  <1>15. Others(g)
    BY <1>4, <1>12, <1>13 DEF Others
  <1>16. ASSUME NEW l \in Lib PROVE Fits(scopes'[on[g]][l], w, runs', l)
    <2>1. Fits(scopes[on[g]][l], s, runs, l)
      BY <1>2, <1>5 DEF IInv, ScopesFollow
    <2>2. phase \notin {"in", "expired"} /\ s[Len(s)].phase \notin {"in", "expired"}
      BY <1>1, <1>3, <1>5
    <2>3. Fits(scopes[on[g]][l], w, runs', l)
      BY <1>4, <1>5, <1>11, <2>1, <2>2, ComesFits, SMTT(60)
    <2> QED BY <2>3, <1>12
  <1>17. /\ \A l \in Lib : \A t \in Thread : t # on[g] => (Has(roots', l, t) <=> Has(roots, l, t))
         /\ \A i, j \in 1..Len(roots') : roots'[i] = roots'[j] => i = j
         /\ \A l \in Lib : Has(roots', l, on[g]) <=> \E i \in 1..Len(w) : RootedAt(w, runs', l, i)
    <2>1. phase # "left" /\ s[Len(s)].phase # "left" /\ roots' = roots
      BY <1>1, <1>3, <1>5, <1>12
    <2> QED BY <1>2, <1>4, <1>5, <1>11, <2>1, SameRoots
  <1>18. ASSUME NEW r \in reads'
         PROVE  r \in reads /\ (runs[r.room].by = g => runs'[r.room].room /\ ReadStands(r, w))
    <2>1. r \in reads
      BY <1>12
    <2>2. r.room \in 1..Len(runs) /\ runs[r.room].room /\ (runs[r.room].by = g => ReadStands(r, s))
      BY <2>1, <1>2 DEF IInv, ReadsStand
    <2>3. s[Len(s)].phase \notin {"in", "expired"}
      BY <1>1, <1>5
    <2>4. ReadStands(r, s) => r.room # n
      BY <1>5, <2>3, ReadElsewhere
    <2>5. ReadStands(r, s) => ReadStands(r, w)
      BY <1>4, <2>3, ComesRead, SMTT(30)
    <2> QED BY <2>1, <2>2, <2>4, <2>5, <1>10
  <1>19. /\ phase \notin {"in", "left"} /\ ~runs'[n].live /\ asked[g] = 0
         /\ \A t \in Thread : t # on[g] => scopes'[t] = scopes[t]
    BY <1>1, <1>3, <1>5, <1>8, <1>10, <1>12, EndingAsks
  <1>20. UNCHANGED <<on, locks, asked>>
    BY <1>12
  <1> QED BY <1>2, <1>4, <1>11, <1>14, <1>15, <1>16, <1>17, <1>18, <1>19, <1>20, ComesStep, ZenonT(60)

\* u is s without its i-th element.
Removed(S, s, i, u) ==
    /\ u \in Seq(S) /\ Len(s) \in Nat /\ Len(u) = Len(s) - 1
    /\ \A j \in 1..Len(u) : u[j] = IF j < i THEN s[j] ELSE s[j + 1]

LEMMA RemoveAtIs ==
    ASSUME NEW S, NEW s \in Seq(S), NEW i \in 1..Len(s), NEW u, u = RemoveAt(s, i)
    PROVE  Removed(S, s, i, u)
  <1>1. PICK a, b : a = SubSeq(s, 1, i - 1) /\ b = SubSeq(s, i + 1, Len(s))
    OBVIOUS
  <1>2. Len(s) \in Nat /\ i \in Nat /\ i >= 1 /\ i <= Len(s)
    OBVIOUS
  <1>3. a \in Seq(S) /\ Len(a) = i - 1 /\ \A j \in 1..(i - 1) : a[j] = s[j]
    BY <1>1, <1>2
  <1>4. b \in Seq(S) /\ Len(b) = Len(s) - i /\ \A j \in 1..(Len(s) - i) : b[j] = s[i + j]
    BY <1>1, <1>2
  <1>5. u = a \o b
    BY <1>1 DEF RemoveAt
  <1>6. u \in Seq(S) /\ Len(u) = Len(s) - 1
    BY <1>2, <1>3, <1>4, <1>5, SMTT(30)
  <1>7. ASSUME NEW j \in 1..Len(u) PROVE u[j] = IF j < i THEN s[j] ELSE s[j + 1]
    <2>1. CASE j < i
      <3>1. j \in 1..Len(a)
        BY <1>2, <1>3, <2>1
      <3>2. u[j] = a[j]
        BY <1>3, <1>4, <1>5, <1>6, <3>1
      <3> QED BY <3>1, <3>2, <1>3, <2>1
    <2>2. CASE ~(j < i)
      <3>1. j - Len(a) \in 1..Len(b) /\ i + (j - Len(a)) = j + 1
        BY <1>2, <1>3, <1>4, <1>6, <2>2
      <3>2. u[j] = b[j - Len(a)]
        BY <1>3, <1>4, <1>5, <1>6, <3>1, SMTT(30)
      <3> QED BY <3>1, <3>2, <1>4, <2>2
    <2> QED BY <2>1, <2>2
  <1> QED BY <1>2, <1>6, <1>7 DEF Removed

\* Without one of keys that are all different, just that one is missing.
LEMMA HasWithout ==
    ASSUME NEW keys \in Seq(KeyOf), \A i, j \in 1..Len(keys) : keys[i] = keys[j] => i = j,
           NEW at \in 1..Len(keys), NEW l, NEW t, keys[at] = [identity |-> l, thread |-> t],
           NEW left, Removed(KeyOf, keys, at, left)
    PROVE  /\ left \in Seq(KeyOf) /\ \A i, j \in 1..Len(left) : left[i] = left[j] => i = j
           /\ \A k, u : Has(left, k, u) <=> Has(keys, k, u) /\ ~(k = l /\ u = t)
  <1>1. /\ left \in Seq(KeyOf) /\ Len(keys) \in Nat /\ Len(left) = Len(keys) - 1
        /\ \A j \in 1..Len(left) : left[j] = IF j < at THEN keys[j] ELSE keys[j + 1]
    BY DEF Removed
  <1>2. ASSUME NEW i \in 1..Len(left), NEW j \in 1..Len(left), left[i] = left[j] PROVE i = j
    <2>1. PICK m \in 1..Len(keys) : left[i] = keys[m] /\ m = IF i < at THEN i ELSE i + 1
      BY <1>1
    <2>2. PICK n \in 1..Len(keys) : left[j] = keys[n] /\ n = IF j < at THEN j ELSE j + 1
      BY <1>1
    <2>3. m = n
      BY <1>2, <2>1, <2>2
    <2> QED BY <2>1, <2>2, <2>3, <1>1
  <1>3. ASSUME NEW k, NEW u, Has(left, k, u) PROVE Has(keys, k, u) /\ ~(k = l /\ u = t)
    <2>1. PICK j \in 1..Len(left) : left[j] = [identity |-> k, thread |-> u]
      BY <1>3 DEF Has
    <2>2. PICK m \in 1..Len(keys) : left[j] = keys[m] /\ m # at
      BY <1>1
    <2>3. keys[m] # keys[at]
      BY <2>2
    <2> QED BY <2>1, <2>2, <2>3 DEF Has
  <1>4. ASSUME NEW k, NEW u, Has(keys, k, u), ~(k = l /\ u = t) PROVE Has(left, k, u)
    <2>1. PICK m \in 1..Len(keys) : keys[m] = [identity |-> k, thread |-> u]
      BY <1>4 DEF Has
    <2>2. m # at
      BY <1>4, <2>1
    <2>3. PICK j \in 1..Len(left) : left[j] = keys[m]
      <3>1. CASE m < at
        <4>1. m \in 1..Len(left)
          BY <3>1, <1>1
        <4> QED BY <4>1, <3>1, <1>1
      <3>2. CASE m > at
        <4>1. m - 1 \in 1..Len(left) /\ ~(m - 1 < at) /\ (m - 1) + 1 = m
          BY <3>2, <1>1
        <4> QED BY <4>1, <1>1
      <3> QED BY <3>1, <3>2, <2>2, <1>1
    <2> QED BY <2>1, <2>3 DEF Has
  <1> QED BY <1>1, <1>2, <1>3, <1>4

\* A root run of l is left: no other of its library is on the stack.
LeavesRoot(s, w, rs, l) ==
    \A k : (\E i \in 1..Len(w) : RootedAt(w, rs, k, i)) <=>
                (\E i \in 1..Len(s) : RootedAt(s, rs, k, i)) /\ k # l

LEMMA LeftRooted ==
    ASSUME NEW s, NEW w, Comes(s, w, "left"), NEW g, NEW t, NEW rs, Nested(s, rs, g, t),
           s[Len(s)].kind = "run", s[Len(s)].phase # "left", NEW l, l = rs[s[Len(s)].run].lib
    PROVE  LeavesRoot(s, w, rs, l)
  <1>1. /\ Len(w) = Len(s) /\ Len(s) \in Nat \ {0} /\ Len(s) \in 1..Len(s)
        /\ \A i \in 1..Len(s) : w[i].kind = s[i].kind /\ w[i].run = s[i].run
        /\ \A i \in 1..Len(s) : i # Len(s) => w[i].phase = s[i].phase
        /\ w[Len(s)].phase = "left"
    BY DEF Comes, Agree
  <1>2. IsOpen(s, Len(s)) /\ Stands(s, rs, g, t, Len(s))
    BY <1>1 DEF IsOpen, Opened, Nested
  <1>3. RunStands(s, rs, g, t, Len(s))
    BY <1>2 DEF Stands
  <1>4. ASSUME NEW k, NEW i \in 1..Len(s), i # Len(s), RootedAt(s, rs, k, i) PROVE k # l
    <2>1. i \in 1..(Len(s) - 1) /\ OpenOf(s, rs, i, k)
      BY <1>1, <1>4 DEF RootedAt, OpenOf, IsOpen, Opened
    <2> QED BY <1>3, <2>1 DEF RunStands
  <1>5. ASSUME NEW k, NEW i \in 1..Len(s), RootedAt(w, rs, k, i)
        PROVE  RootedAt(s, rs, k, i) /\ k # l
    <2>1. i # Len(s)
      BY <1>1, <1>5 DEF RootedAt
    <2>2. RootedAt(s, rs, k, i)
      BY <1>1, <1>5, <2>1 DEF RootedAt
    <2> QED BY <1>4, <2>1, <2>2
  <1>6. ASSUME NEW k, NEW i \in 1..Len(s), RootedAt(s, rs, k, i), k # l
        PROVE  RootedAt(w, rs, k, i)
    <2>1. i # Len(s)
      BY <1>6, Zenon DEF RootedAt
    <2> QED BY <1>1, <1>6, <2>1 DEF RootedAt
  <1> QED BY <1>1, <1>5, <1>6 DEF LeavesRoot

LEMMA LeaveRootStep ==
    ASSUME IInv, NEW g \in Goroutine, LeaveRoot(g)
    PROVE  IInv'
  <1>1. Ending(g, "ended") /\ Top(g).kind = "run"
    BY DEF LeaveRoot
  <1>2. PICK s, n : s = stack[g] /\ n = Top(g).run /\ TopIs(s, runs, g, on[g], n, "ended") /\ Top(g) = s[Len(s)]
    BY <1>1, TopEnds
  <1>3. PICK l, t : l = runs[n].lib /\ t = on[g]
    OBVIOUS
  <1>4. PICK phase \in {"in", "expired", "closed", "refused", "ended", "left"} : phase = "left"
    OBVIOUS
  <1>5. UNCHANGED <<on, locks, asked, raising, answer, runs, scopes, reads>>
    BY DEF LeaveRoot
  <1>6. /\ stack' \in [Goroutine -> Seq(FrameOf)] /\ \A h \in Goroutine : h # g => stack'[h] = stack[h]
        /\ Comes(s, stack'[g], phase) /\ IsOpen(stack'[g], Len(stack'[g]))
    <2>1. ComesTo(g, phase)
      BY <1>4 DEF LeaveRoot
    <2> QED BY <1>2, <2>1, ComesToIs
  <1> PICK w : w = stack'[g]
    OBVIOUS
  <1>7. /\ s[Len(s)].phase = "ended" /\ s[Len(s)].run = n /\ t # None /\ t \in Thread /\ runs[n] \in RunOf
        /\ OfRuns(s, runs, g) /\ n \in 1..Len(runs) /\ Len(s) \in Nat \ {0} /\ runs[n].thread = t
        /\ runs \in Seq(RunOf) /\ Len(runs) \in Nat /\ ~runs[n].live /\ Nested(s, runs, g, t)
    BY <1>2, <1>3 DEF TopIs
  <1>8. l \in Lib
    BY <1>3, <1>7 DEF RunOf
  <1>9. roots \in Seq(KeyOf) /\ DOMAIN roots = 1..Len(roots)
    BY DEF IInv, TypeOK
  <1>10. Has(roots, l, t)
    <2>1. RootedAt(s, runs, l, Len(s)) /\ Len(s) \in 1..Len(s)
      BY <1>1, <1>2, <1>3, <1>7 DEF RootedAt
    <2> QED BY <1>2, <1>3, <1>7, <1>8, <2>1 DEF IInv, RootsFollow
  <1>11. PICK key : key = [identity |-> l, thread |-> t]
    OBVIOUS
  <1>12. PICK at \in 1..Len(roots) : roots[at] = key /\ roots' = RemoveAt(roots, at)
    <2>1. PICK where : where = {i \in DOMAIN roots : roots[i] = key}
      OBVIOUS
    <2>2. IF where = {} THEN UNCHANGED roots
          ELSE \E i \in where : (\A j \in where : i <= j) /\ roots' = RemoveAt(roots, i)
      BY <1>2, <1>3, <1>7, <1>11, <2>1 DEF LeaveRoot
    <2>3. where # {}
      BY <1>9, <1>10, <1>11, <2>1 DEF Has
    <2>4. PICK i \in where : roots' = RemoveAt(roots, i)
      BY <2>2, <2>3
    <2> QED BY <2>1, <2>4, <1>9
  <1>13. Removed(KeyOf, roots, at, roots')
    BY <1>9, <1>12, RemoveAtIs
  <1>14. \A i, j \in 1..Len(roots) : roots[i] = roots[j] => i = j
    BY DEF IInv, RootsFollow
  <1>15. /\ roots' \in Seq(KeyOf) /\ \A i, j \in 1..Len(roots') : roots'[i] = roots'[j] => i = j
         /\ \A k, u : Has(roots', k, u) <=> Has(roots, k, u) /\ ~(k = l /\ u = t)
    <2>1. roots[at] = [identity |-> l, thread |-> t]
      BY <1>11, <1>12
    <2> QED BY <1>9, <1>13, <1>14, <2>1, HasWithout, SMTT(30)
  <1>16. TypeOK'
    BY <1>5, <1>6, <1>15, SMTT(30) DEF IInv, TypeOK
  <1>17. Others(g)
    BY <1>5, <1>6 DEF Others
  <1>18. Ends(runs, runs', n) /\ Changes(g, runs, runs') /\ ~runs'[n].live
    <2>1. Ends(runs, runs, n)
      BY <1>7 DEF Ends
    <2>2. Changes(g, runs, runs)
      BY <1>7, SameChanges
    <2> QED BY <1>5, <1>7, <2>1, <2>2
  <1>19. ASSUME NEW k \in Lib PROVE Fits(scopes'[on[g]][k], w, runs', k)
    <2>1. Fits(scopes[on[g]][k], s, runs, k)
      BY <1>2, <1>3, <1>7 DEF IInv, ScopesFollow
    <2>2. phase \notin {"in", "expired"} /\ s[Len(s)].phase \notin {"in", "expired"}
      BY <1>4, <1>7
    <2>3. Comes(s, w, phase) /\ OfRuns(s, runs, g) /\ Changes(g, runs, runs)
      BY <1>6, <1>7, SameChanges
    <2>4. Fits(scopes[on[g]][k], w, runs, k)
      BY <2>1, <2>2, <2>3, ComesFits
    <2> QED BY <2>4, <1>5
  <1>20. \A k \in Lib : \A u \in Thread : u # on[g] => (Has(roots', k, u) <=> Has(roots, k, u))
    BY <1>3, <1>15
  <1>21. ASSUME NEW k \in Lib
         PROVE  Has(roots', k, on[g]) <=> \E i \in 1..Len(w) : RootedAt(w, runs', k, i)
    <2>1. Has(roots, k, on[g]) <=> \E i \in 1..Len(s) : RootedAt(s, runs, k, i)
      BY <1>2, <1>3, <1>7, SMTT(30) DEF IInv, RootsFollow
    <2>2. Comes(s, w, "left") /\ s[Len(s)].kind = "run" /\ s[Len(s)].phase # "left"
      BY <1>1, <1>2, <1>4, <1>6, <1>7
    <2>3. Nested(s, runs, g, t) /\ l = runs[s[Len(s)].run].lib
      BY <1>3, <1>7
    <2>4. (\E i \in 1..Len(w) : RootedAt(w, runs, k, i)) <=>
                (\E i \in 1..Len(s) : RootedAt(s, runs, k, i)) /\ k # l
      <3>1. LeavesRoot(s, w, runs, l)
        BY <2>2, <2>3, LeftRooted
      <3> QED BY <3>1 DEF LeavesRoot
    <2>5. Has(roots', k, on[g]) <=> Has(roots, k, on[g]) /\ k # l
      BY <1>3, <1>15
    <2> QED BY <2>1, <2>4, <2>5, <1>5
  <1>22. ASSUME NEW r \in reads'
         PROVE  r \in reads /\ (runs[r.room].by = g => runs'[r.room].room /\ ReadStands(r, w))
    <2>1. r \in reads
      BY <1>5
    <2>2. r.room \in 1..Len(runs) /\ runs[r.room].room /\ (runs[r.room].by = g => ReadStands(r, s))
      BY <2>1, <1>2 DEF IInv, ReadsStand
    <2>3. s[Len(s)].phase \notin {"in", "expired"}
      BY <1>7
    <2>4. ReadStands(r, s) => ReadStands(r, w)
      BY <1>6, <2>3, ComesRead
    <2> QED BY <2>1, <2>2, <2>4, <1>5
  <1>23. /\ phase # "in" /\ asked[g] = 0 /\ s[Len(s)].kind = "run"
         /\ \A u \in Thread : u # on[g] => scopes'[u] = scopes[u]
    BY <1>1, <1>2, <1>4, <1>5, EndingAsks
  <1>24. UNCHANGED <<on, locks, asked>>
    BY <1>5
  <1> QED BY <1>2, <1>6, <1>15, <1>16, <1>17, <1>18, <1>19, <1>20, <1>21, <1>22, <1>23, <1>24, ComesStep

\* The run of the innermost frame f of g has ended, and its frame is left: what
\* is left to show.
LEMMA PopStep ==
    ASSUME IInv, TypeOK', NEW g \in Goroutine, UNCHANGED <<on, asked, raising, roots, scopes, reads>>,
           \A h \in Goroutine : h # g => stack'[h] = stack[h] /\ locks'[h] = locks[h],
           NEW u, u = stack[g], NEW n, NEW phase, TopIs(u, runs, g, on[g], n, phase), asked[g] = 0,
           NEW f, f = u[Len(u)], NEW s, s = stack'[g], Topped(FrameOf, s, f, u),
           phase \notin {"in", "expired"}, f.kind = "scope" \/ phase = "left",
           Leaves(runs, runs', s, n), Changes(g, runs, runs'), ChildrenLater(runs'),
           \A m \in 1..Len(runs) : runs[m].room => runs'[m].room,
           locks'[g] = Roots(s, Len(s))
    PROVE  IInv'
  <1>1. /\ Nested(u, runs, g, on[g]) /\ OfRuns(u, runs, g) /\ f.kind \in Opened /\ f.phase = phase /\ f.run = n
        /\ on[g] # None /\ Len(u) \in Nat \ {0} /\ Len(runs) \in Nat
    BY DEF TopIs, IsOpen
  <1>2. Len(s) \in Nat /\ Len(u) = Len(s) + 1 /\ Agree(u, s, Len(s))
    BY OverIs
  <1>3. Nested(s, runs', g, on[g])
    BY <1>1, LeaveNested
  <1>4. InCode(s)
    <2>1. SUFFICES ASSUME s # <<>> PROVE s[Len(s)].kind # "call"
      BY DEF InCode
    <2>2. Len(s) \in 1..Len(s)
      BY <1>2, <2>1 DEF Topped
    <2>3. Stands(u, runs, g, on[g], Len(u)) /\ Len(u) > 1 /\ Len(u) - 1 = Len(s)
      BY <1>1, <1>2, <2>2 DEF Nested
    <2>4. u[Len(s)] = s[Len(s)]
      BY <2>2 DEF Topped
    <2>5. f.kind # "host"
      BY <1>1 DEF Opened
    <2> QED BY <2>3, <2>4, <2>5, SMTT(30) DEF Stands
  <1>5. Asks(asked'[g], raising'[g], s, runs')
    BY <1>4 DEF Asks
  <1>6. ASSUME NEW l \in Lib PROVE Fits(scopes'[on[g]][l], s, runs', l)
    <2>1. Fits(scopes[on[g]][l], u, runs, l)
      BY <1>1 DEF IInv, ScopesFollow
    <2>2. f.phase \notin {"in", "expired"}
      BY <1>1
    <2>3. Fits(scopes[on[g]][l], s, runs', l)
      BY <1>1, <2>1, <2>2, LeaveFits
    <2> QED BY <2>3
  <1>7. \A i, j \in 1..Len(roots') : roots'[i] = roots'[j] => i = j
    BY DEF IInv, RootsFollow
  <1>8. ASSUME NEW l \in Lib
        PROVE  Has(roots', l, on[g]) <=> \E i \in 1..Len(s) : RootedAt(s, runs', l, i)
    <2>1. Has(roots, l, on[g]) <=> \E i \in 1..Len(u) : RootedAt(u, runs, l, i)
      BY <1>1 DEF IInv, RootsFollow
    <2>2. ~RootedAt(u, runs, l, Len(u))
      BY <1>1 DEF RootedAt
    <2>3. ASSUME NEW i \in 1..Len(s) PROVE i \in 1..Len(u) /\ (RootedAt(s, runs', l, i) <=> RootedAt(u, runs, l, i))
      <3>1. i \in 1..Len(u) /\ u[i] = s[i]
        BY <1>2 DEF Topped
      <3>2. u[i].run \in 1..Len(runs)
        BY <1>1, <3>1 DEF OfRuns
      <3>3. runs'[u[i].run].lib = runs[u[i].run].lib
        BY <3>2 DEF Changes
      <3> QED BY <3>1, <3>3 DEF RootedAt
    <2>4. \A i \in 1..Len(u) : i # Len(u) => i \in 1..Len(s)
      BY <1>2
    <2>5. (\E i \in 1..Len(s) : RootedAt(s, runs', l, i)) <=> \E i \in 1..Len(u) : RootedAt(u, runs, l, i)
      BY <2>2, <2>3, <2>4
    <2> QED BY <2>1, <2>5
  <1>9. OnlyOf(g)
    <2>1. ASSUME NEW r \in reads', runs[r.room].by = g
          PROVE  r.room \in 1..Len(runs') /\ runs'[r.room].by = g /\ runs'[r.room].room /\ ReadStands(r, stack'[g])
      <3>1. r \in reads /\ r.room \in 1..Len(runs) /\ runs[r.room].room /\ ReadStands(r, u)
        BY <2>1 DEF IInv, ReadsStand
      <3>2. f.phase \notin {"in", "expired"}
        BY <1>1
      <3>3. ReadStands(r, s)
        BY <3>1, <3>2, LeaveRead
      <3>4. r.room \in 1..Len(runs') /\ runs'[r.room].by = g
        BY <2>1, <3>1 DEF Changes
      <3> QED BY <3>1, <3>3, <3>4
    <2>2. \A r \in reads' : (r \in reads /\ runs[r.room].by # g)
                         \/ /\ r.room \in 1..Len(runs') /\ runs'[r.room].by = g /\ runs'[r.room].room
                            /\ ReadStands(r, stack'[g])
      BY <2>1
    <2> QED BY <2>2 DEF OnlyOf
  <1> QED BY <1>1, <1>3, <1>5, <1>6, <1>7, <1>8, <1>9, StepOf

\* The stack of g without its innermost frame, of a run that has ended.
LEMMA TopLeaves ==
    ASSUME IInv, NEW g \in Goroutine, NEW u, u = stack[g], NEW n, NEW phase, TopIs(u, runs, g, on[g], n, phase),
           stack' = [stack EXCEPT ![g] = Front(@)]
    PROVE  \E s, f : /\ f = u[Len(u)] /\ s = stack'[g] /\ Topped(FrameOf, s, f, u)
                     /\ stack' \in [Goroutine -> Seq(FrameOf)]
                     /\ \A h \in Goroutine : h # g => stack'[h] = stack[h]
  <1>1. u \in Seq(FrameOf) /\ u # <<>>
    BY DEF TopIs
  <1>2. PICK s : s = Front(u)
    OBVIOUS
  <1>3. PICK f : f = u[Len(u)]
    OBVIOUS
  <1>4. Topped(FrameOf, s, f, u)
    BY <1>1, <1>2, <1>3, PopTopped
  <1>5. s \in Seq(FrameOf)
    BY <1>4 DEF Topped
  <1>6. stack' = [stack EXCEPT ![g] = s]
    BY <1>2
  <1>7. /\ s = stack'[g] /\ stack' \in [Goroutine -> Seq(FrameOf)]
        /\ \A h \in Goroutine : h # g => stack'[h] = stack[h]
    BY <1>5, <1>6 DEF IInv, TypeOK
  <1> QED BY <1>3, <1>4, <1>7

LEMMA LeaveScopeStep ==
    ASSUME IInv, NEW g \in Goroutine, LeaveScope(g)
    PROVE  IInv'
  <1>1. Ending(g, "ended") /\ Top(g).kind = "scope"
    BY DEF LeaveScope
  <1>2. PICK u, n : u = stack[g] /\ n = Top(g).run /\ TopIs(u, runs, g, on[g], n, "ended") /\ Top(g) = u[Len(u)]
    BY <1>1, TopEnds
  <1>3. stack' = [stack EXCEPT ![g] = Front(@)]
    BY DEF LeaveScope
  <1>4. PICK s, f : /\ f = u[Len(u)] /\ s = stack'[g] /\ Topped(FrameOf, s, f, u)
                    /\ stack' \in [Goroutine -> Seq(FrameOf)]
                    /\ \A h \in Goroutine : h # g => stack'[h] = stack[h]
    BY <1>2, <1>3, TopLeaves
  <1>5. /\ runs \in Seq(RunOf) /\ Len(runs) \in Nat /\ n \in 1..Len(runs) /\ runs[n].by = g
        /\ Nested(u, runs, g, on[g]) /\ OfRuns(u, runs, g) /\ Len(u) \in Nat \ {0}
    BY <1>2 DEF TopIs
  <1>6. UNCHANGED <<on, locks, asked, raising, answer, roots, scopes, reads>>
    BY DEF LeaveScope
  <1>7. runs' = [m \in 1..Len(runs) |-> IF runs[m].child = n THEN [runs[m] EXCEPT !.child = 0] ELSE runs[m]]
    BY <1>2, <1>5 DEF LeaveScope, Run
  <1>8. \A m \in 1..Len(runs) : runs'[m] = IF runs[m].child = n THEN [runs[m] EXCEPT !.child = 0] ELSE runs[m]
    BY <1>7
  <1>9. ASSUME NEW m \in 1..Len(runs)
        PROVE  /\ runs'[m] \in RunOf /\ runs'[m].lib = runs[m].lib /\ runs'[m].thread = runs[m].thread
               /\ runs'[m].by = runs[m].by /\ runs'[m].live = runs[m].live /\ runs'[m].calls = runs[m].calls
               /\ runs'[m].room = runs[m].room /\ runs'[m].child = IF runs[m].child = n THEN 0 ELSE runs[m].child
               /\ runs[m].by # g => runs'[m] = runs[m]
    <2>1. PICK o \in RunOf : o = runs[m]
      BY <1>5
    <2>2. CASE o.child = n
      <3>1. runs'[m] = [o EXCEPT !.child = 0]
        BY <1>8, <2>1, <2>2
      <3>2. PICK e : e = [o EXCEPT !.child = 0]
        OBVIOUS
      <3>3. /\ e \in RunOf /\ e.lib = o.lib /\ e.thread = o.thread /\ e.by = o.by /\ e.live = o.live
            /\ e.calls = o.calls /\ e.room = o.room /\ e.child = 0
        BY <2>1, <3>2 DEF RunOf
      <3>4. runs[m].by = g
        BY <1>5, <2>1, <2>2 DEF IInv, ChildrenLater
      <3> QED BY <2>1, <2>2, <3>1, <3>2, <3>3, <3>4
    <2>3. CASE o.child # n
      <3>1. runs'[m] = o
        BY <1>8, <2>1, <2>3
      <3> QED BY <2>1, <2>3, <3>1
    <2> QED BY <2>2, <2>3
  <1>10. runs' \in Seq(RunOf) /\ Len(runs') = Len(runs)
    <2>1. PICK m \in Nat : m = Len(runs)
      BY <1>5
    <2>2. runs' \in [1..m -> RunOf]
      BY <1>7, <1>9, <2>1
    <2> QED BY <2>1, <2>2
  <1>11. Changes(g, runs, runs')
    BY <1>5, <1>9, <1>10 DEF Changes
  <1>12. ChildrenLater(runs')
    <2>1. ChildrenLater(runs)
      BY DEF IInv
    <2>2. SUFFICES ASSUME NEW m \in 1..Len(runs), runs'[m].child # 0
                   PROVE  runs'[m].child \in (m + 1)..Len(runs) /\ runs'[runs'[m].child].by = runs'[m].by
      BY <1>10 DEF ChildrenLater
    <2>3. runs'[m].child = runs[m].child /\ runs[m].child # 0
      BY <1>9, <2>2
    <2>4. runs[m].child \in (m + 1)..Len(runs) /\ runs[runs[m].child].by = runs[m].by
      BY <2>1, <2>3 DEF ChildrenLater
    <2>5. runs[m].child \in 1..Len(runs)
      BY <2>4
    <2> QED BY <2>3, <2>4, <2>5, <1>9
  <1>13. Leaves(runs, runs', s, n)
    <2>1. \A i \in 1..Len(s) : s[i].run \in 1..Len(runs)
      <3>1. \A i \in 1..Len(s) : i \in 1..Len(u) /\ u[i] = s[i]
        BY <1>4 DEF Topped
      <3>2. \A i \in 1..Len(u) : u[i].run \in 1..Len(runs)
        BY <1>5 DEF OfRuns
      <3> QED BY <3>1, <3>2
    <2> QED BY <1>5, <1>9, <1>10, <2>1 DEF Leaves
  <1>14. locks'[g] = Roots(s, Len(s))
    <2>1. /\ Len(s) \in Nat /\ Len(u) = Len(s) + 1 /\ u[Len(s) + 1] = f
          /\ \A i \in 1..Len(s) : s[i] = u[i]
      BY <1>4, OverIs DEF Topped
    <2>2. f.kind # "run"
      BY <1>1, <1>2, <1>4
    <2>3. Roots(u, Len(s) + 1) = Roots(u, Len(s))
      BY <2>1, <2>2, RootsNext
    <2>4. Roots(u, Len(s)) = Roots(s, Len(s))
      <3>1. {j \in 1..Len(s) : u[j].kind = "run"} = {j \in 1..Len(s) : s[j].kind = "run"}
        BY <2>1
      <3> QED BY <3>1 DEF Roots
    <2>5. locks[g] = Roots(u, Len(u))
      BY <1>2 DEF IInv, Placed
    <2> QED BY <1>6, <2>1, <2>3, <2>4, <2>5
  <1>15. TypeOK'
    BY <1>4, <1>6, <1>10 DEF IInv, TypeOK
  <1>16. \A m \in 1..Len(runs) : runs[m].room => runs'[m].room
    BY <1>9
  <1>17. asked[g] = 0
    BY <1>1, EndingAsks
  <1>18. PICK phase : phase = "ended" /\ phase \notin {"in", "expired"}
    OBVIOUS
  <1>19. TopIs(u, runs, g, on[g], n, phase) /\ f.kind = "scope"
    BY <1>1, <1>2, <1>4, <1>18
  <1> QED BY <1>2, <1>4, <1>6, <1>11, <1>12, <1>13, <1>14, <1>15, <1>16, <1>17, <1>18, <1>19, PopStep

LEMMA RootsTopped ==
    ASSUME NEW s, NEW f, NEW u, Topped(FrameOf, s, f, u)
    PROVE  /\ Roots(s, Len(s)) \in Nat
           /\ f.kind = "run" => Roots(u, Len(u)) = Roots(s, Len(s)) + 1
           /\ f.kind # "run" => Roots(u, Len(u)) = Roots(s, Len(s))
  <1>1. /\ Len(s) \in Nat /\ Len(u) = Len(s) + 1 /\ u[Len(s) + 1] = f
        /\ \A i \in 1..Len(s) : s[i] = u[i]
    BY OverIs DEF Topped
  <1>2. Roots(u, Len(s)) = Roots(s, Len(s))
    <2>1. {j \in 1..Len(s) : u[j].kind = "run"} = {j \in 1..Len(s) : s[j].kind = "run"}
      BY <1>1
    <2> QED BY <2>1 DEF Roots
  <1>3. /\ Roots(s, Len(s)) \in Nat
        /\ u[Len(s) + 1].kind = "run" => Roots(u, Len(s) + 1) = Roots(u, Len(s)) + 1
        /\ u[Len(s) + 1].kind # "run" => Roots(u, Len(s) + 1) = Roots(u, Len(s))
    BY <1>1, RootsNext, SMTT(30)
  <1> QED BY <1>1, <1>2, <1>3

LEMMA UnlockStep ==
    ASSUME IInv, NEW g \in Goroutine, Unlock(g)
    PROVE  IInv'
  <1>1. Ending(g, "left")
    BY DEF Unlock
  <1>2. PICK u, n : u = stack[g] /\ n = Top(g).run /\ TopIs(u, runs, g, on[g], n, "left") /\ Top(g) = u[Len(u)]
    BY <1>1, TopEnds
  <1>3. stack' = [stack EXCEPT ![g] = Front(@)]
    BY DEF Unlock
  <1>4. PICK s, f : /\ f = u[Len(u)] /\ s = stack'[g] /\ Topped(FrameOf, s, f, u)
                    /\ stack' \in [Goroutine -> Seq(FrameOf)]
                    /\ \A h \in Goroutine : h # g => stack'[h] = stack[h]
    BY <1>2, <1>3, TopLeaves
  <1>5. /\ runs \in Seq(RunOf) /\ Len(runs) \in Nat /\ n \in 1..Len(runs) /\ runs[n].by = g /\ f.run = n
        /\ Nested(u, runs, g, on[g]) /\ OfRuns(u, runs, g) /\ Len(u) \in Nat \ {0} /\ f.phase = "left"
        /\ IsOpen(u, Len(u)) /\ Len(u) \in 1..Len(u)
    BY <1>2, <1>4 DEF TopIs
  <1>6. UNCHANGED <<on, asked, raising, answer, roots, runs, scopes, reads>>
    BY DEF Unlock
  <1>7. f.kind = "run"
    BY <1>4, <1>5 DEF Nested, Phased
  <1>8. /\ Len(s) \in Nat /\ Len(u) = Len(s) + 1 /\ \A i \in 1..Len(s) : s[i] = u[i]
    BY <1>4, OverIs DEF Topped
  <1>9. ASSUME NEW i \in 1..Len(s), IsOpen(s, i) PROVE runs[s[i].run].child # n
    <2>1. SUFFICES ASSUME runs[s[i].run].child = n PROVE FALSE
      OBVIOUS
    <2>2. i \in 1..Len(u) /\ u[i] = s[i] /\ IsOpen(u, i) /\ i \in 1..(Len(u) - 1)
      BY <1>8, <1>9 DEF IsOpen
    <2>3. Chained(u, runs, i) /\ n # 0
      BY <1>5, <2>2 DEF Nested
    <2>4. PICK j \in (i + 1)..Len(u) : Inside(u, runs, i, j) /\ u[j].run = n
      BY <2>1, <2>2, <2>3 DEF Chained
    <2>5. j \in 1..Len(u) /\ IsOpen(u, j) /\ runs[n].lib = runs[u[i].run].lib
      BY <1>5, <2>2, <2>4 DEF Inside, OpenOf
    <2>6. OpenOf(u, runs, i, runs[n].lib)
      BY <2>2, <2>5 DEF OpenOf
    <2>7. RunStands(u, runs, g, on[g], Len(u)) /\ u[Len(u)].run = n /\ u[Len(u)].kind = "run"
      BY <1>4, <1>5, <1>7 DEF Nested, Stands
    <2> QED BY <2>2, <2>6, <2>7 DEF RunStands
  <1>10. Leaves(runs, runs', s, n)
    BY <1>5, <1>6, <1>9 DEF Leaves
  <1>11. Changes(g, runs, runs') /\ ChildrenLater(runs')
    <2>1. Changes(g, runs, runs) /\ ChildrenLater(runs)
      BY <1>5, SameChanges DEF IInv
    <2> QED BY <1>6, <2>1
  <1>12. /\ locks' \in [Goroutine -> Nat] /\ locks'[g] = Roots(s, Len(s))
         /\ \A h \in Goroutine : h # g => locks'[h] = locks[h]
    <2>1. locks[g] = Roots(u, Len(u)) /\ locks \in [Goroutine -> Nat]
      BY <1>2 DEF IInv, Placed, TypeOK
    <2>2. Roots(u, Len(u)) = Roots(s, Len(s)) + 1 /\ Roots(s, Len(s)) \in Nat
      BY <1>4, <1>7, RootsTopped
    <2>3. locks' = [locks EXCEPT ![g] = IF @ = 0 THEN 0 ELSE @ - 1]
      BY DEF Unlock
    <2>4. PICK m \in Nat : m = Roots(s, Len(s))
      BY <2>2
    <2>5. locks[g] = m + 1
      BY <2>1, <2>2, <2>4
    <2>6. m = IF locks[g] = 0 THEN 0 ELSE locks[g] - 1
      BY <2>5
    <2>7. locks' = [locks EXCEPT ![g] = m]
      BY <2>3, <2>6
    <2> QED BY <2>1, <2>4, <2>7
  <1>13. TypeOK'
    BY <1>4, <1>6, <1>12 DEF IInv, TypeOK
  <1>14. \A m \in 1..Len(runs) : runs[m].room => runs'[m].room
    BY <1>6
  <1>15. asked[g] = 0
    BY <1>1, EndingAsks
  <1>16. PICK phase : phase = "left" /\ phase \notin {"in", "expired"}
    OBVIOUS
  <1>17. TopIs(u, runs, g, on[g], n, phase)
    BY <1>2, <1>16
  <1> QED BY <1>2, <1>4, <1>6, <1>10, <1>11, <1>12, <1>13, <1>14, <1>15, <1>16, <1>17, PopStep

-----------------------------------------------------------------------------
(* Runs and nested runs are opened.                                        *)

\* What is left to show where g opens a run of l.
LEMMA OpenStep ==
    ASSUME IInv, TypeOK', NEW g \in Goroutine, UNCHANGED <<on, raising, reads>>,
           \A h \in Goroutine : h # g => stack'[h] = stack[h] /\ locks'[h] = locks[h] /\ asked'[h] = asked[h],
           NEW s, s = stack[g], NEW u, u = stack'[g], NEW f, Topped(FrameOf, s, f, u),
           NEW l \in Lib, NEW t \in Thread, t = on[g], t # None,
           Opens(runs, runs', s, g, l, t), Changes(g, runs, runs'), ChildrenLater(runs'),
           f.kind \in Opened, f.phase = "in", f.run = Len(runs'), InCode(s),
           s # <<>> => s[Len(s)].phase = "in", s = <<>> => f.kind = "run",
           f.kind = "run" => \A i \in 1..Len(s) : ~OpenOf(s, runs, i, l),
           f.kind = "scope" => \E i \in 1..Len(s) : s[i].kind = "run" /\ runs[s[i].run].lib = l,
           \A m \in 1..Len(runs) : runs[m].room => runs'[m].room,
           \A v \in Thread : v # t => scopes'[v] = scopes[v],
           \A k \in Lib : scopes'[t][k] = IF k = l THEN Append(scopes[t][k], Len(runs')) ELSE scopes[t][k],
           locks'[g] = Roots(u, Len(u)), asked'[g] = 0, raising[g] = Nothing,
           \A i, j \in 1..Len(roots') : roots'[i] = roots'[j] => i = j,
           \A k \in Lib : \A v \in Thread :
                Has(roots', k, v) <=> Has(roots, k, v) \/ (f.kind = "run" /\ k = l /\ v = t)
    PROVE  IInv'
  <1>1. Nested(s, runs, g, t) /\ OfRuns(s, runs, g) /\ Len(runs) \in Nat
    BY Facts
  <1>2. Nested(u, runs', g, t)
    <2>1. PICK qs : qs = runs'
      OBVIOUS
    <2>2. Opens(runs, qs, s, g, l, t) /\ Changes(g, runs, qs) /\ f.run = Len(qs) /\ Nested(s, runs, g, t)
      BY <1>1, <2>1
    <2>3. Nested(u, qs, g, t)
      BY <2>2, OpenNested, SMTT(30)
    <2> QED BY <2>1, <2>3
  <1>3. /\ Len(s) \in Nat /\ Len(u) = Len(s) + 1 /\ u[Len(s) + 1] = f /\ u # <<>>
        /\ \A i \in 1..Len(s) : s[i] = u[i]
    BY OverIs DEF Topped
  <1>4. Asks(asked'[g], raising'[g], u, runs')
    BY DEF Asks
  <1>5. ASSUME NEW k \in Lib PROVE Fits(scopes'[t][k], u, runs', k)
    <2>1. PICK up \in Seq(Nat) : up = scopes[t][k]
      BY SMTT(60) DEF IInv, TypeOK
    <2>2. Fits(up, s, runs, k)
      BY <2>1 DEF IInv, ScopesFollow
    <2>3. PICK now : now = scopes'[t][k]
      OBVIOUS
    <2>4. now = IF k = l THEN Append(up, Len(runs')) ELSE up
      BY <2>1, <2>3
    <2>5. PICK qs : qs = runs'
      OBVIOUS
    <2>6. Grown(up, k, l, Len(qs), now)
      BY <2>4, <2>5 DEF Grown
    <2>7. Opens(runs, qs, s, g, l, t) /\ f.run = Len(qs)
      BY <2>5
    <2>8. Fits(now, u, qs, k)
      BY <1>1, <2>2, <2>6, <2>7, OpenFits
    <2> QED BY <2>3, <2>5, <2>8
  <1>6. ASSUME NEW k \in Lib
        PROVE  Has(roots', k, t) <=> \E i \in 1..Len(u) : RootedAt(u, runs', k, i)
    <2>1. Has(roots, k, t) <=> \E i \in 1..Len(s) : RootedAt(s, runs, k, i)
      BY DEF IInv, RootsFollow
    <2>2. RootedAt(u, runs', k, Len(s) + 1) <=> f.kind = "run" /\ k = l
      <3>1. runs'[f.run].lib = l
        BY DEF Opens
      <3> QED BY <1>3, <3>1, Zenon DEF RootedAt
    <2>3. ASSUME NEW i \in 1..Len(s) PROVE i \in 1..Len(u) /\ (RootedAt(u, runs', k, i) <=> RootedAt(s, runs, k, i))
      <3>1. i \in 1..Len(u) /\ u[i] = s[i]
        BY <1>3
      <3>2. s[i].run \in 1..Len(runs)
        BY <1>1 DEF OfRuns
      <3>3. runs'[s[i].run].lib = runs[s[i].run].lib
        BY <3>2 DEF Changes
      <3> QED BY <3>1, <3>3 DEF RootedAt
    <2>4. Len(s) + 1 \in 1..Len(u) /\ \A i \in 1..Len(u) : i # Len(s) + 1 => i \in 1..Len(s)
      BY <1>3
    <2>5. (\E i \in 1..Len(u) : RootedAt(u, runs', k, i)) <=>
                (\E i \in 1..Len(s) : RootedAt(s, runs, k, i)) \/ (f.kind = "run" /\ k = l)
      BY <2>2, <2>3, <2>4
    <2>6. Has(roots', k, t) <=> Has(roots, k, t) \/ (f.kind = "run" /\ k = l)
      OBVIOUS
    <2> QED BY <2>1, <2>5, <2>6
  <1>7. OnlyOf(g)
    <2>1. ASSUME NEW r \in reads', runs[r.room].by = g
          PROVE  r.room \in 1..Len(runs') /\ runs'[r.room].by = g /\ runs'[r.room].room /\ ReadStands(r, stack'[g])
      <3>1. r \in reads /\ r.room \in 1..Len(runs) /\ runs[r.room].room /\ ReadStands(r, s)
        BY <2>1 DEF IInv, ReadsStand
      <3>2. ReadStands(r, u)
        BY <3>1, PushRead
      <3>3. r.room \in 1..Len(runs') /\ runs'[r.room].by = g
        BY <2>1, <3>1 DEF Changes
      <3> QED BY <3>1, <3>2, <3>3
    <2>2. \A r \in reads' : (r \in reads /\ runs[r.room].by # g)
                         \/ /\ r.room \in 1..Len(runs') /\ runs'[r.room].by = g /\ runs'[r.room].room
                            /\ ReadStands(r, stack'[g])
      BY <2>1
    <2>3. \A k \in Lib : \A v \in Thread : v # on[g] => (Has(roots', k, v) <=> Has(roots, k, v))
      OBVIOUS
    <2> QED BY <2>2, <2>3 DEF OnlyOf
  <1> QED BY <1>2, <1>4, <1>5, <1>6, <1>7, StepOf

\* The frame f of run n is on the stack s of g, and scope n in the arena of l.
OnStack(g, s, f, kind, n) ==
    /\ Topped(FrameOf, s, f, stack'[g]) /\ f.kind = kind /\ f.phase = "in" /\ f.run = n
    /\ stack' \in [Goroutine -> Seq(FrameOf)] /\ \A h \in Goroutine : h # g => stack'[h] = stack[h]
InArena(t, l, n) ==
    /\ scopes' \in [Thread -> [Lib -> Seq(Nat)]] /\ \A v \in Thread : v # t => scopes'[v] = scopes[v]
    /\ \A k \in Lib : scopes'[t][k] = IF k = l THEN Append(scopes[t][k], n) ELSE scopes[t][k]

LEMMA WithinIs ==
    ASSUME IInv, NEW g \in Goroutine, NEW kind \in Opened, NEW l \in Lib, NEW t \in Thread, t = on[g],
           Within(kind, g, l), NEW s, s = stack[g], NEW n, n = Len(runs) + 1
    PROVE  (\E f : OnStack(g, s, f, kind, n)) /\ InArena(t, l, n)
  <1>1. s \in Seq(FrameOf) /\ n \in Nat /\ scopes \in [Thread -> [Lib -> Seq(Nat)]]
    BY Facts DEF IInv, TypeOK
  <1>2. PICK f : f = Frame(kind, n, {}, 0)
    OBVIOUS
  <1>3. f \in FrameOf /\ f.kind = kind /\ f.run = n /\ f.phase = "in"
    <2>1. PICK none \in SUBSET Nat : none = {}
      OBVIOUS
    <2> PICK raised \in Seq(Caught) : raised = <<>>
      <3>1. <<>> \in Seq(Caught)
        OBVIOUS
      <3> QED BY <3>1
    <2>2. f = [kind |-> kind, run |-> n, phase |-> "in", given |-> none, raised |-> raised, at |-> 0]
      BY <1>2, <2>1 DEF Frame
    <2> QED BY <1>1, <2>2 DEF FrameOf
  <1>4. PICK u : u = Append(s, f)
    OBVIOUS
  <1>5. Topped(FrameOf, s, f, u)
    BY <1>1, <1>3, <1>4, PushTopped
  <1>6. stack' = [stack EXCEPT ![g] = u]
    BY <1>2, <1>4 DEF Within
  <1>7. /\ stack'[g] = u /\ stack' \in [Goroutine -> Seq(FrameOf)]
        /\ \A h \in Goroutine : h # g => stack'[h] = stack[h]
    BY <1>5, <1>6 DEF IInv, TypeOK, Topped
  <1>8. PICK now : now = Append(scopes[t][l], n)
    OBVIOUS
  <1>9. now \in Seq(Nat)
    <2>1. PICK up \in Seq(Nat) : up = scopes[t][l]
      BY <1>1
    <2> QED BY <1>1, <1>8, <2>1, AppendIs
  <1>10. scopes' = [scopes EXCEPT ![t] = [scopes[t] EXCEPT ![l] = now]]
    BY <1>8 DEF Within
  <1>11. [scopes[t] EXCEPT ![l] = now] \in [Lib -> Seq(Nat)]
    BY <1>1, <1>9
  <1>12. /\ scopes' \in [Thread -> [Lib -> Seq(Nat)]] /\ \A v \in Thread : v # t => scopes'[v] = scopes[v]
         /\ scopes'[t][l] = now /\ \A k \in Lib : k # l => scopes'[t][k] = scopes[t][k]
    BY <1>1, <1>10, <1>11, SMTT(30)
  <1>13. \A k \in Lib : scopes'[t][k] = IF k = l THEN Append(scopes[t][k], n) ELSE scopes[t][k]
    BY <1>8, <1>12
  <1> QED BY <1>3, <1>5, <1>7, <1>12, <1>13 DEF OnStack, InArena

LEMMA OpeningIs ==
    ASSUME NEW g \in Goroutine, NEW l \in Lib, NEW t \in Thread, NEW e, e = Opening(g, l, t)
    PROVE  /\ e \in RunOf /\ e.lib = l /\ e.thread = t /\ e.by = g /\ e.child = 0 /\ e.live
           /\ Len(e.calls) = 0
  <1>1. PICK none \in Seq(Caught \cup {Nothing}) : none = <<>>
    <2>1. <<>> \in Seq(Caught \cup {Nothing})
      OBVIOUS
    <2> QED BY <2>1
  <1>2. e = [lib |-> l, thread |-> t, live |-> TRUE, child |-> 0, calls |-> none, room |-> FALSE, by |-> g]
    BY <1>1 DEF Opening
  <1>3. e \in RunOf /\ e.lib = l /\ e.thread = t /\ e.by = g /\ e.child = 0 /\ e.live /\ e.calls = none
    BY <1>2 DEF RunOf
  <1> QED BY <1>1, <1>3

\* Where no root run of l is entered, none of its runs is on the stack.
LEMMA NoneOpen ==
    ASSUME IInv, NEW g \in Goroutine, on[g] # None, NEW s, s = stack[g],
           s # <<>> => s[Len(s)].phase = "in", NEW l \in Lib, ~Has(roots, l, on[g])
    PROVE  \A i \in 1..Len(s) : ~OpenOf(s, runs, i, l)
  <1>1. Nested(s, runs, g, on[g]) /\ Len(s) \in Nat
    BY Facts
  <1>2. \A i \in 1..Len(s) : ~RootedAt(s, runs, l, i)
    BY DEF IInv, RootsFollow
  <1>3. ASSUME NEW i \in 1..Len(s), s[i].kind = "run", runs[s[i].run].lib = l PROVE FALSE
    <2>1. s[i].phase # "left"
      BY <1>1 DEF Nested, Phased
    <2> QED BY <1>2, <1>3, <2>1 DEF RootedAt
  <1>4. ASSUME NEW i \in 1..Len(s), OpenOf(s, runs, i, l) PROVE FALSE
    <2>1. s[i].kind = "run" \/ s[i].kind = "scope"
      BY <1>4 DEF OpenOf, IsOpen, Opened
    <2>2. RunStands(s, runs, g, on[g], i) /\ runs[s[i].run].lib = l
      BY <1>1, <1>4 DEF Nested, Stands, OpenOf
    <2>3. CASE s[i].kind = "run"
      BY <1>3, <2>2, <2>3
    <2>4. CASE s[i].kind = "scope"
      <3>1. PICK j \in 1..(i - 1) : s[j].kind = "run" /\ runs[s[j].run].lib = l
        BY <2>2, <2>4 DEF RunStands
      <3>2. j \in 1..Len(s)
        BY <1>1
      <3> QED BY <1>3, <3>1, <3>2, SMTT(30)
    <2> QED BY <2>1, <2>3, <2>4
  <1> QED BY <1>4

\* With one more of keys that are all different, which it is not among.
Gains(keys, more, l, t) ==
    /\ more \in Seq(KeyOf) /\ \A i, j \in 1..Len(more) : more[i] = more[j] => i = j
    /\ \A k, v : Has(more, k, v) <=> Has(keys, k, v) \/ (k = l /\ v = t)

LEMMA HasWith ==
    ASSUME NEW keys \in Seq(KeyOf), \A i, j \in 1..Len(keys) : keys[i] = keys[j] => i = j,
           NEW l \in Lib, NEW t \in Thread, ~Has(keys, l, t),
           NEW key, key = [identity |-> l, thread |-> t], NEW more, more = Append(keys, key)
    PROVE  Gains(keys, more, l, t)
  <1>1. key \in KeyOf /\ key = [identity |-> l, thread |-> t]
    BY DEF KeyOf
  <1>2. /\ more \in Seq(KeyOf) /\ Len(keys) \in Nat /\ Len(more) = Len(keys) + 1
        /\ \A j \in 1..Len(keys) : more[j] = keys[j]
        /\ more[Len(keys) + 1] = key
    BY <1>1, AppendIs
  <1>3. \A j \in 1..Len(keys) : keys[j] # key
    BY <1>1 DEF Has
  <1>4. \A j \in 1..Len(more) : j \in 1..Len(keys) \/ j = Len(keys) + 1
    BY <1>2
  <1>5. \A i, j \in 1..Len(more) : more[i] = more[j] => i = j
    BY <1>2, <1>3, <1>4
  <1>6. ASSUME NEW k, NEW v PROVE Has(more, k, v) <=> Has(keys, k, v) \/ (k = l /\ v = t)
    <2>1. key = [identity |-> k, thread |-> v] <=> k = l /\ v = t
      BY <1>1
    <2>2. \A j \in 1..Len(keys) : j \in 1..Len(more)
      BY <1>2
    <2>3. Len(keys) + 1 \in 1..Len(more)
      BY <1>2
    <2> QED BY <1>2, <1>4, <2>1, <2>2, <2>3 DEF Has
  <1> QED BY <1>2, <1>5, <1>6 DEF Gains

LEMMA EnterRunStep ==
    ASSUME IInv, NEW g \in Goroutine, NEW l \in Lib, EnterRun(g, l)
    PROVE  IInv'
  <1>1. /\ on[g] # None /\ raising[g] = Nothing /\ asked[g] = 0
        /\ stack[g] # <<>> => Top(g).kind # "call" /\ Top(g).phase = "in"
    BY DEF EnterRun, InHost
  <1>2. PICK s \in Seq(FrameOf) : s = stack[g]
    BY Facts
  <1>3. InCode(s) /\ (s # <<>> => s[Len(s)].phase = "in")
    BY <1>1, <1>2 DEF InCode, Top, Last
  <1>4. UNCHANGED <<on, asked, raising, reads>>
    BY DEF EnterRun
  <1>5. PICK t \in Thread : t = on[g]
    BY <1>1 DEF IInv, TypeOK
  <1>6. CASE Entered(l, on[g])
    <2>1. Answers(g, "ErrAlreadyRunning") /\ UNCHANGED <<locks, stack, roots, runs, scopes>>
      BY <1>6 DEF EnterRun
    <2>2. answer' \in [Goroutine -> Told]
      BY <2>1 DEF Answers, Told, IInv, TypeOK
    <2>3. TypeOK'
      BY <2>1, <2>2, <1>4 DEF IInv, TypeOK
    <2>4. Others(g)
      BY <2>1, <1>4 DEF Others
    <2>5. Asks(asked'[g], raising'[g], stack[g], runs)
      BY <1>4, Facts
    <2>6. UNCHANGED <<on, locks, stack, roots, runs, scopes, reads>>
      BY <2>1, <1>4
    <2> QED BY <2>3, <2>4, <2>5, <2>6, QuietStep
  <1>7. CASE ~Entered(l, on[g])
    <2>1. /\ Lock(g) /\ roots' = Append(roots, [identity |-> l, thread |-> t])
          /\ Within("run", g, l) /\ runs' = Append(runs, Opening(g, l, t)) /\ Answers(g, Nothing)
      BY <1>5, <1>7 DEF EnterRun
    <2>2. PICK n : n = Len(runs) + 1
      OBVIOUS
    <2>3. PICK kind \in Opened : kind = "run"
      BY DEF Opened
    <2>4. PICK f : OnStack(g, s, f, kind, n) /\ InArena(t, l, n)
      <3>1. Within(kind, g, l)
        BY <2>1, <2>3
      <3> QED BY <1>2, <1>5, <2>2, <3>1, WithinIs
    <2>5. Topped(FrameOf, s, f, stack'[g]) /\ f.kind = kind /\ f.phase = "in" /\ f.run = n
      BY <2>4 DEF OnStack
    <2>6. PICK e : e = Opening(g, l, t)
      OBVIOUS
    <2>7. /\ e \in RunOf /\ e.lib = l /\ e.thread = t /\ e.by = g /\ e.child = 0 /\ e.live
          /\ Len(e.calls) = 0
      BY <2>6, OpeningIs
    <2>8. runs \in Seq(RunOf) /\ Len(runs) \in Nat /\ Nested(s, runs, g, t) /\ OfRuns(s, runs, g)
      BY <1>2, <1>5, Facts
    <2>9. /\ runs' \in Seq(RunOf) /\ Len(runs') = n /\ n \in Nat /\ runs'[n] = e
          /\ \A m \in 1..Len(runs) : runs'[m] = runs[m]
      BY <2>1, <2>2, <2>6, <2>7, <2>8, AppendIs
    <2>10. roots \in Seq(KeyOf) /\ \A i, j \in 1..Len(roots) : roots[i] = roots[j] => i = j
      BY DEF IInv, TypeOK, RootsFollow
    <2>11. ~Has(roots, l, t)
      <3>1. DOMAIN roots = 1..Len(roots)
        BY <2>10
      <3> QED BY <1>5, <1>7, <3>1 DEF Entered, Has
    <2>12. /\ roots' \in Seq(KeyOf) /\ \A i, j \in 1..Len(roots') : roots'[i] = roots'[j] => i = j
           /\ \A k, v : Has(roots', k, v) <=> Has(roots, k, v) \/ (k = l /\ v = t)
      <3>1. PICK key : key = [identity |-> l, thread |-> t]
        OBVIOUS
      <3>2. roots' = Append(roots, key)
        BY <2>1, <3>1
      <3>3. Gains(roots, roots', l, t)
        BY <2>10, <2>11, <3>1, <3>2, HasWith
      <3> QED BY <3>3 DEF Gains
    <2>13. \A i \in 1..Len(s) : ~OpenOf(s, runs, i, l)
      BY <1>1, <1>2, <1>3, <1>5, <2>11, NoneOpen
    <2>14. Opens(runs, runs', s, g, l, t)
      <3>1. ASSUME NEW i \in 1..Len(s), IsOpen(s, i)
            PROVE  runs'[s[i].run].child = IF runs[s[i].run].child = 0 /\ runs[s[i].run].lib = l
                                           THEN Len(runs') ELSE runs[s[i].run].child
        <4>1. s[i].run \in 1..Len(runs)
          BY <2>8 DEF OfRuns
        <4>2. runs[s[i].run].lib # l
          BY <2>13, <3>1 DEF OpenOf
        <4> QED BY <2>9, <4>1, <4>2
      <3> QED BY <2>2, <2>7, <2>8, <2>9, <3>1 DEF Opens
    <2>15. Changes(g, runs, runs')
      <3>1. \A m \in (Len(runs) + 1)..Len(runs') : m = n
        BY <2>2, <2>8, <2>9
      <3> QED BY <2>2, <2>7, <2>8, <2>9, <3>1 DEF Changes
    <2>16. ChildrenLater(runs')
      <3>1. ChildrenLater(runs)
        BY DEF IInv
      <3>2. ASSUME NEW m \in 1..Len(runs'), runs'[m].child # 0
            PROVE  runs'[m].child \in (m + 1)..Len(runs') /\ runs'[runs'[m].child].by = runs'[m].by
        <4>1. m \in 1..Len(runs)
          BY <2>2, <2>7, <2>8, <2>9, <3>2
        <4>2. runs[m].child \in (m + 1)..Len(runs) /\ runs[runs[m].child].by = runs[m].by
          BY <2>9, <3>1, <3>2, <4>1 DEF ChildrenLater
        <4>3. runs[m].child \in 1..Len(runs) /\ runs[m].child \in (m + 1)..Len(runs')
          BY <2>2, <2>8, <2>9, <4>2, SMTT(30)
        <4> QED BY <2>9, <4>1, <4>2, <4>3, SMTT(30)
      <3> QED BY <3>2 DEF ChildrenLater
    <2>17. /\ locks' \in [Goroutine -> Nat] /\ locks'[g] = Roots(stack'[g], Len(stack'[g]))
           /\ \A h \in Goroutine : h # g => locks'[h] = locks[h]
      <3>1. locks \in [Goroutine -> Nat] /\ locks[g] = Roots(s, Len(s))
        BY <1>2 DEF IInv, TypeOK, Placed
      <3>2. Roots(stack'[g], Len(stack'[g])) = Roots(s, Len(s)) + 1
        BY <2>3, <2>5, RootsTopped
      <3>3. locks' = [locks EXCEPT ![g] = locks[g] + 1]
        BY <2>1 DEF Lock
      <3> QED BY <3>1, <3>2, <3>3
    <2>18. answer' \in [Goroutine -> Told]
      BY <2>1 DEF Answers, Told, IInv, TypeOK
    <2>19. TypeOK'
      BY <1>4, <2>4, <2>9, <2>12, <2>17, <2>18 DEF IInv, TypeOK, OnStack, InArena
    <2>20. \A h \in Goroutine : h # g => stack'[h] = stack[h] /\ locks'[h] = locks[h] /\ asked'[h] = asked[h]
      BY <1>4, <2>4, <2>17 DEF OnStack
    <2>21. \A m \in 1..Len(runs) : runs[m].room => runs'[m].room
      BY <2>9
    <2>22. PICK u : u = stack'[g]
      OBVIOUS
    <2>23. /\ Topped(FrameOf, s, f, u) /\ f.kind \in Opened /\ f.phase = "in" /\ f.run = Len(runs')
           /\ f.kind = "run" /\ f.kind # "scope" /\ locks'[g] = Roots(u, Len(u))
      BY <2>3, <2>5, <2>9, <2>17, <2>22
    <2>24. \A k \in Lib : scopes'[t][k] = IF k = l THEN Append(scopes[t][k], Len(runs')) ELSE scopes[t][k]
      BY <2>4, <2>9 DEF InArena
    <2>25. \A v \in Thread : v # t => scopes'[v] = scopes[v]
      BY <2>4 DEF InArena
    <2>26. UNCHANGED <<on, raising, reads>> /\ asked'[g] = 0 /\ raising[g] = Nothing /\ t # None
      BY <1>1, <1>4, <1>5
    <2>27. /\ \A i, j \in 1..Len(roots') : roots'[i] = roots'[j] => i = j
           /\ \A k \in Lib : \A v \in Thread :
                Has(roots', k, v) <=> Has(roots, k, v) \/ (f.kind = "run" /\ k = l /\ v = t)
      BY <2>12, <2>23
    <2> QED BY <1>2, <1>3, <1>5, <2>13, <2>14, <2>15, <2>16, <2>19, <2>20, <2>21, <2>22, <2>23, <2>24,
               <2>25, <2>26, <2>27, OpenStep, SMTT(30)
  <1> QED BY <1>6, <1>7

LEMMA EnterScopeStep ==
    ASSUME IInv, NEW g \in Goroutine, EnterScope(g), ~strayed'
    PROVE  IInv'
  <1>1. MayMake(g) /\ runs[asked[g]].live
    BY DEF EnterScope, Straying
  <1>2. PICK s \in Seq(FrameOf) : s = stack[g]
    BY Facts
  <1>3. PICK r : r = asked[g]
    OBVIOUS
  <1>4. /\ r \in 1..Len(runs) /\ runs[r].by = g /\ runs[r].live
        /\ runs[r].thread = on[g] /\ runs[r].child = 0
        /\ raising[g] = Nothing /\ on[g] \in Thread /\ on[g] # None
        /\ InCode(s) /\ s # <<>> /\ s[Len(s)].phase = "in"
    BY <1>1, <1>2, <1>3, Made
  <1>5. PICK at \in 1..Len(s) :
            /\ IsOpen(s, at) /\ s[at].run = r
            /\ \A j \in (at + 1)..Len(s) : ~OpenOf(s, runs, j, runs[r].lib)
    BY <1>1, <1>2, <1>3, Made
  <1>6. PICK t \in Thread : t = on[g]
    BY <1>4
  <1>7. runs \in Seq(RunOf) /\ Len(runs) \in Nat /\ Nested(s, runs, g, t) /\ OfRuns(s, runs, g) /\ runs[r] \in RunOf
    BY <1>2, <1>4, <1>6, Facts
  <1>8. PICK l \in Lib : l = runs[r].lib
    BY <1>7 DEF RunOf
  <1>9. PICK n : n = Len(runs) + 1
    OBVIOUS
  <1>10. PICK kind \in Opened : kind = "scope"
    BY DEF Opened
  <1>11. UNCHANGED <<on, locks, raising, answer, roots, reads>>
    BY DEF EnterScope
  <1>12. PICK f : OnStack(g, s, f, kind, n) /\ InArena(t, l, n)
    <2>1. Within(kind, g, l)
      BY <1>3, <1>8, <1>10 DEF EnterScope
    <2> QED BY <1>2, <1>6, <1>9, <2>1, WithinIs
  <1>13. Topped(FrameOf, s, f, stack'[g]) /\ f.kind = kind /\ f.phase = "in" /\ f.run = n
    BY <1>12 DEF OnStack
  <1>14. PICK e : e = Opening(g, l, t)
    OBVIOUS
  <1>15. /\ e \in RunOf /\ e.lib = l /\ e.thread = t /\ e.by = g /\ e.child = 0 /\ e.live
         /\ Len(e.calls) = 0
    BY <1>14, OpeningIs
  <1>16. PICK outer : outer = [runs[r] EXCEPT !.child = n]
    OBVIOUS
  <1>17. /\ outer \in RunOf /\ outer.lib = runs[r].lib /\ outer.thread = runs[r].thread /\ outer.by = runs[r].by
         /\ outer.child = n /\ outer.live = runs[r].live /\ outer.calls = runs[r].calls
         /\ outer.room = runs[r].room
    <2>1. PICK o \in RunOf, m \in Nat : o = runs[r] /\ m = n
      BY <1>7, <1>9
    <2>2. outer = [o EXCEPT !.child = m]
      BY <1>16, <2>1
    <2>3. /\ outer \in RunOf /\ outer.lib = o.lib /\ outer.thread = o.thread /\ outer.by = o.by
          /\ outer.child = m /\ outer.live = o.live /\ outer.calls = o.calls /\ outer.room = o.room
      BY <2>2 DEF RunOf
    <2> QED BY <2>1, <2>3
  <1>18. PICK mid : mid = [runs EXCEPT ![r] = outer]
    OBVIOUS
  <1>19. /\ mid \in Seq(RunOf) /\ Len(mid) = Len(runs) /\ mid[r] = outer
         /\ \A m \in 1..Len(runs) : m # r => mid[m] = runs[m]
    BY <1>4, <1>7, <1>17, <1>18, RunsExcept
  <1>20. runs' = Append(mid, e)
    <2>1. runs' = Append([runs EXCEPT ![r].child = n], Opening(g, runs[r].lib, runs[r].thread))
      BY <1>3, <1>9 DEF EnterScope
    <2>2. Opening(g, runs[r].lib, runs[r].thread) = e
      BY <1>4, <1>6, <1>8, <1>14
    <2>3. [runs EXCEPT ![r].child = n] = mid
      BY <1>16, <1>18
    <2> QED BY <2>1, <2>2, <2>3
  <1>21. /\ runs' \in Seq(RunOf) /\ Len(runs') = n /\ n \in Nat /\ runs'[n] = e
         /\ \A m \in 1..Len(runs) : runs'[m] = mid[m]
    BY <1>7, <1>9, <1>15, <1>19, <1>20, AppendIs
  <1>22. runs'[r] = outer /\ \A m \in 1..Len(runs) : m # r => runs'[m] = runs[m]
    BY <1>4, <1>19, <1>21
  <1>23. Opens(runs, runs', s, g, l, t)
    <2>1. ASSUME NEW i \in 1..Len(s), IsOpen(s, i)
          PROVE  runs'[s[i].run].child = IF runs[s[i].run].child = 0 /\ runs[s[i].run].lib = l
                                         THEN Len(runs') ELSE runs[s[i].run].child
      <3>1. s[i].run \in 1..Len(runs) /\ Len(s) \in Nat
        BY <1>7 DEF OfRuns
      <3>2. CASE s[i].run = r
        BY <1>4, <1>8, <1>17, <1>21, <1>22, <3>2
      <3>3. CASE s[i].run # r
        <4>1. SUFFICES ASSUME runs[s[i].run].child = 0, runs[s[i].run].lib = l PROVE FALSE
          BY <1>22, <3>1, <3>3, SMTT(30)
        <4>2. Chained(s, runs, i)
          BY <1>7, <2>1 DEF Nested
        <4>3. \A j \in (i + 1)..Len(s) : ~OpenOf(s, runs, j, l)
          BY <4>1, <4>2 DEF Chained
        <4>4. OpenOf(s, runs, i, l) /\ OpenOf(s, runs, at, l)
          BY <1>5, <1>8, <2>1, <4>1 DEF OpenOf
        <4>5. i # at /\ ~(i > at) /\ ~(i < at)
          BY <1>5, <1>8, <3>1, <3>3, <4>3, <4>4
        <4> QED BY <4>5
      <3> QED BY <3>2, <3>3
    <2>2. \A m \in 1..Len(runs) :
            /\ runs'[m].lib = runs[m].lib /\ runs'[m].thread = runs[m].thread /\ runs'[m].by = runs[m].by
            /\ (runs'[m].live <=> runs[m].live) /\ runs'[m].calls = runs[m].calls
      BY <1>17, <1>22
    <2> QED BY <1>7, <1>9, <1>15, <1>21, <2>1, <2>2, Zenon DEF Opens
  <1>24. Changes(g, runs, runs')
    <2>1. \A m \in (Len(runs) + 1)..Len(runs') : m = n
      BY <1>7, <1>9, <1>21
    <2>2. \A m \in 1..Len(runs) :
            /\ runs'[m].lib = runs[m].lib /\ runs'[m].thread = runs[m].thread /\ runs'[m].by = runs[m].by
            /\ runs[m].by # g => runs'[m] = runs[m]
      BY <1>4, <1>17, <1>22
    <2> QED BY <1>7, <1>9, <1>15, <1>21, <2>1, <2>2 DEF Changes
  <1>25. ChildrenLater(runs')
    <2>1. ChildrenLater(runs)
      BY DEF IInv
    <2>2. ASSUME NEW m \in 1..Len(runs'), runs'[m].child # 0
          PROVE  runs'[m].child \in (m + 1)..Len(runs') /\ runs'[runs'[m].child].by = runs'[m].by
      <3>1. m \in 1..Len(runs)
        BY <1>7, <1>9, <1>15, <1>21, <2>2
      <3>2. CASE m = r
        <4>1. runs'[m].child = n /\ runs'[m].by = g
          BY <1>4, <1>17, <1>22, <3>2
        <4>2. n \in (m + 1)..Len(runs')
          BY <1>7, <1>9, <1>21, <3>1
        <4> QED BY <1>15, <1>21, <4>1, <4>2
      <3>3. CASE m # r
        <4>1. runs'[m] = runs[m]
          BY <1>22, <3>1, <3>3
        <4>2. runs[m].child \in (m + 1)..Len(runs) /\ runs[runs[m].child].by = runs[m].by
          BY <2>1, <2>2, <3>1, <4>1 DEF ChildrenLater
        <4>3. runs[m].child \in 1..Len(runs) /\ runs[m].child \in (m + 1)..Len(runs')
          BY <1>7, <1>9, <1>21, <4>2, SMTT(30)
        <4>4. runs'[runs[m].child].by = runs[runs[m].child].by
          BY <1>24, <4>3 DEF Changes
        <4> QED BY <4>1, <4>2, <4>3, <4>4
      <3> QED BY <3>2, <3>3
    <2> QED BY <2>2 DEF ChildrenLater
  <1>26. locks'[g] = Roots(stack'[g], Len(stack'[g]))
    <2>1. locks[g] = Roots(s, Len(s))
      BY <1>2 DEF IInv, Placed
    <2>2. f.kind # "run"
      BY <1>10, <1>13
    <2>3. Roots(stack'[g], Len(stack'[g])) = Roots(s, Len(s))
      BY <1>13, <2>2, RootsTopped
    <2> QED BY <1>11, <2>1, <2>3
  <1>27. \E i \in 1..Len(s) : s[i].kind = "run" /\ runs[s[i].run].lib = l
    <2>1. RunStands(s, runs, g, t, at) /\ runs[s[at].run].lib = l
      BY <1>5, <1>7, <1>8 DEF Nested, Stands
    <2>2. s[at].kind = "run" \/ s[at].kind = "scope"
      BY <1>5 DEF IsOpen, Opened
    <2>3. CASE s[at].kind = "run"
      BY <2>1, <2>3
    <2>4. CASE s[at].kind = "scope"
      <3>1. PICK j \in 1..(at - 1) : s[j].kind = "run" /\ runs[s[j].run].lib = l
        BY <2>1, <2>4 DEF RunStands
      <3>2. j \in 1..Len(s)
        BY <1>2
      <3> QED BY <3>1, <3>2
    <2> QED BY <2>2, <2>3, <2>4
  <1>28. /\ asked' \in [Goroutine -> Nat] /\ asked'[g] = 0 /\ \A h \in Goroutine : h # g => asked'[h] = asked[h]
    BY DEF EnterScope, AskedNothing, IInv, TypeOK
  <1>29. TypeOK'
    BY <1>11, <1>12, <1>21, <1>28 DEF IInv, TypeOK, OnStack, InArena
  <1>30. \A h \in Goroutine : h # g => stack'[h] = stack[h] /\ locks'[h] = locks[h] /\ asked'[h] = asked[h]
    BY <1>11, <1>12, <1>28 DEF OnStack
  <1>31. \A m \in 1..Len(runs) : runs[m].room => runs'[m].room
    BY <1>17, <1>22
  <1>32. PICK u : u = stack'[g]
    OBVIOUS
  <1>33. /\ Topped(FrameOf, s, f, u) /\ f.kind \in Opened /\ f.phase = "in" /\ f.run = Len(runs')
         /\ f.kind = "scope" /\ f.kind # "run" /\ locks'[g] = Roots(u, Len(u))
    BY <1>10, <1>13, <1>21, <1>26, <1>32
  <1>34. \A k \in Lib : scopes'[t][k] = IF k = l THEN Append(scopes[t][k], Len(runs')) ELSE scopes[t][k]
    BY <1>12, <1>21 DEF InArena
  <1>35. \A v \in Thread : v # t => scopes'[v] = scopes[v]
    BY <1>12 DEF InArena
  <1>36. UNCHANGED <<on, raising, reads>> /\ asked'[g] = 0 /\ raising[g] = Nothing /\ t # None
    BY <1>4, <1>6, <1>11, <1>28
  <1>37. /\ \A i, j \in 1..Len(roots') : roots'[i] = roots'[j] => i = j
         /\ \A k \in Lib : \A v \in Thread :
              Has(roots', k, v) <=> Has(roots, k, v) \/ (f.kind = "run" /\ k = l /\ v = t)
    BY <1>11, <1>33 DEF IInv, RootsFollow
  <1>38. InCode(s) /\ s # <<>> /\ s[Len(s)].phase = "in"
    BY <1>4
  <1>39. /\ s # <<>> => s[Len(s)].phase = "in"
         /\ s = <<>> => f.kind = "run"
         /\ f.kind = "run" => \A i \in 1..Len(s) : ~OpenOf(s, runs, i, l)
         /\ f.kind = "scope" => \E i \in 1..Len(s) : s[i].kind = "run" /\ runs[s[i].run].lib = l
    BY <1>27, <1>33, <1>38
  <1>40. InCode(s) /\ f.kind \in Opened /\ f.phase = "in" /\ f.run = Len(runs') /\ Topped(FrameOf, s, f, u)
         /\ locks'[g] = Roots(u, Len(u))
    BY <1>33, <1>38
  <1> QED BY <1>2, <1>6, <1>23, <1>24, <1>25, <1>29, <1>30, <1>31, <1>32, <1>34,
             <1>35, <1>36, <1>37, <1>39, <1>40, OpenStep, SMTT(60)

-----------------------------------------------------------------------------
(* The scheduler.                                                          *)

\* Only a goroutine with no run open is moved.
LEMMA MoveStep ==
    ASSUME IInv, NEW g \in Goroutine, NEW t \in Thread \cup {None}, Move(g, t)
    PROVE  IInv'
  <1>1. locks[g] = 0 /\ t # on[g] /\ (t # None => \A h \in Goroutine : on[h] # t)
    BY DEF Move
  <1>2. on' = [on EXCEPT ![g] = t] /\ UNCHANGED <<locks, stack, asked, raising, answer, roots, runs, scopes, reads>>
    BY DEF Move
  <1>3. on'[g] = t /\ \A h \in Goroutine : h # g => on'[h] = on[h]
    BY <1>2 DEF IInv, TypeOK
  <1>4. TypeOK'
    BY <1>2 DEF IInv, TypeOK
  <1>5. PICK s \in Seq(FrameOf) : s = stack[g]
    BY Facts
  <1>6. Len(s) = 0 /\ s = <<>>
    <2>1. Roots(s, Len(s)) = 0 /\ Nested(s, runs, g, on[g]) /\ Len(s) \in Nat
      BY <1>1, <1>5, Facts DEF IInv, Placed
    <2>2. Len(s) # 0 => s[1].kind = "run"
      BY <2>1 DEF Nested, Stands
    <2>3. ~(Len(s) # 0 /\ s[1].kind = "run")
      BY <2>1, RootsNext
    <2> QED BY <2>2, <2>3
  <1>7. ASSUME NEW h \in Goroutine PROVE Nested(stack'[h], runs', h, on'[h])
    <2>1. Nested(stack[h], runs, h, on[h])
      BY DEF IInv
    <2>2. CASE h = g
      <3>1. LiveIn(s, runs, g)
        BY <1>5, <2>1, <2>2 DEF Nested
      <3>2. Phased(s)
        BY <1>5, <2>1, <2>2 DEF Nested
      <3>3. PICK m : m = Len(s) /\ m = 0
        BY <1>6
      <3>4. \A i \in 1..m : FALSE
        BY <3>3
      <3>5. Nested(s, runs, g, t)
        BY <3>1, <3>2, <3>3, <3>4 DEF Nested
      <3> QED BY <1>2, <1>3, <1>5, <2>2, <3>5
    <2>3. CASE h # g
      BY <1>2, <1>3, <2>1, <2>3
    <2> QED BY <2>2, <2>3
  <1>8. Placed'
    <2>1. \A h \in Goroutine : locks'[h] = Roots(stack'[h], Len(stack'[h]))
      BY <1>2 DEF IInv, Placed
    <2>2. \A h \in Goroutine : stack'[h] # <<>> => on'[h] # None
      BY <1>2, <1>3, <1>5, <1>6 DEF IInv, Placed
    <2>3. \A h, k \in Goroutine : on'[h] = on'[k] /\ on'[h] # None => h = k
      BY <1>1, <1>3 DEF IInv, Placed
    <2> QED BY <2>1, <2>2, <2>3 DEF Placed
  <1>9. ASSUME NEW h \in Goroutine PROVE Asks(asked'[h], raising'[h], stack'[h], runs')
    <2>1. Asks(asked[h], raising[h], stack[h], runs)
      BY DEF IInv
    <2> QED BY <1>2, <2>1
  <1>10. ASSUME NEW h \in Goroutine, on'[h] # None, NEW l \in Lib
         PROVE  Fits(scopes'[on'[h]][l], stack'[h], runs', l)
    <2>1. CASE h = g
      <3>1. t \in Thread /\ on'[h] = t
        BY <1>3, <1>10, <2>1
      <3>2. scopes[t][l] = <<>>
        BY <1>1, <1>3, <1>10, <2>1, <3>1 DEF IInv, ScopesFollow
      <3>3. PICK up : up = <<>> /\ Len(up) = 0
        OBVIOUS
      <3>4. Fits(up, s, runs, l)
        BY <1>6, <3>3 DEF Fits
      <3> QED BY <1>2, <1>5, <2>1, <3>1, <3>2, <3>3, <3>4
    <2>2. CASE h # g
      <3>1. on'[h] = on[h] /\ on[h] # None
        BY <1>3, <1>10, <2>2
      <3>2. Fits(scopes[on[h]][l], stack[h], runs, l)
        BY <3>1 DEF IInv, ScopesFollow
      <3> QED BY <1>2, <3>1, <3>2
    <2> QED BY <2>1, <2>2
  <1>11. ASSUME NEW v \in Thread, \A h \in Goroutine : on'[h] # v, NEW l \in Lib PROVE scopes'[v][l] = <<>>
    <2>1. CASE v = on[g]
      <3>1. v # None
        BY NoThreadAssumption
      <3>2. PICK up \in Seq(Nat) : up = scopes[v][l]
        BY DEF IInv, TypeOK
      <3>3. Fits(up, s, runs, l)
        BY <1>5, <2>1, <3>1, <3>2 DEF IInv, ScopesFollow
      <3>4. \A m \in 1..Len(up) : FALSE
        BY <1>6, <3>3 DEF Fits
      <3>5. up = <<>>
        BY <3>4
      <3> QED BY <1>2, <3>2, <3>5
    <2>2. CASE v # on[g]
      <3>1. \A h \in Goroutine : on[h] # v
        BY <1>3, <1>11, <2>2
      <3> QED BY <1>2, <3>1 DEF IInv, ScopesFollow
    <2> QED BY <2>1, <2>2
  <1>12. ScopesFollow'
    BY <1>10, <1>11 DEF ScopesFollow
  <1>13. \A i \in 1..Len(roots) : roots[i] \in KeyOf /\ \E h \in Goroutine : h # g /\ on[h] = roots[i].thread
    <2> SUFFICES ASSUME NEW i \in 1..Len(roots)
                 PROVE  roots[i] \in KeyOf /\ \E h \in Goroutine : h # g /\ on[h] = roots[i].thread
      OBVIOUS
    <2>1. PICK key \in KeyOf : key = roots[i]
      BY DEF IInv, TypeOK
    <2>2. PICK h \in Goroutine : on[h] = key.thread
      BY <2>1 DEF IInv, RootsFollow
    <2>3. PICK l \in Lib, v \in Thread : key = [identity |-> l, thread |-> v] /\ v = key.thread
      BY <2>1 DEF KeyOf
    <2>4. Has(roots, l, v)
      BY <2>1, <2>3 DEF Has
    <2>5. h # g
      <3> SUFFICES ASSUME h = g PROVE FALSE
        OBVIOUS
      <3>1. on[g] = v /\ v # None
        BY <2>2, <2>3, NoThreadAssumption
      <3>2. \E j \in 1..Len(stack[g]) : RootedAt(stack[g], runs, l, j)
        BY <2>4, <3>1 DEF IInv, RootsFollow
      <3> QED BY <1>5, <1>6, <3>2
    <2> QED BY <2>1, <2>2, <2>5
  <1>14. ASSUME NEW h \in Goroutine, on'[h] # None, NEW l \in Lib
         PROVE  Has(roots', l, on'[h]) <=> \E i \in 1..Len(stack'[h]) : RootedAt(stack'[h], runs', l, i)
    <2>1. CASE h = g
      <3>1. on'[h] = t /\ t # None
        BY <1>3, <1>14, <2>1
      <3>2. ~Has(roots, l, t)
        <4> SUFFICES ASSUME Has(roots, l, t) PROVE FALSE
          OBVIOUS
        <4>1. PICK i \in 1..Len(roots) : roots[i] = [identity |-> l, thread |-> t]
          BY DEF Has
        <4>2. roots[i].thread = t
          BY <4>1
        <4> QED BY <1>1, <1>13, <3>1, <4>2
      <3>3. \A i \in 1..Len(s) : FALSE
        BY <1>6
      <3>4. stack'[h] = s /\ roots' = roots
        BY <1>2, <1>5, <2>1
      <3>5. ~\E i \in 1..Len(stack'[h]) : RootedAt(stack'[h], runs', l, i)
        BY <3>3, <3>4
      <3> QED BY <3>1, <3>2, <3>4, <3>5
    <2>2. CASE h # g
      <3>1. on'[h] = on[h] /\ on[h] # None
        BY <1>3, <1>14, <2>2
      <3>2. Has(roots, l, on[h]) <=> \E i \in 1..Len(stack[h]) : RootedAt(stack[h], runs, l, i)
        BY <3>1 DEF IInv, RootsFollow
      <3> QED BY <1>2, <3>1, <3>2
    <2> QED BY <2>1, <2>2
  <1>15. RootsFollow'
    <2>1. \A i, j \in 1..Len(roots') : roots'[i] = roots'[j] => i = j
      BY <1>2 DEF IInv, RootsFollow
    <2>2. \A i \in 1..Len(roots') : \E h \in Goroutine : on'[h] = roots'[i].thread
      BY <1>2, <1>3, <1>13
    <2> QED BY <2>1, <2>2, <1>14 DEF RootsFollow
  <1>16. ReadsStand' /\ ChildrenLater(runs')
    BY <1>2 DEF IInv, ReadsStand
  <1> QED BY <1>4, <1>7, <1>8, <1>9, <1>12, <1>15, <1>16 DEF IInv

-----------------------------------------------------------------------------
(* The invariant.                                                          *)

LEMMA InitIInv == Init => IInv
  <1> SUFFICES ASSUME Init PROVE IInv
    OBVIOUS
  <1>1. /\ on = [g \in Goroutine |-> None] /\ locks = [g \in Goroutine |-> 0]
        /\ stack = [g \in Goroutine |-> <<>>] /\ asked = [g \in Goroutine |-> 0]
        /\ raising = [g \in Goroutine |-> Nothing] /\ answer = [g \in Goroutine |-> Nothing]
        /\ roots = <<>> /\ runs = <<>> /\ reads = {}
        /\ scopes = [t \in Thread |-> [l \in Lib |-> <<>>]]
    BY DEF Init
  <1>2. PICK s : s = <<>> /\ Len(s) = 0
    OBVIOUS
  <1>3. s \in Seq(FrameOf) /\ s \in Seq(KeyOf) /\ s \in Seq(RunOf) /\ s \in Seq(Nat)
    BY <1>2
  <1>4. TypeOK
    <2>1. on \in [Goroutine -> Thread \cup {None}] /\ locks \in [Goroutine -> Nat] /\ asked \in [Goroutine -> Nat]
      BY <1>1
    <2>2. stack \in [Goroutine -> Seq(FrameOf)] /\ roots \in Seq(KeyOf) /\ runs \in Seq(RunOf)
      BY <1>1, <1>2, <1>3
    <2>3. raising \in [Goroutine -> {Nothing, "panicked"}] /\ answer \in [Goroutine -> Told]
      BY <1>1 DEF Told
    <2>4. scopes \in [Thread -> [Lib -> Seq(Nat)]]
      BY <1>1, <1>2, <1>3
    <2>5. reads \in SUBSET ReadOf
      BY <1>1
    <2> QED BY <2>1, <2>2, <2>3, <2>4, <2>5 DEF TypeOK
  <1>5. \A g \in Goroutine : stack[g] = s /\ runs = s /\ roots = s /\ on[g] = None /\ locks[g] = 0 /\ asked[g] = 0
                             /\ raising[g] = Nothing
    BY <1>1, <1>2
  <1>6. runs = s /\ roots = s
    BY <1>1, <1>2
  <1>7. ASSUME NEW g \in Goroutine PROVE Nested(stack[g], runs, g, on[g])
    <2>1. Nested(s, s, g, on[g])
      BY <1>2 DEF Nested, Phased, LiveIn
    <2> QED BY <1>5, <2>1
  <1>8. ChildrenLater(runs)
    BY <1>2, <1>6 DEF ChildrenLater
  <1>9. Placed
    <2>1. Roots(s, 0) = 0
      BY RootsNext
    <2>2. \A g \in Goroutine : locks[g] = Roots(stack[g], Len(stack[g]))
      BY <1>2, <1>5, <2>1
    <2> QED BY <1>2, <1>5, <2>2 DEF Placed
  <1>10. \A g \in Goroutine : Asks(asked[g], raising[g], stack[g], runs)
    BY <1>5 DEF Asks
  <1>11. ScopesFollow
    BY <1>1, <1>5 DEF ScopesFollow
  <1>12. RootsFollow
    BY <1>2, <1>5, <1>6 DEF RootsFollow
  <1>13. ReadsStand
    BY <1>1 DEF ReadsStand
  <1> QED BY <1>4, <1>7, <1>8, <1>9, <1>10, <1>11, <1>12, <1>13 DEF IInv

LEMMA StutterIInv ==
    ASSUME IInv, UNCHANGED vars
    PROVE  IInv'
  BY DEF vars, IInv, TypeOK, Placed, ScopesFollow, RootsFollow, ReadsStand

LEMMA NextIInv ==
    ASSUME IInv, ~strayed', [Next]_vars
    PROVE  IInv'
  <1>1. CASE UNCHANGED vars
    BY <1>1, StutterIInv
  <1>2. CASE Next
    <2>1. PICK g \in Goroutine :
            \/ \E t \in Thread \cup {None} : Move(g, t)
            \/ \E l \in Lib : EnterRun(g, l)
            \/ \E n \in Run : AskLive(g, n) \/ CallBack(g, n)
            \/ Refused(g) \/ EnterScope(g) \/ Implement(g)
            \/ \E given \in {{}} \cup {{o} : o \in Run} : Call(g, given)
            \/ HostAnswers(g)
            \/ \E caught \in Caught : HostFails(g, caught)
            \/ \E status \in Statuses : Return(g, status)
            \/ Panics(g) \/ Recovers(g)
            \/ Expire(g) \/ CloseScope(g) \/ Release(g)
            \/ LeaveScope(g) \/ LeaveRoot(g) \/ Unlock(g)
      BY <1>2 DEF Next
    <2>2. CASE \E t \in Thread \cup {None} : Move(g, t)
      BY <2>2, MoveStep
    <2>3. CASE \E l \in Lib : EnterRun(g, l)
      BY <2>3, EnterRunStep
    <2>4. CASE \E n \in Run : AskLive(g, n) \/ CallBack(g, n)
      BY <2>4, AskLiveStep, CallBackStep
    <2>5. CASE Refused(g) \/ EnterScope(g) \/ Implement(g)
      BY <2>5, RefusedStep, EnterScopeStep, ImplementStep
    <2>6. CASE \E given \in {{}} \cup {{o} : o \in Run} : Call(g, given)
      <3>1. PICK given \in {{}} \cup {{o} : o \in Run} : Call(g, given)
        BY <2>6
      <3> QED BY <3>1, CallStep
    <2>7. CASE HostAnswers(g)
      BY <2>7, HostAnswersStep
    <2>8. CASE \E caught \in Caught : HostFails(g, caught)
      BY <2>8, HostFailsStep
    <2>9. CASE \E status \in Statuses : Return(g, status)
      BY <2>9, ReturnStep
    <2>10. CASE Panics(g) \/ Recovers(g)
      BY <2>10, PanicsStep, RecoversStep
    <2>11. CASE Expire(g) \/ CloseScope(g) \/ Release(g)
      BY <2>11, ExpireStep, CloseScopeStep, ReleaseStep
    <2>12. CASE LeaveScope(g) \/ LeaveRoot(g) \/ Unlock(g)
      BY <2>12, LeaveScopeStep, LeaveRootStep, UnlockStep
    <2> QED BY <2>1, <2>2, <2>3, <2>4, <2>5, <2>6, <2>7, <2>8, <2>9, <2>10, <2>11, <2>12
  <1> QED BY <1>1, <1>2

-----------------------------------------------------------------------------
(* What a call comes to.                                                   *)

\* What goroutine g does next.
Does(g) ==
    \/ \E t \in Thread \cup {None} : Move(g, t)
    \/ \E l \in Lib : EnterRun(g, l)
    \/ \E n \in Run : AskLive(g, n) \/ CallBack(g, n)
    \/ Refused(g) \/ EnterScope(g) \/ Implement(g)
    \/ \E given \in {{}} \cup {{o} : o \in Run} : Call(g, given)
    \/ HostAnswers(g)
    \/ \E caught \in Caught : HostFails(g, caught)
    \/ \E status \in Statuses : Return(g, status)
    \/ Panics(g) \/ Recovers(g)
    \/ Expire(g) \/ CloseScope(g) \/ Release(g)
    \/ LeaveScope(g) \/ LeaveRoot(g) \/ Unlock(g)

\* A goroutine's step leaves the stacks of the others.
LEMMA StackOfOthers ==
    ASSUME TypeOK, NEW g \in Goroutine, NEW h \in Goroutine, h # g, Does(g)
    PROVE  stack'[h] = stack[h]
  <1>1. stack \in [Goroutine -> Seq(FrameOf)]
    BY DEF TypeOK
  <1>2. CASE \E t \in Thread \cup {None} : Move(g, t)
    BY <1>2 DEF Move
  <1>3. CASE \E l \in Lib : EnterRun(g, l)
    BY <1>1, <1>3 DEF EnterRun, Within
  <1>4. CASE \E n \in Run : AskLive(g, n) \/ CallBack(g, n)
    BY <1>1, <1>4, SMTT(60) DEF AskLive, CallBack
  <1>5. CASE Refused(g) \/ EnterScope(g) \/ Implement(g)
    BY <1>1, <1>5 DEF Refused, EnterScope, Implement, Within
  <1>6. CASE \E given \in {{}} \cup {{o} : o \in Run} : Call(g, given)
    <2>1. PICK given : Call(g, given)
      BY <1>6
    <2> QED BY <1>1, <2>1 DEF Call
  <1>7. CASE HostAnswers(g)
    BY <1>1, <1>7 DEF HostAnswers
  <1>8. CASE \E caught \in Caught : HostFails(g, caught)
    <2>1. PICK caught : HostFails(g, caught)
      BY <1>8
    <2>2. \E s : stack' = [stack EXCEPT ![g] = s]
      BY <2>1 DEF HostFails
    <2> QED BY <1>1, <2>2
  <1>9. CASE \E status \in Statuses : Return(g, status)
    BY <1>1, <1>9 DEF Return, Dropped
  <1>10. CASE Panics(g) \/ Recovers(g)
    BY <1>10 DEF Panics, Recovers
  <1>11. CASE Expire(g) \/ CloseScope(g) \/ Release(g) \/ LeaveRoot(g)
    <2>1. \E phase : ComesTo(g, phase)
      <3>1. CASE Expire(g)
        BY <3>1, SMTT(30) DEF Expire
      <3>2. CASE CloseScope(g)
        BY <3>2 DEF CloseScope
      <3>3. CASE Release(g)
        BY <3>3 DEF Release
      <3>4. CASE LeaveRoot(g)
        BY <3>4 DEF LeaveRoot
      <3> QED BY <1>11, <3>1, <3>2, <3>3, <3>4
    <2>2. \E s : stack' = [stack EXCEPT ![g] = s]
      BY <2>1 DEF ComesTo
    <2> QED BY <1>1, <2>2
  <1>12. CASE LeaveScope(g) \/ Unlock(g)
    BY <1>1, <1>12 DEF LeaveScope, Unlock
  <1> QED BY <1>2, <1>3, <1>4, <1>5, <1>6, <1>7, <1>8, <1>9, <1>10, <1>11, <1>12 DEF Does

\* A goroutine inside a library comes back from it by Return alone.
LEMMA OnlyReturn ==
    ASSUME IInv, NEW g \in Goroutine, InLibrary(g), Does(g), Len(stack'[g]) < Height(g)
    PROVE  \E status : Return(g, status)
  <1>1. PICK u \in Seq(FrameOf) : u = stack[g]
    BY Facts
  <1>2. Len(u) \in Nat \ {0} /\ Top(g).kind = "call" /\ u # <<>>
    BY <1>1 DEF InLibrary
  <1>3. asked[g] = 0
    BY TopOfCall
  <1>4. ~(stack' = stack)
    BY <1>1, <1>2 DEF Height
  <1>5. ~InHost(g)
    BY <1>1, <1>2 DEF InHost
  <1>6. ~Making(g)
    BY <1>3 DEF Making
  <1>7. ~\E t \in Thread \cup {None} : Move(g, t)
    BY <1>4 DEF Move
  <1>8. ~\E l \in Lib : EnterRun(g, l)
    BY <1>5 DEF EnterRun
  <1>9. ASSUME NEW n \in Run, AskLive(g, n) \/ CallBack(g, n) PROVE FALSE
    <2>1. CallBack(g, n)
      BY <1>5, <1>9 DEF AskLive
    <2>2. PICK e : stack' = [stack EXCEPT ![g] = Append(@, e)]
      BY <2>1 DEF CallBack
    <2>3. stack'[g] = Append(u, e)
      BY <1>1, <2>2 DEF IInv, TypeOK
    <2>4. Len(Append(u, e)) = Len(u) + 1
      BY <1>1
    <2> QED BY <1>1, <1>2, <2>3, <2>4 DEF Height
  <1>10. ~(Refused(g) \/ EnterScope(g) \/ Implement(g))
    BY <1>6, SMTT(30) DEF Refused, EnterScope, Implement, MayMake
  <1>11. ~\E given \in {{}} \cup {{o} : o \in Run} : Call(g, given)
    BY <1>6 DEF Call, MayMake
  <1>12. ~HostAnswers(g)
    BY <1>5 DEF HostAnswers
  <1>13. ~\E caught \in Caught : HostFails(g, caught)
    BY <1>2 DEF HostFails
  <1>14. ~(Panics(g) \/ Recovers(g))
    BY <1>4, <1>5 DEF Panics, Recovers
  <1>15. \A phase : ~Ending(g, phase)
    BY <1>2, SMTT(30) DEF Ending, Opened
  <1>16. ~(Expire(g) \/ CloseScope(g) \/ Release(g) \/ LeaveScope(g) \/ LeaveRoot(g) \/ Unlock(g))
    BY <1>15 DEF Expire, CloseScope, Release, LeaveScope, LeaveRoot, Unlock
  <1> QED BY <1>7, <1>8, <1>9, <1>10, <1>11, <1>12, <1>13, <1>14, <1>16 DEF Does

\* Return answers with the first failure the call's frame has.
LEMMA ReturnComesTo ==
    ASSUME IInv, NEW g \in Goroutine, NEW status, Return(g, status)
    PROVE  IF Top(g).raised = <<>>
           THEN raising'[g] = Nothing /\ answer'[g] \notin Caught
           ELSE IF Top(g).raised[1] = "panicked"
           THEN raising'[g] = "panicked"
           ELSE raising'[g] = Nothing /\ answer'[g] = Top(g).raised[1]
  <1>1. InLibrary(g)
    BY DEF Return
  <1>2. PICK f, r, kept :
            /\ f = Top(g) /\ r = f.run /\ kept = Last(runs[r].calls) /\ kept = FirstOf(f.raised)
            /\ runs[r].calls # <<>> /\ runs[r].calls \in Seq(Caught \cup {Nothing}) /\ raising[g] = Nothing
    BY <1>1, TopOfCall
  <1>3. PICK calls \in Seq(Caught \cup {Nothing}) : calls = runs[r].calls /\ calls # <<>>
    BY <1>2
  <1>4. kept \in Caught \cup {Nothing}
    <2>1. calls[Len(calls)] \in Caught \cup {Nothing}
      BY <1>3, FrontIs
    <2>2. kept = calls[Len(calls)]
      BY <1>2, <1>3 DEF Last
    <2> QED BY <2>1, <2>2
  <1>5. PICK came : came = Outcome(status, kept)
    OBVIOUS
  <1>6. came \in Told /\ (kept # Nothing => came = kept) /\ (kept = Nothing => came \notin Caught)
    BY <1>4, <1>5, OutcomeIs
  <1>7. IF came = "panicked"
        THEN Misused(g) /\ Answers(g, Nothing)
        ELSE Answers(g, came) /\ UNCHANGED raising
    BY <1>2, <1>5 DEF Return
  <1>8. raising \in [Goroutine -> {Nothing, "panicked"}] /\ answer \in [Goroutine -> Told]
    BY DEF IInv, TypeOK
  <1>9. CASE came = "panicked"
    <2>1. raising'[g] = "panicked"
      BY <1>7, <1>8, <1>9 DEF Misused
    <2>2. kept = "panicked"
      BY <1>4, <1>6, <1>9 DEF Caught
    <2>3. f.raised # <<>> /\ f.raised[1] = "panicked"
      BY <1>2, <2>2 DEF FirstOf, Nothing
    <2> QED BY <1>2, <2>1, <2>3
  <1>10. CASE came # "panicked"
    <2>1. answer'[g] = came /\ raising'[g] = Nothing
      BY <1>2, <1>7, <1>8, <1>10 DEF Answers
    <2>2. CASE kept = Nothing
      <3>1. f.raised = <<>> \/ f.raised[1] = Nothing
        BY <1>2, <2>2 DEF FirstOf
      <3>2. f.raised \in Seq(Caught)
        <4>1. stack[g] \in Seq(FrameOf) /\ stack[g] # <<>>
          BY <1>1, Facts DEF InLibrary
        <4>2. f \in FrameOf
          BY <1>2, <4>1 DEF Top, Last
        <4> QED BY <4>2 DEF FrameOf
      <3>3. f.raised # <<>> => f.raised[1] \in Caught
        BY <3>2
      <3>4. f.raised = <<>>
        BY <3>1, <3>3 DEF Caught, Nothing
      <3> QED BY <1>2, <1>6, <2>1, <2>2, <3>4
    <2>3. CASE kept # Nothing
      <3>1. f.raised # <<>> /\ f.raised[1] = kept /\ came = kept
        BY <1>2, <1>6, <2>3 DEF FirstOf
      <3> QED BY <1>2, <1>10, <2>1, <3>1
    <2> QED BY <2>2, <2>3
  <1> QED BY <1>9, <1>10

LEMMA StepComesTo ==
    ASSUME IInv, [Next]_vars, NEW g \in Goroutine, InLibrary(g), Len(stack'[g]) < Height(g)
    PROVE  IF Top(g).raised = <<>>
           THEN raising'[g] = Nothing /\ answer'[g] \notin Caught
           ELSE IF Top(g).raised[1] = "panicked"
           THEN raising'[g] = "panicked"
           ELSE raising'[g] = Nothing /\ answer'[g] = Top(g).raised[1]
  <1>1. Len(stack[g]) \in Nat /\ stack'[g] # stack[g]
    BY Facts DEF Height
  <1>2. PICK h \in Goroutine : Does(h)
    BY <1>1 DEF Next, Does, vars
  <1>3. h = g
    BY <1>1, <1>2, StackOfOthers DEF IInv
  <1>4. PICK status : Return(g, status)
    BY <1>2, <1>3, OnlyReturn
  <1> QED BY <1>4, ReturnComesTo

-----------------------------------------------------------------------------
(* What the invariant says.                                                *)

\* The runs open on a stack are numbered in the order of their frames.
LEMMA OpenInOrder ==
    ASSUME NEW s, Len(s) \in Nat, NEW g, NEW t, NEW rs, Len(rs) \in Nat, Nested(s, rs, g, t),
           NEW i \in 1..Len(s), NEW j \in 1..Len(s), IsOpen(s, i), IsOpen(s, j)
    PROVE  s[i].run < s[j].run <=> i < j
  <1>1. \A k \in 1..Len(s) : Stands(s, rs, g, t, k)
    BY DEF Nested
  <1> QED BY <1>1, OneFrame

LEMMA IInvCalls == IInv => CallsAreWhereTheyBelong
  <1> SUFFICES ASSUME IInv, NEW g \in Goroutine, NEW i \in 1..Height(g), stack[g][i].kind = "call"
               PROVE  LET f == stack[g][i]
                          below == {j \in 1..(i - 1) : stack[g][j].kind \in Opened}
                          open == {stack[g][j].run : j \in below}
                      IN  /\ f.run \in open /\ runs[f.run].by = g
                          /\ \A n \in open : runs[n].lib = runs[f.run].lib => n <= f.run
                          /\ f.given \subseteq open /\ \A n \in f.given : runs[n].live
    BY DEF CallsAreWhereTheyBelong
  <1>1. PICK s \in Seq(FrameOf) : s = stack[g]
    BY Facts
  <1>2. Nested(s, runs, g, on[g]) /\ Len(s) \in Nat /\ Len(runs) \in Nat
    BY <1>1, Facts
  <1>3. i \in 1..Len(s) /\ s[i].kind = "call"
    BY <1>1 DEF Height
  <1>4. CallStands(s, runs, i)
    BY <1>2, <1>3 DEF Nested, Stands
  <1>13. ASSUME NEW a \in 1..Len(s), NEW b \in 1..Len(s), IsOpen(s, a), IsOpen(s, b)
         PROVE  s[a].run < s[b].run <=> a < b
    BY <1>2, <1>13, OpenInOrder
  <1> DEFINE l == runs[s[i].run].lib
             open == {s[j].run : j \in {j \in 1..(i - 1) : s[j].kind \in Opened}}
  <1>5. PICK k \in 1..(i - 1) :
            /\ IsOpen(s, k) /\ s[k].run = s[i].run
            /\ \A j \in (k + 1)..(i - 1) : ~OpenOf(s, runs, j, l)
    BY <1>4 DEF CallStands
  <1>6. k \in 1..Len(s) /\ \A j \in 1..(i - 1) : j \in 1..Len(s)
    BY <1>2, <1>3
  <1>7. \A j \in 1..(i - 1) : IsOpen(s, j) => s[j].run \in open
    BY DEF IsOpen
  <1>8. s[i].run \in open
    BY <1>5, <1>7
  <1>9. runs[s[i].run].by = g
    BY <1>2, <1>5, <1>6 DEF Nested, Stands, RunStands
  <1>10. ASSUME NEW n \in open, runs[n].lib = l PROVE n <= s[i].run
    <2>1. PICK j \in 1..(i - 1) : IsOpen(s, j) /\ s[j].run = n
      BY DEF IsOpen
    <2>2. j <= k
      BY <1>2, <1>3, <1>5, <1>10, <2>1, SMTT(30) DEF OpenOf
    <2>3. (s[j].run < s[k].run <=> j < k) /\ j \in 1..Len(s)
      <3>1. j \in 1..Len(s) /\ k \in 1..Len(s) /\ IsOpen(s, j) /\ IsOpen(s, k)
        BY <1>5, <1>6, <2>1
      <3> QED BY <3>1, <1>13
    <2>4. j = k \/ j < k
      BY <2>2, <2>3, <1>6
    <2>5. s[j].run \in Nat /\ s[k].run \in Nat
      <3>1. s[j] \in FrameOf /\ s[k] \in FrameOf
        BY <1>1, <1>6, <2>3
      <3> QED BY <3>1 DEF FrameOf
    <2> QED BY <1>5, <2>1, <2>3, <2>4, <2>5, SMTT(30)
  <1>11. ASSUME NEW n \in s[i].given PROVE n \in open /\ runs[n].live
    <2>1. PICK j \in 1..(i - 1) : OpenOf(s, runs, j, l) /\ s[j].run = n
      BY <1>4 DEF CallStands
    <2>2. IsOpen(s, j) /\ n \in open
      BY <1>7, <2>1 DEF OpenOf
    <2>3. j \in 1..Len(s) /\ j # Len(s)
      BY <1>2, <1>3
    <2>4. s[j].phase = "in"
      BY <1>2, <2>3, SMTT(30) DEF Nested, Phased
    <2>5. n \in 1..Len(runs) /\ runs[n].by = g
      BY <1>2, <2>1, <2>2, <2>3 DEF Nested, Stands, RunStands
    <2>6. LiveIn(s, runs, g)
      BY <1>2 DEF Nested
    <2> QED BY <2>1, <2>2, <2>3, <2>4, <2>5, <2>6 DEF LiveIn
  <1>12. s[i].given \subseteq open
    BY <1>11
  <1> QED BY <1>1, <1>8, <1>9, <1>10, <1>11, <1>12

LEMMA IInvArenas == IInv => ArenasFollowTheStacks
  <1> SUFFICES ASSUME IInv PROVE ArenasFollowTheStacks
    OBVIOUS
  <1>1. ASSUME NEW g \in Goroutine, NEW l \in Lib, on[g] = None PROVE Standing(g, l) = {}
    <2>1. stack[g] = <<>>
      BY <1>1 DEF IInv, Placed
    <2>2. Height(g) = 0
      BY <2>1 DEF Height
    <2> QED BY <2>2 DEF Standing
  <1>2. ASSUME NEW g \in Goroutine, NEW l \in Lib, on[g] # None PROVE StandsFor(scopes[on[g]][l], g, l)
    <2>1. PICK s \in Seq(FrameOf) : s = stack[g]
      BY Facts
    <2>2. Nested(s, runs, g, on[g]) /\ Len(s) \in Nat /\ Len(runs) \in Nat
      BY <2>1, Facts
    <2>3. on[g] \in Thread
      BY <1>2 DEF IInv, TypeOK
    <2>4. PICK up \in Seq(Nat) : up = scopes[on[g]][l]
      BY <2>3 DEF IInv, TypeOK
    <2>5. Fits(up, s, runs, l) /\ Len(up) \in Nat
      BY <1>2, <2>1, <2>4 DEF IInv, ScopesFollow
    <2>6. PICK at : at = Standing(g, l)
      OBVIOUS
    <2>7. at = {i \in 1..Len(s) : StandingAt(s, runs, l, i)}
      BY <2>1, <2>6 DEF Standing, Height, StandingAt, OpenOf, IsOpen
    <2>8. \A m \in 1..Len(up) : \E i \in at : up[m] = s[i].run
      BY <2>5, <2>7 DEF Fits
    <2>9. \A i \in at : \E m \in 1..Len(up) : up[m] = s[i].run
      BY <2>5, <2>7 DEF Fits
    <2>10. ASSUME NEW m \in 1..Len(up), NEW k \in 1..Len(up), NEW i \in at, NEW j \in at,
                  up[m] = s[i].run, up[k] = s[j].run
           PROVE  m < k <=> i < j
      <3>1. i \in 1..Len(s) /\ j \in 1..Len(s) /\ IsOpen(s, i) /\ IsOpen(s, j)
        BY <2>7 DEF StandingAt, OpenOf
      <3>3. s[i].run < s[j].run <=> i < j
        BY <2>2, <3>1, OpenInOrder
      <3>4. \A a, b \in 1..Len(up) : a < b => up[a] < up[b]
        BY <2>5 DEF Fits
      <3>5. up[m] \in Nat /\ up[k] \in Nat
        OBVIOUS
      <3>6. up[m] < up[k] <=> m < k
        BY <2>5, <3>4, <3>5, SMTT(30)
      <3> QED BY <2>10, <3>3, <3>6
    <2> QED BY <2>1, <2>4, <2>6, <2>8, <2>9, <2>10 DEF StandsFor
  <1>3. \A t \in Thread : (\A g \in Goroutine : on[g] # t) => \A l \in Lib : scopes[t][l] = <<>>
    BY DEF IInv, ScopesFollow
  <1> QED BY <1>1, <1>2, <1>3 DEF ArenasFollowTheStacks

LEMMA IInvRefused == IInv => RefusedInsideItsOwnRun
  <1> SUFFICES ASSUME IInv, NEW g \in Goroutine, InHost(g), NEW l \in Lib
               PROVE  Entered(l, on[g]) <=>
                        \E i \in 1..Height(g) : stack[g][i].kind = "run" /\ runs[stack[g][i].run].lib = l
    BY DEF RefusedInsideItsOwnRun
  <1>1. PICK s \in Seq(FrameOf) : s = stack[g]
    BY Facts
  <1>2. Nested(s, runs, g, on[g]) /\ Len(s) \in Nat
    BY <1>1, Facts
  <1>3. on[g] # None /\ (s # <<>> => s[Len(s)].phase = "in")
    BY <1>1 DEF InHost, Top, Last
  <1>4. \A i \in 1..Len(s) : s[i].phase = "in"
    <2> SUFFICES ASSUME NEW i \in 1..Len(s), s[i].phase # "in" PROVE FALSE
      OBVIOUS
    <2>1. i = Len(s) /\ s # <<>>
      BY <1>2 DEF Nested, Phased
    <2> QED BY <1>3, <2>1
  <1>5. Has(roots, l, on[g]) <=> \E i \in 1..Len(s) : RootedAt(s, runs, l, i)
    BY <1>1, <1>3 DEF IInv, RootsFollow
  <1>6. DOMAIN roots = 1..Len(roots)
    BY DEF IInv, TypeOK
  <1>7. Entered(l, on[g]) <=> Has(roots, l, on[g])
    BY <1>6 DEF Entered, Has
  <1>8. \A i \in 1..Len(s) : RootedAt(s, runs, l, i) <=> s[i].kind = "run" /\ runs[s[i].run].lib = l
    BY <1>4 DEF RootedAt
  <1> QED BY <1>1, <1>5, <1>7, <1>8 DEF Height

LEMMA IInvLent == IInv => LentTheRunOfItsCall
  <1> SUFFICES ASSUME IInv, NEW g \in Goroutine, NEW i \in 1..Height(g)
               PROVE  LET f == stack[g][i] IN
                      /\ f.kind = "host" =>
                            /\ f.run = stack[g][i - 1].run
                            /\ f.at = Cardinality({j \in 1..(i - 1) : /\ stack[g][j].kind = "call"
                                                                      /\ stack[g][j].run = f.run})
                      /\ f.kind = "call" /\ i = Height(g) => \A o \in f.given : Lends(g, o)
    BY DEF LentTheRunOfItsCall
  <1>1. PICK s \in Seq(FrameOf) : s = stack[g]
    BY Facts
  <1>2. Nested(s, runs, g, on[g]) /\ Len(s) \in Nat /\ i \in 1..Len(s)
    BY <1>1, Facts DEF Height
  <1>3. ASSUME s[i].kind = "host"
        PROVE  /\ s[i].run = s[i - 1].run
               /\ s[i].at = Cardinality({j \in 1..(i - 1) : s[j].kind = "call" /\ s[j].run = s[i].run})
    <2>1. HostStands(s, i)
      BY <1>2, <1>3 DEF Nested, Stands
    <2> QED BY <2>1 DEF HostStands, Nth
  <1>4. ASSUME s[i].kind = "call", i = Height(g), NEW o \in s[i].given PROVE Lends(g, o)
    <2>1. InLibrary(g) /\ Top(g) = s[i]
      BY <1>1, <1>2, <1>4 DEF InLibrary, Top, Last, Height
    <2>2. Innermost(o) = Top(g).run /\ runs[o].live /\ runs[o].thread = on[g]
      BY <1>4, <2>1, GivenTo
    <2>3. runs[Top(g).run].calls # <<>>
      BY <2>1, TopOfCall
    <2> QED BY <2>2, <2>3 DEF Lends, Usable, IsCurrent
  <1> QED BY <1>1, <1>3, <1>4

LEMMA IInvRooms == IInv => RoomsStandWhileRead
  BY DEF IInv, ReadsStand, RoomsStandWhileRead

-----------------------------------------------------------------------------
(* The theorems.                                                           *)

\* Only where something is made through a run may one that has ended have passed.
LEMMA Strays ==
    ASSUME NEW g \in Goroutine, Does(g)
    PROVE  UNCHANGED strayed \/ (Straying(g) /\ MayMake(g))
  <1>1. \A n \in Run : AskLive(g, n) \/ CallBack(g, n) => UNCHANGED strayed
    BY DEF AskLive, CallBack
  <1>2. \A given \in {{}} \cup {{o} : o \in Run} : Call(g, given) => Straying(g) /\ MayMake(g)
    BY DEF Call
  <1>3. Refused(g) => UNCHANGED strayed
    BY DEF Refused
  <1>4. EnterScope(g) \/ Implement(g) => Straying(g) /\ MayMake(g)
    BY DEF EnterScope, Implement
  <1>5. /\ \A t \in Thread \cup {None} : Move(g, t) => UNCHANGED strayed
        /\ \A l \in Lib : EnterRun(g, l) => UNCHANGED strayed
        /\ \A caught \in Caught : HostFails(g, caught) => UNCHANGED strayed
        /\ \A status \in Statuses : Return(g, status) => UNCHANGED strayed
        /\ HostAnswers(g) \/ Panics(g) \/ Recovers(g) => UNCHANGED strayed
    BY DEF Move, EnterRun, HostFails, Return, HostAnswers, Panics, Recovers
  <1>6. /\ Expire(g) \/ CloseScope(g) \/ Release(g) => UNCHANGED strayed
        /\ LeaveScope(g) \/ LeaveRoot(g) \/ Unlock(g) => UNCHANGED strayed
    BY DEF Expire, CloseScope, Release, LeaveScope, LeaveRoot, Unlock
  <1> QED BY <1>1, <1>2, <1>3, <1>4, <1>5, <1>6, Zenon DEF Does

\* Once a run that had ended has passed a check, one has.
LEMMA StaysStrayed ==
    ASSUME strayed, [Next]_vars
    PROVE  strayed'
  <1>1. CASE UNCHANGED vars
    BY <1>1 DEF vars
  <1>2. CASE Next
    <2>1. PICK g \in Goroutine : Does(g)
      BY <1>2 DEF Next, Does
    <2>2. UNCHANGED strayed \/ Straying(g)
      BY <2>1, Strays
    <2> QED BY <2>2 DEF Straying
  <1> QED BY <1>1, <1>2

\* The stacks of the goroutines, the runs, the arenas and the roots go together
\* after every step of the binding, until strayed.
THEOREM Inductive == Spec => [](strayed \/ IInv)
  <1>1. Init => strayed \/ IInv
    BY InitIInv
  <1>2. (strayed \/ IInv) /\ [Next]_vars => (strayed \/ IInv)'
    BY NextIInv, StaysStrayed
  <1> QED BY <1>1, <1>2, PTL DEF Spec

\* Whatever runs a goroutine kept and used, and wherever it was moved, a call
\* under way is through the innermost run of its library on the goroutine that
\* opened it, and is handed only what was made in runs open there, until a run
\* that had ended has passed a check (run.go, checkReading, checkMaking).
THEOREM CallsBelong == Spec => []CallsBelongUnlessStrayed
  <1>1. strayed \/ IInv => CallsBelongUnlessStrayed
    BY IInvCalls DEF CallsBelongUnlessStrayed
  <1> QED BY <1>1, Inductive, PTL

\* The arena of a thread has open the scopes of the runs on the stack of the
\* goroutine that is on it, so no close of a scope is refused (run.go, within),
\* until strayed.
THEOREM ArenasFollow == Spec => []ArenasFollowTheStacks
  <1>1. strayed \/ IInv => ArenasFollowTheStacks
    BY IInvArenas DEF ArenasFollowTheStacks
  <1> QED BY <1>1, Inductive, PTL

\* A root run is refused exactly inside a root run of the same library and
\* goroutine (run.go, enterRoot and leaveRoot), until strayed.
THEOREM RefusedInside == Spec => []RefusedInsideItsOwnRun
  <1>1. strayed \/ IInv => RefusedInsideItsOwnRun
    BY IInvRefused DEF RefusedInsideItsOwnRun
  <1> QED BY <1>1, Inductive, PTL

\* An implementation is lent the run of the call it was called back from, and its
\* failure is kept at that call's place (run.go, Host and innermost), until
\* strayed.
THEOREM LentTheRun == Spec => []LentTheRunOfItsCall
  <1>1. strayed \/ IInv => LentTheRunOfItsCall
    BY IInvLent DEF LentTheRunOfItsCall
  <1> QED BY <1>1, Inductive, PTL

\* What the library reads of a host's function is not freed while a value in an
\* arena reads it (run.go, within and end), until strayed.
THEOREM RoomsStand == Spec => []RoomsStandWhileRead
  <1>1. strayed \/ IInv => RoomsStandWhileRead
    BY IInvRooms DEF RoomsStandWhileRead
  <1> QED BY <1>1, Inductive, PTL

\* A call comes to the first failure an implementation it called back left, and
\* to none where none failed (failure.go, outcome and keptOf), until strayed.
THEOREM FirstFailure == Spec => ComesToItsFirstFailure
  <1>1. (strayed \/ IInv) /\ [Next]_vars =>
            [~strayed => \A g \in Goroutine :
                InLibrary(g) /\ Len(stack'[g]) < Height(g) =>
                    IF Top(g).raised = <<>>
                    THEN raising'[g] = Nothing /\ answer'[g] \notin Caught
                    ELSE IF Top(g).raised[1] = "panicked"
                    THEN raising'[g] = "panicked"
                    ELSE raising'[g] = Nothing /\ answer'[g] = Top(g).raised[1]]_vars
    BY StepComesTo
  <1> QED BY <1>1, Inductive, PTL DEF Spec, ComesToItsFirstFailure

-----------------------------------------------------------------------------
(* A goroutine that asks only the runs it opened.                          *)

\* The run a goroutine asks is open on its own stack.
AsksOpen(n, s) ==
    n # 0 => \E i \in 1..Len(s) : IsOpen(s, i) /\ s[i].phase = "in" /\ s[i].run = n

Own == ~strayed /\ IInv /\ \A g \in Goroutine : AsksOpen(asked[g], stack[g])

\* A goroutine that goes on asking of a run has its stack as it was.
LEMMA StillAsked ==
    ASSUME IInv, NEW g \in Goroutine, Does(g), asked'[g] # 0
    PROVE  stack'[g] = stack[g] /\ (asked'[g] = asked[g] \/ \E n \in Run : AskLive(g, n) /\ asked'[g] = n)
  <1>1. asked \in [Goroutine -> Nat]
    BY DEF IInv, TypeOK
  <1>2. ASSUME asked' = asked
        PROVE  /\ ~InHost(g) /\ ~InLibrary(g) /\ \A phase : Ending(g, phase) => phase = "in"
    <2>1. Asks(asked[g], raising[g], stack[g], runs) /\ asked[g] # 0
      BY <1>2 DEF IInv
    <2> QED BY <2>1 DEF Asks, InCode, InHost, InLibrary, Ending, Top, Last
  <1>3. \A t \in Thread \cup {None} : Move(g, t) => stack' = stack /\ asked' = asked
    BY DEF Move
  <1>4. \A l \in Lib : ~EnterRun(g, l)
    BY <1>2 DEF EnterRun
  <1>5. ASSUME NEW n \in Run, AskLive(g, n) PROVE stack' = stack /\ (asked' = asked \/ asked'[g] = n)
    BY <1>1, <1>5 DEF AskLive
  <1>6. \A n \in Run : ~CallBack(g, n)
    BY <1>2 DEF CallBack
  <1>7. ~Refused(g) /\ ~EnterScope(g) /\ ~Implement(g)
    BY <1>1, SMTT(30) DEF Refused, EnterScope, Implement, AskedNothing
  <1>8. \A given \in {{}} \cup {{o} : o \in Run} : ~Call(g, given)
    BY <1>1 DEF Call, AskedNothing
  <1>9. ~HostAnswers(g) /\ (Panics(g) \/ Recovers(g) => stack' = stack /\ asked' = asked)
    BY <1>2 DEF HostAnswers, Panics, Recovers
  <1>10. \A caught \in Caught : ~HostFails(g, caught)
    BY DEF HostFails
  <1>11. \A status \in Statuses : ~Return(g, status)
    BY <1>2 DEF Return
  <1>12. ~Expire(g)
    BY DEF Expire
  <1>13. ~CloseScope(g) /\ ~Release(g) /\ ~LeaveScope(g) /\ ~LeaveRoot(g) /\ ~Unlock(g)
    <2>1. CloseScope(g) \/ Release(g) \/ LeaveScope(g) \/ LeaveRoot(g) \/ Unlock(g) => asked' = asked
      BY DEF CloseScope, Release, LeaveScope, LeaveRoot, Unlock
    <2> QED BY <1>2, <2>1 DEF CloseScope, Release, LeaveScope, LeaveRoot, Unlock
  <1> QED BY <1>3, <1>4, <1>5, <1>6, <1>7, <1>8, <1>9, <1>10, <1>11, <1>12, <1>13 DEF Does

LEMMA AskedOfOthers ==
    ASSUME asked \in [Goroutine -> Nat], NEW g \in Goroutine, NEW h \in Goroutine, h # g, Does(g)
    PROVE  asked'[h] = asked[h]
  <1>1. \A n \in Run : AskLive(g, n) \/ CallBack(g, n) => asked'[h] = asked[h]
    BY DEF AskLive, CallBack
  <1>2. \A given \in {{}} \cup {{o} : o \in Run} : Call(g, given) => asked'[h] = asked[h]
    BY DEF Call, AskedNothing
  <1>3. Refused(g) \/ EnterScope(g) \/ Implement(g) => asked'[h] = asked[h]
    BY DEF Refused, EnterScope, Implement, AskedNothing
  <1>4. /\ \A t \in Thread \cup {None} : Move(g, t) => asked'[h] = asked[h]
        /\ \A l \in Lib : EnterRun(g, l) => asked'[h] = asked[h]
        /\ \A caught \in Caught : HostFails(g, caught) => asked'[h] = asked[h]
        /\ \A status \in Statuses : Return(g, status) => asked'[h] = asked[h]
        /\ HostAnswers(g) \/ Panics(g) \/ Recovers(g) => asked'[h] = asked[h]
    BY DEF Move, EnterRun, HostFails, Return, HostAnswers, Panics, Recovers
  <1>5. /\ Expire(g) \/ CloseScope(g) \/ Release(g) => asked'[h] = asked[h]
        /\ LeaveScope(g) \/ LeaveRoot(g) \/ Unlock(g) => asked'[h] = asked[h]
    BY DEF Expire, CloseScope, Release, LeaveScope, LeaveRoot, Unlock
  <1> QED BY <1>1, <1>2, <1>3, <1>4, <1>5, Zenon DEF Does

\* No goroutine asks a run another one opened.
OnlyItsOwn == \A g \in Goroutine : \A n \in Run : AskLive(g, n) => runs[n].by = g

LEMMA OwnStep ==
    ASSUME Own, OnlyItsOwn, NEW g \in Goroutine, Does(g), Next
    PROVE  Own'
  <1>1. IInv /\ ~strayed /\ asked \in [Goroutine -> Nat]
    BY DEF Own, IInv, TypeOK
  <1>2. ASSUME MayMake(g) PROVE runs[asked[g]].live
    <2>1. PICK i \in 1..Len(stack[g]) :
            IsOpen(stack[g], i) /\ stack[g][i].phase = "in" /\ stack[g][i].run = asked[g]
      BY <1>2 DEF MayMake, Making, Own, AsksOpen
    <2>2. Nested(stack[g], runs, g, on[g])
      BY <1>1 DEF IInv
    <2>3. asked[g] \in 1..Len(runs) /\ runs[asked[g]].by = g
      BY <2>1, <2>2 DEF Nested, Stands, RunStands
    <2> QED BY <2>1, <2>2, <2>3 DEF Nested, LiveIn
  <1>3. ~strayed'
    BY <1>1, <1>2, Strays DEF Straying
  <1>4. IInv'
    BY <1>1, <1>3, NextIInv
  <1>5. ASSUME NEW h \in Goroutine PROVE AsksOpen(asked'[h], stack'[h])
    <2>1. AsksOpen(asked[h], stack[h])
      BY DEF Own
    <2>2. CASE h # g
      <3>1. stack'[h] = stack[h] /\ asked'[h] = asked[h]
        BY <1>1, <2>2, StackOfOthers, AskedOfOthers DEF IInv
      <3> QED BY <2>1, <3>1
    <2>3. CASE h = g /\ asked'[h] = 0
      BY <2>3 DEF AsksOpen
    <2>4. CASE h = g /\ asked'[h] # 0
      <3>1. stack'[g] = stack[g] /\ (asked'[g] = asked[g] \/ \E n \in Run : AskLive(g, n) /\ asked'[g] = n)
        BY <1>1, <2>4, StillAsked
      <3>2. CASE asked'[g] = asked[g]
        BY <2>1, <2>4, <3>1, <3>2
      <3>3. CASE asked'[g] # asked[g]
        <4>1. PICK n \in Run : AskLive(g, n) /\ asked'[g] = n
          BY <3>1, <3>3
        <4>2. runs[n].live
          BY <3>3, <4>1 DEF AskLive
        <4>3. runs[n].by = g /\ n \in 1..Len(runs)
          BY <1>1, <4>1 DEF OnlyItsOwn, Run, IInv, TypeOK
        <4>4. Nested(stack[g], runs, g, on[g])
          BY <1>1 DEF IInv
        <4>5. AsksOpen(n, stack[g])
          BY <4>2, <4>3, <4>4 DEF Nested, LiveIn, AsksOpen
        <4> QED BY <2>4, <3>1, <4>1, <4>5
      <3> QED BY <3>2, <3>3
    <2> QED BY <2>2, <2>3, <2>4
  <1> QED BY <1>3, <1>4, <1>5 DEF Own

\* Where no goroutine asks a run another one opened, as the package's rules
\* have it ("a run or a value from another goroutine" is a fault: README.md), no
\* run that has ended passes a check, so every call is where it belongs: what
\* go_moved shows takes a goroutine that asks a run that is not its own.
THEOREM OwnRunsBelong == Spec /\ [][OnlyItsOwn]_vars => []CallsAreWhereTheyBelong
  <1>1. Init => Own
    BY InitIInv DEF Init, Own, AsksOpen
  <1>2. Own /\ [Next]_vars /\ [OnlyItsOwn]_vars => Own'
    <2> SUFFICES ASSUME Own, [Next]_vars, [OnlyItsOwn]_vars PROVE Own'
      OBVIOUS
    <2>1. CASE UNCHANGED vars
      <3>1. IInv'
        BY <2>1, StutterIInv DEF Own
      <3> QED BY <2>1, <3>1 DEF Own, vars
    <2>2. CASE Next /\ OnlyItsOwn
      <3>1. PICK g \in Goroutine : Does(g)
        BY <2>2 DEF Next, Does
      <3> QED BY <2>2, <3>1, OwnStep
    <2> QED BY <2>1, <2>2
  <1>3. Own => CallsAreWhereTheyBelong
    BY IInvCalls DEF Own
  <1> QED BY <1>1, <1>2, <1>3, PTL DEF Spec

=============================================================================
