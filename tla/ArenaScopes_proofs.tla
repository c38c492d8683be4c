------------------------- MODULE ArenaScopes_proofs -------------------------
(***************************************************************************)
(* For every number of threads, slot and block size and set of value       *)
(* sizes: what ArenaScopes.cfg checks on a small instance.                 *)
(*                                                                         *)
(* The inductive invariant is stated for one thread over plain values      *)
(* (ArenaOk, ValuesOk, ScopesOk), so that the arithmetic of each operation *)
(* is a lemma without primes; the step theorem only says which lemma       *)
(* carries which action.                                                   *)
(***************************************************************************)
EXTENDS ArenaScopes, SequenceTheorems, TLAPS

BlockRec == [len : Nat, cap : Nat]
ScopeRec == [token : Nat, stood : Nat]
ValueRec == [scope : Nat, from : Nat, place : Place]

\* The blocks lie end to end below `tk`, none empty, none over its capacity.
ArenaOk(bl, ba, tk) ==
    /\ Len(ba) = Len(bl)
    /\ \A i \in 1..Len(bl) : 0 < bl[i].len /\ bl[i].len <= bl[i].cap
    /\ \A i \in 1..Len(bl) :
        ba[i] = IF i = 1 THEN 0 ELSE ba[i - 1] + bl[i - 1].len
    /\ tk = IF Len(bl) = 0 THEN 0 ELSE ba[Len(bl)] + bl[Len(bl)].len

\* Every value stands in its block, below `lim`; together they fill what is
\* below `lim` and no two of them share a slot.
Stood(v, bl, ba, lim) ==
    /\ v.place.slots >= 1
    /\ v.place.block \in 1..Len(bl)
    /\ v.from = ba[v.place.block] + v.place.at
    /\ v.place.at + v.place.slots <= bl[v.place.block].len
    /\ v.from + v.place.slots <= lim

ValuesOk(mk, bl, ba, lim) ==
    /\ \A v \in mk : Stood(v, bl, ba, lim)
    /\ \A s \in 0..(lim - 1) : \E v \in mk : Covers(v, s)
    /\ \A v, w \in mk :
        \/ v = w
        \/ v.from + v.place.slots <= w.from
        \/ w.from + w.place.slots <= v.from

\* Scopes nest in tokens and marks, every value belongs to an open scope or
\* to the thread, and a mark separates the values made before it from those
\* made since: what says that cutting back to the mark drops exactly those.
ScopesOk(sc, mk, lim, tok) ==
    /\ \A j \in 1..Len(sc) : sc[j].token \in 1..(tok - 1) /\ sc[j].stood <= lim
    /\ \A i, j \in 1..Len(sc) :
        i < j => sc[i].token < sc[j].token /\ sc[i].stood <= sc[j].stood
    /\ \A v \in mk : v.scope = 0 \/ \E j \in 1..Len(sc) : v.scope = sc[j].token
    /\ \A v \in mk : \A j \in 1..Len(sc) :
        IF v.scope < sc[j].token
        THEN v.from + v.place.slots <= sc[j].stood
        ELSE v.from >= sc[j].stood

\* Up to where the values promised fill the arena: the mark, once a close has
\* taken its scope's values off what is promised.
Limit(tk, r) == IF r = Idle THEN tk ELSE r

ThreadOk(t) ==
    /\ ArenaOk(blocks[t], base[t], taken[t])
    /\ Limit(taken[t], resetting[t]) <= taken[t]
    /\ ValuesOk(made[t], blocks[t], base[t], Limit(taken[t], resetting[t]))
    /\ ScopesOk(SCOPES[t], made[t], Limit(taken[t], resetting[t]), TOKENS)

\* No token is open on two threads.
ThreadsApart ==
    \A t, u \in Thread : \A i \in 1..Len(SCOPES[t]), j \in 1..Len(SCOPES[u]) :
        SCOPES[t][i].token = SCOPES[u][j].token => t = u

IInv ==
    /\ TypeOK
    /\ \A t \in Thread : ThreadOk(t)
    /\ ThreadsApart

-----------------------------------------------------------------------------
(* Facts about the helpers.                                                *)

\* A value is never given less than one slot.
LEMMA WantedIsPositive ==
    ASSUME NEW size \in Nat
    PROVE  Wanted(size) \in Nat /\ Wanted(size) >= 1
  BY SlotAssumption, Z3 DEF Wanted, Larger

\* What is left of a sequence when its last element is popped.
LEMMA ShorterIs ==
    ASSUME NEW S, NEW s \in Seq(S), s # <<>>
    PROVE  /\ Len(s) \in Nat /\ Len(s) > 0
           /\ Top(s) \in S
           /\ Shorter(s) \in Seq(S)
           /\ Len(Shorter(s)) = Len(s) - 1
           /\ \A i \in 1..(Len(s) - 1) : Shorter(s)[i] = s[i]
  <1>1. Len(s) \in Nat /\ Len(s) > 0
    <2>1. Len(s) \in Nat \ {0}
      BY EmptySeq
    <2> QED BY <2>1
  <1>2. \A i \in 1..Len(s) : s[i] \in S
    BY ElementOfSeq
  <1>3. /\ SubSeq(s, 1, Len(s) - 1) \in Seq(S)
        /\ Len(SubSeq(s, 1, Len(s) - 1)) = IF 1 <= Len(s) - 1 THEN Len(s) - 1 ELSE 0
        /\ \A i \in 1..(Len(s) - 1) : SubSeq(s, 1, Len(s) - 1)[i] = s[i]
    <2>1. \A i \in 1..(Len(s) - 1) : s[i] \in S
      BY <1>1, <1>2
    <2> QED BY <1>1, <2>1, SubSeqProperties
  <1>4. Shorter(s) = SubSeq(s, 1, Len(s) - 1) /\ Top(s) = s[Len(s)]
    BY DEF Shorter, Top
  <1>5. Top(s) \in S
    BY <1>1, <1>2, <1>4
  <1>6. Len(Shorter(s)) = Len(s) - 1
    <2>1. \A k \in Nat : k > 0 => (IF 1 <= k - 1 THEN k - 1 ELSE 0) = k - 1
      OBVIOUS
    <2> QED BY <1>1, <1>3, <1>4, <2>1, Zenon
  <1> QED BY <1>1, <1>3, <1>4, <1>5, <1>6, Zenon

-----------------------------------------------------------------------------
(* Room for a value.                                                       *)

\* What Grown makes of the blocks, with the history that goes with it.
GrownTo(bl, ba, tk, w, g, gb) ==
    \/ /\ bl # <<>> /\ Top(bl).cap - Top(bl).len >= w
       /\ g = bl /\ gb = ba
    \/ /\ g = Append(bl, [len |-> 0, cap |-> Larger(w, BLOCK)])
       /\ gb = Append(ba, tk)

\* The blocks once `w` slots of the last are handed out.
Handed(g, w) ==
    [g EXCEPT ![Len(g)] = [len |-> g[Len(g)].len + w, cap |-> g[Len(g)].cap]]

\* Growing keeps every block there was, and the last one has the room.
LEMMA GrownIs ==
    ASSUME NEW bl \in Seq(BlockRec), NEW ba \in Seq(Nat), NEW tk \in Nat,
           NEW w \in Nat, w >= 1, ArenaOk(bl, ba, tk),
           NEW g, NEW gb, GrownTo(bl, ba, tk, w, g, gb)
    PROVE  /\ g \in Seq(BlockRec) /\ gb \in Seq(Nat)
           /\ Len(g) \in Nat /\ Len(g) > 0 /\ Len(gb) = Len(g)
           /\ Len(g) = Len(bl) \/ Len(g) = Len(bl) + 1
           /\ \A i \in 1..Len(bl) : g[i] = bl[i] /\ gb[i] = ba[i]
           /\ g[Len(g)].cap - g[Len(g)].len >= w
           /\ gb[Len(g)] + g[Len(g)].len = tk
           /\ Len(g) > Len(bl) => gb[Len(g)] = tk
           /\ g[Len(g)] \in BlockRec
  <1>1. Len(bl) \in Nat /\ Len(ba) = Len(bl)
    BY LenProperties DEF ArenaOk
  <1>2. CASE /\ bl # <<>> /\ Top(bl).cap - Top(bl).len >= w
             /\ g = bl /\ gb = ba
    <2>1. Len(bl) \in Nat /\ Len(bl) > 0 /\ Top(bl) \in BlockRec
      BY <1>2, ShorterIs
    <2>2. Top(bl) = bl[Len(bl)]
      BY DEF Top
    <2>3. tk = ba[Len(bl)] + bl[Len(bl)].len
      BY <2>1 DEF ArenaOk
    <2> QED BY <1>1, <1>2, <2>1, <2>2, <2>3
  <1>3. CASE /\ g = Append(bl, [len |-> 0, cap |-> Larger(w, BLOCK)])
             /\ gb = Append(ba, tk)
    <2> DEFINE b == [len |-> 0, cap |-> Larger(w, BLOCK)]
    <2>1. b \in BlockRec /\ b.len = 0 /\ b.cap >= w
      BY BlockAssumption DEF BlockRec, Larger
    <2> HIDE DEF b
    <2>2. /\ g \in Seq(BlockRec)
          /\ Len(g) = Len(bl) + 1
          /\ \A i \in 1..Len(bl) : g[i] = bl[i]
          /\ g[Len(bl) + 1] = b
      BY <1>3, <2>1, AppendProperties DEF b
    <2>3. /\ gb \in Seq(Nat)
          /\ Len(gb) = Len(ba) + 1
          /\ \A i \in 1..Len(ba) : gb[i] = ba[i]
          /\ gb[Len(ba) + 1] = tk
      BY <1>3, AppendProperties
    <2> QED BY <1>1, <2>1, <2>2, <2>3, SMTT(30) DEF BlockRec
  <1> QED BY <1>2, <1>3 DEF GrownTo

\* Handing out keeps the blocks end to end.
LEMMA AllocArena ==
    ASSUME NEW bl \in Seq(BlockRec), NEW ba \in Seq(Nat), NEW tk \in Nat,
           NEW w \in Nat, w >= 1, ArenaOk(bl, ba, tk),
           NEW g, NEW gb, GrownTo(bl, ba, tk, w, g, gb)
    PROVE  /\ Handed(g, w) \in Seq(BlockRec)
           /\ ArenaOk(Handed(g, w), gb, tk + w)
           /\ Len(Handed(g, w)) = Len(g)
           /\ Handed(g, w)[Len(g)].len = g[Len(g)].len + w
           /\ \A i \in 1..Len(bl) : Handed(g, w)[i].len >= bl[i].len
  <1> DEFINE n == Len(g)
             b == [len |-> g[n].len + w, cap |-> g[n].cap]
             h == Handed(g, w)
  <1>0. /\ g \in Seq(BlockRec) /\ gb \in Seq(Nat)
        /\ n \in Nat /\ n > 0 /\ Len(gb) = n
        /\ n = Len(bl) \/ n = Len(bl) + 1
        /\ \A i \in 1..Len(bl) : g[i] = bl[i] /\ gb[i] = ba[i]
        /\ g[n].cap - g[n].len >= w
        /\ gb[n] + g[n].len = tk
        /\ n > Len(bl) => gb[n] = tk
        /\ g[n] \in BlockRec
    BY GrownIs
  <1>1. b \in BlockRec /\ b.len = g[n].len + w /\ b.cap = g[n].cap
    <2>1. g[n] \in BlockRec
      BY <1>0
    <2>2. g[n].len \in Nat /\ g[n].cap \in Nat
      BY <2>1 DEF BlockRec
    <2> HIDE DEF n
    <2> QED BY <2>2, SMTT(30) DEF BlockRec
  <1>2. /\ h \in Seq(BlockRec) /\ Len(h) = n
        /\ \A j \in 1..n : h[j] = IF j = n THEN b ELSE g[j]
    <2>1. h = [g EXCEPT ![n] = b]
      BY DEF Handed
    <2>2. n \in 1..Len(g)
      BY <1>0
    <2> HIDE DEF h, b, n
    <2> QED BY <1>0, <1>1, <2>1, <2>2, ExceptSeq, SMTT(30) DEF n
  <1>3. Len(bl) \in Nat /\ Len(ba) = Len(bl) /\ \A i \in 1..Len(bl) : bl[i] \in BlockRec
    BY LenProperties, ElementOfSeq DEF ArenaOk
  <1>n. gb[n] \in Nat /\ g[n].len \in Nat /\ g[n].cap \in Nat
    <2>1. n \in 1..Len(gb)
      BY <1>0
    <2>2. gb[n] \in Nat
      BY <1>0, <2>1, ElementOfSeq
    <2>3. g[n] \in BlockRec
      BY <1>0
    <2> HIDE DEF n
    <2> QED BY <2>2, <2>3 DEF BlockRec
  <1> HIDE DEF b, n, h
  <1>4. ASSUME NEW i \in 1..n
        PROVE  h[i].len > 0 /\ h[i].len <= h[i].cap
    <2>1. CASE i = n
      <3>1. h[i].len = g[n].len + w /\ h[i].cap = g[n].cap
        BY <2>1, <1>1, <1>2
      <3>2. g[n].cap - g[n].len >= w
        BY <1>0
      <3> QED BY <3>1, <3>2, <1>n, SMTT(30)
    <2>2. CASE i # n
      <3>0. i \in 1..Len(bl)
        <4>1. n \in Nat /\ (n = Len(bl) \/ n = Len(bl) + 1)
          BY <1>0
        <4> QED BY <2>2, <4>1, <1>3
      <3>1. i \in 1..Len(bl) /\ h[i] = bl[i]
        BY <2>2, <3>0, <1>0, <1>2, Zenon
      <3> QED BY <3>1 DEF ArenaOk
    <2> QED BY <2>1, <2>2
  <1>5. ASSUME NEW i \in 1..Len(bl)
        PROVE  h[i].len >= bl[i].len
    <2>1. i \in 1..n /\ g[i] = bl[i]
      BY <1>0, <1>3
    <2>2. bl[i].len \in Nat
      BY <1>3 DEF BlockRec
    <2>3. CASE i = n
      BY <2>1, <2>2, <2>3, <1>1, <1>2
    <2>4. CASE i # n
      BY <2>1, <2>2, <2>4, <1>2
    <2> QED BY <2>3, <2>4
  <1>6. ASSUME NEW i \in 1..n
        PROVE  gb[i] = IF i = 1 THEN 0 ELSE gb[i - 1] + h[i - 1].len
    <2>1. CASE i <= Len(bl)
      <3>1. i # 1 => i - 1 \in 1..Len(bl) /\ i - 1 # n /\ i - 1 \in 1..n
        BY <2>1, <1>0, <1>3
      <3>2. ba[i] = IF i = 1 THEN 0 ELSE ba[i - 1] + bl[i - 1].len
        BY <2>1, <1>3 DEF ArenaOk
      <3>3. gb[i] = ba[i]
        BY <2>1, <1>0, <1>3, SMTT(30)
      <3>4. CASE i = 1
        BY <3>2, <3>3, <3>4
      <3>5. CASE i # 1
        <4>1. gb[i - 1] = ba[i - 1] /\ h[i - 1] = bl[i - 1]
          BY <3>1, <3>5, <1>0, <1>2
        <4> QED BY <3>2, <3>3, <3>5, <4>1
      <3> QED BY <3>4, <3>5
    <2>2. CASE i > Len(bl)
      <3>1. i = n /\ n = Len(bl) + 1 /\ gb[n] = tk
        <4>1. n \in Nat /\ (n = Len(bl) \/ n = Len(bl) + 1)
          BY <1>0
        <4>2. i = n /\ n = Len(bl) + 1 /\ n > Len(bl)
          BY <2>2, <4>1, <1>3
        <4> QED BY <4>2, <1>0, Zenon
      <3>2. CASE Len(bl) = 0
        BY <3>1, <3>2, <1>3 DEF ArenaOk
      <3>3. CASE Len(bl) # 0
        <4>1. tk = ba[Len(bl)] + bl[Len(bl)].len
          BY <3>3 DEF ArenaOk
        <4>2. Len(bl) \in 1..Len(bl) /\ Len(bl) \in 1..n /\ Len(bl) # n
          BY <3>1, <3>3, <1>3
        <4>3. gb[Len(bl)] = ba[Len(bl)] /\ h[Len(bl)] = bl[Len(bl)]
          BY <4>2, <1>0, <1>2
        <4> QED BY <3>1, <3>3, <4>1, <4>3, <1>3
      <3> QED BY <3>2, <3>3
    <2> QED BY <2>1, <2>2, <1>3, <1>0
  <1>7. tk + w = gb[n] + h[n].len
    <2>1. h[n] = b
      BY <1>0, <1>2
    <2>2. gb[n] + g[n].len = tk
      BY <1>0
    <2> QED BY <1>n, <1>1, <2>1, <2>2, SMTT(30)
  <1>8. ArenaOk(h, gb, tk + w)
    BY <1>0, <1>2, <1>4, <1>6, <1>7 DEF ArenaOk
  <1>9. h[n].len = g[n].len + w
    BY <1>0, <1>1, <1>2
  <1> QED BY <1>2, <1>5, <1>8, <1>9 DEF h, n

\* A base is a number: what the arithmetic below needs of the history.
LEMMA BaseIsNat ==
    ASSUME NEW ba \in Seq(Nat), NEW i \in 1..Len(ba)
    PROVE  ba[i] \in Nat
  BY ElementOfSeq

\* The new value stands right above all the others.
LEMMA AllocValues ==
    ASSUME NEW bl \in Seq(BlockRec), NEW ba \in Seq(Nat), NEW tk \in Nat,
           NEW w \in Nat, w >= 1, ArenaOk(bl, ba, tk),
           NEW g, NEW gb, GrownTo(bl, ba, tk, w, g, gb),
           NEW mk \in SUBSET ValueRec, ValuesOk(mk, bl, ba, tk),
           NEW v \in ValueRec, v.from = tk,
           v.place = [block |-> Len(g), at |-> g[Len(g)].len, slots |-> w]
    PROVE  ValuesOk(mk \cup {v}, Handed(g, w), gb, tk + w)
  <1> DEFINE n == Len(g)
             h == Handed(g, w)
  <1>0. /\ g \in Seq(BlockRec) /\ gb \in Seq(Nat)
        /\ n \in Nat /\ n > 0 /\ Len(gb) = n
        /\ n = Len(bl) \/ n = Len(bl) + 1
        /\ \A i \in 1..Len(bl) : g[i] = bl[i] /\ gb[i] = ba[i]
        /\ gb[n] + g[n].len = tk
        /\ g[n] \in BlockRec
    BY GrownIs, SMTT(60)
  <1>1. /\ h \in Seq(BlockRec) /\ Len(h) = n
        /\ h[n].len = g[n].len + w
        /\ \A i \in 1..Len(bl) : h[i].len >= bl[i].len
    BY AllocArena
  <1>2. v.place.block = n /\ v.place.at = g[n].len /\ v.place.slots = w
    OBVIOUS
  <1>3. Len(bl) \in Nat /\ \A i \in 1..Len(bl) : bl[i] \in BlockRec
    BY LenProperties, ElementOfSeq
  <1>4. /\ \A i \in 1..n : h[i] \in BlockRec
        /\ n \in 1..n
    BY <1>0, <1>1, ElementOfSeq
  <1>5. g[n].len \in Nat /\ h[n].len \in Nat
    <2>1. g[n] \in BlockRec /\ h[n] \in BlockRec
      BY <1>0, <1>4
    <2> HIDE DEF n, h
    <2> QED BY <2>1 DEF BlockRec
  <1> HIDE DEF n, h
  <1>6. Stood(v, h, gb, tk + w)
    BY <1>0, <1>1, <1>2, <1>4, <1>5, SMTT(60) DEF Stood
  <1>7. ASSUME NEW u \in mk
        PROVE  Stood(u, h, gb, tk + w)
    <2>1. Stood(u, bl, ba, tk)
      BY DEF ValuesOk
    <2>2. /\ u.from \in Nat /\ u.place.block \in Nat
          /\ u.place.at \in Nat /\ u.place.slots \in Nat
      BY DEF ValueRec, Place
    <2>3. u.place.block \in 1..Len(bl)
      BY <2>1 DEF Stood
    <2>4. u.place.block \in 1..n
      BY <2>3, <1>0, <1>3, SMTT(30)
    <2>5. gb[u.place.block] = ba[u.place.block] /\ h[u.place.block].len >= bl[u.place.block].len
      BY <2>3, <1>0, <1>1, Zenon
    <2>6. h[u.place.block].len \in Nat /\ bl[u.place.block].len \in Nat
      <3>1. h[u.place.block] \in BlockRec /\ bl[u.place.block] \in BlockRec
        BY <2>3, <2>4, <1>3, <1>4, Zenon
      <3> QED BY <3>1 DEF BlockRec
    <2>7. u.place.at + u.place.slots <= h[u.place.block].len
      <3>1. u.place.at + u.place.slots <= bl[u.place.block].len
        BY <2>1 DEF Stood
      <3>2. \A a, b, c, d \in Nat : a + b <= c /\ d >= c => a + b <= d
        OBVIOUS
      <3> QED BY <3>1, <3>2, <2>2, <2>5, <2>6, Zenon
    <2>8. u.place.slots >= 1 /\ u.from = gb[u.place.block] + u.place.at
      BY <2>1, <2>5 DEF Stood
    <2>9. u.from + u.place.slots <= tk + w
      BY <2>1, <2>2, SMTT(60) DEF Stood
    <2>10. u.place.block \in 1..Len(h)
      BY <2>4, <1>1
    <2> QED BY <2>7, <2>8, <2>9, <2>10 DEF Stood
  <1>8. ASSUME NEW s \in 0..(tk + w - 1)
        PROVE  \E u \in mk \cup {v} : Covers(u, s)
    <2>1. CASE s < tk
      <3>1. s \in 0..(tk - 1)
        BY <2>1
      <3> QED BY <3>1 DEF ValuesOk
    <2>2. CASE s >= tk
      BY <2>2, <1>2, SMTT(30) DEF Covers
    <2> QED BY <2>1, <2>2
  <1>9. ASSUME NEW u \in mk
        PROVE  u.from + u.place.slots <= v.from
    BY DEF ValuesOk, Stood
  <1>10. ASSUME NEW u \in mk \cup {v}, NEW x \in mk \cup {v}
         PROVE  \/ u = x
                \/ u.from + u.place.slots <= x.from
                \/ x.from + x.place.slots <= u.from
    <2>1. CASE u \in mk /\ x \in mk
      BY <2>1 DEF ValuesOk
    <2>2. CASE u = v \/ x = v
      BY <2>2, <1>9
    <2> QED BY <2>1, <2>2
  <1>11. \A u \in mk \cup {v} : Stood(u, h, gb, tk + w)
    BY <1>6, <1>7
  <1>12. ValuesOk(mk \cup {v}, h, gb, tk + w)
    BY <1>8, <1>10, <1>11 DEF ValuesOk
  <1> QED BY <1>12 DEF h

\* The new value belongs to the innermost scope, above every open mark.
LEMMA AllocScopes ==
    ASSUME NEW sc \in Seq(ScopeRec), NEW mk \in SUBSET ValueRec,
           NEW tk \in Nat, NEW tok \in Nat, NEW w \in Nat,
           ScopesOk(sc, mk, tk, tok),
           NEW v \in ValueRec, v.from = tk,
           v.scope = IF sc = <<>> THEN 0 ELSE Top(sc).token
    PROVE  ScopesOk(sc, mk \cup {v}, tk + w, tok)
  <1>1. /\ Len(sc) \in Nat
        /\ \A j \in 1..Len(sc) : sc[j] \in ScopeRec
        /\ sc = <<>> <=> Len(sc) = 0
    BY LenProperties, ElementOfSeq, EmptySeq
  <1>2. \A j \in 1..Len(sc) : sc[j].token \in Nat /\ sc[j].stood \in Nat
    BY <1>1 DEF ScopeRec
  <1>3. \A j \in 1..Len(sc) : sc[j].token \in 1..(tok - 1) /\ sc[j].stood <= tk + w
    BY <1>2 DEF ScopesOk
  <1>4. v.scope = 0 \/ \E j \in 1..Len(sc) : v.scope = sc[j].token
    BY <1>1 DEF Top
  <1>5. ASSUME NEW j \in 1..Len(sc)
        PROVE  v.scope >= sc[j].token /\ v.from >= sc[j].stood
    <2>1. v.scope = sc[Len(sc)].token /\ Len(sc) \in 1..Len(sc)
      BY <1>1 DEF Top
    <2>2. sc[j].token <= sc[Len(sc)].token
      BY <2>1, <1>1, <1>2 DEF ScopesOk
    <2> QED BY <2>1, <2>2, <1>2, <1>3 DEF ScopesOk
  <1>6. ASSUME NEW u \in mk \cup {v}, NEW j \in 1..Len(sc)
        PROVE  IF u.scope < sc[j].token
               THEN u.from + u.place.slots <= sc[j].stood
               ELSE u.from >= sc[j].stood
    <2>1. CASE u \in mk
      BY <2>1 DEF ScopesOk
    <2>2. CASE u = v
      <3>1. v.scope \in Nat
        BY DEF ValueRec
      <3> QED BY <2>2, <3>1, <1>2, <1>5, SMTT(30)
    <2> QED BY <2>1, <2>2
  <1>7. \A i, j \in 1..Len(sc) :
          i < j => sc[i].token < sc[j].token /\ sc[i].stood <= sc[j].stood
    BY DEF ScopesOk
  <1>8. \A u \in mk \cup {v} : u.scope = 0 \/ \E j \in 1..Len(sc) : u.scope = sc[j].token
    BY <1>4 DEF ScopesOk
  <1> QED BY <1>3, <1>6, <1>7, <1>8, Zenon DEF ScopesOk

-----------------------------------------------------------------------------
(* Scopes.                                                                 *)

\* A scope opened now is above everything made and every scope open.
LEMMA OpenScopes ==
    ASSUME NEW sc \in Seq(ScopeRec), NEW mk \in SUBSET ValueRec,
           NEW tk \in Nat, NEW tok \in Nat, tok >= 1,
           ScopesOk(sc, mk, tk, tok),
           \A v \in mk : v.from + v.place.slots <= tk
    PROVE  /\ Append(sc, [token |-> tok, stood |-> tk]) \in Seq(ScopeRec)
           /\ ScopesOk(Append(sc, [token |-> tok, stood |-> tk]), mk, tk, tok + 1)
  <1> DEFINE e == [token |-> tok, stood |-> tk]
             o == Append(sc, e)
             n == Len(sc)
  <1>0. e \in ScopeRec /\ e.token = tok /\ e.stood = tk
    BY DEF ScopeRec
  <1>1. n \in Nat /\ \A j \in 1..n : sc[j] \in ScopeRec
    BY LenProperties, ElementOfSeq
  <1>2. \A j \in 1..n : sc[j].token \in Nat /\ sc[j].stood \in Nat
    BY <1>1 DEF ScopeRec
  <1> HIDE DEF e
  <1>3. /\ o \in Seq(ScopeRec) /\ Len(o) = n + 1
        /\ \A j \in 1..n : o[j] = sc[j]
        /\ o[n + 1] = e
    BY <1>0, AppendProperties
  <1> HIDE DEF o, n
  <1>4. \A j \in 1..n : sc[j].token < tok /\ sc[j].token >= 1 /\ sc[j].stood <= tk
    BY <1>2 DEF ScopesOk, n
  <1>5. \A j \in 1..(n + 1) : o[j].token \in 1..(tok + 1 - 1) /\ o[j].stood <= tk
    <2> SUFFICES ASSUME NEW j \in 1..(n + 1)
                 PROVE  o[j].token \in 1..(tok + 1 - 1) /\ o[j].stood <= tk
      OBVIOUS
    <2>1. CASE j = n + 1
      BY <2>1, <1>0, <1>3
    <2>2. CASE j # n + 1
      <3>1. j \in 1..n /\ o[j] = sc[j]
        BY <2>2, <1>1, <1>3
      <3> QED BY <3>1, <1>2, <1>4
    <2> QED BY <2>1, <2>2
  <1>6. \A i, j \in 1..(n + 1) :
          i < j => o[i].token < o[j].token /\ o[i].stood <= o[j].stood
    <2> SUFFICES ASSUME NEW i \in 1..(n + 1), NEW j \in 1..(n + 1), i < j
                 PROVE  o[i].token < o[j].token /\ o[i].stood <= o[j].stood
      OBVIOUS
    <2>1. i \in 1..n /\ o[i] = sc[i]
      BY <1>1, <1>3, SMTT(30)
    <2>2. CASE j = n + 1
      BY <2>1, <2>2, <1>0, <1>3, <1>4
    <2>3. CASE j # n + 1
      <3>1. j \in 1..n /\ o[j] = sc[j]
        BY <2>3, <1>1, <1>3
      <3> QED BY <3>1, <2>1 DEF ScopesOk, n
    <2> QED BY <2>2, <2>3
  <1>7. ASSUME NEW v \in mk
        PROVE  v.scope = 0 \/ \E j \in 1..(n + 1) : v.scope = o[j].token
    <2>1. CASE v.scope = 0
      BY <2>1
    <2>2. CASE v.scope # 0
      <3>1. PICK j \in 1..n : v.scope = sc[j].token
        BY <2>2 DEF ScopesOk, n
      <3>2. j \in 1..(n + 1) /\ o[j] = sc[j]
        BY <1>1, <1>3
      <3> QED BY <3>1, <3>2
    <2> QED BY <2>1, <2>2
  <1>8. ASSUME NEW v \in mk, NEW j \in 1..(n + 1)
        PROVE  IF v.scope < o[j].token
               THEN v.from + v.place.slots <= o[j].stood
               ELSE v.from >= o[j].stood
    <2>1. CASE j = n + 1
      <3>1. o[j].token = tok /\ o[j].stood = tk
        BY <2>1, <1>0, <1>3
      <3>2. v.scope < tok
        <4>1. CASE v.scope = 0
          BY <4>1
        <4>2. CASE v.scope # 0
          BY <4>2, <1>4 DEF ScopesOk, n
        <4> QED BY <4>1, <4>2
      <3> QED BY <3>1, <3>2
    <2>2. CASE j # n + 1
      <3>1. j \in 1..n /\ o[j] = sc[j]
        BY <2>2, <1>1, <1>3, SMTT(30)
      <3> QED BY <3>1 DEF ScopesOk, n
    <2> QED BY <2>1, <2>2
  <1>9. ScopesOk(o, mk, tk, tok + 1)
    <2>1. Len(o) = n + 1
      BY <1>3
    <2> QED BY <2>1, <1>5, <1>6, <1>7, <1>8 DEF ScopesOk
  <1> QED BY <1>3, <1>9 DEF o, e

\* Closing the innermost scope leaves exactly what stands below its mark.
LEMMA CloseScopes ==
    ASSUME NEW sc \in Seq(ScopeRec), sc # <<>>, NEW mk \in SUBSET ValueRec,
           NEW tk \in Nat, NEW tok \in Nat,
           NEW bl \in Seq(BlockRec), NEW ba \in Seq(Nat),
           ScopesOk(sc, mk, tk, tok), ValuesOk(mk, bl, ba, tk),
           NEW left, left = {v \in mk : v.scope # Top(sc).token}
    PROVE  /\ Top(sc).stood \in Nat /\ Top(sc).stood <= tk
           /\ ScopesOk(Shorter(sc), left, Top(sc).stood, tok)
           /\ ValuesOk(left, bl, ba, Top(sc).stood)
  <1> DEFINE n == Len(sc)
             e == Top(sc)
             o == Shorter(sc)
  <1>1. /\ n \in Nat /\ n > 0
        /\ e \in ScopeRec
        /\ o \in Seq(ScopeRec) /\ Len(o) = n - 1
        /\ \A i \in 1..(n - 1) : o[i] = sc[i]
    BY ShorterIs
  <1>2. e = sc[n]
    BY DEF Top
  <1>3. \A j \in 1..n : sc[j].token \in Nat /\ sc[j].stood \in Nat
    <2>1. \A j \in 1..n : sc[j] \in ScopeRec
      BY ElementOfSeq
    <2> QED BY <2>1 DEF ScopeRec
  <1> HIDE DEF n, e, o
  <1>4. n \in 1..n
    BY <1>1
  <1>5. e.stood \in Nat /\ e.stood <= tk /\ e.token \in 1..(tok - 1)
    BY <1>2, <1>3, <1>4 DEF ScopesOk, n
  <1>6. \A j \in 1..(n - 1) : /\ j \in 1..n /\ o[j] = sc[j]
                              /\ sc[j].token < e.token /\ sc[j].stood <= e.stood
    BY <1>1, <1>2, <1>4, SMTT(30) DEF ScopesOk, n
  <1>7. ASSUME NEW v \in left
        PROVE  /\ v \in mk /\ v.scope < e.token
               /\ v.from + v.place.slots <= e.stood
               /\ v.scope = 0 \/ \E j \in 1..(n - 1) : v.scope = o[j].token
    <2>1. v \in mk /\ v.scope # e.token
      BY DEF e
    <2>2. CASE v.scope = 0
      <3>1. v.scope < e.token
        BY <2>2, <1>5
      <3> QED BY <2>1, <2>2, <3>1, <1>2, <1>4 DEF ScopesOk, n
    <2>3. CASE v.scope # 0
      <3>1. PICK j \in 1..n : v.scope = sc[j].token
        BY <2>1, <2>3 DEF ScopesOk, n
      <3>2. j \in 1..(n - 1)
        BY <2>1, <3>1, <1>1, <1>2
      <3>3. v.scope < e.token /\ v.scope = o[j].token
        BY <3>1, <3>2, <1>6
      <3> QED BY <2>1, <3>2, <3>3, <1>2, <1>4 DEF ScopesOk, n
    <2> QED BY <2>2, <2>3
  <1>8. ScopesOk(o, left, e.stood, tok)
    <2>1. \A j \in 1..Len(o) : o[j].token \in 1..(tok - 1) /\ o[j].stood <= e.stood
      BY <1>1, <1>6 DEF ScopesOk, n
    <2>2. \A i, j \in 1..Len(o) :
            i < j => o[i].token < o[j].token /\ o[i].stood <= o[j].stood
      BY <1>1, <1>6 DEF ScopesOk, n
    <2>3. \A v \in left : v.scope = 0 \/ \E j \in 1..Len(o) : v.scope = o[j].token
      BY <1>1, <1>7
    <2>4. \A v \in left : \A j \in 1..Len(o) :
            IF v.scope < o[j].token
            THEN v.from + v.place.slots <= o[j].stood
            ELSE v.from >= o[j].stood
      BY <1>1, <1>6, <1>7 DEF ScopesOk, n
    <2> QED BY <2>1, <2>2, <2>3, <2>4 DEF ScopesOk
  <1>9. ValuesOk(left, bl, ba, e.stood)
    <2>1. \A v \in left : Stood(v, bl, ba, e.stood)
      BY <1>7 DEF ValuesOk, Stood
    <2>2. ASSUME NEW s \in 0..(e.stood - 1)
          PROVE  \E v \in left : Covers(v, s)
      <3>1. s \in 0..(tk - 1)
        BY <1>5, SMTT(30)
      <3>2. PICK v \in mk : Covers(v, s)
        BY <3>1 DEF ValuesOk
      <3>3. v.from < e.stood
        BY <3>2, <1>5, SMTT(30) DEF Covers, ValueRec
      <3>4. IF v.scope < e.token
            THEN v.from + v.place.slots <= e.stood
            ELSE v.from >= e.stood
        BY <1>2, <1>4 DEF ScopesOk, n
      <3>5. v.scope \in Nat /\ v.from \in Nat
        BY DEF ValueRec
      <3>6. v.scope # e.token
        BY <3>3, <3>4, <3>5, <1>5, SMTT(30)
      <3> QED BY <3>2, <3>6 DEF e
    <2>3. \A v, w \in left :
            \/ v = w
            \/ v.from + v.place.slots <= w.from
            \/ w.from + w.place.slots <= v.from
      BY <1>7 DEF ValuesOk
    <2> QED BY <2>1, <2>2, <2>3 DEF ValuesOk
  <1> QED BY <1>5, <1>8, <1>9 DEF e, o

-----------------------------------------------------------------------------
(* The turns of reset.                                                     *)

\* What every turn is given: an arena above its mark has a last block.
LEMMA LastBlock ==
    ASSUME NEW bl \in Seq(BlockRec), NEW ba \in Seq(Nat), NEW tk \in Nat,
           ArenaOk(bl, ba, tk), tk > 0
    PROVE  /\ bl # <<>> /\ ba # <<>> /\ Len(bl) \in Nat /\ Len(bl) > 0
           /\ Len(ba) = Len(bl)
           /\ Top(bl) = bl[Len(bl)]
           /\ Top(bl).len \in Nat /\ Top(bl).cap \in Nat
           /\ ba[Len(bl)] \in Nat
           /\ tk = ba[Len(bl)] + Top(bl).len
  <1>1. Len(bl) \in Nat /\ Len(bl) # 0 /\ Len(ba) = Len(bl)
    BY LenProperties DEF ArenaOk
  <1>2. bl # <<>> /\ ba # <<>>
    BY <1>1, EmptySeq
  <1>3. Len(bl) \in 1..Len(bl)
    BY <1>1
  <1>4. bl[Len(bl)] \in BlockRec /\ ba[Len(bl)] \in Nat
    BY <1>1, <1>3, ElementOfSeq
  <1>5. tk = ba[Len(bl)] + bl[Len(bl)].len
    BY <1>1 DEF ArenaOk
  <1>6. Top(bl) = bl[Len(bl)]
    BY DEF Top
  <1> QED BY <1>1, <1>2, <1>4, <1>5, <1>6, SMTT(60) DEF BlockRec

\* A block the mark is not inside goes whole, and no value promised is in it.
LEMMA PopKeeps ==
    ASSUME NEW bl \in Seq(BlockRec), NEW ba \in Seq(Nat), NEW tk \in Nat,
           NEW lim \in Nat, NEW mk \in SUBSET ValueRec,
           ArenaOk(bl, ba, tk), ValuesOk(mk, bl, ba, lim),
           tk > lim, tk - Top(bl).len >= lim
    PROVE  /\ tk - Top(bl).len \in Nat
           /\ Shorter(bl) \in Seq(BlockRec) /\ Shorter(ba) \in Seq(Nat)
           /\ ArenaOk(Shorter(bl), Shorter(ba), tk - Top(bl).len)
           /\ ValuesOk(mk, Shorter(bl), Shorter(ba), lim)
  <1> DEFINE n == Len(bl)
             sb == Shorter(bl)
             sa == Shorter(ba)
  <1>1. /\ bl # <<>> /\ ba # <<>> /\ n \in Nat /\ n > 0
        /\ Len(ba) = n
        /\ Top(bl) = bl[n] /\ Top(bl).len \in Nat
        /\ ba[n] \in Nat
        /\ tk = ba[n] + Top(bl).len
    BY LastBlock
  <1>2. /\ sb \in Seq(BlockRec) /\ Len(sb) = n - 1
        /\ \A i \in 1..(n - 1) : sb[i] = bl[i]
    BY <1>1, ShorterIs
  <1>3. /\ sa \in Seq(Nat) /\ Len(sa) = n - 1
        /\ \A i \in 1..(n - 1) : sa[i] = ba[i]
    BY <1>1, ShorterIs
  <1> HIDE DEF n, sb, sa
  <1>4. tk - Top(bl).len = ba[n]
    BY <1>1, SMTT(30)
  <1>5. ArenaOk(sb, sa, ba[n])
    <2>0. \A i \in 1..(n - 1) : i \in 1..n
      BY <1>1
    <2>1. \A i \in 1..(n - 1) : 0 < sb[i].len /\ sb[i].len <= sb[i].cap
      BY <2>0, <1>2 DEF ArenaOk, n
    <2>2. ASSUME NEW i \in 1..(n - 1)
          PROVE  sa[i] = IF i = 1 THEN 0 ELSE sa[i - 1] + sb[i - 1].len
      <3>1. ba[i] = IF i = 1 THEN 0 ELSE ba[i - 1] + bl[i - 1].len
        BY <2>0 DEF ArenaOk, n
      <3>2. CASE i = 1
        BY <3>1, <3>2, <1>3
      <3>3. CASE i # 1
        <4>1. i - 1 \in 1..(n - 1)
          BY <3>3, <1>1, SMTT(60)
        <4> QED BY <3>1, <3>3, <4>1, <1>2, <1>3
      <3> QED BY <3>2, <3>3
    <2>3. ba[n] = IF n - 1 = 0 THEN 0 ELSE sa[n - 1] + sb[n - 1].len
      <3>1. n \in 1..n
        BY <1>1, SMTT(30)
      <3>2. ba[n] = IF n = 1 THEN 0 ELSE ba[n - 1] + bl[n - 1].len
        BY <3>1 DEF ArenaOk, n
      <3>3. CASE n = 1
        BY <3>2, <3>3
      <3>4. CASE n # 1
        <4>1. n - 1 \in 1..(n - 1)
          BY <3>4, <1>1, SMTT(30)
        <4> QED BY <3>2, <3>4, <4>1, <1>1, <1>2, <1>3, SMTT(60)
      <3> QED BY <3>3, <3>4
    <2> QED BY <2>1, <2>2, <2>3, <1>2, <1>3 DEF ArenaOk
  <1>6. ASSUME NEW v \in mk
        PROVE  Stood(v, sb, sa, lim)
    <2>1. Stood(v, bl, ba, lim)
      BY DEF ValuesOk
    <2>2. /\ v.from \in Nat /\ v.place.block \in Nat
          /\ v.place.at \in Nat /\ v.place.slots \in Nat
      BY DEF ValueRec, Place
    <2>3. v.place.block # n
      <3>1. SUFFICES ASSUME v.place.block = n PROVE FALSE
        OBVIOUS
      <3>2. v.from = ba[n] + v.place.at
        BY <2>1, <3>1 DEF Stood
      <3>3. v.from + v.place.slots <= lim /\ v.place.slots >= 1
        BY <2>1 DEF Stood
      <3>4. ba[n] \in Nat /\ ba[n] >= lim
        BY <1>1, <1>4
      <3>5. \A f, a, b, k \in Nat : ~ (b >= lim /\ f = b + a /\ f + k <= lim /\ k >= 1)
        OBVIOUS
      <3> QED BY <3>2, <3>3, <3>4, <3>5, <2>2, Zenon
    <2>4. v.place.block \in 1..(n - 1)
      <3>1. v.place.block \in 1..n
        BY <2>1 DEF Stood, n
      <3> QED BY <3>1, <2>3, <1>1, SMTT(30)
    <2>5. sb[v.place.block] = bl[v.place.block] /\ sa[v.place.block] = ba[v.place.block]
      BY <2>4, <1>2, <1>3
    <2> QED BY <2>1, <2>4, <2>5, <1>2 DEF Stood
  <1>7. ValuesOk(mk, sb, sa, lim)
    BY <1>6 DEF ValuesOk
  <1>8. tk - Top(bl).len \in Nat
    BY <1>1, <1>4
  <1> QED BY <1>2, <1>3, <1>4, <1>5, <1>7, <1>8 DEF sb, sa

\* The block the mark is inside, cut back to it.
Cut(bl, tk, lim) ==
    [bl EXCEPT ![Len(bl)] =
        [len |-> Top(bl).len - (tk - lim), cap |-> Top(bl).cap]]

\* A block cut back to the mark still holds every value promised in it.
LEMMA CutKeeps ==
    ASSUME NEW bl \in Seq(BlockRec), NEW ba \in Seq(Nat), NEW tk \in Nat,
           NEW lim \in Nat, NEW mk \in SUBSET ValueRec,
           ArenaOk(bl, ba, tk), ValuesOk(mk, bl, ba, lim),
           tk > lim, tk - Top(bl).len < lim
    PROVE  /\ Cut(bl, tk, lim) \in Seq(BlockRec)
           /\ ArenaOk(Cut(bl, tk, lim), ba, lim)
           /\ ValuesOk(mk, Cut(bl, tk, lim), ba, lim)
  <1> DEFINE n == Len(bl)
             c == [len |-> Top(bl).len - (tk - lim), cap |-> Top(bl).cap]
             cb == Cut(bl, tk, lim)
  <1>1. /\ n \in Nat /\ n > 0 /\ Len(ba) = n
        /\ Top(bl) = bl[n] /\ Top(bl).len \in Nat /\ Top(bl).cap \in Nat
        /\ ba[n] \in Nat
        /\ tk = ba[n] + Top(bl).len
    BY LastBlock
  <1>2. /\ c \in BlockRec /\ c.cap = bl[n].cap /\ bl[n].cap \in Nat
        /\ c.len = lim - ba[n] /\ c.len > 0 /\ c.len <= Top(bl).len
    <2>1. /\ ba[n] \in Nat /\ Top(bl).len \in Nat /\ bl[n].cap \in Nat
          /\ tk = ba[n] + Top(bl).len
      BY <1>1
    <2>2. \A b, k \in Nat :
            tk = b + k /\ tk - k < lim =>
                /\ k - (tk - lim) \in Nat /\ k - (tk - lim) = lim - b
                /\ k - (tk - lim) > 0 /\ k - (tk - lim) <= k
      OBVIOUS
    <2>3. /\ Top(bl).len - (tk - lim) \in Nat
          /\ Top(bl).len - (tk - lim) = lim - ba[n]
          /\ Top(bl).len - (tk - lim) > 0
          /\ Top(bl).len - (tk - lim) <= Top(bl).len
      BY <2>1, <2>2, Zenon
    <2> HIDE DEF n
    <2>4. /\ c.cap = bl[n].cap /\ c.len = Top(bl).len - (tk - lim)
      BY <1>1
    <2>5. c \in BlockRec
      BY <2>1, <2>3, <2>4 DEF BlockRec
    <2> HIDE DEF c
    <2> QED BY <2>1, <2>3, <2>4, <2>5, Zenon
  <1>3. n \in 1..n
    BY <1>1
  <1>4. /\ cb \in Seq(BlockRec) /\ Len(cb) = n
        /\ \A j \in 1..n : cb[j] = IF j = n THEN c ELSE bl[j]
    <2>1. cb = [bl EXCEPT ![n] = c]
      BY DEF Cut
    <2> HIDE DEF cb, c
    <2> QED BY <1>2, <1>3, <2>1, ExceptSeq, SMTT(30)
  <1> HIDE DEF n, c, cb
  <1>5. ArenaOk(cb, ba, lim)
    <2>1. ASSUME NEW i \in 1..n
          PROVE  0 < cb[i].len /\ cb[i].len <= cb[i].cap
      <3>1. CASE i = n
        <4>1. bl[n].len <= bl[n].cap
          BY <1>3 DEF ArenaOk, n
        <4>2. cb[i] = c
          BY <3>1, <1>3, <1>4
        <4>3. \A a, b, d \in Nat : a <= b /\ b <= d => a <= d
          OBVIOUS
        <4>4. c.len \in Nat
          BY <1>2 DEF BlockRec
        <4> QED BY <4>1, <4>2, <4>3, <4>4, <1>1, <1>2
      <3>2. CASE i # n
        BY <3>2, <1>4 DEF ArenaOk, n
      <3> QED BY <3>1, <3>2
    <2>2. ASSUME NEW i \in 1..n
          PROVE  ba[i] = IF i = 1 THEN 0 ELSE ba[i - 1] + cb[i - 1].len
      <3>1. ba[i] = IF i = 1 THEN 0 ELSE ba[i - 1] + bl[i - 1].len
        BY DEF ArenaOk, n
      <3>2. i # 1 => i - 1 \in 1..n /\ i - 1 # n
        BY <1>1
      <3> QED BY <3>1, <3>2, <1>4
    <2>3. lim = ba[n] + cb[n].len
      BY <1>1, <1>2, <1>3, <1>4
    <2> QED BY <2>1, <2>2, <2>3, <1>1, <1>4 DEF ArenaOk
  <1>6. ASSUME NEW v \in mk
        PROVE  Stood(v, cb, ba, lim)
    <2>1. Stood(v, bl, ba, lim)
      BY DEF ValuesOk
    <2>2. /\ v.from \in Nat /\ v.place.block \in Nat
          /\ v.place.at \in Nat /\ v.place.slots \in Nat
      BY DEF ValueRec, Place
    <2>3. v.place.block \in 1..n
      BY <2>1 DEF Stood, n
    <2>4. CASE v.place.block = n
      <3>1. v.from = ba[n] + v.place.at /\ v.from + v.place.slots <= lim
        BY <2>1, <2>4 DEF Stood
      <3>2. v.place.at + v.place.slots <= c.len
        <4>1. \A f, a, b, k \in Nat : f = b + a /\ f + k <= lim => a + k <= lim - b
          OBVIOUS
        <4>2. ba[n] \in Nat /\ c.len = lim - ba[n]
          BY <1>1, <1>2
        <4> QED BY <3>1, <4>1, <4>2, <2>2, Zenon
      <3>3. v.place.at + v.place.slots <= cb[v.place.block].len
        BY <3>2, <2>3, <2>4, <1>4
      <3> QED BY <2>1, <2>3, <3>3, <1>4 DEF Stood
    <2>5. CASE v.place.block # n
      <3>1. cb[v.place.block] = bl[v.place.block]
        BY <2>3, <2>5, <1>4
      <3> QED BY <2>1, <2>3, <3>1, <1>4 DEF Stood
    <2> QED BY <2>4, <2>5
  <1>7. ValuesOk(mk, cb, ba, lim)
    BY <1>6 DEF ValuesOk
  <1> QED BY <1>4, <1>5, <1>7 DEF cb

-----------------------------------------------------------------------------
(* Steps.                                                                  *)

\* A step of `t` leaves what the other threads have alone.
Others(t) ==
    \A u \in Thread \ {t} :
        /\ blocks'[u] = blocks[u] /\ taken'[u] = taken[u] /\ base'[u] = base[u]
        /\ SCOPES'[u] = SCOPES[u] /\ resetting'[u] = resetting[u] /\ made'[u] = made[u]

\* A function updated at one argument keeps its type.
LEMMA Updated ==
    ASSUME NEW D, NEW R, NEW f \in [D -> R], NEW d \in D, NEW r \in R
    PROVE  [f EXCEPT ![d] = r] \in [D -> R]
  OBVIOUS

\* The types, for one thread.
LEMMA ThreadTypes ==
    ASSUME TypeOK, NEW t \in Thread
    PROVE  /\ blocks[t] \in Seq(BlockRec) /\ base[t] \in Seq(Nat)
           /\ taken[t] \in Nat /\ TOKENS \in Nat /\ TOKENS >= 1
           /\ SCOPES[t] \in Seq(ScopeRec) /\ made[t] \in SUBSET ValueRec
           /\ resetting[t] \in Nat \cup {Idle}
  BY DEF TypeOK, BlockRec, ScopeRec, ValueRec

\* The shared counter only grows, which the other threads do not notice.
LEMMA OthersOk ==
    ASSUME IInv, NEW t \in Thread, Others(t), TOKENS' \in Nat, TOKENS' >= TOKENS
    PROVE  \A u \in Thread \ {t} : ThreadOk(u)'
  <1> SUFFICES ASSUME NEW u \in Thread \ {t} PROVE ThreadOk(u)'
    OBVIOUS
  <1>0. TOKENS \in Nat /\ SCOPES[u] \in Seq(ScopeRec)
    BY ThreadTypes DEF IInv
  <1>1. ThreadOk(u)
    BY DEF IInv
  <1>2. \A lim : ScopesOk(SCOPES[u], made[u], lim, TOKENS) =>
                    ScopesOk(SCOPES[u], made[u], lim, TOKENS')
    <2> SUFFICES ASSUME NEW lim, ScopesOk(SCOPES[u], made[u], lim, TOKENS)
                 PROVE  ScopesOk(SCOPES[u], made[u], lim, TOKENS')
      OBVIOUS
    <2>1. \A j \in 1..Len(SCOPES[u]) : SCOPES[u][j].token \in 1..(TOKENS' - 1)
      BY <1>0 DEF ScopesOk
    <2> QED BY <2>1 DEF ScopesOk
  <1> QED BY <1>1, <1>2 DEF ThreadOk, Others

\* souther_alloc keeps the inductive invariant.
LEMMA AllocKeeps ==
    ASSUME IInv, NEW t \in Thread, NEW size \in Sizes, Alloc(t, size)
    PROVE  IInv'
  <1> DEFINE w == Wanted(size)
             g == Grown(t, w)
             n == Len(g)
             gb == IF Fits(t, w) THEN base[t] ELSE Append(base[t], taken[t])
             v == [scope |-> Inside(t), from |-> taken[t],
                   place |-> [block |-> n, at |-> g[n].len, slots |-> w]]
  <1>0. TypeOK /\ ThreadOk(t) /\ ThreadsApart
    BY DEF IInv
  <1>1. /\ blocks[t] \in Seq(BlockRec) /\ base[t] \in Seq(Nat)
        /\ taken[t] \in Nat /\ TOKENS \in Nat /\ TOKENS >= 1
        /\ SCOPES[t] \in Seq(ScopeRec) /\ made[t] \in SUBSET ValueRec
    BY <1>0, ThreadTypes
  <1>2. w \in Nat /\ w >= 1
    BY SizesAssumption, WantedIsPositive
  <1>3. resetting[t] = Idle /\ Limit(taken[t], resetting[t]) = taken[t]
    BY DEF Alloc, Limit
  <1>4. /\ ArenaOk(blocks[t], base[t], taken[t])
        /\ ValuesOk(made[t], blocks[t], base[t], taken[t])
        /\ ScopesOk(SCOPES[t], made[t], taken[t], TOKENS)
    BY <1>0, <1>3 DEF ThreadOk
  <1>5. GrownTo(blocks[t], base[t], taken[t], w, g, gb)
    BY DEF GrownTo, Grown, Fits
  <1>6. /\ blocks' = [blocks EXCEPT ![t] = Handed(g, w)]
        /\ taken' = [taken EXCEPT ![t] = @ + w]
        /\ made' = [made EXCEPT ![t] = @ \cup {v}]
        /\ base' = [base EXCEPT ![t] = gb]
        /\ UNCHANGED <<TOKENS, SCOPES, resetting>>
    BY DEF Alloc, Handed
  <1> HIDE DEF w, g, gb
  <1>7. g \in Seq(BlockRec) /\ gb \in Seq(Nat) /\ n \in Nat /\ g[n].len \in Nat
    <2>1. /\ g \in Seq(BlockRec) /\ gb \in Seq(Nat) /\ Len(g) \in Nat
          /\ g[Len(g)] \in BlockRec
      BY <1>1, <1>2, <1>4, <1>5, GrownIs, Zenon
    <2> QED BY <2>1 DEF BlockRec
  <1>8. Inside(t) \in Nat /\ Inside(t) = IF SCOPES[t] = <<>> THEN 0 ELSE Top(SCOPES[t]).token
    <2>1. SCOPES[t] # <<>> => Top(SCOPES[t]) \in ScopeRec
      BY <1>1, ShorterIs
    <2> QED BY <2>1 DEF Inside, ScopeRec
  <1>9. /\ v \in ValueRec /\ v.from = taken[t] /\ v.scope = Inside(t)
        /\ v.place = [block |-> Len(g), at |-> g[Len(g)].len, slots |-> w]
    BY <1>1, <1>2, <1>7, <1>8 DEF ValueRec, Place
  <1> HIDE DEF v, n
  <1>10. /\ Handed(g, w) \in Seq(BlockRec)
         /\ ArenaOk(Handed(g, w), gb, taken[t] + w)
    BY <1>1, <1>2, <1>4, <1>5, AllocArena
  <1>11. ValuesOk(made[t] \cup {v}, Handed(g, w), gb, taken[t] + w)
    BY <1>1, <1>2, <1>4, <1>5, <1>9, AllocValues
  <1>12. ScopesOk(SCOPES[t], made[t] \cup {v}, taken[t] + w, TOKENS)
    BY <1>1, <1>2, <1>4, <1>8, <1>9, AllocScopes
  <1>13. TypeOK'
    <2>1. blocks' \in [Thread -> Seq(BlockRec)]
      BY <1>0, <1>6, <1>10, Updated DEF TypeOK, BlockRec
    <2>2. taken[t] + w \in Nat
      BY <1>1, <1>2
    <2>3. taken' \in [Thread -> Nat]
      BY <1>0, <1>6, <2>2 DEF TypeOK
    <2>4. made[t] \cup {v} \in SUBSET ValueRec
      BY <1>1, <1>9
    <2>5. made' \in [Thread -> SUBSET ValueRec]
      BY <1>0, <1>6, <2>4 DEF TypeOK, ValueRec
    <2>6. base' \in [Thread -> Seq(Nat)]
      BY <1>0, <1>6, <1>7, Updated DEF TypeOK
    <2> QED BY <1>0, <1>6, <2>1, <2>3, <2>5, <2>6 DEF TypeOK, BlockRec, ValueRec
  <1>14. /\ blocks'[t] = Handed(g, w) /\ taken'[t] = taken[t] + w
         /\ made'[t] = made[t] \cup {v} /\ base'[t] = gb
         /\ SCOPES'[t] = SCOPES[t] /\ resetting'[t] = resetting[t] /\ TOKENS' = TOKENS
         /\ Others(t)
    BY <1>0, <1>6 DEF TypeOK, Others
  <1>15. Limit(taken'[t], resetting'[t]) = taken[t] + w
    BY <1>3, <1>14 DEF Limit
  <1>16. ThreadOk(t)'
    BY <1>1, <1>2, <1>10, <1>11, <1>12, <1>14, <1>15 DEF ThreadOk
  <1>17. \A u \in Thread : ThreadOk(u)'
    BY <1>1, <1>14, <1>16, OthersOk
  <1>18. ThreadsApart'
    BY <1>0, <1>6 DEF ThreadsApart
  <1> QED BY <1>13, <1>17, <1>18 DEF IInv

\* souther_scope_open keeps it: the new token is nobody else's.
LEMMA ScopeOpenKeeps ==
    ASSUME IInv, NEW t \in Thread, ScopeOpen(t)
    PROVE  IInv'
  <1> DEFINE e == [token |-> TOKENS, stood |-> taken[t]]
  <1>0. TypeOK /\ ThreadOk(t) /\ ThreadsApart /\ \A u \in Thread : ThreadOk(u)
    BY DEF IInv
  <1>1. /\ blocks[t] \in Seq(BlockRec) /\ base[t] \in Seq(Nat)
        /\ taken[t] \in Nat /\ TOKENS \in Nat /\ TOKENS >= 1
        /\ SCOPES[t] \in Seq(ScopeRec) /\ made[t] \in SUBSET ValueRec
    BY <1>0, ThreadTypes
  <1>2. Limit(taken[t], resetting[t]) = taken[t]
    BY DEF ScopeOpen, Limit
  <1>3. /\ ArenaOk(blocks[t], base[t], taken[t])
        /\ ValuesOk(made[t], blocks[t], base[t], taken[t])
        /\ ScopesOk(SCOPES[t], made[t], taken[t], TOKENS)
    BY <1>0, <1>2 DEF ThreadOk
  <1>4. \A v \in made[t] : v.from + v.place.slots <= taken[t]
    BY <1>3 DEF ValuesOk, Stood
  <1>5. /\ Append(SCOPES[t], e) \in Seq(ScopeRec)
        /\ ScopesOk(Append(SCOPES[t], e), made[t], taken[t], TOKENS + 1)
    BY <1>1, <1>3, <1>4, OpenScopes
  <1>6. /\ SCOPES' = [SCOPES EXCEPT ![t] = Append(@, e)]
        /\ TOKENS' = TOKENS + 1
        /\ UNCHANGED <<blocks, taken, resetting, made, base>>
    BY DEF ScopeOpen
  <1>7. TypeOK'
    BY <1>0, <1>1, <1>5, <1>6, SMTT(30) DEF TypeOK, ScopeRec
  <1>8. SCOPES'[t] = Append(SCOPES[t], e) /\ Others(t)
    BY <1>0, <1>6 DEF TypeOK, Others
  <1>9. ThreadOk(t)'
    BY <1>0, <1>2, <1>3, <1>5, <1>6, <1>8 DEF ThreadOk
  <1>10. \A u \in Thread : ThreadOk(u)'
    BY <1>1, <1>6, <1>8, <1>9, OthersOk
  <1>11. ThreadsApart'
    <2> SUFFICES ASSUME NEW x \in Thread, NEW y \in Thread,
                        NEW i \in 1..Len(SCOPES'[x]), NEW j \in 1..Len(SCOPES'[y]),
                        SCOPES'[x][i].token = SCOPES'[y][j].token
                 PROVE  x = y
      BY DEF ThreadsApart
    <2>1. /\ Len(SCOPES[t]) \in Nat /\ Len(SCOPES'[t]) = Len(SCOPES[t]) + 1
          /\ \A k \in 1..Len(SCOPES[t]) : SCOPES'[t][k] = SCOPES[t][k]
          /\ SCOPES'[t][Len(SCOPES[t]) + 1].token = TOKENS
      <3>1. e \in ScopeRec /\ e.token = TOKENS
        BY <1>1 DEF ScopeRec
      <3> HIDE DEF e
      <3> QED BY <1>1, <1>8, <3>1, AppendProperties, LenProperties, SMTT(30)
    <2>2. \A z \in Thread : z # t => SCOPES'[z] = SCOPES[z]
      BY <1>8 DEF Others
    <2>3. \A z \in Thread : \A k \in 1..Len(SCOPES[z]) :
            SCOPES[z][k].token < TOKENS
      BY <1>0, <1>1, SMTT(60) DEF ThreadOk, ScopesOk
    <2>4. ASSUME NEW z \in Thread, z # t, NEW k \in 1..Len(SCOPES'[z]),
                 NEW l \in 1..Len(SCOPES'[t])
          PROVE  SCOPES'[t][l].token # SCOPES'[z][k].token
      <3>1. SCOPES'[z] = SCOPES[z] /\ k \in 1..Len(SCOPES[z])
        BY <2>2, <2>4
      <3>2. CASE l = Len(SCOPES[t]) + 1
        <4>1. SCOPES'[t][l].token = TOKENS
          BY <2>1, <3>2
        <4>2. SCOPES[z][k].token < TOKENS
          BY <2>3, <3>1
        <4> QED BY <3>1, <4>1, <4>2, <1>1, SMTT(30)
      <3>3. CASE l # Len(SCOPES[t]) + 1
        <4>1. l \in 1..Len(SCOPES[t])
          BY <2>1, <3>3
        <4>2. SCOPES'[t][l] = SCOPES[t][l]
          BY <2>1, <4>1
        <4>3. SCOPES[t][l].token # SCOPES[z][k].token
          BY <2>4, <3>1, <4>1, <1>0, Zenon DEF ThreadsApart
        <4> QED BY <3>1, <4>2, <4>3
      <3> QED BY <3>2, <3>3
    <2>5. CASE x = t \/ y = t
      BY <2>4, <2>5, Zenon
    <2>6. CASE x # t /\ y # t
      BY <2>2, <2>6, <1>0, SMTT(30) DEF ThreadsApart
    <2> QED BY <2>5, <2>6
  <1> QED BY <1>7, <1>10, <1>11 DEF IInv

\* A step in which no thread opens a scope puts no token on a second thread.
LEMMA StillApart ==
    ASSUME ThreadsApart, NEW t \in Thread, Others(t),
           Len(SCOPES[t]) \in Nat, Len(SCOPES'[t]) \in Nat,
           Len(SCOPES'[t]) <= Len(SCOPES[t]),
           \A i \in 1..Len(SCOPES'[t]) : SCOPES'[t][i] = SCOPES[t][i]
    PROVE  ThreadsApart'
  <1>1. \A u \in Thread : \A i \in 1..Len(SCOPES'[u]) :
          i \in 1..Len(SCOPES[u]) /\ SCOPES'[u][i] = SCOPES[u][i]
    BY DEF Others
  <1> SUFFICES ASSUME NEW x \in Thread, NEW y \in Thread,
                      NEW i \in 1..Len(SCOPES'[x]), NEW j \in 1..Len(SCOPES'[y]),
                      SCOPES'[x][i].token = SCOPES'[y][j].token
               PROVE  x = y
    BY DEF ThreadsApart
  <1>2. /\ i \in 1..Len(SCOPES[x]) /\ SCOPES'[x][i] = SCOPES[x][i]
        /\ j \in 1..Len(SCOPES[y]) /\ SCOPES'[y][j] = SCOPES[y][j]
    BY <1>1
  <1>3. SCOPES[x][i].token = SCOPES[y][j].token
    BY <1>2
  <1> QED BY <1>2, <1>3 DEF ThreadsApart

\* souther_scope_close keeps it, before any of the room is given back.
LEMMA ScopeCloseKeeps ==
    ASSUME IInv, NEW t \in Thread, NEW token, ScopeClose(t, token)
    PROVE  IInv'
  <1> DEFINE sc == SCOPES[t]
             left == {v \in made[t] : v.scope # Top(sc).token}
  <1>0. TypeOK /\ ThreadOk(t) /\ ThreadsApart
    BY DEF IInv
  <1>1. /\ blocks[t] \in Seq(BlockRec) /\ base[t] \in Seq(Nat)
        /\ taken[t] \in Nat /\ TOKENS \in Nat
        /\ sc \in Seq(ScopeRec) /\ made[t] \in SUBSET ValueRec
    BY <1>0, ThreadTypes
  <1>2. Limit(taken[t], resetting[t]) = taken[t]
    BY DEF ScopeClose, Limit
  <1>3. /\ ArenaOk(blocks[t], base[t], taken[t])
        /\ ValuesOk(made[t], blocks[t], base[t], taken[t])
        /\ ScopesOk(sc, made[t], taken[t], TOKENS)
    BY <1>0, <1>2 DEF ThreadOk
  <1>4. sc # <<>> /\ token = Top(sc).token
    BY DEF ScopeClose, Innermost
  <1>5. /\ SCOPES' = [SCOPES EXCEPT ![t] = Shorter(@)]
        /\ resetting' = [resetting EXCEPT ![t] = Top(sc).stood]
        /\ made' = [made EXCEPT ![t] = left]
        /\ UNCHANGED <<blocks, taken, TOKENS, base>>
    BY <1>4 DEF ScopeClose
  <1>6. /\ Top(sc).stood \in Nat /\ Top(sc).stood <= taken[t]
        /\ ScopesOk(Shorter(sc), left, Top(sc).stood, TOKENS)
        /\ ValuesOk(left, blocks[t], base[t], Top(sc).stood)
    BY <1>1, <1>3, <1>4, CloseScopes
  <1>7. /\ Len(sc) \in Nat /\ Shorter(sc) \in Seq(ScopeRec)
        /\ Len(Shorter(sc)) = Len(sc) - 1 /\ Len(sc) > 0
        /\ \A i \in 1..(Len(sc) - 1) : Shorter(sc)[i] = sc[i]
    BY <1>1, <1>4, ShorterIs
  <1>8. left \in SUBSET ValueRec
    BY <1>1
  <1> HIDE DEF left
  <1>9. TypeOK'
    BY <1>0, <1>5, <1>6, <1>7, <1>8 DEF TypeOK, ScopeRec, ValueRec
  <1>10. /\ SCOPES'[t] = Shorter(sc) /\ resetting'[t] = Top(sc).stood
         /\ made'[t] = left /\ Others(t)
         /\ blocks'[t] = blocks[t] /\ base'[t] = base[t] /\ taken'[t] = taken[t]
         /\ TOKENS' = TOKENS
    BY <1>0, <1>5 DEF TypeOK, Others
  <1>11. Limit(taken'[t], resetting'[t]) = Top(sc).stood
    BY <1>6, <1>10 DEF Limit, Idle
  <1>12. ThreadOk(t)'
    BY <1>3, <1>6, <1>10, <1>11 DEF ThreadOk
  <1>13. \A u \in Thread : ThreadOk(u)'
    BY <1>1, <1>10, <1>12, OthersOk
  <1>14. ThreadsApart'
    BY <1>0, <1>7, <1>10, StillApart, SMTT(30)
  <1> QED BY <1>9, <1>13, <1>14 DEF IInv

\* A turn of Arena::reset keeps it, whether a block is popped or cut.
LEMMA ResetTurnKeeps ==
    ASSUME IInv, NEW t \in Thread, ResetTurn(t)
    PROVE  IInv'
  <1> DEFINE r == resetting[t]
             held == Top(blocks[t]).len
  <1>0. TypeOK /\ ThreadOk(t) /\ ThreadsApart
    BY DEF IInv
  <1>1. /\ blocks[t] \in Seq(BlockRec) /\ base[t] \in Seq(Nat)
        /\ taken[t] \in Nat /\ TOKENS \in Nat
        /\ SCOPES[t] \in Seq(ScopeRec) /\ made[t] \in SUBSET ValueRec
        /\ r \in Nat \cup {Idle}
    BY <1>0, ThreadTypes
  <1>2. r \in Nat /\ taken[t] > r /\ taken[t] > 0 /\ r # Idle /\ Limit(taken[t], r) = r
    BY <1>1 DEF ResetTurn, Limit, Idle
  <1>3. /\ ArenaOk(blocks[t], base[t], taken[t])
        /\ ValuesOk(made[t], blocks[t], base[t], r)
        /\ ScopesOk(SCOPES[t], made[t], r, TOKENS)
    BY <1>0, <1>2 DEF ThreadOk
  <1>4. UNCHANGED <<TOKENS, SCOPES, resetting, made>>
    BY DEF ResetTurn
  <1>5. ThreadsApart'
    BY <1>0, <1>4 DEF ThreadsApart
  <1>6. CASE PopBlock(t, held)
    <2>1. /\ taken' = [taken EXCEPT ![t] = taken[t] - held]
          /\ blocks' = [blocks EXCEPT ![t] = Shorter(blocks[t])]
          /\ base' = [base EXCEPT ![t] = Shorter(base[t])]
          /\ taken[t] - held >= r
      BY <1>6 DEF PopBlock
    <2>2. /\ taken[t] - held \in Nat
          /\ Shorter(blocks[t]) \in Seq(BlockRec) /\ Shorter(base[t]) \in Seq(Nat)
          /\ ArenaOk(Shorter(blocks[t]), Shorter(base[t]), taken[t] - held)
          /\ ValuesOk(made[t], Shorter(blocks[t]), Shorter(base[t]), r)
      BY <1>1, <1>2, <1>3, <2>1, PopKeeps
    <2> HIDE DEF held
    <2>3. TypeOK'
      BY <1>0, <1>4, <2>1, <2>2 DEF TypeOK, BlockRec
    <2>4. /\ blocks'[t] = Shorter(blocks[t]) /\ base'[t] = Shorter(base[t])
          /\ taken'[t] = taken[t] - held /\ SCOPES'[t] = SCOPES[t]
          /\ resetting'[t] = r /\ made'[t] = made[t] /\ TOKENS' = TOKENS
          /\ Others(t)
      BY <1>0, <1>4, <2>1 DEF TypeOK, Others
    <2>5. Limit(taken'[t], resetting'[t]) = r
      BY <1>2, <2>4 DEF Limit
    <2>6. ThreadOk(t)'
      BY <1>3, <2>1, <2>2, <2>4, <2>5 DEF ThreadOk
    <2>7. \A u \in Thread : ThreadOk(u)'
      BY <1>1, <2>4, <2>6, OthersOk
    <2> QED BY <1>5, <2>3, <2>7 DEF IInv
  <1>7. CASE CutBlock(t, held)
    <2>1. /\ taken' = [taken EXCEPT ![t] = r]
          /\ blocks' = [blocks EXCEPT ![t] = Cut(blocks[t], taken[t], r)]
          /\ base' = base
          /\ taken[t] - held < r
      BY <1>7 DEF CutBlock, Cut
    <2>2. /\ Cut(blocks[t], taken[t], r) \in Seq(BlockRec)
          /\ ArenaOk(Cut(blocks[t], taken[t], r), base[t], r)
          /\ ValuesOk(made[t], Cut(blocks[t], taken[t], r), base[t], r)
      BY <1>1, <1>2, <1>3, <2>1, CutKeeps
    <2> HIDE DEF held
    <2>3. TypeOK'
      BY <1>0, <1>2, <1>4, <2>1, <2>2 DEF TypeOK, BlockRec
    <2>4. /\ blocks'[t] = Cut(blocks[t], taken[t], r) /\ base'[t] = base[t]
          /\ taken'[t] = r /\ SCOPES'[t] = SCOPES[t]
          /\ resetting'[t] = r /\ made'[t] = made[t] /\ TOKENS' = TOKENS
          /\ Others(t)
      BY <1>0, <1>4, <2>1 DEF TypeOK, Others
    <2>5. Limit(taken'[t], resetting'[t]) = r
      BY <1>2, <2>4 DEF Limit
    <2>6. ThreadOk(t)'
      BY <1>2, <1>3, <2>2, <2>4, <2>5 DEF ThreadOk
    <2>7. \A u \in Thread : ThreadOk(u)'
      BY <1>1, <2>4, <2>6, OthersOk
    <2> QED BY <1>5, <2>3, <2>7 DEF IInv
  <1> QED BY <1>6, <1>7 DEF ResetTurn

\* The end of Arena::reset keeps it: the arena stands at the mark.
LEMMA ResetDoneKeeps ==
    ASSUME IInv, NEW t \in Thread, ResetDone(t)
    PROVE  IInv'
  <1>0. TypeOK /\ ThreadOk(t) /\ ThreadsApart
    BY DEF IInv
  <1>1. taken[t] \in Nat /\ TOKENS \in Nat /\ resetting[t] \in Nat \cup {Idle}
    BY <1>0, ThreadTypes
  <1>2. /\ resetting' = [resetting EXCEPT ![t] = Idle]
        /\ UNCHANGED <<blocks, taken, TOKENS, SCOPES, made, base>>
    BY DEF ResetDone
  <1>3. Limit(taken[t], resetting[t]) = taken[t]
    BY <1>0, <1>1 DEF ResetDone, Limit, ThreadOk, Idle
  <1>4. TypeOK'
    BY <1>0, <1>2 DEF TypeOK
  <1>5. resetting'[t] = Idle /\ Others(t)
    BY <1>0, <1>2 DEF TypeOK, Others
  <1>6. Limit(taken'[t], resetting'[t]) = taken[t]
    BY <1>2, <1>5 DEF Limit
  <1>7. ThreadOk(t)'
    BY <1>0, <1>2, <1>3, <1>6 DEF ThreadOk
  <1>8. \A u \in Thread : ThreadOk(u)'
    BY <1>1, <1>2, <1>5, <1>7, OthersOk
  <1>9. ThreadsApart'
    BY <1>0, <1>2 DEF ThreadsApart
  <1> QED BY <1>4, <1>8, <1>9 DEF IInv

\* A thread with nothing of its own keeps every promise.
LEMMA FreshThread ==
    ASSUME NEW tok \in Nat
    PROVE  /\ ArenaOk(<<>>, <<>>, 0)
           /\ ValuesOk({}, <<>>, <<>>, 0)
           /\ ScopesOk(<<>>, {}, 0, tok)
  BY DEF ArenaOk, ValuesOk, ScopesOk

\* The end of a thread keeps it.
LEMMA ThreadEndKeeps ==
    ASSUME IInv, NEW t \in Thread, ThreadEnd(t)
    PROVE  IInv'
  <1>0. TypeOK /\ ThreadsApart
    BY DEF IInv
  <1>1. TOKENS \in Nat /\ SCOPES[t] \in Seq(ScopeRec)
    BY <1>0, ThreadTypes
  <1>2. TypeOK'
    BY <1>0 DEF ThreadEnd, TypeOK
  <1>3. /\ blocks'[t] = <<>> /\ taken'[t] = 0 /\ SCOPES'[t] = <<>> /\ made'[t] = {}
        /\ base'[t] = <<>> /\ resetting'[t] = Idle /\ TOKENS' = TOKENS /\ Others(t)
    BY <1>0 DEF ThreadEnd, TypeOK, Others
  <1>4. Limit(taken'[t], resetting'[t]) = 0
    BY <1>3 DEF Limit
  <1>5. ThreadOk(t)'
    BY <1>1, <1>3, <1>4, FreshThread DEF ThreadOk
  <1>6. \A u \in Thread : ThreadOk(u)'
    BY <1>1, <1>3, <1>5, OthersOk
  <1>7. ThreadsApart'
    BY <1>0, <1>1, <1>3, StillApart, LenProperties
  <1> QED BY <1>2, <1>6, <1>7 DEF IInv

-----------------------------------------------------------------------------
(* What the specification keeps.                                           *)

\* The first state of every thread is a fresh one.
LEMMA InitOk == Init => IInv
  <1> SUFFICES ASSUME Init PROVE IInv
    OBVIOUS
  <1>1. TypeOK
    BY DEF Init, TypeOK, Idle
  <1>2. ASSUME NEW t \in Thread
        PROVE  ThreadOk(t)
    <2>1. Limit(taken[t], resetting[t]) = 0 /\ TOKENS \in Nat
      BY DEF Init, Limit
    <2> QED BY <2>1, FreshThread DEF Init, ThreadOk
  <1>3. ThreadsApart
    BY DEF Init, ThreadsApart
  <1> QED BY <1>1, <1>2, <1>3 DEF IInv

\* Every step of every thread keeps the inductive invariant.
LEMMA StepOk == IInv /\ [Next]_vars => IInv'
  <1> SUFFICES ASSUME IInv, [Next]_vars PROVE IInv'
    OBVIOUS
  <1>1. CASE UNCHANGED vars
    BY <1>1 DEF vars, IInv, TypeOK, ThreadOk, ThreadsApart
  <1>2. ASSUME NEW t \in Thread, NEW size \in Sizes, Alloc(t, size)
        PROVE  IInv'
    BY <1>2, AllocKeeps
  <1>3. ASSUME NEW t \in Thread, ScopeOpen(t)
        PROVE  IInv'
    BY <1>3, ScopeOpenKeeps
  <1>4. ASSUME NEW t \in Thread, NEW token \in 1..MaxToken, ScopeClose(t, token)
        PROVE  IInv'
    BY <1>4, ScopeCloseKeeps
  <1>5. ASSUME NEW t \in Thread, ResetTurn(t)
        PROVE  IInv'
    BY <1>5, ResetTurnKeeps
  <1>6. ASSUME NEW t \in Thread, ResetDone(t)
        PROVE  IInv'
    BY <1>6, ResetDoneKeeps
  <1>7. ASSUME NEW t \in Thread, ThreadEnd(t)
        PROVE  IInv'
    BY <1>7, ThreadEndKeeps
  <1> QED BY <1>1, <1>2, <1>3, <1>4, <1>5, <1>6, <1>7 DEF Next

\* The inductive invariant holds of every behaviour.
LEMMA InvariantHolds == Spec => []IInv
  BY InitOk, StepOk, PTL DEF Spec

\* Type correctness of the arena and its scopes, for every instance.
THEOREM TypeCorrect == Spec => []TypeOK
  <1>1. IInv => TypeOK
    BY DEF IInv
  <1> QED BY <1>1, InvariantHolds, PTL

\* `taken` is what the blocks hold and no block outgrows its capacity, so
\* `room` never reallocates a block and `reset` never runs out of blocks.
THEOREM BlocksSound == Spec => []BlocksHoldWhatIsTaken
  <1>1. IInv => BlocksHoldWhatIsTaken
    BY DEF IInv, ThreadOk, ArenaOk, BlocksHoldWhatIsTaken
  <1> QED BY <1>1, InvariantHolds, PTL

\* No value is taken away while the scope it was made in is open.
THEOREM ValuesStand == Spec => []PromisedStand
  <1>1. IInv => PromisedStand
    BY DEF IInv, ThreadOk, ValuesOk, Stood, PromisedStand, Stands
  <1> QED BY <1>1, InvariantHolds, PTL

\* Between closes, every slot out belongs to exactly one promised value.
THEOREM ClosingGivesBack == Spec => []NothingLeaks
  <1>1. ASSUME IInv, NEW t \in Thread, resetting[t] = Idle, NEW s \in 0..(taken[t] - 1)
        PROVE  \E v \in made[t] : \A w \in made[t] : Covers(w, s) <=> w = v
    <2>1. ValuesOk(made[t], blocks[t], base[t], taken[t])
      BY <1>1 DEF IInv, ThreadOk, Limit
    <2>2. made[t] \in SUBSET ValueRec
      BY <1>1, ThreadTypes DEF IInv
    <2>3. PICK v \in made[t] : Covers(v, s)
      BY <2>1 DEF ValuesOk
    <2>4. ASSUME NEW w \in made[t], Covers(w, s)
          PROVE  w = v
      <3>1. /\ v.from \in Nat /\ v.place.slots \in Nat
            /\ w.from \in Nat /\ w.place.slots \in Nat
        BY <2>2 DEF ValueRec, Place
      <3>2. \/ w = v
            \/ v.from + v.place.slots <= w.from
            \/ w.from + w.place.slots <= v.from
        BY <2>1 DEF ValuesOk
      <3> QED BY <2>3, <2>4, <3>1, <3>2 DEF Covers
    <2> QED BY <2>3, <2>4
  <1>2. IInv => NothingLeaks
    BY <1>1 DEF NothingLeaks
  <1> QED BY <1>2, InvariantHolds, PTL

\* No token is open twice, on one thread or on two.
THEOREM TokensStayApart == Spec => []TokensApart
  <1>1. ASSUME IInv, NEW t \in Thread, NEW i \in 1..Len(SCOPES[t])
        PROVE  /\ SCOPES[t][i].token \in 1..(TOKENS - 1)
               /\ \A u \in Thread : \A j \in 1..Len(SCOPES[u]) :
                    SCOPES[t][i].token = SCOPES[u][j].token => t = u /\ i = j
               /\ \A j \in 1..(i - 1) :
                    /\ SCOPES[t][j].token < SCOPES[t][i].token
                    /\ SCOPES[t][j].stood <= SCOPES[t][i].stood
    <2> DEFINE sc == SCOPES[t]
    <2>1. ScopesOk(sc, made[t], Limit(taken[t], resetting[t]), TOKENS)
      BY <1>1 DEF IInv, ThreadOk
    <2>2. Len(sc) \in Nat /\ \A j \in 1..Len(sc) : sc[j].token \in Nat
      <3>1. sc \in Seq(ScopeRec)
        BY <1>1, ThreadTypes DEF IInv
      <3>2. \A j \in 1..Len(sc) : sc[j] \in ScopeRec
        BY <3>1, ElementOfSeq
      <3> QED BY <3>1, <3>2, LenProperties DEF ScopeRec
    <2>3. sc[i].token \in 1..(TOKENS - 1)
      BY <1>1, <2>1 DEF ScopesOk
    <2>4. \A j \in 1..(i - 1) : sc[j].token < sc[i].token /\ sc[j].stood <= sc[i].stood
      BY <1>1, <2>1, <2>2, SMTT(30) DEF ScopesOk
    <2>5. ASSUME NEW j \in 1..Len(sc), sc[i].token = sc[j].token
          PROVE  i = j
      <3>1. i < j => sc[i].token < sc[j].token
        BY <1>1, <2>1 DEF ScopesOk
      <3>2. j < i => sc[j].token < sc[i].token
        BY <1>1, <2>1 DEF ScopesOk
      <3> QED BY <1>1, <2>2, <2>5, <3>1, <3>2
    <2>6. ASSUME NEW u \in Thread, NEW j \in 1..Len(SCOPES[u]),
                 sc[i].token = SCOPES[u][j].token
          PROVE  t = u
      BY <1>1, <2>6 DEF IInv, ThreadsApart
    <2> QED BY <2>3, <2>4, <2>5, <2>6
  <1>2. IInv => TokensApart
    BY <1>1 DEF TokensApart
  <1> QED BY <1>2, InvariantHolds, PTL

-----------------------------------------------------------------------------
(* The arena keeps the promise of ScopePromise.                            *)

\* The mapping of ArenaScopes!Promise, one thread at a time.
Opens(sc) == [i \in 1..Len(sc) |-> sc[i].token]
Shown(mk) == {PlaceOf(v) : v \in mk}
pOpen == [t \in Thread |-> Opens(SCOPES[t])]
pValues == [t \in Thread |-> Shown(made[t])]

\* The tokens shown open, as a sequence.
LEMMA OpensIsSeq ==
    ASSUME NEW sc \in Seq(ScopeRec)
    PROVE  /\ Opens(sc) \in Seq(Nat) /\ Len(Opens(sc)) = Len(sc)
           /\ \A i \in 1..Len(sc) : Opens(sc)[i] = sc[i].token
           /\ Opens(sc) = <<>> <=> sc = <<>>
  <1>1. Len(sc) \in Nat /\ \A i \in 1..Len(sc) : sc[i] \in ScopeRec
    BY LenProperties, ElementOfSeq
  <1>2. \A i \in 1..Len(sc) : sc[i].token \in Nat
    BY <1>1 DEF ScopeRec
  <1>3. Opens(sc) \in Seq(Nat) /\ Len(Opens(sc)) = Len(sc)
    BY <1>1, <1>2 DEF Opens
  <1>4. \A i \in 1..Len(sc) : Opens(sc)[i] = sc[i].token
    BY DEF Opens
  <1>5. Opens(sc) = <<>> <=> sc = <<>>
    BY <1>1, <1>3, EmptySeq
  <1> QED BY <1>3, <1>4, <1>5

\* Opening appends the new token to what is shown open.
LEMMA OpensAppend ==
    ASSUME NEW sc \in Seq(ScopeRec), NEW e \in ScopeRec
    PROVE  Opens(Append(sc, e)) = Append(Opens(sc), e.token)
  <1> DEFINE a == Append(sc, e)
             o == Append(Opens(sc), e.token)
  <1>1. e.token \in Nat /\ Len(sc) \in Nat
    BY LenProperties DEF ScopeRec
  <1>2. /\ a \in Seq(ScopeRec) /\ Len(a) = Len(sc) + 1
        /\ \A i \in 1..Len(sc) : a[i] = sc[i]
        /\ a[Len(sc) + 1] = e
    BY AppendProperties
  <1>3. /\ Opens(sc) \in Seq(Nat) /\ Len(Opens(sc)) = Len(sc)
        /\ \A i \in 1..Len(sc) : Opens(sc)[i] = sc[i].token
    BY OpensIsSeq
  <1>4. /\ o \in Seq(Nat) /\ Len(o) = Len(sc) + 1
        /\ \A i \in 1..Len(sc) : o[i] = Opens(sc)[i]
        /\ o[Len(sc) + 1] = e.token
    BY <1>1, <1>3, AppendProperties
  <1> HIDE DEF a, o
  <1>5. /\ Opens(a) \in Seq(Nat) /\ Len(Opens(a)) = Len(a)
        /\ \A i \in 1..Len(a) : Opens(a)[i] = a[i].token
    BY <1>2, OpensIsSeq
  <1>6. ASSUME NEW i \in 1..Len(o)
        PROVE  Opens(a)[i] = o[i]
    <2>1. Opens(a)[i] = a[i].token
      BY <1>2, <1>4, <1>5
    <2>2. CASE i = Len(sc) + 1
      BY <2>1, <2>2, <1>2, <1>4
    <2>3. CASE i # Len(sc) + 1
      <3>1. i \in 1..Len(sc)
        BY <2>3, <1>1, <1>4
      <3> QED BY <2>1, <3>1, <1>2, <1>3, <1>4
    <2> QED BY <2>2, <2>3
  <1>7. Opens(a) = o
    BY <1>2, <1>4, <1>5, <1>6, SeqEqual, SMTT(30)
  <1> QED BY <1>7 DEF a, o

\* Closing drops the last token of what is shown open.
LEMMA OpensShorter ==
    ASSUME NEW sc \in Seq(ScopeRec), sc # <<>>
    PROVE  /\ Opens(Shorter(sc)) = SubSeq(Opens(sc), 1, Len(Opens(sc)) - 1)
           /\ Opens(sc)[Len(Opens(sc))] = Top(sc).token
  <1> DEFINE a == Shorter(sc)
             o == Shorter(Opens(sc))
  <1>1. /\ Opens(sc) \in Seq(Nat) /\ Len(Opens(sc)) = Len(sc) /\ Opens(sc) # <<>>
        /\ \A i \in 1..Len(sc) : Opens(sc)[i] = sc[i].token
    BY OpensIsSeq
  <1>2. /\ Len(sc) \in Nat /\ Len(sc) > 0
        /\ a \in Seq(ScopeRec) /\ Len(a) = Len(sc) - 1
        /\ \A i \in 1..(Len(sc) - 1) : a[i] = sc[i]
    BY ShorterIs
  <1>3. /\ o \in Seq(Nat) /\ Len(o) = Len(sc) - 1
        /\ \A i \in 1..(Len(sc) - 1) : o[i] = Opens(sc)[i]
    <2> HIDE DEF o
    <2>1. /\ o \in Seq(Nat) /\ Len(o) = Len(Opens(sc)) - 1
          /\ \A i \in 1..(Len(Opens(sc)) - 1) : o[i] = Opens(sc)[i]
      BY <1>1, ShorterIs DEF o
    <2> QED BY <1>1, <2>1
  <1> HIDE DEF a, o
  <1>4. /\ Opens(a) \in Seq(Nat) /\ Len(Opens(a)) = Len(a)
        /\ \A i \in 1..Len(a) : Opens(a)[i] = a[i].token
    BY <1>2, OpensIsSeq
  <1>5. ASSUME NEW i \in 1..Len(o)
        PROVE  Opens(a)[i] = o[i]
    <2>1. i \in 1..(Len(sc) - 1) /\ i \in 1..Len(a) /\ i \in 1..Len(sc)
      BY <1>2, <1>3
    <2> QED BY <2>1, <1>1, <1>2, <1>3, <1>4
  <1>6. Opens(a) = o
    BY <1>2, <1>3, <1>4, <1>5, SeqEqual
  <1>7. Opens(sc)[Len(Opens(sc))] = Top(sc).token
    <2>1. Len(sc) \in 1..Len(sc)
      BY <1>2
    <2> QED BY <2>1, <1>1 DEF Top
  <1> QED BY <1>6, <1>7 DEF a, o, Shorter

\* souther_alloc is ScopePromise's Make: the room is apart from all promised.
LEMMA AllocIsMake ==
    ASSUME IInv, NEW t \in Thread, NEW size \in Sizes, Alloc(t, size)
    PROVE  Promise!Next
  <1> DEFINE w == Wanted(size)
             g == Grown(t, w)
             n == Len(g)
             gb == IF Fits(t, w) THEN base[t] ELSE Append(base[t], taken[t])
             p == [block |-> n, at |-> g[n].len, slots |-> w]
             v == [scope |-> Inside(t), from |-> taken[t], place |-> p]
  <1>0. TypeOK /\ ThreadOk(t)
    BY DEF IInv
  <1>1. /\ blocks[t] \in Seq(BlockRec) /\ base[t] \in Seq(Nat)
        /\ taken[t] \in Nat /\ made[t] \in SUBSET ValueRec
        /\ SCOPES[t] \in Seq(ScopeRec)
    BY <1>0, ThreadTypes
  <1>2. w \in Nat /\ w >= 1
    BY SizesAssumption, WantedIsPositive
  <1>3. /\ ArenaOk(blocks[t], base[t], taken[t])
        /\ ValuesOk(made[t], blocks[t], base[t], taken[t])
    BY <1>0 DEF ThreadOk, Alloc, Limit
  <1>4. GrownTo(blocks[t], base[t], taken[t], w, g, gb)
    BY DEF GrownTo, Grown, Fits
  <1>5. /\ made' = [made EXCEPT ![t] = @ \cup {v}]
        /\ UNCHANGED <<TOKENS, SCOPES>>
    BY DEF Alloc
  <1> HIDE DEF w, g, gb
  <1>6. /\ n \in Nat /\ g[n].len \in Nat /\ Len(gb) = n /\ gb \in Seq(Nat)
        /\ \A i \in 1..Len(blocks[t]) : gb[i] = base[t][i]
        /\ gb[n] \in Nat /\ gb[n] + g[n].len = taken[t]
    <2>1. /\ Len(g) \in Nat /\ Len(g) > 0 /\ Len(gb) = Len(g) /\ gb \in Seq(Nat)
          /\ g[Len(g)] \in BlockRec
          /\ \A i \in 1..Len(blocks[t]) : g[i] = blocks[t][i] /\ gb[i] = base[t][i]
          /\ gb[Len(g)] + g[Len(g)].len = taken[t]
      <3>1. /\ g \in Seq(BlockRec) /\ gb \in Seq(Nat)
            /\ Len(g) \in Nat /\ Len(g) > 0 /\ Len(gb) = Len(g)
            /\ \A i \in 1..Len(blocks[t]) : g[i] = blocks[t][i] /\ gb[i] = base[t][i]
        BY <1>1, <1>2, <1>3, <1>4, GrownIs, SMTT(60)
      <3>2. gb[Len(g)] + g[Len(g)].len = taken[t] /\ g[Len(g)] \in BlockRec
        BY <1>1, <1>2, <1>3, <1>4, GrownIs
      <3> QED BY <3>1, <3>2
    <2>2. Len(g) \in 1..Len(gb)
      BY <2>1
    <2>3. gb[Len(g)] \in Nat
      BY <2>1, <2>2, ElementOfSeq
    <2> QED BY <2>1, <2>3 DEF BlockRec
  <1>7. p \in Place /\ p.block = n /\ p.at = g[n].len /\ p.slots = w
    BY <1>2, <1>6 DEF Place
  <1> HIDE DEF n, p
  <1>8. ASSUME NEW x \in made[t]
        PROVE  Promise!Apart(p, x.place)
    <2>1. Stood(x, blocks[t], base[t], taken[t])
      BY <1>3 DEF ValuesOk
    <2>2. /\ x.from \in Nat /\ x.place.at \in Nat /\ x.place.slots \in Nat
      BY <1>1 DEF ValueRec, Place
    <2>3. CASE x.place.block # n
      BY <2>3, <1>7 DEF Promise!Apart
    <2>4. CASE x.place.block = n
      <3>1. gb[n] = base[t][n]
        BY <2>1, <2>4, <1>6 DEF Stood
      <3>2. x.from = gb[n] + x.place.at /\ x.from + x.place.slots <= taken[t]
        BY <2>1, <2>4, <3>1 DEF Stood
      <3>3. \A f, a, b, k, m \in Nat :
              f = b + a /\ f + k <= taken[t] /\ b + m = taken[t] => a + k <= m
        BY <1>1, SMTT(30)
      <3>4. x.place.at + x.place.slots <= p.at
        BY <3>2, <3>3, <2>2, <1>6, <1>7, ZenonT(60)
      <3> QED BY <3>4 DEF Promise!Apart
    <2> QED BY <2>3, <2>4
  <1>9. Inside(t) = IF Opens(SCOPES[t]) = <<>> THEN 0
                    ELSE Opens(SCOPES[t])[Len(Opens(SCOPES[t]))]
    BY <1>1, OpensIsSeq, OpensShorter DEF Inside
  <1>10. PlaceOf(v) = [scope |-> Inside(t), place |-> p]
    BY DEF PlaceOf
  <1> HIDE DEF v
  <1>11. pValues' = [pValues EXCEPT ![t] = @ \cup {[scope |-> Inside(t), place |-> p]}]
    <2>1. \A u \in Thread :
            Shown(made'[u]) = IF u = t THEN Shown(made[t]) \cup {PlaceOf(v)} ELSE Shown(made[u])
      <3> SUFFICES ASSUME NEW u \in Thread
                   PROVE  Shown(made'[u]) = IF u = t THEN Shown(made[t]) \cup {PlaceOf(v)}
                                            ELSE Shown(made[u])
        OBVIOUS
      <3>1. made'[u] = IF u = t THEN made[t] \cup {v} ELSE made[u]
        BY <1>0, <1>5 DEF TypeOK
      <3> QED BY <3>1 DEF Shown
    <2> QED BY <2>1, <1>10 DEF pValues
  <1>12. PlaceOf(v) \in pValues'[t] /\ PlaceOf(v).place = p
    BY <1>10, <1>11 DEF pValues
  <1>13. \A x \in pValues[t] : Promise!Apart(p, x.place)
    BY <1>8 DEF pValues, Shown, PlaceOf
  <1>14. Promise!Make(t, PlaceOf(v).place)
    <2>1. Promise!Innermost(t) = Inside(t)
      BY <1>9, Zenon DEF Promise!Innermost, Opens
    <2> QED BY <2>1, <1>5, <1>7, <1>11, <1>12, <1>13
            DEF Promise!Make, pValues, Shown, pOpen, Opens
  <1>15. PlaceOf(v) \in [u \in Thread |-> {PlaceOf(y) : y \in made'[u]}][t]
    BY <1>12 DEF pValues, Shown
  <1>16. \E x \in [u \in Thread |-> {PlaceOf(y) : y \in made'[u]}][t] : Promise!Make(t, x.place)
    BY <1>14, <1>15, Zenon DEF Promise!Make
  <1> QED BY <1>16, Zenon DEF Promise!Next

\* souther_scope_open is ScopePromise's OpenScope.
LEMMA ScopeOpenIsOpen ==
    ASSUME IInv, NEW t \in Thread, ScopeOpen(t)
    PROVE  Promise!OpenScope(t)
  <1> DEFINE e == [token |-> TOKENS, stood |-> taken[t]]
  <1>0. TypeOK
    BY DEF IInv
  <1>1. SCOPES[t] \in Seq(ScopeRec) /\ TOKENS \in Nat /\ taken[t] \in Nat
    BY <1>0, ThreadTypes
  <1>2. e \in ScopeRec /\ e.token = TOKENS
    BY <1>1 DEF ScopeRec
  <1>3. SCOPES' = [SCOPES EXCEPT ![t] = Append(SCOPES[t], e)] /\ TOKENS' = TOKENS + 1 /\ made' = made
    BY DEF ScopeOpen
  <1> HIDE DEF e
  <1>4. Opens(Append(SCOPES[t], e)) = Append(Opens(SCOPES[t]), TOKENS)
    BY <1>1, <1>2, OpensAppend
  <1>5. \A u \in Thread : SCOPES'[u] = IF u = t THEN Append(SCOPES[t], e) ELSE SCOPES[u]
    BY <1>0, <1>3 DEF TypeOK
  <1>6. pOpen' = [pOpen EXCEPT ![t] = Append(@, TOKENS)]
    BY <1>4, <1>5 DEF pOpen
  <1>7. TOKENS' - 1 = (TOKENS - 1) + 1 /\ TOKENS = (TOKENS - 1) + 1
    BY <1>1, <1>3
  <1>8. pOpen' = [pOpen EXCEPT ![t] = Append(@, (TOKENS - 1) + 1)]
    BY <1>6, <1>7, Zenon
  <1> QED BY <1>3, <1>7, <1>8 DEF Promise!OpenScope, pOpen, Opens

\* souther_scope_close is ScopePromise's CloseScope.
LEMMA ScopeCloseIsClose ==
    ASSUME IInv, NEW t \in Thread, NEW token, ScopeClose(t, token)
    PROVE  Promise!CloseScope(t)
  <1>0. TypeOK
    BY DEF IInv
  <1>1. SCOPES[t] \in Seq(ScopeRec)
    BY <1>0, ThreadTypes
  <1>2. /\ SCOPES[t] # <<>> /\ token = Top(SCOPES[t]).token
        /\ SCOPES' = [SCOPES EXCEPT ![t] = Shorter(SCOPES[t])]
        /\ made' = [made EXCEPT ![t] = {v \in @ : v.scope # token}]
        /\ TOKENS' = TOKENS
    BY DEF ScopeClose, Innermost
  <1>3. /\ Opens(Shorter(SCOPES[t])) = SubSeq(Opens(SCOPES[t]), 1, Len(Opens(SCOPES[t])) - 1)
        /\ Opens(SCOPES[t])[Len(Opens(SCOPES[t]))] = token
        /\ Opens(SCOPES[t]) # <<>>
    BY <1>1, <1>2, OpensShorter, OpensIsSeq
  <1>4. \A u \in Thread : SCOPES'[u] = IF u = t THEN Shorter(SCOPES[t]) ELSE SCOPES[u]
    BY <1>0, <1>2 DEF TypeOK
  <1>5. pOpen' = [pOpen EXCEPT ![t] = SubSeq(@, 1, Len(@) - 1)]
    BY <1>3, <1>4 DEF pOpen
  <1>6. Promise!Innermost(t) = token
    BY <1>3 DEF Promise!Innermost, Opens
  <1>7. pValues' = [pValues EXCEPT ![t] = {x \in @ : x.scope # token}]
    <2>1. \A u \in Thread :
            made'[u] = IF u = t THEN {v \in made[t] : v.scope # token} ELSE made[u]
      BY <1>0, <1>2 DEF TypeOK
    <2>2. Shown({v \in made[t] : v.scope # token}) = {x \in Shown(made[t]) : x.scope # token}
      BY DEF Shown, PlaceOf
    <2> QED BY <2>1, <2>2 DEF pValues
  <1>8. pOpen[t] # <<>>
    BY <1>3 DEF pOpen
  <1>9. pValues' = [pValues EXCEPT ![t] = {x \in @ : x.scope # Promise!Innermost(t)}]
    BY <1>6, <1>7
  <1>10. TOKENS' - 1 = TOKENS - 1
    BY <1>2
  <1> QED BY <1>5, <1>8, <1>9, <1>10, Zenon DEF Promise!CloseScope, pOpen, pValues, Opens, Shown

\* The end of a thread is ScopePromise's EndThread.
LEMMA ThreadEndIsEnd ==
    ASSUME IInv, NEW t \in Thread, ThreadEnd(t)
    PROVE  Promise!EndThread(t)
  <1>0. TypeOK
    BY DEF IInv
  <1>1. /\ \A u \in Thread : SCOPES'[u] = IF u = t THEN <<>> ELSE SCOPES[u]
        /\ \A u \in Thread : made'[u] = IF u = t THEN {} ELSE made[u]
        /\ TOKENS' = TOKENS
    BY <1>0 DEF ThreadEnd, TypeOK
  <1>2. Opens(<<>>) = <<>> /\ Shown({}) = {}
    <2>1. <<>> \in Seq(ScopeRec)
      BY EmptySeq
    <2> QED BY <2>1, OpensIsSeq DEF Shown
  <1>3. pOpen' = [pOpen EXCEPT ![t] = <<>>]
    BY <1>1, <1>2 DEF pOpen
  <1>4. pValues' = [pValues EXCEPT ![t] = {}]
    BY <1>1, <1>2 DEF pValues
  <1> QED BY <1>1, <1>3, <1>4 DEF Promise!EndThread, pOpen, pValues, Opens, Shown

\* What the arena and its scopes do is what ScopePromise allows: a value is
\* handed out apart from all that are still promised, a token is new, a close
\* takes the innermost scope and exactly what was made in it.
THEOREM ArenaKeepsPromise == Spec => KeepsPromise
  <1>1. Init => Promise!Init
    <2> SUFFICES ASSUME Init PROVE Promise!Init
      OBVIOUS
    <2>1. Opens(<<>>) = <<>> /\ Shown({}) = {}
      <3>1. <<>> \in Seq(ScopeRec)
        BY EmptySeq
      <3> QED BY <3>1, OpensIsSeq DEF Shown
    <2>2. pOpen = [t \in Thread |-> <<>>] /\ pValues = [t \in Thread |-> {}]
      BY <2>1 DEF Init, pOpen, pValues
    <2>3. TOKENS - 1 = 0
      BY DEF Init
    <2> QED BY <2>2, <2>3 DEF Promise!Init, pOpen, pValues, Opens, Shown
  <1>2. IInv /\ [Next]_vars => [Promise!Next]_(Promise!vars)
    <2> SUFFICES ASSUME IInv, [Next]_vars
                 PROVE  Promise!Next \/ UNCHANGED Promise!vars
      OBVIOUS
    <2>1. CASE UNCHANGED <<TOKENS, SCOPES, made>>
      BY <2>1 DEF Promise!vars
    <2>2. ASSUME NEW t \in Thread, NEW size \in Sizes, Alloc(t, size)
          PROVE  Promise!Next
      BY <2>2, AllocIsMake
    <2>3. ASSUME NEW t \in Thread, ScopeOpen(t)
          PROVE  Promise!Next
      BY <2>3, ScopeOpenIsOpen DEF Promise!Next
    <2>4. ASSUME NEW t \in Thread, NEW token \in 1..MaxToken, ScopeClose(t, token)
          PROVE  Promise!Next
      BY <2>4, ScopeCloseIsClose DEF Promise!Next
    <2>5. ASSUME NEW t \in Thread, ResetTurn(t)
          PROVE  UNCHANGED <<TOKENS, SCOPES, made>>
      BY <2>5 DEF ResetTurn
    <2>6. ASSUME NEW t \in Thread, ResetDone(t)
          PROVE  UNCHANGED <<TOKENS, SCOPES, made>>
      BY <2>6 DEF ResetDone
    <2>7. ASSUME NEW t \in Thread, ThreadEnd(t)
          PROVE  Promise!Next
      BY <2>7, ThreadEndIsEnd DEF Promise!Next
    <2>8. CASE UNCHANGED vars
      BY <2>1, <2>8 DEF vars
    <2> QED BY <2>1, <2>2, <2>3, <2>4, <2>5, <2>6, <2>7, <2>8 DEF Next
  <1> QED BY <1>1, <1>2, InvariantHolds, PTL DEF Spec, KeepsPromise

=============================================================================
