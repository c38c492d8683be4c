------------------------- MODULE LibraryLife_proofs -------------------------
(***************************************************************************)
(* For any threads, libraries and patterns: what LibraryLife.cfg checks    *)
(* for three threads and two libraries.                                    *)
(*                                                                         *)
(* The counts are the number of the loads they stand for (Counted), so the *)
(* load that finds itself the last one is alone (Exclusive).               *)
(* What a room points at is owned by one of three (RoomIsOwned): what the  *)
(* library keeps, the thread that has just read it, or the release that    *)
(* drops it; and no pattern is at two rooms, so that dropping one leaves   *)
(* no other room pointing at what is gone (OneClaim).                      *)
(***************************************************************************)
EXTENDS LibraryLife, FiniteSetTheorems, TLAPS

InCalls == {"waiting", "locked", "stored", "using"}
Phase == {"away", "opened", "found", "held", "releasing", "dropping", "closing"} \cup InCalls

\* What each variable holds, but for how far the counts go.
Types ==
    /\ refs \in [Library -> Int]
    /\ HOLDING \in [Library -> Int]
    /\ holder \in Thread \cup {None}
    /\ room \in [Library -> [Pattern -> Box \cup {None}]]
    /\ KEPT \in [Library -> SUBSET (Pattern \X Box)]
    /\ keeper \in [Library -> Thread \cup {None}]
    /\ alive \in SUBSET Box
    /\ pc \in [Thread -> Phase]
    /\ lib \in [Thread -> Library \cup {None}]
    /\ subject \in [Thread -> Pattern \cup {None}]
    /\ read \in [Thread -> Box \cup {None}]
    /\ taking \in [Thread -> SUBSET (Pattern \X Box)]

\* What a thread has at each place: a library from its open to its close, a
\* pattern for as long as a call of it runs, and what the room points at once
\* it is answered that.
Placed ==
    \A t \in Thread :
        /\ pc[t] = "away" <=> lib[t] = None
        /\ pc[t] \in InCalls => subject[t] \in Pattern
        /\ pc[t] \in {"stored", "using"} => read[t] \in Box
        /\ pc[t] # "dropping" => taking[t] = {}

\* Who is inside each lock.
Locked ==
    /\ \A t \in Thread : pc[t] \in {"releasing", "dropping"} <=> holder = t
    /\ \A t \in Thread, l \in Library :
            keeper[l] = t <=> (lib[t] = l /\ pc[t] \in {"locked", "stored"})

Shape == Types /\ Placed /\ Locked

\* The loads that a count of a library stands for.
Opened(l) == {t \in Thread : lib[t] = l}
Holding(l) == {t \in Thread : lib[t] = l /\ pc[t] \in {"held"} \cup InCalls}

Counted ==
    \A l \in Library : /\ refs[l] = Cardinality(Opened(l))
                       /\ HOLDING[l] = Cardinality(Holding(l))

\* A release runs with no load of its library counted.
Exclusive ==
    \A t \in Thread : pc[t] \in {"releasing", "dropping"} => Holding(lib[t]) = {}

\* What a library keeps, one that holds it or is to release it answers for.
Answered ==
    \A l \in Library : KEPT[l] # {} =>
        \E t \in Thread : lib[t] = l /\ pc[t] \in {"held", "releasing"} \cup InCalls

-----------------------------------------------------------------------------
(* Rooms and what they point at.                                           *)

\* A thread that has read a pattern, or was answered one, has what the room
\* points at.
ReadIsRoom ==
    \A t \in Thread : pc[t] \in {"stored", "using"} =>
        read[t] = room[lib[t]][subject[t]]

KeptIsRoom ==
    \A l \in Library : \A p \in Pattern, b \in Box : <<p, b>> \in KEPT[l] => room[l][p] = b

\* What is taken is still what its room points at, or the room is empty; the
\* library keeps nothing meanwhile, and one pattern is taken for each room.
TakenIsRoom ==
    \A t \in Thread : pc[t] = "dropping" =>
        /\ KEPT[lib[t]] = {}
        /\ \A p \in Pattern, b \in Box : <<p, b>> \in taking[t] => room[lib[t]][p] \in {b, None}
        /\ \A p \in Pattern, b, c \in Box :
                <<p, b>> \in taking[t] /\ <<p, c>> \in taking[t] => b = c

\* Who owns what a room points at.
KeptOf(l, p, b) == <<p, b>> \in KEPT[l]
StoredBy(t, l, p, b) == lib[t] = l /\ pc[t] = "stored" /\ subject[t] = p /\ read[t] = b
TakenBy(t, l, p, b) == lib[t] = l /\ pc[t] = "dropping" /\ <<p, b>> \in taking[t]

OwnedAs(l, p, b) ==
    \/ KeptOf(l, p, b)
    \/ \E t \in Thread : StoredBy(t, l, p, b)
    \/ \E t \in Thread : TakenBy(t, l, p, b)

RoomIsOwned ==
    \A l \in Library, p \in Pattern : room[l][p] # None => OwnedAs(l, p, room[l][p])

\* A pattern was read for a room that points at it, or that a release emptied.
Claim(l, p, b) ==
    \/ room[l][p] = b
    \/ \E t \in Thread : TakenBy(t, l, p, b)

\* What is alive is what was read for a room and not dropped, and for one only.
ClaimIsAlive ==
    \A b \in Box : b \in alive <=> \E l \in Library, p \in Pattern : Claim(l, p, b)

OneClaim ==
    \A b \in Box : \A l, m \in Library, p, q \in Pattern :
        Claim(l, p, b) /\ Claim(m, q, b) => l = m /\ p = q

Rooms == ReadIsRoom /\ KeptIsRoom /\ TakenIsRoom /\ RoomIsOwned
Claims == ClaimIsAlive /\ OneClaim

IInv == Shape /\ Counted /\ Exclusive /\ Answered /\ Rooms /\ Claims

-----------------------------------------------------------------------------
\* What a store into the room of a thread's pattern, or of one taken, does.
LEMMA RoomIs ==
    ASSUME Types, NEW l \in Library, NEW p \in Pattern, NEW x \in Box \cup {None},
           room' = [room EXCEPT ![l][p] = x]
    PROVE  /\ room' \in [Library -> [Pattern -> Box \cup {None}]]
           /\ room'[l][p] = x
           /\ \A q \in Pattern : q # p => room'[l][q] = room[l][q]
           /\ \A m \in Library : m # l => room'[m] = room[m]
  <1>1. room'[l] = [room[l] EXCEPT ![p] = x] /\ room[l] \in [Pattern -> Box \cup {None}]
    BY DEF Types
  <1>2. \A m \in Library : m # l => room'[m] = room[m]
    BY DEF Types
  <1>3. room' \in [Library -> [Pattern -> Box \cup {None}]]
    BY SMTT(30) DEF Types
  <1> QED BY <1>1, <1>2, <1>3

\* Each step keeps the types, the places and the locks.
LEMMA ShapeStep ==
    ASSUME Shape, [Next]_vars
    PROVE  Shape'
  <1> USE LibraryAssumption, NoneAssumption
      DEF Shape, Types, Placed, Locked, Phase, InCalls, Goes, loading, matching
  <1>1. ASSUME NEW t \in Thread, NEW l \in Library, Open(t, l)
        PROVE  Shape'
    <2>1. refs' \in [Library -> Int]
      BY <1>1 DEF Open
    <2>2. /\ room' \in [Library -> [Pattern -> Box \cup {None}]]
          /\ KEPT' \in [Library -> SUBSET (Pattern \X Box)]
      <3> DEFINE blank == [p \in Pattern |-> None]
      <3>1. blank \in [Pattern -> Box \cup {None}]
        OBVIOUS
      <3>2. CASE room' = [room EXCEPT ![l] = blank] /\ KEPT' = [KEPT EXCEPT ![l] = {}]
        <4> HIDE DEF blank
        <4> QED BY <3>1, <3>2
      <3>3. CASE UNCHANGED <<room, KEPT>>
        BY <3>3
      <3> QED BY <1>1, <3>2, <3>3 DEF Open
    <2>3. Types'
      BY <1>1, <2>1, <2>2 DEF Open
    <2>4. Placed' /\ Locked'
      BY <1>1 DEF Open
    <2> QED BY <2>3, <2>4
  <1>2. ASSUME NEW t \in Thread, Query(t)
        PROVE  Shape'
    BY <1>2, SMTT(60) DEF Query
  <1>3. ASSUME NEW t \in Thread, Count(t)
        PROVE  Shape'
    BY <1>3 DEF Count
  <1>4. ASSUME NEW t \in Thread, NEW p \in Pattern, Load(t, p)
        PROVE  Shape'
    BY <1>4 DEF Load
  <1>5. ASSUME NEW t \in Thread, Lock(t)
        PROVE  Shape'
    BY <1>5 DEF Lock
  <1>6. ASSUME NEW t \in Thread, Found(t)
        PROVE  Shape'
    BY <1>6 DEF Found
  <1>7. ASSUME NEW t \in Thread, Store(t)
        PROVE  Shape'
    <2>1. lib[t] \in Library /\ subject[t] \in Pattern
      BY <1>7 DEF Store
    <2>2. PICK box \in Box : ReadImage(t, box)
      BY <1>7 DEF Store
    <2>3. room' \in [Library -> [Pattern -> Box \cup {None}]]
      BY <2>1, <2>2, RoomIs DEF ReadImage
    <2> QED BY <1>7, <2>1, <2>2, <2>3 DEF Store, ReadImage
  <1>8. ASSUME NEW t \in Thread, Keep(t)
        PROVE  Shape'
    <2>1. lib[t] \in Library /\ subject[t] \in Pattern /\ read[t] \in Box
      BY <1>8 DEF Keep
    <2>2. <<subject[t], read[t]>> \in Pattern \X Box
      BY <2>1
    <2>3. KEPT' \in [Library -> SUBSET (Pattern \X Box)]
      BY <1>8, <2>1, <2>2 DEF Keep
    <2> QED BY <1>8, <2>1, <2>3 DEF Keep
  <1>9. ASSUME NEW t \in Thread, Match(t)
        PROVE  Shape'
    BY <1>9 DEF Match
  <1>10. ASSUME NEW t \in Thread, LetGo(t)
        PROVE  Shape'
    <2>1. lib[t] \in Library /\ HOLDING' \in [Library -> Int]
      BY <1>10 DEF LetGo
    <2>2. CASE Goes(t, "held", "releasing") /\ holder' = t
      BY <1>10, <2>1, <2>2 DEF LetGo
    <2>3. CASE Goes(t, "held", "closing") /\ UNCHANGED holder
      BY <1>10, <2>1, <2>3 DEF LetGo
    <2> QED BY <1>10, <2>2, <2>3 DEF LetGo
  <1>11. ASSUME NEW t \in Thread, Take(t)
        PROVE  Shape'
    BY <1>11 DEF Take
  <1>12. ASSUME NEW t \in Thread, Released(t)
        PROVE  Shape'
    BY <1>12 DEF Released
  <1>13. ASSUME NEW t \in Thread, Close(t)
        PROVE  Shape'
    BY <1>13 DEF Close
  <1>14. ASSUME NEW t \in Thread, NEW held \in taking[t], EmptyRoom(t, held)
        PROVE  Shape'
    <2>1. lib[t] \in Library /\ held[1] \in Pattern
      BY <1>14 DEF EmptyRoom
    <2>2. room' \in [Library -> [Pattern -> Box \cup {None}]]
      BY <1>14, <2>1, RoomIs DEF EmptyRoom
    <2> QED BY <1>14, <2>2 DEF EmptyRoom
  <1>15. ASSUME NEW t \in Thread, NEW held \in taking[t], DropPattern(t, held)
        PROVE  Shape'
    BY <1>15 DEF DropPattern
  <1>16. CASE UNCHANGED vars
    BY <1>16 DEF vars
  <1> QED BY <1>1, <1>2, <1>3, <1>4, <1>5, <1>6, <1>7, <1>8, <1>9, <1>10, <1>11, <1>12, <1>13,
            <1>14, <1>15, <1>16 DEF Next, Call

-----------------------------------------------------------------------------
(* The counts.                                                             *)

LEMMA LoadsAreFinite ==
    \A l : IsFiniteSet(Opened(l)) /\ IsFiniteSet(Holding(l))
  <1>1. \A l : Opened(l) \in SUBSET Thread /\ Holding(l) \in SUBSET Thread
    BY DEF Opened, Holding
  <1> QED BY <1>1, ThreadAssumption, FS_Subset

\* A count of one is one load, and of nought none.
LEMMA CountTells ==
    ASSUME Counted, NEW l \in Library
    PROVE  /\ refs[l] = 0 <=> Opened(l) = {}
           /\ \A t \in Holding(l) : HOLDING[l] = 1 <=> Holding(l) = {t}
  <1>1. refs[l] = 0 <=> Opened(l) = {}
    BY LoadsAreFinite, FS_EmptySet DEF Counted
  <1>2. ASSUME NEW t \in Holding(l)
        PROVE  HOLDING[l] = 1 <=> Holding(l) = {t}
    <2>1. /\ IsFiniteSet(Holding(l) \ {t})
          /\ Cardinality(Holding(l) \ {t}) = Cardinality(Holding(l)) - 1
      BY <1>2, LoadsAreFinite, FS_RemoveElement
    <2>2. Cardinality(Holding(l) \ {t}) = 0 <=> Holding(l) \ {t} = {}
      BY <2>1, FS_EmptySet
    <2>3. Holding(l) \ {t} = {} <=> Holding(l) = {t}
      BY <1>2
    <2>4. HOLDING[l] = Cardinality(Holding(l)) /\ Cardinality(Holding(l)) \in Nat
      BY LoadsAreFinite, FS_CardinalityType DEF Counted
    <2> QED BY <2>1, <2>2, <2>3, <2>4
  <1> QED BY <1>1, <1>2

\* A step of no count and of no load counted.
LEMMA CountsNothing ==
    ASSUME Counted, UNCHANGED <<refs, HOLDING>>,
           \A l \in Library : Opened(l)' = Opened(l) /\ Holding(l)' = Holding(l)
    PROVE  Counted'
  BY DEF Counted

\* Every step that opens, counts, lets go of or closes a load says so to the
\* count, and no other does.
LEMMA CountedStep ==
    ASSUME Shape, Counted, [Next]_vars
    PROVE  Counted'
  <1> USE LibraryAssumption, NoneAssumption
      DEF Shape, Types, Placed, Locked, Phase, InCalls, Goes, loading, matching
  <1>1. ASSUME NEW t \in Thread, NEW l \in Library, Open(t, l)
        PROVE  Counted'
    <2>1. /\ Opened(l)' = Opened(l) \cup {t} /\ t \notin Opened(l)
          /\ refs'[l] = refs[l] + 1
      BY <1>1 DEF Open, Opened
    <2>2. \A m \in Library : m # l => Opened(m)' = Opened(m) /\ refs'[m] = refs[m]
      BY <1>1 DEF Open, Opened
    <2>3. \A m \in Library : Holding(m)' = Holding(m) /\ HOLDING'[m] = HOLDING[m]
      BY <1>1 DEF Open, Holding
    <2>4. Cardinality(Opened(l) \cup {t}) = Cardinality(Opened(l)) + 1
      BY <2>1, LoadsAreFinite, FS_AddElement
    <2>5. refs'[l] = Cardinality(Opened(l)')
      BY <2>1, <2>4 DEF Counted
    <2>6. \A m \in Library : m # l => refs'[m] = Cardinality(Opened(m)')
      BY <2>2 DEF Counted
    <2>7. \A m \in Library : HOLDING'[m] = Cardinality(Holding(m)')
      BY <2>3 DEF Counted
    <2> QED BY <2>5, <2>6, <2>7 DEF Counted
  <1>2. ASSUME NEW t \in Thread, Query(t)
        PROVE  Counted'
    <2>1. \A m \in Library : Opened(m)' = Opened(m) /\ Holding(m)' = Holding(m)
      BY <1>2 DEF Query, Opened, Holding
    <2>2. UNCHANGED <<refs, HOLDING>>
      BY <1>2 DEF Query
    <2> QED BY <2>1, <2>2, CountsNothing
  <1>3. ASSUME NEW t \in Thread, Count(t)
        PROVE  Counted'
    <2>0. PICK l \in Library : l = lib[t]
      BY <1>3 DEF Count
    <2>1. /\ Holding(l)' = Holding(l) \cup {t} /\ t \notin Holding(l)
          /\ HOLDING'[l] = HOLDING[l] + 1
      BY <1>3, <2>0 DEF Count, Holding
    <2>2. \A m \in Library : m # l => Holding(m)' = Holding(m) /\ HOLDING'[m] = HOLDING[m]
      BY <1>3, <2>0 DEF Count, Holding
    <2>3. \A m \in Library : Opened(m)' = Opened(m) /\ refs'[m] = refs[m]
      BY <1>3, <2>0 DEF Count, Opened
    <2>4. Cardinality(Holding(l) \cup {t}) = Cardinality(Holding(l)) + 1
      BY <2>1, LoadsAreFinite, FS_AddElement
    <2>5. HOLDING'[l] = Cardinality(Holding(l)')
      BY <2>1, <2>4 DEF Counted
    <2>6. \A m \in Library : m # l => HOLDING'[m] = Cardinality(Holding(m)')
      BY <2>2 DEF Counted
    <2>7. \A m \in Library : refs'[m] = Cardinality(Opened(m)')
      BY <2>3 DEF Counted
    <2> QED BY <2>5, <2>6, <2>7 DEF Counted
  <1>4. ASSUME NEW t \in Thread, NEW p \in Pattern, Load(t, p)
        PROVE  Counted'
    <2>1. \A m \in Library : Opened(m)' = Opened(m) /\ Holding(m)' = Holding(m)
      BY <1>4 DEF Load, Opened, Holding
    <2>2. UNCHANGED <<refs, HOLDING>>
      BY <1>4 DEF Load
    <2> QED BY <2>1, <2>2, CountsNothing
  <1>5. ASSUME NEW t \in Thread, Lock(t)
        PROVE  Counted'
    <2>1. \A m \in Library : Opened(m)' = Opened(m) /\ Holding(m)' = Holding(m)
      BY <1>5 DEF Lock, Opened, Holding
    <2>2. UNCHANGED <<refs, HOLDING>>
      BY <1>5 DEF Lock
    <2> QED BY <2>1, <2>2, CountsNothing
  <1>6. ASSUME NEW t \in Thread, Found(t)
        PROVE  Counted'
    <2>1. \A m \in Library : Opened(m)' = Opened(m) /\ Holding(m)' = Holding(m)
      BY <1>6 DEF Found, Opened, Holding
    <2>2. UNCHANGED <<refs, HOLDING>>
      BY <1>6 DEF Found
    <2> QED BY <2>1, <2>2, CountsNothing
  <1>7. ASSUME NEW t \in Thread, Store(t)
        PROVE  Counted'
    <2>1. \A m \in Library : Opened(m)' = Opened(m) /\ Holding(m)' = Holding(m)
      BY <1>7 DEF Store, ReadImage, Opened, Holding
    <2>2. UNCHANGED <<refs, HOLDING>>
      BY <1>7 DEF Store, ReadImage
    <2> QED BY <2>1, <2>2, CountsNothing
  <1>8. ASSUME NEW t \in Thread, Keep(t)
        PROVE  Counted'
    <2>1. \A m \in Library : Opened(m)' = Opened(m) /\ Holding(m)' = Holding(m)
      BY <1>8 DEF Keep, Opened, Holding
    <2>2. UNCHANGED <<refs, HOLDING>>
      BY <1>8 DEF Keep
    <2> QED BY <2>1, <2>2, CountsNothing
  <1>9. ASSUME NEW t \in Thread, Match(t)
        PROVE  Counted'
    <2>1. \A m \in Library : Opened(m)' = Opened(m) /\ Holding(m)' = Holding(m)
      BY <1>9 DEF Match, Opened, Holding
    <2>2. UNCHANGED <<refs, HOLDING>>
      BY <1>9 DEF Match
    <2> QED BY <2>1, <2>2, CountsNothing
  <1>10. ASSUME NEW t \in Thread, LetGo(t)
        PROVE  Counted'
    <2>0. PICK l \in Library : l = lib[t]
      BY <1>10 DEF LetGo
    <2>1. /\ Holding(l)' = Holding(l) \ {t} /\ t \in Holding(l)
          /\ HOLDING'[l] = HOLDING[l] - 1
      BY <1>10, <2>0 DEF LetGo, Holding
    <2>2. \A m \in Library : m # l => Holding(m)' = Holding(m) /\ HOLDING'[m] = HOLDING[m]
      BY <1>10, <2>0 DEF LetGo, Holding
    <2>3. \A m \in Library : Opened(m)' = Opened(m) /\ refs'[m] = refs[m]
      BY <1>10, <2>0 DEF LetGo, Opened
    <2>4. Cardinality(Holding(l) \ {t}) = Cardinality(Holding(l)) - 1
      BY <2>1, LoadsAreFinite, FS_RemoveElement
    <2>5. HOLDING'[l] = Cardinality(Holding(l)')
      BY <2>1, <2>4 DEF Counted
    <2>6. \A m \in Library : m # l => HOLDING'[m] = Cardinality(Holding(m)')
      BY <2>2 DEF Counted
    <2>7. \A m \in Library : refs'[m] = Cardinality(Opened(m)')
      BY <2>3 DEF Counted
    <2> QED BY <2>5, <2>6, <2>7 DEF Counted
  <1>11. ASSUME NEW t \in Thread, Take(t)
        PROVE  Counted'
    <2>1. \A m \in Library : Opened(m)' = Opened(m) /\ Holding(m)' = Holding(m)
      BY <1>11 DEF Take, Opened, Holding
    <2>2. UNCHANGED <<refs, HOLDING>>
      BY <1>11 DEF Take
    <2> QED BY <2>1, <2>2, CountsNothing
  <1>12. ASSUME NEW t \in Thread, Released(t)
        PROVE  Counted'
    <2>1. \A m \in Library : Opened(m)' = Opened(m) /\ Holding(m)' = Holding(m)
      BY <1>12 DEF Released, Opened, Holding
    <2>2. UNCHANGED <<refs, HOLDING>>
      BY <1>12 DEF Released
    <2> QED BY <2>1, <2>2, CountsNothing
  <1>13. ASSUME NEW t \in Thread, Close(t)
        PROVE  Counted'
    <2>0. PICK l \in Library : l = lib[t]
      BY <1>13 DEF Close
    <2>1. /\ Opened(l)' = Opened(l) \ {t} /\ t \in Opened(l)
          /\ refs'[l] = refs[l] - 1
      BY <1>13, <2>0 DEF Close, Opened
    <2>2. \A m \in Library : m # l => Opened(m)' = Opened(m) /\ refs'[m] = refs[m]
      BY <1>13, <2>0 DEF Close, Opened
    <2>3. \A m \in Library : Holding(m)' = Holding(m) /\ HOLDING'[m] = HOLDING[m]
      BY <1>13, <2>0 DEF Close, Holding
    <2>4. Cardinality(Opened(l) \ {t}) = Cardinality(Opened(l)) - 1
      BY <2>1, LoadsAreFinite, FS_RemoveElement, ZenonT(60)
    <2>5. refs'[l] = Cardinality(Opened(l)')
      BY <2>1, <2>4 DEF Counted
    <2>6. \A m \in Library : m # l => refs'[m] = Cardinality(Opened(m)')
      BY <2>2 DEF Counted
    <2>7. \A m \in Library : HOLDING'[m] = Cardinality(Holding(m)')
      BY <2>3 DEF Counted
    <2> QED BY <2>5, <2>6, <2>7 DEF Counted
  <1>14. ASSUME NEW t \in Thread, NEW held \in taking[t], EmptyRoom(t, held)
        PROVE  Counted'
    <2>1. \A m \in Library : Opened(m)' = Opened(m) /\ Holding(m)' = Holding(m)
      BY <1>14 DEF EmptyRoom, Opened, Holding
    <2>2. UNCHANGED <<refs, HOLDING>>
      BY <1>14 DEF EmptyRoom
    <2> QED BY <2>1, <2>2, CountsNothing
  <1>15. ASSUME NEW t \in Thread, NEW held \in taking[t], DropPattern(t, held)
        PROVE  Counted'
    <2>1. \A m \in Library : Opened(m)' = Opened(m) /\ Holding(m)' = Holding(m)
      BY <1>15 DEF DropPattern, Opened, Holding
    <2>2. UNCHANGED <<refs, HOLDING>>
      BY <1>15 DEF DropPattern
    <2> QED BY <2>1, <2>2, CountsNothing
  <1>16. CASE UNCHANGED vars
    <2>1. \A m \in Library : Opened(m)' = Opened(m) /\ Holding(m)' = Holding(m)
      BY <1>16 DEF vars, Opened, Holding
    <2> QED BY <1>16, <2>1, CountsNothing DEF vars
  <1> QED BY <1>1, <1>2, <1>3, <1>4, <1>5, <1>6, <1>7, <1>8, <1>9, <1>10, <1>11, <1>12, <1>13,
            <1>14, <1>15, <1>16 DEF Next, Call

\* A load that is let go is the last counted where no other is.
LEMMA LastLoad ==
    ASSUME Shape, Counted, NEW t \in Thread, pc[t] = "held"
    PROVE  /\ lib[t] \in Library
           /\ HOLDING[lib[t]] = 1 <=>
                ~ \E u \in Thread : u # t /\ lib[u] = lib[t] /\ pc[u] \in {"held"} \cup InCalls
  <1>1. lib[t] \in Library
    BY LibraryAssumption DEF Shape, Types, Placed
  <1>2. t \in Holding(lib[t])
    BY DEF Holding
  <1>3. HOLDING[lib[t]] = 1 <=> Holding(lib[t]) = {t}
    BY <1>1, <1>2, CountTells
  <1>4. Holding(lib[t]) = {t} <=>
            ~ \E u \in Thread : u # t /\ lib[u] = lib[t] /\ pc[u] \in {"held"} \cup InCalls
    BY <1>2 DEF Holding
  <1> QED BY <1>1, <1>3, <1>4

\* The load that releases a library is the last of those counted, and none is
\* counted while it does.
LEMMA ExclusiveStep ==
    ASSUME Shape, Counted, Exclusive, [Next]_vars
    PROVE  Exclusive'
  <1> USE LibraryAssumption, NoneAssumption
      DEF Shape, Types, Placed, Locked, Phase, InCalls, Goes, loading, matching, Exclusive, Holding
  <1>1. ASSUME NEW t \in Thread, NEW l \in Library, Open(t, l)
        PROVE  Exclusive'
    BY <1>1 DEF Open
  <1>2. ASSUME NEW t \in Thread, Query(t)
        PROVE  Exclusive'
    BY <1>2 DEF Query
  <1>3. ASSUME NEW t \in Thread, Count(t)
        PROVE  Exclusive'
    BY <1>3 DEF Count
  <1>4. ASSUME NEW t \in Thread, NEW p \in Pattern, Load(t, p)
        PROVE  Exclusive'
    BY <1>4 DEF Load
  <1>5. ASSUME NEW t \in Thread, Lock(t)
        PROVE  Exclusive'
    BY <1>5 DEF Lock
  <1>6. ASSUME NEW t \in Thread, Found(t)
        PROVE  Exclusive'
    BY <1>6 DEF Found
  <1>7. ASSUME NEW t \in Thread, Store(t)
        PROVE  Exclusive'
    BY <1>7 DEF Store, ReadImage
  <1>8. ASSUME NEW t \in Thread, Keep(t)
        PROVE  Exclusive'
    BY <1>8 DEF Keep
  <1>9. ASSUME NEW t \in Thread, Match(t)
        PROVE  Exclusive'
    BY <1>9 DEF Match
  <1>10. ASSUME NEW t \in Thread, LetGo(t)
        PROVE  Exclusive'
    <2>1. CASE HOLDING[lib[t]] = 1
      <3>1. \A u \in Thread : u # t /\ lib[u] = lib[t] => pc[u] \notin {"held"} \cup InCalls
        BY <1>10, <2>1, LastLoad DEF LetGo
      <3> QED BY <1>10, <2>1, <3>1, SMTT(30) DEF LetGo
    <2>2. CASE HOLDING[lib[t]] # 1
      BY <1>10, <2>2 DEF LetGo
    <2> QED BY <2>1, <2>2
  <1>11. ASSUME NEW t \in Thread, Take(t)
        PROVE  Exclusive'
    BY <1>11 DEF Take
  <1>12. ASSUME NEW t \in Thread, Released(t)
        PROVE  Exclusive'
    BY <1>12 DEF Released
  <1>13. ASSUME NEW t \in Thread, Close(t)
        PROVE  Exclusive'
    BY <1>13 DEF Close
  <1>14. ASSUME NEW t \in Thread, NEW held \in taking[t], EmptyRoom(t, held)
        PROVE  Exclusive'
    BY <1>14 DEF EmptyRoom
  <1>15. ASSUME NEW t \in Thread, NEW held \in taking[t], DropPattern(t, held)
        PROVE  Exclusive'
    BY <1>15 DEF DropPattern
  <1>16. CASE UNCHANGED vars
    BY <1>16 DEF vars
  <1> QED BY <1>1, <1>2, <1>3, <1>4, <1>5, <1>6, <1>7, <1>8, <1>9, <1>10, <1>11, <1>12, <1>13,
            <1>14, <1>15, <1>16 DEF Next, Call

\* The loads that answer for what their library keeps, and how they go on to.
Answers == {"held", "releasing"} \cup InCalls

LEMMA AnswersOn ==
    ASSUME Answered, NEW t \in Thread,
           \A u \in Thread : u # t /\ pc[u] \in Answers => lib'[u] = lib[u] /\ pc'[u] \in Answers,
           \A l \in Library : KEPT'[l] # {} =>
                KEPT[l] # {} \/ (lib'[t] = l /\ pc'[t] \in Answers),
           pc[t] \in Answers =>
                \/ lib'[t] = lib[t] /\ pc'[t] \in Answers
                \/ KEPT'[lib[t]] = {}
                \/ \E u \in Thread : u # t /\ lib[u] = lib[t] /\ pc[u] \in Answers
    PROVE  Answered'
  <1>1. SUFFICES ASSUME NEW l \in Library, KEPT'[l] # {}, KEPT[l] # {}
                 PROVE  \E u \in Thread : lib'[u] = l /\ pc'[u] \in Answers
    BY DEF Answered, Answers
  <1>2. PICK u \in Thread : lib[u] = l /\ pc[u] \in Answers
    BY <1>1 DEF Answered, Answers
  <1> QED BY <1>1, <1>2

\* While a library keeps anything, a load of it is counted or is to release it.
LEMMA AnsweredStep ==
    ASSUME Shape, Counted, Answered, [Next]_vars
    PROVE  Answered'
  <1> USE DEF Goes, loading, matching
  <1>1. ASSUME NEW t \in Thread, NEW l \in Library, Open(t, l)
        PROVE  Answered'
    <2>1. \A u \in Thread : pc[u] \in Answers => lib'[u] = lib[u] /\ pc'[u] \in Answers
      BY <1>1 DEF Open, Answers, Shape, Types, InCalls
    <2>2. \A m \in Library : KEPT'[m] # {} => KEPT'[m] = KEPT[m]
      BY <1>1 DEF Open, Shape, Types
    <2> QED BY <2>1, <2>2, AnswersOn
  <1>2. ASSUME NEW t \in Thread, Query(t)
        PROVE  Answered'
    <2>1. UNCHANGED KEPT
      BY <1>2 DEF Query, Shape, Types
    <2>2. \A u \in Thread : pc[u] \in Answers => lib'[u] = lib[u] /\ pc'[u] \in Answers
      BY <1>2 DEF Query, Answers, Shape, Types, InCalls
    <2> QED BY <2>1, <2>2, AnswersOn
  <1>3. ASSUME NEW t \in Thread, Count(t)
        PROVE  Answered'
    <2>1. UNCHANGED KEPT
      BY <1>3 DEF Count, Shape, Types
    <2>2. \A u \in Thread : pc[u] \in Answers => lib'[u] = lib[u] /\ pc'[u] \in Answers
      BY <1>3 DEF Count, Answers, Shape, Types, InCalls
    <2> QED BY <2>1, <2>2, AnswersOn
  <1>4. ASSUME NEW t \in Thread, NEW p \in Pattern, Load(t, p)
        PROVE  Answered'
    <2>1. UNCHANGED KEPT
      BY <1>4 DEF Load, Shape, Types
    <2>2. \A u \in Thread : pc[u] \in Answers => lib'[u] = lib[u] /\ pc'[u] \in Answers
      BY <1>4 DEF Load, Answers, Shape, Types, InCalls
    <2> QED BY <2>1, <2>2, AnswersOn
  <1>5. ASSUME NEW t \in Thread, Lock(t)
        PROVE  Answered'
    <2>1. UNCHANGED KEPT
      BY <1>5 DEF Lock, Shape, Types
    <2>2. \A u \in Thread : pc[u] \in Answers => lib'[u] = lib[u] /\ pc'[u] \in Answers
      BY <1>5 DEF Lock, Answers, Shape, Types, InCalls
    <2> QED BY <2>1, <2>2, AnswersOn
  <1>6. ASSUME NEW t \in Thread, Found(t)
        PROVE  Answered'
    <2>1. UNCHANGED KEPT
      BY <1>6 DEF Found, Shape, Types
    <2>2. \A u \in Thread : pc[u] \in Answers => lib'[u] = lib[u] /\ pc'[u] \in Answers
      BY <1>6 DEF Found, Answers, Shape, Types, InCalls
    <2> QED BY <2>1, <2>2, AnswersOn
  <1>7. ASSUME NEW t \in Thread, Store(t)
        PROVE  Answered'
    <2>1. UNCHANGED KEPT
      BY <1>7 DEF Store, ReadImage, Shape, Types
    <2>2. \A u \in Thread : pc[u] \in Answers => lib'[u] = lib[u] /\ pc'[u] \in Answers
      BY <1>7 DEF Store, ReadImage, Answers, Shape, Types, InCalls
    <2> QED BY <2>1, <2>2, AnswersOn
  <1>8. ASSUME NEW t \in Thread, Keep(t)
        PROVE  Answered'
    <2>1. lib'[t] = lib[t] /\ pc'[t] \in Answers
      BY <1>8 DEF Keep, Answers, Shape, Types, InCalls
    <2>2. \A u \in Thread : pc[u] \in Answers => lib'[u] = lib[u] /\ pc'[u] \in Answers
      BY <1>8 DEF Keep, Answers, Shape, Types, InCalls
    <2>3. \A m \in Library : m # lib[t] => KEPT'[m] = KEPT[m]
      BY <1>8 DEF Keep, Shape, Types
    <2> QED BY <2>1, <2>2, <2>3, AnswersOn
  <1>9. ASSUME NEW t \in Thread, Match(t)
        PROVE  Answered'
    <2>1. UNCHANGED KEPT
      BY <1>9 DEF Match, Shape, Types
    <2>2. \A u \in Thread : pc[u] \in Answers => lib'[u] = lib[u] /\ pc'[u] \in Answers
      BY <1>9 DEF Match, Answers, Shape, Types, InCalls
    <2> QED BY <2>1, <2>2, AnswersOn
  <1>10. ASSUME NEW t \in Thread, LetGo(t)
        PROVE  Answered'
    <2>1. /\ UNCHANGED <<KEPT, lib>>
          /\ \A u \in Thread : u # t => pc'[u] = pc[u]
      BY <1>10 DEF LetGo, Shape, Types
    <2>2. pc'[t] \in Answers \/ HOLDING[lib[t]] # 1
      BY <1>10 DEF LetGo, Answers, Shape, Types, InCalls
    <2>3. HOLDING[lib[t]] # 1 =>
                \E u \in Thread : u # t /\ lib[u] = lib[t] /\ pc[u] \in Answers
      BY <1>10, LastLoad DEF LetGo, Answers, Shape, Types, InCalls
    <2> QED BY <2>1, <2>2, <2>3, AnswersOn
  <1>11. ASSUME NEW t \in Thread, Take(t)
        PROVE  Answered'
    <2>1. \A u \in Thread : u # t /\ pc[u] \in Answers => lib'[u] = lib[u] /\ pc'[u] \in Answers
      BY <1>11 DEF Take, Answers, Shape, Types, InCalls
    <2>2. KEPT'[lib[t]] = {} /\ \A m \in Library : KEPT'[m] # {} => KEPT'[m] = KEPT[m]
      BY <1>11, LibraryAssumption DEF Take, Shape, Types, Placed
    <2> QED BY <2>1, <2>2, AnswersOn
  <1>12. ASSUME NEW t \in Thread, Released(t)
        PROVE  Answered'
    <2>1. UNCHANGED KEPT
      BY <1>12 DEF Released, Shape, Types
    <2>2. \A u \in Thread : pc[u] \in Answers => lib'[u] = lib[u] /\ pc'[u] \in Answers
      BY <1>12 DEF Released, Answers, Shape, Types, InCalls
    <2> QED BY <2>1, <2>2, AnswersOn
  <1>13. ASSUME NEW t \in Thread, Close(t)
        PROVE  Answered'
    <2>1. UNCHANGED KEPT
      BY <1>13 DEF Close, Shape, Types
    <2>2. \A u \in Thread : pc[u] \in Answers => lib'[u] = lib[u] /\ pc'[u] \in Answers
      BY <1>13 DEF Close, Answers, Shape, Types, InCalls
    <2> QED BY <2>1, <2>2, AnswersOn
  <1>14. ASSUME NEW t \in Thread, NEW held \in taking[t], EmptyRoom(t, held)
        PROVE  Answered'
    <2>1. UNCHANGED KEPT
      BY <1>14 DEF EmptyRoom, Shape, Types
    <2>2. \A u \in Thread : pc[u] \in Answers => lib'[u] = lib[u] /\ pc'[u] \in Answers
      BY <1>14 DEF EmptyRoom, Answers, Shape, Types, InCalls
    <2> QED BY <2>1, <2>2, AnswersOn
  <1>15. ASSUME NEW t \in Thread, NEW held \in taking[t], DropPattern(t, held)
        PROVE  Answered'
    <2>1. UNCHANGED KEPT
      BY <1>15 DEF DropPattern, Shape, Types
    <2>2. \A u \in Thread : pc[u] \in Answers => lib'[u] = lib[u] /\ pc'[u] \in Answers
      BY <1>15 DEF DropPattern, Answers, Shape, Types, InCalls
    <2> QED BY <2>1, <2>2, AnswersOn
  <1>16. CASE UNCHANGED vars
    BY <1>16 DEF vars, Answered
  <1> QED BY <1>1, <1>2, <1>3, <1>4, <1>5, <1>6, <1>7, <1>8, <1>9, <1>10, <1>11, <1>12, <1>13,
            <1>14, <1>15, <1>16 DEF Next, Call

-----------------------------------------------------------------------------
(* Rooms.                                                                  *)

\* A library that is mapped anew has what the file says where it was left with
\* that: whoever opened it before emptied its rooms and what it keeps.
LEMMA OpenedBlank ==
    ASSUME Shape, Counted, Answered, RoomIsOwned, NEW t \in Thread, NEW l \in Library, Open(t, l)
    PROVE  /\ \A m \in Library, p \in Pattern : room'[m][p] = room[m][p]
           /\ \A m \in Library : KEPT'[m] = KEPT[m]
  <1>1. CASE refs[l] = 0
    <2>1. \A u \in Thread : lib[u] # l
      BY <1>1, CountTells DEF Opened
    <2>2. KEPT[l] = {}
      BY <2>1 DEF Answered
    <2>3. \A p \in Pattern : room[l][p] = None
      BY <2>1, <2>2, ZenonT(60) DEF RoomIsOwned, OwnedAs, KeptOf, StoredBy, TakenBy
    <2>4. /\ room' = [room EXCEPT ![l] = [p \in Pattern |-> None]]
          /\ KEPT' = [KEPT EXCEPT ![l] = {}]
      BY <1>1 DEF Open
    <2> QED BY <2>2, <2>3, <2>4 DEF Shape, Types
  <1>2. CASE refs[l] # 0
    BY <1>2 DEF Open
  <1> QED BY <1>1, <1>2

\* What reading an image does.
LEMMA StoreIs ==
    ASSUME Shape, NEW t \in Thread, Store(t)
    PROVE  /\ lib[t] \in Library /\ subject[t] \in Pattern
           /\ pc[t] = "locked" /\ pc' = [pc EXCEPT ![t] = "stored"]
           /\ room[lib[t]][subject[t]] = None
           /\ \E box \in Box :
                /\ box \notin alive /\ alive' = alive \cup {box}
                /\ read' = [read EXCEPT ![t] = box]
                /\ room'[lib[t]][subject[t]] = box
           /\ \A p \in Pattern : p # subject[t] => room'[lib[t]][p] = room[lib[t]][p]
           /\ \A l \in Library : l # lib[t] => room'[l] = room[l]
           /\ UNCHANGED <<loading, KEPT, keeper, subject, taking>>
  <1>1. lib[t] \in Library /\ subject[t] \in Pattern
    BY LibraryAssumption DEF Store, Goes, Shape, Types, Placed, InCalls
  <1>2. PICK box \in Box : ReadImage(t, box)
    BY DEF Store
  <1>3. /\ room'[lib[t]][subject[t]] = box
        /\ \A p \in Pattern : p # subject[t] => room'[lib[t]][p] = room[lib[t]][p]
        /\ \A l \in Library : l # lib[t] => room'[l] = room[l]
    <2>1. PICK l \in Library, p \in Pattern : l = lib[t] /\ p = subject[t]
      BY <1>1
    <2>2. room' = [room EXCEPT ![l][p] = box]
      BY <1>2, <2>1 DEF ReadImage
    <2>3. /\ room'[l][p] = box
          /\ \A q \in Pattern : q # p => room'[l][q] = room[l][q]
          /\ \A m \in Library : m # l => room'[m] = room[m]
      <3>1. Types /\ box \in Box \cup {None}
        BY DEF Shape
      <3> HIDE DEF Shape
      <3> QED BY <2>2, <3>1, RoomIs, ZenonT(60)
    <2> QED BY <2>1, <2>3
  <1> QED BY <1>1, <1>2, <1>3 DEF Store, ReadImage, Goes

\* What emptying a room does: it pointed at what was taken from it.
LEMMA EmptyRoomIs ==
    ASSUME Shape, TakenIsRoom, NEW t \in Thread, NEW held \in taking[t], EmptyRoom(t, held)
    PROVE  /\ lib[t] \in Library /\ held = <<held[1], held[2]>>
           /\ held[1] \in Pattern /\ held[2] \in Box
           /\ pc[t] = "dropping"
           /\ room[lib[t]][held[1]] = held[2]
           /\ room'[lib[t]][held[1]] = None
           /\ \A p \in Pattern : p # held[1] => room'[lib[t]][p] = room[lib[t]][p]
           /\ \A l \in Library : l # lib[t] => room'[l] = room[l]
           /\ UNCHANGED <<loading, KEPT, keeper, alive, pc, subject, read, taking>>
  <1>1. /\ lib[t] \in Library /\ held = <<held[1], held[2]>>
        /\ held[1] \in Pattern /\ held[2] \in Box
    BY LibraryAssumption DEF EmptyRoom, Shape, Types, Placed
  <1>2. room[lib[t]][held[1]] = held[2]
    BY <1>1 DEF EmptyRoom, TakenIsRoom
  <1>3. /\ room'[lib[t]][held[1]] = None
        /\ \A p \in Pattern : p # held[1] => room'[lib[t]][p] = room[lib[t]][p]
        /\ \A l \in Library : l # lib[t] => room'[l] = room[l]
    <2>1. PICK l \in Library, p \in Pattern : l = lib[t] /\ p = held[1]
      BY <1>1
    <2>2. room' = [room EXCEPT ![l][p] = None]
      BY <2>1 DEF EmptyRoom
    <2>3. /\ room'[l][p] = None
          /\ \A q \in Pattern : q # p => room'[l][q] = room[l][q]
          /\ \A m \in Library : m # l => room'[m] = room[m]
      <3>1. Types /\ None \in Box \cup {None}
        BY DEF Shape
      <3> HIDE DEF Shape
      <3> QED BY <2>2, <3>1, RoomIs, ZenonT(60)
    <2> QED BY <2>1, <2>3
  <1> QED BY <1>1, <1>2, <1>3 DEF EmptyRoom

\* A thread keeps what its room points at for as long as it may match on it.
LEMMA ReadIsRoomStep ==
    ASSUME Shape, Counted, Exclusive, Answered, ReadIsRoom, TakenIsRoom, RoomIsOwned, [Next]_vars
    PROVE  ReadIsRoom'
  <1> USE LibraryAssumption, NoneAssumption
      DEF Shape, Types, Placed, Locked, InCalls, Goes, loading, matching, Exclusive, Holding
  <1>1. ASSUME NEW t \in Thread, NEW l \in Library, Open(t, l)
        PROVE  ReadIsRoom'
    <2>1. /\ \A m \in Library, p \in Pattern : room'[m][p] = room[m][p]
          /\ \A m \in Library : KEPT'[m] = KEPT[m]
      BY <1>1, OpenedBlank
    <2>2. /\ lib' = [lib EXCEPT ![t] = l] /\ pc' = [pc EXCEPT ![t] = "opened"]
          /\ UNCHANGED <<subject, read, taking, alive>> /\ pc[t] = "away"
      BY <1>1 DEF Open, ReadIsRoom
    <2> QED BY <2>1, <2>2 DEF ReadIsRoom
  <1>2. ASSUME NEW t \in Thread, Query(t)
        PROVE  ReadIsRoom'
    BY <1>2 DEF Query, ReadIsRoom
  <1>3. ASSUME NEW t \in Thread, Count(t)
        PROVE  ReadIsRoom'
    BY <1>3 DEF Count, ReadIsRoom
  <1>4. ASSUME NEW t \in Thread, NEW p \in Pattern, Load(t, p)
        PROVE  ReadIsRoom'
    BY <1>4 DEF Load, ReadIsRoom
  <1>5. ASSUME NEW t \in Thread, Lock(t)
        PROVE  ReadIsRoom'
    BY <1>5 DEF Lock, ReadIsRoom
  <1>6. ASSUME NEW t \in Thread, Found(t)
        PROVE  ReadIsRoom'
    BY <1>6 DEF Found, ReadIsRoom
  <1>7. ASSUME NEW t \in Thread, Store(t)
        PROVE  ReadIsRoom'
    <2>1. lib[t] \in Library /\ subject[t] \in Pattern /\ room[lib[t]][subject[t]] = None
      BY <1>7, StoreIs
    <2>2. /\ \A p \in Pattern : p # subject[t] => room'[lib[t]][p] = room[lib[t]][p]
          /\ \A l \in Library : l # lib[t] => room'[l] = room[l]
          /\ UNCHANGED <<lib, subject>>
      BY <1>7, StoreIs
    <2>3. /\ pc'[t] = "stored" /\ read'[t] = room'[lib[t]][subject[t]]
          /\ \A u \in Thread : u # t => pc'[u] = pc[u] /\ read'[u] = read[u]
      BY <1>7, StoreIs
    <2>4. ASSUME NEW u \in Thread, u # t, pc[u] \in {"stored", "using"}
          PROVE  read'[u] = room'[lib[u]][subject[u]]
      <3>1. lib[u] \in Library /\ subject[u] \in Pattern /\ read[u] = room[lib[u]][subject[u]]
        BY <2>4 DEF ReadIsRoom
      <3>2. read[u] # None
        BY <2>4
      <3> QED BY <2>1, <2>2, <2>3, <2>4, <3>1, <3>2, SMTT(60)
    <2> QED BY <2>2, <2>3, <2>4 DEF ReadIsRoom
  <1>8. ASSUME NEW t \in Thread, Keep(t)
        PROVE  ReadIsRoom'
    BY <1>8 DEF Keep, ReadIsRoom
  <1>9. ASSUME NEW t \in Thread, Match(t)
        PROVE  ReadIsRoom'
    BY <1>9 DEF Match, ReadIsRoom
  <1>10. ASSUME NEW t \in Thread, LetGo(t)
        PROVE  ReadIsRoom'
    BY <1>10 DEF LetGo, ReadIsRoom
  <1>11. ASSUME NEW t \in Thread, Take(t)
        PROVE  ReadIsRoom'
    BY <1>11 DEF Take, ReadIsRoom
  <1>12. ASSUME NEW t \in Thread, Released(t)
        PROVE  ReadIsRoom'
    BY <1>12 DEF Released, ReadIsRoom
  <1>13. ASSUME NEW t \in Thread, Close(t)
        PROVE  ReadIsRoom'
    BY <1>13 DEF Close, ReadIsRoom
  <1>14. ASSUME NEW t \in Thread, NEW held \in taking[t], EmptyRoom(t, held)
        PROVE  ReadIsRoom'
    BY <1>14, EmptyRoomIs DEF ReadIsRoom
  <1>15. ASSUME NEW t \in Thread, NEW held \in taking[t], DropPattern(t, held)
        PROVE  ReadIsRoom'
    BY <1>15 DEF DropPattern, ReadIsRoom
  <1>16. CASE UNCHANGED vars
    BY <1>16 DEF vars, ReadIsRoom
  <1> QED BY <1>1, <1>2, <1>3, <1>4, <1>5, <1>6, <1>7, <1>8, <1>9, <1>10, <1>11, <1>12, <1>13,
            <1>14, <1>15, <1>16 DEF Next, Call

\* What a library keeps is what its rooms point at.
LEMMA KeptIsRoomStep ==
    ASSUME Shape, Counted, Exclusive, Answered, ReadIsRoom, KeptIsRoom, TakenIsRoom, RoomIsOwned, [Next]_vars
    PROVE  KeptIsRoom'
  <1> USE LibraryAssumption, NoneAssumption
      DEF Shape, Types, Placed, Locked, InCalls, Goes, loading, matching, Exclusive, Holding
  <1>1. ASSUME NEW t \in Thread, NEW l \in Library, Open(t, l)
        PROVE  KeptIsRoom'
    <2>1. /\ \A m \in Library, p \in Pattern : room'[m][p] = room[m][p]
          /\ \A m \in Library : KEPT'[m] = KEPT[m]
      BY <1>1, OpenedBlank
    <2>2. /\ lib' = [lib EXCEPT ![t] = l] /\ pc' = [pc EXCEPT ![t] = "opened"]
          /\ UNCHANGED <<subject, read, taking, alive>> /\ pc[t] = "away"
      BY <1>1 DEF Open, KeptIsRoom
    <2> QED BY <2>1, <2>2 DEF KeptIsRoom
  <1>2. ASSUME NEW t \in Thread, Query(t)
        PROVE  KeptIsRoom'
    BY <1>2 DEF Query, KeptIsRoom
  <1>3. ASSUME NEW t \in Thread, Count(t)
        PROVE  KeptIsRoom'
    BY <1>3 DEF Count, KeptIsRoom
  <1>4. ASSUME NEW t \in Thread, NEW p \in Pattern, Load(t, p)
        PROVE  KeptIsRoom'
    BY <1>4 DEF Load, KeptIsRoom
  <1>5. ASSUME NEW t \in Thread, Lock(t)
        PROVE  KeptIsRoom'
    BY <1>5 DEF Lock, KeptIsRoom
  <1>6. ASSUME NEW t \in Thread, Found(t)
        PROVE  KeptIsRoom'
    BY <1>6 DEF Found, KeptIsRoom
  <1>7. ASSUME NEW t \in Thread, Store(t)
        PROVE  KeptIsRoom'
    <2>1. lib[t] \in Library /\ subject[t] \in Pattern /\ room[lib[t]][subject[t]] = None
      BY <1>7, StoreIs
    <2>2. /\ \A p \in Pattern : p # subject[t] => room'[lib[t]][p] = room[lib[t]][p]
          /\ \A l \in Library : l # lib[t] => room'[l] = room[l]
          /\ UNCHANGED KEPT
      BY <1>7, StoreIs
    <2>3. \A b \in Box : <<subject[t], b>> \notin KEPT[lib[t]]
      BY <2>1 DEF KeptIsRoom
    <2> QED BY <2>1, <2>2, <2>3, SMTT(60) DEF KeptIsRoom
  <1>8. ASSUME NEW t \in Thread, Keep(t)
        PROVE  KeptIsRoom'
    <2>1. /\ lib[t] \in Library /\ subject[t] \in Pattern /\ read[t] \in Box
          /\ room[lib[t]][subject[t]] = read[t]
      BY <1>8 DEF Keep, ReadIsRoom
    <2>2. /\ KEPT'[lib[t]] = KEPT[lib[t]] \cup {<<subject[t], read[t]>>}
          /\ \A l \in Library : l # lib[t] => KEPT'[l] = KEPT[l]
          /\ UNCHANGED room
      BY <1>8, <2>1 DEF Keep
    <2>3. \A l \in Library, p \in Pattern, b \in Box :
            <<p, b>> \in KEPT'[l] =>
                <<p, b>> \in KEPT[l] \/ (l = lib[t] /\ p = subject[t] /\ b = read[t])
      BY <2>1, <2>2
    <2> QED BY <2>1, <2>2, <2>3 DEF KeptIsRoom
  <1>9. ASSUME NEW t \in Thread, Match(t)
        PROVE  KeptIsRoom'
    BY <1>9 DEF Match, KeptIsRoom
  <1>10. ASSUME NEW t \in Thread, LetGo(t)
        PROVE  KeptIsRoom'
    BY <1>10 DEF LetGo, KeptIsRoom
  <1>11. ASSUME NEW t \in Thread, Take(t)
        PROVE  KeptIsRoom'
    BY <1>11 DEF Take, KeptIsRoom
  <1>12. ASSUME NEW t \in Thread, Released(t)
        PROVE  KeptIsRoom'
    BY <1>12 DEF Released, KeptIsRoom
  <1>13. ASSUME NEW t \in Thread, Close(t)
        PROVE  KeptIsRoom'
    BY <1>13 DEF Close, KeptIsRoom
  <1>14. ASSUME NEW t \in Thread, NEW held \in taking[t], EmptyRoom(t, held)
        PROVE  KeptIsRoom'
    <2>1. KEPT[lib[t]] = {} /\ UNCHANGED KEPT
      BY <1>14, EmptyRoomIs DEF TakenIsRoom
    <2>2. \A l \in Library : l # lib[t] => room'[l] = room[l]
      BY <1>14, EmptyRoomIs
    <2> QED BY <2>1, <2>2, SMTT(60) DEF KeptIsRoom
  <1>15. ASSUME NEW t \in Thread, NEW held \in taking[t], DropPattern(t, held)
        PROVE  KeptIsRoom'
    BY <1>15 DEF DropPattern, KeptIsRoom
  <1>16. CASE UNCHANGED vars
    BY <1>16 DEF vars, KeptIsRoom
  <1> QED BY <1>1, <1>2, <1>3, <1>4, <1>5, <1>6, <1>7, <1>8, <1>9, <1>10, <1>11, <1>12, <1>13,
            <1>14, <1>15, <1>16 DEF Next, Call

\* So is what a release has taken, until the room is emptied.
LEMMA TakenIsRoomStep ==
    ASSUME Shape, Counted, Exclusive, Answered, KeptIsRoom, TakenIsRoom, RoomIsOwned, [Next]_vars
    PROVE  TakenIsRoom'
  <1> USE LibraryAssumption, NoneAssumption
      DEF Shape, Types, Placed, Locked, InCalls, Goes, loading, matching, Exclusive, Holding
  <1>1. ASSUME NEW t \in Thread, NEW l \in Library, Open(t, l)
        PROVE  TakenIsRoom'
    <2>1. /\ \A m \in Library, p \in Pattern : room'[m][p] = room[m][p]
          /\ \A m \in Library : KEPT'[m] = KEPT[m]
      BY <1>1, OpenedBlank
    <2>2. /\ lib' = [lib EXCEPT ![t] = l] /\ pc' = [pc EXCEPT ![t] = "opened"]
          /\ UNCHANGED <<subject, read, taking, alive>> /\ pc[t] = "away"
      BY <1>1 DEF Open, TakenIsRoom
    <2> QED BY <2>1, <2>2 DEF TakenIsRoom
  <1>2. ASSUME NEW t \in Thread, Query(t)
        PROVE  TakenIsRoom'
    BY <1>2 DEF Query, TakenIsRoom
  <1>3. ASSUME NEW t \in Thread, Count(t)
        PROVE  TakenIsRoom'
    BY <1>3 DEF Count, TakenIsRoom
  <1>4. ASSUME NEW t \in Thread, NEW p \in Pattern, Load(t, p)
        PROVE  TakenIsRoom'
    BY <1>4 DEF Load, TakenIsRoom
  <1>5. ASSUME NEW t \in Thread, Lock(t)
        PROVE  TakenIsRoom'
    BY <1>5 DEF Lock, TakenIsRoom
  <1>6. ASSUME NEW t \in Thread, Found(t)
        PROVE  TakenIsRoom'
    BY <1>6 DEF Found, TakenIsRoom
  <1>7. ASSUME NEW t \in Thread, Store(t)
        PROVE  TakenIsRoom'
    BY <1>7, StoreIs DEF TakenIsRoom
  <1>8. ASSUME NEW t \in Thread, Keep(t)
        PROVE  TakenIsRoom'
    BY <1>8 DEF Keep, TakenIsRoom
  <1>9. ASSUME NEW t \in Thread, Match(t)
        PROVE  TakenIsRoom'
    BY <1>9 DEF Match, TakenIsRoom
  <1>10. ASSUME NEW t \in Thread, LetGo(t)
        PROVE  TakenIsRoom'
    BY <1>10, SMTT(60) DEF LetGo, TakenIsRoom
  <1>11. ASSUME NEW t \in Thread, Take(t)
        PROVE  TakenIsRoom'
    <2>1. /\ lib[t] \in Library /\ UNCHANGED <<room, lib>>
          /\ taking'[t] = KEPT[lib[t]] /\ KEPT'[lib[t]] = {}
          /\ \A l \in Library : l # lib[t] => KEPT'[l] = KEPT[l]
          /\ \A u \in Thread : u # t => pc'[u] = pc[u] /\ taking'[u] = taking[u]
      BY <1>11 DEF Take, TakenIsRoom
    <2>2. \A u \in Thread : u # t => pc[u] # "dropping"
      BY <1>11 DEF Take, TakenIsRoom
    <2> QED BY <2>1, <2>2, SMTT(60) DEF TakenIsRoom, KeptIsRoom
  <1>12. ASSUME NEW t \in Thread, Released(t)
        PROVE  TakenIsRoom'
    BY <1>12 DEF Released, TakenIsRoom
  <1>13. ASSUME NEW t \in Thread, Close(t)
        PROVE  TakenIsRoom'
    BY <1>13 DEF Close, TakenIsRoom
  <1>14. ASSUME NEW t \in Thread, NEW held \in taking[t], EmptyRoom(t, held)
        PROVE  TakenIsRoom'
    BY <1>14, EmptyRoomIs DEF TakenIsRoom
  <1>15. ASSUME NEW t \in Thread, NEW held \in taking[t], DropPattern(t, held)
        PROVE  TakenIsRoom'
    BY <1>15 DEF DropPattern, TakenIsRoom
  <1>16. CASE UNCHANGED vars
    BY <1>16 DEF vars, TakenIsRoom
  <1> QED BY <1>1, <1>2, <1>3, <1>4, <1>5, <1>6, <1>7, <1>8, <1>9, <1>10, <1>11, <1>12, <1>13,
            <1>14, <1>15, <1>16 DEF Next, Call

\* What a room points at stays owned by a step that takes nothing from an owner.
LEMMA OwnerStays ==
    ASSUME Shape, RoomIsOwned,
           \A l \in Library, p \in Pattern : room'[l][p] \in {room[l][p], None},
           \A l \in Library : KEPT[l] \subseteq KEPT'[l],
           \A t \in Thread : pc[t] = "stored" =>
                /\ pc'[t] = pc[t] /\ lib'[t] = lib[t]
                /\ subject'[t] = subject[t] /\ read'[t] = read[t],
           \A t \in Thread, p \in Pattern, b \in Box :
                pc[t] = "dropping" /\ <<p, b>> \in taking[t] /\ room'[lib[t]][p] = b =>
                    pc'[t] = pc[t] /\ lib'[t] = lib[t] /\ <<p, b>> \in taking'[t]
    PROVE  RoomIsOwned'
  <1>1. SUFFICES ASSUME NEW l \in Library, NEW p \in Pattern, room'[l][p] # None
                 PROVE  OwnedAs(l, p, room[l][p])' /\ room'[l][p] = room[l][p]
    BY DEF RoomIsOwned
  <1>2. PICK b \in Box : b = room[l][p]
    BY <1>1 DEF Shape, Types
  <1>3. room'[l][p] = b /\ OwnedAs(l, p, b)
    BY <1>1, <1>2 DEF RoomIsOwned
  <1>4. OwnedAs(l, p, b)'
    <2>1. CASE KeptOf(l, p, b)
      BY <2>1 DEF OwnedAs, KeptOf
    <2>2. ASSUME NEW t \in Thread, StoredBy(t, l, p, b)
          PROVE  OwnedAs(l, p, b)'
      BY <2>2 DEF OwnedAs, StoredBy
    <2>3. ASSUME NEW t \in Thread, TakenBy(t, l, p, b)
          PROVE  OwnedAs(l, p, b)'
      BY <1>3, <2>3 DEF OwnedAs, TakenBy
    <2> QED BY <1>3, <2>1, <2>2, <2>3 DEF OwnedAs
  <1> QED BY <1>2, <1>3, <1>4

\* And what a room points at has one that drops it.
LEMMA RoomIsOwnedStep ==
    ASSUME Shape, Counted, Answered, TakenIsRoom, RoomIsOwned, [Next]_vars
    PROVE  RoomIsOwned'
  <1> USE DEF Goes, loading, matching
  <1>1. ASSUME NEW t \in Thread, NEW l \in Library, Open(t, l)
        PROVE  RoomIsOwned'
    <2>1. /\ \A m \in Library, p \in Pattern : room'[m][p] = room[m][p]
          /\ \A m \in Library : KEPT'[m] = KEPT[m]
      BY <1>1, OpenedBlank
    <2>2. \A u \in Thread : pc[u] = "stored" =>
                /\ pc'[u] = pc[u] /\ lib'[u] = lib[u]
                /\ subject'[u] = subject[u] /\ read'[u] = read[u]
      BY <1>1 DEF Open, Shape, Types
    <2>3. \A u \in Thread : pc[u] = "dropping" =>
                pc'[u] = pc[u] /\ lib'[u] = lib[u] /\ taking'[u] = taking[u]
      BY <1>1 DEF Open, Shape, Types
    <2> QED BY <2>1, <2>2, <2>3, OwnerStays
  <1>2. ASSUME NEW t \in Thread, Query(t)
        PROVE  RoomIsOwned'
    <2>1. UNCHANGED <<room, KEPT>>
      BY <1>2 DEF Query
    <2>2. \A u \in Thread : pc[u] = "stored" =>
                /\ pc'[u] = pc[u] /\ lib'[u] = lib[u]
                /\ subject'[u] = subject[u] /\ read'[u] = read[u]
      BY <1>2 DEF Query, Shape, Types
    <2>3. \A u \in Thread : pc[u] = "dropping" =>
                pc'[u] = pc[u] /\ lib'[u] = lib[u] /\ taking'[u] = taking[u]
      BY <1>2 DEF Query, Shape, Types
    <2> QED BY <2>1, <2>2, <2>3, OwnerStays
  <1>3. ASSUME NEW t \in Thread, Count(t)
        PROVE  RoomIsOwned'
    <2>1. UNCHANGED <<room, KEPT>>
      BY <1>3 DEF Count
    <2>2. \A u \in Thread : pc[u] = "stored" =>
                /\ pc'[u] = pc[u] /\ lib'[u] = lib[u]
                /\ subject'[u] = subject[u] /\ read'[u] = read[u]
      BY <1>3 DEF Count, Shape, Types
    <2>3. \A u \in Thread : pc[u] = "dropping" =>
                pc'[u] = pc[u] /\ lib'[u] = lib[u] /\ taking'[u] = taking[u]
      BY <1>3 DEF Count, Shape, Types
    <2> QED BY <2>1, <2>2, <2>3, OwnerStays
  <1>4. ASSUME NEW t \in Thread, NEW p \in Pattern, Load(t, p)
        PROVE  RoomIsOwned'
    <2>1. UNCHANGED <<room, KEPT>>
      BY <1>4 DEF Load
    <2>2. \A u \in Thread : pc[u] = "stored" =>
                /\ pc'[u] = pc[u] /\ lib'[u] = lib[u]
                /\ subject'[u] = subject[u] /\ read'[u] = read[u]
      BY <1>4 DEF Load, Shape, Types
    <2>3. \A u \in Thread : pc[u] = "dropping" =>
                pc'[u] = pc[u] /\ lib'[u] = lib[u] /\ taking'[u] = taking[u]
      BY <1>4 DEF Load, Shape, Types
    <2> QED BY <2>1, <2>2, <2>3, OwnerStays
  <1>5. ASSUME NEW t \in Thread, Lock(t)
        PROVE  RoomIsOwned'
    <2>1. UNCHANGED <<room, KEPT>>
      BY <1>5 DEF Lock
    <2>2. \A u \in Thread : pc[u] = "stored" =>
                /\ pc'[u] = pc[u] /\ lib'[u] = lib[u]
                /\ subject'[u] = subject[u] /\ read'[u] = read[u]
      BY <1>5 DEF Lock, Shape, Types
    <2>3. \A u \in Thread : pc[u] = "dropping" =>
                pc'[u] = pc[u] /\ lib'[u] = lib[u] /\ taking'[u] = taking[u]
      BY <1>5 DEF Lock, Shape, Types
    <2> QED BY <2>1, <2>2, <2>3, OwnerStays
  <1>6. ASSUME NEW t \in Thread, Found(t)
        PROVE  RoomIsOwned'
    <2>1. UNCHANGED <<room, KEPT>>
      BY <1>6 DEF Found
    <2>2. \A u \in Thread : pc[u] = "stored" =>
                /\ pc'[u] = pc[u] /\ lib'[u] = lib[u]
                /\ subject'[u] = subject[u] /\ read'[u] = read[u]
      BY <1>6 DEF Found, Shape, Types
    <2>3. \A u \in Thread : pc[u] = "dropping" =>
                pc'[u] = pc[u] /\ lib'[u] = lib[u] /\ taking'[u] = taking[u]
      BY <1>6 DEF Found, Shape, Types
    <2> QED BY <2>1, <2>2, <2>3, OwnerStays
  <1>7. ASSUME NEW t \in Thread, Store(t)
        PROVE  RoomIsOwned'
    <2>1. /\ lib[t] \in Library /\ subject[t] \in Pattern /\ pc[t] = "locked"
          /\ room[lib[t]][subject[t]] = None
          /\ \A p \in Pattern : p # subject[t] => room'[lib[t]][p] = room[lib[t]][p]
          /\ \A l \in Library : l # lib[t] => room'[l] = room[l]
          /\ UNCHANGED <<lib, KEPT, subject, taking>>
      BY <1>7, StoreIs DEF loading
    <2>2. /\ pc'[t] = "stored" /\ read'[t] = room'[lib[t]][subject[t]]
          /\ \A u \in Thread : u # t => pc'[u] = pc[u] /\ read'[u] = read[u]
      BY <1>7, StoreIs DEF Shape, Types
    <2>3. StoredBy(t, lib[t], subject[t], room[lib[t]][subject[t]])'
      BY <2>1, <2>2 DEF StoredBy
    <2>4. ASSUME NEW l \in Library, NEW p \in Pattern, NEW b \in Box, OwnedAs(l, p, b)
          PROVE  OwnedAs(l, p, b)'
      <3>1. CASE KeptOf(l, p, b)
        BY <2>1, <3>1 DEF OwnedAs, KeptOf
      <3>2. ASSUME NEW u \in Thread, StoredBy(u, l, p, b) \/ TakenBy(u, l, p, b)
            PROVE  OwnedAs(l, p, b)'
        <4>1. u # t
          BY <2>1, <3>2 DEF StoredBy, TakenBy
        <4> QED BY <2>1, <2>2, <3>2, <4>1 DEF OwnedAs, StoredBy, TakenBy
      <3> QED BY <2>4, <3>1, <3>2 DEF OwnedAs
    <2>5. ASSUME NEW l \in Library, NEW p \in Pattern, room'[l][p] # None
          PROVE  OwnedAs(l, p, room[l][p])'
      <3>1. CASE l = lib[t] /\ p = subject[t]
        <4>1. StoredBy(t, l, p, room[l][p])'
          BY <2>1, <2>2, <3>1 DEF StoredBy
        <4> QED BY <4>1 DEF OwnedAs
      <3>2. CASE ~(l = lib[t] /\ p = subject[t])
        <4>1. PICK b \in Box : b = room[l][p] /\ room'[l][p] = b
          BY <2>1, <2>5, <3>2, SMTT(30) DEF Shape, Types
        <4>2. OwnedAs(l, p, b)'
          BY <2>4, <4>1, NoneAssumption DEF RoomIsOwned
        <4> QED BY <4>1, <4>2
      <3> QED BY <3>1, <3>2
    <2> QED BY <2>5 DEF RoomIsOwned
  <1>8. ASSUME NEW t \in Thread, Keep(t)
        PROVE  RoomIsOwned'
    <2>0. lib[t] \in Library /\ subject[t] \in Pattern
      BY <1>8, LibraryAssumption DEF Keep, Shape, Types, Placed, InCalls
    <2>1. /\ UNCHANGED <<room, lib, subject, read, taking>> /\ pc[t] = "stored"
          /\ <<subject[t], read[t]>> \in KEPT'[lib[t]]
          /\ \A l \in Library : KEPT[l] \subseteq KEPT'[l]
          /\ \A u \in Thread : u # t => pc'[u] = pc[u]
      BY <1>8, <2>0 DEF Keep, Shape, Types
    <2>2. SUFFICES ASSUME NEW l \in Library, NEW p \in Pattern, NEW b \in Box,
                          OwnedAs(l, p, b)
                   PROVE  OwnedAs(l, p, b)'
      BY <2>1 DEF RoomIsOwned, Shape, Types
    <2>3. CASE KeptOf(l, p, b) \/ StoredBy(t, l, p, b)
      BY <2>1, <2>3 DEF OwnedAs, KeptOf, StoredBy
    <2>4. ASSUME NEW u \in Thread, u # t, StoredBy(u, l, p, b)
          PROVE  OwnedAs(l, p, b)'
      BY <2>1, <2>4 DEF OwnedAs, StoredBy
    <2>5. ASSUME NEW u \in Thread, TakenBy(u, l, p, b)
          PROVE  OwnedAs(l, p, b)'
      <3>1. u # t
        BY <2>1, <2>5 DEF TakenBy
      <3> QED BY <2>1, <2>5, <3>1 DEF OwnedAs, TakenBy
    <2> QED BY <2>2, <2>3, <2>4, <2>5 DEF OwnedAs
  <1>9. ASSUME NEW t \in Thread, Match(t)
        PROVE  RoomIsOwned'
    <2>1. UNCHANGED <<room, KEPT>>
      BY <1>9 DEF Match
    <2>2. \A u \in Thread : pc[u] = "stored" =>
                /\ pc'[u] = pc[u] /\ lib'[u] = lib[u]
                /\ subject'[u] = subject[u] /\ read'[u] = read[u]
      BY <1>9 DEF Match, Shape, Types
    <2>3. \A u \in Thread : pc[u] = "dropping" =>
                pc'[u] = pc[u] /\ lib'[u] = lib[u] /\ taking'[u] = taking[u]
      BY <1>9 DEF Match, Shape, Types
    <2> QED BY <2>1, <2>2, <2>3, OwnerStays
  <1>10. ASSUME NEW t \in Thread, LetGo(t)
        PROVE  RoomIsOwned'
    <2>1. UNCHANGED <<room, KEPT>>
      BY <1>10 DEF LetGo
    <2>2. \A u \in Thread : pc[u] = "stored" =>
                /\ pc'[u] = pc[u] /\ lib'[u] = lib[u]
                /\ subject'[u] = subject[u] /\ read'[u] = read[u]
      BY <1>10 DEF LetGo, Shape, Types
    <2>3. \A u \in Thread : pc[u] = "dropping" =>
                pc'[u] = pc[u] /\ lib'[u] = lib[u] /\ taking'[u] = taking[u]
      BY <1>10 DEF LetGo, Shape, Types
    <2> QED BY <2>1, <2>2, <2>3, OwnerStays
  <1>11. ASSUME NEW t \in Thread, Take(t)
        PROVE  RoomIsOwned'
    <2>0. lib[t] \in Library /\ taking[t] = {}
      BY <1>11, LibraryAssumption DEF Take, Shape, Types, Placed
    <2>1. /\ UNCHANGED <<room, lib, subject, read>> /\ pc[t] = "releasing" /\ pc'[t] = "dropping"
          /\ taking'[t] = KEPT[lib[t]]
          /\ \A l \in Library : l # lib[t] => KEPT'[l] = KEPT[l]
          /\ \A u \in Thread : u # t => pc'[u] = pc[u] /\ taking'[u] = taking[u]
      BY <1>11, <2>0 DEF Take, Shape, Types
    <2>2. SUFFICES ASSUME NEW l \in Library, NEW p \in Pattern, NEW b \in Box,
                          OwnedAs(l, p, b)
                   PROVE  OwnedAs(l, p, b)'
      BY <2>1 DEF RoomIsOwned, Shape, Types
    <2>3. CASE KeptOf(l, p, b)
      BY <2>0, <2>1, <2>3 DEF OwnedAs, KeptOf, TakenBy
    <2>4. ASSUME NEW u \in Thread, StoredBy(u, l, p, b) \/ TakenBy(u, l, p, b)
          PROVE  OwnedAs(l, p, b)'
      <3>1. u # t
        BY <2>1, <2>4 DEF StoredBy, TakenBy
      <3> QED BY <2>1, <2>4, <3>1 DEF OwnedAs, StoredBy, TakenBy
    <2> QED BY <2>2, <2>3, <2>4 DEF OwnedAs
  <1>12. ASSUME NEW t \in Thread, Released(t)
        PROVE  RoomIsOwned'
    <2>1. UNCHANGED <<room, KEPT, lib, subject, read, taking>>
      BY <1>12 DEF Released
    <2>2. taking[t] = {} /\ pc[t] = "dropping" /\ \A u \in Thread : u # t => pc'[u] = pc[u]
      BY <1>12 DEF Released, Shape, Types
    <2>3. \A u \in Thread, p \in Pattern, b \in Box :
            pc[u] = "dropping" /\ <<p, b>> \in taking[u] => u # t
      BY <2>2
    <2> QED BY <2>1, <2>2, <2>3, OwnerStays
  <1>13. ASSUME NEW t \in Thread, Close(t)
        PROVE  RoomIsOwned'
    <2>1. UNCHANGED <<room, KEPT>>
      BY <1>13 DEF Close
    <2>2. \A u \in Thread : pc[u] = "stored" =>
                /\ pc'[u] = pc[u] /\ lib'[u] = lib[u]
                /\ subject'[u] = subject[u] /\ read'[u] = read[u]
      BY <1>13 DEF Close, Shape, Types
    <2>3. \A u \in Thread : pc[u] = "dropping" =>
                pc'[u] = pc[u] /\ lib'[u] = lib[u] /\ taking'[u] = taking[u]
      BY <1>13 DEF Close, Shape, Types
    <2> QED BY <2>1, <2>2, <2>3, OwnerStays
  <1>14. ASSUME NEW t \in Thread, NEW held \in taking[t], EmptyRoom(t, held)
        PROVE  RoomIsOwned'
    <2>1. /\ \A l \in Library, p \in Pattern : room'[l][p] \in {room[l][p], None}
          /\ UNCHANGED <<KEPT, pc, lib, subject, read, taking>>
      BY <1>14, EmptyRoomIs DEF loading
    <2> QED BY <2>1, OwnerStays
  <1>15. ASSUME NEW t \in Thread, NEW held \in taking[t], DropPattern(t, held)
        PROVE  RoomIsOwned'
    <2>1. /\ UNCHANGED <<room, KEPT, lib, subject, read, pc>>
          /\ room[lib[t]][held[1]] = None
          /\ taking'[t] = taking[t] \ {held}
          /\ \A u \in Thread : u # t => taking'[u] = taking[u]
      BY <1>15 DEF DropPattern, Shape, Types
    <2>2. \A u \in Thread, p \in Pattern, b \in Box :
            <<p, b>> \in taking[u] /\ room[lib[u]][p] = b => <<p, b>> \in taking'[u]
      <3>1. SUFFICES ASSUME NEW p \in Pattern, NEW b \in Box, <<p, b>> \in taking[t],
                            room[lib[t]][p] = b
                     PROVE  <<p, b>> # held
        BY <2>1
      <3> QED BY <2>1, <3>1, NoneAssumption
    <2> QED BY <2>1, <2>2, OwnerStays
  <1>16. CASE UNCHANGED vars
    BY <1>16, OwnerStays DEF vars
  <1> QED BY <1>1, <1>2, <1>3, <1>4, <1>5, <1>6, <1>7, <1>8, <1>9, <1>10, <1>11, <1>12, <1>13,
            <1>14, <1>15, <1>16 DEF Next, Call

-----------------------------------------------------------------------------
(* What is alive.                                                          *)

\* A step that neither reads a pattern nor drops one.
LEMMA ClaimsStay ==
    ASSUME Claims, UNCHANGED alive,
           \A l \in Library, p \in Pattern, b \in Box : Claim(l, p, b)' <=> Claim(l, p, b)
    PROVE  Claims'
  <1>1. ClaimIsAlive'
    BY DEF Claims, ClaimIsAlive
  <1>2. OneClaim'
    BY DEF Claims, OneClaim
  <1> QED BY <1>1, <1>2 DEF Claims

LEMMA NoClaimMoves ==
    ASSUME Claims, UNCHANGED alive,
           \A l \in Library, p \in Pattern : room'[l][p] = room[l][p],
           \A t \in Thread :
                /\ pc'[t] = "dropping" <=> pc[t] = "dropping"
                /\ pc[t] = "dropping" => lib'[t] = lib[t] /\ taking'[t] = taking[t]
    PROVE  Claims'
  <1>1. \A l \in Library, p \in Pattern, b \in Box : Claim(l, p, b)' <=> Claim(l, p, b)
    BY DEF Claim, TakenBy
  <1> QED BY <1>1, ClaimsStay

\* Each step leaves what is alive what was read and not dropped.
LEMMA ClaimsStep ==
    ASSUME Shape, Counted, Answered, Exclusive, Rooms, Claims, [Next]_vars
    PROVE  Claims'
  <1> USE DEF Goes, loading, matching
  <1>0. KeptIsRoom /\ TakenIsRoom /\ RoomIsOwned
    BY DEF Rooms
  <1>1. ASSUME NEW t \in Thread, NEW l \in Library, Open(t, l)
        PROVE  Claims'
    <2>1. UNCHANGED alive /\ \A m \in Library, p \in Pattern : room'[m][p] = room[m][p]
      BY <1>0, <1>1, OpenedBlank DEF Open
    <2>2. \A u \in Thread :
                /\ pc'[u] = "dropping" <=> pc[u] = "dropping"
                /\ pc[u] = "dropping" => lib'[u] = lib[u] /\ taking'[u] = taking[u]
      BY <1>1 DEF Open, Shape, Types
    <2> QED BY <2>1, <2>2, NoClaimMoves
  <1>2. ASSUME NEW t \in Thread, Query(t)
        PROVE  Claims'
    <2>1. UNCHANGED <<room, alive>>
      BY <1>2 DEF Query
    <2>2. \A u \in Thread :
                /\ pc'[u] = "dropping" <=> pc[u] = "dropping"
                /\ pc[u] = "dropping" => lib'[u] = lib[u] /\ taking'[u] = taking[u]
      BY <1>2 DEF Query, Shape, Types
    <2> QED BY <2>1, <2>2, NoClaimMoves
  <1>3. ASSUME NEW t \in Thread, Count(t)
        PROVE  Claims'
    <2>1. UNCHANGED <<room, alive>>
      BY <1>3 DEF Count
    <2>2. \A u \in Thread :
                /\ pc'[u] = "dropping" <=> pc[u] = "dropping"
                /\ pc[u] = "dropping" => lib'[u] = lib[u] /\ taking'[u] = taking[u]
      BY <1>3 DEF Count, Shape, Types
    <2> QED BY <2>1, <2>2, NoClaimMoves
  <1>4. ASSUME NEW t \in Thread, NEW p \in Pattern, Load(t, p)
        PROVE  Claims'
    <2>1. UNCHANGED <<room, alive>>
      BY <1>4 DEF Load
    <2>2. \A u \in Thread :
                /\ pc'[u] = "dropping" <=> pc[u] = "dropping"
                /\ pc[u] = "dropping" => lib'[u] = lib[u] /\ taking'[u] = taking[u]
      BY <1>4 DEF Load, Shape, Types
    <2> QED BY <2>1, <2>2, NoClaimMoves
  <1>5. ASSUME NEW t \in Thread, Lock(t)
        PROVE  Claims'
    <2>1. UNCHANGED <<room, alive>>
      BY <1>5 DEF Lock
    <2>2. \A u \in Thread :
                /\ pc'[u] = "dropping" <=> pc[u] = "dropping"
                /\ pc[u] = "dropping" => lib'[u] = lib[u] /\ taking'[u] = taking[u]
      BY <1>5 DEF Lock, Shape, Types
    <2> QED BY <2>1, <2>2, NoClaimMoves
  <1>6. ASSUME NEW t \in Thread, Found(t)
        PROVE  Claims'
    <2>1. UNCHANGED <<room, alive>>
      BY <1>6 DEF Found
    <2>2. \A u \in Thread :
                /\ pc'[u] = "dropping" <=> pc[u] = "dropping"
                /\ pc[u] = "dropping" => lib'[u] = lib[u] /\ taking'[u] = taking[u]
      BY <1>6 DEF Found, Shape, Types
    <2> QED BY <2>1, <2>2, NoClaimMoves
  <1>7. ASSUME NEW t \in Thread, Store(t)
        PROVE  Claims'
    <2>1. PICK box \in Box : /\ box \notin alive /\ alive' = alive \cup {box}
                             /\ room'[lib[t]][subject[t]] = box
      BY <1>7, StoreIs
    <2>2. /\ lib[t] \in Library /\ subject[t] \in Pattern /\ pc[t] = "locked"
          /\ room[lib[t]][subject[t]] = None
          /\ \A p \in Pattern : p # subject[t] => room'[lib[t]][p] = room[lib[t]][p]
          /\ \A l \in Library : l # lib[t] => room'[l] = room[l]
          /\ UNCHANGED <<lib, taking>>
      BY <1>7, StoreIs
    <2>3. pc'[t] = "stored" /\ \A u \in Thread : u # t => pc'[u] = pc[u]
      BY <1>7, StoreIs DEF Shape, Types
    <2>4. ASSUME NEW l \in Library, NEW p \in Pattern, NEW b \in Box
          PROVE  Claim(l, p, b)' <=>
                    Claim(l, p, b) \/ (l = lib[t] /\ p = subject[t] /\ b = box)
      <3>1. \A u \in Thread : TakenBy(u, l, p, b)' <=> TakenBy(u, l, p, b)
        BY <2>2, <2>3 DEF TakenBy
      <3>2. CASE l = lib[t] /\ p = subject[t]
        BY <2>1, <2>2, <3>1, <3>2, NoneAssumption DEF Claim
      <3>3. CASE ~(l = lib[t] /\ p = subject[t])
        BY <2>2, <3>1, <3>3 DEF Claim
      <3> QED BY <3>2, <3>3
    <2>5. \A l \in Library, p \in Pattern : ~Claim(l, p, box)
      BY <2>1 DEF Claims, ClaimIsAlive
    <2>6. ClaimIsAlive'
      <3>1. ASSUME NEW b \in Box
            PROVE  b \in alive' <=> \E l \in Library, p \in Pattern : Claim(l, p, b)'
        <4>1. b \in alive' <=> b \in alive \/ b = box
          BY <2>1
        <4>2. b \in alive <=> \E l \in Library, p \in Pattern : Claim(l, p, b)
          BY DEF Claims, ClaimIsAlive
        <4> QED BY <2>2, <2>4, <4>1, <4>2
      <3> QED BY <3>1 DEF ClaimIsAlive
    <2>7. OneClaim'
      BY <2>4, <2>5 DEF Claims, OneClaim
    <2> QED BY <2>6, <2>7 DEF Claims
  <1>8. ASSUME NEW t \in Thread, Keep(t)
        PROVE  Claims'
    <2>1. UNCHANGED <<room, alive>>
      BY <1>8 DEF Keep
    <2>2. \A u \in Thread :
                /\ pc'[u] = "dropping" <=> pc[u] = "dropping"
                /\ pc[u] = "dropping" => lib'[u] = lib[u] /\ taking'[u] = taking[u]
      BY <1>8 DEF Keep, Shape, Types
    <2> QED BY <2>1, <2>2, NoClaimMoves
  <1>9. ASSUME NEW t \in Thread, Match(t)
        PROVE  Claims'
    <2>1. UNCHANGED <<room, alive>>
      BY <1>9 DEF Match
    <2>2. \A u \in Thread :
                /\ pc'[u] = "dropping" <=> pc[u] = "dropping"
                /\ pc[u] = "dropping" => lib'[u] = lib[u] /\ taking'[u] = taking[u]
      BY <1>9 DEF Match, Shape, Types
    <2> QED BY <2>1, <2>2, NoClaimMoves
  <1>10. ASSUME NEW t \in Thread, LetGo(t)
        PROVE  Claims'
    <2>1. UNCHANGED <<room, alive>>
      BY <1>10 DEF LetGo
    <2>2. \A u \in Thread :
                /\ pc'[u] = "dropping" <=> pc[u] = "dropping"
                /\ pc[u] = "dropping" => lib'[u] = lib[u] /\ taking'[u] = taking[u]
      BY <1>10 DEF LetGo, Shape, Types
    <2> QED BY <2>1, <2>2, NoClaimMoves
  <1>11. ASSUME NEW t \in Thread, Take(t)
        PROVE  Claims'
    <2>0. lib[t] \in Library /\ taking[t] = {}
      BY <1>11, LibraryAssumption DEF Take, Shape, Types, Placed
    <2>1. /\ UNCHANGED <<room, alive, lib>> /\ pc[t] = "releasing"
          /\ taking'[t] = KEPT[lib[t]]
          /\ \A u \in Thread : u # t => pc'[u] = pc[u] /\ taking'[u] = taking[u]
      BY <1>11, <2>0 DEF Take, Shape, Types
    <2>2. ASSUME NEW l \in Library, NEW p \in Pattern, NEW b \in Box
          PROVE  Claim(l, p, b)' <=> Claim(l, p, b)
      <3>1. \A u \in Thread : u # t => (TakenBy(u, l, p, b)' <=> TakenBy(u, l, p, b))
        BY <2>1 DEF TakenBy
      <3>2. TakenBy(t, l, p, b)' => room[l][p] = b
        BY <1>0, <2>1 DEF TakenBy, KeptIsRoom
      <3>3. ~TakenBy(t, l, p, b)
        BY <2>0 DEF TakenBy
      <3> QED BY <2>1, <3>1, <3>2, <3>3 DEF Claim
    <2> QED BY <2>1, <2>2, ClaimsStay
  <1>12. ASSUME NEW t \in Thread, Released(t)
        PROVE  Claims'
    <2>1. /\ UNCHANGED <<room, alive, lib, taking>> /\ taking[t] = {}
          /\ \A u \in Thread : u # t => pc'[u] = pc[u]
      BY <1>12 DEF Released, Shape, Types
    <2>2. \A l \in Library, p \in Pattern, b \in Box, u \in Thread :
            TakenBy(u, l, p, b)' <=> TakenBy(u, l, p, b)
      BY <2>1 DEF TakenBy
    <2> QED BY <2>1, <2>2, ClaimsStay DEF Claim
  <1>13. ASSUME NEW t \in Thread, Close(t)
        PROVE  Claims'
    <2>1. UNCHANGED <<room, alive>>
      BY <1>13 DEF Close
    <2>2. \A u \in Thread :
                /\ pc'[u] = "dropping" <=> pc[u] = "dropping"
                /\ pc[u] = "dropping" => lib'[u] = lib[u] /\ taking'[u] = taking[u]
      BY <1>13 DEF Close, Shape, Types
    <2> QED BY <2>1, <2>2, NoClaimMoves
  <1>14. ASSUME NEW t \in Thread, NEW held \in taking[t], EmptyRoom(t, held)
        PROVE  Claims'
    <2>1. /\ lib[t] \in Library /\ held[1] \in Pattern /\ held[2] \in Box /\ pc[t] = "dropping"
          /\ <<held[1], held[2]>> \in taking[t]
          /\ room[lib[t]][held[1]] = held[2] /\ room'[lib[t]][held[1]] = None
      BY <1>0, <1>14, EmptyRoomIs
    <2>2. /\ \A p \in Pattern : p # held[1] => room'[lib[t]][p] = room[lib[t]][p]
          /\ \A l \in Library : l # lib[t] => room'[l] = room[l]
          /\ UNCHANGED <<alive, pc, lib, taking>>
      BY <1>0, <1>14, EmptyRoomIs
    <2>3. ASSUME NEW l \in Library, NEW p \in Pattern, NEW b \in Box
          PROVE  Claim(l, p, b)' <=> Claim(l, p, b)
      <3>1. \A u \in Thread : TakenBy(u, l, p, b)' <=> TakenBy(u, l, p, b)
        BY <2>2 DEF TakenBy
      <3>2. CASE l = lib[t] /\ p = held[1] /\ b = held[2]
        <4>1. TakenBy(t, l, p, b)
          BY <2>1, <3>2 DEF TakenBy
        <4> QED BY <3>1, <4>1 DEF Claim
      <3>3. CASE l = lib[t] /\ p = held[1] /\ b # held[2]
        BY <2>1, <3>1, <3>3, NoneAssumption DEF Claim
      <3>4. CASE ~(l = lib[t] /\ p = held[1])
        BY <2>2, <3>1, <3>4 DEF Claim
      <3> QED BY <3>2, <3>3, <3>4
    <2> QED BY <2>2, <2>3, ClaimsStay
  <1>15. ASSUME NEW t \in Thread, NEW held \in taking[t], DropPattern(t, held)
        PROVE  Claims'
    <2>0. /\ lib[t] \in Library /\ held = <<held[1], held[2]>> /\ pc[t] = "dropping"
          /\ held[1] \in Pattern /\ held[2] \in Box
      BY <1>15, LibraryAssumption DEF DropPattern, Shape, Types, Placed
    <2>1. /\ UNCHANGED <<room, lib, pc>> /\ alive' = alive \ {held[2]}
          /\ room[lib[t]][held[1]] = None
          /\ taking'[t] = taking[t] \ {held}
          /\ \A u \in Thread : u # t => taking'[u] = taking[u]
      BY <1>15 DEF DropPattern, Shape, Types
    <2>2. \A u \in Thread : pc[u] = "dropping" => u = t
      BY <2>0 DEF Shape, Locked
    <2>3. Claim(lib[t], held[1], held[2])
      <3>1. TakenBy(t, lib[t], held[1], held[2])
        BY <2>0 DEF TakenBy
      <3> QED BY <3>1 DEF Claim
    <2>4. ASSUME NEW l \in Library, NEW p \in Pattern, NEW b \in Box
          PROVE  Claim(l, p, b)' <=> Claim(l, p, b) /\ b # held[2]
      <3>1. \A u \in Thread : TakenBy(u, l, p, b)' <=>
                TakenBy(u, l, p, b) /\ <<p, b>> # held
        BY <2>0, <2>1, <2>2 DEF TakenBy
      <3>2. CASE b # held[2]
        BY <2>0, <2>1, <3>1, <3>2 DEF Claim
      <3>3. CASE b = held[2]
        <4>1. Claim(l, p, b) => l = lib[t] /\ p = held[1]
          BY <2>0, <2>3, <3>3 DEF Claims, OneClaim
        <4>2. Claim(l, p, b)' => Claim(l, p, b)
          BY <2>1, <3>1 DEF Claim
        <4>3. ~Claim(l, p, b)'
          BY <2>0, <2>1, <3>1, <3>3, <4>1, <4>2, NoneAssumption DEF Claim
        <4> QED BY <3>3, <4>3
      <3> QED BY <3>2, <3>3
    <2>5. ClaimIsAlive'
      BY <2>1, <2>4 DEF Claims, ClaimIsAlive
    <2>6. OneClaim'
      BY <2>4 DEF Claims, OneClaim
    <2> QED BY <2>5, <2>6 DEF Claims
  <1>16. CASE UNCHANGED vars
    BY <1>16, NoClaimMoves DEF vars
  <1> QED BY <1>1, <1>2, <1>3, <1>4, <1>5, <1>6, <1>7, <1>8, <1>9, <1>10, <1>11, <1>12, <1>13,
            <1>14, <1>15, <1>16 DEF Next, Call

-----------------------------------------------------------------------------
(* The theorems.                                                           *)

\* Whatever threads open, count, match, let go of, release and close.
LEMMA InvariantHolds == Spec => []IInv
  <1>1. Init => IInv
    <2> SUFFICES ASSUME Init
                 PROVE  IInv
      OBVIOUS
    <2>1. Shape
      BY LibraryAssumption, NoneAssumption DEF Init, Shape, Types, Placed, Locked, Phase, InCalls
    <2>2. Counted
      <3>1. \A l \in Library : Opened(l) = {} /\ Holding(l) = {}
        BY LibraryAssumption DEF Init, Opened, Holding, InCalls
      <3> QED BY <3>1, FS_EmptySet DEF Init, Counted
    <2>3. Exclusive /\ Answered /\ Rooms
      BY DEF Init, Exclusive, Answered, Rooms, ReadIsRoom, KeptIsRoom, TakenIsRoom, RoomIsOwned
    <2>4. \A l \in Library, p \in Pattern, b \in Box : ~Claim(l, p, b)
      BY NoneAssumption DEF Init, Claim, TakenBy
    <2>5. Claims
      BY <2>4 DEF Init, Claims, ClaimIsAlive, OneClaim
    <2> QED BY <2>1, <2>2, <2>3, <2>5 DEF IInv
  <1>2. IInv /\ [Next]_vars => IInv'
    BY ShapeStep, CountedStep, ExclusiveStep, AnsweredStep, ReadIsRoomStep, KeptIsRoomStep,
       TakenIsRoomStep, RoomIsOwnedStep, ClaimsStep DEF IInv, Rooms
  <1> QED BY <1>1, <1>2, PTL DEF Spec

\* What each variable holds, the counts of native.rs among it: HOLDING is never
\* below nought and never above the loads there are.
THEOREM TypeCorrect == Spec => []TypeOK
  <1>1. ASSUME IInv
        PROVE  TypeOK
    <2>1. ASSUME NEW S \in SUBSET Thread
          PROVE  Cardinality(S) \in 0..Cardinality(Thread)
      <3>1. IsFiniteSet(S) /\ Cardinality(S) <= Cardinality(Thread)
        BY ThreadAssumption, FS_Subset
      <3> QED BY <3>1, ThreadAssumption, FS_CardinalityType
    <2>2. \A l \in Library : /\ refs[l] \in 0..Cardinality(Thread)
                             /\ HOLDING[l] \in 0..Cardinality(Thread)
      <3>1. \A l \in Library : Opened(l) \in SUBSET Thread /\ Holding(l) \in SUBSET Thread
        BY DEF Opened, Holding
      <3> QED BY <1>1, <2>1, <3>1 DEF IInv, Counted
    <2>3. Types
      BY <1>1 DEF IInv, Shape
    <2> QED BY <2>2, <2>3 DEF Types, TypeOK, Phase, InCalls
  <1> QED BY <1>1, InvariantHolds, PTL

\* A match runs on a pattern that is alive, in a library that is mapped, however
\* many threads load, drop and release it (kernels.rs, matched and
\* souther_release; native.rs, HOLDING).
THEOREM MatchesAlive == Spec => []MatchesWhatIsAlive
  <1>1. ASSUME IInv, NEW t \in Thread, pc[t] = "using"
        PROVE  read[t] \in alive /\ refs[lib[t]] > 0
    <2>1. /\ lib[t] \in Library /\ subject[t] \in Pattern /\ read[t] \in Box
          /\ room[lib[t]][subject[t]] = read[t]
      BY <1>1, LibraryAssumption DEF IInv, Shape, Types, Placed, InCalls, Rooms, ReadIsRoom
    <2>2. Claim(lib[t], subject[t], read[t])
      BY <2>1 DEF Claim
    <2>3. read[t] \in alive
      BY <1>1, <2>1, <2>2 DEF IInv, Claims, ClaimIsAlive
    <2>4. t \in Opened(lib[t])
      BY DEF Opened
    <2>5. refs[lib[t]] # 0 /\ refs[lib[t]] = Cardinality(Opened(lib[t]))
      BY <1>1, <2>1, <2>4, CountTells DEF IInv, Counted
    <2>6. Cardinality(Opened(lib[t])) \in Nat
      BY LoadsAreFinite, FS_CardinalityType
    <2> QED BY <2>3, <2>5, <2>6
  <1>2. IInv => MatchesWhatIsAlive
    BY <1>1 DEF MatchesWhatIsAlive
  <1> QED BY <1>2, InvariantHolds, PTL

\* A pattern is read once for its room, however many threads find it empty at
\* once (kernels.rs, matched: the room is loaded again under KEPT's lock).
THEOREM ReadsOnce == Spec => []ReadOnce
  <1>1. ASSUME IInv, NEW l \in Library, NEW x \in Owned(l), NEW y \in Owned(l), x[1] = y[1]
        PROVE  x = y
    <2>1. ASSUME NEW z \in Owned(l)
          PROVE  /\ z[1] \in Pattern /\ z[2] \in Box /\ z = <<z[1], z[2]>>
                 /\ \/ z \in KEPT[l]
                    \/ \E t \in Thread : lib[t] = l /\ pc[t] = "dropping" /\ z \in taking[t]
      BY <1>1, <2>1 DEF IInv, Shape, Types, Placed, Owned
    <2>2. \A t, u \in Thread : pc[t] = "dropping" /\ pc[u] = "dropping" => t = u
      BY <1>1 DEF IInv, Shape, Locked
    <2>3. TakenIsRoom /\ KeptIsRoom
      BY <1>1 DEF IInv, Rooms
    <2>4. CASE x \in KEPT[l] /\ y \in KEPT[l]
      <3>1. x[2] = y[2]
        BY <1>1, <2>1, <2>3, <2>4 DEF KeptIsRoom
      <3> QED BY <1>1, <2>1, <3>1
    <2>5. ASSUME NEW t \in Thread, lib[t] = l, pc[t] = "dropping", x \in taking[t] \/ y \in taking[t]
          PROVE  x = y
      <3>1. KEPT[l] = {}
        BY <2>3, <2>5 DEF TakenIsRoom
      <3>2. x \in taking[t] /\ y \in taking[t]
        BY <2>1, <2>2, <2>5, <3>1
      <3>3. x[2] = y[2]
        BY <1>1, <2>1, <2>3, <2>5, <3>2 DEF TakenIsRoom
      <3> QED BY <1>1, <2>1, <3>3
    <2> QED BY <2>1, <2>4, <2>5
  <1>2. IInv => ReadOnce
    BY <1>1 DEF ReadOnce
  <1> QED BY <1>2, InvariantHolds, PTL

\* Nothing a library read is alive once it is unmapped: the last load counted
\* releases it before it is closed, and one never counted never read
\* (native.rs, Drop for NativeLibrary; kernels.rs, souther_release).
THEOREM NoneOutlives == Spec => []NothingOutlives
  <1>1. ASSUME IInv, NEW l \in Library, refs[l] = 0
        PROVE  /\ KEPT[l] = {}
               /\ \A p \in Pattern, b \in Box : ~Claim(l, p, b)
    <2>1. \A t \in Thread : lib[t] # l
      BY <1>1, CountTells DEF IInv, Opened
    <2>2. KEPT[l] = {}
      BY <1>1, <2>1 DEF IInv, Answered
    <2>3. \A p \in Pattern : room[l][p] = None
      BY <1>1, <2>1, <2>2, ZenonT(60) DEF IInv, Rooms, RoomIsOwned, OwnedAs, KeptOf, StoredBy, TakenBy
    <2> QED BY <2>1, <2>2, <2>3, NoneAssumption DEF Claim, TakenBy
  <1>2. IInv => NothingOutlives
    <2> SUFFICES ASSUME IInv
                 PROVE  NothingOutlives
      OBVIOUS
    <2>1. alive \in SUBSET Box /\ ClaimIsAlive
      BY DEF IInv, Shape, Types, Claims
    <2> QED BY <1>1, <2>1 DEF NothingOutlives, ClaimIsAlive
  <1> QED BY <1>2, InvariantHolds, PTL

=============================================================================
