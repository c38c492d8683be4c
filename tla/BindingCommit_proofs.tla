------------------------ MODULE BindingCommit_proofs ------------------------
(***************************************************************************)
(* For any commands on any directories, whatever each asks for and however *)
(* they overlap: what BindingCommit.cfg checks for two.                    *)
(*                                                                         *)
(* The inductive invariant says what each command has beside each of its   *)
(* targets, from where it stands and which binding it is at: one written   *)
(* for every binding still to be put in place, marked from the moment it   *)
(* may be moved, and nothing for one that was (Staged); what it moved out  *)
(* of a target only until the next is put in (Moved), and after a failure  *)
(* only what the disk kept (LeftIsStuck).  That nothing is lost needs more *)
(* than that something stands at a target or beside it: not all that does  *)
(* is a former about to be deleted (Secured).                              *)
(***************************************************************************)
EXTENDS BindingCommit, SequenceTheorems, TLAPS

Phase == {"checking", "building", "staging", "generating", "committing", "placing", "moving",
          "replacing", "removing", "letting go", "done", "refused", "crashed"}

Content ==
    {Absent, Empty, User}
        \cup {Written(g, c, marked) : g \in Generator, c \in Command \cup {None}, marked \in BOOLEAN}

Beside(c) == [DOMAIN BindingsOf[c] -> Content]
BesideOk(f) ==
    /\ f \in [Command -> UNION {Beside(c) : c \in Command}]
    /\ \A c \in Command : f[c] \in Beside(c)

\* What each variable holds; a command is at one of its bindings.
TypeOK ==
    /\ target \in [Target -> Content]
    /\ BesideOk(staging)
    /\ BesideOk(former)
    /\ pc \in [Command -> Phase]
    /\ moved \in [Command -> SUBSET Target]
    /\ BesideOk(seen)
    /\ stuck \in [Command -> SUBSET Nat]
    /\ at \in [Command -> Nat]
    /\ \A c \in Command : at[c] \in DOMAIN BindingsOf[c]

Plain(c, i) == Written(BindingsOf[c][i].by, c, FALSE)
Marked(c, i) == Written(BindingsOf[c][i].by, c, TRUE)

\* What a command that stands at `p`, with its binding `a`, has written beside
\* its targets.
StagedAs(c, p, a, beside) ==
    /\ p = "building" => a = 1
    /\ \A i \in DOMAIN BindingsOf[c] :
        /\ p \in {"checking", "building", "done"} => beside[i] = Absent
        /\ p \in {"staging", "generating"} /\ i < a => beside[i] = Plain(c, i)
        /\ p \in {"committing", "placing", "moving", "replacing", "removing"} =>
                /\ i < a => beside[i] = Absent
                /\ i > a => beside[i] = Plain(c, i)
        /\ p = "committing" /\ i = a => beside[i] = Plain(c, i)
        /\ p \in {"placing", "moving", "replacing"} /\ i = a => beside[i] = Marked(c, i)
        /\ p = "removing" /\ i = a => beside[i] = Absent

StagedFor(c) == StagedAs(c, pc[c], at[c], staging[c])
Staged == \A c \in Command : StagedFor(c)

\* And what it has moved out of them.
MovedAs(c, p, a, beside) ==
    \A i \in DOMAIN BindingsOf[c] :
        /\ p \in {"checking", "building", "staging", "generating", "committing", "placing",
                  "moving", "done"} => beside[i] = Absent
        /\ p \in {"replacing", "removing"} => (beside[i] = Absent <=> i # a)

MovedFor(c) == MovedAs(c, pc[c], at[c], former[c])
Moved == \A c \in Command : MovedFor(c)

\* What is still beside a target after a failure is there because of the disk.
StuckAs(p, i, staged, out, kept) ==
    /\ p \in {"letting go", "refused"} /\ out # Absent => i \in kept
    /\ p = "refused" /\ staged # Absent => i \in kept

StuckFor(c) ==
    \A i \in DOMAIN BindingsOf[c] : StuckAs(pc[c], i, staging[c][i], former[c][i], stuck[c])
LeftIsStuck == \A c \in Command : StuckFor(c)

\* Where something stands, something stands that is not about to be deleted.
Free(c, i, t) ==
    /\ BindingsOf[c][i].into = t
    /\ former[c][i] # Absent
    /\ ~(pc[c] = "removing" /\ at[c] = i)
Secure(t) ==
    \/ target[t] # Absent
    \/ \E c \in Command : \E i \in DOMAIN BindingsOf[c] : Free(c, i, t)
Secured == \A t \in Target : Stands(t) => Secure(t)

\* What a command found in a target when it last asked it may replace.
MayReplaceSeen ==
    \A c \in Command : \A i \in DOMAIN BindingsOf[c] :
        Replaceable(seen[c][i], BindingsOf[c][i].by)

\* What was moved out of a target was a binding as it stood in one.
IsMarked(content) == content.is = "binding" => content.marked

MovedIsMarked == \A c \in Command : \A i \in DOMAIN BindingsOf[c] : IsMarked(former[c][i])

\* Before its commits a command has moved nothing.
NothingMovedYet ==
    \A c \in Command :
        pc[c] \in {"checking", "building", "staging", "generating"} => moved[c] = {}

IInv ==
    /\ TypeOK
    /\ Staged
    /\ Moved
    /\ MovedIsMarked
    /\ InPlaceIsMarked
    /\ NothingMovedYet
    /\ LeftIsStuck
    /\ Secured
    /\ MayReplaceSeen

-----------------------------------------------------------------------------
(* What the steps are about.                                               *)

\* A command's bindings are numbered from one, and there is one.
LEMMA AskedFor ==
    ASSUME NEW c \in Command
    PROVE  /\ Len(BindingsOf[c]) \in Nat /\ Len(BindingsOf[c]) >= 1
           /\ DOMAIN BindingsOf[c] = 1..Len(BindingsOf[c])
           /\ \A i \in DOMAIN BindingsOf[c] : /\ BindingsOf[c][i].by \in Generator
                                              /\ BindingsOf[c][i].into \in Target
  <1>1. BindingsOf[c] \in Seq([by : Generator, into : Target]) /\ BindingsOf[c] # <<>>
    BY BindingsAssumption
  <1>2. /\ Len(BindingsOf[c]) \in Nat /\ DOMAIN BindingsOf[c] = 1..Len(BindingsOf[c])
        /\ Len(BindingsOf[c]) # 0
    BY <1>1, EmptySeq, LenProperties
  <1>3. \A i \in 1..Len(BindingsOf[c]) : BindingsOf[c][i] \in [by : Generator, into : Target]
    BY <1>1, ElementOfSeq
  <1> QED BY <1>2, <1>3

\* What stands in a directory is told apart by what it is.
LEMMA ContentIs ==
    /\ Absent # Empty /\ Absent # User
    /\ Absent.is # "binding" /\ Empty.is # "binding" /\ User.is # "binding"
    /\ Absent \in Content /\ Empty \in Content /\ User \in Content
    /\ \A g, c, marked : /\ Written(g, c, marked).is = "binding"
                         /\ Written(g, c, marked).marked = marked
                         /\ Written(g, c, marked) # Absent
    /\ \A g \in Generator, c \in Command \cup {None}, marked \in BOOLEAN :
            Written(g, c, marked) \in Content
  <1>1. Absent.is = "absent" /\ Empty.is = "empty" /\ User.is = "user"
    BY DEF Absent, Empty, User
  <1>2. \A g, c, marked : /\ Written(g, c, marked).is = "binding"
                          /\ Written(g, c, marked).marked = marked
    BY DEF Written
  <1>3. \A g \in Generator, c \in Command \cup {None}, marked \in BOOLEAN :
            Written(g, c, marked) \in Content
    BY DEF Content
  <1>4. Absent \in Content /\ Empty \in Content /\ User \in Content
    BY DEF Content
  <1>5. Absent # Empty /\ Absent # User /\ \A g, c, marked : Written(g, c, marked) # Absent
    BY <1>1, <1>2
  <1> QED BY <1>1, <1>2, <1>3, <1>4, <1>5

\* A command is at a binding it asks for, and after it at one again.
LEMMA AtOne ==
    ASSUME TypeOK, NEW c \in Command
    PROVE  /\ at[c] \in DOMAIN BindingsOf[c] /\ By(c) \in Generator /\ Into(c) \in Target
           /\ 1 \in DOMAIN BindingsOf[c]
           /\ at[c] < Len(BindingsOf[c]) => at[c] + 1 \in DOMAIN BindingsOf[c]
  BY AskedFor DEF TypeOK, By, Into

\* Where a command goes on to.
LEMMA GoesOnward ==
    ASSUME TypeOK, NEW c \in Command, NEW from, NEW again \in Phase, NEW next \in Phase,
           Onward(c, from, again, next)
    PROVE  /\ pc[c] = from
           /\ pc' \in [Command -> Phase]
           /\ at' \in [Command -> Nat]
           /\ \A d \in Command : at'[d] \in DOMAIN BindingsOf[d]
           /\ \A d \in Command : d # c => pc'[d] = pc[d] /\ at'[d] = at[d]
           /\ \/ pc'[c] = again /\ at[c] < Len(BindingsOf[c]) /\ at'[c] = at[c] + 1
              \/ pc'[c] = next /\ at[c] = Len(BindingsOf[c]) /\ at'[c] = 1
  <1>1. /\ Len(BindingsOf[c]) \in Nat /\ at[c] \in 1..Len(BindingsOf[c])
        /\ DOMAIN BindingsOf[c] = 1..Len(BindingsOf[c])
    BY AskedFor DEF TypeOK
  <1>2. CASE at[c] < Len(BindingsOf[c])
    <2>1. at[c] + 1 \in DOMAIN BindingsOf[c]
      BY <1>1, <1>2
    <2>2. Goes(c, from, again) /\ at' = [at EXCEPT ![c] = @ + 1]
      BY <1>2 DEF Onward
    <2> QED BY <1>2, <2>1, <2>2 DEF Goes, TypeOK
  <1>3. CASE ~(at[c] < Len(BindingsOf[c]))
    <2>1. 1 \in DOMAIN BindingsOf[c] /\ at[c] = Len(BindingsOf[c])
      BY <1>1, <1>3
    <2>2. Goes(c, from, next) /\ at' = [at EXCEPT ![c] = 1]
      BY <1>3 DEF Onward
    <2> QED BY <2>1, <2>2 DEF Goes, TypeOK
  <1> QED BY <1>2, <1>3

\* What a step writes beside the target its command is at.
LEMMA StagingIs ==
    ASSUME TypeOK, NEW c \in Command, NEW x \in Content,
           staging' = [staging EXCEPT ![c][at[c]] = x]
    PROVE  /\ BesideOk(staging')
           /\ staging'[c][at[c]] = x
           /\ \A j \in DOMAIN BindingsOf[c] : j # at[c] => staging'[c][j] = staging[c][j]
           /\ \A d \in Command : d # c => staging'[d] = staging[d]
  <1>1. \A d \in Command : staging[d] \in Beside(d)
    BY DEF TypeOK, BesideOk
  <1>2. [staging[c] EXCEPT ![at[c]] = x] \in Beside(c)
    BY <1>1, AtOne DEF Beside
  <1>3. \A d \in Command : staging'[d] \in Beside(d)
    BY <1>1, <1>2 DEF TypeOK, BesideOk
  <1>4. staging' \in [Command -> UNION {Beside(d) : d \in Command}]
    BY <1>1, <1>2 DEF TypeOK, BesideOk
  <1>5. staging'[c] = [staging[c] EXCEPT ![at[c]] = x]
    BY DEF TypeOK, BesideOk
  <1>6. /\ staging'[c][at[c]] = x
        /\ \A j \in DOMAIN BindingsOf[c] : j # at[c] => staging'[c][j] = staging[c][j]
    BY <1>1, <1>5, AtOne DEF Beside
  <1>7. \A d \in Command : d # c => staging'[d] = staging[d]
    BY DEF TypeOK, BesideOk
  <1> QED BY <1>3, <1>4, <1>6, <1>7 DEF BesideOk

\* What a step moves beside the target its command is at.
LEMMA FormerIs ==
    ASSUME TypeOK, NEW c \in Command, NEW x \in Content,
           former' = [former EXCEPT ![c][at[c]] = x]
    PROVE  /\ BesideOk(former')
           /\ former'[c][at[c]] = x
           /\ \A j \in DOMAIN BindingsOf[c] : j # at[c] => former'[c][j] = former[c][j]
           /\ \A d \in Command : d # c => former'[d] = former[d]
  <1>1. \A d \in Command : former[d] \in Beside(d)
    BY DEF TypeOK, BesideOk
  <1>2. [former[c] EXCEPT ![at[c]] = x] \in Beside(c)
    BY <1>1, AtOne DEF Beside
  <1>3. \A d \in Command : former'[d] \in Beside(d)
    BY <1>1, <1>2 DEF TypeOK, BesideOk
  <1>4. former' \in [Command -> UNION {Beside(d) : d \in Command}]
    BY <1>1, <1>2 DEF TypeOK, BesideOk
  <1>5. former'[c] = [former[c] EXCEPT ![at[c]] = x]
    BY DEF TypeOK, BesideOk
  <1>6. /\ former'[c][at[c]] = x
        /\ \A j \in DOMAIN BindingsOf[c] : j # at[c] => former'[c][j] = former[c][j]
    BY <1>1, <1>5, AtOne DEF Beside
  <1>7. \A d \in Command : d # c => former'[d] = former[d]
    BY DEF TypeOK, BesideOk
  <1> QED BY <1>3, <1>4, <1>6, <1>7 DEF BesideOk

\* What a command has seen once it has asked again.
LEMMA SeenIs ==
    ASSUME TypeOK, NEW c \in Command, NEW x \in Content,
           seen' = [seen EXCEPT ![c][at[c]] = x]
    PROVE  /\ BesideOk(seen')
           /\ seen'[c][at[c]] = x
           /\ \A j \in DOMAIN BindingsOf[c] : j # at[c] => seen'[c][j] = seen[c][j]
           /\ \A d \in Command : d # c => seen'[d] = seen[d]
  <1>1. \A d \in Command : seen[d] \in Beside(d)
    BY DEF TypeOK, BesideOk
  <1>2. [seen[c] EXCEPT ![at[c]] = x] \in Beside(c)
    BY <1>1, AtOne DEF Beside
  <1>3. \A d \in Command : seen'[d] \in Beside(d)
    BY <1>1, <1>2 DEF TypeOK, BesideOk
  <1>4. seen' \in [Command -> UNION {Beside(d) : d \in Command}]
    BY <1>1, <1>2 DEF TypeOK, BesideOk
  <1>5. seen'[c] = [seen[c] EXCEPT ![at[c]] = x]
    BY DEF TypeOK, BesideOk
  <1>6. /\ seen'[c][at[c]] = x
        /\ \A j \in DOMAIN BindingsOf[c] : j # at[c] => seen'[c][j] = seen[c][j]
    BY <1>1, <1>5, AtOne DEF Beside
  <1>7. \A d \in Command : d # c => seen'[d] = seen[d]
    BY DEF TypeOK, BesideOk
  <1> QED BY <1>3, <1>4, <1>6, <1>7 DEF BesideOk

\* What a command has beside the target it is at.
LEMMA BesideHere ==
    ASSUME TypeOK, NEW c \in Command
    PROVE  staging[c][at[c]] \in Content /\ former[c][at[c]] \in Content
  BY AtOne DEF TypeOK, BesideOk, Beside

\* What a step that places a binding does.
LEMMA PlacedIs ==
    ASSUME TypeOK, NEW c \in Command, Placed(c)
    PROVE  /\ target' \in [Target -> Content]
           /\ \A t \in Target : target'[t] = IF t = Into(c) THEN staging[c][at[c]] ELSE target[t]
           /\ BesideOk(staging')
           /\ staging'[c][at[c]] = Absent
           /\ \A j \in DOMAIN BindingsOf[c] : j # at[c] => staging'[c][j] = staging[c][j]
           /\ \A d \in Command : d # c => staging'[d] = staging[d]
           /\ moved' \in [Command -> SUBSET Target]
           /\ \A d \in Command : d # c => moved'[d] = moved[d]
  <1>1. staging' = [staging EXCEPT ![c][at[c]] = Absent] /\ Absent \in Content
    BY ContentIs DEF Placed
  <1>2. /\ BesideOk(staging')
        /\ staging'[c][at[c]] = Absent
        /\ \A j \in DOMAIN BindingsOf[c] : j # at[c] => staging'[c][j] = staging[c][j]
        /\ \A d \in Command : d # c => staging'[d] = staging[d]
    BY <1>1, StagingIs
  <1>3. Into(c) \in Target /\ staging[c][at[c]] \in Content
    BY AtOne, BesideHere
  <1>4. /\ target' \in [Target -> Content]
        /\ \A t \in Target : target'[t] = IF t = Into(c) THEN staging[c][at[c]] ELSE target[t]
    BY <1>3 DEF Placed, TypeOK
  <1>5. /\ moved' \in [Command -> SUBSET Target]
        /\ \A d \in Command : d # c => moved'[d] = moved[d]
    BY <1>3 DEF Placed, TypeOK
  <1> QED BY <1>2, <1>4, <1>5

\* What letting go does to what a command has written.
LEMMA LetGoIs ==
    ASSUME TypeOK, NEW c \in Command, NEW left \in SUBSET DOMAIN BindingsOf[c], LetGo(c, left)
    PROVE  /\ BesideOk(staging')
           /\ \A j \in DOMAIN BindingsOf[c] :
                    staging'[c][j] = IF j \in left THEN staging[c][j] ELSE Absent
           /\ \A d \in Command : d # c => staging'[d] = staging[d]
           /\ stuck' \in [Command -> SUBSET Nat]
           /\ stuck'[c] = stuck[c] \cup left
           /\ \A d \in Command : d # c => stuck'[d] = stuck[d]
  <1> DEFINE beside == [i \in DOMAIN BindingsOf[c] |-> IF i \in left THEN staging[c][i] ELSE Absent]
  <1>1. staging[c] \in Beside(c) /\ \A d \in Command : staging[d] \in Beside(d)
    BY DEF TypeOK, BesideOk
  <1>2. DOMAIN staging[c] = DOMAIN BindingsOf[c]
    BY <1>1 DEF Beside
  <1>3. staging' = [staging EXCEPT ![c] = beside]
    BY <1>2 DEF LetGo
  <1>4. beside \in Beside(c)
    BY <1>1, ContentIs DEF Beside
  <1>5. \A j \in DOMAIN BindingsOf[c] :
            beside[j] = IF j \in left THEN staging[c][j] ELSE Absent
    OBVIOUS
  <1>6. /\ staging'[c] = beside
        /\ \A d \in Command : d # c => staging'[d] = staging[d]
        /\ staging' \in [Command -> UNION {Beside(d) : d \in Command}]
    <2> HIDE DEF beside
    <2> QED BY <1>3, <1>4 DEF TypeOK, BesideOk
  <1>7. BesideOk(staging')
    <2> HIDE DEF beside
    <2> QED BY <1>1, <1>4, <1>6 DEF BesideOk
  <1>8. left \subseteq Nat
    BY AskedFor
  <1>9. /\ stuck' \in [Command -> SUBSET Nat]
        /\ stuck'[c] = stuck[c] \cup left
        /\ \A d \in Command : d # c => stuck'[d] = stuck[d]
    BY <1>8 DEF LetGo, TypeOK
  <1> QED BY <1>5, <1>6, <1>7, <1>9

-----------------------------------------------------------------------------
(* The steps.                                                              *)

\* Each step keeps the types.
LEMMA TypeStep ==
    ASSUME TypeOK, Staged, [Next]_vars
    PROVE  TypeOK'
  <1>1. ASSUME NEW c \in Command, Check(c)
        PROVE  TypeOK'
    <2>1. "checking" \in Phase /\ "building" \in Phase
      BY DEF Phase
    <2> QED BY <1>1, <2>1, GoesOnward DEF Check, TypeOK
  <1>2. ASSUME NEW c \in Command, Refused(c)
        PROVE  TypeOK'
    BY <1>2 DEF Refused, Goes, TypeOK, Phase
  <1>3. ASSUME NEW c \in Command, Build(c)
        PROVE  TypeOK'
    BY <1>3 DEF Build, Goes, TypeOK, Phase
  <1>4. ASSUME NEW c \in Command, NotBuilt(c)
        PROVE  TypeOK'
    BY <1>4 DEF NotBuilt, Goes, TypeOK, Phase
  <1>5. ASSUME NEW c \in Command, Stage(c)
        PROVE  TypeOK'
    <2>1. BesideOk(staging')
      BY <1>5, AtOne, ContentIs, StagingIs DEF Stage, TypeOK
    <2>2. BesideOk(seen')
      <3>1. target[Into(c)] \in Content
        BY AtOne DEF TypeOK
      <3> QED BY <1>5, <3>1, SeenIs DEF Stage
    <2> QED BY <1>5, <2>1, <2>2 DEF Stage, Goes, TypeOK, Phase
  <1>6. ASSUME NEW c \in Command, NotStaged(c)
        PROVE  TypeOK'
    BY <1>6 DEF NotStaged, Goes, TypeOK, Phase
  <1>7. ASSUME NEW c \in Command, Generate(c)
        PROVE  TypeOK'
    <2>1. BesideOk(staging')
      BY <1>7, AtOne, ContentIs, StagingIs DEF Generate
    <2>2. Onward(c, "generating", "staging", "committing")
      BY <1>7 DEF Generate
    <2>3. "staging" \in Phase /\ "committing" \in Phase
      BY DEF Phase
    <2> QED BY <1>7, <2>1, <2>2, <2>3, GoesOnward DEF Generate, TypeOK
  <1>8. ASSUME NEW c \in Command, NotGenerated(c)
        PROVE  TypeOK'
    <2>1. BesideOk(staging')
      BY <1>8, AtOne, ContentIs, StagingIs DEF NotGenerated, TypeOK
    <2> QED BY <1>8, <2>1 DEF NotGenerated, Goes, TypeOK, Phase
  <1>9. ASSUME NEW c \in Command, Mark(c)
        PROVE  TypeOK'
    <2>1. BesideOk(staging')
      BY <1>9, AtOne, ContentIs, StagingIs DEF Mark, TypeOK
    <2> QED BY <1>9, <2>1 DEF Mark, Goes, TypeOK, Phase
  <1>10. ASSUME NEW c \in Command, Place(c)
        PROVE  TypeOK'
    <2>1. Placed(c) /\ Onward(c, "placing", "committing", "done")
      BY <1>10 DEF Place
    <2>2. "committing" \in Phase /\ "done" \in Phase
      BY DEF Phase
    <2> QED BY <1>10, <2>1, <2>2, PlacedIs, GoesOnward DEF Place, TypeOK
  <1>11. ASSUME NEW c \in Command, MoveAway(c)
        PROVE  TypeOK'
    <2>1. target[Into(c)] \in Content /\ Absent \in Content /\ Into(c) \in Target
      BY AtOne, ContentIs DEF TypeOK
    <2>2. BesideOk(former')
      BY <1>11, <2>1, FormerIs DEF MoveAway
    <2> QED BY <1>11, <2>1, <2>2 DEF MoveAway, Goes, TypeOK, Phase
  <1>12. ASSUME NEW c \in Command, Replace(c)
        PROVE  TypeOK'
    BY <1>12, PlacedIs DEF Replace, Goes, TypeOK, Phase
  <1>13. ASSUME NEW c \in Command, NEW back \in BOOLEAN, PutBack(c, back)
        PROVE  TypeOK'
    <2>1. former[c][at[c]] \in Content /\ Absent \in Content /\ Into(c) \in Target
      BY AtOne, ContentIs, BesideHere
    <2>2. BesideOk(former')
      BY <1>13, <2>1, FormerIs DEF PutBack, TypeOK
    <2>3. stuck' \in [Command -> SUBSET Nat]
      <3>1. stuck' = stuck \/ stuck' = [stuck EXCEPT ![c] = @ \cup {at[c]}]
        BY <1>13 DEF PutBack
      <3> QED BY <3>1 DEF TypeOK
    <2>4. target' \in [Target -> Content]
      <3>1. target' = target \/ target' = [target EXCEPT ![Into(c)] = former[c][at[c]]]
        BY <1>13 DEF PutBack
      <3> QED BY <2>1, <3>1 DEF TypeOK
    <2> QED BY <1>13, <2>2, <2>3, <2>4 DEF PutBack, Goes, TypeOK, Phase
  <1>14. ASSUME NEW c \in Command, RemoveFormer(c)
        PROVE  TypeOK'
    <2>1. BesideOk(former')
      BY <1>14, ContentIs, FormerIs DEF RemoveFormer
    <2>2. Onward(c, "removing", "committing", "done")
      BY <1>14 DEF RemoveFormer
    <2>3. "committing" \in Phase /\ "done" \in Phase
      BY DEF Phase
    <2> QED BY <1>14, <2>1, <2>2, <2>3, GoesOnward DEF RemoveFormer, TypeOK
  <1>15. ASSUME NEW c \in Command, CommitFails(c)
        PROVE  TypeOK'
    BY <1>15 DEF CommitFails, Goes, TypeOK, Phase
  <1>16. ASSUME NEW c \in Command, NEW left \in SUBSET DOMAIN BindingsOf[c], LetGo(c, left)
        PROVE  TypeOK'
    <2>1. BesideOk(staging') /\ stuck' \in [Command -> SUBSET Nat]
      BY <1>16, LetGoIs
    <2> QED BY <1>16, <2>1 DEF LetGo, Goes, TypeOK, Phase
  <1>17. ASSUME NEW c \in Command, Crash(c)
        PROVE  TypeOK'
    BY <1>17 DEF Crash, Over, TypeOK, Phase
  <1>18. ASSUME NEW t \in Target, UserWrites(t)
        PROVE  TypeOK'
    BY <1>18, ContentIs DEF UserWrites, TypeOK
  <1>19. CASE UNCHANGED vars
    BY <1>19 DEF vars, TypeOK, Phase
  <1>20. ASSUME NEW c \in Command, NotRemoved(c)
        PROVE  TypeOK'
    BY <1>20 DEF NotRemoved, Goes, TypeOK, Phase
  <1> QED BY <1>1, <1>2, <1>3, <1>4, <1>5, <1>6, <1>7, <1>8, <1>9, <1>10, <1>11, <1>12, <1>13, <1>14, <1>15, <1>16, <1>17, <1>18, <1>19, <1>20 DEF Next, Ended

\* What a command has beside its targets is touched by none of the others.
Others(c) ==
    \A d \in Command : d # c =>
        pc'[d] = pc[d] /\ at'[d] = at[d] /\ staging'[d] = staging[d] /\ former'[d] = former[d]

LEMMA OthersStay ==
    ASSUME NEW c \in Command, Others(c)
    PROVE  /\ Staged /\ StagedFor(c)' => Staged'
           /\ Moved /\ MovedFor(c)' => Moved'
  <1>1. ASSUME NEW d \in Command, d # c
        PROVE  (StagedFor(d) => StagedFor(d)') /\ (MovedFor(d) => MovedFor(d)')
    <2>1. pc'[d] = pc[d] /\ at'[d] = at[d] /\ staging'[d] = staging[d] /\ former'[d] = former[d]
      BY <1>1 DEF Others
    <2>2. StagedFor(d) => StagedFor(d)'
      BY <2>1 DEF StagedFor
    <2>3. MovedFor(d) => MovedFor(d)'
      BY <2>1 DEF MovedFor
    <2> QED BY <2>2, <2>3
  <1> QED BY <1>1 DEF Staged, Moved

\* Each step of a command leaves what the others have alone, and what it has
\* itself is what it has then come to.
LEMMA CommandStep ==
    ASSUME TypeOK, Staged, Moved, NEW c \in Command
    PROVE  (\/ Check(c) \/ Refused(c) \/ Build(c) \/ NotBuilt(c)
              \/ Stage(c) \/ NotStaged(c) \/ Generate(c) \/ NotGenerated(c)
              \/ Mark(c) \/ Place(c) \/ MoveAway(c) \/ Replace(c)
              \/ \E back \in BOOLEAN : PutBack(c, back)
              \/ RemoveFormer(c) \/ NotRemoved(c) \/ CommitFails(c)
              \/ \E left \in SUBSET DOMAIN BindingsOf[c] : LetGo(c, left)
              \/ Crash(c))
           => Others(c) /\ StagedFor(c)' /\ MovedFor(c)'
  <1>0. /\ \A i \in DOMAIN BindingsOf[c] : i \in Nat /\ i >= 1 /\ i <= Len(BindingsOf[c])
        /\ at[c] \in DOMAIN BindingsOf[c] /\ Len(BindingsOf[c]) \in Nat
        /\ StagedFor(c) /\ MovedFor(c)
    BY AskedFor DEF TypeOK, Staged, Moved
  <1>1. ASSUME Check(c)
        PROVE  Others(c) /\ StagedFor(c)' /\ MovedFor(c)'
    <2>1. "checking" \in Phase /\ "building" \in Phase
      BY DEF Phase
    <2>2. Onward(c, "checking", "checking", "building")
      BY <1>1 DEF Check
    <2>3. /\ pc[c] = "checking"
          /\ \/ pc'[c] = "checking" /\ at[c] < Len(BindingsOf[c]) /\ at'[c] = at[c] + 1
             \/ pc'[c] = "building" /\ at[c] = Len(BindingsOf[c]) /\ at'[c] = 1
          /\ \A d \in Command : d # c => pc'[d] = pc[d] /\ at'[d] = at[d]
      BY <2>1, <2>2, GoesOnward
    <2>4. Others(c)
      BY <1>1, <2>3 DEF Check, Others
    <2>5. StagedFor(c)'
      BY <1>0, <1>1, <2>3 DEF Check, StagedFor, StagedAs
    <2>6. MovedFor(c)'
      BY <1>0, <1>1, <2>3 DEF Check, MovedFor, MovedAs
    <2> QED BY <2>4, <2>5, <2>6
  <1>2. ASSUME Refused(c)
        PROVE  Others(c) /\ StagedFor(c)' /\ MovedFor(c)'
    <2>1. Others(c)
      BY <1>2 DEF Refused, Goes, Others, TypeOK
    <2>2. StagedFor(c)'
      BY <1>0, <1>2 DEF Refused, Goes, StagedFor, StagedAs, TypeOK
    <2>3. MovedFor(c)'
      BY <1>0, <1>2 DEF Refused, Goes, MovedFor, MovedAs, TypeOK
    <2> QED BY <2>1, <2>2, <2>3
  <1>3. ASSUME Build(c)
        PROVE  Others(c) /\ StagedFor(c)' /\ MovedFor(c)'
    <2>1. Others(c)
      BY <1>3 DEF Build, Goes, Others, TypeOK
    <2>2. StagedFor(c)'
      BY <1>0, <1>3 DEF Build, Goes, StagedFor, StagedAs, TypeOK
    <2>3. MovedFor(c)'
      BY <1>0, <1>3 DEF Build, Goes, MovedFor, MovedAs, TypeOK
    <2> QED BY <2>1, <2>2, <2>3
  <1>4. ASSUME NotBuilt(c)
        PROVE  Others(c) /\ StagedFor(c)' /\ MovedFor(c)'
    <2>1. Others(c)
      BY <1>4 DEF NotBuilt, Goes, Others, TypeOK
    <2>2. StagedFor(c)'
      BY <1>0, <1>4 DEF NotBuilt, Goes, StagedFor, StagedAs, TypeOK
    <2>3. MovedFor(c)'
      BY <1>0, <1>4 DEF NotBuilt, Goes, MovedFor, MovedAs, TypeOK
    <2> QED BY <2>1, <2>2, <2>3
  <1>5. ASSUME Stage(c)
        PROVE  Others(c) /\ StagedFor(c)' /\ MovedFor(c)'
    <2>1. /\ \A j \in DOMAIN BindingsOf[c] : j # at[c] => staging'[c][j] = staging[c][j]
          /\ \A d \in Command : d # c => staging'[d] = staging[d]
      BY <1>5, ContentIs, StagingIs DEF Stage
    <2>2. Others(c)
      BY <1>5, <2>1 DEF Stage, Goes, Others, TypeOK
    <2>3. StagedFor(c)'
      BY <1>0, <1>5, <2>1 DEF Stage, Goes, StagedFor, StagedAs, TypeOK
    <2>4. MovedFor(c)'
      BY <1>0, <1>5 DEF Stage, Goes, MovedFor, MovedAs, TypeOK
    <2> QED BY <2>2, <2>3, <2>4
  <1>6. ASSUME NotStaged(c)
        PROVE  Others(c) /\ StagedFor(c)' /\ MovedFor(c)'
    <2>1. Others(c)
      BY <1>6 DEF NotStaged, Goes, Others, TypeOK
    <2>2. StagedFor(c)'
      BY <1>0, <1>6 DEF NotStaged, Goes, StagedFor, StagedAs, TypeOK
    <2>3. MovedFor(c)'
      BY <1>0, <1>6 DEF NotStaged, Goes, MovedFor, MovedAs, TypeOK
    <2> QED BY <2>1, <2>2, <2>3
  <1>7. ASSUME Generate(c)
        PROVE  Others(c) /\ StagedFor(c)' /\ MovedFor(c)'
    <2>1. "staging" \in Phase /\ "committing" \in Phase
      BY DEF Phase
    <2>2. Onward(c, "generating", "staging", "committing")
      BY <1>7 DEF Generate
    <2>3. /\ pc[c] = "generating"
          /\ \/ pc'[c] = "staging" /\ at[c] < Len(BindingsOf[c]) /\ at'[c] = at[c] + 1
             \/ pc'[c] = "committing" /\ at[c] = Len(BindingsOf[c]) /\ at'[c] = 1
          /\ \A d \in Command : d # c => pc'[d] = pc[d] /\ at'[d] = at[d]
      BY <2>1, <2>2, GoesOnward
    <2>4. Plain(c, at[c]) = Written(By(c), c, FALSE)
      BY DEF Plain, Marked, By
    <2>5. /\ staging'[c][at[c]] = Plain(c, at[c])
          /\ \A j \in DOMAIN BindingsOf[c] : j # at[c] => staging'[c][j] = staging[c][j]
          /\ \A d \in Command : d # c => staging'[d] = staging[d]
      BY <1>7, <2>4, AtOne, ContentIs, StagingIs DEF Generate
    <2>6. Others(c)
      BY <1>7, <2>3, <2>5 DEF Generate, Others
    <2>7. StagedFor(c)'
      BY <1>0, <2>3, <2>5, SMTT(60) DEF StagedFor, StagedAs
    <2>8. MovedFor(c)'
      BY <1>0, <1>7, <2>3, <2>5 DEF Generate, MovedFor, MovedAs
    <2> QED BY <2>6, <2>7, <2>8
  <1>8. ASSUME NotGenerated(c)
        PROVE  Others(c) /\ StagedFor(c)' /\ MovedFor(c)'
    <2>1. Plain(c, at[c]) = Written(By(c), c, FALSE)
      BY DEF Plain, Marked, By
    <2>2. /\ staging'[c][at[c]] = Plain(c, at[c])
          /\ \A j \in DOMAIN BindingsOf[c] : j # at[c] => staging'[c][j] = staging[c][j]
          /\ \A d \in Command : d # c => staging'[d] = staging[d]
      BY <1>8, <2>1, AtOne, ContentIs, StagingIs DEF NotGenerated
    <2>3. Others(c)
      BY <1>8, <2>2 DEF NotGenerated, Goes, Others, TypeOK
    <2>4. StagedFor(c)'
      BY <1>0, <1>8, <2>2 DEF NotGenerated, Goes, StagedFor, StagedAs, TypeOK
    <2>5. MovedFor(c)'
      BY <1>0, <1>8 DEF NotGenerated, Goes, MovedFor, MovedAs, TypeOK
    <2> QED BY <2>3, <2>4, <2>5
  <1>9. ASSUME Mark(c)
        PROVE  Others(c) /\ StagedFor(c)' /\ MovedFor(c)'
    <2>1. Marked(c, at[c]) = Written(By(c), c, TRUE)
      BY DEF Plain, Marked, By
    <2>2. /\ staging'[c][at[c]] = Marked(c, at[c])
          /\ \A j \in DOMAIN BindingsOf[c] : j # at[c] => staging'[c][j] = staging[c][j]
          /\ \A d \in Command : d # c => staging'[d] = staging[d]
      BY <1>9, <2>1, AtOne, ContentIs, StagingIs DEF Mark
    <2>3. Others(c)
      BY <1>9, <2>2 DEF Mark, Goes, Others, TypeOK
    <2>4. StagedFor(c)'
      <3>1. pc[c] = "committing" /\ pc'[c] \in {"placing", "moving"} /\ at'[c] = at[c]
        BY <1>9 DEF Mark, Goes, TypeOK
      <3> QED BY <1>0, <2>2, <3>1, SMTT(30) DEF StagedFor, StagedAs
    <2>5. MovedFor(c)'
      BY <1>0, <1>9 DEF Mark, Goes, MovedFor, MovedAs, TypeOK
    <2> QED BY <2>3, <2>4, <2>5
  <1>10. ASSUME Place(c)
        PROVE  Others(c) /\ StagedFor(c)' /\ MovedFor(c)'
    <2>1. "committing" \in Phase /\ "done" \in Phase
      BY DEF Phase
    <2>2. Onward(c, "placing", "committing", "done")
      BY <1>10 DEF Place
    <2>3. /\ pc[c] = "placing"
          /\ \/ pc'[c] = "committing" /\ at[c] < Len(BindingsOf[c]) /\ at'[c] = at[c] + 1
             \/ pc'[c] = "done" /\ at[c] = Len(BindingsOf[c]) /\ at'[c] = 1
          /\ \A d \in Command : d # c => pc'[d] = pc[d] /\ at'[d] = at[d]
      BY <2>1, <2>2, GoesOnward
    <2>4. /\ staging'[c][at[c]] = Absent
          /\ \A j \in DOMAIN BindingsOf[c] : j # at[c] => staging'[c][j] = staging[c][j]
          /\ \A d \in Command : d # c => staging'[d] = staging[d]
      BY <1>10, PlacedIs DEF Place
    <2>5. Others(c)
      BY <1>10, <2>3, <2>4 DEF Place, Others
    <2>6. StagedFor(c)'
      BY <1>0, <1>10, <2>3, <2>4, SMTT(60) DEF Place, StagedFor, StagedAs
    <2>7. MovedFor(c)'
      BY <1>0, <1>10, <2>3, <2>4 DEF Place, MovedFor, MovedAs
    <2> QED BY <2>5, <2>6, <2>7
  <1>11. ASSUME MoveAway(c)
        PROVE  Others(c) /\ StagedFor(c)' /\ MovedFor(c)'
    <2>1. target[Into(c)] \in Content
      BY AtOne DEF TypeOK
    <2>2. /\ former'[c][at[c]] = target[Into(c)]
          /\ \A j \in DOMAIN BindingsOf[c] : j # at[c] => former'[c][j] = former[c][j]
          /\ \A d \in Command : d # c => former'[d] = former[d]
      BY <1>11, <2>1, FormerIs DEF MoveAway
    <2>3. Others(c)
      BY <1>11, <2>2 DEF MoveAway, Goes, Others, TypeOK
    <2>4. StagedFor(c)'
      BY <1>0, <1>11 DEF MoveAway, Goes, StagedFor, StagedAs, TypeOK
    <2>5. MovedFor(c)'
      BY <1>0, <1>11, <2>2 DEF MoveAway, Goes, MovedFor, MovedAs, TypeOK
    <2> QED BY <2>3, <2>4, <2>5
  <1>12. ASSUME Replace(c)
        PROVE  Others(c) /\ StagedFor(c)' /\ MovedFor(c)'
    <2>1. /\ staging'[c][at[c]] = Absent
          /\ \A j \in DOMAIN BindingsOf[c] : j # at[c] => staging'[c][j] = staging[c][j]
          /\ \A d \in Command : d # c => staging'[d] = staging[d]
      BY <1>12, PlacedIs DEF Replace
    <2>2. Others(c)
      BY <1>12, <2>1 DEF Replace, Goes, Others, TypeOK
    <2>3. StagedFor(c)'
      BY <1>0, <1>12, <2>1, ZenonT(60) DEF Replace, Goes, StagedFor, StagedAs, TypeOK
    <2>4. MovedFor(c)'
      BY <1>0, <1>12 DEF Replace, Goes, MovedFor, MovedAs, TypeOK
    <2> QED BY <2>2, <2>3, <2>4
  <1>13. ASSUME NEW back \in BOOLEAN, PutBack(c, back)
        PROVE  Others(c) /\ StagedFor(c)' /\ MovedFor(c)'
    <2>1. \A d \in Command : d # c => former'[d] = former[d]
      BY <1>13, ContentIs, FormerIs, ZenonT(60) DEF PutBack
    <2>2. Others(c)
      BY <1>13, <2>1 DEF PutBack, Goes, Others, TypeOK
    <2>3. StagedFor(c)' /\ MovedFor(c)'
      BY <1>13 DEF PutBack, Goes, StagedFor, StagedAs, MovedFor, MovedAs, TypeOK
    <2> QED BY <2>2, <2>3
  <1>14. ASSUME RemoveFormer(c)
        PROVE  Others(c) /\ StagedFor(c)' /\ MovedFor(c)'
    <2>1. "committing" \in Phase /\ "done" \in Phase
      BY DEF Phase
    <2>2. Onward(c, "removing", "committing", "done")
      BY <1>14 DEF RemoveFormer
    <2>3. /\ pc[c] = "removing"
          /\ \/ pc'[c] = "committing" /\ at[c] < Len(BindingsOf[c]) /\ at'[c] = at[c] + 1
             \/ pc'[c] = "done" /\ at[c] = Len(BindingsOf[c]) /\ at'[c] = 1
          /\ \A d \in Command : d # c => pc'[d] = pc[d] /\ at'[d] = at[d]
      BY <2>1, <2>2, GoesOnward
    <2>4. /\ former'[c][at[c]] = Absent
          /\ \A j \in DOMAIN BindingsOf[c] : j # at[c] => former'[c][j] = former[c][j]
          /\ \A d \in Command : d # c => former'[d] = former[d]
      BY <1>14, ContentIs, FormerIs DEF RemoveFormer
    <2>5. Others(c)
      BY <1>14, <2>3, <2>4 DEF RemoveFormer, Others
    <2>6. StagedFor(c)'
      BY <1>0, <1>14, <2>3, <2>4, SMTT(60) DEF RemoveFormer, StagedFor, StagedAs
    <2>7. MovedFor(c)'
      BY <1>0, <1>14, <2>3, <2>4 DEF RemoveFormer, MovedFor, MovedAs
    <2> QED BY <2>5, <2>6, <2>7
  <1>15. ASSUME CommitFails(c)
        PROVE  Others(c) /\ StagedFor(c)' /\ MovedFor(c)'
    <2>1. Others(c)
      BY <1>15 DEF CommitFails, Goes, Others, TypeOK
    <2>2. StagedFor(c)'
      BY <1>0, <1>15 DEF CommitFails, Goes, StagedFor, StagedAs, TypeOK
    <2>3. MovedFor(c)'
      BY <1>0, <1>15 DEF CommitFails, Goes, MovedFor, MovedAs, TypeOK
    <2> QED BY <2>1, <2>2, <2>3
  <1>16. ASSUME NEW left \in SUBSET DOMAIN BindingsOf[c], LetGo(c, left)
        PROVE  Others(c) /\ StagedFor(c)' /\ MovedFor(c)'
    <2>1. Others(c)
      BY <1>16, LetGoIs DEF LetGo, Goes, Others, TypeOK
    <2>2. StagedFor(c)'
      BY <1>0, <1>16, LetGoIs DEF LetGo, Goes, StagedFor, StagedAs, TypeOK
    <2>3. MovedFor(c)'
      BY <1>0, <1>16, LetGoIs DEF LetGo, Goes, MovedFor, MovedAs, TypeOK
    <2> QED BY <2>1, <2>2, <2>3
  <1>17. ASSUME Crash(c)
        PROVE  Others(c) /\ StagedFor(c)' /\ MovedFor(c)'
    <2>1. Others(c)
      BY <1>17 DEF Crash, Goes, Others, TypeOK
    <2>2. StagedFor(c)'
      BY <1>0, <1>17 DEF Crash, Goes, StagedFor, StagedAs, TypeOK
    <2>3. MovedFor(c)'
      BY <1>0, <1>17 DEF Crash, Goes, MovedFor, MovedAs, TypeOK
    <2> QED BY <2>1, <2>2, <2>3
  <1>18. ASSUME NotRemoved(c)
        PROVE  Others(c) /\ StagedFor(c)' /\ MovedFor(c)'
    <2>1. Others(c)
      BY <1>18 DEF NotRemoved, Goes, Others, TypeOK
    <2>2. StagedFor(c)'
      BY <1>0, <1>18 DEF NotRemoved, Goes, StagedFor, StagedAs, TypeOK
    <2>3. MovedFor(c)'
      BY <1>0, <1>18 DEF NotRemoved, Goes, MovedFor, MovedAs, TypeOK
    <2> QED BY <2>1, <2>2, <2>3
  <1> QED BY <1>1, <1>2, <1>3, <1>4, <1>5, <1>6, <1>7, <1>8, <1>9, <1>10, <1>11, <1>12, <1>13, <1>14, <1>15, <1>16, <1>17, <1>18

\* A step of a command, or of a user, is one of these, and the others stay.
LEMMA BesideStep ==
    ASSUME TypeOK, Staged, Moved, [Next]_vars
    PROVE  Staged' /\ Moved'
  <1>1. ASSUME NEW c \in Command, Others(c) /\ StagedFor(c)' /\ MovedFor(c)'
        PROVE  Staged' /\ Moved'
    BY <1>1, OthersStay
  <1>2. ASSUME NEW t \in Target, UserWrites(t)
        PROVE  Staged' /\ Moved'
    BY <1>2 DEF UserWrites, Staged, StagedFor, Moved, MovedFor
  <1>3. CASE UNCHANGED vars
    BY <1>3 DEF vars, Staged, StagedFor, Moved, MovedFor
  <1> QED BY <1>1, <1>2, <1>3, CommandStep DEF Next, Ended

\* What stands in a target, or was moved out of one, came there marked.
LEMMA MarkedStep ==
    ASSUME TypeOK, Staged, InPlaceIsMarked, MovedIsMarked, [Next]_vars
    PROVE  InPlaceIsMarked' /\ MovedIsMarked'
  <1>1. /\ IsMarked(Absent) /\ IsMarked(User)
        /\ \A c, i : IsMarked(Marked(c, i))
    BY ContentIs DEF IsMarked, Marked
  <1>2. \A t \in Target : IsMarked(target[t])
    BY DEF InPlaceIsMarked, IsMarked
  <1>3. SUFFICES /\ \A t \in Target : IsMarked(target'[t])
                 /\ \A c \in Command : \A i \in DOMAIN BindingsOf[c] : IsMarked(former'[c][i])
    BY DEF InPlaceIsMarked, MovedIsMarked, IsMarked
  <1>4. ASSUME NEW c \in Command, Placed(c), pc[c] \in {"placing", "replacing"}, UNCHANGED former
        PROVE  /\ \A t \in Target : IsMarked(target'[t])
               /\ \A d \in Command : \A i \in DOMAIN BindingsOf[d] : IsMarked(former'[d][i])
    <2>1. staging[c][at[c]] = Marked(c, at[c])
      BY <1>4, AtOne DEF Staged, StagedFor, StagedAs
    <2> QED BY <1>1, <1>2, <1>4, <2>1, PlacedIs DEF MovedIsMarked
  <1>5. ASSUME NEW c \in Command, MoveAway(c)
        PROVE  /\ \A t \in Target : IsMarked(target'[t])
               /\ \A d \in Command : \A i \in DOMAIN BindingsOf[d] : IsMarked(former'[d][i])
    <2>1. target[Into(c)] \in Content /\ Into(c) \in Target
      BY AtOne DEF TypeOK
    <2>2. /\ former'[c][at[c]] = target[Into(c)]
          /\ \A j \in DOMAIN BindingsOf[c] : j # at[c] => former'[c][j] = former[c][j]
          /\ \A d \in Command : d # c => former'[d] = former[d]
      BY <1>5, <2>1, FormerIs, ZenonT(60) DEF MoveAway
    <2>3. \A t \in Target : IsMarked(target'[t])
      BY <1>1, <1>2, <1>5 DEF MoveAway, TypeOK
    <2> QED BY <1>2, <2>1, <2>2, <2>3 DEF MovedIsMarked
  <1>6. ASSUME NEW c \in Command, NEW back \in BOOLEAN, PutBack(c, back)
        PROVE  /\ \A t \in Target : IsMarked(target'[t])
               /\ \A d \in Command : \A i \in DOMAIN BindingsOf[d] : IsMarked(former'[d][i])
    <2>1. CASE UNCHANGED <<target, former>>
      BY <1>2, <2>1 DEF MovedIsMarked
    <2>2. CASE /\ target' = [target EXCEPT ![Into(c)] = former[c][at[c]]]
               /\ former' = [former EXCEPT ![c][at[c]] = Absent]
      <3>1. IsMarked(former[c][at[c]])
        BY AtOne DEF MovedIsMarked
      <3>2. \A t \in Target : IsMarked(target'[t])
        BY <1>2, <2>2, <3>1 DEF TypeOK
      <3>3. /\ former'[c][at[c]] = Absent
            /\ \A j \in DOMAIN BindingsOf[c] : j # at[c] => former'[c][j] = former[c][j]
            /\ \A d \in Command : d # c => former'[d] = former[d]
        BY <2>2, ContentIs, FormerIs
      <3> QED BY <1>1, <3>2, <3>3 DEF MovedIsMarked
    <2> QED BY <1>6, <2>1, <2>2 DEF PutBack
  <1>7. ASSUME NEW c \in Command, RemoveFormer(c)
        PROVE  /\ \A t \in Target : IsMarked(target'[t])
               /\ \A d \in Command : \A i \in DOMAIN BindingsOf[d] : IsMarked(former'[d][i])
    <2>1. /\ former'[c][at[c]] = Absent
          /\ \A j \in DOMAIN BindingsOf[c] : j # at[c] => former'[c][j] = former[c][j]
          /\ \A d \in Command : d # c => former'[d] = former[d]
      BY <1>7, ContentIs, FormerIs DEF RemoveFormer
    <2> QED BY <1>1, <1>2, <1>7, <2>1 DEF RemoveFormer, MovedIsMarked
  <1>8. ASSUME NEW t \in Target, UserWrites(t)
        PROVE  /\ \A u \in Target : IsMarked(target'[u])
               /\ \A d \in Command : \A i \in DOMAIN BindingsOf[d] : IsMarked(former'[d][i])
    BY <1>1, <1>2, <1>8 DEF UserWrites, TypeOK, MovedIsMarked
  <1>9. CASE UNCHANGED <<target, former>>
    BY <1>2, <1>9 DEF MovedIsMarked
  <1>10. ASSUME NEW c \in Command, Place(c)
         PROVE  Placed(c) /\ pc[c] \in {"placing", "replacing"} /\ UNCHANGED former
    BY <1>10 DEF Place, Onward, Goes
  <1>11. ASSUME NEW c \in Command, Replace(c)
         PROVE  Placed(c) /\ pc[c] \in {"placing", "replacing"} /\ UNCHANGED former
    BY <1>11 DEF Replace, Goes
  <1>12. ASSUME NEW c \in Command,
                \/ Check(c) \/ Refused(c) \/ Build(c) \/ NotBuilt(c) \/ Stage(c) \/ NotStaged(c)
                \/ Generate(c) \/ NotGenerated(c) \/ Mark(c) \/ NotRemoved(c) \/ CommitFails(c)
                \/ (\E left \in SUBSET DOMAIN BindingsOf[c] : LetGo(c, left))
                \/ Crash(c)
         PROVE  UNCHANGED <<target, former>>
    BY <1>12 DEF Check, Refused, Build, NotBuilt, Stage, NotStaged, Generate, NotGenerated, Mark,
                 NotRemoved, CommitFails, LetGo, Crash
  <1>13. UNCHANGED vars => UNCHANGED <<target, former>>
    BY DEF vars
  <1> QED BY <1>4, <1>5, <1>6, <1>7, <1>8, <1>9, <1>10, <1>11, <1>12, <1>13 DEF Next, Ended

\* A command that has not come to its commits has moved nothing.
LEMMA NothingMovedStep ==
    ASSUME TypeOK, NothingMovedYet, [Next]_vars
    PROVE  NothingMovedYet'
  <1> USE DEF NothingMovedYet, TypeOK, Goes
  <1>1. ASSUME NEW c \in Command, Check(c)
        PROVE  NothingMovedYet'
    BY <1>1, Zenon DEF Check, Onward
  <1>2. ASSUME NEW c \in Command,
               Refused(c) \/ Build(c) \/ NotBuilt(c) \/ Stage(c) \/ NotStaged(c) \/ NotGenerated(c)
        PROVE  NothingMovedYet'
    BY <1>2 DEF Refused, Build, NotBuilt, Stage, NotStaged, NotGenerated
  <1>3. ASSUME NEW c \in Command, Generate(c)
        PROVE  NothingMovedYet'
    BY <1>3 DEF Generate, Onward
  <1>4. ASSUME NEW c \in Command,
               \/ Mark(c) \/ NotRemoved(c) \/ CommitFails(c) \/ Crash(c)
               \/ \E left \in SUBSET DOMAIN BindingsOf[c] : LetGo(c, left)
        PROVE  NothingMovedYet'
    BY <1>4, ZenonT(60) DEF Mark, NotRemoved, CommitFails, LetGo, Crash
  <1>5. ASSUME NEW c \in Command, Place(c)
        PROVE  NothingMovedYet'
    <2>1. \A d \in Command : d # c => moved'[d] = moved[d]
      BY <1>5, PlacedIs DEF Place
    <2>2. /\ pc'[c] \in {"committing", "done"}
          /\ \A d \in Command : d # c => pc'[d] = pc[d]
      BY <1>5 DEF Place, Onward
    <2> QED BY <2>1, <2>2
  <1>6. ASSUME NEW c \in Command, Replace(c)
        PROVE  NothingMovedYet'
    BY <1>6, PlacedIs DEF Replace
  <1>7. ASSUME NEW c \in Command, MoveAway(c)
        PROVE  NothingMovedYet'
    BY <1>7 DEF MoveAway
  <1>8. ASSUME NEW c \in Command, NEW back \in BOOLEAN, PutBack(c, back)
        PROVE  NothingMovedYet'
    BY <1>8 DEF PutBack
  <1>9. ASSUME NEW c \in Command, RemoveFormer(c)
        PROVE  NothingMovedYet'
    BY <1>9, ZenonT(60) DEF RemoveFormer, Onward
  <1>10. ASSUME NEW t \in Target, UserWrites(t)
         PROVE  NothingMovedYet'
    BY <1>10 DEF UserWrites
  <1>11. CASE UNCHANGED vars
    BY <1>11 DEF vars
  <1> QED BY <1>1, <1>2, <1>3, <1>4, <1>5, <1>6, <1>7, <1>8, <1>9, <1>10, <1>11 DEF Next, Ended

\* After a failure only what the disk kept is beside a target.
LEMMA StuckStep ==
    ASSUME TypeOK, Staged, Moved, LeftIsStuck, [Next]_vars
    PROVE  LeftIsStuck'
  <1>1. \A c \in Command : at[c] \in DOMAIN BindingsOf[c] /\ at[c] \in Nat
    BY DEF TypeOK
  <1>2. \A c \in Command : MovedFor(c) /\ StagedFor(c) /\ StuckFor(c)
    BY DEF Moved, Staged, LeftIsStuck
  <1>3. ASSUME NEW c \in Command, Others(c), StuckFor(c)', \A d \in Command : d # c => stuck'[d] = stuck[d]
        PROVE  LeftIsStuck'
    <2>1. ASSUME NEW d \in Command, d # c
          PROVE  StuckFor(d)'
      BY <1>2, <1>3, <2>1 DEF Others, StuckFor
    <2> QED BY <1>3, <2>1 DEF LeftIsStuck
  <1>4. ASSUME NEW c \in Command, pc'[c] \notin {"letting go", "refused"}
        PROVE  StuckFor(c)'
    BY <1>4 DEF StuckFor, StuckAs
  <1>5. ASSUME NEW c \in Command,
               Check(c) \/ Build(c) \/ Stage(c) \/ Generate(c) \/ Mark(c) \/ Place(c) \/ MoveAway(c)
                   \/ Replace(c) \/ RemoveFormer(c) \/ Crash(c)
        PROVE  pc'[c] \notin {"letting go", "refused"} /\ UNCHANGED stuck
    <2>1. /\ "checking" \in Phase /\ "building" \in Phase /\ "staging" \in Phase
          /\ "committing" \in Phase /\ "done" \in Phase
      BY DEF Phase
    <2>2. CASE Check(c) \/ Generate(c) \/ Place(c) \/ RemoveFormer(c)
      <3>1. \/ Onward(c, "checking", "checking", "building")
            \/ Onward(c, "generating", "staging", "committing")
            \/ Onward(c, "placing", "committing", "done")
            \/ Onward(c, "removing", "committing", "done")
        BY <2>2 DEF Check, Generate, Place, RemoveFormer
      <3>2. UNCHANGED stuck
        BY <2>2 DEF Check, Generate, Place, RemoveFormer
      <3>3. pc'[c] \in {"checking", "building", "staging", "committing", "done"}
        BY <3>1 DEF Onward, Goes, TypeOK
      <3> QED BY <3>2, <3>3
    <2>3. CASE Build(c) \/ Stage(c) \/ Mark(c) \/ MoveAway(c) \/ Replace(c) \/ Crash(c)
      BY <2>3 DEF Build, Stage, Mark, MoveAway, Replace, Crash, Goes, TypeOK
    <2> QED BY <1>5, <2>2, <2>3
  <1>6. ASSUME NEW c \in Command, Refused(c) \/ NotBuilt(c)
        PROVE  StuckFor(c)' /\ UNCHANGED stuck
    <2>1. /\ pc[c] \in {"checking", "building"}
          /\ UNCHANGED <<staging, former, stuck>>
      BY <1>6 DEF Refused, NotBuilt, Goes
    <2>2. \A i \in DOMAIN BindingsOf[c] : staging[c][i] = Absent /\ former[c][i] = Absent
      BY <1>2, <2>1 DEF MovedFor, MovedAs, StagedFor, StagedAs
    <2> QED BY <2>1, <2>2 DEF StuckFor, StuckAs
  <1>7. ASSUME NEW c \in Command, NotStaged(c) \/ NotGenerated(c) \/ CommitFails(c)
        PROVE  StuckFor(c)' /\ UNCHANGED stuck
    <2>1. /\ pc[c] \in {"staging", "generating", "committing", "placing", "moving"}
          /\ pc'[c] = "letting go"
          /\ UNCHANGED <<former, stuck>>
      BY <1>7 DEF NotStaged, NotGenerated, CommitFails, Goes, TypeOK
    <2>2. \A i \in DOMAIN BindingsOf[c] : former[c][i] = Absent
      BY <1>2, <2>1 DEF MovedFor, MovedAs
    <2> QED BY <2>1, <2>2 DEF StuckFor, StuckAs
  <1>8. ASSUME NEW c \in Command, NEW back \in BOOLEAN, PutBack(c, back)
        PROVE  StuckFor(c)' /\ \A d \in Command : d # c => stuck'[d] = stuck[d]
    <2>1. pc[c] = "replacing" /\ pc'[c] = "letting go"
      BY <1>8 DEF PutBack, Goes, TypeOK
    <2>2. \A i \in DOMAIN BindingsOf[c] : i # at[c] => former[c][i] = Absent
      BY <1>2, <2>1 DEF MovedFor, MovedAs
    <2>3. CASE former' = [former EXCEPT ![c][at[c]] = Absent] /\ UNCHANGED stuck
      <3>0. /\ former'[c][at[c]] = Absent
            /\ \A j \in DOMAIN BindingsOf[c] : j # at[c] => former'[c][j] = former[c][j]
        BY <2>3, ContentIs, FormerIs
      <3>1. \A i \in DOMAIN BindingsOf[c] : former'[c][i] = Absent
        BY <2>2, <3>0
      <3> QED BY <2>1, <2>3, <3>1 DEF StuckFor, StuckAs
    <2>4. CASE UNCHANGED former /\ stuck' = [stuck EXCEPT ![c] = @ \cup {at[c]}]
      <3>1. at[c] \in stuck'[c] /\ \A d \in Command : d # c => stuck'[d] = stuck[d]
        BY <2>4 DEF TypeOK
      <3> QED BY <2>1, <2>2, <2>4, <3>1 DEF StuckFor, StuckAs
    <2> QED BY <1>8, <2>3, <2>4 DEF PutBack
  <1>9. ASSUME NEW c \in Command, NotRemoved(c)
        PROVE  StuckFor(c)' /\ \A d \in Command : d # c => stuck'[d] = stuck[d]
    <2>1. pc[c] = "removing" /\ pc'[c] = "letting go" /\ UNCHANGED former
      BY <1>9 DEF NotRemoved, Goes, TypeOK
    <2>2. \A i \in DOMAIN BindingsOf[c] : i # at[c] => former[c][i] = Absent
      BY <1>2, <2>1 DEF MovedFor, MovedAs
    <2>3. at[c] \in stuck'[c] /\ \A d \in Command : d # c => stuck'[d] = stuck[d]
      BY <1>9 DEF NotRemoved, TypeOK
    <2> QED BY <2>1, <2>2, <2>3 DEF StuckFor, StuckAs
  <1>10. ASSUME NEW c \in Command, NEW left \in SUBSET DOMAIN BindingsOf[c], LetGo(c, left)
         PROVE  StuckFor(c)' /\ \A d \in Command : d # c => stuck'[d] = stuck[d]
    <2>1. pc[c] = "letting go" /\ pc'[c] = "refused" /\ UNCHANGED former
      BY <1>10 DEF LetGo, Goes, TypeOK
    <2>2. \A i \in DOMAIN BindingsOf[c] : former[c][i] # Absent => i \in stuck[c]
      BY <1>2, <2>1 DEF StuckFor, StuckAs
    <2>3. /\ \A j \in DOMAIN BindingsOf[c] :
                staging'[c][j] = IF j \in left THEN staging[c][j] ELSE Absent
          /\ stuck'[c] = stuck[c] \cup left
          /\ \A d \in Command : d # c => stuck'[d] = stuck[d]
      BY <1>10, LetGoIs
    <2>4. StuckFor(c)'
      BY <2>1, <2>2, <2>3 DEF StuckFor, StuckAs
    <2> QED BY <2>3, <2>4
  <1>11. ASSUME NEW t \in Target, UserWrites(t)
         PROVE  LeftIsStuck'
    BY <1>11 DEF UserWrites, LeftIsStuck, StuckFor
  <1>12. CASE UNCHANGED vars
    BY <1>12 DEF vars, LeftIsStuck, StuckFor
  <1>13. ASSUME NEW c \in Command,
                \/ Check(c) \/ Refused(c) \/ Build(c) \/ NotBuilt(c)
                \/ Stage(c) \/ NotStaged(c) \/ Generate(c) \/ NotGenerated(c)
                \/ Mark(c) \/ Place(c) \/ MoveAway(c) \/ Replace(c)
                \/ \E back \in BOOLEAN : PutBack(c, back)
                \/ RemoveFormer(c) \/ NotRemoved(c) \/ CommitFails(c)
                \/ \E left \in SUBSET DOMAIN BindingsOf[c] : LetGo(c, left)
                \/ Crash(c)
         PROVE  Others(c) /\ StuckFor(c)' /\ \A d \in Command : d # c => stuck'[d] = stuck[d]
    <2>1. Others(c)
      BY <1>13, CommandStep
    <2>2. StuckFor(c)' /\ \A d \in Command : d # c => stuck'[d] = stuck[d]
      BY <1>4, <1>5, <1>6, <1>7, <1>8, <1>9, <1>10, <1>13
    <2> QED BY <2>1, <2>2
  <1>14. CASE \E c \in Command :
                \/ Check(c) \/ Refused(c) \/ Build(c) \/ NotBuilt(c)
                \/ Stage(c) \/ NotStaged(c) \/ Generate(c) \/ NotGenerated(c)
                \/ Mark(c) \/ Place(c) \/ MoveAway(c) \/ Replace(c)
                \/ \E back \in BOOLEAN : PutBack(c, back)
                \/ RemoveFormer(c) \/ NotRemoved(c) \/ CommitFails(c)
                \/ \E left \in SUBSET DOMAIN BindingsOf[c] : LetGo(c, left)
                \/ Crash(c)
    BY <1>3, <1>13, <1>14
  <1> QED BY <1>11, <1>12, <1>14 DEF Next, Ended

\* A command stages only what it may replace, and has seen nothing else.
LEMMA SeenStep ==
    ASSUME TypeOK, MayReplaceSeen, [Next]_vars
    PROVE  MayReplaceSeen'
  <1>1. ASSUME NEW c \in Command, Stage(c)
        PROVE  MayReplaceSeen'
    <2>1. target[Into(c)] \in Content
      BY AtOne DEF TypeOK
    <2>2. /\ seen'[c][at[c]] = target[Into(c)]
          /\ \A j \in DOMAIN BindingsOf[c] : j # at[c] => seen'[c][j] = seen[c][j]
          /\ \A d \in Command : d # c => seen'[d] = seen[d]
      BY <1>1, <2>1, SeenIs DEF Stage
    <2>3. Replaceable(seen'[c][at[c]], BindingsOf[c][at[c]].by)
      BY <1>1, <2>2 DEF Stage, By
    <2> QED BY <2>2, <2>3 DEF MayReplaceSeen
  <1>2. CASE UNCHANGED seen
    BY <1>2 DEF MayReplaceSeen
  <1>3. ASSUME NEW c \in Command,
               \/ Check(c) \/ Refused(c) \/ Build(c) \/ NotBuilt(c)
               \/ NotStaged(c) \/ Generate(c) \/ NotGenerated(c)
               \/ Mark(c) \/ Place(c) \/ MoveAway(c) \/ Replace(c)
               \/ (\E back \in BOOLEAN : PutBack(c, back))
               \/ RemoveFormer(c) \/ NotRemoved(c) \/ CommitFails(c)
               \/ (\E left \in SUBSET DOMAIN BindingsOf[c] : LetGo(c, left))
               \/ Crash(c)
        PROVE  UNCHANGED seen
    BY <1>3 DEF Check, Refused, Build, NotBuilt, NotStaged, Generate, NotGenerated, Mark, Place,
                MoveAway, Replace, PutBack, RemoveFormer, NotRemoved, CommitFails, LetGo, Crash
  <1>4. \A t \in Target : UserWrites(t) => UNCHANGED seen
    BY DEF UserWrites
  <1> QED BY <1>1, <1>2, <1>3, <1>4 DEF Next, Ended, vars

-----------------------------------------------------------------------------
(* What leaves a target, and what goes from beside it.                     *)

\* A step that moves nothing into or out of a target and deletes no former.
Quiet ==
    /\ UNCHANGED <<target, former>>
    /\ \A d \in Command : pc'[d] = "removing" => pc[d] = "removing" /\ at'[d] = at[d]

\* Every step is quiet, or one of the five that are not.
LEMMA StepsThatMove ==
    ASSUME TypeOK, [Next]_vars
    PROVE  \/ Quiet
           \/ \E c \in Command : \/ Place(c) \/ Replace(c) \/ MoveAway(c) \/ RemoveFormer(c)
                                 \/ \E back \in BOOLEAN : PutBack(c, back)
           \/ \E t \in Target : UserWrites(t)
  <1>1. ASSUME NEW c \in Command, Check(c) \/ Generate(c)
        PROVE  Quiet
    <2>1. \/ Onward(c, "checking", "checking", "building")
          \/ Onward(c, "generating", "staging", "committing")
      BY <1>1 DEF Check, Generate
    <2>2. pc'[c] # "removing" /\ \A d \in Command : d # c => pc'[d] = pc[d] /\ at'[d] = at[d]
      BY <2>1 DEF Onward, Goes, TypeOK
    <2> QED BY <1>1, <2>2 DEF Check, Generate, Quiet
  <1>2. ASSUME NEW c \in Command,
               \/ Refused(c) \/ Build(c) \/ NotBuilt(c) \/ Stage(c) \/ NotStaged(c)
               \/ NotGenerated(c) \/ Mark(c) \/ NotRemoved(c) \/ CommitFails(c)
               \/ (\E left \in SUBSET DOMAIN BindingsOf[c] : LetGo(c, left))
               \/ Crash(c)
        PROVE  Quiet
    <2>1. UNCHANGED <<target, former, at>>
      BY <1>2 DEF Refused, Build, NotBuilt, Stage, NotStaged, NotGenerated, Mark, NotRemoved,
                  CommitFails, LetGo, Crash
    <2>2. pc'[c] # "removing" /\ \A d \in Command : d # c => pc'[d] = pc[d]
      BY <1>2 DEF Refused, Build, NotBuilt, Stage, NotStaged, NotGenerated, Mark, NotRemoved,
                  CommitFails, LetGo, Crash, Goes, TypeOK
    <2> QED BY <2>1, <2>2 DEF Quiet
  <1>3. CASE UNCHANGED vars
    BY <1>3 DEF vars, Quiet
  <1> QED BY <1>1, <1>2, <1>3 DEF Next, Ended

\* What stands at a target secure stays secure.
LEMMA StaysSecure ==
    ASSUME TypeOK, Staged, Moved, [Next]_vars, NEW t \in Target, Secure(t)
    PROVE  Secure(t)'
  <1>1. ASSUME NEW c \in Command, pc[c] \in {"placing", "moving", "replacing", "removing"},
               \A d \in Command : d # c =>
                    pc'[d] = pc[d] /\ at'[d] = at[d] /\ former'[d] = former[d],
               target'[t] = target[t], pc[c] # "removing" => t # Into(c)
        PROVE  Secure(t)'
    <2>1. CASE target[t] # Absent
      BY <1>1, <2>1 DEF Secure
    <2>2. CASE target[t] = Absent
      <3>0. PICK d \in Command : \E i \in DOMAIN BindingsOf[d] : Free(d, i, t)
        BY <2>2 DEF Secure
      <3>1. PICK i \in DOMAIN BindingsOf[d] : Free(d, i, t)
        BY <3>0
      <3>2. d # c
        <4> SUFFICES ASSUME d = c
                     PROVE  FALSE
          OBVIOUS
        <4>1. MovedAs(c, pc[c], at[c], former[c])
          BY DEF Moved, MovedFor
        <4>2. former[c][i] # Absent /\ i \in DOMAIN BindingsOf[c] /\ BindingsOf[c][i].into = t
          BY <3>1 DEF Free
        <4>3. i = at[c] /\ pc[c] \in {"replacing", "removing"}
          BY <1>1, <4>1, <4>2 DEF MovedAs
        <4> QED BY <1>1, <3>1, <4>2, <4>3 DEF Free, Into
      <3>3. Free(d, i, t)'
        BY <1>1, <3>1, <3>2 DEF Free
      <3> QED BY <3>3 DEF Secure
    <2> QED BY <2>1, <2>2
  <1>2. ASSUME NEW c \in Command, Place(c) \/ Replace(c)
        PROVE  Secure(t)'
    <2>1. Placed(c) /\ pc[c] \in {"placing", "replacing"} /\ UNCHANGED former
      BY <1>2 DEF Place, Replace, Onward, Goes
    <2>2. \A d \in Command : d # c => pc'[d] = pc[d] /\ at'[d] = at[d]
      <3>1. "committing" \in Phase /\ "done" \in Phase
        BY DEF Phase
      <3>2. CASE Place(c)
        BY <3>1, <3>2, GoesOnward DEF Place
      <3>3. CASE Replace(c)
        BY <3>3 DEF Replace, Goes, TypeOK
      <3> QED BY <1>2, <3>2, <3>3
    <2>3. staging[c][at[c]] # Absent
      <3>1. staging[c][at[c]] = Marked(c, at[c])
        BY <2>1, AtOne DEF Staged, StagedFor, StagedAs
      <3>2. \A d, i : Marked(d, i) # Absent
        BY ContentIs, ZenonT(60) DEF Marked
      <3> QED BY <3>1, <3>2
    <2>4. CASE t = Into(c)
      BY <2>1, <2>3, <2>4, PlacedIs DEF Secure
    <2>5. CASE t # Into(c)
      <3>1. target'[t] = target[t]
        BY <2>1, <2>5, PlacedIs
      <3> QED BY <1>1, <2>1, <2>2, <2>5, <3>1
    <2> QED BY <2>4, <2>5
  <1>3. ASSUME NEW c \in Command, MoveAway(c)
        PROVE  Secure(t)'
    <2>1. target[Into(c)] \in Content /\ Into(c) \in Target /\ at[c] \in DOMAIN BindingsOf[c]
      BY AtOne DEF TypeOK
    <2>2. /\ former'[c][at[c]] = target[Into(c)]
          /\ \A d \in Command : d # c => former'[d] = former[d]
      BY <1>3, <2>1, FormerIs, ZenonT(60) DEF MoveAway
    <2>3. /\ pc[c] = "moving" /\ pc'[c] = "replacing" /\ UNCHANGED at
          /\ \A d \in Command : d # c => pc'[d] = pc[d]
      BY <1>3 DEF MoveAway, Goes, TypeOK
    <2>4. CASE t = Into(c)
      <3>0. target[Into(c)] # Absent
        BY <1>3 DEF MoveAway
      <3>1. /\ BindingsOf[c][at[c]].into = t
            /\ former'[c][at[c]] # Absent
            /\ pc'[c] # "removing"
        BY <2>2, <2>3, <2>4, <3>0 DEF Into
      <3>2. \E i \in DOMAIN BindingsOf[c] : Free(c, i, t)'
        BY <2>1, <2>3, <3>1 DEF Free
      <3> QED BY <3>2 DEF Secure
    <2>5. CASE t # Into(c)
      <3>1. target'[t] = target[t]
        BY <1>3, <2>5 DEF MoveAway, TypeOK
      <3> QED BY <1>1, <2>2, <2>3, <2>5, <3>1
    <2> QED BY <2>4, <2>5
  <1>4. ASSUME NEW c \in Command, NEW back \in BOOLEAN, PutBack(c, back)
        PROVE  Secure(t)'
    <2>1. /\ pc[c] = "replacing" /\ pc'[c] = "letting go" /\ UNCHANGED at
          /\ \A d \in Command : d # c => pc'[d] = pc[d]
      BY <1>4 DEF PutBack, Goes, TypeOK
    <2>2. former[c][at[c]] # Absent /\ Into(c) \in Target /\ at[c] \in DOMAIN BindingsOf[c]
      BY <2>1, AtOne DEF Moved, MovedFor, MovedAs
    <2>3. CASE UNCHANGED <<target, former>>
      <3>1. \A d \in Command : \A i \in DOMAIN BindingsOf[d] : Free(d, i, t) => Free(d, i, t)'
        BY <2>1, <2>3 DEF Free
      <3> QED BY <2>3, <3>1 DEF Secure
    <2>4. CASE /\ target' = [target EXCEPT ![Into(c)] = former[c][at[c]]]
               /\ former' = [former EXCEPT ![c][at[c]] = Absent]
      <3>1. \A d \in Command : d # c => former'[d] = former[d]
        BY <2>4, ContentIs, FormerIs
      <3>2. CASE t = Into(c)
        BY <2>2, <2>4, <3>2 DEF Secure, TypeOK
      <3>3. CASE t # Into(c)
        <4>1. target'[t] = target[t]
          BY <2>4, <3>3 DEF TypeOK
        <4> QED BY <1>1, <2>1, <3>1, <3>3, <4>1
      <3> QED BY <3>2, <3>3
    <2> QED BY <1>4, <2>3, <2>4 DEF PutBack
  <1>5. ASSUME NEW c \in Command, RemoveFormer(c)
        PROVE  Secure(t)'
    <2>1. "committing" \in Phase /\ "done" \in Phase
      BY DEF Phase
    <2>2. pc[c] = "removing" /\ \A d \in Command : d # c => pc'[d] = pc[d] /\ at'[d] = at[d]
      BY <1>5, <2>1, GoesOnward DEF RemoveFormer
    <2>3. \A d \in Command : d # c => former'[d] = former[d]
      BY <1>5, ContentIs, FormerIs DEF RemoveFormer
    <2>4. target'[t] = target[t]
      BY <1>5 DEF RemoveFormer
    <2> QED BY <1>1, <2>2, <2>3, <2>4
  <1>6. ASSUME NEW u \in Target, UserWrites(u)
        PROVE  Secure(t)'
    <2>1. target[t] # Absent => target'[t] # Absent
      BY <1>6, ContentIs DEF UserWrites, TypeOK
    <2>2. \A d \in Command : \A i \in DOMAIN BindingsOf[d] : Free(d, i, t) => Free(d, i, t)'
      BY <1>6 DEF Free, UserWrites
    <2> QED BY <2>1, <2>2 DEF Secure
  <1>7. CASE Quiet
    <2>1. \A d \in Command : \A i \in DOMAIN BindingsOf[d] : Free(d, i, t) => Free(d, i, t)'
      BY <1>7 DEF Free, Quiet
    <2> QED BY <1>7, <2>1 DEF Secure, Quiet
  <1> QED BY <1>2, <1>3, <1>4, <1>5, <1>6, <1>7, StepsThatMove

\* What a step does to what was moved out of targets: one more of what stood in
\* its target, or one less, put back or deleted with the next in place.
LEMMA FormersMove ==
    ASSUME TypeOK, Staged, Moved, [Next]_vars,
           NEW c \in Command, NEW i \in DOMAIN BindingsOf[c], former'[c][i] # former[c][i]
    PROVE  \/ target[BindingsOf[c][i].into] # Absent /\ former[c][i] = Absent
           \/ former'[c][i] = Absent /\ target'[BindingsOf[c][i].into] = former[c][i]
           \/ former'[c][i] = Absent /\ staging[c][i] = Absent
  <1>1. ASSUME NEW d \in Command, MoveAway(d)
        PROVE  target[BindingsOf[c][i].into] # Absent /\ former[c][i] = Absent
    <2>1. target[Into(d)] \in Content
      BY AtOne DEF TypeOK
    <2>2. /\ \A j \in DOMAIN BindingsOf[d] : j # at[d] => former'[d][j] = former[d][j]
          /\ \A e \in Command : e # d => former'[e] = former[e]
      BY <1>1, <2>1, FormerIs, ZenonT(60) DEF MoveAway
    <2>3. c = d /\ i = at[d]
      BY <2>2
    <2>4. pc[d] = "moving"
      BY <1>1 DEF MoveAway, Goes
    <2>5. former[c][i] = Absent
      BY <2>3, <2>4 DEF Moved, MovedFor, MovedAs
    <2> QED BY <1>1, <2>3, <2>5 DEF MoveAway, Into
  <1>2. ASSUME NEW d \in Command, NEW back \in BOOLEAN, PutBack(d, back)
        PROVE  former'[c][i] = Absent /\ target'[BindingsOf[c][i].into] = former[c][i]
    <2>1. /\ target' = [target EXCEPT ![Into(d)] = former[d][at[d]]]
          /\ former' = [former EXCEPT ![d][at[d]] = Absent]
      BY <1>2 DEF PutBack
    <2>2. /\ former'[d][at[d]] = Absent
          /\ \A j \in DOMAIN BindingsOf[d] : j # at[d] => former'[d][j] = former[d][j]
          /\ \A e \in Command : e # d => former'[e] = former[e]
      BY <2>1, ContentIs, FormerIs
    <2>3. c = d /\ i = at[d]
      BY <2>2
    <2>4. target'[Into(d)] = former[d][at[d]]
      BY <2>1, AtOne DEF TypeOK
    <2> QED BY <2>2, <2>3, <2>4 DEF Into
  <1>3. ASSUME NEW d \in Command, RemoveFormer(d)
        PROVE  former'[c][i] = Absent /\ staging[c][i] = Absent
    <2>1. pc[d] = "removing"
      BY <1>3 DEF RemoveFormer, Onward, Goes
    <2>2. /\ former'[d][at[d]] = Absent
          /\ \A j \in DOMAIN BindingsOf[d] : j # at[d] => former'[d][j] = former[d][j]
          /\ \A e \in Command : e # d => former'[e] = former[e]
      BY <1>3, ContentIs, FormerIs DEF RemoveFormer
    <2>3. c = d /\ i = at[d]
      BY <2>2
    <2> QED BY <2>1, <2>2, <2>3, AtOne DEF Staged, StagedFor, StagedAs
  <1>4. Quiet => FALSE
    BY DEF Quiet
  <1>5. \A d \in Command : Place(d) \/ Replace(d) => FALSE
    BY DEF Place, Replace
  <1>6. \A t \in Target : UserWrites(t) => FALSE
    BY DEF UserWrites
  <1> QED BY <1>1, <1>2, <1>3, <1>4, <1>5, <1>6, StepsThatMove

\* Wherever something stands something stands that is not about to be deleted.
LEMMA SecuredStep ==
    ASSUME TypeOK, Staged, Moved, Secured, [Next]_vars
    PROVE  Secured'
  <1> SUFFICES ASSUME NEW t \in Target, Stands(t)'
               PROVE  Secure(t)'
    BY DEF Secured
  <1>1. CASE Stands(t)
    BY <1>1, StaysSecure DEF Secured
  <1>2. CASE ~Stands(t) /\ target'[t] # Absent
    BY <1>2 DEF Secure
  <1>3. CASE ~Stands(t) /\ target'[t] = Absent
    <2>0. PICK c \in Command : \E i \in DOMAIN BindingsOf[c] :
                BindingsOf[c][i].into = t /\ former'[c][i] # Absent
      BY <1>3 DEF Stands
    <2>1. PICK i \in DOMAIN BindingsOf[c] : BindingsOf[c][i].into = t /\ former'[c][i] # Absent
      BY <2>0
    <2>2. target[t] = Absent /\ former[c][i] = Absent
      BY <1>3, <2>1 DEF Stands
    <2> QED BY <2>1, <2>2, FormersMove
  <1> QED BY <1>1, <1>2, <1>3

-----------------------------------------------------------------------------
(* The theorems.                                                           *)

\* Whatever commands check, generate, commit, fail and crash.
LEMMA InvariantHolds == Spec => []IInv
  <1>1. Init => IInv
    <2> SUFFICES ASSUME Init
                 PROVE  IInv
      OBVIOUS
    <2> DEFINE Found == {Absent, Empty, User} \cup {Written(g, None, TRUE) : g \in Generator}
    <2>0. IsMarked(Absent) /\ IsMarked(Empty) /\ IsMarked(User)
      BY ContentIs DEF IsMarked
    <2>1. \A g \in Generator : Written(g, None, TRUE) \in Content /\ IsMarked(Written(g, None, TRUE))
      BY ContentIs DEF IsMarked
    <2>2. \A content \in Found : content \in Content /\ IsMarked(content)
      BY <2>0, <2>1, ContentIs
    <2>3. target \in [Target -> Found]
      BY DEF Init
    <2>4. target \in [Target -> Content] /\ \A t \in Target : IsMarked(target[t])
      <3> HIDE DEF Found
      <3> QED BY <2>2, <2>3
    <2>5. /\ \A c \in Command : \A i \in DOMAIN BindingsOf[c] :
                staging[c][i] = Absent /\ former[c][i] = Absent
          /\ \A c \in Command : staging[c] \in Beside(c) /\ former[c] \in Beside(c)
          /\ staging \in [Command -> UNION {Beside(c) : c \in Command}]
          /\ former \in [Command -> UNION {Beside(c) : c \in Command}]
          /\ \A c \in Command : \A i \in DOMAIN BindingsOf[c] : seen[c][i] = Absent
          /\ \A c \in Command : seen[c] \in Beside(c)
          /\ seen \in [Command -> UNION {Beside(c) : c \in Command}]
      BY ContentIs DEF Init, Beside
    <2>6. /\ pc \in [Command -> Phase] /\ moved \in [Command -> SUBSET Target]
          /\ at \in [Command -> Nat] /\ stuck \in [Command -> SUBSET Nat]
          /\ \A c \in Command : pc[c] = "checking" /\ moved[c] = {} /\ at[c] = 1
      BY DEF Init, Phase
    <2>7. TypeOK
      <3>1. BesideOk(staging) /\ BesideOk(former) /\ BesideOk(seen)
        BY <2>5 DEF BesideOk
      <3>2. \A c \in Command : at[c] \in DOMAIN BindingsOf[c]
        BY <2>6, AskedFor
      <3> QED BY <2>4, <2>6, <3>1, <3>2 DEF TypeOK
    <2>8. Staged /\ Moved
      BY <2>5, <2>6, Zenon DEF Staged, StagedFor, StagedAs, Moved, MovedFor, MovedAs
    <2>9. MovedIsMarked /\ InPlaceIsMarked
      <3>1. MovedIsMarked
        BY <2>0, <2>5 DEF MovedIsMarked
      <3>2. InPlaceIsMarked
        BY <2>4 DEF InPlaceIsMarked, IsMarked
      <3> QED BY <3>1, <3>2
    <2>10. NothingMovedYet
      BY <2>6 DEF NothingMovedYet
    <2>11. LeftIsStuck
      BY <2>6 DEF LeftIsStuck, StuckFor, StuckAs
    <2>12. Secured
      BY <2>5 DEF Secured, Stands, Secure
    <2>13. MayReplaceSeen
      BY <2>5 DEF MayReplaceSeen, Replaceable
    <2> QED BY <2>7, <2>8, <2>9, <2>10, <2>11, <2>12, <2>13 DEF IInv
  <1>2. IInv /\ [Next]_vars => IInv'
    BY TypeStep, BesideStep, MarkedStep, NothingMovedStep, StuckStep, SeenStep, SecuredStep DEF IInv
  <1> QED BY <1>1, <1>2, PTL DEF Spec

\* A binding in a target carries its generator's mark, wherever the command
\* that put it there ended (BindingDirectory.java, commit: the mark is written
\* into the staging before the move).
THEOREM PlacedIsMarked == Spec => []InPlaceIsMarked
  <1>1. IInv => InPlaceIsMarked
    BY DEF IInv
  <1> QED BY <1>1, InvariantHolds, PTL

\* A command that wrote every binding leaves nothing beside its targets, and
\* one that ended otherwise only what the disk would not let go of or take back
\* (Main.java, written; Holding.java, close; BindingDirectory.java, commit).
THEOREM LeavesNothingBeside == Spec => []NothingLeftBeside
  <1>1. IInv => NothingLeftBeside
    BY DEF IInv, Staged, StagedFor, StagedAs, Moved, MovedFor, MovedAs, LeftIsStuck, StuckFor, StuckAs,
           NothingLeftBeside
  <1> QED BY <1>1, InvariantHolds, PTL

\* Where something stood something stands; what leaves a target is beside it;
\* and that goes only back, or with the next in place and where the generator
\* may replace it or the command never saw it (BindingDirectory.java, commit).
THEOREM LosesNothing == Spec => NothingIsLost
  <1> DEFINE Safe(t) ==
                 /\ Stands(t) => Stands(t)'
                 /\ target[t] \notin {Absent, Empty} /\ target'[t] # target[t] =>
                        \E c \in Command : \E i \in DOMAIN BindingsOf[c] :
                            BindingsOf[c][i].into = t /\ former'[c][i] = target[t]
             Gone(c, i) ==
                 LET was == former[c][i] IN
                 was # Absent /\ former'[c][i] # was =>
                     \/ target'[BindingsOf[c][i].into] = was
                     \/ /\ staging[c][i] = Absent
                        /\ Replaceable(was, BindingsOf[c][i].by) \/ was # seen[c][i]
             Lost == [/\ \A t \in Target : Safe(t)
                      /\ \A c \in Command : \A i \in DOMAIN BindingsOf[c] : Gone(c, i)]_vars
  <1>1. ASSUME IInv, [Next]_vars
        PROVE  Lost
    <2>0. TypeOK /\ Staged /\ Moved /\ Secured /\ MayReplaceSeen
      BY <1>1 DEF IInv
    <2>1. ASSUME NEW t \in Target, Stands(t)
          PROVE  Stands(t)'
      <3>1. Secure(t)'
        BY <1>1, <2>0, <2>1, StaysSecure DEF Secured
      <3> QED BY <3>1 DEF Secure, Free, Stands
    <2>2. ASSUME NEW t \in Target, target[t] \notin {Absent, Empty}, target'[t] # target[t]
          PROVE  \E c \in Command : \E i \in DOMAIN BindingsOf[c] :
                        BindingsOf[c][i].into = t /\ former'[c][i] = target[t]
      <3>1. ASSUME NEW c \in Command, MoveAway(c)
            PROVE  /\ at[c] \in DOMAIN BindingsOf[c]
                   /\ BindingsOf[c][at[c]].into = t /\ former'[c][at[c]] = target[t]
        <4>1. at[c] \in DOMAIN BindingsOf[c] /\ target[Into(c)] \in Content
          BY <2>0, AtOne DEF TypeOK
        <4>2. former'[c][at[c]] = target[Into(c)]
          BY <2>0, <3>1, <4>1, FormerIs, ZenonT(60) DEF MoveAway
        <4>3. t = Into(c)
          BY <2>0, <2>2, <3>1 DEF MoveAway, TypeOK
        <4> QED BY <4>1, <4>2, <4>3 DEF Into
      <3>2. ASSUME NEW c \in Command, Placed(c)
            PROVE  FALSE
        BY <2>0, <2>2, <3>2 DEF Placed, TypeOK
      <3>3. ASSUME NEW c \in Command, NEW back \in BOOLEAN, PutBack(c, back)
            PROVE  FALSE
        BY <2>0, <2>2, <3>3 DEF PutBack, TypeOK
      <3>4. ASSUME NEW u \in Target, UserWrites(u)
            PROVE  FALSE
        BY <2>0, <2>2, <3>4 DEF UserWrites, TypeOK
      <3>5. \A c \in Command : Place(c) \/ Replace(c) => Placed(c)
        BY DEF Place, Replace
      <3>6. \A c \in Command : RemoveFormer(c) => FALSE
        BY <2>2 DEF RemoveFormer
      <3>7. Quiet => FALSE
        BY <2>2 DEF Quiet
      <3> QED BY <1>1, <2>0, <3>1, <3>2, <3>3, <3>4, <3>5, <3>6, <3>7, StepsThatMove
    <2>3. ASSUME NEW c \in Command, NEW i \in DOMAIN BindingsOf[c],
                 former[c][i] # Absent, former'[c][i] # former[c][i],
                 target'[BindingsOf[c][i].into] # former[c][i]
          PROVE  /\ staging[c][i] = Absent
                 /\ Replaceable(former[c][i], BindingsOf[c][i].by) \/ former[c][i] # seen[c][i]
      <3>1. staging[c][i] = Absent
        BY <1>1, <2>0, <2>3, FormersMove
      <3>2. former[c][i] = seen[c][i] => Replaceable(former[c][i], BindingsOf[c][i].by)
        BY <2>0 DEF MayReplaceSeen
      <3> QED BY <3>1, <3>2
    <2>4. \A t \in Target : Safe(t)
      BY <2>1, <2>2
    <2>5. \A c \in Command : \A i \in DOMAIN BindingsOf[c] : Gone(c, i)
      BY <2>3
    <2> QED BY <2>4, <2>5
  <1> QED BY <1>1, InvariantHolds, PTL DEF Spec, NothingIsLost

\* A generator that does not write its binding leaves every target of its
\* command as the command found it: nothing is moved before the last of them
\* is written (Main.java, written).
THEOREM RefusalMovesNothing == Spec => RefusedLeavesEveryDirectory
  <1>1. IInv =>
            [\A c \in Command : pc[c] = "generating" /\ pc'[c] = "letting go" => moved[c] = {}]_vars
    BY DEF IInv, NothingMovedYet
  <1> QED BY <1>1, InvariantHolds, PTL DEF Spec, RefusedLeavesEveryDirectory

=============================================================================
