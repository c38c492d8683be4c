--------------------------- MODULE BindingCommit ---------------------------
(***************************************************************************)
(* A command that writes a library and its bindings                        *)
(* (compiler/.../Main.java: written; Bindings.java: load, preflight,       *)
(* generate) and how it puts each binding in place                         *)
(* (BindingDirectory.java: replaceable, staging, commit, abandon), beside  *)
(* other commands and a user on the same directories, on a disk that may   *)
(* refuse any operation, with a crash possible between any two.            *)
(*                                                                         *)
(* A directory is what stands in it as a whole, since each operation is a  *)
(* rename or works on a directory no one else names: nothing, no files,    *)
(* files of the user's, or a binding, with the mark or still without.      *)
(***************************************************************************)
EXTENDS Integers, Sequences, FiniteSets

CONSTANTS
    Command,    \* the commands
    Generator,  \* the ids of the generators
    Target,     \* the directories bindings are written to
    BindingsOf, \* the bindings each command asks for, in order: a generator and a target
    None        \* no command

\* A command that asks for no binding touches no directory and is not one here.
ASSUME BindingsAssumption ==
    /\ BindingsOf \in [Command -> Seq([by : Generator, into : Target])]
    /\ \A c \in Command : BindingsOf[c] # <<>>
    /\ \A c \in Command : \A i, j \in DOMAIN BindingsOf[c] :
            BindingsOf[c][i].into = BindingsOf[c][j].into => i = j

VARIABLES
    target,     \* what stands in each target
    staging,    \* what each command has written beside each of its targets
    former,     \* what each command has moved out of each of its targets
    pc,         \* where each command stands
    at,         \* which of its bindings it is at
    moved,      \* the targets each command has moved anything into or out of
    seen,       \* history: what each command found in its targets when it last asked
    stuck       \* history: of which bindings the disk kept something beside the target

vars == <<target, staging, former, pc, at, moved, seen, stuck>>

Absent == [is |-> "absent"]
Empty == [is |-> "empty"]
User == [is |-> "user"]
Written(g, c, marked) == [is |-> "binding", by |-> g, of |-> c, marked |-> marked]

By(c) == BindingsOf[c][at[c]].by
Into(c) == BindingsOf[c][at[c]].into

Init ==
    /\ target \in [Target -> {Absent, Empty, User} \cup {Written(g, None, TRUE) : g \in Generator}]
    /\ staging = [c \in Command |-> [i \in DOMAIN BindingsOf[c] |-> Absent]]
    /\ former = [c \in Command |-> [i \in DOMAIN BindingsOf[c] |-> Absent]]
    /\ pc = [c \in Command |-> "checking"]
    /\ at = [c \in Command |-> 1]
    /\ moved = [c \in Command |-> {}]
    /\ seen = [c \in Command |-> [i \in DOMAIN BindingsOf[c] |-> Absent]]
    /\ stuck = [c \in Command |-> {}]

Goes(c, from, to) == pc[c] = from /\ pc' = [pc EXCEPT ![c] = to]

\* On to the next binding, or with none left to the step after.
Onward(c, from, again, next) ==
    IF at[c] < Len(BindingsOf[c])
    THEN Goes(c, from, again) /\ at' = [at EXCEPT ![c] = @ + 1]
    ELSE Goes(c, from, next) /\ at' = [at EXCEPT ![c] = 1]

-----------------------------------------------------------------------------
(* BindingDirectory.replaceable and the loading before the build.          *)

Replaceable(found, g) ==
    \/ found \in {Absent, Empty}
    \/ found.is = "binding" /\ found.marked /\ found.by = g

\* A generator is loaded and asked, and its directory looked at; any of them
\* may refuse.
Check(c) ==
    /\ Replaceable(target[Into(c)], By(c))
    /\ Onward(c, "checking", "checking", "building")
    /\ UNCHANGED <<target, staging, former, moved, seen, stuck>>

Refused(c) ==
    /\ Goes(c, "checking", "refused")
    /\ UNCHANGED <<target, staging, former, at, moved, seen, stuck>>

\* The driver builds the library.
Build(c) ==
    /\ Goes(c, "building", "staging")
    /\ UNCHANGED <<target, staging, former, at, moved, seen, stuck>>

NotBuilt(c) ==
    /\ Goes(c, "building", "refused")
    /\ UNCHANGED <<target, staging, former, at, moved, seen, stuck>>

-----------------------------------------------------------------------------
(* staging and generate.                                                   *)

\* The target is looked at again, and a directory made beside it.
Stage(c) ==
    /\ Goes(c, "staging", "generating")
    /\ Replaceable(target[Into(c)], By(c))
    /\ seen' = [seen EXCEPT ![c][at[c]] = target[Into(c)]]
    /\ staging' = [staging EXCEPT ![c][at[c]] = Empty]
    /\ UNCHANGED <<target, former, at, moved, stuck>>

NotStaged(c) ==
    /\ Goes(c, "staging", "letting go")
    /\ UNCHANGED <<target, staging, former, at, moved, seen, stuck>>

\* Mutant of Generate: each binding is put in place as soon as it is written.
GenerateInPlace(c) ==
    /\ target' = [target EXCEPT ![Into(c)] = Written(By(c), c, TRUE)]
    /\ staging' = [staging EXCEPT ![c][at[c]] = Absent]
    /\ moved' = [moved EXCEPT ![c] = @ \cup {Into(c)}]
    /\ Onward(c, "generating", "staging", "done")
    /\ UNCHANGED <<former, seen, stuck>>

\* The generator writes into it; every binding is before any is put in place.
Generate(c) ==
    /\ staging' = [staging EXCEPT ![c][at[c]] = Written(By(c), c, FALSE)]
    /\ Onward(c, "generating", "staging", "committing")
    /\ UNCHANGED <<target, former, moved, seen, stuck>>

\* It refuses or fails, with some of it written.
NotGenerated(c) ==
    /\ Goes(c, "generating", "letting go")
    /\ staging' = [staging EXCEPT ![c][at[c]] = Written(By(c), c, FALSE)]
    /\ UNCHANGED <<target, former, at, moved, seen, stuck>>

-----------------------------------------------------------------------------
(* commit.                                                                 *)

\* Mutant of Mark: the mark is not written before the binding is in place.
MarkLater(c) ==
    /\ Goes(c, "committing", IF target[Into(c)] = Absent THEN "placing" ELSE "moving")
    /\ UNCHANGED <<target, staging, former, at, moved, seen, stuck>>

\* The mark is written into the staging, and then the target looked for.
Mark(c) ==
    /\ Goes(c, "committing", IF target[Into(c)] = Absent THEN "placing" ELSE "moving")
    /\ staging' = [staging EXCEPT ![c][at[c]] = Written(By(c), c, TRUE)]
    /\ UNCHANGED <<target, former, at, moved, seen, stuck>>

\* A rename takes the place of nothing or of an empty directory.
Placed(c) ==
    /\ target[Into(c)] \in {Absent, Empty}
    /\ target' = [target EXCEPT ![Into(c)] = staging[c][at[c]]]
    /\ staging' = [staging EXCEPT ![c][at[c]] = Absent]
    /\ moved' = [moved EXCEPT ![c] = @ \cup {Into(c)}]

\* With nothing there the staging is moved there.
Place(c) ==
    /\ Placed(c)
    /\ Onward(c, "placing", "committing", "done")
    /\ UNCHANGED <<former, seen, stuck>>

\* With something there that is moved beside it first.
MoveAway(c) ==
    /\ Goes(c, "moving", "replacing")
    /\ target[Into(c)] # Absent
    /\ former' = [former EXCEPT ![c][at[c]] = target[Into(c)]]
    /\ target' = [target EXCEPT ![Into(c)] = Absent]
    /\ moved' = [moved EXCEPT ![c] = @ \cup {Into(c)}]
    /\ UNCHANGED <<staging, at, seen, stuck>>

\* Then the staging in its place.
Replace(c) ==
    /\ Placed(c)
    /\ Goes(c, "replacing", "removing")
    /\ UNCHANGED <<former, at, seen, stuck>>

\* Mutant of PutBack: what was there is deleted on every way out.
PutBackNone(c, back) ==
    /\ Goes(c, "replacing", "letting go")
    /\ former' = [former EXCEPT ![c][at[c]] = Absent]
    /\ UNCHANGED <<target, staging, at, moved, seen, stuck>>

\* Where that fails what was there is moved back, where that can be.
PutBack(c, back) ==
    /\ Goes(c, "replacing", "letting go")
    /\ IF back
       THEN /\ target[Into(c)] \in {Absent, Empty}
            /\ target' = [target EXCEPT ![Into(c)] = former[c][at[c]]]
            /\ former' = [former EXCEPT ![c][at[c]] = Absent]
            /\ UNCHANGED stuck
       ELSE /\ stuck' = [stuck EXCEPT ![c] = @ \cup {at[c]}]
            /\ UNCHANGED <<target, former>>
    /\ UNCHANGED <<staging, at, moved, seen>>

\* And then what was there is deleted.
RemoveFormer(c) ==
    /\ former' = [former EXCEPT ![c][at[c]] = Absent]
    /\ Onward(c, "removing", "committing", "done")
    /\ UNCHANGED <<target, staging, moved, seen, stuck>>

\* That fails, or part of it, and the rest is left beside the target.
NotRemoved(c) ==
    /\ Goes(c, "removing", "letting go")
    /\ stuck' = [stuck EXCEPT ![c] = @ \cup {at[c]}]
    /\ UNCHANGED <<target, staging, former, at, moved, seen>>

\* Any other step of a commit fails on the disk's side.
CommitFails(c) ==
    /\ pc[c] \in {"committing", "placing", "moving"}
    /\ Goes(c, pc[c], "letting go")
    /\ UNCHANGED <<target, staging, former, at, moved, seen, stuck>>

-----------------------------------------------------------------------------

\* Mutant of LetGo: only the directory last made is let go of.
LetGoLast(c, left) ==
    /\ Goes(c, "letting go", "refused")
    /\ staging' = [staging EXCEPT ![c][at[c]] = Absent]
    /\ UNCHANGED <<target, former, at, moved, seen, stuck>>

\* Holding.close: every directory not put in place is dropped, the others also
\* where the disk will not let go of one, which is left with what it still holds.
LetGo(c, left) ==
    /\ Goes(c, "letting go", "refused")
    /\ left \subseteq {i \in DOMAIN staging[c] : staging[c][i] # Absent}
    /\ staging' = [staging EXCEPT ![c] = [i \in DOMAIN @ |-> IF i \in left THEN @[i] ELSE Absent]]
    /\ stuck' = [stuck EXCEPT ![c] = @ \cup left]
    /\ UNCHANGED <<target, former, at, moved, seen>>

Over(c) == pc[c] \in {"done", "refused", "crashed"}

Crash(c) ==
    /\ ~Over(c)
    /\ pc' = [pc EXCEPT ![c] = "crashed"]
    /\ UNCHANGED <<target, staging, former, at, moved, seen, stuck>>

\* A user puts files of their own where nothing was.
UserWrites(t) ==
    /\ target[t] \in {Absent, Empty}
    /\ target' = [target EXCEPT ![t] = User]
    /\ UNCHANGED <<staging, former, pc, at, moved, seen, stuck>>

Ended == (\A c \in Command : Over(c)) /\ UNCHANGED vars

Next ==
    \/ \E c \in Command :
        \/ Check(c) \/ Refused(c) \/ Build(c) \/ NotBuilt(c)
        \/ Stage(c) \/ NotStaged(c) \/ Generate(c) \/ NotGenerated(c)
        \/ Mark(c) \/ Place(c) \/ MoveAway(c) \/ Replace(c)
        \/ \E back \in BOOLEAN : PutBack(c, back)
        \/ RemoveFormer(c) \/ NotRemoved(c) \/ CommitFails(c)
        \/ \E left \in SUBSET DOMAIN BindingsOf[c] : LetGo(c, left)
        \/ Crash(c)
    \/ \E t \in Target : UserWrites(t)
    \/ Ended

Spec == Init /\ [][Next]_vars

-----------------------------------------------------------------------------

\* A binding in place carries its generator's mark, from the moment it is there
\* and after any crash, so that the generator may replace it again: never "files
\* a binding did not write" that a binding did.
InPlaceIsMarked ==
    \A t \in Target : target[t].is = "binding" => target[t].marked

\* Something stands at a target, or beside it as what was moved out of it.
Stands(t) ==
    \/ target[t] # Absent
    \/ \E c \in Command : \E i \in DOMAIN BindingsOf[c] :
            BindingsOf[c][i].into = t /\ former[c][i] # Absent

\* What was in a target is not lost, whichever step of a commit fails or is the
\* last before a crash, and whatever other commands do between: where something
\* stood, something stands; what leaves a target is still whole beside it; and
\* it goes from there only back, or for good once the next is in place.  What
\* then goes for good is a directory its generator may replace, or one the
\* command never saw, put there after it last asked.
NothingIsLost ==
    [][/\ \A t \in Target :
            /\ Stands(t) => Stands(t)'
            /\ target[t] \notin {Absent, Empty} /\ target'[t] # target[t] =>
                    \E c \in Command : \E i \in DOMAIN BindingsOf[c] :
                        BindingsOf[c][i].into = t /\ former'[c][i] = target[t]
       /\ \A c \in Command : \A i \in DOMAIN BindingsOf[c] :
            LET was == former[c][i] IN
            was # Absent /\ former'[c][i] # was =>
                \/ target'[BindingsOf[c][i].into] = was
                \/ /\ staging[c][i] = Absent
                   /\ Replaceable(was, BindingsOf[c][i].by) \/ was # seen[c][i]]_vars

\* "every binding is written before any is put in place, so that one refused or
\* failed leaves every directory as it was" (Main.java): a generator that does
\* not write its binding leaves every target of the command untouched.
RefusedLeavesEveryDirectory ==
    [][\A c \in Command : pc[c] = "generating" /\ pc'[c] = "letting go" => moved[c] = {}]_vars

\* "a directory not put in place dropped" (Main.java): a command that wrote
\* every binding leaves nothing beside its targets, and one that ended otherwise
\* only what the disk would not let go of or take back: what it was writing is
\* gone, and what it had moved out of a target is back in it.
NothingLeftBeside ==
    \A c \in Command : \A i \in DOMAIN BindingsOf[c] :
        pc[c] \in {"done", "refused"} /\ ~(staging[c][i] = Absent /\ former[c][i] = Absent) =>
            pc[c] = "refused" /\ i \in stuck[c]
=============================================================================
