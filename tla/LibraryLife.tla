---------------------------- MODULE LibraryLife ----------------------------
(***************************************************************************)
(* A shared library of the compiler's in a host process: how it is loaded, *)
(* counted, released and unloaded (bindings/rust/runtime/src/native.rs:    *)
(* NativeLibrary::load, HOLDING, Drop), and what it keeps beyond any scope *)
(* (native/crates/runtime/src/kernels.rs: KEPT, matched, souther_release). *)
(*                                                                         *)
(* The loader hands the same mapping back for every open of one file, so   *)
(* the patterns one load read are what a call through another matches.     *)
(* Every thread here makes loads of its own; a load that is never dropped  *)
(* is the Go binding's, which keeps what it loaded                         *)
(* (bindings/go/runtime/native_unix.go: holding, hold, close), and one     *)
(* dropped as soon as it is counted is a binding that missed a function.   *)
(***************************************************************************)
EXTENDS Integers, FiniteSets

CONSTANTS
    Thread,         \* the threads that load the library and call into it
    Library,        \* the library files
    Current,        \* those that answer the generation the binding calls
    Pattern,        \* the patterns an object of a library carries
    None,           \* no thread, no library, an empty room
    Box             \* where a pattern read from its image may stand

ASSUME ThreadAssumption == IsFiniteSet(Thread)
ASSUME LibraryAssumption == Current \subseteq Library /\ None \notin Library
ASSUME NoneAssumption == None \notin Thread /\ None \notin Pattern /\ None \notin Box

VARIABLES
    refs,       \* how often each library is opened: mapped while above nought
    HOLDING,    \* the loads counted as holding each library
    holder,     \* the thread inside HOLDING's lock
    room,       \* what the room of each pattern points at
    KEPT,       \* the patterns each library owns: a room and a pattern read for it
    keeper,     \* the thread inside KEPT's lock, in each library
    alive,      \* the patterns read and not dropped
    pc,         \* where each thread stands
    lib,        \* the library a thread's load is of
    subject,    \* the pattern a call of a thread matches
    read,       \* `read` in matched: what the thread found in the room
    taking      \* what a release has taken from KEPT and not dropped

vars == <<refs, HOLDING, holder, room, KEPT, keeper, alive, pc, lib, subject, read, taking>>

loading == <<refs, HOLDING, holder, lib>>
matching == <<room, KEPT, keeper, alive, subject, read>>

Init ==
    /\ refs = [l \in Library |-> 0]
    /\ HOLDING = [l \in Library |-> 0]
    /\ holder = None
    /\ room = [l \in Library |-> [p \in Pattern |-> None]]
    /\ KEPT = [l \in Library |-> {}]
    /\ keeper = [l \in Library |-> None]
    /\ alive = {}
    /\ pc = [t \in Thread |-> "away"]
    /\ lib = [t \in Thread |-> None]
    /\ subject = [t \in Thread |-> None]
    /\ read = [t \in Thread |-> None]
    /\ taking = [t \in Thread |-> {}]

Goes(t, from, to) == pc[t] = from /\ pc' = [pc EXCEPT ![t] = to]

-----------------------------------------------------------------------------
(* NativeLibrary::load.                                                    *)

\* libloading::Library::new: the first open maps the file, and what its data
\* segment holds is what the file says, an empty KEPT and empty rooms.
Open(t, l) ==
    /\ Goes(t, "away", "opened")
    /\ refs' = [refs EXCEPT ![l] = @ + 1]
    /\ lib' = [lib EXCEPT ![t] = l]
    /\ IF refs[l] = 0
       THEN /\ room' = [room EXCEPT ![l] = [p \in Pattern |-> None]]
            /\ KEPT' = [KEPT EXCEPT ![l] = {}]
       ELSE UNCHANGED <<room, KEPT>>
    /\ UNCHANGED <<HOLDING, holder, keeper, alive, subject, read, taking>>

\* The generation is asked before anything else; any other is refused, and
\* the file is closed without a call and without having been counted.
Query(t) ==
    /\ pc[t] = "opened"
    /\ IF lib[t] \in Current THEN Goes(t, "opened", "found") ELSE Goes(t, "opened", "closing")
    /\ UNCHANGED <<loading, matching, taking>>

\* Mutant of Count: the load is handed out without being counted.
NotCounted(t) ==
    /\ Goes(t, "found", "held")
    /\ holder = None
    /\ UNCHANGED <<loading, matching, taking>>

\* The load is counted under the lock, and is the caller's from then on.
Count(t) ==
    /\ Goes(t, "found", "held")
    /\ holder = None
    /\ HOLDING' = [HOLDING EXCEPT ![lib[t]] = @ + 1]
    /\ UNCHANGED <<refs, holder, lib, matching, taking>>

-----------------------------------------------------------------------------
(* matched.                                                                *)

\* A call reaches `matched`, which loads the room without the lock.
Load(t, p) ==
    /\ pc[t] = "held"
    /\ Goes(t, "held", IF room[lib[t]][p] = None THEN "waiting" ELSE "using")
    /\ subject' = [subject EXCEPT ![t] = p]
    /\ read' = [read EXCEPT ![t] = room[lib[t]][p]]
    /\ UNCHANGED <<loading, room, KEPT, keeper, alive, taking>>

\* KEPT.lock()
Lock(t) ==
    /\ Goes(t, "waiting", "locked")
    /\ keeper[lib[t]] = None
    /\ keeper' = [keeper EXCEPT ![lib[t]] = t]
    /\ UNCHANGED <<loading, room, KEPT, alive, subject, read, taking>>

\* Mutant of Found: a thread that another was before waits for its own turn.
FoundRetried(t) ==
    /\ Goes(t, "locked", "waiting")
    /\ room[lib[t]][subject[t]] # None
    /\ keeper' = [keeper EXCEPT ![lib[t]] = None]
    /\ UNCHANGED <<loading, room, KEPT, alive, subject, read, taking>>

\* Under the lock the room is loaded again, and what another thread read
\* meanwhile is used.
Found(t) ==
    /\ Goes(t, "locked", "using")
    /\ room[lib[t]][subject[t]] # None
    /\ read' = [read EXCEPT ![t] = room[lib[t]][subject[t]]]
    /\ keeper' = [keeper EXCEPT ![lib[t]] = None]
    /\ UNCHANGED <<loading, room, KEPT, alive, subject, taking>>

\* A pattern is made of the image, wherever the allocator has a place for it,
\* and the room points at it.
ReadImage(t, box) ==
    /\ box \notin alive
    /\ alive' = alive \cup {box}
    /\ read' = [read EXCEPT ![t] = box]
    /\ room' = [room EXCEPT ![lib[t]][subject[t]] = box]
    /\ UNCHANGED <<loading, KEPT, keeper, subject, taking>>

\* Mutant of Store: the image is read without loading the room again.
StoreUnlooked(t) ==
    /\ Goes(t, "locked", "stored")
    /\ \E box \in Box : ReadImage(t, box)

\* The room is loaded again under the lock, is still empty, and is filled.
Store(t) ==
    /\ Goes(t, "locked", "stored")
    /\ room[lib[t]][subject[t]] = None
    /\ \E box \in Box : ReadImage(t, box)

\* kept.push, and the lock is let go.
Keep(t) ==
    /\ Goes(t, "stored", "using")
    /\ KEPT' = [KEPT EXCEPT ![lib[t]] = @ \cup {<<subject[t], read[t]>>}]
    /\ keeper' = [keeper EXCEPT ![lib[t]] = None]
    /\ UNCHANGED <<loading, room, alive, subject, read, taking>>

\* The match runs on what `read` points at, and the call answers.
Match(t) ==
    /\ Goes(t, "using", "held")
    /\ subject' = [subject EXCEPT ![t] = None]
    /\ read' = [read EXCEPT ![t] = None]
    /\ UNCHANGED <<loading, room, KEPT, keeper, alive, taking>>

-----------------------------------------------------------------------------
(* Drop for NativeLibrary, and souther_release.                            *)

\* Mutant of LetGo: every load that is let go releases the library.
LetGoReleasing(t) ==
    /\ pc[t] = "held"
    /\ holder = None
    /\ HOLDING' = [HOLDING EXCEPT ![lib[t]] = @ - 1]
    /\ Goes(t, "held", "releasing") /\ holder' = t
    /\ UNCHANGED <<refs, lib, matching, taking>>

\* Mutant of LetGo: the last load lets the library go unreleased.
LetGoUnreleased(t) ==
    /\ pc[t] = "held"
    /\ holder = None
    /\ HOLDING' = [HOLDING EXCEPT ![lib[t]] = @ - 1]
    /\ Goes(t, "held", "closing")
    /\ UNCHANGED <<refs, holder, lib, matching, taking>>

\* A load with no call of its own in flight is let go: the last one counted
\* releases the library, under the lock.
LetGo(t) ==
    /\ pc[t] = "held"
    /\ holder = None
    /\ HOLDING' = [HOLDING EXCEPT ![lib[t]] = @ - 1]
    /\ IF HOLDING[lib[t]] = 1
       THEN Goes(t, "held", "releasing") /\ holder' = t
       ELSE Goes(t, "held", "closing") /\ UNCHANGED holder
    /\ UNCHANGED <<refs, lib, matching, taking>>

\* std::mem::take under KEPT's lock, which is let go at the end of the statement.
Take(t) ==
    /\ Goes(t, "releasing", "dropping")
    /\ keeper[lib[t]] = None
    /\ taking' = [taking EXCEPT ![t] = KEPT[lib[t]]]
    /\ KEPT' = [KEPT EXCEPT ![lib[t]] = {}]
    /\ UNCHANGED <<loading, room, keeper, alive, subject, read>>

\* One room is emptied, and then what it pointed at is dropped.
EmptyRoom(t, held) ==
    /\ pc[t] = "dropping"
    /\ held \in taking[t]
    /\ room[lib[t]][held[1]] # None
    /\ room' = [room EXCEPT ![lib[t]][held[1]] = None]
    /\ UNCHANGED <<loading, KEPT, keeper, alive, pc, subject, read, taking>>

DropPattern(t, held) ==
    /\ pc[t] = "dropping"
    /\ held \in taking[t]
    /\ room[lib[t]][held[1]] = None
    /\ alive' = alive \ {held[2]}
    /\ taking' = [taking EXCEPT ![t] = @ \ {held}]
    /\ UNCHANGED <<loading, room, KEPT, keeper, pc, subject, read>>

\* The release returns and HOLDING's lock is let go.
Released(t) ==
    /\ Goes(t, "dropping", "closing")
    /\ taking[t] = {}
    /\ holder' = None
    /\ UNCHANGED <<refs, HOLDING, lib, matching, taking>>

\* The library field drops last: dlclose, which unmaps at the last of them.
Close(t) ==
    /\ Goes(t, "closing", "away")
    /\ refs' = [refs EXCEPT ![lib[t]] = @ - 1]
    /\ lib' = [lib EXCEPT ![t] = None]
    /\ UNCHANGED <<HOLDING, holder, matching, taking>>

-----------------------------------------------------------------------------

Call(t) ==
    \/ Lock(t) \/ Found(t) \/ Store(t) \/ Keep(t) \/ Match(t)

Next ==
    \E t \in Thread :
        \/ \E l \in Library : Open(t, l)
        \/ Query(t) \/ Count(t)
        \/ \E p \in Pattern : Load(t, p)
        \/ Call(t)
        \/ LetGo(t) \/ Take(t) \/ Released(t) \/ Close(t)
        \/ \E held \in taking[t] : EmptyRoom(t, held) \/ DropPattern(t, held)

\* A thread inside a call goes on with it: the scheduler owes that to every
\* thread, and a lock that stays free is taken.  Whether a host loads, calls
\* or lets go is the host's.
Fairness == \A t \in Thread : WF_vars(Call(t))

Spec == Init /\ [][Next]_vars /\ Fairness

-----------------------------------------------------------------------------

\* What each variable holds; a count of loads is never below nought.
TypeOK ==
    /\ refs \in [Library -> 0..Cardinality(Thread)]
    /\ HOLDING \in [Library -> 0..Cardinality(Thread)]
    /\ holder \in Thread \cup {None}
    /\ room \in [Library -> [Pattern -> Box \cup {None}]]
    /\ KEPT \in [Library -> SUBSET (Pattern \X Box)]
    /\ keeper \in [Library -> Thread \cup {None}]
    /\ alive \subseteq Box
    /\ pc \in [Thread -> {"away", "opened", "found", "held", "waiting", "locked", "stored",
                          "using", "releasing", "dropping", "closing"}]
    /\ lib \in [Thread -> Library \cup {None}]
    /\ subject \in [Thread -> Pattern \cup {None}]
    /\ read \in [Thread -> Box \cup {None}]
    /\ taking \in [Thread -> SUBSET (Pattern \X Box)]

\* A match never runs on a pattern that was dropped, nor in a library that is
\* not mapped, however loads, drops and releases of other threads fall
\* (kernels.rs: "What the room points at is not dropped while a match may read
\* it"; native.rs, HOLDING).
MatchesWhatIsAlive ==
    \A t \in Thread : pc[t] = "using" => read[t] \in alive /\ refs[lib[t]] > 0

\* A pattern is read once however many threads match it: at most one of those
\* alive in a library was read for one room ("the second finds the first has
\* read it").
Owned(l) ==
    KEPT[l] \cup UNION {taking[t] : t \in {u \in Thread : lib[u] = l}}

ReadOnce ==
    \A l \in Library : \A x, y \in Owned(l) : x[1] = y[1] => x = y

\* What a library keeps beyond any scope goes before the library does: nothing
\* that was read is alive with every library unmapped, and nothing is owned by
\* a library that is.
NothingOutlives ==
    /\ (\A l \in Library : refs[l] = 0) => alive = {}
    /\ \A l \in Library : refs[l] = 0 => KEPT[l] = {}

\* A call that reaches a pattern is answered: neither lock keeps it waiting
\* for ever, whatever other threads load, match, release and unload.
InCall(t) == pc[t] \in {"waiting", "locked", "stored", "using"}

MatchAnswers == \A t \in Thread : InCall(t) ~> ~InCall(t)
=============================================================================
