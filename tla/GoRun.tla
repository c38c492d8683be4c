------------------------------- MODULE GoRun -------------------------------
(***************************************************************************)
(* Runs, calls and callbacks of the Go binding (bindings/go/runtime:       *)
(* run.go, capability.go, failure.go, thread_unix.go) over the goroutines  *)
(* and the OS threads of one process.                                      *)
(*                                                                         *)
(* Nothing but a check keeps a run where it belongs: every goroutine can   *)
(* hold every run, one that has ended too, and use it at any time.  What   *)
(* the code sees of a thread is its number, so a thread that ends and one  *)
(* numbered as it was are one element of Thread.  The scopes of an arena   *)
(* are the thread's (runtime/src/lib.rs); a scope is named by its run.     *)
(*                                                                         *)
(* `stack` is a goroutine's stack: the functions a run or a nested run is  *)
(* handed to, the calls into a library, the implementations called back.   *)
(***************************************************************************)
EXTENDS Integers, Sequences, SequencesExt, FiniteSets

CONSTANTS
    Goroutine,
    Thread,      \* the numbers of the OS threads
    Lib,         \* the libraries, by the identity of their runtimes
    None,        \* no thread
    MaxRuns,     \* bound on the runs opened
    MaxDepth,    \* bound on the depth of a stack
    MaxReads,    \* bound on the values in the arenas that read a host's function
    MaxRaised    \* bound on the failures of one call's implementations that are remembered

ASSUME NoThreadAssumption == None \notin Thread
ASSUME BoundsAssumption == MaxRaised \in Nat \ {0}

VARIABLES
    on,       \* the thread each goroutine is on, None where it is on none
    locks,    \* how often each goroutine called runtime.LockOSThread and not yet Unlock
    stack,    \* the stack of each goroutine, innermost last
    asked,    \* the run a goroutine has found live and goes on asking of, 0 for none
    raising,  \* what each goroutine panics with
    answer,   \* what the last step of a goroutine answered its code
    roots,    \* roots.open
    runs,     \* the runs opened, in that order; a run is its number
    scopes,   \* the scopes open in each library's arena of each thread
    reads,    \* what the arenas hold: a thread, a scope, and the run whose room it reads
    strayed   \* history: whether a run that had ended has passed a check

vars == <<on, locks, stack, asked, raising, answer, roots, runs, scopes, reads, strayed>>

Run == DOMAIN runs
Top(g) == Last(stack[g])
Height(g) == Len(stack[g])
Opened == {"run", "scope"}
Nothing == "nothing"

\* caught: a panic to raise again, an error of the implementation's own, or one
\* met while crossing what it answers (Crossing).
Caught == {"panicked", "host", "crossing"}

Frame(kind, n, given, at) ==
    [kind |-> kind, run |-> n, phase |-> "in", given |-> given, raised |-> <<>>, at |-> at]

Init ==
    /\ on = [g \in Goroutine |-> None]
    /\ locks = [g \in Goroutine |-> 0]
    /\ stack = [g \in Goroutine |-> <<>>]
    /\ asked = [g \in Goroutine |-> 0]
    /\ raising = [g \in Goroutine |-> Nothing]
    /\ answer = [g \in Goroutine |-> Nothing]
    /\ roots = <<>>
    /\ runs = <<>>
    /\ scopes = [t \in Thread |-> [l \in Lib |-> <<>>]]
    /\ reads = {}
    /\ strayed = FALSE

\* What the code of goroutine g is answered.
Answers(g, what) == answer' = [answer EXCEPT ![g] = what]

-----------------------------------------------------------------------------
(* The scheduler of the Go runtime, which is external: a goroutine is      *)
(* moved at will unless it is locked to its thread, and a thread a         *)
(* goroutine is locked to runs no other.                                   *)

Move(g, t) ==
    /\ locks[g] = 0
    /\ t # on[g] /\ \A h \in Goroutine : t # None => on[h] # t
    /\ on' = [on EXCEPT ![g] = t]
    /\ UNCHANGED <<locks, stack, asked, raising, answer, roots, runs, scopes, reads, strayed>>

\* The host's code runs on g, and has asked nothing yet.
InHost(g) ==
    /\ on[g] # None /\ raising[g] = Nothing /\ asked[g] = 0
    /\ stack[g] # <<>> => Top(g).kind # "call" /\ Top(g).phase = "in"

InLibrary(g) == stack[g] # <<>> /\ Top(g).kind = "call"

-----------------------------------------------------------------------------
(* Library.Run and Run.Scope, up to where the function is handed the run.  *)

\* Mutant of Entered: one root run of a runtime, whichever thread it is on.
EnteredAnywhere(l, t) == \E i \in DOMAIN roots : roots[i].identity = l

\* enterRoot: a root run of this runtime is open on this thread.
Entered(l, t) == \E i \in DOMAIN roots : roots[i] = [identity |-> l, thread |-> t]

\* Mutant of Lock: the goroutine is left free to move.
LockNone(g) == UNCHANGED locks

\* runtime.LockOSThread
Lock(g) == locks' = [locks EXCEPT ![g] = @ + 1]

\* within, up to the call of the function: a scope of the arena of the thread
\* this is is opened for the next run.
Within(kind, g, l) ==
    LET n == Len(runs) + 1 IN
    /\ n <= MaxRuns /\ Height(g) < MaxDepth
    /\ scopes' = [scopes EXCEPT ![on[g]][l] = Append(@, n)]
    /\ stack' = [stack EXCEPT ![g] = Append(@, Frame(kind, n, {}, 0))]

\* The run opened, live from then on.  `by` is history: the goroutine it is of.
Opening(g, l, t) ==
    [lib |-> l, thread |-> t, live |-> TRUE, child |-> 0, calls |-> <<>>, room |-> FALSE, by |-> g]

EnterRun(g, l) ==
    /\ InHost(g)
    /\ IF Entered(l, on[g])
       THEN Answers(g, "ErrAlreadyRunning") /\ UNCHANGED <<locks, stack, roots, runs, scopes>>
       ELSE /\ Lock(g)
            /\ roots' = Append(roots, [identity |-> l, thread |-> on[g]])
            /\ Within("run", g, l)
            /\ runs' = Append(runs, Opening(g, l, on[g]))
            /\ Answers(g, Nothing)
    /\ UNCHANGED <<on, asked, raising, reads, strayed>>

-----------------------------------------------------------------------------
(* checkReading and checkMaking: the run is asked whether it is live, then *)
(* whether this is its thread, then whether a run inside it is open.  The  *)
(* first is asked of what any goroutine may change meanwhile, and g may be *)
(* moved before the second is.                                             *)

Misused(g) == raising' = [raising EXCEPT ![g] = "panicked"]

AskLive(g, n) ==
    /\ InHost(g)
    /\ IF runs[n].live
       THEN asked' = [asked EXCEPT ![g] = n] /\ UNCHANGED raising
       ELSE Misused(g) /\ UNCHANGED asked
    /\ Answers(g, Nothing)
    /\ UNCHANGED <<on, locks, stack, roots, runs, scopes, reads, strayed>>

\* Mutant of IsCurrent: a run that is live is taken for one of this goroutine.
IsCurrentAny(g, n) == TRUE

\* thread.isCurrent
IsCurrent(g, n) == runs[n].thread = on[g]

\* g goes on to make something through the run it asked of.
Making(g) == asked[g] # 0 /\ on[g] # None

MayMake(g) == Making(g) /\ IsCurrent(g, asked[g]) /\ runs[asked[g]].child = 0

AskedNothing(g) == asked' = [asked EXCEPT ![g] = 0]

\* The run passes the check; it was live when it was asked that, and may have
\* ended before it was asked for its thread, which g may have been moved to.
Straying(g) == strayed' = (strayed \/ ~runs[asked[g]].live)

\* ErrRunOnAnotherGoroutine, ErrNotTheInnermostRun
Refused(g) ==
    /\ Making(g) /\ ~MayMake(g)
    /\ Misused(g) /\ AskedNothing(g)
    /\ UNCHANGED <<on, locks, stack, answer, roots, runs, scopes, reads, strayed>>

\* Run.Scope
EnterScope(g) ==
    LET r == asked[g]
        n == Len(runs) + 1
    IN
    /\ MayMake(g)
    /\ Within("scope", g, runs[r].lib)
    /\ runs' = Append([runs EXCEPT ![r].child = n], Opening(g, runs[r].lib, runs[r].thread))
    /\ AskedNothing(g) /\ Straying(g)
    /\ UNCHANGED <<on, locks, raising, answer, roots, reads>>

\* Implemented, HostFunction: the room the library reads is the run's to hold;
\* a function handed over again is the value it was made into before.
Implement(g) ==
    /\ MayMake(g)
    /\ runs' = [runs EXCEPT ![asked[g]].room = TRUE]
    /\ AskedNothing(g) /\ Straying(g)
    /\ UNCHANGED <<on, locks, stack, raising, answer, roots, scopes, reads>>

-----------------------------------------------------------------------------
(* Call, and what the library does before it answers.                      *)

\* Capability.check, Ref.checkUsable: what was made in run o is good here.
Usable(g, o) == runs[o].live /\ IsCurrent(g, o)

\* Called: what was made in the runs `given` is handed over, each of which is
\* asked (Capability.Requirements, Ref.In) before anything is called; what
\* the library makes of a function of the host's reads its room.
Call(g, given) ==
    LET r == asked[g]
        reading == {o \in given : runs[o].room}
    IN
    /\ MayMake(g)
    /\ reading # {} => Cardinality(reads) < MaxReads
    /\ IF \E o \in given : ~Usable(g, o)
       THEN Misused(g) /\ UNCHANGED <<stack, answer, runs, reads>>
       ELSE IF \E o \in given : runs[o].lib # runs[r].lib
       THEN Answers(g, "ErrForeignHandle") /\ UNCHANGED <<stack, raising, runs, reads>>
       ELSE /\ Height(g) < MaxDepth
            /\ stack' = [stack EXCEPT ![g] = Append(@, Frame("call", r, given, 0))]
            /\ runs' = [runs EXCEPT ![r].calls = Append(@, Nothing)]
            /\ reads' = reads \cup {[thread |-> on[g], scope |-> Last(scopes[on[g]][runs[r].lib]),
                                     room |-> o] : o \in reading}
            /\ UNCHANGED <<raising, answer>>
    /\ AskedNothing(g) /\ Straying(g)
    /\ UNCHANGED <<on, locks, roots, scopes>>

\* Mutant of Innermost: the run the implementation was made in is lent.
InnermostOrigin(o) == o

\* Run.innermost, from each run down the runs open inside it.
down[n \in Run] == IF runs[n].child = 0 THEN n ELSE down[runs[n].child]
Innermost(o) == down[o]

\* Host, as far as it finds a call to keep a failure in.
Lends(g, o) == Usable(g, o) /\ runs[Innermost(o)].calls # <<>>

\* Host: the library calls an implementation of run o, which is lent the
\* innermost run; the frame of its call is found by its place again later.
\* Where there is no call the library is told so, and nothing changes.
CallBack(g, o) ==
    LET inner == Innermost(o) IN
    /\ InLibrary(g) /\ o \in Top(g).given /\ runs[o].room
    /\ Lends(g, o)
    /\ Height(g) < MaxDepth
    /\ stack' = [stack EXCEPT ![g] = Append(@, Frame("host", inner, {}, Len(runs[inner].calls)))]
    /\ Answers(g, Nothing)
    /\ UNCHANGED <<on, locks, asked, raising, roots, runs, scopes, reads, strayed>>

HostAnswers(g) ==
    /\ InHost(g) /\ stack[g] # <<>> /\ Top(g).kind = "host"
    /\ stack' = [stack EXCEPT ![g] = Front(@)]
    /\ Answers(g, Nothing)
    /\ UNCHANGED <<on, locks, asked, raising, roots, runs, scopes, reads, strayed>>

\* Mutant of KeptOf: the last failure is what the call comes to.
KeptOfLast(kept, caught) == caught

\* keptOf: "The first is what the library was told of".
KeptOf(kept, caught) == IF kept = Nothing THEN caught ELSE kept

\* History: the first MaxRaised failures raised under a call.
Remembered(raised, caught) == IF Len(raised) < MaxRaised THEN Append(raised, caught) ELSE raised

\* The implementation fails: what it left is kept with the call, and a panic
\* does not go on into the library.
HostFails(g, caught) ==
    LET below == Front(stack[g]) IN
    /\ stack[g] # <<>> /\ Top(g).kind = "host" /\ asked[g] = 0
    /\ caught = "panicked" <=> raising[g] # Nothing
    /\ runs' = [runs EXCEPT ![Top(g).run].calls[Top(g).at] = KeptOf(@, caught)]
    /\ stack' = [stack EXCEPT ![g] = [below EXCEPT ![Len(below)].raised = Remembered(@, caught)]]
    /\ raising' = [raising EXCEPT ![g] = Nothing]
    /\ Answers(g, Nothing)
    /\ UNCHANGED <<on, locks, asked, roots, scopes, reads, strayed>>

\* The frame of the call is dropped, whether the call returned or panicked.
Dropped(g) ==
    /\ stack' = [stack EXCEPT ![g] = Front(@)]
    /\ runs' = [runs EXCEPT ![Top(g).run].calls = Front(@)]

\* statusTable.outcome: what was kept, whatever the status; without anything
\* kept, what the status says.
Outcome(status, kept) ==
    IF kept # Nothing THEN kept
    ELSE CASE status = "ANSWERED" -> "answered"
           [] status \in {"HOST_EXCEPTION", "INJECTION_PROTOCOL_VIOLATION"} -> "ErrProtocolViolation"
           [] status = "INJECTION_UNBOUND" -> "ErrUnbound"
           [] OTHER -> "Abort"

Statuses == {"ANSWERED", "HOST_EXCEPTION", "INJECTION_UNBOUND", "DIVISION_BY_ZERO"}

Return(g, status) ==
    LET came == Outcome(status, Last(runs[Top(g).run].calls)) IN
    /\ InLibrary(g)
    /\ Dropped(g)
    /\ IF came = "panicked"
       THEN Misused(g) /\ Answers(g, Nothing)
       ELSE Answers(g, came) /\ UNCHANGED raising
    /\ UNCHANGED <<on, locks, asked, roots, scopes, reads, strayed>>

-----------------------------------------------------------------------------
(* Panics, and the end of a run by deferred calls.                         *)

Panics(g) ==
    /\ InHost(g) /\ stack[g] # <<>>
    /\ Misused(g)
    /\ Answers(g, Nothing)
    /\ UNCHANGED <<on, locks, stack, asked, roots, runs, scopes, reads, strayed>>

\* The host's own code recovers, in the function the panic has come to.
Recovers(g) ==
    /\ raising[g] # Nothing /\ on[g] # None
    /\ stack[g] # <<>> => Top(g).kind # "call" /\ Top(g).phase = "in"
    /\ raising' = [raising EXCEPT ![g] = Nothing]
    /\ UNCHANGED <<on, locks, stack, asked, answer, roots, runs, scopes, reads, strayed>>

\* The end of the innermost run of g has come as far as `phase`.
Ending(g, phase) == stack[g] # <<>> /\ Top(g).kind \in Opened /\ Top(g).phase = phase

ComesTo(g, phase) == stack' = [stack EXCEPT ![g][Height(g)].phase = phase]

\* Mutant of Expire: what the run held is released before the scope is closed.
ExpireReleasing(g) ==
    /\ Ending(g, "in") /\ asked[g] = 0
    /\ runs' = [runs EXCEPT ![Top(g).run].live = FALSE, ![Top(g).run].room = FALSE]
    /\ ComesTo(g, "expired")
    /\ Answers(g, Nothing)
    /\ UNCHANGED <<on, locks, asked, raising, roots, scopes, reads, strayed>>

\* The function returned or panicked: the run is live no more.
Expire(g) ==
    /\ Ending(g, "in") /\ asked[g] = 0
    /\ runs' = [runs EXCEPT ![Top(g).run].live = FALSE]
    /\ ComesTo(g, "expired")
    /\ Answers(g, Nothing)
    /\ UNCHANGED <<on, locks, asked, raising, roots, scopes, reads, strayed>>

\* rt.close: souther_scope_close on the arena of the thread this is, which
\* refuses any scope but the innermost.  A refusal is raised by Release.
CloseScope(g) ==
    LET n == Top(g).run
        l == runs[n].lib
        t == on[g]
    IN
    /\ Ending(g, "expired") /\ t # None
    /\ IF scopes[t][l] # <<>> /\ Last(scopes[t][l]) = n
       THEN /\ scopes' = [scopes EXCEPT ![t][l] = Front(@)]
            /\ reads' = {r \in reads : r.scope # n}
            /\ ComesTo(g, "closed")
       ELSE ComesTo(g, "refused") /\ UNCHANGED <<scopes, reads>>
    /\ UNCHANGED <<on, locks, asked, raising, answer, roots, runs, strayed>>

\* Run.end: everything the run held is let go of, and a refused close is a panic.
Release(g) ==
    /\ Ending(g, "closed") \/ Ending(g, "refused")
    /\ runs' = [runs EXCEPT ![Top(g).run].room = FALSE, ![Top(g).run].calls = <<>>]
    /\ IF Top(g).phase = "refused" THEN Misused(g) ELSE UNCHANGED raising
    /\ ComesTo(g, "ended")
    /\ UNCHANGED <<on, locks, asked, answer, roots, scopes, reads, strayed>>

\* Run.Scope's deferred call: no run is open inside the one outside any more.
LeaveScope(g) ==
    /\ Ending(g, "ended") /\ Top(g).kind = "scope"
    /\ runs' = [n \in Run |-> IF runs[n].child = Top(g).run
                              THEN [runs[n] EXCEPT !.child = 0] ELSE runs[n]]
    /\ stack' = [stack EXCEPT ![g] = Front(@)]
    /\ UNCHANGED <<on, locks, asked, raising, answer, roots, scopes, reads, strayed>>

\* leaveRoot takes the root run of this runtime on this thread off.
LeaveRoot(g) ==
    LET n == Top(g).run
        key == [identity |-> runs[n].lib, thread |-> runs[n].thread]
        at == {i \in DOMAIN roots : roots[i] = key}
    IN
    /\ Ending(g, "ended") /\ Top(g).kind = "run"
    /\ IF at = {} THEN UNCHANGED roots
       ELSE \E i \in at : (\A j \in at : i <= j) /\ roots' = RemoveAt(roots, i)
    /\ ComesTo(g, "left")
    /\ UNCHANGED <<on, locks, asked, raising, answer, runs, scopes, reads, strayed>>

\* runtime.UnlockOSThread, deferred first and so called last.
Unlock(g) ==
    /\ Ending(g, "left")
    /\ locks' = [locks EXCEPT ![g] = IF @ = 0 THEN 0 ELSE @ - 1]
    /\ stack' = [stack EXCEPT ![g] = Front(@)]
    /\ UNCHANGED <<on, asked, raising, answer, roots, runs, scopes, reads, strayed>>

-----------------------------------------------------------------------------

Next ==
    \E g \in Goroutine :
        \/ \E t \in Thread \cup {None} : Move(g, t)
        \/ \E l \in Lib : EnterRun(g, l)
        \/ \E n \in Run : AskLive(g, n) \/ CallBack(g, n)
        \/ Refused(g) \/ EnterScope(g) \/ Implement(g)
        \/ \E given \in {{}} \cup {{o} : o \in Run} : Call(g, given)
        \/ HostAnswers(g)
        \/ \E caught \in Caught : HostFails(g, caught)
        \/ \E status \in Statuses : Return(g, status)
        \/ Panics(g) \/ Recovers(g)
        \/ Expire(g) \/ CloseScope(g) \/ Release(g)
        \/ LeaveScope(g) \/ LeaveRoot(g) \/ Unlock(g)

Spec == Init /\ [][Next]_vars

-----------------------------------------------------------------------------

\* Where the runs of library l whose scope is not yet closed are on the stack of
\* goroutine g.
Standing(g, l) ==
    {i \in 1..Height(g) : /\ stack[g][i].kind \in Opened /\ stack[g][i].phase \in {"in", "expired"}
                          /\ runs[stack[g][i].run].lib = l}

\* The scopes `up` are those of the runs of l standing on g, in their order.
StandsFor(up, g, l) ==
    LET Is(m, i) == up[m] = stack[g][i].run
    IN /\ \A m \in 1..Len(up) : \E i \in Standing(g, l) : Is(m, i)
       /\ \A i \in Standing(g, l) : \E m \in 1..Len(up) : Is(m, i)
       /\ \A m, k \in 1..Len(up), i, j \in Standing(g, l) : Is(m, i) /\ Is(k, j) => (m < k <=> i < j)

\* "It panics ... where either run has ended, is on another goroutine, or where
\* run is not the innermost" (run.go, In, checkMaking): whatever runs any goroutine
\* kept and used, a call under way was made on the goroutine that opened its run,
\* through the innermost run of its library there, and is handed only what was
\* made in runs that goroutine has open.  It does not hold: a run may end, and the
\* goroutine that asks it be moved to its thread, between the two questions.
CallsAreWhereTheyBelong ==
    \A g \in Goroutine : \A i \in 1..Height(g) :
        LET f == stack[g][i]
            below == {j \in 1..(i - 1) : stack[g][j].kind \in Opened}
            open == {stack[g][j].run : j \in below}
        IN  f.kind = "call" =>
                /\ f.run \in open /\ runs[f.run].by = g
                /\ \A n \in open : runs[n].lib = runs[f.run].lib => n <= f.run
                /\ f.given \subseteq open /\ \A n \in f.given : runs[n].live

\* That is the only way to a call where it does not belong: until a run that had
\* ended has passed a check, every call is where it belongs.
CallsBelongUnlessStrayed == strayed \/ CallsAreWhereTheyBelong

\* "The scope is the innermost the thread has open when it is closed, since runs
\* on a thread nest and this thread is locked to the goroutine" (run.go,
\* within): the arena of a thread has open the scopes of the runs on the stack of the
\* goroutine that is on it, in their order, and no others, so none is left
\* open for the next goroutine and no close is refused, unless strayed.
ArenasFollowTheStacks == ~strayed =>
    /\ \A g \in Goroutine : \A l \in Lib :
            IF on[g] = None THEN Standing(g, l) = {} ELSE StandsFor(scopes[on[g]][l], g, l)
    /\ \A t \in Thread : (\A g \in Goroutine : on[g] # t) => \A l \in Lib : scopes[t][l] = <<>>

\* "ErrAlreadyRunning where a root run of this runtime is open on this thread,
\* through this handle on it or another one" (run.go, Run): a goroutine that asks for a
\* root run is refused exactly inside a root run of that library of its own,
\* never because of one another goroutine has, or had on this thread before,
\* unless strayed.
RefusedInsideItsOwnRun == ~strayed =>
    \A g \in Goroutine : InHost(g) =>
        \A l \in Lib :
            Entered(l, on[g]) <=>
                \E i \in 1..Height(g) : stack[g][i].kind = "run" /\ runs[stack[g][i].run].lib = l

\* A host implementation is run "in the run the call it was called back from was
\* made in" (run.go, Host), and the place its failure is kept at is that call's,
\* whatever runs and calls are nested under it; a callback always finds it,
\* unless strayed.
LentTheRunOfItsCall == ~strayed =>
    \A g \in Goroutine : \A i \in 1..Height(g) :
        LET f == stack[g][i] IN
        /\ f.kind = "host" =>
                /\ f.run = stack[g][i - 1].run
                /\ f.at = Cardinality({j \in 1..(i - 1) : /\ stack[g][j].kind = "call"
                                                          /\ stack[g][j].run = f.run})
        /\ f.kind = "call" /\ i = Height(g) => \A o \in f.given : Lends(g, o)

\* What the library reads of a host's function is freed only once no value in an
\* arena reads it: "what the run kept is released once nothing in the arena
\* reads it" (run.go, within), also where the function was handed to a run inside,
\* unless strayed.
RoomsStandWhileRead == ~strayed => \A r \in reads : runs[r.room].room

\* A call comes to the first failure an implementation it called back left,
\* whatever status the library answers and whatever the implementation's own
\* calls came to, and to none where none failed ("TheFirstFailureOfACallIsTheOneItIsAnsweredWith"),
\* unless strayed.
ComesToItsFirstFailure ==
    [][~strayed => \A g \in Goroutine :
        InLibrary(g) /\ Len(stack'[g]) < Height(g) =>
            IF Top(g).raised = <<>>
            THEN raising'[g] = Nothing /\ answer'[g] \notin Caught
            ELSE IF Top(g).raised[1] = "panicked"
            THEN raising'[g] = "panicked"
            ELSE raising'[g] = Nothing /\ answer'[g] = Top(g).raised[1]]_vars
=============================================================================
