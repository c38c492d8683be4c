------------------------------- MODULE PhpRun -------------------------------
(***************************************************************************)
(* Runs of the PHP binding over the fibers of one thread                   *)
(* (bindings/php/runtime/src: NativeLibrary.php, Binding.php, Session.php, *)
(* NativeHandle.php, FunctionSlot.php, InjectionSlot.php, Pending.php).    *)
(*                                                                         *)
(* One thread has one arena in each library whatever fibers there are, so  *)
(* the scopes of a library are one stack under all of them.  `stack` is    *)
(* the PHP stack of each fiber: the bodies of runs, the calls into a       *)
(* library, the implementations and closures called back, and runs whose   *)
(* session has ended while their scope has not ("ending").                 *)
(*                                                                         *)
(* A refusal (RunOnAnotherFiber, OutsideAnyRun, NotTheInnermostRun,        *)
(* Expired) is thrown before anything changes and is no step here.         *)
(***************************************************************************)
EXTENDS Integers, Sequences, SequencesExt, FiniteSets

CONSTANTS
    Lib,        \* the libraries, by device and inode
    Fiber,      \* the fibers, the main one among them
    Main,       \* the main fiber: what Fiber::getCurrent answers null on
    Thrown,     \* what an implementation may throw
    None,       \* no session, nothing thrown
    Reentrant,  \* whether what a closure handed over holds has a destructor that
                \* uses the binding
    MaxDepth,   \* bound on the depth of one fiber's stack
    MaxRuns     \* bound on the runs started over the whole behaviour

ASSUME FiberAssumption == Main \in Fiber
ASSUME NoneAssumption == None \notin Thrown /\ None \notin Lib
ASSUME ReentrantAssumption == Reentrant \in BOOLEAN

VARIABLES
    current,    \* the fiber running
    stack,      \* the PHP stack of each fiber, innermost last
    open,       \* NativeLibrary::$open: the runs going of each library, innermost last
    holder,     \* NativeLibrary::$holder
    active,     \* the sessions not expired
    keeping,    \* the sessions that keep a function made of a closure
    opened,     \* Session::$opened
    scopes,     \* the scopes open in each library's arena, each by its run's number
    values,     \* the values the host holds: a session and the scope each stands in
    pending,    \* Pending::$thrown
    failed      \* what the last call that failed threw, and what its implementation had

vars == <<current, stack, open, holder, active, keeping, opened, scopes, values, pending, failed>>
runs == <<open, holder, active, opened>>

Here == stack[current]
Top == Last(Here)

Frame(kind, session) == [kind |-> kind, session |-> session, left |-> None]
Push(frame) == stack' = [stack EXCEPT ![current] = Append(@, frame)]
Pop == stack' = [stack EXCEPT ![current] = Front(@)]
Room == Len(Here) < MaxDepth

\* The fiber is running the host's own PHP: its main code, the body of a run,
\* what a library called back, or a destructor run as a session is emptied.
HostCode ==
    Here # <<>> =>
        \/ Top.kind \in {"run", "implementation"}
        \/ Top.kind = "ending" /\ Reentrant /\ Top.session \in keeping

Init ==
    /\ current = Main
    /\ stack = [f \in Fiber |-> <<>>]
    /\ open = [l \in Lib |-> <<>>]
    /\ holder = [l \in Lib |-> Main]
    /\ active = {}
    /\ keeping = {}
    /\ opened = 0
    /\ scopes = [l \in Lib |-> <<>>]
    /\ values = {}
    /\ pending = None
    /\ failed = [left |-> None, thrown |-> None]

\* Fiber::suspend and resume: any fiber may be the next to go on.
Switch(f) ==
    /\ HostCode
    /\ f # current
    /\ current' = f
    /\ UNCHANGED <<stack, runs, keeping, scopes, values, pending, failed>>

-----------------------------------------------------------------------------
(* Binding::run.                                                           *)

\* Mutant of MayOpen: a run is started whichever fiber the others are on.
MayOpenAnywhere(l) == TRUE

\* Whether NativeLibrary::open starts a run here rather than refusing it.
MayOpen(l) == open[l] = <<>> \/ holder[l] = current

\* The session first and then the scope, with no host code between the two.
Run(l) ==
    LET session == [order |-> opened + 1, library |-> l, fiber |-> current]
    IN /\ HostCode /\ Room /\ opened < MaxRuns
       /\ MayOpen(l)
       /\ holder' = [holder EXCEPT ![l] = current]
       /\ open' = [open EXCEPT ![l] = Append(@, session)]
       /\ active' = active \cup {session}
       /\ opened' = opened + 1
       /\ scopes' = [scopes EXCEPT ![l] = Append(@, session.order)]
       /\ Push(Frame("run", session))
       /\ UNCHANGED <<current, keeping, values, pending, failed>>

\* The body returned or threw: NativeLibrary::close ends the session, up to the
\* emptying of what it kept.
Close ==
    /\ Here # <<>> /\ Top.kind = "run"
    /\ LET session == Top.session
           l == session.library
       IN /\ Last(open[l]) = session
          /\ open' = [open EXCEPT ![l] = Front(@)]
          /\ active' = active \ {session}
          /\ stack' = [stack EXCEPT ![current] = Append(Front(@), Frame("ending", session))]
    /\ UNCHANGED <<current, holder, keeping, opened, scopes, values, pending, failed>>

\* souther_scope_close, which closes the scope only where it is the innermost;
\* where it refuses, run() throws and the scope stays.
ScopesAfter(session) ==
    LET l == session.library
    IN IF Last(scopes[l]) = session.order THEN [scopes EXCEPT ![l] = Front(@)] ELSE scopes

\* The rest of NativeLibrary::close, and of run().
Ended ==
    /\ Here # <<>> /\ Top.kind = "ending"
    /\ LET session == Top.session
           l == session.library
       IN /\ holder' = [holder EXCEPT ![l] = IF open[l] = <<>> THEN Main ELSE @]
          /\ keeping' = keeping \ {session}
          /\ scopes' = ScopesAfter(session)
    /\ Pop
    /\ UNCHANGED <<current, open, active, opened, values, pending, failed>>

-----------------------------------------------------------------------------
(* Functions of a binding, called in the innermost run.                    *)

\* NativeLibrary::innermostHere.
InnermostHere(l) ==
    IF open[l] # <<>> /\ holder[l] = current THEN {Last(open[l])} ELSE {}

\* Mutant of InnermostOf: the run opened first is taken.
OutermostOf(libs) ==
    LET here == UNION {InnermostHere(l) : l \in libs}
    IN IF here = {} THEN None ELSE CHOOSE s \in here : \A o \in here : s.order <= o.order

\* Binding::innermostOf, for a binding loaded for `libs`.
InnermostOf(libs) ==
    LET here == UNION {InnermostHere(l) : l \in libs}
    IN IF here = {} THEN None ELSE CHOOSE s \in here : \A o \in here : s.order >= o.order

\* Session::ffi and Session::call: whether a computation starts through s.
Calls(s) == s \in active /\ s.fiber = current /\ Last(open[s.library]) = s

\* A function of a binding starts a computation.
Call(libs) ==
    /\ HostCode /\ Room
    /\ InnermostOf(libs) # None
    /\ Calls(InnermostOf(libs))
    /\ Push(Frame("call", InnermostOf(libs)))
    /\ UNCHANGED <<current, runs, keeping, scopes, values, pending, failed>>

\* FunctionSlot::implement and Session::keep: a closure is made a function of
\* the innermost run, which keeps it until it ends.
Implement(libs) ==
    /\ HostCode
    /\ InnermostOf(libs) # None
    /\ Calls(InnermostOf(libs))
    /\ keeping' = keeping \cup {InnermostOf(libs)}
    /\ UNCHANGED <<current, stack, runs, scopes, values, pending, failed>>

InLibrary == Here # <<>> /\ Top.kind = "call"

\* The library answers a value, which its arena has in the scope then innermost
\* and Session::held gives to the session the call was made in.
Answers ==
    /\ InLibrary /\ Top.left = None
    /\ values' = values \cup {[session |-> Top.session,
                               scope |-> Last(scopes[Top.session.library])]}
    /\ Pop
    /\ UNCHANGED <<current, runs, keeping, scopes, pending, failed>>

\* The library refuses or aborts: a status that is neither ANSWERED nor
\* HOST_EXCEPTION, thrown as a SoutherFailure.
Aborts ==
    /\ InLibrary /\ Top.left = None
    /\ Pop
    /\ UNCHANGED <<current, runs, keeping, scopes, values, pending, failed>>

\* Mutant of Borrow: the run a value was made in is not asked for.
BorrowExpired(value, into) == into \in active /\ into.library = value.session.library

\* NativeHandle::borrow: whether a value is handed to a computation in `into`.
Borrow(value, into) ==
    /\ value.session \in active
    /\ into.library = value.session.library
    /\ into \in active

-----------------------------------------------------------------------------
(* InjectionSlot::dispatch and FunctionSlot::dispatch.                     *)

\* The library calls an implementation or a closure back, in the session that
\* is NativeLibrary::current, which holds what it is handed: a value that may
\* stand in any scope then open.
CallBack ==
    /\ InLibrary /\ Top.left = None /\ Room
    /\ LET l == Top.session.library
           session == Last(open[l])
       IN /\ Push(Frame("implementation", session))
          /\ \E scope \in ToSet(scopes[l]) :
                values' = values \cup {[session |-> session, scope |-> scope]}
    /\ UNCHANGED <<current, runs, keeping, scopes, pending, failed>>

Implementation == Here # <<>> /\ Top.kind = "implementation"

ImplementationAnswers ==
    /\ Implementation
    /\ Pop
    /\ UNCHANGED <<current, runs, keeping, scopes, values, pending, failed>>

\* It throws: Pending::keep, and HOST_EXCEPTION to the call that reached it.
ImplementationThrows(x) ==
    /\ Implementation
    /\ pending' = x
    /\ stack' = [stack EXCEPT ![current] =
                    [Front(@) EXCEPT ![Len(@) - 1] = [Here[Len(Here) - 1] EXCEPT !.left = x]]]
    /\ UNCHANGED <<current, runs, keeping, scopes, values, failed>>

\* Mutant of Taken: what is pending is answered and left where it is.
TakenKept == pending

\* Pending::take: what is left of `pending` once it is answered.
Taken == None

\* NativeLibrary::failure, of a call that an implementation's exception ended.
Fails ==
    /\ InLibrary /\ Top.left # None
    /\ failed' = [left |-> Top.left, thrown |-> pending]
    /\ pending' = Taken
    /\ Pop
    /\ UNCHANGED <<current, runs, keeping, scopes, values>>

-----------------------------------------------------------------------------

Next ==
    \/ \E f \in Fiber : Switch(f)
    \/ \E l \in Lib : Run(l)
    \/ Close
    \/ Ended
    \/ \E libs \in SUBSET Lib : Call(libs) \/ Implement(libs)
    \/ Answers
    \/ Aborts
    \/ CallBack
    \/ ImplementationAnswers
    \/ \E x \in Thrown : ImplementationThrows(x)
    \/ Fails

Spec == Init /\ [][Next]_vars

-----------------------------------------------------------------------------

\* Where the runs of library l stand on the stack of fiber f.
RunsOn(f, l) ==
    {i \in DOMAIN stack[f] : stack[f][i].kind = "run" /\ stack[f][i].session.library = l}

\* The runs a library has going are those of one fiber's stack, in the order
\* they nest there.
RunsNest(l) ==
    LET n == Len(open[l])
        here == RunsOn(holder[l], l)
        Is(m, i) == open[l][m] = stack[holder[l]][i].session
    IN /\ \A f \in Fiber : RunsOn(f, l) # {} => f = holder[l]
       /\ \A m \in 1..n : \E i \in here : Is(m, i)
       /\ \A i \in here : \E m \in 1..n : Is(m, i)
       /\ \A m, k \in 1..n, i, j \in here : Is(m, i) /\ Is(k, j) => (m < k <=> i < j)

\* A run of library l has ended while its scope has not.
Ending(l) ==
    \E f \in Fiber : \E i \in DOMAIN stack[f] :
        stack[f][i].kind = "ending" /\ stack[f][i].session.library = l

\* "the runs stay one stack whatever fibers there are" (NativeLibrary.php,
\* $holder): the runs a library has going nest on one fiber's stack, and with
\* none ending the arena has a scope open for each and no other.  So
\* souther_scope_close is handed the innermost.
RunsAreOneStack ==
    \A l \in Lib :
        /\ RunsNest(l)
        /\ ~Ending(l) => scopes[l] = [m \in 1..Len(open[l]) |-> open[l][m].order]

\* "the innermost run going on this fiber of any library the binding was
\* loaded for" (Binding.php, innermostOf): the session found is that of the
\* run nested deepest on the running fiber's stack, over all the binding's
\* libraries, whatever runs other fibers have going.
FoundIsInnermost ==
    HostCode =>
        \A libs \in SUBSET Lib :
            LET at == {i \in DOMAIN Here :
                           Here[i].kind = "run" /\ Here[i].session.library \in libs}
            IN IF at = {} THEN InnermostOf(libs) = None
               ELSE \E i \in at : /\ \A j \in at : j <= i
                                  /\ InnermostOf(libs) = Here[i].session
                                  /\ Calls(Here[i].session)

\* "A value made in a run is good until then" (Session.php): a value that
\* borrow() hands over is one whose memory the arena has not had back.
HeldValuesStand ==
    \A v \in values : \A into \in active :
        Borrow(v, into) => v.scope \in ToSet(scopes[into.library])

\* A call that fails throws what its own implementation threw, and nothing is
\* left in the one slot of the process for a call of another fiber, or of
\* another library, to answer with (Pending.php, NativeLibrary::failure).
NothingPends ==
    HostCode => pending = None /\ failed.thrown = failed.left
=============================================================================
