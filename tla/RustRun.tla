------------------------------ MODULE RustRun ------------------------------
(***************************************************************************)
(* Runs, calls and callbacks of the Rust binding on one thread             *)
(* (bindings/rust/runtime/src: run.rs, keep.rs, bound.rs, failure.rs).     *)
(*                                                                         *)
(* Both registers are thread-local, so one thread is the whole system.     *)
(* `stack` is the Rust stack: the closures a run or a nested run is inside *)
(* of, the calls into a library, the host implementations called back.     *)
(* What the borrow checker admits is a guard: a run is used only while no  *)
(* run inside it and no call through it is open (Usable), and an           *)
(* implementation reaches no run but the one it is lent.  `host` is        *)
(* entered by what the library calls back, as its documentation says.      *)
(*                                                                         *)
(* A keeper, and a scope of the arena, is named by how deep the run that   *)
(* opened it stands.                                                       *)
(***************************************************************************)
EXTENDS Integers, Sequences, SequencesExt, FiniteSets

CONSTANTS
    Lib,        \* the libraries, by the identity of their runtimes
    Payload,    \* what a host fails or panics with
    None,       \* no library, nothing caught
    MaxDepth,   \* bound on the depth of the stack
    MaxBinding, \* bound on how deep behaviors are bound to one another
    MaxReads,   \* bound on the values in the arenas that read a host's function
    MaxRaised   \* bound on the failures of one call's implementations that are remembered

ASSUME NoneAssumption == None \notin Lib
ASSUME BoundsAssumption ==
    /\ MaxDepth \in Nat /\ MaxBinding \in Nat /\ MaxReads \in Nat
    /\ MaxRaised \in Nat \ {0}

VARIABLES
    stack,      \* the Rust stack, innermost last
    OPEN,       \* the libraries with a root run open on this thread
    CALLS,      \* the calls into a library open on this thread, the innermost last
    scopes,     \* the scopes open in each library's arena
    rooms,      \* the keepers with the room of a function value in them
    reads,      \* what the arenas hold: a library, the scope it goes with, the keeper it reads
    unwinding,  \* the panic on its way up the stack
    answer      \* what the last step answered the host's code, a refusal or what a call came to,
                \* which is "raised" where the call raised the panic it held

vars == <<stack, OPEN, CALLS, scopes, rooms, reads, unwinding, answer>>

Top == Last(stack)
Depth == Len(stack)
Runs == {"run", "scope"}

\* What a host implementation leaves: a panic, an error of its own, or the
\* failure of a conversion on the way back (CallbackFailure).
Failed == [how : {"panicked", "host", "crossing"}, what : Payload]
Nothing == [how |-> "none", what |-> None]

-----------------------------------------------------------------------------
(* What is bound to what.                                                  *)

\* Implemented::new: what a host's own implementation stands on.
Implemented(l) == [made |-> l, libs |-> {l}, hosts |-> {l}]

\* Mutant of Bound: only what bound the requirements is looked at, and not what
\* they stand on.
BoundToItsNext(l, requires) ==
    [made |-> IF \A r \in requires : r.made # None => r.made = l THEN l ELSE None,
     libs |-> {l} \cup UNION {r.libs : r \in requires},
     hosts |-> UNION {r.hosts : r \in requires}]

\* Bound::new: a behavior of l bound to what stands for what it requires.  It
\* is made by l where everything it stands on is; `libs` and `hosts` say whose
\* code a call of it runs and whose implementations that calls back.
Bound(l, requires) ==
    [made |-> IF \A r \in requires : r.made = l THEN l ELSE None,
     libs |-> {l} \cup UNION {r.libs : r \in requires},
     hosts |-> UNION {r.hosts : r \in requires}]

\* What a host may have bound to what it has.
BoundTo(made) == {Bound(l, requires) : l \in Lib, requires \in SUBSET made}

\* What a host may have bound, up to a depth of MaxBinding.
Bindings ==
    LET upTo[n \in 0..MaxBinding] ==
            IF n = 0 THEN {Implemented(l) : l \in Lib} ELSE upTo[n - 1] \cup BoundTo(upTo[n - 1])
    IN  upTo[MaxBinding]

Init ==
    /\ stack = <<>>
    /\ OPEN = <<>>
    /\ CALLS = <<>>
    /\ scopes = [l \in Lib |-> <<>>]
    /\ rooms = {}
    /\ reads = {}
    /\ unwinding = Nothing
    /\ answer = <<"nothing">>

-----------------------------------------------------------------------------
(* Which code runs, and which runs it can use.                             *)

InHost == unwinding = Nothing /\ (stack # <<>> => Top.kind # "call" /\ Top.phase = "in")
InLibrary == unwinding = Nothing /\ stack # <<>> /\ Top.kind = "call"

\* The frames the running closure can name: those above the implementation it
\* is in, and that one.
Reached ==
    {i \in 1..Depth : \A j \in (i + 1)..Depth : stack[j].kind # "host"}

Usable(i) ==
    /\ i \in Reached
    /\ stack[i].kind # "call"
    /\ \A j \in (i + 1)..Depth : stack[j].via # i

\* The frame a run is: its library, the keeper it keeps things in, the run it
\* was opened through, and how far its end has come.
Frame(kind, l, keeper, via) ==
    [kind |-> kind, lib |-> l, keeper |-> keeper, via |-> via, phase |-> "in",
     runs |-> {}, hosts |-> {}, raised |-> <<>>]

OpenBracket(l) == scopes' = [scopes EXCEPT ![l] = Append(@, Depth + 1)]

-----------------------------------------------------------------------------
(* run, Run::scope.                                                        *)

\* A root run, refused where one of the library is open on this thread.
EnterRun(l) ==
    /\ InHost
    /\ IF Contains(OPEN, l)
       THEN answer' = <<"refused">> /\ UNCHANGED <<stack, OPEN, scopes>>
       ELSE /\ Depth < MaxDepth
            /\ OPEN' = Append(OPEN, l)
            /\ OpenBracket(l)
            /\ stack' = Append(stack, Frame("run", l, Depth + 1, 0))
            /\ answer' = <<"nothing">>
    /\ UNCHANGED <<CALLS, rooms, reads, unwinding>>

\* A run inside a run, with a keeper of its own; the one outside is borrowed.
EnterScope(i) ==
    /\ InHost
    /\ Usable(i)
    /\ Depth < MaxDepth
    /\ OpenBracket(stack[i].lib)
    /\ stack' = Append(stack, Frame("scope", stack[i].lib, Depth + 1, i))
    /\ answer' = <<"nothing">>
    /\ UNCHANGED <<OPEN, CALLS, rooms, reads, unwinding>>

\* Run::host_function: the room of the value is kept by the keeper of the run,
\* or of the run it was lent from; one made before is answered again.
HostFunction(i) ==
    /\ InHost
    /\ Usable(i)
    /\ rooms' = rooms \cup {stack[i].keeper}
    /\ answer' = <<"nothing">>
    /\ UNCHANGED <<stack, OPEN, CALLS, scopes, reads, unwinding>>

-----------------------------------------------------------------------------
(* Run::call, and what the library does before it answers.                 *)

\* Mutant of WordIn: a value is handed to whichever library is called.
WordInAny(i, l) == TRUE

\* Held::word_in: a function value of frame i may be handed to a call into l.
WordIn(i, l) == stack[i].lib = l

\* What the arena of l holds once the library has kept a value that reads
\* what `keeper` keeps: it goes with the innermost scope.
Kept(l, keeper) == reads \cup {[lib |-> l, scope |-> Last(scopes[l]), keeper |-> keeper]}

\* A call is refused before it is made where anything in it is another's.
Refused(l, bound, given) == bound.made # l \/ \E i \in given : ~WordIn(i, l)

\* A behavior is called through run i, handed the function values of the runs
\* in `given`: Bound::requirements, Held::word_in and Run::call.
Call(i, bound, given) ==
    LET l == stack[i].lib IN
    /\ InHost
    /\ Usable(i)
    /\ given \subseteq Reached /\ \A j \in given : stack[j].keeper \in rooms
    /\ given # {} => Cardinality(reads) < MaxReads
    /\ IF Refused(l, bound, given)
       THEN answer' = <<"refused">> /\ UNCHANGED <<stack, CALLS, reads>>
       ELSE /\ Depth < MaxDepth
            /\ stack' = Append(stack, [Frame("call", l, stack[i].keeper, i) EXCEPT
                                            !.runs = bound.libs, !.hosts = bound.hosts])
            /\ CALLS' = Append(CALLS, [runtime |-> l, keeper |-> stack[i].keeper,
                                       caught |-> Nothing])
            /\ reads' = UNION ({reads} \cup {Kept(l, stack[j].keeper) : j \in given})
            /\ answer' = <<"nothing">>
    /\ UNCHANGED <<OPEN, scopes, rooms, unwinding>>

\* The call a host is lent the run of: the innermost on this thread, where it
\* is one into this library.
Lends(l) == CALLS # <<>> /\ Last(CALLS).runtime = l

\* Scope::over, the keeper of the call.
Enters(l) == Frame("host", l, Last(CALLS).keeper, 0)

\* host: an implementation under what the call is bound to is called back.
CallBack(l) ==
    /\ InLibrary
    /\ l \in Top.hosts
    /\ Lends(l)
    /\ Depth < MaxDepth
    /\ stack' = Append(stack, Enters(l))
    /\ answer' = <<"nothing">>
    /\ UNCHANGED <<OPEN, CALLS, scopes, rooms, reads, unwinding>>

\* host: the library was reached by something else on this thread, so there is
\* no run to lend.
CallBackOutside(l) ==
    /\ InHost
    /\ ~Lends(l)
    /\ answer' = <<"refused">>
    /\ UNCHANGED <<stack, OPEN, CALLS, scopes, rooms, reads, unwinding>>

\* The implementation answers, a function value it made or anything else, and
\* the library keeps it.
HostAnswers(function) ==
    /\ InHost /\ stack # <<>> /\ Top.kind = "host"
    /\ function => Top.keeper \in rooms /\ Cardinality(reads) < MaxReads
    /\ reads' = IF function THEN Kept(Top.lib, Top.keeper) ELSE reads
    /\ stack' = Front(stack)
    /\ answer' = <<"nothing">>
    /\ UNCHANGED <<OPEN, CALLS, scopes, rooms, unwinding>>

\* Mutant of Keeps: the last failure is what the call comes to.
KeepsLast(f) == [CALLS EXCEPT ![Len(CALLS)].caught = f]

\* call.caught.get_or_insert
Keeps(f) == [CALLS EXCEPT ![Len(CALLS)].caught = IF @ = Nothing THEN f ELSE @]

\* What went wrong is left for the call; its frame remembers the first MaxRaised.
Left(f) ==
    /\ CALLS' = Keeps(f)
    /\ stack' = [Front(stack) EXCEPT ![Depth - 1].raised =
                    IF Len(@) < MaxRaised THEN Append(@, f) ELSE @]
    /\ answer' = <<"nothing">>

\* The implementation answers a failure, its own or of the crossing back.
HostFails(f) ==
    /\ InHost /\ stack # <<>> /\ Top.kind = "host"
    /\ Left(f)
    /\ UNCHANGED <<OPEN, scopes, rooms, reads, unwinding>>

\* catch_unwind: a panic does not go on into the library.
HostCaught ==
    /\ unwinding # Nothing /\ stack # <<>> /\ Top.kind = "host"
    /\ Left(unwinding)
    /\ unwinding' = Nothing
    /\ UNCHANGED <<OPEN, scopes, rooms, reads>>

\* Statuses::answered, for a status and what was caught that is no panic.
Answered(status, caught) ==
    CASE caught.how = "host" -> <<"Host", caught.what>>
      [] caught.how = "crossing" -> <<"Crossing", caught.what>>
      [] caught = Nothing ->
            CASE status = "ANSWERED" -> <<"Ok">>
              [] status \in {"HOST_EXCEPTION", "INJECTION_PROTOCOL_VIOLATION"} ->
                    <<"ProtocolViolation">>
              [] status = "INJECTION_UNBOUND" -> <<"Unbound">>
              [] OTHER -> <<"Abort">>

\* A library that a host failed under says so or goes on; one that none failed
\* under answers whatever else it may.
Statuses == {"ANSWERED", "HOST_EXCEPTION", "INJECTION_PROTOCOL_VIOLATION",
             "INJECTION_UNBOUND", "DIVISION_BY_ZERO"}

\* The library answers: the call is taken off, and a panic it holds goes on.
Return(status) ==
    LET caught == Last(CALLS).caught IN
    /\ InLibrary
    /\ CALLS' = Front(CALLS)
    /\ stack' = Front(stack)
    /\ IF caught.how = "panicked"
       THEN unwinding' = caught /\ answer' = <<"raised">>
       ELSE answer' = Answered(status, caught) /\ UNCHANGED unwinding
    /\ UNCHANGED <<OPEN, scopes, rooms, reads>>

-----------------------------------------------------------------------------
(* Panics, and the end of a run.                                           *)

\* The closure of a run or of an implementation panics.
Panics(p) ==
    /\ InHost /\ stack # <<>>
    /\ unwinding' = [how |-> "panicked", what |-> p]
    /\ answer' = <<"nothing">>
    /\ UNCHANGED <<stack, OPEN, CALLS, scopes, rooms, reads>>

\* Mutant of NativePanics: what made the call panicked, and the call stays.
NativePanicsOpen(p) ==
    /\ InLibrary
    /\ stack' = Front(stack)
    /\ unwinding' = [how |-> "panicked", what |-> p]
    /\ answer' = <<"nothing">>
    /\ UNCHANGED <<OPEN, CALLS, scopes, rooms, reads>>

\* What made the call panics itself, beside the library: OpenCall is dropped.
NativePanics(p) ==
    /\ InLibrary
    /\ CALLS' = Front(CALLS)
    /\ stack' = Front(stack)
    /\ unwinding' = [how |-> "panicked", what |-> p]
    /\ answer' = <<"nothing">>
    /\ UNCHANGED <<OPEN, scopes, rooms, reads>>

\* Mutant of CloseBracket: an unwound run leaves its scope open.
CloseBracketOnAnswer ==
    LET l == Top.lib IN
    /\ stack # <<>> /\ Top.kind \in Runs /\ Top.phase = "in"
    /\ stack' = [stack EXCEPT ![Depth].phase = "closed"]
    /\ answer' = <<"nothing">>
    /\ IF unwinding = Nothing
       THEN scopes' = [scopes EXCEPT ![l] = Front(@)]
       ELSE UNCHANGED scopes
    /\ reads' = {r \in reads : ~(r.lib = l /\ r.scope = Depth)}
    /\ UNCHANGED <<OPEN, CALLS, rooms, unwinding>>

\* Bracket::drop, first, whether the closure answered or is unwound: the scope
\* is closed with what was made in it, and its refusal is a panic unless one
\* is on its way already.
CloseBracket ==
    LET l == Top.lib IN
    /\ stack # <<>> /\ Top.kind \in Runs /\ Top.phase = "in"
    /\ stack' = [stack EXCEPT ![Depth].phase = "closed"]
    /\ answer' = <<"nothing">>
    /\ IF scopes[l] # <<>> /\ Last(scopes[l]) = Depth
       THEN /\ scopes' = [scopes EXCEPT ![l] = Front(@)]
            /\ reads' = {r \in reads : ~(r.lib = l /\ r.scope = Depth)}
            /\ UNCHANGED unwinding
       ELSE /\ unwinding' = IF unwinding = Nothing
                            THEN [how |-> "panicked", what |-> None] ELSE unwinding
            /\ UNCHANGED <<scopes, reads>>
    /\ UNCHANGED <<OPEN, CALLS, rooms>>

\* Open::drop takes the root run of the library off, the last of that name.
LeaveOpen(l) ==
    LET at == CHOOSE n \in 1..Len(OPEN) :
                OPEN[n] = l /\ \A m \in (n + 1)..Len(OPEN) : OPEN[m] # l
    IN  OPEN' = RemoveAt(OPEN, at)

\* Then the root run is left, and the keeper goes last with its rooms.
DropRun ==
    /\ stack # <<>> /\ Top.kind \in Runs /\ Top.phase = "closed"
    /\ IF Top.kind = "run" THEN LeaveOpen(Top.lib) ELSE UNCHANGED OPEN
    /\ rooms' = rooms \ {Depth}
    /\ stack' = Front(stack)
    /\ answer' = <<"nothing">>
    /\ UNCHANGED <<CALLS, scopes, reads, unwinding>>

\* A panic that left every run is its caller's.
Leaves ==
    /\ stack = <<>> /\ unwinding # Nothing
    /\ unwinding' = Nothing
    /\ answer' = <<"nothing">>
    /\ UNCHANGED <<stack, OPEN, CALLS, scopes, rooms, reads>>

-----------------------------------------------------------------------------

Next ==
    \/ \E l \in Lib : EnterRun(l) \/ CallBackOutside(l)
    \/ \E i \in 1..Depth :
        \/ EnterScope(i)
        \/ HostFunction(i)
        \/ \E bound \in Bindings, given \in {{}} \cup {{j} : j \in 1..Depth} :
                Call(i, bound, given)
    \/ \E l \in Lib : CallBack(l)
    \/ \E function \in BOOLEAN : HostAnswers(function)
    \/ \E f \in Failed : f.how # "panicked" /\ HostFails(f)
    \/ \E status \in Statuses : Return(status)
    \/ \E p \in Payload : Panics(p) \/ NativePanics(p)
    \/ HostCaught \/ CloseBracket \/ DropRun \/ Leaves

Spec == Init /\ [][Next]_vars

-----------------------------------------------------------------------------

\* The two registers of the thread say what is on the stack, through every
\* refusal, panic and nested callback: the open calls and the runs they lend
\* are the calls on the stack, and the open libraries its root runs, each once
\* and in the order they stand in there (run.rs: OPEN, CALLS).
Ordinal(i) == Cardinality({j \in 1..i : stack[j].kind = stack[i].kind})
Standing(kind) == {i \in 1..Depth : stack[i].kind = kind}

RegistersFollowTheStack ==
    /\ Len(CALLS) = Cardinality(Standing("call"))
    /\ \A i \in Standing("call") : /\ CALLS[Ordinal(i)].runtime = stack[i].lib
                                   /\ CALLS[Ordinal(i)].keeper = stack[i].keeper
    /\ Len(OPEN) = Cardinality(Standing("run"))
    /\ \A i \in Standing("run") : OPEN[Ordinal(i)] = stack[i].lib
    /\ IsInjective(OPEN)

\* "The scope is the innermost this thread has open" (run.rs, Bracket::drop):
\* the run that ends next is the innermost scope of its library's arena, so the
\* library never refuses to close it.
ClosesTheInnermost ==
    \A i \in 1..Depth :
        /\ stack[i].kind \in Runs /\ stack[i].phase = "in"
        /\ \A j \in (i + 1)..Depth : stack[j].lib # stack[i].lib \/ stack[j].kind \notin Runs
        => scopes[stack[i].lib] # <<>> /\ Last(scopes[stack[i].lib]) = i

\* Nothing in an arena reads a room that has been freed: what a library holds
\* of a host's function, whoever made it and wherever it was handed over, is
\* dropped before the keeper is (run.rs: "Dropped last, once the arena no longer
\* holds a value that reads what it keeps").
RoomsOutliveTheirReaders == \A r \in reads : r.keeper \in rooms

\* A call runs one library's code over its own arena: whatever the behavior it
\* was made through stands on, at any depth, is that library's, so a host it
\* calls back is always lent the run of this call (bound.rs: "the call would run
\* another library's code over this one's arena").
OneLibraryInACall ==
    \A i \in 1..Depth :
        stack[i].kind = "call" => stack[i].runs \cup stack[i].hosts \subseteq {stack[i].lib}

\* A call comes to the first failure an implementation it called back left,
\* whatever status the library answers and whatever calls were nested in
\* between: a panic goes on as that very panic, where an error before it does
\* not let it, and an error is answered, where a panic after it does not stop
\* it.  Where none failed the call comes to none (run.rs: "The first is what the
\* library was told of, and what it stopped for").
Returns == InLibrary /\ Len(stack') < Depth /\ answer' # <<"nothing">>

ComesTo(raised) ==
    CASE raised = <<>> ->
            unwinding' = Nothing /\ answer' \in {<<"Ok">>, <<"Abort">>, <<"Unbound">>, <<"ProtocolViolation">>}
      [] raised # <<>> /\ raised[1].how = "panicked" ->
            unwinding' = raised[1] /\ answer' = <<"raised">>
      [] OTHER ->
            unwinding' = Nothing /\ answer' = Answered("ANSWERED", raised[1])

FirstFailureAnswers == [][Returns => ComesTo(Top.raised)]_vars
=============================================================================
