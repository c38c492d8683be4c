---------------------------- MODULE ArenaScopes ----------------------------
(***************************************************************************)
(* The runtime's memory: an arena per thread that hands out room by moving *)
(* a mark, and the scopes a host brackets its calls with                   *)
(* (native/crates/runtime/src/lib.rs: Arena, TOKENS, SCOPES,               *)
(* souther_alloc, souther_scope_open, souther_scope_close).                *)
(*                                                                         *)
(* ARENA and SCOPES are thread-local and TOKENS is one atomic shared by    *)
(* every thread.  `Arena::reset` is a loop; each turn of it is a step here *)
(* (ResetTurn), so what holds between two turns is checked too.            *)
(*                                                                         *)
(* `made` and `base` are history: what the host was promised and where     *)
(* each block began in the thread's count.  No action reads them except to *)
(* keep them.                                                              *)
(***************************************************************************)
EXTENDS Integers, Sequences

CONSTANTS
    Thread,         \* the threads of the host process
    SLOT,           \* the bytes of a slot
    BLOCK,          \* the slots a block has unless a value needs more
    Sizes,          \* the sizes, in bytes, that generated code asks for
    MaxTaken,       \* bound: the slots one thread has out at once
    MaxToken        \* bound: the scopes opened over the whole behaviour

ASSUME SlotAssumption == SLOT \in Nat \ {0}
ASSUME BlockAssumption == BLOCK \in Nat \ {0}
ASSUME SizesAssumption == Sizes \subseteq Nat
ASSUME BoundsAssumption == MaxTaken \in Nat /\ MaxToken \in Nat

VARIABLES
    blocks,     \* Arena.blocks: how much of each block is handed out, and its capacity
    taken,      \* Arena.taken: the slots handed out and not had back
    TOKENS,     \* the next token a scope is answered with
    SCOPES,     \* the scopes open on each thread, innermost last
    resetting,  \* the mark `reset` is bringing the arena back to, or Idle
    made,       \* history: the values each thread made and is still promised
    base        \* history: what `taken` was when each block was begun

vars == <<blocks, taken, TOKENS, SCOPES, resetting, made, base>>

\* Where a value stands: its block, the slot it begins at there, how many it has.
Place == [block : Nat, at : Nat, slots : Nat]

\* No close is under way on a thread: no mark is below nought.
Idle == -1

Larger(m, n) == IF m < n THEN n ELSE m

Top(s) == s[Len(s)]

Shorter(s) == SubSeq(s, 1, Len(s) - 1)

\* At least one slot, so that two values made of nothing are two places.
Wanted(size) == Larger((size + SLOT - 1) \div SLOT, 1)

\* The token of the scope a value made now is promised for; 0 outside any.
Inside(t) == IF SCOPES[t] = <<>> THEN 0 ELSE Top(SCOPES[t]).token

\* Mutant of Fits: one slot too many is taken to fit.
FitsOneShort(t, wanted) ==
    blocks[t] # <<>> /\ Top(blocks[t]).cap - Top(blocks[t]).len >= wanted - 1

\* Whether the last block has room left for `wanted` slots.
Fits(t, wanted) ==
    blocks[t] # <<>> /\ Top(blocks[t]).cap - Top(blocks[t]).len >= wanted

\* The blocks once one with room for `wanted` slots is the last.
Grown(t, wanted) ==
    IF Fits(t, wanted)
    THEN blocks[t]
    ELSE Append(blocks[t], [len |-> 0, cap |-> Larger(wanted, BLOCK)])

Init ==
    /\ blocks = [t \in Thread |-> <<>>]
    /\ taken = [t \in Thread |-> 0]
    /\ TOKENS = 1
    /\ SCOPES = [t \in Thread |-> <<>>]
    /\ resetting = [t \in Thread |-> Idle]
    /\ made = [t \in Thread |-> {}]
    /\ base = [t \in Thread |-> <<>>]

\* souther_alloc, and every function of the runtime that makes a value.
Alloc(t, size) ==
    LET wanted == Wanted(size)
        grown == Grown(t, wanted)
        n == Len(grown)
        at == grown[n].len
    IN /\ resetting[t] = Idle
       /\ taken[t] + wanted <= MaxTaken
       /\ blocks' = [blocks EXCEPT ![t] =
                        [grown EXCEPT ![n] = [len |-> at + wanted, cap |-> grown[n].cap]]]
       /\ taken' = [taken EXCEPT ![t] = @ + wanted]
       /\ made' = [made EXCEPT ![t] = @ \cup
                        {[scope |-> Inside(t), from |-> taken[t],
                          place |-> [block |-> n, at |-> at, slots |-> wanted]]}]
       /\ base' = [base EXCEPT ![t] =
                        IF Fits(t, wanted) THEN @ ELSE Append(@, taken[t])]
       /\ UNCHANGED <<TOKENS, SCOPES, resetting>>

\* Mutant of ScopeOpen: every thread counts its tokens on its own.
ScopeOpenCountingPerThread(t) ==
    /\ resetting[t] = Idle
    /\ TOKENS <= MaxToken
    /\ TOKENS' = TOKENS + 1
    /\ SCOPES' = [SCOPES EXCEPT ![t] =
                    Append(@, [token |-> Len(@) + 1, stood |-> taken[t]])]
    /\ UNCHANGED <<blocks, taken, resetting, made, base>>

\* souther_scope_open: the token is drawn from the shared counter, the mark
\* is where this thread's arena stands.
ScopeOpen(t) ==
    /\ resetting[t] = Idle
    /\ TOKENS <= MaxToken
    /\ TOKENS' = TOKENS + 1
    /\ SCOPES' = [SCOPES EXCEPT ![t] = Append(@, [token |-> TOKENS, stood |-> taken[t]])]
    /\ UNCHANGED <<blocks, taken, resetting, made, base>>

\* Mutant of Innermost: any scope open on this thread will do.
OpenHere(t, token) == \E i \in 1..Len(SCOPES[t]) : SCOPES[t][i].token = token

\* Whether `token` is the innermost scope open on this thread.
Innermost(t, token) == SCOPES[t] # <<>> /\ Top(SCOPES[t]).token = token

\* souther_scope_close, up to the loop of `reset`.  The host may hand any
\* token to any thread: one never answered, already closed, still holding an
\* open scope, or another thread's is answered FALSE and changes nothing,
\* which is a step that leaves every variable as it was.
ScopeClose(t, token) ==
    /\ resetting[t] = Idle
    /\ Innermost(t, token)
    /\ SCOPES' = [SCOPES EXCEPT ![t] = Shorter(@)]
    /\ resetting' = [resetting EXCEPT ![t] = Top(SCOPES[t]).stood]
    /\ made' = [made EXCEPT ![t] = {v \in @ : v.scope # token}]
    /\ UNCHANGED <<blocks, taken, TOKENS, base>>

\* Mutant of PopBlock: a block goes whole although the mark stands inside it.
PopBlockAlways(t, held) ==
    /\ taken' = [taken EXCEPT ![t] = @ - held]
    /\ blocks' = [blocks EXCEPT ![t] = Shorter(@)]
    /\ base' = [base EXCEPT ![t] = Shorter(@)]

\* A whole block goes where the mark stands at or before its first slot.
PopBlock(t, held) ==
    /\ taken[t] - held >= resetting[t]
    /\ taken' = [taken EXCEPT ![t] = @ - held]
    /\ blocks' = [blocks EXCEPT ![t] = Shorter(@)]
    /\ base' = [base EXCEPT ![t] = Shorter(@)]

\* Mutant of CutBlock: the last block is cut although the mark stands before it.
CutBlockAlways(t, held) ==
    /\ blocks' = [blocks EXCEPT ![t] =
                    [blocks[t] EXCEPT ![Len(blocks[t])] =
                        [len |-> held - (taken[t] - resetting[t]),
                         cap |-> Top(blocks[t]).cap]]]
    /\ taken' = [taken EXCEPT ![t] = resetting[t]]
    /\ UNCHANGED base

\* A block the mark stands inside is cut back to where the mark is.
CutBlock(t, held) ==
    /\ taken[t] - held < resetting[t]
    /\ blocks' = [blocks EXCEPT ![t] =
                    [blocks[t] EXCEPT ![Len(blocks[t])] =
                        [len |-> held - (taken[t] - resetting[t]),
                         cap |-> Top(blocks[t]).cap]]]
    /\ taken' = [taken EXCEPT ![t] = resetting[t]]
    /\ UNCHANGED base

\* One turn of the loop in Arena::reset.  The arm for an arena with slots
\* taken and no block to give back is what BlocksHoldWhatIsTaken rules out.
ResetTurn(t) ==
    /\ resetting[t] # Idle
    /\ taken[t] > resetting[t]
    /\ LET held == Top(blocks[t]).len IN PopBlock(t, held) \/ CutBlock(t, held)
    /\ UNCHANGED <<TOKENS, SCOPES, resetting, made>>

\* Mutant of ResetDone: the loop is an `if`, and answers after one turn.
ResetDoneAtOnce(t) ==
    /\ resetting[t] # Idle
    /\ resetting' = [resetting EXCEPT ![t] = Idle]
    /\ UNCHANGED <<blocks, taken, TOKENS, SCOPES, made, base>>

\* The loop is over and the close answers TRUE.
ResetDone(t) ==
    /\ resetting[t] # Idle
    /\ taken[t] <= resetting[t]
    /\ resetting' = [resetting EXCEPT ![t] = Idle]
    /\ UNCHANGED <<blocks, taken, TOKENS, SCOPES, made, base>>

\* The thread ends with whatever scopes it left open: its thread-locals are
\* dropped.  A thread started later begins with fresh ones and the same TOKENS.
ThreadEnd(t) ==
    /\ resetting[t] = Idle
    /\ blocks' = [blocks EXCEPT ![t] = <<>>]
    /\ taken' = [taken EXCEPT ![t] = 0]
    /\ SCOPES' = [SCOPES EXCEPT ![t] = <<>>]
    /\ made' = [made EXCEPT ![t] = {}]
    /\ base' = [base EXCEPT ![t] = <<>>]
    /\ UNCHANGED <<TOKENS, resetting>>

Next ==
    \E t \in Thread :
        \/ \E size \in Sizes : Alloc(t, size)
        \/ ScopeOpen(t)
        \/ \E token \in 1..MaxToken : ScopeClose(t, token)
        \/ ResetTurn(t)
        \/ ResetDone(t)
        \/ ThreadEnd(t)

Spec == Init /\ [][Next]_vars

-----------------------------------------------------------------------------

\* Every variable of the arena and its scopes holds what its type in lib.rs
\* allows: usize counts and places, i64 tokens, a stack of scopes a thread.
TypeOK ==
    /\ blocks \in [Thread -> Seq([len : Nat, cap : Nat])]
    /\ taken \in [Thread -> Nat]
    /\ TOKENS \in Nat \ {0}
    /\ SCOPES \in [Thread -> Seq([token : Nat, stood : Nat])]
    /\ resetting \in [Thread -> Nat \cup {Idle}]
    /\ made \in [Thread -> SUBSET [scope : Nat, from : Nat, place : Place]]
    /\ base \in [Thread -> Seq(Nat)]

\* Every block is within its capacity and holds something, and the blocks'
\* lengths follow one another up to `taken`: so Vec::resize in `room` never
\* reallocates under a pointer, and `reset` always finds a block to give back.
BlocksHoldWhatIsTaken ==
    \A t \in Thread :
        LET n == Len(blocks[t]) IN
        /\ Len(base[t]) = n
        /\ \A i \in 1..n : 0 < blocks[t][i].len /\ blocks[t][i].len <= blocks[t][i].cap
        /\ \A i \in 1..n :
            base[t][i] = IF i = 1 THEN 0 ELSE base[t][i - 1] + blocks[t][i - 1].len
        /\ taken[t] = IF n = 0 THEN 0 ELSE base[t][n] + blocks[t][n].len

\* The room a value stands in is still handed out, at the block and offset
\* it was answered.
Stands(t, v) ==
    /\ v.place.block \in 1..Len(blocks[t])
    /\ v.place.at + v.place.slots <= blocks[t][v.place.block].len

\* A value is where it was made for as long as the scope it was made in is
\* open, in every state and between any two turns of `reset`: closing a scope
\* drops nothing that a scope outside it holds, at a block boundary too.
PromisedStand ==
    \A t \in Thread : \A v \in made[t] : Stands(t, v)

\* Slot number s of all a thread has out is one of those `v` stands in.
Covers(v, s) == v.from <= s /\ s < v.from + v.place.slots

\* A close gives back everything made since the scope was opened: with no
\* close under way, every slot a thread has out is a slot of exactly one value
\* still promised on it, so a host that brackets its calls never grows.
NothingLeaks ==
    \A t \in Thread :
        resetting[t] = Idle =>
            \A s \in 0..(taken[t] - 1) :
                \E v \in made[t] : \A w \in made[t] : Covers(w, s) <=> w = v

\* A token open on one thread is never open on another nor twice, and inner
\* scopes hold later tokens and later marks: what makes the refusals of
\* souther_scope_close ("or one another thread opened") sound.
TokensApart ==
    \A t \in Thread : \A i \in 1..Len(SCOPES[t]) :
        /\ SCOPES[t][i].token \in 1..(TOKENS - 1)
        /\ \A u \in Thread : \A j \in 1..Len(SCOPES[u]) :
            SCOPES[t][i].token = SCOPES[u][j].token => t = u /\ i = j
        /\ \A j \in 1..(i - 1) :
            /\ SCOPES[t][j].token < SCOPES[t][i].token
            /\ SCOPES[t][j].stood <= SCOPES[t][i].stood

\* What the arena does, seen as what the host was promised.
PlaceOf(v) == [scope |-> v.scope, place |-> v.place]

Promise == INSTANCE ScopePromise WITH
    answered <- TOKENS - 1,
    open <- [t \in Thread |-> [i \in 1..Len(SCOPES[t]) |-> SCOPES[t][i].token]],
    values <- [t \in Thread |-> {PlaceOf(v) : v \in made[t]}]

\* What the arena and its scopes do is what ScopePromise allows: every value
\* handed out is apart from every value still promised on its thread, every
\* token is new, a close drops what its own scope made and nothing else.
KeepsPromise == Promise!Init /\ [][Promise!Next]_(Promise!vars)
=============================================================================
