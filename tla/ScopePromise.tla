---------------------------- MODULE ScopePromise ----------------------------
(***************************************************************************)
(* What a host is promised of the runtime's scopes, and nothing of how the *)
(* arena keeps it: `souther_scope_open` answers a token nobody was         *)
(* answered before; what a thread makes stands at a place of its own,      *)
(* apart from every other value still promised on that thread, until the   *)
(* scope it was made in closes; only the innermost scope of the thread     *)
(* closes, and exactly what was made in it goes.                           *)
(***************************************************************************)
EXTENDS Integers, Sequences

CONSTANTS
    Thread,     \* the threads of the host process
    Place       \* where a value may stand: records with block, at and slots

VARIABLES
    answered,   \* how many tokens were ever answered: 1..answered
    open,       \* the tokens open on each thread, innermost last
    values      \* what each thread made and is still promised

vars == <<answered, open, values>>

\* The scope a value made now belongs to: 0 is the thread itself.
Innermost(t) == IF open[t] = <<>> THEN 0 ELSE open[t][Len(open[t])]

\* Two places that share no slot.
Apart(p, q) ==
    \/ p.block # q.block
    \/ p.at + p.slots <= q.at
    \/ q.at + q.slots <= p.at

Init ==
    /\ answered = 0
    /\ open = [t \in Thread |-> <<>>]
    /\ values = [t \in Thread |-> {}]

Make(t, p) ==
    /\ p \in Place
    /\ \A v \in values[t] : Apart(p, v.place)
    /\ values' = [values EXCEPT ![t] = @ \cup {[scope |-> Innermost(t), place |-> p]}]
    /\ UNCHANGED <<answered, open>>

OpenScope(t) ==
    /\ answered' = answered + 1
    /\ open' = [open EXCEPT ![t] = Append(@, answered + 1)]
    /\ UNCHANGED values

CloseScope(t) ==
    /\ open[t] # <<>>
    /\ open' = [open EXCEPT ![t] = SubSeq(@, 1, Len(@) - 1)]
    /\ values' = [values EXCEPT ![t] = {v \in @ : v.scope # Innermost(t)}]
    /\ UNCHANGED answered

\* The thread is over, and everything it held with it.
EndThread(t) ==
    /\ open' = [open EXCEPT ![t] = <<>>]
    /\ values' = [values EXCEPT ![t] = {}]
    /\ UNCHANGED answered

\* Where a new value stands is the library's choice: any place Make allows.
Next ==
    \E t \in Thread :
        \/ \E v \in values'[t] : Make(t, v.place)
        \/ OpenScope(t)
        \/ CloseScope(t)
        \/ EndThread(t)

Spec == Init /\ [][Next]_vars
=============================================================================
