------------------------------- MODULE CallScope -------------------------------
(***************************************************************************)
(* What one call of an injected function promises about the resources its  *)
(* generator dependencies open: each is acquired before the function runs, *)
(* may use only what is still held, and is released in the reverse order   *)
(* after the function, exactly once, whether it returned or raised; the    *)
(* function runs at most once, with everything held; the caller gets its   *)
(* answer only when nothing is.                                            *)
(***************************************************************************)
EXTENDS Naturals, Sequences, SequencesExt

CONSTANT Calls

VARIABLES
    scope,  \* idle, open, closing or done
    held,   \* what the call holds, in acquisition order: [id, uses]
    ran     \* has the injected function run?
vars == <<scope, held, ran>>

Ids(s) == {s[i].id : i \in DOMAIN s}

Init ==
    /\ scope = [c \in Calls |-> "idle"]
    /\ held = [c \in Calls |-> <<>>]
    /\ ran = [c \in Calls |-> FALSE]

Begin(c) ==
    /\ scope[c] \in {"idle", "done"}
    /\ scope' = [scope EXCEPT ![c] = "open"]
    /\ ran' = [ran EXCEPT ![c] = FALSE]
    /\ UNCHANGED held

Acquire(c) ==
    /\ scope[c] = "open"
    /\ LET id == Len(held[c]) + 1
       IN  \E uses \in SUBSET Ids(held[c]) :
               held' = [held EXCEPT ![c] = Append(@, [id |-> id, uses |-> uses])]
    /\ UNCHANGED <<scope, ran>>

\* The function runs: whatever it does, the scope closes next.
Run(c) ==
    /\ scope[c] = "open"
    /\ scope' = [scope EXCEPT ![c] = "closing"]
    /\ ran' = [ran EXCEPT ![c] = TRUE]
    /\ UNCHANGED held

\* A dependency raised: the function never runs.
GiveUp(c) ==
    /\ scope[c] = "open"
    /\ scope' = [scope EXCEPT ![c] = "closing"]
    /\ UNCHANGED <<held, ran>>

Release(c) ==
    /\ scope[c] = "closing"
    /\ held[c] # <<>>
    /\ held' = [held EXCEPT ![c] = Front(@)]
    /\ UNCHANGED <<scope, ran>>

End(c) ==
    /\ scope[c] = "closing"
    /\ held[c] = <<>>
    /\ scope' = [scope EXCEPT ![c] = "done"]
    /\ UNCHANGED <<held, ran>>

Next ==
    \E c \in Calls :
        Begin(c) \/ Acquire(c) \/ Run(c) \/ GiveUp(c) \/ Release(c) \/ End(c)

Spec == Init /\ [][Next]_vars
==============================================================================
