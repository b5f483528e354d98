---------------------------------- MODULE System ----------------------------------
(***************************************************************************)
(* Builder and Solve over one registry: threads decorate and override, step*)
(* by step, while what inject() returned is called.  A function can be     *)
(* called once inject() has returned, and nothing else is asked then.      *)
(***************************************************************************)
EXTENDS Solve, Builder

\* What is decorated is what may be called, generators aside, which SolveGen has.
ASSUME SystemAssumption == Injected = {Unwrap[f] : f \in Decorated} \ Generators

systemVars == <<vars, work, injected>>

\* injected_wrapper() of what inject() returned
CallInjected(c) ==
    /\ \E m \in injected : m.call \notin Generators /\ Start(c, m)
    /\ UNCHANGED <<work, injected>>

Solving(c) == Proceed(c) /\ UNCHANGED <<work, injected>>

Building ==
    /\ BuildNext
    /\ overridden' = [c \in Calls |-> {k \in overridden[c] : overrides'[k] # NoModel}]
    /\ UNCHANGED <<stage, main, solving, exits, closing, outcome>>

SystemInit == Init /\ BuildInit

SystemNext == Building \/ \E c \in Calls : CallInjected(c) \/ Solving(c)

SystemSpec == SystemInit /\ [][SystemNext]_systemVars

-----------------------------------------------------------------------------
(* Properties *)

\* What is modelled of calls holds while others build: every write of a build or an
\* override is one Solve expects, between whichever steps of a call it comes; and a
\* call that begins finds all its function declares, extras included, though clear()
\* and builds that were given up came since (model.py:223-247, builder.py:156-180).
CallsSpec == Spec

\* What an override of any key may put into a call
ByOverride ==
    LET named == {Unwrap[o] : o \in UNION {Overriders[k] \cup LocalOverriders[k] : k \in Callables}}
    IN  {g \in Callables : \A S \in ClosedSets : named \subseteq S => g \in S}

\* "You cannot use async dependency at sync main": the assertion of build_call_model()
\* looks at declarations one by one, and not at what is called.  Yet nothing async runs in
\* a call of a sync function, but what some override names, or what that declares
\* (builder.py:59-65, 156-176).
SyncRunsSync ==
    \A c \in Calls, g \in Callables :
        /\ main[c] # Nobody /\ ~IsAsync(main[c])
        /\ IsAsync(g) /\ runs[c][g] > 0
        => g \in ByOverride
==============================================================================
