------------------------------- MODULE MCContexts -------------------------------
(* Contexts that are in the hands of who uses the library, one kind at a time:   *)
(* blocks of scope(), and those of an injected generator someone iterates over.  *)
(* Two callables may be overridden, session with either of two others, by two    *)
(* actors whose blocks nest two deep.  The generator has generator dependencies. *)
EXTENDS Scopes, SolveGen

CONSTANTS endpoint, service, session, fake, stub, par, t1, t2

Needing(p, f) == [param |-> p, dependency |-> f, use_cache |-> TRUE]

MCSignature == [f \in Callables |-> Params]
MCDepends ==
    [f \in Callables |->
        IF f = endpoint THEN <<Needing(par, service)>>
        ELSE IF f = service THEN <<Needing(par, session)>>
        ELSE <<>>]
MCExtras == [f \in Callables |-> <<>>]
MCUnwrap == [f \in Callables |-> f]
MCOverriders ==
    [f \in Callables |->
        IF f = session THEN {fake, stub} ELSE IF f = service THEN {stub} ELSE {}]
MCLocalOverriders == [f \in Callables |-> {}]
MCRank ==
    [f \in Callables |-> IF f = endpoint THEN 2 ELSE IF f = service THEN 1 ELSE 0]

-----------------------------------------------------------------------------

ContextsInit == ScopesInit /\ Init

ContextsNext ==
    \/ Init /\ ScopesNext /\ UNCHANGED vars
    \/ ScopesInit /\ Next /\ UNCHANGED scopeVars

ContextsSpec == ContextsInit /\ [][ContextsNext]_<<scopeVars, vars>>
==============================================================================
