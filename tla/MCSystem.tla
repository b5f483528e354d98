--------------------------------- MODULE MCSystem ---------------------------------
(***************************************************************************)
(* The sync functions endpoint and report and the coroutine worker are     *)
(* decorated.  endpoint needs service, and has the extra dependency        *)
(* session; report and worker need fetch, which needs the async generator  *)
(* feed.  session may be overridden with the coroutine fake, which needs   *)
(* another, token.                                                         *)
(***************************************************************************)
EXTENDS System

CONSTANTS endpoint, report, worker, service, fetch, session, fake, token, feed, par, t1, t2, c1

Declare(p, f) == [param |-> p, dependency |-> f, use_cache |-> TRUE]

MCSignature == [f \in Callables |-> IF f \in {service, session, token, feed} THEN {} ELSE Params]
MCDepends ==
    [f \in Callables |->
        IF f = endpoint THEN <<Declare(par, service)>>
        ELSE IF f \in {report, worker} THEN <<Declare(par, fetch)>>
        ELSE IF f = fetch THEN <<Declare(par, feed)>>
        ELSE IF f = fake THEN <<Declare(par, token)>>
        ELSE <<>>]
MCExtras == [f \in Callables |-> IF f = endpoint THEN <<Declare(NoParam, session)>> ELSE <<>>]
MCUnwrap == [f \in Callables |-> f]
MCOverriders == [f \in Callables |-> IF f = session THEN {fake} \cap Callables ELSE {}]
MCLocalOverriders == [f \in Callables |-> {}]
MCLocal == [q \in Providers \ {Shared} |-> NoProvider]
MCRank ==
    [f \in Callables |->
        IF f \in {endpoint, report, worker} THEN 2
        ELSE IF f \in {fetch, fake} THEN 1 ELSE 0]
==============================================================================
