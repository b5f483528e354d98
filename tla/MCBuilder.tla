-------------------------------- MODULE MCBuilder --------------------------------
(***************************************************************************)
(* The sync functions endpoint and report and the coroutine worker are     *)
(* decorated.  endpoint needs what inject() returned for service, and the  *)
(* extra session; report needs service and fetch; worker needs fetch.      *)
(* service needs a session, as does fake, which may override it; fetch     *)
(* needs feed, an async generator.  session may be overridden with a       *)
(* coroutine, or with feed.  A configuration keeps some of these.          *)
(***************************************************************************)
EXTENDS Builder

CONSTANTS endpoint, report, worker, wrappedService, service, fetch, session, fake,
    coroSession, feed, par, par2, pydantic, t1, t2,
    SessionOverriders

Declare(p, f) == [param |-> p, dependency |-> f, use_cache |-> TRUE]

MCSignature == [f \in Callables |-> Params]
MCDepends ==
    [f \in Callables |->
        IF f = endpoint THEN <<Declare(par, wrappedService)>>
        ELSE IF f = report THEN <<Declare(par, service), Declare(par2, fetch)>>
        ELSE IF f = worker THEN <<Declare(par, fetch)>>
        ELSE IF f = fetch THEN <<Declare(par, feed)>>
        ELSE IF f \in {service, fake} THEN <<Declare(par, session)>>
        ELSE <<>>]
MCExtras == [f \in Callables |-> IF f = endpoint THEN <<Declare(NoParam, session)>> ELSE <<>>]
MCUnwrap == [f \in Callables |-> IF f = wrappedService THEN service ELSE f]
MCOverriders ==
    [f \in Callables |->
        IF f \in {service, wrappedService} THEN {fake} \cap Callables
        ELSE IF f = session THEN SessionOverriders
        ELSE {}]
MCLocalOverriders == [f \in Callables |-> {}]
MCRank ==
    [f \in Callables |->
        IF f \in {endpoint, report, worker} THEN 2
        ELSE IF f \in {service, wrappedService, fetch, fake} THEN 1
        ELSE 0]
==============================================================================
