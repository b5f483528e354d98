--------------------------------- MODULE MCSolve ---------------------------------
(***************************************************************************)
(* endpoint needs a service and a repo; the service needs the generator    *)
(* session, and so does repo, itself a generator; inject(endpoint) has the *)
(* extra dependency session.  The session may be overridden with the       *)
(* generator fake, and a call may be given a provider that overrides the   *)
(* service with stub.  A configuration keeps some of these callables.      *)
(***************************************************************************)
EXTENDS SolveInv, TLC

CONSTANTS endpoint, service, repo, session, fake, stub, svc, rep, ses,
    pydantic, c1, c2, Other,
    Uncacheable,    \* what is declared with use_cache=False
    RepoParam       \* the name of repo's parameter

Declare(p, f) == [param |-> p, dependency |-> f, use_cache |-> f \notin Uncacheable]
Present(s) == SelectSeq(s, LAMBDA e : e.dependency \in Callables)

MCSignature ==
    [f \in Callables |->
        IF f = endpoint THEN {svc, rep}
        ELSE IF f = repo THEN {RepoParam}
        ELSE IF f \in {service, stub} THEN {ses}
        ELSE {}]
MCDepends ==
    [f \in Callables |->
        IF f = endpoint THEN Present(<<Declare(svc, service), Declare(rep, repo)>>)
        ELSE IF f = repo THEN <<[Declare(RepoParam, session) EXCEPT !.use_cache = TRUE]>>
        ELSE IF f \in {service, stub} THEN <<Declare(ses, session)>>
        ELSE <<>>]
MCExtras ==
    [f \in Callables |-> IF f = endpoint THEN <<Declare(NoParam, session)>> ELSE <<>>]
MCUnwrap == [f \in Callables |-> f]
MCOverriders == [f \in Callables |-> IF f = session THEN {fake} \cap Callables ELSE {}]
MCLocalOverriders == [f \in Callables |-> IF f = service THEN {stub} \cap Callables ELSE {}]
MCRank ==
    [f \in Callables |->
        IF f = endpoint THEN 2 ELSE IF f \in {service, repo, stub} THEN 1 ELSE 0]

\* provider.override(service, stub) of a provider of its own: service, what it needs,
\* and stub.
MCLocal ==
    [q \in Providers \ {Shared} |->
        LET Model(f) == [call |-> f, use_cache |-> TRUE,
                         serializer |-> NoSerializer, provider |-> q]
        IN  [dependencies |-> [f \in Callables |->
                                 IF f \in {service, session} THEN Model(f) ELSE NoModel],
             overrides |-> [f \in Callables |->
                                 IF f = service THEN Model(stub) ELSE NoModel]]]

Symmetry == Permutations(Calls)
==============================================================================
