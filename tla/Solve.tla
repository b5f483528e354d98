---------------------------------- MODULE Solve ----------------------------------
(***************************************************************************)
(* CallModel.solve() and asolve(): calls of injected functions, each with  *)
(* its own exit stack and cache, while other threads and tasks change the  *)
(* provider they all look their dependencies up in.  A call is a stack of  *)
(* frames, one per solve() under way; awaiting between two steps of a      *)
(* frame, or being preempted there, is where the others run.               *)
(***************************************************************************)
EXTENDS Provider, SequencesExt

CONSTANTS
    Calls,          \* the calls of injected functions that may overlap
    Injected,       \* what inject() decorates, generators aside
    Local,          \* the contents of the other providers, which calls may be given
    NoProvider,     \* no dependency_provider argument
    Caller,         \* stands for the caller of an injected function
    Nobody          \* stands for no callable

ASSUME CallsAssumption ==
    /\ Injected \subseteq Callables \ Generators
    /\ Local \in [Providers \ {Shared} -> Registry]
    /\ \A q \in Providers \ {Shared}, k \in Callables :
          LET dep == Local[q].dependencies[k]
              over == Local[q].overrides[k]
              known == Local[q].dependencies
          IN  /\ dep # NoModel =>
                    /\ dep.provider = q /\ dep.call = Unwrap[k] /\ Built(known, dep)
                    /\ Cached(dep.call) => dep.use_cache
              /\ over # NoModel =>
                    /\ over.provider = q /\ over.use_cache /\ Built(known, over)
                    /\ \E g \in LocalOverriders[k] : over.call = Unwrap[g]
    /\ Caller \notin Callables
    /\ Nobody \notin Callables \cup {Caller}
    /\ NoProvider \notin Registry

VARIABLES
    stage,      \* stage[c]: idle, open, closing or done
    main,       \* the injected function being called
    view,       \* the merged provider of the outermost solve(), if one was given
    frames,     \* the solve()s under way, the innermost last
    cache,      \* cache_dependencies
    exits,      \* the exit stack: the open generators and what they use
    runs,       \* how many times each callable was called
    raised,     \* did an exception leave the with-block?
    pending,    \* ExitStack.__exit__: pending_raise
    swallowed,  \* ExitStack.__exit__: suppressed_exc
    outcome,    \* what the caller gets: value, error, or the code's "unreachable"
    overridden  \* history: the keys overridden ever since the call began

solving == <<view, frames, cache, runs>>
closing == <<raised, pending, swallowed>>
vars == <<registry, stage, main, solving, exits, closing, outcome, overridden>>

-----------------------------------------------------------------------------
(* Values: who made it, and which open generators it was made from. *)

Value == [maker : Callables \cup {Caller, Nobody}, holds : SUBSET Nat]
Absent == [maker |-> Nobody, holds |-> {}]
Given == [maker |-> Caller, holds |-> {}]
Kwargs == [Params -> Value]

Frame == [model : CallModel, next : Nat \ {0}, kw : Kwargs]
Exit == [id : Nat, uses : SUBSET Nat]

Top(c) == Last(frames[c])
Todo(c, n) == Needs(frames[c][n].model.call, n = 1)
Wanted(c) == Todo(c, Len(frames[c]))[Top(c).next]

\* What the arguments of f, among all the keyword arguments passed, were made from.
Holds(f, kw) == UNION {kw[p].holds : p \in Signature[f]}

\* Only the outermost solve() is given dependency_provider; the others look up the
\* provider that built their model.
Dictionary(c, n) ==
    LET m == frames[c][n].model
    IN  IF n = 1 /\ view[c] # NoProvider THEN view[c]
        ELSE IF m.provider = Shared THEN Live
        ELSE Local[m.provider]

\* Mutant: the loop over self.dependencies stays where it is.
ReceiveAndStay(f, param, v) ==
    [model |-> f.model,
     next  |-> f.next,
     kw    |-> [p \in Params |-> IF p = param THEN v ELSE f.kw[p]]]

\* f is solving a declaration and v is its value: kwargs[dep_arg] = v, or, for an
\* extra dependency, nothing.
Receive(f, param, v) ==
    [model |-> f.model,
     next  |-> f.next + 1,
     kw    |-> [p \in Params |-> IF p = param THEN v ELSE f.kw[p]]]

\* The frames when the innermost solve() has returned v.
Return(c, v) ==
    LET n == Len(frames[c]) - 1
        param == Todo(c, n)[frames[c][n].next].param
    IN  [Front(frames[c]) EXCEPT ![n] = Receive(@, param, v)]

Open(s) == {s[i].id : i \in DOMAIN s}

-----------------------------------------------------------------------------
(* Resolving the dependencies of the innermost solve(). *)

\* Mutant: one cache dictionary for all the calls, a mutable default argument.
OldCache(c) == cache[c]

\* cache_dependencies={}
NewCache(c) == [f \in Callables |-> Absent]

\* Mutant: the given provider is merged into the shared one in place.
LookInPlace(c) ==
    \/ view' = [view EXCEPT ![c] = NoProvider] /\ UNCHANGED registry
    \/ \E q \in DOMAIN Local :
          /\ view' = [view EXCEPT ![c] = Merge(Live, Local[q])]
          /\ dependencies' = Merge(Live, Local[q]).dependencies
          /\ overrides' = Merge(Live, Local[q]).overrides

\* The outermost solve() looks in its model's provider, merged with one it is given.
LookIn(c) ==
    /\ \/ view' = [view EXCEPT ![c] = NoProvider]
       \/ \E q \in DOMAIN Local : view' = [view EXCEPT ![c] = Merge(Live, Local[q])]
    /\ UNCHANGED registry

\* injected_wrapper(): a fresh stack and cache, the caller's keyword arguments.
Start(c, m) ==
    /\ stage[c] \in {"idle", "done"}
    /\ stage' = [stage EXCEPT ![c] = "open"]
    /\ main' = [main EXCEPT ![c] = m.call]
    /\ \E given \in SUBSET Params :
          LET kw == [p \in Params |-> IF p \in given THEN Given ELSE Absent]
          IN  frames' = [frames EXCEPT ![c] = <<[model |-> m, next |-> 1, kw |-> kw]>>]
    /\ LookIn(c)
    /\ cache' = [cache EXCEPT ![c] = NewCache(c)]
    /\ runs' = [runs EXCEPT ![c] = [f \in Callables |-> 0]]
    /\ raised' = [raised EXCEPT ![c] = FALSE]
    /\ pending' = [pending EXCEPT ![c] = FALSE]
    /\ swallowed' = [swallowed EXCEPT ![c] = FALSE]
    /\ outcome' = [outcome EXCEPT ![c] = "none"]
    /\ overridden' = [overridden EXCEPT ![c] = {k \in Callables : overrides[k] # NoModel}]
    /\ UNCHANGED exits

\* A call of what inject() returned, which has registered all that f needs.
Call(c) ==
    \E f \in Injected, s \in Serializers :
        /\ \A i \in DOMAIN Needs(f, TRUE) : dependencies[Key(Needs(f, TRUE)[i])] # NoModel
        /\ Start(c, [call |-> f, use_cache |-> TRUE, serializer |-> s, provider |-> Shared])

Resolving(c) ==
    /\ stage[c] = "open"
    /\ Top(c).next <= Len(Todo(c, Len(frames[c])))

\* dep_arg in kwargs: the caller, or an outer solve(), already has it.
Skip(c) ==
    /\ Resolving(c)
    /\ Wanted(c).param \in Params
    /\ Top(c).kw[Wanted(c).param] # Absent
    /\ frames' = [frames EXCEPT ![c][Len(frames[c])].next = @ + 1]
    /\ UNCHANGED <<registry, stage, main, view, cache, runs, exits, closing, outcome, overridden>>

Unfilled(c) ==
    /\ Resolving(c)
    /\ Wanted(c).param \in Params => Top(c).kw[Wanted(c).param] = Absent

Found(c) == GetDependant(Dictionary(c, Len(frames[c])), Key(Wanted(c)))

\* Mutant: nothing is looked up in the cache.
InNoCache(c) == FALSE

InCache(c) == Found(c).use_cache /\ cache[c][Found(c).call] # Absent

\* The dependency found was solved earlier in this call.
Hit(c) ==
    /\ Unfilled(c)
    /\ InCache(c)
    /\ frames' = [frames EXCEPT ![c][Len(frames[c])] =
                     Receive(@, Wanted(c).param, cache[c][Found(c).call])]
    /\ UNCHANGED <<registry, stage, main, view, cache, runs, exits, closing, outcome, overridden>>

\* It was not: solve it, passing all the keyword arguments gathered so far.
Enter(c) ==
    /\ Unfilled(c)
    /\ ~InCache(c)
    /\ frames' = [frames EXCEPT ![c] =
                     Append(@, [model |-> Found(c), next |-> 1, kw |-> Top(c).kw])]
    /\ UNCHANGED <<registry, stage, main, view, cache, runs, exits, closing, outcome, overridden>>

-----------------------------------------------------------------------------
(* Calling the innermost solve()'s own callable. *)

\* Mutant: off by one, a dependency more is waited for.
ReadyLate(c) ==
    /\ stage[c] = "open"
    /\ Top(c).next > Len(Todo(c, Len(frames[c]))) + 1

Ready(c) ==
    /\ stage[c] = "open"
    /\ Top(c).next > Len(Todo(c, Len(frames[c])))

Nested(c) == Len(frames[c]) > 1
Argument(c) == Holds(Top(c).model.call, Top(c).kw)
Counted(c) == runs' = [runs EXCEPT ![c][Top(c).model.call] = @ + 1]

\* Mutant: the response is not put in the cache.
NotStored(c, v) == cache' = cache

\* if self.use_cache: cache_dependencies[self.call] = response
Stored(c, v) ==
    cache' = IF Top(c).model.use_cache
             THEN [cache EXCEPT ![c][Top(c).model.call] = v]
             ELSE cache

\* A plain dependency returns, or a generator yields and its context joins the stack.
DependencyReturns(c) ==
    LET f == Top(c).model.call
        id == Len(exits[c]) + 1
        uses == Argument(c)
        v == [maker |-> f, holds |-> IF f \in Generators THEN uses \cup {id} ELSE uses]
    IN  /\ Ready(c)
        /\ Nested(c)
        /\ Counted(c)
        /\ Stored(c, v)
        /\ frames' = [frames EXCEPT ![c] = Return(c, v)]
        /\ exits' = IF f \in Generators
                    THEN [exits EXCEPT ![c] = Append(@, [id |-> id, uses |-> uses])]
                    ELSE exits
        /\ UNCHANGED <<registry, stage, main, view, closing, outcome, overridden>>

\* Mutant: the exit stack is abandoned with what it holds.
LeaveOpen(c, exception) ==
    /\ stage' = [stage EXCEPT ![c] = "closing"]
    /\ frames' = [frames EXCEPT ![c] = <<>>]
    /\ raised' = [raised EXCEPT ![c] = exception]
    /\ exits' = [exits EXCEPT ![c] = <<>>]
    /\ UNCHANGED <<registry, main, view, pending, swallowed, outcome, overridden>>

\* Every solve() is left and the exit stack unwinds.
Leave(c, exception) ==
    /\ stage' = [stage EXCEPT ![c] = "closing"]
    /\ frames' = [frames EXCEPT ![c] = <<>>]
    /\ raised' = [raised EXCEPT ![c] = exception]
    /\ UNCHANGED <<registry, main, view, exits, pending, swallowed, outcome, overridden>>

MainReturns(c) ==
    /\ Ready(c)
    /\ ~Nested(c)
    /\ Counted(c)
    /\ Stored(c, [maker |-> Top(c).model.call, holds |-> Argument(c)])
    /\ Leave(c, FALSE)

\* The callable raises, or its result does not fit its annotation.
Fails(c) ==
    /\ Ready(c)
    /\ Counted(c)
    /\ Leave(c, TRUE)
    /\ UNCHANGED cache

\* An argument does not fit its annotation: the callable is not called.
ArgumentsRefused(c) ==
    /\ Ready(c)
    /\ Top(c).model.serializer # NoSerializer
    /\ Leave(c, TRUE)
    /\ UNCHANGED <<cache, runs>>

-----------------------------------------------------------------------------
(* ExitStack.__exit__ and AsyncExitStack.__aexit__. *)

\* exc_details[0] is not None
Exception(c) == pending[c] \/ (raised[c] /\ ~swallowed[c])

Closing(c) == stage[c] = "closing" /\ exits[c] # <<>>

PopExit(c) ==
    /\ exits' = [exits EXCEPT ![c] = Front(@)]
    /\ UNCHANGED <<registry, stage, main, solving, raised, outcome, overridden>>

\* The generator ends, or lets the exception thrown into it through.
CloseQuietly(c) ==
    /\ Closing(c)
    /\ PopExit(c)
    /\ UNCHANGED <<pending, swallowed>>

\* It raises one of its own.
CloseRaises(c) ==
    /\ Closing(c)
    /\ PopExit(c)
    /\ pending' = [pending EXCEPT ![c] = TRUE]
    /\ UNCHANGED swallowed

\* It catches the exception at its yield and ends.
CloseSwallows(c) ==
    /\ Closing(c)
    /\ Exception(c)
    /\ PopExit(c)
    /\ pending' = [pending EXCEPT ![c] = FALSE]
    /\ swallowed' = [swallowed EXCEPT ![c] = TRUE]

\* After the with-block: its return value, an exception, or the statement behind it.
Outcome(c) ==
    IF pending[c] \/ (raised[c] /\ ~swallowed[c]) THEN "error"
    ELSE IF raised[c] THEN "unreachable"
    ELSE "value"

\* Mutant: the caller gets its answer while contexts are still open.
FinishEarly(c) ==
    /\ stage[c] = "closing"
    /\ stage' = [stage EXCEPT ![c] = "done"]
    /\ outcome' = [outcome EXCEPT ![c] = Outcome(c)]
    /\ UNCHANGED <<registry, main, solving, exits, closing, overridden>>

Finish(c) ==
    /\ stage[c] = "closing"
    /\ exits[c] = <<>>
    /\ stage' = [stage EXCEPT ![c] = "done"]
    /\ outcome' = [outcome EXCEPT ![c] = Outcome(c)]
    /\ UNCHANGED <<registry, main, solving, exits, closing, overridden>>

-----------------------------------------------------------------------------
(* Other threads and tasks: injected functions being declared, overrides    *)
(* being set and dropped, at any point of any call.                         *)

Reconfigure ==
    /\ ProviderNext
    /\ overridden' = [c \in Calls |-> {k \in overridden[c] : overrides'[k] # NoModel}]
    /\ UNCHANGED <<stage, main, solving, exits, closing, outcome>>

-----------------------------------------------------------------------------

Init ==
    /\ ProviderInit
    /\ stage = [c \in Calls |-> "idle"]
    /\ main = [c \in Calls |-> Nobody]
    /\ view = [c \in Calls |-> NoProvider]
    /\ frames = [c \in Calls |-> <<>>]
    /\ cache = [c \in Calls |-> [f \in Callables |-> Absent]]
    /\ exits = [c \in Calls |-> <<>>]
    /\ runs = [c \in Calls |-> [f \in Callables |-> 0]]
    /\ raised = [c \in Calls |-> FALSE]
    /\ pending = [c \in Calls |-> FALSE]
    /\ swallowed = [c \in Calls |-> FALSE]
    /\ outcome = [c \in Calls |-> "none"]
    /\ overridden = [c \in Calls |-> {}]

\* What the thread or task of call c does once it has begun.
Proceed(c) ==
    \/ Skip(c)
    \/ Hit(c)
    \/ Enter(c)
    \/ DependencyReturns(c)
    \/ MainReturns(c)
    \/ Fails(c)
    \/ ArgumentsRefused(c)
    \/ CloseQuietly(c)
    \/ CloseRaises(c)
    \/ CloseSwallows(c)
    \/ Finish(c)

Next ==
    \/ \E c \in Calls : Call(c) \/ Proceed(c)
    \/ Reconfigure

Spec == Init /\ [][Next]_vars

\* The user's callables end, and the interpreter and the event loop let every thread
\* and task run: a call under way goes on.  Nothing says that calls are made or that
\* anyone reconfigures the provider.
FairSpec == Spec /\ \A c \in Calls : WF_vars(Proceed(c))

-----------------------------------------------------------------------------
(* Properties *)

TypeOK ==
    /\ ProviderTypeOK
    /\ stage \in [Calls -> {"idle", "open", "closing", "done"}]
    /\ main \in [Calls -> Callables \cup {Nobody}]
    /\ view \in [Calls -> Registry \cup {NoProvider}]
    /\ frames \in [Calls -> Seq(Frame)]
    /\ cache \in [Calls -> [Callables -> Value]]
    /\ exits \in [Calls -> Seq(Exit)]
    /\ runs \in [Calls -> [Callables -> Nat]]
    /\ raised \in [Calls -> BOOLEAN]
    /\ pending \in [Calls -> BOOLEAN]
    /\ swallowed \in [Calls -> BOOLEAN]
    /\ outcome \in [Calls -> {"none", "value", "error", "unreachable"}]
    /\ overridden \in [Calls -> SUBSET Callables]

\* No dependency is used after its teardown: while a call is resolving, whatever its
\* frames and its cache hold was made from generators of this call that are still
\* open, and an open generator only uses ones that close after it (use.py:189-196,
\* model.py:251-257, utils.py:75-82).
HeldOpen ==
    \A c \in Calls :
        /\ stage[c] = "open" =>
              /\ \A n \in DOMAIN frames[c], p \in Params :
                    frames[c][n].kw[p].holds \subseteq Open(exits[c])
              /\ \A f \in Callables : cache[c][f].holds \subseteq Open(exits[c])
        /\ \A i \in DOMAIN exits[c] :
              exits[c][i].uses \subseteq {exits[c][j].id : j \in 1 .. i - 1}

\* "FastDepends caches all dependencies responses throw ONE @inject callstask": a
\* callable no declaration excludes from the cache is called at most once in a call,
\* under however many parameters and overridden keys it is met, and whatever other
\* threads do to the provider meanwhile (model.py:128-129, 187-188).
RunsOnce ==
    \A c \in Calls, f \in Callables : Cached(f) => runs[c][f] <= 1

\* Callables the library only reaches under their own key, which no override answers
\* with themselves: override(k, k) is legal, and k runs.
Original(k) ==
    /\ \A j \in Callables \ {k} : k \notin Servers(j)
    /\ \A o \in Overriders[k] \cup LocalOverriders[k] : Unwrap[o] # k

\* No provider given to call c has a model for k that could be preferred to the
\* overriding one.
Unknown(k, c) ==
    view[c] = NoProvider \/ \A q \in DOMAIN Local : Local[q].dependencies[k] = NoModel

\* "You don't want the original dependency to run": what is overridden from the
\* beginning of a call to its end is not called in it, through the merged provider of
\* the outermost solve() or the live one of the others (provider.py:22-26, 39-40).
OverriddenNeverRuns ==
    \A c \in Calls : \A k \in overridden[c] :
        Original(k) /\ Unknown(k, c) /\ k # main[c] => runs[c][k] = 0

\* An override given to one call with dependency_provider is nobody else's: a call
\* without the argument never meets a callable only such providers name
\* (model.py:218-221, provider.py:22-26).
LocalOnly(f) ==
    /\ \A k \in Callables : \A g \in Overriders[k] : f # Unwrap[g]
    /\ \A e \in AllDepends : Key(e) # f

LocalStaysLocal ==
    \A c \in Calls, f \in Callables :
        view[c] = NoProvider /\ LocalOnly(f) /\ f # main[c] => runs[c][f] = 0

\* Two parameters that name one cached dependency get one value: what a call has
\* cached it never replaces, whatever the dependency's key is made to mean meanwhile.
CacheStable ==
    [][\A c \in Calls, f \in Callables :
          stage[c] = "open" /\ stage'[c] = "open" /\ cache[c][f] # Absent
              => cache'[c][f] = cache[c][f]]_vars

\* Every call that begins ends, and with everything it opened closed.
CallsEnd == \A c \in Calls : stage[c] = "open" ~> stage[c] = "done" /\ exits[c] = <<>>

\* A call is a scope that holds what it opened: see CallScope.
Scope == INSTANCE CallScope WITH
    scope <- stage,
    held <- exits,
    ran <- [c \in Calls |-> main[c] # Nobody /\ runs[c][main[c]] > 0]
ScopeSpec == Scope!Spec

-----------------------------------------------------------------------------
(* What the code or its documentation says, and does not hold. *)

\* The statement behind the with-block of injected_wrapper() is never reached:
\* raise AssertionError("unreachable") (use.py:198).
NeverUnreachable == \A c \in Calls : outcome[c] # "unreachable"
==============================================================================
