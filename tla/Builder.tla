--------------------------------- MODULE Builder ---------------------------------
(***************************************************************************)
(* build_call_model() and Provider.override(), the writers of the          *)
(* registry.  inject() builds a model for every dependency below its       *)
(* function and registers it on the way; override() builds models too, and *)
(* a build calls override() again when it meets an override made for       *)
(* another serializer.  A thread at work is a stack of such calls; between *)
(* two accesses of the registry the other threads may run.                 *)
(***************************************************************************)
EXTENDS Provider, SequencesExt

CONSTANTS
    Threads,        \* who calls inject(), override() and clear()
    Decorated,      \* what they decorate
    Coroutines,     \* async def
    AsyncGenerators \* async def with a yield

ASSUME AsyncAssumption ==
    /\ Decorated \subseteq Callables
    /\ Coroutines \subseteq Callables \ Generators
    /\ AsyncGenerators \subseteq Generators

VARIABLES
    work,       \* work[t]: the calls under way in t, the innermost last
    injected    \* what inject() has returned a wrapper for
buildVars == <<registry, work, injected>>

-----------------------------------------------------------------------------
(* is_call_async, what build_call_model() computes, and its assertion's test. *)
IsAsync(f) == f \in Coroutines \cup AsyncGenerators
IsCoroutine(f) == f \in Coroutines

\* build_call_model(call, ...), at its next-th Depends(), whose model is to be
\* built, is registered, or is to be checked.
Build ==
    [op : {"build"}, call : Callables, is_sync : BOOLEAN, use_cache : BOOLEAN,
     serializer : Serializers, main : BOOLEAN, next : Nat \ {0},
     step : {"build", "registered", "check"}]

\* override(original, override): what it is about to build.
Override ==
    [op : {"override"}, original : Callables, override : Callables,
     serializer : Serializers, step : {"look", "original", "override"}]

\* The first build of inject() or override(): is_sync=None, use_cache=True.
Root(f, s, main) ==
    [op |-> "build", call |-> Unwrap[f], is_sync |-> ~IsAsync(Unwrap[f]), use_cache |-> TRUE,
     serializer |-> s, main |-> main, next |-> 1, step |-> "build"]

Overriding(original, override) ==
    [op |-> "override", original |-> original, override |-> override,
     serializer |-> NoSerializer, step |-> "look"]

\* Mutant: the dependency is built as if it were the main function.
RootChild(b, d) == [Root(d.dependency, b.serializer, FALSE) EXCEPT !.use_cache = d.use_cache]

\* The build of one of b's dependencies inherits is_sync and the serializer.
Child(b, d) ==
    [op |-> "build", call |-> Key(d), is_sync |-> b.is_sync, use_cache |-> d.use_cache,
     serializer |-> b.serializer, main |-> FALSE, next |-> 1, step |-> "build"]

\* Mutant: extra dependencies are not built.
ParametersOnly(b) == Depends[b.call]

\* The parameters first, then extra_dependencies.
Declared(b) == Depends[b.call] \o (IF b.main THEN Extras[b.call] ELSE <<>>)

Model(b) ==
    [call |-> b.call, use_cache |-> b.use_cache, serializer |-> b.serializer, provider |-> Shared]

-----------------------------------------------------------------------------
Doing(t) == Last(work[t])
In(t, op, step) == work[t] # <<>> /\ Doing(t).op = op /\ Doing(t).step = step
Within(t) == work[t][Len(work[t]) - 1]
Declaration(t) == Declared(Doing(t))[Doing(t).next]

\* The stack with the innermost call's step, or its caller's, changed.
Become(t, step) == [work[t] EXCEPT ![Len(work[t])].step = step]
Resume(stack, step) == IF stack = <<>> THEN <<>> ELSE [stack EXCEPT ![Len(stack)].step = step]

\* The assertion `not (is_sync and is_call_async)`.
Refused(b) == b.is_sync /\ IsAsync(b.call)

\* An AssertionError leaves every call of t; what was registered stays.
Raise(t) ==
    /\ work' = [work EXCEPT ![t] = <<>>]
    /\ UNCHANGED <<registry, injected>>

Push(t, stack, b) == work' = [work EXCEPT ![t] = Append(stack, b)]

-----------------------------------------------------------------------------
(* The calls a thread may make. *)

Inject(t) ==
    /\ work[t] = <<>>
    /\ \E f \in Decorated, s \in Serializers : Push(t, <<>>, Root(f, s, TRUE))
    /\ UNCHANGED <<registry, injected>>

CallOverride(t) ==
    /\ work[t] = <<>>
    /\ \E k \in Callables : \E o \in Overriders[k] : Push(t, <<>>, Overriding(k, o))
    /\ UNCHANGED <<registry, injected>>

\* clear(), or the end of a scope()
Drop(t) ==
    /\ work[t] = <<>>
    /\ Clear \/ \E k \in Callables : PopOverride(k)
    /\ UNCHANGED <<work, injected>>

-----------------------------------------------------------------------------
(* build_call_model() *)

BuildDependency(t) ==
    /\ In(t, "build", "build")
    /\ Doing(t).next <= Len(Declared(Doing(t)))
    /\ LET b == Child(Doing(t), Declaration(t))
       IN  IF Refused(b) THEN Raise(t)
           ELSE Push(t, work[t], b) /\ UNCHANGED <<registry, injected>>

\* A model is complete when everything it declares has been gone through.
Complete(t) ==
    /\ In(t, "build", "build")
    /\ Doing(t).next > Len(Declared(Doing(t)))

Register(t) ==
    /\ Complete(t)
    /\ Len(work[t]) > 1
    /\ Within(t).op = "build"
    /\ dependencies' = [dependencies EXCEPT ![Doing(t).call] = Model(Doing(t))]
    /\ work' = [work EXCEPT ![t] = Resume(Front(@), "registered")]
    /\ UNCHANGED <<overrides, injected>>

\* Mutant: overrides are left as they were built.
NoRebuild(t) ==
    /\ In(t, "build", "registered")
    /\ work' = [work EXCEPT ![t] = Become(t, "check")]
    /\ UNCHANGED <<registry, injected>>

\* _rebuild_override_model(), which extra_dependencies go without.
Rebuild(t) ==
    /\ In(t, "build", "registered")
    /\ LET key == Key(Declaration(t))
           stale == /\ Doing(t).next <= Len(Depends[Doing(t).call])
                    /\ overrides[key] # NoModel
                    /\ overrides[key].serializer # Doing(t).serializer
       IN  IF stale
           THEN Push(t, Become(t, "check"), Overriding(key, overrides[key].call))
           ELSE work' = [work EXCEPT ![t] = Become(t, "check")]
    /\ UNCHANGED <<registry, injected>>

Served(t) == GetDependant(Live, Key(Declaration(t)))

\* Mutant: the same declaration is gone through again.
CheckAgain(t) ==
    /\ In(t, "build", "check")
    /\ IF Doing(t).is_sync /\ IsCoroutine(Served(t).call) THEN Raise(t)
       ELSE /\ work' = [work EXCEPT ![t][Len(work[t])].step = "build"]
            /\ UNCHANGED <<registry, injected>>

Check(t) ==
    /\ In(t, "build", "check")
    /\ IF Doing(t).is_sync /\ IsCoroutine(Served(t).call) THEN Raise(t)
       ELSE /\ work' = [work EXCEPT ![t][Len(work[t])] =
                           [Doing(t) EXCEPT !.step = "build", !.next = @ + 1]]
            /\ UNCHANGED <<registry, injected>>

InjectReturns(t) ==
    /\ Complete(t)
    /\ Len(work[t]) = 1
    /\ injected' = injected \cup {Model(Doing(t))}
    /\ work' = [work EXCEPT ![t] = <<>>]
    /\ UNCHANGED registry

-----------------------------------------------------------------------------
(* Provider.override() *)

\* Mutant: an original nobody declared is not registered.
LookUpNothing(t) ==
    /\ In(t, "override", "look")
    /\ Push(t, Become(t, "override"), Root(Doing(t).override, NoSerializer, FALSE))
    /\ UNCHANGED <<registry, injected>>

\* The override gets the serializer of the model it overrides, if there is one.
LookUpOriginal(t) ==
    /\ In(t, "override", "look")
    /\ LET o == Doing(t)
           found == dependencies[o.original]
       IN  IF found # NoModel
           THEN Push(t, [Become(t, "override") EXCEPT ![Len(work[t])].serializer = found.serializer],
                     Root(o.override, found.serializer, FALSE))
           ELSE Push(t, Become(t, "original"), Root(o.original, NoSerializer, FALSE))
    /\ UNCHANGED <<registry, injected>>

\* Mutant: the original is stored under the callable of its model.
StoreUnwrapped(t) ==
    /\ Complete(t)
    /\ Len(work[t]) > 1
    /\ Within(t).op = "override" /\ Within(t).step = "original"
    /\ dependencies' = [dependencies EXCEPT ![Doing(t).call] = Model(Doing(t))]
    /\ Push(t, Resume(Front(work[t]), "override"), Root(Within(t).override, NoSerializer, FALSE))
    /\ UNCHANGED <<overrides, injected>>

StoreOriginal(t) ==
    /\ Complete(t)
    /\ Len(work[t]) > 1
    /\ Within(t).op = "override" /\ Within(t).step = "original"
    /\ dependencies' = [dependencies EXCEPT ![Within(t).original] = Model(Doing(t))]
    /\ Push(t, Resume(Front(work[t]), "override"), Root(Within(t).override, NoSerializer, FALSE))
    /\ UNCHANGED <<overrides, injected>>

StoreOverride(t) ==
    /\ Complete(t)
    /\ Len(work[t]) > 1
    /\ Within(t).op = "override" /\ Within(t).step = "override"
    /\ overrides' = [overrides EXCEPT ![Within(t).original] = Model(Doing(t))]
    /\ work' = [work EXCEPT ![t] = Front(Front(@))]
    /\ UNCHANGED <<dependencies, injected>>

-----------------------------------------------------------------------------
BuildInit ==
    /\ ProviderInit
    /\ work = [t \in Threads |-> <<>>]
    /\ injected = {}

Continue(t) ==
    \/ BuildDependency(t)
    \/ Register(t)
    \/ Rebuild(t)
    \/ Check(t)
    \/ InjectReturns(t)
    \/ LookUpOriginal(t)
    \/ StoreOriginal(t)
    \/ StoreOverride(t)

BuildNext == \E t \in Threads : Inject(t) \/ CallOverride(t) \/ Drop(t) \/ Continue(t)

\* A thread in the middle of a build is left to run; nobody need start one.
BuilderSpec ==
    BuildInit /\ [][BuildNext]_buildVars /\ \A t \in Threads : WF_buildVars(Continue(t))

-----------------------------------------------------------------------------
(* Properties *)

\* ProviderSpec: every write to the registry is one the provider allows: a model is registered, or
\* put over another, only when what it depends on is registered, even though builds
\* of other threads write in between and any of them may be given up half-way with
\* an AssertionError (builder.py:156-180, provider.py:47-66).

\* Sets of callables that hold, with a callable, what its parameters declare.
Uses(f) == {Key(Depends[f][i]) : i \in DOMAIN Depends[f]}
ClosedSets == {S \in SUBSET Callables : \A f \in S : Uses(f) \subseteq S}

\* What an injected f declares, extras included, what that declares, and so on.
Needed == [f \in Callables |->
    LET declared == Uses(f) \cup {Key(Extras[f][i]) : i \in DOMAIN Extras[f]}
    IN  {g \in Callables : \A S \in ClosedSets : declared \subseteq S => g \in S}]

\* The assertion looks at one call; is_sync handed down makes it hold at every depth:
\* a function injected as synchronous declares nothing asynchronous (builder.py:59-65, 160).
SyncAllTheWay ==
    \A m \in injected : ~IsAsync(m.call) =>
        \A g \in Needed[m.call] : ~IsAsync(g)

\* What the parameters of f and of its extras declare, what the parameters of that do, ...
ParametersBelow == [f \in Callables |->
    LET declared == Uses(f) \cup UNION {Uses(Key(Extras[f][i])) : i \in DOMAIN Extras[f]}
    IN  {g \in Callables : \A S \in ClosedSets : declared \subseteq S => g \in S}]

\* "Rebuild override model in case of a different serializer class": when inject() returns,
\* what is found for every dependency a parameter declares, at whatever depth, original or
\* override, was built for its serializer, whatever inject() and override() did before.
\* Not so of extras themselves, nor of what only an override declares.  One thread's:
\* nothing stops another from registering a model again in between (builder.py:167-172).
ServedFor ==
    [][\A t \in Threads : InjectReturns(t) =>
          \A g \in ParametersBelow[Doing(t).call] :
              GetDependant(Live, g).serializer = Doing(t).serializer]_buildVars

\* A rebuild of an override may meet overrides to rebuild: all of that ends.
BuildsEnd == \A t \in Threads : work[t] # <<>> ~> work[t] = <<>>
==============================================================================
