------------------------------ MODULE Declarations ------------------------------
(***************************************************************************)
(* What the user's program declares: its callables, their signatures, the  *)
(* Depends() written in them, and the callables it may override them with. *)
(* Nothing here changes at run time.                                       *)
(***************************************************************************)
EXTENDS Naturals, Sequences

CONSTANTS
    Callables,      \* functions, classes and the wrappers inject() returns
    Params,         \* parameter names
    NoParam,        \* the "parameter" of an extra dependency: no argument is filled
    Serializers,    \* values of serializer_cls, None among them
    NoSerializer,   \* serializer_cls=None
    Signature,      \* Signature[f]: the parameters f takes (all of Params with **kwargs)
    Depends,        \* Depends[f]: its Depends() in signature order
    Extras,         \* Extras[f]: the extra_dependencies of inject(f)
    Unwrap,         \* Unwrap[f]: f._fastdepends_call_ of a wrapper, f itself otherwise
    Generators,     \* generator functions, sync or async
    Providers,      \* the Provider objects
    Shared,         \* the one the injected functions were built with
    Overriders,     \* Overriders[k]: what Shared may override key k with
    LocalOverriders,\* LocalOverriders[k]: what any other provider may
    Rank            \* see RankAssumption

(***************************************************************************)
(* Dependant: one Depends() object and the parameter it is declared for.   *)
(***************************************************************************)
Dependant == [param : Params \cup {NoParam}, dependency : Callables, use_cache : BOOLEAN]

\* The key a declaration is registered and looked up under: add_dependant() takes
\* the call of the built model, from which build_call_model() removed the wrapper.
Key(d) == Unwrap[d.dependency]

\* The model inject() calls has the extra dependencies first, any other has none.
Needs(f, injected) == IF injected THEN Extras[f] \o Depends[f] ELSE Depends[f]

\* provider is the model's dependency_provider, the one that built it.
CallModel ==
    [call : Callables, use_cache : BOOLEAN, serializer : Serializers, provider : Providers]

\* All the Depends() of the program, and the models building them makes.
DependsOf(f) ==
    {Depends[f][i] : i \in DOMAIN Depends[f]} \cup {Extras[f][i] : i \in DOMAIN Extras[f]}
AllDepends == UNION {DependsOf(f) : f \in Callables}
DeclaredModels ==
    {[call |-> Key(d), use_cache |-> d.use_cache, serializer |-> s, provider |-> Shared] :
        d \in AllDepends, s \in Serializers}

\* A callable every declaration of which has use_cache=True.
Cached(f) == \A e \in AllDepends : Key(e) = f => e.use_cache

DeclarationsAssumption ==
    /\ NoParam \notin Params
    /\ NoSerializer \in Serializers
    /\ Signature \in [Callables -> SUBSET Params]
    /\ Unwrap \in [Callables -> Callables]
    /\ \A f \in Callables : Unwrap[Unwrap[f]] = Unwrap[f]
    /\ Generators \subseteq Callables
    /\ Shared \in Providers
    /\ Overriders \in [Callables -> SUBSET Callables]
    /\ LocalOverriders \in [Callables -> SUBSET Callables]
    /\ DOMAIN Depends = Callables
    /\ DOMAIN Extras = Callables
    /\ \A f \in Callables :
          /\ Depends[f] \in Seq(Dependant)
          /\ Extras[f] \in Seq(Dependant)

ASSUME DeclAssumption == DeclarationsAssumption

\* The callables some override of key k may make the library run for it.
Servers(k) == {Unwrap[k]} \cup {Unwrap[o] : o \in Overriders[k] \cup LocalOverriders[k]}

(***************************************************************************)
(* The declarations have no cycle, overriding ones included: a cycle is    *)
(* unbounded recursion in build_call_model() or in solve().                *)
(***************************************************************************)
RankAssumption ==
    /\ Rank \in [Callables -> Nat]
    /\ \A f \in Callables : \A d \in DependsOf(f) :
          \A g \in Servers(Key(d)) : Rank[g] < Rank[f]

ASSUME RankDecreases == RankAssumption
==============================================================================
