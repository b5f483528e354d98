-------------------------------- MODULE Provider --------------------------------
(***************************************************************************)
(* The registry every injected function shares: a dictionary of the models *)
(* built for declared dependencies and one of the models overriding them,  *)
(* at the grain of one dictionary read or write (what the interpreter runs *)
(* without switching threads).  Which writes a build makes, and in which   *)
(* order, is module Builder's business; here a model may be stored as soon *)
(* as everything it depends on is.                                         *)
(***************************************************************************)
EXTENDS Declarations

CONSTANT NoModel
ASSUME NoModelAssumption == NoModel \notin CallModel

VARIABLES dependencies, overrides
registry == <<dependencies, overrides>>

Dict == [Callables -> CallModel \cup {NoModel}]
Registry == [dependencies : Dict, overrides : Dict]

\* The dictionaries of the live provider, as one value.
Live == [dependencies |-> dependencies, overrides |-> overrides]

Absentees == [k \in Callables |-> NoModel]

-----------------------------------------------------------------------------
(* Reads *)

\* Mutant: the registered model first.
GetDeclaredFirst(r, key) ==
    IF r.dependencies[key] # NoModel THEN r.dependencies[key] ELSE r.overrides[key]

\* self.overrides.get(key) or self.dependencies[key]; NoModel is the KeyError.
GetDependant(r, key) ==
    IF r.overrides[key] # NoModel THEN r.overrides[key] ELSE r.dependencies[key]

\* left | right of dictionaries: the right operand wins
Union(left, right) ==
    [k \in Callables |-> IF right[k] # NoModel THEN right[k] ELSE left[k]]

\* self.merge(provider): a new provider, neither operand is changed.
Merge(r, p) ==
    [dependencies |-> Union(r.dependencies, p.dependencies),
     overrides    |-> Union(r.overrides, p.overrides)]

-----------------------------------------------------------------------------
(* Writes *)

\* Everything the model depends on was registered, in dict, by the build that made it.
Built(dict, m) == \A i \in DOMAIN Depends[m.call] : dict[Key(Depends[m.call][i])] # NoModel

ProviderInit ==
    /\ dependencies = Absentees
    /\ overrides = Absentees

\* Mutant: a model is stored before what it depends on.
AddUnbuilt(m) ==
    /\ m \in DeclaredModels
    /\ dependencies' = [dependencies EXCEPT ![m.call] = m]
    /\ UNCHANGED overrides

\* The last declaration built for a callable replaces the earlier ones.
AddDependant(m) ==
    /\ m \in DeclaredModels
    /\ Built(dependencies, m)
    /\ dependencies' = [dependencies EXCEPT ![m.call] = m]
    /\ UNCHANGED overrides

\* override() of a callable it found no model for, without a serializer; the key is the
\* callable as given, the model's call has the wrapper removed.  By the time of the write
\* a build in another thread may have registered it, with other flags.
RegisterOriginal(original) ==
    LET m == [call |-> Unwrap[original], use_cache |-> TRUE,
              serializer |-> NoSerializer, provider |-> Shared]
    IN  /\ Built(dependencies, m)
        /\ dependencies' = [dependencies EXCEPT ![original] = m]
        /\ UNCHANGED overrides

\* The last write of override(): the model is always built with use_cache=True.
SetOverride(original, override, s) ==
    LET m == [call |-> Unwrap[override], use_cache |-> TRUE,
              serializer |-> s, provider |-> Shared]
    IN  /\ override \in Overriders[original]
        /\ dependencies[original] # NoModel
        /\ Built(dependencies, m)
        /\ overrides' = [overrides EXCEPT ![original] = m]
        /\ UNCHANGED dependencies

\* The end of a scope() block.
PopOverride(original) ==
    /\ overrides' = [overrides EXCEPT ![original] = NoModel]
    /\ UNCHANGED dependencies

\* Mutant: what the decorated functions declared is dropped too.
ClearAll ==
    /\ overrides' = Absentees
    /\ dependencies' = Absentees

Clear ==
    /\ overrides' = Absentees
    /\ UNCHANGED dependencies

ProviderNext ==
    \/ \E m \in DeclaredModels : AddDependant(m)
    \/ \E k \in Callables : RegisterOriginal(k)
    \/ \E k \in Callables : \E o \in Overriders[k], s \in Serializers : SetOverride(k, o, s)
    \/ \E k \in Callables : PopOverride(k)
    \/ Clear

ProviderSpec == ProviderInit /\ [][ProviderNext]_registry

-----------------------------------------------------------------------------
(* Properties *)

\* The two dictionaries map callables to call models, and the model under a key
\* calls that key's callable, or one of its overriders' (provider.py:31-66).
ProviderTypeOK ==
    /\ dependencies \in Dict
    /\ overrides \in Dict
    /\ \A k \in Callables :
          /\ dependencies[k] # NoModel => dependencies[k].call = Unwrap[k]
          /\ overrides[k] # NoModel => \E o \in Overriders[k] : overrides[k].call = Unwrap[o]

\* A read model can always be solved: every key it will be asked for, at once or
\* after the override of any of them is dropped, has a model of its own, so
\* get_dependant() raises no KeyError in the middle of a call (provider.py:39-40).
Closed ==
    \A k \in Callables :
        /\ dependencies[k] # NoModel => Built(dependencies, dependencies[k])
        /\ overrides[k] # NoModel => dependencies[k] # NoModel /\ Built(dependencies, overrides[k])

\* Nothing unregisters a dependency: dropping every override, as a test fixture
\* does between two tests, leaves the injected functions callable (provider.py:28-29).
NothingForgotten ==
    [][\A k \in Callables : dependencies[k] # NoModel => dependencies'[k] # NoModel]_registry
==============================================================================
