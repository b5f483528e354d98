------------------------------ MODULE ProviderProof ------------------------------
(***************************************************************************)
(* The registry invariants, for every program and every order of builds,   *)
(* overrides, pops and clears.                                             *)
(***************************************************************************)
EXTENDS Provider, TLAPS

\* The stored models are the kind of models the actions build.
LEMMA DeclaredModelType ==
    ASSUME NEW m \in DeclaredModels
    PROVE  m \in CallModel /\ m.call = Unwrap[m.call] /\ m # NoModel
<1>1. PICK d \in AllDepends, s \in Serializers :
          m = [call |-> Key(d), use_cache |-> d.use_cache, serializer |-> s, provider |-> Shared]
  BY DEF DeclaredModels
<1>2. d \in Dependant
  <2>1. PICK f \in Callables : d \in DependsOf(f)
    BY DEF AllDepends
  <2>2. Depends[f] \in Seq(Dependant) /\ Extras[f] \in Seq(Dependant)
    BY DeclAssumption DEF DeclarationsAssumption
  <2>3. ASSUME NEW t \in Seq(Dependant), NEW j \in DOMAIN t PROVE t[j] \in Dependant
    OBVIOUS
  <2> QED
    BY <2>1, <2>2, <2>3 DEF DependsOf
<1>3. Key(d) \in Callables /\ Unwrap[Key(d)] = Key(d) /\ d.use_cache \in BOOLEAN
  BY <1>2, DeclAssumption DEF DeclarationsAssumption, Dependant, Key
<1>4. Shared \in Providers
  BY DeclAssumption DEF DeclarationsAssumption
<1> QED
  BY <1>1, <1>3, <1>4, NoModelAssumption DEF CallModel

\* Init and Next keep the dictionaries well formed (provider.py:18-66).
LEMMA ProviderTypeStep ==
    ASSUME ProviderTypeOK, ProviderNext
    PROVE  ProviderTypeOK'
<1> USE DEF ProviderTypeOK, Dict
<1>0. Unwrap \in [Callables -> Callables] /\ Shared \in Providers /\ NoSerializer \in Serializers
  BY DeclAssumption DEF DeclarationsAssumption
<1>1. ASSUME NEW m \in DeclaredModels, AddDependant(m) PROVE ProviderTypeOK'
  BY <1>1, DeclaredModelType DEF AddDependant, CallModel
<1>2. ASSUME NEW k \in Callables, RegisterOriginal(k) PROVE ProviderTypeOK'
  BY <1>0, <1>2 DEF RegisterOriginal, CallModel
<1>3. ASSUME NEW k \in Callables, NEW o \in Overriders[k], NEW s \in Serializers,
             SetOverride(k, o, s)
      PROVE  ProviderTypeOK'
  <2>1. o \in Callables
    BY DeclAssumption DEF DeclarationsAssumption
  <2> QED
    BY <1>0, <1>3, <2>1 DEF SetOverride, CallModel
<1>4. ASSUME NEW k \in Callables, PopOverride(k) PROVE ProviderTypeOK'
  BY <1>4 DEF PopOverride
<1>5. ASSUME Clear PROVE ProviderTypeOK'
  BY <1>5 DEF Clear, Absentees
<1> QED
  BY <1>1, <1>2, <1>3, <1>4, <1>5 DEF ProviderNext

\* Both dictionaries map callables to call models of the right callable.
THEOREM ProviderTypeCorrect == ProviderSpec => []ProviderTypeOK
<1>1. ProviderInit => ProviderTypeOK
  BY DEF ProviderInit, ProviderTypeOK, Dict, Absentees
<1>2. ProviderTypeOK /\ UNCHANGED registry => ProviderTypeOK'
  BY DEF ProviderTypeOK, registry
<1> QED
  BY <1>1, <1>2, ProviderTypeStep, PTL DEF ProviderSpec

-----------------------------------------------------------------------------

\* No step unregisters a key.
LEMMA RegisteredStays ==
    ASSUME ProviderTypeOK, [ProviderNext]_registry
    PROVE  \A k \in Callables : dependencies[k] # NoModel => dependencies'[k] # NoModel
<1> USE DEF ProviderTypeOK, Dict
<1>1. ASSUME NEW m \in DeclaredModels, AddDependant(m),
             NEW k \in Callables, dependencies[k] # NoModel
      PROVE  dependencies'[k] # NoModel
  BY <1>1, DeclaredModelType DEF AddDependant
<1>2. ASSUME NEW j \in Callables, RegisterOriginal(j),
             NEW k \in Callables, dependencies[k] # NoModel
      PROVE  dependencies'[k] # NoModel
  <2> DEFINE m == [call |-> Unwrap[j], use_cache |-> TRUE,
                   serializer |-> NoSerializer, provider |-> Shared]
  <2>1. m \in CallModel
    BY DeclAssumption DEF DeclarationsAssumption, CallModel
  <2>2. dependencies' = [dependencies EXCEPT ![j] = m]
    BY <1>2 DEF RegisterOriginal
  <2> QED
    BY <1>2, <2>1, <2>2, NoModelAssumption
<1>3. (\E k \in Callables : \E o \in Overriders[k], s \in Serializers : SetOverride(k, o, s))
        => dependencies' = dependencies
  BY DEF SetOverride
<1>4. (\E k \in Callables : PopOverride(k)) => dependencies' = dependencies
  BY DEF PopOverride
<1>5. Clear \/ UNCHANGED registry => dependencies' = dependencies
  BY DEF Clear, registry
<1> QED
  BY <1>1, <1>2, <1>3, <1>4, <1>5 DEF ProviderNext

\* A model that was built stays built: what it depends on stays registered.
LEMMA BuiltStays ==
    ASSUME ProviderTypeOK, [ProviderNext]_registry,
           NEW m \in CallModel, Built(dependencies, m)
    PROVE  Built(dependencies', m)
<1>1. ASSUME NEW i \in DOMAIN Depends[m.call] PROVE Key(Depends[m.call][i]) \in Callables
  <2>1. m.call \in Callables
    BY DEF CallModel
  <2>2. Depends[m.call] \in Seq(Dependant) /\ Unwrap \in [Callables -> Callables]
    BY <2>1, DeclAssumption DEF DeclarationsAssumption
  <2>3. ASSUME NEW t \in Seq(Dependant), NEW j \in DOMAIN t PROVE t[j] \in Dependant
    OBVIOUS
  <2> QED
    BY <1>1, <2>2, <2>3 DEF Key, Dependant
<1> QED
  BY <1>1, RegisteredStays DEF Built

\* Every stored model, overriding ones included, has what it depends on registered.
LEMMA ClosedStep ==
    ASSUME ProviderTypeOK, Closed, [ProviderNext]_registry
    PROVE  Closed'
<1>1. ASSUME NEW k \in Callables
      PROVE  /\ dependencies[k] \in CallModel \cup {NoModel}
             /\ overrides[k] \in CallModel \cup {NoModel}
  BY DEF ProviderTypeOK, Dict
<1>2. ASSUME NEW k \in Callables, dependencies'[k] = dependencies[k], dependencies[k] # NoModel
      PROVE  Built(dependencies', dependencies'[k])
  BY <1>1, <1>2, BuiltStays DEF Closed
<1>3. ASSUME NEW k \in Callables, overrides'[k] = overrides[k], overrides[k] # NoModel
      PROVE  dependencies'[k] # NoModel /\ Built(dependencies', overrides'[k])
  BY <1>1, <1>3, BuiltStays, RegisteredStays DEF Closed
\* A step that stores model m under key k in the first dictionary, or changes nothing there.
<1>4. ASSUME NEW k \in Callables, NEW m \in CallModel, Built(dependencies, m),
             dependencies' = [dependencies EXCEPT ![k] = m],
             overrides' = overrides
      PROVE  Closed'
  <2>1. Built(dependencies', m)
    BY <1>4, BuiltStays
  <2> QED
    BY <1>2, <1>3, <1>4, <2>1 DEF Closed, ProviderTypeOK, Dict
<1>5. ASSUME NEW m \in DeclaredModels, AddDependant(m) PROVE Closed'
  <2>1. m \in CallModel /\ m.call \in Callables
    BY DeclaredModelType DEF CallModel
  <2> QED
    BY <1>4, <1>5, <2>1 DEF AddDependant
<1>6. ASSUME NEW k \in Callables, RegisterOriginal(k) PROVE Closed'
  <2> DEFINE m == [call |-> Unwrap[k], use_cache |-> TRUE,
                   serializer |-> NoSerializer, provider |-> Shared]
  <2>1. m \in CallModel
    BY DeclAssumption DEF DeclarationsAssumption, CallModel
  <2> QED
    BY <1>4, <1>6, <2>1 DEF RegisterOriginal
<1>7. ASSUME NEW k \in Callables, NEW o \in Overriders[k], NEW s \in Serializers,
             SetOverride(k, o, s)
      PROVE  Closed'
  <2> DEFINE m == [call |-> Unwrap[o], use_cache |-> TRUE,
                   serializer |-> s, provider |-> Shared]
  <2>1. m \in CallModel
    BY DeclAssumption DEF DeclarationsAssumption, CallModel
  <2>2. /\ dependencies[k] # NoModel
        /\ Built(dependencies, m)
        /\ overrides' = [overrides EXCEPT ![k] = m]
        /\ dependencies' = dependencies
    BY <1>7 DEF SetOverride
  <2> QED
    BY <1>2, <1>3, <2>1, <2>2 DEF Closed, ProviderTypeOK, Dict
<1>8. ASSUME NEW k \in Callables, PopOverride(k) PROVE Closed'
  BY <1>2, <1>3, <1>8 DEF Closed, PopOverride, ProviderTypeOK, Dict
<1>9. CASE Clear
  BY <1>2, <1>9 DEF Closed, Clear, Absentees
<1>10. CASE UNCHANGED registry
  BY <1>10 DEF Closed, registry
<1> QED
  BY <1>5, <1>6, <1>7, <1>8, <1>9, <1>10 DEF ProviderNext

\* A model read from the registry can be solved: get_dependant() never raises a
\* KeyError for one of its dependencies (provider.py:39-40).
THEOREM RegistryClosed == ProviderSpec => []Closed
<1>1. ProviderInit => Closed
  BY DEF ProviderInit, Closed, Absentees
<1>2. ProviderTypeOK /\ Closed /\ [ProviderNext]_registry => Closed'
  BY ClosedStep
<1> QED
  BY <1>1, <1>2, ProviderTypeCorrect, PTL DEF ProviderSpec

\* No key is ever unregistered, clear() included (provider.py:28-29).
THEOREM KeysStay == ProviderSpec => NothingForgotten
<1>1. ProviderTypeOK /\ [ProviderNext]_registry
        => [\A k \in Callables : dependencies[k] # NoModel => dependencies'[k] # NoModel]_registry
  BY RegisteredStays
<1> QED
  BY <1>1, ProviderTypeCorrect, PTL DEF ProviderSpec, NothingForgotten
==============================================================================
