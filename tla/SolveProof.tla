-------------------------------- MODULE SolveProof --------------------------------
(***************************************************************************)
(* Calls, for any program, any number that overlap, and any overriding     *)
(* during them: every lookup finds a model; no dependency is used after    *)
(* its teardown; what a call runs: a cached dependency at most once,       *)
(* nothing that was overridden all along, nothing that only providers it   *)
(* was not given name; it never replaces what it has cached, and           *)
(* implements a scope.                                                     *)
(***************************************************************************)
EXTENDS SolveInv, ProviderProof, SequenceTheorems

-----------------------------------------------------------------------------
(* Declarations *)

LEMMA ElementOf ==
    ASSUME NEW S, NEW t \in Seq(S), NEW i \in DOMAIN t
    PROVE  t[i] \in S /\ DOMAIN t = 1 .. Len(t)
OBVIOUS

\* What a model needs is among the declarations of its callable.
LEMMA NeedsType ==
    ASSUME NEW f \in Callables, NEW b \in BOOLEAN
    PROVE  /\ Needs(f, b) \in Seq(Dependant)
           /\ \A i \in DOMAIN Needs(f, b) : Needs(f, b)[i] \in DependsOf(f)
<1>1. Depends[f] \in Seq(Dependant) /\ Extras[f] \in Seq(Dependant)
  BY DeclAssumption DEF DeclarationsAssumption
<1>2. /\ Extras[f] \o Depends[f] \in Seq(Dependant)
      /\ Len(Extras[f] \o Depends[f]) = Len(Extras[f]) + Len(Depends[f])
      /\ \A i \in 1 .. Len(Extras[f]) + Len(Depends[f]) :
            (Extras[f] \o Depends[f])[i] =
                IF i <= Len(Extras[f]) THEN Extras[f][i] ELSE Depends[f][i - Len(Extras[f])]
  BY <1>1, ConcatProperties, Zenon
<1>3. /\ DOMAIN Depends[f] = 1 .. Len(Depends[f])
      /\ DOMAIN Extras[f] = 1 .. Len(Extras[f])
      /\ Len(Depends[f]) \in Nat /\ Len(Extras[f]) \in Nat
      /\ DOMAIN (Extras[f] \o Depends[f]) = 1 .. Len(Extras[f] \o Depends[f])
  BY <1>1, <1>2, LenProperties
<1>4. ASSUME NEW i \in 1 .. Len(Extras[f]) + Len(Depends[f])
      PROVE  (Extras[f] \o Depends[f])[i] \in DependsOf(f)
  <2>1. CASE i <= Len(Extras[f])
    BY <1>2, <1>3, <2>1 DEF DependsOf
  <2>2. CASE ~(i <= Len(Extras[f]))
    <3>1. ASSUME NEW p \in Nat, NEW q \in Nat, NEW j \in 1 .. p + q, ~(j <= p)
          PROVE  j - p \in 1 .. q
      BY <3>1
    <3>2. i - Len(Extras[f]) \in 1 .. Len(Depends[f])
      BY <1>3, <2>2, <3>1, Zenon
    <3> QED
      BY <1>2, <1>3, <2>2, <3>2 DEF DependsOf
  <2> QED
    BY <2>1, <2>2
<1>5. CASE b
  BY <1>2, <1>3, <1>4, <1>5 DEF Needs
<1>6. CASE ~b
  BY <1>1, <1>6 DEF Needs, DependsOf
<1> QED
  BY <1>5, <1>6

\* A declaration names a callable without wrapper, and whatever may serve it has a lower rank.
LEMMA DependsOfType ==
    ASSUME NEW f \in Callables, NEW d \in DependsOf(f)
    PROVE  /\ d \in Dependant
           /\ Key(d) \in Callables
           /\ Unwrap[Key(d)] = Key(d)
           /\ \A g \in Servers(Key(d)) : Rank[g] < Rank[f]
<1>1. Depends[f] \in Seq(Dependant) /\ Extras[f] \in Seq(Dependant)
  BY DeclAssumption DEF DeclarationsAssumption
<1>2. d \in Dependant
  BY <1>1, ElementOf DEF DependsOf
<1> QED
  BY <1>2, DeclAssumption, RankDecreases
  DEF DeclarationsAssumption, RankAssumption, Key, Dependant

\* What may serve a key is callable.
LEMMA ServersType == ASSUME NEW k \in Callables PROVE Servers(k) \subseteq Callables
BY DeclAssumption DEF DeclarationsAssumption, Servers

-----------------------------------------------------------------------------
(* Registries *)

LEMMA LocalSound == ASSUME NEW q \in DOMAIN Local PROVE Sound(dependencies, Local[q]) /\ q # Shared
<1>1. q \in Providers \ {Shared} /\ Local[q] \in Registry
  BY CallsAssumption
<1>2. ASSUME NEW k \in Callables, Local[q].dependencies[k] # NoModel
      PROVE  Serves(dependencies, Local[q].dependencies[k], k)
  BY <1>1, <1>2, CallsAssumption DEF Serves, OwnDictionary, Servers, Registry, Dict
<1>3. ASSUME NEW k \in Callables, Local[q].overrides[k] # NoModel
      PROVE  Serves(dependencies, Local[q].overrides[k], k)
  BY <1>1, <1>3, CallsAssumption DEF Serves, OwnDictionary, Servers, Registry, Dict
<1> QED
  BY <1>1, <1>2, <1>3 DEF Sound

\* merge() of two sound providers is sound.
LEMMA MergeSound ==
    ASSUME NEW dict, NEW r, NEW p, Sound(dict, r), Sound(dict, p)
    PROVE  Sound(dict, Merge(r, p))
BY DEF Sound, Merge, Union, Registry, Dict

\* A key with a model has one that serves it, overridden or not.
LEMMA LookupServes ==
    ASSUME NEW dict, NEW r, Sound(dict, r), NEW k \in Callables, r.dependencies[k] # NoModel
    PROVE  Serves(dict, GetDependant(r, k), k)
BY DEF Sound, GetDependant

\* A model that serves a key goes on to: the provider unregisters nothing.
LEMMA ServesStays ==
    ASSUME ProviderTypeOK, [ProviderNext]_registry, NEW m, NEW k,
           Serves(dependencies, m, k)
    PROVE  Serves(dependencies', m, k)
<1>1. Built(dependencies, m) => Built(dependencies', m)
  BY BuiltStays DEF Serves
<1> QED
  BY <1>1 DEF Serves, OwnDictionary

-----------------------------------------------------------------------------
(* The innermost frame *)

LEMMA OpenFrames ==
    ASSUME Lookups, NEW c \in Calls, stage[c] = "open"
    PROVE  /\ frames[c] \in Seq(Frame)
           /\ Len(frames[c]) \in Nat \ {0}
           /\ DOMAIN frames[c] = 1 .. Len(frames[c])
           /\ Top(c) = frames[c][Len(frames[c])]
           /\ Top(c) \in Frame
           /\ Top(c).model.call \in Callables
           /\ main[c] \in Callables
<1>1. frames[c] \in Seq(Frame) /\ frames[c] # <<>> /\ main[c] \in Callables
  BY DEF Lookups, TypeOK, StackShape
<1>2. Len(frames[c]) \in Nat \ {0} /\ DOMAIN frames[c] = 1 .. Len(frames[c])
  BY <1>1, EmptySeq, LenProperties
<1>3. Top(c) = frames[c][Len(frames[c])]
  BY DEF Top, Last
<1>4. Top(c) \in Frame
  BY <1>1, <1>2, <1>3, ElementOfSeq
<1> QED
  BY <1>1, <1>2, <1>3, <1>4 DEF Frame, CallModel

\* What a frame goes through are declarations of its callable.
LEMMA TodoType ==
    ASSUME Lookups, NEW c \in Calls, NEW n \in DOMAIN frames[c]
    PROVE  /\ frames[c][n] \in Frame
           /\ frames[c][n].model \in CallModel
           /\ frames[c][n].model.call \in Callables
           /\ Todo(c, n) \in Seq(Dependant)
           /\ DOMAIN Todo(c, n) = 1 .. Len(Todo(c, n))
           /\ \A i \in DOMAIN Todo(c, n) : Todo(c, n)[i] \in DependsOf(frames[c][n].model.call)
<1>1. frames[c] \in Seq(Frame)
  BY DEF Lookups, TypeOK
<1>a. frames[c][n] \in Frame
  BY <1>1, ElementOf
<1>2. /\ frames[c][n] \in Frame
      /\ frames[c][n].model \in CallModel
      /\ frames[c][n].model.call \in Callables
  BY <1>a DEF Frame, CallModel
<1>3. (n = 1) \in BOOLEAN
  OBVIOUS
<1>4. /\ Todo(c, n) \in Seq(Dependant)
      /\ \A i \in DOMAIN Todo(c, n) : Todo(c, n)[i] \in DependsOf(frames[c][n].model.call)
  BY <1>2, <1>3, NeedsType DEF Todo
<1> QED
  BY <1>2, <1>4, LenProperties

\* Every dictionary a frame looks its dependencies up in is sound.
LEMMA DictionarySound ==
    ASSUME Lookups, NEW c \in Calls, NEW n \in DOMAIN frames[c]
    PROVE  Sound(dependencies, Dictionary(c, n))
<1>1. frames[c][n].model.provider \in Providers
  BY TodoType DEF CallModel
<1>2. DOMAIN Local = Providers \ {Shared}
  BY CallsAssumption
<1> QED
  BY <1>1, <1>2, LocalSound DEF Lookups, RegistriesSound, Dictionary

\* What the innermost frame is solving, and the model found for it.
LEMMA FoundServes ==
    ASSUME Lookups, NEW c \in Calls, Resolving(c)
    PROVE  /\ Wanted(c) \in Dependant
           /\ Wanted(c) \in DependsOf(Top(c).model.call)
           /\ Key(Wanted(c)) \in Callables
           /\ Dictionary(c, Len(frames[c])).dependencies[Key(Wanted(c))] # NoModel
           /\ Serves(dependencies, Found(c), Key(Wanted(c)))
           /\ Found(c).call \in Callables
           /\ Rank[Found(c).call] < Rank[Top(c).model.call]
<1> DEFINE n == Len(frames[c])
<1>1. stage[c] = "open" /\ Top(c).next <= Len(Todo(c, n))
  BY DEF Resolving
<1>2. /\ n \in DOMAIN frames[c]
      /\ Top(c) = frames[c][n]
      /\ Top(c) \in Frame
  BY <1>1, OpenFrames
<1>3. /\ Todo(c, n) \in Seq(Dependant)
      /\ DOMAIN Todo(c, n) = 1 .. Len(Todo(c, n))
      /\ \A i \in DOMAIN Todo(c, n) : Todo(c, n)[i] \in DependsOf(Top(c).model.call)
      /\ Top(c).model.call \in Callables
  BY <1>2, TodoType
<1>4. Top(c).next \in DOMAIN Todo(c, n)
  BY <1>1, <1>2, <1>3, LenProperties DEF Frame
<1>5. Wanted(c) \in DependsOf(Top(c).model.call)
  BY <1>3, <1>4 DEF Wanted
<1>6. /\ Wanted(c) \in Dependant
      /\ Key(Wanted(c)) \in Callables
      /\ \A g \in Servers(Key(Wanted(c))) : Rank[g] < Rank[Top(c).model.call]
  BY <1>3, <1>5, DependsOfType
<1>7. Dictionary(c, n).dependencies[Key(Wanted(c))] # NoModel
  BY <1>1, <1>2, <1>4 DEF Lookups, FramesSolvable, Wanted
<1>8. Serves(dependencies, Found(c), Key(Wanted(c)))
  BY <1>2, <1>6, <1>7, DictionarySound, LookupServes DEF Found
<1> QED
  BY <1>5, <1>6, <1>7, <1>8 DEF Serves, CallModel

-----------------------------------------------------------------------------
(* Values and frames *)

LEMMA ValueTypes ==
    /\ Absent \in Value
    /\ Given \in Value
    /\ Caller # Nobody
    /\ Nobody \notin Callables
BY CallsAssumption DEF Absent, Given, Value

\* A frame that receives an argument is a frame, of the same model, one parameter further.
LEMMA ReceiveType ==
    ASSUME NEW f \in Frame, NEW p, NEW v \in Value
    PROVE  /\ Receive(f, p, v) \in Frame
           /\ Receive(f, p, v).model = f.model
           /\ Receive(f, p, v).next = f.next + 1
           /\ \A q \in Params : Receive(f, p, v).kw[q] = IF q = p THEN v ELSE f.kw[q]
<1> DEFINE kw == [q \in Params |-> IF q = p THEN v ELSE f.kw[q]]
<1>1. f.kw \in Kwargs /\ f.model \in CallModel /\ f.next \in Nat \ {0}
  BY DEF Frame
<1>2. kw \in Kwargs
  BY <1>1 DEF Kwargs
<1>3. Receive(f, p, v) = [model |-> f.model, next |-> f.next + 1, kw |-> kw]
  BY DEF Receive, Frame
<1>4. f.next + 1 \in Nat \ {0}
  BY <1>1
<1> HIDE DEF kw
<1>5. Receive(f, p, v) \in Frame
  BY <1>1, <1>2, <1>3, <1>4 DEF Frame
<1>6. \A q \in Params : kw[q] = IF q = p THEN v ELSE f.kw[q]
  BY DEF kw
<1> QED
  BY <1>3, <1>5, <1>6

\* A value holds no more than the arguments it was made from.
LEMMA HoldsType ==
    ASSUME NEW f \in Callables, NEW kw \in Kwargs, NEW S \in SUBSET Nat,
           \A p \in Params : kw[p].holds \subseteq S
    PROVE  Holds(f, kw) \subseteq S /\ Holds(f, kw) \in SUBSET Nat
<1>1. Signature[f] \subseteq Params
  BY DeclAssumption DEF DeclarationsAssumption
<1> QED
  BY <1>1 DEF Holds

-----------------------------------------------------------------------------
(* What the actions do to the frames *)

\* Skip and Hit replace the innermost frame by one that has advanced.
LEMMA AdvanceEffect ==
    ASSUME Lookups, NEW c \in Calls, Skip(c) \/ Hit(c)
    PROVE  \E g \in Frame :
              /\ g.model = Top(c).model
              /\ g.next = Top(c).next + 1
              /\ frames' = [frames EXCEPT ![c] = [frames[c] EXCEPT ![Len(frames[c])] = g]]
              /\ \A p \in Params :
                    g.kw[p] = Top(c).kw[p] \/ \E f \in Callables : g.kw[p] = cache[c][f]
<1> DEFINE n == Len(frames[c])
<1>1. Resolving(c) /\ stage[c] = "open"
  BY DEF Skip, Hit, Unfilled, Resolving
<1>2. /\ frames \in [Calls -> Seq(Frame)]
      /\ Top(c) \in Frame
      /\ Top(c) = frames[c][n]
      /\ n \in DOMAIN frames[c]
      /\ DOMAIN frames[c] = 1 .. n
      /\ frames[c] \in Seq(Frame)
  BY <1>1, OpenFrames DEF Lookups, TypeOK
<1>3. CASE Skip(c)
  <2> DEFINE g == [Top(c) EXCEPT !.next = @ + 1]
  <2>1. frames' = [frames EXCEPT ![c] = [frames[c] EXCEPT ![n] = g]]
    BY <1>2, <1>3 DEF Skip
  <2>2. g \in Frame /\ g.model = Top(c).model /\ g.next = Top(c).next + 1 /\ g.kw = Top(c).kw
    <3>1. ASSUME NEW f \in Frame
          PROVE  LET h == [f EXCEPT !.next = @ + 1]
                 IN  h \in Frame /\ h.model = f.model /\ h.next = f.next + 1 /\ h.kw = f.kw
      <4>1. f.next + 1 \in Nat \ {0}
        BY DEF Frame
      <4> QED
        BY <4>1 DEF Frame
    <3> QED
      BY <1>2, <3>1
  <2> QED
    BY <2>1, <2>2
<1>4. CASE Hit(c)
  <2> DEFINE v == cache[c][Found(c).call]
             g == Receive(Top(c), Wanted(c).param, v)
  <2>1. frames' = [frames EXCEPT ![c] = [frames[c] EXCEPT ![n] = g]]
    BY <1>2, <1>4 DEF Hit
  <2>2. v \in Value /\ Found(c).call \in Callables
    BY <1>1, FoundServes DEF Lookups, TypeOK
  <2>3. /\ g \in Frame
        /\ g.model = Top(c).model
        /\ g.next = Top(c).next + 1
        /\ \A q \in Params : g.kw[q] = IF q = Wanted(c).param THEN v ELSE Top(c).kw[q]
    BY <1>2, <2>2, ReceiveType
  <2> HIDE DEF g
  <2> QED
    BY <2>1, <2>2, <2>3
<1> QED
  BY <1>3, <1>4

\* DependencyReturns pops the innermost frame and advances the one below.
LEMMA ReturnEffect ==
    ASSUME Lookups, NEW c \in Calls, stage[c] = "open", Nested(c),
           NEW v \in Value, frames' = [frames EXCEPT ![c] = Return(c, v)]
    PROVE  LET n == Len(frames[c]) - 1
           IN  /\ n \in 1 .. Len(frames[c])
               /\ frames'[c] \in Seq(Frame)
               /\ Len(frames'[c]) = n
               /\ \A j \in 1 .. n :
                    /\ frames'[c][j].model = frames[c][j].model
                    /\ j < n => frames'[c][j] = frames[c][j]
                    /\ \A p \in Params :
                          frames'[c][j].kw[p] \in {frames[c][j].kw[p], v}
               /\ \A x \in Calls \ {c} : frames'[x] = frames[x]
               /\ frames' \in [Calls -> Seq(Frame)]
<1> DEFINE fs == frames[c]
           n == Len(fs) - 1
           param == Todo(c, n)[fs[n].next].param
           g == Receive(fs[n], param, v)
<1>1. fs \in Seq(Frame) /\ Len(fs) \in Nat \ {0} /\ DOMAIN fs = 1 .. Len(fs)
  BY OpenFrames
<1>2. n \in 1 .. Len(fs) /\ n < Len(fs) /\ n \in Int
  BY <1>1 DEF Nested
<1>3. \A j \in 1 .. n : fs[j] \in Frame
  BY <1>1, <1>2, ElementOfSeq
<1>4. /\ Front(fs) \in Seq(Frame)
      /\ Len(Front(fs)) = n
      /\ \A j \in 1 .. n : Front(fs)[j] = fs[j]
  <2>1. /\ SubSeq(fs, 1, n) \in Seq(Frame)
        /\ Len(SubSeq(fs, 1, n)) = IF 1 <= n THEN n - 1 + 1 ELSE 0
        /\ \A j \in 1 .. n - 1 + 1 : SubSeq(fs, 1, n)[j] = fs[1 + j - 1]
    BY <1>2, <1>3, SubSeqProperties, 1 \in Int
  <2>2. Front(fs) = SubSeq(fs, 1, n)
    BY DEF Front
  <2> QED
    BY <1>2, <2>1, <2>2
<1>5. /\ g \in Frame
      /\ g.model = fs[n].model
      /\ \A q \in Params : g.kw[q] = IF q = param THEN v ELSE fs[n].kw[q]
  BY <1>2, <1>3, ReceiveType
<1>6. Return(c, v) = [Front(fs) EXCEPT ![n] = Receive(Front(fs)[n], param, v)]
  BY DEF Return
<1>7. Return(c, v) = [Front(fs) EXCEPT ![n] = g]
  BY <1>2, <1>4, <1>6
<1> HIDE DEF g, fs, param
<1>8. /\ Return(c, v) \in Seq(Frame)
      /\ Len(Return(c, v)) = n
      /\ \A j \in 1 .. n : Return(c, v)[j] = IF j = n THEN g ELSE Front(fs)[j]
  BY <1>2, <1>4, <1>5, <1>7, ExceptSeq
<1>9. frames \in [Calls -> Seq(Frame)]
  BY DEF Lookups, TypeOK
<1>10. /\ frames'[c] = Return(c, v)
       /\ \A x \in Calls \ {c} : frames'[x] = frames[x]
       /\ frames' \in [Calls -> Seq(Frame)]
  BY <1>8, <1>9
<1>11. \A j \in 1 .. n :
          /\ frames'[c][j].model = fs[j].model
          /\ j < n => frames'[c][j] = fs[j]
          /\ \A p \in Params : frames'[c][j].kw[p] \in {fs[j].kw[p], v}
  BY <1>2, <1>4, <1>5, <1>8, <1>10
<1> QED
  BY <1>2, <1>8, <1>10, <1>11 DEF fs

-----------------------------------------------------------------------------
(* Every step keeps lookups answered *)

\* The registries stay sound when no call takes a new snapshot of them.
LEMMA SoundStays ==
    ASSUME Lookups, [ProviderNext]_registry, view' = view
    PROVE  RegistriesSound'
<1>1. ProviderTypeOK /\ Sound(dependencies, Live)
  BY DEF Lookups, TypeOK, RegistriesSound
<1>2. ProviderTypeOK'
  BY <1>1, ProviderTypeStep DEF ProviderTypeOK, registry
<1>3. ASSUME NEW m \in DeclaredModels, NEW k, m.call = k, Built(dependencies', m)
      PROVE  Serves(dependencies', m, k)
  <2>1. /\ m \in CallModel
        /\ m.call = Unwrap[m.call]
        /\ m.provider = Shared
    BY DeclaredModelType DEF DeclaredModels
  <2>2. Cached(m.call) => m.use_cache
    BY DEF Cached, DeclaredModels
  <2> QED
    BY <1>3, <2>1, <2>2 DEF Serves, OwnDictionary, Servers
<1>4. ASSUME NEW k \in Callables, dependencies'[k] # NoModel
      PROVE  Serves(dependencies', dependencies'[k], k)
  <2>1. CASE dependencies'[k] = dependencies[k]
    BY <1>1, <1>4, <2>1, ServesStays DEF Sound, Live
  <2>2. ASSUME NEW m \in DeclaredModels, AddDependant(m), dependencies'[k] # dependencies[k]
        PROVE  Serves(dependencies', dependencies'[k], k)
    <3>1. m.call = k /\ dependencies'[k] = m
      BY <1>1, <2>2 DEF AddDependant, ProviderTypeOK, Dict
    <3>2. Built(dependencies', m)
      BY <1>1, <2>2, BuiltStays, DeclaredModelType DEF AddDependant
    <3> QED
      BY <1>3, <3>1, <3>2
  <2>3. ASSUME NEW j \in Callables, RegisterOriginal(j), dependencies'[k] # dependencies[k]
        PROVE  Serves(dependencies', dependencies'[k], k)
    <3> DEFINE m == [call |-> Unwrap[k], use_cache |-> TRUE,
                     serializer |-> NoSerializer, provider |-> Shared]
    <3>1. j = k /\ dependencies'[k] = m /\ Built(dependencies, m)
      BY <1>1, <2>3 DEF RegisterOriginal, ProviderTypeOK, Dict
    <3>2. m \in CallModel
      BY DeclAssumption DEF DeclarationsAssumption, CallModel
    <3>3. Built(dependencies', m)
      BY <1>1, <3>1, <3>2, BuiltStays
    <3> QED
      BY <3>1, <3>2, <3>3 DEF Serves, OwnDictionary, Servers
  <2>4. CASE UNCHANGED dependencies
    BY <2>1, <2>4
  <2> QED
    BY <2>1, <2>2, <2>3, <2>4 DEF ProviderNext, SetOverride, PopOverride, Clear, registry
<1>5. ASSUME NEW k \in Callables, overrides'[k] # NoModel
      PROVE  Serves(dependencies', overrides'[k], k)
  <2>1. CASE overrides'[k] = overrides[k]
    BY <1>1, <1>5, <2>1, ServesStays DEF Sound, Live
  <2>2. ASSUME NEW j \in Callables, NEW o \in Overriders[j], NEW s \in Serializers,
               SetOverride(j, o, s), overrides'[k] # overrides[k]
        PROVE  Serves(dependencies', overrides'[k], k)
    <3> DEFINE m == [call |-> Unwrap[o], use_cache |-> TRUE,
                     serializer |-> s, provider |-> Shared]
    <3>1. j = k /\ overrides'[k] = m /\ Built(dependencies, m) /\ dependencies' = dependencies
      BY <1>1, <2>2 DEF SetOverride, ProviderTypeOK, Dict
    <3>2. m \in CallModel
      BY DeclAssumption DEF DeclarationsAssumption, CallModel
    <3> QED
      BY <3>1, <3>2 DEF Serves, OwnDictionary, Servers
  <2>3. ASSUME NEW j \in Callables, PopOverride(j) PROVE overrides'[k] = overrides[k]
    BY <1>1, <1>5, <2>3 DEF PopOverride, ProviderTypeOK, Dict
  <2>4. ~ Clear
    BY <1>5 DEF Clear, Absentees
  <2> QED
    BY <2>1, <2>2, <2>3, <2>4
    DEF ProviderNext, AddDependant, RegisterOriginal, registry
<1>6. Sound(dependencies', Live')
  BY <1>2, <1>4, <1>5 DEF Sound, Live, Registry, ProviderTypeOK
<1>7. ASSUME NEW c \in Calls, view'[c] # NoProvider PROVE Sound(dependencies', view'[c])
  <2>1. Sound(dependencies, view[c])
    BY <1>7 DEF Lookups, RegistriesSound
  <2> QED
    BY <1>1, <1>7, <2>1, ServesStays DEF Sound
<1> QED
  BY <1>6, <1>7 DEF RegistriesSound

\* How a step may change the frames of a call it leaves open: the frames kept keep
\* their models, a new one is solvable, and all but the innermost wait for a value.
StackMoves(c) ==
    /\ frames'[c] \in Seq(Frame)
    /\ frames'[c] # <<>>
    /\ \A n \in 1 .. Len(frames'[c]) :
          /\ n <= Len(frames[c]) => frames'[c][n].model = frames[c][n].model
          /\ n > Len(frames[c]) =>
                /\ n > 1
                /\ frames'[c][n].model \in CallModel
                /\ LET m == frames'[c][n].model
                   IN  Built(OwnDictionary(dependencies, m.provider), m)
          /\ n < Len(frames'[c]) =>
                frames'[c][n].next <= Len(Needs(frames'[c][n].model.call, n = 1))

\* The stacks left alone keep their shape and stay solvable: keys are never unregistered.
LEMMA StacksStay ==
    ASSUME Lookups, [ProviderNext]_registry, view' = view,
           NEW c \in Calls, stage[c] = "open",
           main'[c] = main[c], StackMoves(c)
    PROVE  /\ /\ frames'[c] # <<>>
              /\ main'[c] \in Callables
              /\ frames'[c][1].model.call = main'[c]
              /\ frames'[c][1].model.use_cache
              /\ frames'[c][1].model.provider = Shared
           /\ \A n \in DOMAIN frames'[c] :
                 /\ \A i \in DOMAIN Todo(c, n)' :
                       Dictionary(c, n)'.dependencies[Key(Todo(c, n)'[i])] # NoModel
                 /\ n < Len(frames'[c]) => frames'[c][n].next <= Len(Todo(c, n)')
<1> DEFINE fs == frames[c]
           gs == frames'[c]
<1>1. /\ fs \in Seq(Frame) /\ Len(fs) \in Nat \ {0} /\ DOMAIN fs = 1 .. Len(fs)
      /\ gs \in Seq(Frame) /\ Len(gs) \in Nat \ {0} /\ DOMAIN gs = 1 .. Len(gs)
  BY OpenFrames, EmptySeq, LenProperties DEF StackMoves
<1>2. 1 \in 1 .. Len(fs) /\ 1 \in 1 .. Len(gs)
  BY <1>1
<1>3. /\ main[c] \in Callables
      /\ fs[1].model.call = main[c]
      /\ fs[1].model.use_cache
      /\ fs[1].model.provider = Shared
  BY DEF Lookups, StackShape
<1>4. gs[1].model = fs[1].model
  BY <1>1, <1>2 DEF StackMoves
<1>5. ProviderTypeOK /\ ProviderTypeOK'
  BY ProviderTypeStep DEF Lookups, TypeOK, ProviderTypeOK, registry
<1>6. ASSUME NEW n \in DOMAIN gs,
             NEW i \in DOMAIN Needs(gs[n].model.call, n = 1)
      PROVE  Dictionary(c, n)'.dependencies[Key(Needs(gs[n].model.call, n = 1)[i])] # NoModel
  <2> DEFINE m == gs[n].model
             key == Key(Needs(m.call, n = 1)[i])
  <2>1. m \in CallModel /\ m.call \in Callables
    <3>1. gs[n] \in Frame
      BY <1>1, ElementOfSeq
    <3> QED
      BY <3>1 DEF Frame, CallModel
  <2>2. key \in Callables
    <3>1. (n = 1) \in BOOLEAN
      OBVIOUS
    <3> QED
      BY <2>1, <3>1, NeedsType, DependsOfType
  <2>3. Dictionary(c, n)' =
          IF n = 1 /\ view[c] # NoProvider THEN view[c]
          ELSE IF m.provider = Shared THEN Live' ELSE Local[m.provider]
    BY DEF Dictionary
  <2>4. CASE n <= Len(fs)
    <3>1. n \in DOMAIN fs /\ m = fs[n].model
      BY <1>1, <2>4 DEF StackMoves
    <3>2. Todo(c, n) = Needs(m.call, n = 1)
      BY <3>1 DEF Todo
    <3>3. Dictionary(c, n).dependencies[key] # NoModel
      BY <3>1, <3>2 DEF Lookups, FramesSolvable
    <3>4. CASE n = 1 /\ view[c] # NoProvider
      BY <2>3, <3>3, <3>4 DEF Dictionary
    <3>5. CASE ~(n = 1 /\ view[c] # NoProvider) /\ m.provider = Shared
      <4>1. dependencies[key] # NoModel
        BY <3>1, <3>3, <3>5 DEF Dictionary, Live
      <4>2. dependencies'[key] # NoModel
        BY <1>5, <2>2, <4>1, RegisteredStays
      <4> QED
        BY <2>3, <3>5, <4>2 DEF Live
    <3>6. CASE ~(n = 1 /\ view[c] # NoProvider) /\ m.provider # Shared
      BY <2>3, <3>1, <3>3, <3>6 DEF Dictionary
    <3> QED
      BY <3>4, <3>5, <3>6
  <2>5. CASE n > Len(fs)
    <3>1. n # 1 /\ Built(OwnDictionary(dependencies, m.provider), m)
      BY <1>1, <2>5 DEF StackMoves
    <3>2. Needs(m.call, n = 1) = Depends[m.call]
      BY <3>1 DEF Needs
    <3>3. OwnDictionary(dependencies, m.provider)[key] # NoModel
      BY <3>1, <3>2 DEF Built
    <3>4. CASE m.provider = Shared
      <4>1. dependencies'[key] # NoModel
        BY <1>5, <2>2, <3>3, <3>4, RegisteredStays DEF OwnDictionary
      <4> QED
        BY <2>3, <3>1, <3>4, <4>1 DEF Live
    <3>5. CASE m.provider # Shared
      BY <2>3, <3>1, <3>3, <3>5 DEF OwnDictionary
    <3> QED
      BY <3>4, <3>5
  <2>6. n \in Nat /\ Len(fs) \in Nat
    BY <1>1
  <2> QED
    BY <2>4, <2>5, <2>6
<1>7. \A n \in DOMAIN gs : Todo(c, n)' = Needs(gs[n].model.call, n = 1)
  BY DEF Todo
<1>8. ASSUME NEW n \in DOMAIN gs, n < Len(gs)
      PROVE  gs[n].next <= Len(Needs(gs[n].model.call, n = 1))
  BY <1>1, <1>8 DEF StackMoves
<1>9. \A n \in DOMAIN gs : \A i \in DOMAIN Todo(c, n)' :
         Dictionary(c, n)'.dependencies[Key(Todo(c, n)'[i])] # NoModel
  <2>1. SUFFICES ASSUME NEW n \in DOMAIN gs, NEW i \in DOMAIN Todo(c, n)'
                 PROVE  Dictionary(c, n)'.dependencies[Key(Todo(c, n)'[i])] # NoModel
    OBVIOUS
  <2>2. Todo(c, n)' = Needs(gs[n].model.call, n = 1)
    BY <1>7
  <2>3. i \in DOMAIN Needs(gs[n].model.call, n = 1)
    BY <2>2
  <2>4. Dictionary(c, n)'.dependencies[Key(Needs(gs[n].model.call, n = 1)[i])] # NoModel
    BY <1>6, <2>3
  <2> QED
    BY <2>2, <2>4
<1>10. \A n \in DOMAIN gs : n < Len(gs) => gs[n].next <= Len(Todo(c, n)')
  BY <1>7, <1>8
<1>11. /\ main'[c] \in Callables
       /\ gs[1].model.call = main'[c]
       /\ gs[1].model.use_cache
       /\ gs[1].model.provider = Shared
  BY <1>3, <1>4
<1>12. gs # <<>>
  BY DEF StackMoves
<1> QED
  BY <1>9, <1>10, <1>11, <1>12

\* A call whose frames a step leaves alone, in the form StacksStay asks for.
LEMMA StackUnchanged ==
    ASSUME Lookups, NEW c \in Calls, stage[c] = "open", frames'[c] = frames[c]
    PROVE  StackMoves(c)
<1>1. /\ DOMAIN frames[c] = 1 .. Len(frames[c])
      /\ Len(frames[c]) \in Nat
      /\ frames[c] \in Seq(Frame)
      /\ frames[c] # <<>>
  BY OpenFrames, EmptySeq
<1>2. \A n \in DOMAIN frames[c] :
         n < Len(frames[c]) => frames[c][n].next <= Len(Needs(frames[c][n].model.call, n = 1))
  BY DEF Lookups, FramesSolvable, Todo
<1>3. \A n \in 1 .. Len(frames[c]) : n <= Len(frames[c])
  BY <1>1
<1> QED
  BY <1>1, <1>2, <1>3 DEF StackMoves

\* All the calls that remain open had their frames moved so: nothing is lost.
LEMMA LookupsKept ==
    ASSUME Lookups, TypeOK', [ProviderNext]_registry, view' = view,
           \A c \in Calls : stage'[c] = "open" =>
               stage[c] = "open" /\ main'[c] = main[c] /\ StackMoves(c)
    PROVE  Lookups'
<1>1. RegistriesSound'
  BY SoundStays
<1>2. StackShape'
  BY StacksStay DEF StackShape
<1>3. FramesSolvable'
  BY StacksStay DEF FramesSolvable
<1> QED
  BY <1>1, <1>2, <1>3 DEF Lookups

\* A step of call c that moves its frames and leaves the provider alone.
LEMMA OneStackMoves ==
    ASSUME Lookups, TypeOK', NEW c \in Calls, stage[c] = "open", StackMoves(c),
           \A x \in Calls \ {c} : frames'[x] = frames[x],
           UNCHANGED <<registry, stage, main, view>>
    PROVE  Lookups'
<1>1. ASSUME NEW x \in Calls, stage'[x] = "open"
      PROVE  stage[x] = "open" /\ main'[x] = main[x] /\ StackMoves(x)
  BY <1>1, StackUnchanged
<1> QED
  BY <1>1, LookupsKept

\* All frames but the innermost wait for the value of a declaration.
LEMMA Waiting ==
    ASSUME Lookups, NEW c \in Calls, stage[c] = "open",
           NEW n \in 1 .. Len(frames[c]), n < Len(frames[c])
    PROVE  frames[c][n].next <= Len(Needs(frames[c][n].model.call, n = 1))
<1>1. n \in DOMAIN frames[c]
  BY OpenFrames
<1> QED
  BY <1>1 DEF Lookups, FramesSolvable, Todo

\* Going on to the next parameter keeps the lookups.
LEMMA AdvanceStep ==
    ASSUME Lookups, NEW c \in Calls, Skip(c) \/ Hit(c)
    PROVE  Lookups'
<1> DEFINE n == Len(frames[c])
<1>1. PICK g \in Frame :
          /\ g.model = Top(c).model
          /\ g.next = Top(c).next + 1
          /\ frames' = [frames EXCEPT ![c] = [frames[c] EXCEPT ![n] = g]]
  BY AdvanceEffect
<1>2. /\ stage[c] = "open"
      /\ Top(c).next <= Len(Todo(c, n))
      /\ UNCHANGED <<registry, stage, main, view, cache, runs, exits, closing, outcome, overridden>>
  BY DEF Skip, Hit, Unfilled, Resolving
<1>3. /\ frames[c] \in Seq(Frame)
      /\ n \in Nat \ {0}
      /\ DOMAIN frames[c] = 1 .. n
      /\ Top(c) = frames[c][n]
      /\ frames \in [Calls -> Seq(Frame)]
  BY <1>2, OpenFrames DEF Lookups, TypeOK
<1>4. n \in 1 .. n
  BY <1>3
<1>5. /\ frames'[c] \in Seq(Frame)
      /\ Len(frames'[c]) = n
      /\ \A j \in 1 .. n : frames'[c][j] = IF j = n THEN g ELSE frames[c][j]
  BY <1>1, <1>3, <1>4, ExceptSeq
<1>6. /\ frames' \in [Calls -> Seq(Frame)]
      /\ \A x \in Calls \ {c} : frames'[x] = frames[x]
  BY <1>1, <1>3, <1>5
<1>7. TypeOK'
  BY <1>2, <1>6 DEF Lookups, TypeOK, ProviderTypeOK, registry, closing
<1>8. StackMoves(c)
  <2>1. frames'[c] # <<>>
    BY <1>3, <1>5
  <2>2. ASSUME NEW j \in 1 .. n
        PROVE  /\ j <= n
               /\ frames'[c][j].model = frames[c][j].model
               /\ j < n => frames'[c][j].next <= Len(Needs(frames'[c][j].model.call, j = 1))
    <3>1. j <= n
      BY <1>3
    <3>2. CASE j = n
      BY <1>1, <1>3, <1>5, <3>2
    <3>3. CASE j # n
      <4>1. frames'[c][j] = frames[c][j] /\ j < n
        BY <1>3, <1>5, <3>3
      <4> QED
        BY <1>2, <3>1, <4>1, Waiting
    <3> QED
      BY <3>1, <3>2, <3>3
  <2> QED
    BY <1>3, <1>5, <2>1, <2>2 DEF StackMoves
<1> QED
  BY <1>2, <1>6, <1>7, <1>8, OneStackMoves

\* A new frame's lookups are those its model was registered with.
LEMMA EnterStep ==
    ASSUME Lookups, NEW c \in Calls, Enter(c)
    PROVE  Lookups'
<1> DEFINE n == Len(frames[c])
           g == [model |-> Found(c), next |-> 1, kw |-> Top(c).kw]
<1>1. /\ stage[c] = "open"
      /\ Resolving(c)
      /\ Top(c).next <= Len(Todo(c, n))
      /\ UNCHANGED <<registry, stage, main, view, cache, runs, exits, closing, outcome, overridden>>
  BY DEF Enter, Unfilled, Resolving
<1>2. /\ frames[c] \in Seq(Frame)
      /\ n \in Nat \ {0}
      /\ DOMAIN frames[c] = 1 .. n
      /\ Top(c) = frames[c][n]
      /\ Top(c) \in Frame
      /\ frames \in [Calls -> Seq(Frame)]
  BY <1>1, OpenFrames DEF Lookups, TypeOK
<1>3. /\ Found(c) \in CallModel
      /\ Built(OwnDictionary(dependencies, Found(c).provider), Found(c))
  BY <1>1, FoundServes DEF Serves
<1>4. g \in Frame
  BY <1>2, <1>3 DEF Frame
<1>5. frames'[c] = Append(frames[c], g)
  BY <1>2 DEF Enter
<1> HIDE DEF g
<1>6. /\ frames'[c] \in Seq(Frame)
      /\ Len(frames'[c]) = n + 1
      /\ \A j \in 1 .. n : frames'[c][j] = frames[c][j]
      /\ frames'[c][n + 1] = g
  BY <1>2, <1>4, <1>5, AppendProperties
<1>7. /\ frames' \in [Calls -> Seq(Frame)]
      /\ \A x \in Calls \ {c} : frames'[x] = frames[x]
  BY <1>2, <1>5, <1>6 DEF Enter
<1>8. TypeOK'
  BY <1>1, <1>7 DEF Lookups, TypeOK, ProviderTypeOK, registry, closing
<1>9. StackMoves(c)
  <2>1. frames'[c] # <<>>
    BY <1>2, <1>6
  <2>2. ASSUME NEW j \in 1 .. n
        PROVE  /\ frames'[c][j].model = frames[c][j].model
               /\ frames'[c][j].next <= Len(Needs(frames'[c][j].model.call, j = 1))
    <3>1. frames'[c][j] = frames[c][j]
      BY <1>6
    <3>2. CASE j = n
      BY <1>1, <1>2, <3>1, <3>2 DEF Todo
    <3>3. CASE j # n
      <4>1. ASSUME NEW q \in Nat, NEW i \in 1 .. q, i # q PROVE i < q
        BY <4>1
      <4>2. j < n
        BY <1>2, <3>3, <4>1
      <4> QED
        BY <1>1, <3>1, <4>2, Waiting
    <3> QED
      BY <3>1, <3>2, <3>3
  <2>3. g.model = Found(c)
    BY DEF g
  <2>4. ASSUME NEW j \in 1 .. n + 1
        PROVE  /\ j > n => j = n + 1 /\ j > 1
               /\ j <= n => j \in 1 .. n
               /\ j < n + 1 => j \in 1 .. n
    BY <1>2
  <2> QED
    BY <1>3, <1>6, <2>1, <2>2, <2>3, <2>4 DEF StackMoves
<1> QED
  BY <1>1, <1>7, <1>8, <1>9, OneStackMoves

\* Storing a value in a cache, and counting a run, keep the types.
LEMMA StoreType ==
    ASSUME Lookups, NEW c \in Calls, NEW f \in Callables, NEW v \in Value
    PROVE  /\ [cache EXCEPT ![c][f] = v] \in [Calls -> [Callables -> Value]]
           /\ [runs EXCEPT ![c][f] = @ + 1] \in [Calls -> [Callables -> Nat]]
<1>1. cache \in [Calls -> [Callables -> Value]] /\ runs \in [Calls -> [Callables -> Nat]]
  BY DEF Lookups, TypeOK
<1> QED
  BY <1>1

\* The frame below can go on looking up what it needs.
LEMMA ReturnStep ==
    ASSUME Lookups, NEW c \in Calls, DependencyReturns(c)
    PROVE  Lookups'
<1> DEFINE f == Top(c).model.call
           id == Len(exits[c]) + 1
           uses == Argument(c)
           v == [maker |-> f, holds |-> IF f \in Generators THEN uses \cup {id} ELSE uses]
           n == Len(frames[c]) - 1
<1>1. /\ stage[c] = "open"
      /\ Nested(c)
      /\ UNCHANGED <<registry, stage, main, view, closing, outcome, overridden>>
  BY DEF DependencyReturns, Ready
<1>2. /\ f \in Callables
      /\ Top(c) \in Frame
      /\ Top(c).kw \in Kwargs
      /\ Len(frames[c]) \in Nat \ {0}
      /\ DOMAIN frames[c] = 1 .. Len(frames[c])
  BY <1>1, OpenFrames DEF Frame
<1>3. /\ exits[c] \in Seq(Exit)
      /\ exits \in [Calls -> Seq(Exit)]
      /\ cache \in [Calls -> [Callables -> Value]]
      /\ runs \in [Calls -> [Callables -> Nat]]
  BY DEF Lookups, TypeOK
<1>4. uses \in SUBSET Nat
  <2>1. ASSUME NEW p \in Params PROVE Top(c).kw[p].holds \in SUBSET Nat
    BY <1>2 DEF Kwargs, Value
  <2> QED
    BY <1>2, <2>1, HoldsType DEF Argument
<1>5. id \in Nat
  BY <1>3, LenProperties
<1>6. v \in Value
  BY <1>2, <1>4, <1>5 DEF Value
<1>7. frames' = [frames EXCEPT ![c] = Return(c, v)]
  BY DEF DependencyReturns
<1>8. exits' \in [Calls -> Seq(Exit)]
  <2>1. [id |-> id, uses |-> uses] \in Exit
    BY <1>4, <1>5 DEF Exit
  <2>2. Append(exits[c], [id |-> id, uses |-> uses]) \in Seq(Exit)
    BY <1>3, <2>1, AppendProperties
  <2>3. exits' \in {exits, [exits EXCEPT ![c] = Append(exits[c], [id |-> id, uses |-> uses])]}
    BY <1>3 DEF DependencyReturns
  <2> QED
    BY <1>3, <2>2, <2>3
<1>9. cache' = cache \/ cache' = [cache EXCEPT ![c][f] = v]
  BY DEF DependencyReturns, Stored
<1>a. runs' = [runs EXCEPT ![c][f] = @ + 1]
  BY DEF DependencyReturns, Counted
<1> HIDE DEF v
<1>10. cache' \in [Calls -> [Callables -> Value]] /\ runs' \in [Calls -> [Callables -> Nat]]
  <2>1. CASE cache' = cache
    BY <1>2, <1>3, <1>6, <1>a, <2>1, StoreType
  <2>2. CASE cache' = [cache EXCEPT ![c][f] = v]
    BY <1>2, <1>6, <1>a, <2>2, StoreType
  <2> QED
    BY <1>9, <2>1, <2>2
<1>11. /\ n \in 1 .. Len(frames[c])
       /\ frames'[c] \in Seq(Frame)
       /\ Len(frames'[c]) = n
       /\ \A j \in 1 .. n :
             /\ frames'[c][j].model = frames[c][j].model
             /\ j < n => frames'[c][j] = frames[c][j]
       /\ \A x \in Calls \ {c} : frames'[x] = frames[x]
       /\ frames' \in [Calls -> Seq(Frame)]
  BY <1>1, <1>6, <1>7, ReturnEffect
<1>12. TypeOK'
  BY <1>1, <1>8, <1>10, <1>11 DEF Lookups, TypeOK, ProviderTypeOK, registry, closing
<1>13. StackMoves(c)
  <2>1. frames'[c] # <<>>
    BY <1>11
  <2>2. ASSUME NEW q \in Nat \ {0}, q - 1 \in 1 .. q, NEW i \in 1 .. q - 1
        PROVE  i <= q /\ i < q /\ i \in 1 .. q
    BY <2>2
  <2>3. ASSUME NEW j \in 1 .. n
        PROVE  /\ ~(j > Len(frames[c]))
               /\ frames'[c][j].model = frames[c][j].model
               /\ j < n => frames'[c][j].next <= Len(Needs(frames'[c][j].model.call, j = 1))
    <3>1. j < Len(frames[c]) /\ j \in 1 .. Len(frames[c]) /\ ~(j > Len(frames[c]))
      BY <1>2, <1>11, <2>2
    <3>2. frames[c][j].next <= Len(Needs(frames[c][j].model.call, j = 1))
      BY <1>1, <3>1, Waiting
    <3> QED
      BY <1>11, <3>1, <3>2
  <2> QED
    BY <1>11, <2>1, <2>3 DEF StackMoves
<1> QED
  BY <1>1, <1>11, <1>12, <1>13, OneStackMoves

\* The steps after which call c is not resolving dependencies.
LEMMA LeaveStep ==
    ASSUME Lookups, NEW c \in Calls, MainReturns(c) \/ Fails(c) \/ ArgumentsRefused(c)
    PROVE  Lookups'
<1> DEFINE f == Top(c).model.call
           v == [maker |-> f, holds |-> Argument(c)]
<1>1. /\ stage[c] = "open"
      /\ stage' = [stage EXCEPT ![c] = "closing"]
      /\ frames' = [frames EXCEPT ![c] = <<>>]
      /\ raised' \in {[raised EXCEPT ![c] = TRUE], [raised EXCEPT ![c] = FALSE]}
      /\ UNCHANGED <<registry, main, view, exits, pending, swallowed, outcome, overridden>>
  BY DEF MainReturns, Fails, ArgumentsRefused, Ready, Leave
<1>2. f \in Callables /\ Top(c) \in Frame /\ Top(c).kw \in Kwargs
  BY <1>1, OpenFrames DEF Frame
<1>3. Argument(c) \in SUBSET Nat
  <2>1. ASSUME NEW p \in Params PROVE Top(c).kw[p].holds \in SUBSET Nat
    BY <1>2 DEF Kwargs, Value
  <2> QED
    BY <1>2, <2>1, HoldsType DEF Argument
<1>4. v \in Value
  BY <1>2, <1>3 DEF Value
<1>5. cache' = cache \/ cache' = [cache EXCEPT ![c][f] = v]
  BY DEF MainReturns, Fails, ArgumentsRefused, Stored
<1>6. runs' = runs \/ runs' = [runs EXCEPT ![c][f] = @ + 1]
  BY DEF MainReturns, Fails, ArgumentsRefused, Counted
<1> HIDE DEF v
<1>7. cache' \in [Calls -> [Callables -> Value]] /\ runs' \in [Calls -> [Callables -> Nat]]
  <2>1. cache \in [Calls -> [Callables -> Value]] /\ runs \in [Calls -> [Callables -> Nat]]
    BY DEF Lookups, TypeOK
  <2>2. cache' \in [Calls -> [Callables -> Value]]
    <3>1. CASE cache' = cache
      BY <2>1, <3>1
    <3>2. CASE cache' = [cache EXCEPT ![c][f] = v]
      BY <1>2, <1>4, <3>2, StoreType
    <3> QED
      BY <1>5, <3>1, <3>2
  <2>3. runs' \in [Calls -> [Callables -> Nat]]
    <3>1. CASE runs' = runs
      BY <2>1, <3>1
    <3>2. CASE runs' = [runs EXCEPT ![c][f] = @ + 1]
      BY <1>2, <1>4, <3>2, StoreType
    <3> QED
      BY <1>6, <3>1, <3>2
  <2> QED
    BY <2>2, <2>3
<1>8. /\ frames' \in [Calls -> Seq(Frame)]
      /\ stage' \in [Calls -> {"idle", "open", "closing", "done"}]
      /\ raised' \in [Calls -> BOOLEAN]
  BY <1>1, EmptySeq DEF Lookups, TypeOK
<1>9. TypeOK'
  BY <1>1, <1>7, <1>8 DEF Lookups, TypeOK, ProviderTypeOK, registry
<1>10. ASSUME NEW x \in Calls, stage'[x] = "open"
       PROVE  stage[x] = "open" /\ main'[x] = main[x] /\ StackMoves(x)
  <2>1. stage[x] = "open" /\ frames'[x] = frames[x] /\ main'[x] = main[x]
    BY <1>1, <1>10 DEF Lookups, TypeOK
  <2> QED
    BY <2>1, StackUnchanged
<1> QED
  BY <1>1, <1>9, <1>10, LookupsKept

\* Teardown looks nothing up.
LEMMA CloseStep ==
    ASSUME Lookups, NEW c \in Calls,
           CloseQuietly(c) \/ CloseRaises(c) \/ CloseSwallows(c) \/ Finish(c)
    PROVE  Lookups'
<1>1. /\ stage[c] = "closing"
      /\ stage' \in {stage, [stage EXCEPT ![c] = "done"]}
      /\ UNCHANGED <<registry, main, solving, raised, overridden>>
      /\ outcome' \in {outcome, [outcome EXCEPT ![c] = Outcome(c)]}
      /\ pending' \in {pending, [pending EXCEPT ![c] = TRUE], [pending EXCEPT ![c] = FALSE]}
      /\ swallowed' \in {swallowed, [swallowed EXCEPT ![c] = TRUE]}
  BY DEF CloseQuietly, CloseRaises, CloseSwallows, Finish, Closing, PopExit, closing
<1>2. exits' \in [Calls -> Seq(Exit)]
  <2>1. CASE Finish(c)
    BY <2>1 DEF Finish, Lookups, TypeOK
  <2>2. CASE Closing(c) /\ exits' = [exits EXCEPT ![c] = Front(exits[c])]
    <3>1. exits[c] \in Seq(Exit) /\ exits \in [Calls -> Seq(Exit)] /\ exits[c] # <<>>
      BY <2>2 DEF Lookups, TypeOK, Closing
    <3>2. Len(exits[c]) \in Nat \ {0} /\ DOMAIN exits[c] = 1 .. Len(exits[c])
      BY <3>1, EmptySeq, LenProperties
    <3>3. Front(exits[c]) \in Seq(Exit)
      <4>1. \A i \in 1 .. Len(exits[c]) - 1 : exits[c][i] \in Exit
        BY <3>1, <3>2, ElementOfSeq
      <4>2. 1 \in Int /\ Len(exits[c]) - 1 \in Int
        BY <3>2
      <4>3. SubSeq(exits[c], 1, Len(exits[c]) - 1) \in Seq(Exit)
        BY <4>1, <4>2, SubSeqProperties
      <4> QED
        BY <4>3 DEF Front
    <3> QED
      BY <2>2, <3>1, <3>3
  <2> QED
    BY <2>1, <2>2 DEF CloseQuietly, CloseRaises, CloseSwallows, PopExit, Lookups, TypeOK
<1>3. /\ stage' \in [Calls -> {"idle", "open", "closing", "done"}]
      /\ outcome' \in [Calls -> {"none", "value", "error", "unreachable"}]
      /\ pending' \in [Calls -> BOOLEAN]
      /\ swallowed' \in [Calls -> BOOLEAN]
  <2>1. Outcome(c) \in {"value", "error", "unreachable"}
    BY DEF Outcome
  <2>2. /\ stage \in [Calls -> {"idle", "open", "closing", "done"}]
        /\ outcome \in [Calls -> {"none", "value", "error", "unreachable"}]
        /\ pending \in [Calls -> BOOLEAN]
        /\ swallowed \in [Calls -> BOOLEAN]
    BY DEF Lookups, TypeOK
  <2>3. stage' \in [Calls -> {"idle", "open", "closing", "done"}]
    BY <1>1, <2>2
  <2>4. outcome' \in [Calls -> {"none", "value", "error", "unreachable"}]
    BY <1>1, <2>1, <2>2
  <2>5. pending' \in [Calls -> BOOLEAN]
    BY <1>1, <2>2
  <2>6. swallowed' \in [Calls -> BOOLEAN]
    BY <1>1, <2>2
  <2> QED
    BY <2>3, <2>4, <2>5, <2>6
<1>4. TypeOK'
  BY <1>1, <1>2, <1>3 DEF Lookups, TypeOK, ProviderTypeOK, registry, solving
<1>5. ASSUME NEW x \in Calls, stage'[x] = "open"
      PROVE  stage[x] = "open" /\ main'[x] = main[x] /\ StackMoves(x)
  <2>1. stage[x] = "open" /\ frames'[x] = frames[x] /\ main'[x] = main[x]
    BY <1>1, <1>5 DEF Lookups, TypeOK, solving
  <2> QED
    BY <2>1, StackUnchanged
<1> QED
  BY <1>1, <1>4, <1>5, LookupsKept DEF solving

\* A call begins with a model that can be solved, through the view it is given.
LEMMA CallStep ==
    ASSUME Lookups, NEW c \in Calls, Call(c)
    PROVE  Lookups'
<1>0. PICK f \in Injected, s \in Serializers :
          /\ \A i \in DOMAIN Needs(f, TRUE) : dependencies[Key(Needs(f, TRUE)[i])] # NoModel
          /\ Start(c, [call |-> f, use_cache |-> TRUE, serializer |-> s, provider |-> Shared])
  BY DEF Call
<1>1. /\ \A i \in DOMAIN Needs(f, TRUE) : dependencies[Key(Needs(f, TRUE)[i])] # NoModel
      /\ main' = [main EXCEPT ![c] = f]
      /\ \E given \in SUBSET Params :
                frames' = [frames EXCEPT ![c] =
                  <<[model |-> [call |-> f, use_cache |-> TRUE, serializer |-> s, provider |-> Shared],
                     next |-> 1,
                     kw |-> [p \in Params |-> IF p \in given THEN Given ELSE Absent]]>>]
  BY <1>0 DEF Start
<1>2. PICK given \in SUBSET Params :
          frames' = [frames EXCEPT ![c] =
            <<[model |-> [call |-> f, use_cache |-> TRUE, serializer |-> s, provider |-> Shared],
               next |-> 1,
               kw |-> [p \in Params |-> IF p \in given THEN Given ELSE Absent]]>>]
  BY <1>1
<1> DEFINE m == [call |-> f, use_cache |-> TRUE, serializer |-> s, provider |-> Shared]
           kw == [p \in Params |-> IF p \in given THEN Given ELSE Absent]
           g == [model |-> m, next |-> 1, kw |-> kw]
<1>3. f \in Callables /\ Shared \in Providers
  BY CallsAssumption, DeclAssumption DEF DeclarationsAssumption
<1>4. m \in CallModel /\ kw \in Kwargs
  BY <1>3, ValueTypes DEF CallModel, Kwargs
<1>5. g \in Frame
  BY <1>4 DEF Frame
<1>6. /\ frames \in [Calls -> Seq(Frame)]
      /\ view \in [Calls -> Registry \cup {NoProvider}]
      /\ main \in [Calls -> Callables \cup {Nobody}]
      /\ stage \in [Calls -> {"idle", "open", "closing", "done"}]
  BY DEF Lookups, TypeOK
<1>7. /\ frames'[c] = <<g>>
      /\ \A x \in Calls \ {c} : frames'[x] = frames[x]
  BY <1>2, <1>6
<1>8. /\ g.model = m
      /\ g.next = 1
  OBVIOUS
<1>9. Sound(dependencies, Live)
  BY DEF Lookups, RegistriesSound
<1>10. /\ view' \in [Calls -> Registry \cup {NoProvider}]
       /\ \A x \in Calls \ {c} : view'[x] = view[x]
       /\ view'[c] # NoProvider => Sound(dependencies, view'[c])
       /\ view'[c] # NoProvider =>
             \A k \in Callables : dependencies[k] # NoModel => view'[c].dependencies[k] # NoModel
  <2>1. CASE view' = [view EXCEPT ![c] = NoProvider]
    BY <1>6, <2>1
  <2>2. ASSUME NEW q \in DOMAIN Local, view' = [view EXCEPT ![c] = Merge(Live, Local[q])]
        PROVE  <1>10
    <3>1. Sound(dependencies, Merge(Live, Local[q]))
      BY <1>9, LocalSound, MergeSound
    <3>2. \A k \in Callables :
             dependencies[k] # NoModel => Merge(Live, Local[q]).dependencies[k] # NoModel
      BY DEF Merge, Union, Live
    <3> HIDE DEF g, m, kw
    <3> QED
      BY <1>6, <2>2, <3>1, <3>2 DEF Sound
  <2> QED
    BY <2>1, <2>2 DEF Call, Start, LookIn, NewCache
<1> HIDE DEF g, m, kw
<1>11. TypeOK'
  <2>1. <<g>> \in Seq(Frame)
    BY <1>5
  <2>2. frames' \in [Calls -> Seq(Frame)]
    BY <1>6, <1>7, <1>2, <2>1
  <2>3. main' \in [Calls -> Callables \cup {Nobody}]
    BY <1>1, <1>3, <1>6
  <2>4. cache' \in [Calls -> [Callables -> Value]]
    <3>1. [h \in Callables |-> Absent] \in [Callables -> Value]
      BY ValueTypes
    <3> QED
      BY <3>1 DEF Call, Start, LookIn, NewCache, Lookups, TypeOK
  <2>5. runs' \in [Calls -> [Callables -> Nat]]
    BY DEF Call, Start, LookIn, NewCache, Lookups, TypeOK
  <2>6. /\ stage' \in [Calls -> {"idle", "open", "closing", "done"}]
        /\ outcome' \in [Calls -> {"none", "value", "error", "unreachable"}]
        /\ overridden' \in [Calls -> SUBSET Callables]
    BY DEF Call, Start, LookIn, NewCache, Lookups, TypeOK
  <2>7. /\ raised' \in [Calls -> BOOLEAN]
        /\ pending' \in [Calls -> BOOLEAN]
        /\ swallowed' \in [Calls -> BOOLEAN]
    BY DEF Call, Start, LookIn, NewCache, Lookups, TypeOK
  <2>8. UNCHANGED <<registry, exits>>
    BY DEF Call, Start, LookIn, NewCache
  <2> QED
    BY <1>10, <2>2, <2>3, <2>4, <2>5, <2>6, <2>7, <2>8
    DEF Lookups, TypeOK, ProviderTypeOK, registry
<1>12. dependencies' = dependencies /\ Live' = Live /\ [ProviderNext]_registry
  BY DEF Call, Start, LookIn, NewCache, registry, Live
<1>13. RegistriesSound'
  <2>1. ASSUME NEW x \in Calls, view'[x] # NoProvider PROVE Sound(dependencies, view'[x])
    BY <1>10, <2>1 DEF Lookups, RegistriesSound
  <2> QED
    BY <1>9, <1>12, <2>1 DEF RegistriesSound
<1>14. ASSUME NEW x \in Calls, x # c, stage'[x] = "open"
       PROVE  /\ stage[x] = "open" /\ frames'[x] = frames[x]
              /\ main'[x] = main[x] /\ view'[x] = view[x]
  BY <1>1, <1>6, <1>7, <1>10, <1>14 DEF Call, Start, LookIn, NewCache
<1>15. StackShape'
  <2>1. /\ main'[c] = f
        /\ frames'[c] # <<>>
        /\ frames'[c][1].model = m
    BY <1>1, <1>6, <1>7, <1>8
  <2>2. m.call = f /\ m.use_cache /\ m.provider = Shared
    BY DEF m
  <2> QED
    BY <1>3, <1>14, <2>1, <2>2 DEF StackShape, Lookups
<1>16. FramesSolvable'
  <2>1. DOMAIN frames'[c] = {1} /\ Len(frames'[c]) = 1 /\ frames'[c][1].model = m
    BY <1>7, <1>8
  <2>2. m.call = f /\ m.provider = Shared
    BY DEF m
  <2>3. Todo(c, 1)' = Needs(f, TRUE)
    BY <2>1, <2>2 DEF Todo
  <2>4. Dictionary(c, 1)' = IF view'[c] # NoProvider THEN view'[c] ELSE Live
    BY <1>12, <2>1, <2>2 DEF Dictionary
  <2>5. ASSUME NEW i \in DOMAIN Needs(f, TRUE)
        PROVE  Dictionary(c, 1)'.dependencies[Key(Needs(f, TRUE)[i])] # NoModel
    <3>1. Key(Needs(f, TRUE)[i]) \in Callables
      BY <1>3, NeedsType, DependsOfType
    <3>2. dependencies[Key(Needs(f, TRUE)[i])] # NoModel
      BY <1>1
    <3>3. CASE view'[c] # NoProvider
      <4>1. view'[c].dependencies[Key(Needs(f, TRUE)[i])] # NoModel
        BY <1>10, <3>1, <3>2, <3>3
      <4> QED
        BY <2>4, <3>3, <4>1
    <3>4. CASE view'[c] = NoProvider
      <4>1. Dictionary(c, 1)' = Live
        BY <2>4, <3>4
      <4>2. Live.dependencies = dependencies
        BY DEF Live
      <4> QED
        BY <3>2, <4>1, <4>2
    <3> QED
      BY <3>3, <3>4
  <2>6. ASSUME NEW x \in Calls, x # c, stage'[x] = "open", NEW n \in DOMAIN frames'[x]
        PROVE  /\ \A i \in DOMAIN Todo(x, n)' :
                     Dictionary(x, n)'.dependencies[Key(Todo(x, n)'[i])] # NoModel
               /\ n < Len(frames'[x]) => frames'[x][n].next <= Len(Todo(x, n)')
    <3>1. Todo(x, n)' = Todo(x, n) /\ Dictionary(x, n)' = Dictionary(x, n)
      BY <1>12, <1>14, <2>6 DEF Todo, Dictionary
    <3> QED
      BY <1>14, <2>6, <3>1 DEF Lookups, FramesSolvable
  <2>7. ASSUME NEW n \in DOMAIN frames'[c]
        PROVE  /\ \A i \in DOMAIN Todo(c, n)' :
                     Dictionary(c, n)'.dependencies[Key(Todo(c, n)'[i])] # NoModel
               /\ n < Len(frames'[c]) => frames'[c][n].next <= Len(Todo(c, n)')
    <3>1. n = 1 /\ ~(n < Len(frames'[c]))
      BY <2>1
    <3> QED
      BY <2>3, <2>5, <3>1
  <2> QED
    BY <2>6, <2>7 DEF FramesSolvable
<1> QED
  BY <1>11, <1>13, <1>15, <1>16 DEF Lookups

\* Whatever others declare, override or clear, what frames need stays registered.
LEMMA ReconfigureStep ==
    ASSUME Lookups, Reconfigure
    PROVE  Lookups'
<1>1. ProviderNext /\ UNCHANGED <<stage, main, solving, exits, closing, outcome>>
  BY DEF Reconfigure
<1>2. TypeOK'
  <2>1. ProviderTypeOK'
    BY <1>1, ProviderTypeStep DEF Lookups, TypeOK
  <2>2. overridden' \in [Calls -> SUBSET Callables]
    BY DEF Reconfigure, Lookups, TypeOK
  <2> QED
    BY <1>1, <2>1, <2>2 DEF Lookups, TypeOK, solving, closing
<1>3. ASSUME NEW x \in Calls, stage'[x] = "open"
      PROVE  stage[x] = "open" /\ main'[x] = main[x] /\ StackMoves(x)
  BY <1>1, <1>3, StackUnchanged DEF solving
<1> QED
  BY <1>1, <1>2, <1>3, LookupsKept DEF solving

\* Every step, of any call or of the provider.
LEMMA LookupsStep ==
    ASSUME Lookups, [Next]_vars
    PROVE  Lookups'
<1>1. ASSUME NEW c \in Calls, Proceed(c) PROVE Lookups'
  BY <1>1, AdvanceStep, EnterStep, ReturnStep, LeaveStep, CloseStep DEF Proceed
<1>2. CASE UNCHANGED vars
  <2>1. TypeOK'
    BY <1>2 DEF Lookups, TypeOK, ProviderTypeOK, vars, registry, solving, closing
  <2>2. ASSUME NEW x \in Calls, stage'[x] = "open"
        PROVE  stage[x] = "open" /\ main'[x] = main[x] /\ StackMoves(x)
    BY <1>2, <2>2, StackUnchanged DEF vars, solving
  <2> QED
    BY <1>2, <2>1, <2>2, LookupsKept DEF vars, solving
<1> QED
  BY <1>1, <1>2, CallStep, ReconfigureStep DEF Next

\* Nothing is registered and nothing is called at first.
LEMMA LookupsInit == Init => Lookups
<1> SUFFICES ASSUME Init PROVE Lookups
  OBVIOUS
<1>1. ProviderTypeOK /\ Sound(dependencies, Live)
  BY DEF Init, ProviderInit, ProviderTypeOK, Dict, Absentees, Sound, Live, Registry
<1>2. TypeOK
  <2>1. [f \in Callables |-> Absent] \in [Callables -> Value]
    BY ValueTypes
  <2>2. <<>> \in Seq(Frame) /\ <<>> \in Seq(Exit)
    BY EmptySeq
  <2> QED
    BY <1>1, <2>1, <2>2 DEF Init, TypeOK
<1> QED
  BY <1>1, <1>2 DEF Init, Lookups, RegistriesSound, StackShape, FramesSolvable

\* While calls, overrides, pops and clears interleave, every key a call still has to
\* look up has a model, under the merged provider of its outermost solve() and under
\* the live ones of the others (model.py:218-240, provider.py:39-40).
THEOREM LookupsCorrect == Spec => []Lookups
<1>1. Lookups /\ [Next]_vars => Lookups'
  BY LookupsStep
<1> QED
  BY <1>1, LookupsInit, PTL DEF Spec

\* Type correctness of calls (use.py:188-196, model.py:197-273).
THEOREM TypeCorrect == Spec => []TypeOK
<1>1. Lookups => TypeOK
  BY DEF Lookups
<1> QED
  BY <1>1, LookupsCorrect, PTL

-----------------------------------------------------------------------------
(* HeldOpen *)

\* What HeldOpen and ExitsNumbered say of one call.
HeldIn(c) ==
    /\ \A i \in DOMAIN exits[c] : exits[c][i].id = i
    /\ \A i \in DOMAIN exits[c] : exits[c][i].uses \subseteq 1 .. i - 1
    /\ stage[c] = "open" =>
          /\ \A n \in DOMAIN frames[c], p \in Params :
                frames[c][n].kw[p].holds \subseteq 1 .. Len(exits[c])
          /\ \A f \in Callables : cache[c][f].holds \subseteq 1 .. Len(exits[c])

\* The exit stack of a call is a sequence.
LEMMA ExitsType ==
    ASSUME Lookups, NEW c \in Calls
    PROVE  /\ exits[c] \in Seq(Exit)
           /\ exits \in [Calls -> Seq(Exit)]
           /\ Len(exits[c]) \in Nat
           /\ DOMAIN exits[c] = 1 .. Len(exits[c])
<1>1. exits[c] \in Seq(Exit) /\ exits \in [Calls -> Seq(Exit)]
  BY DEF Lookups, TypeOK
<1> QED
  BY <1>1, LenProperties

\* What the invariant says of teardown is what it says of each call.
LEMMA HeldInMeans ==
    ASSUME Lookups
    PROVE  (ExitsNumbered /\ HeldOpen) <=> \A c \in Calls : HeldIn(c)
<1>1. ASSUME NEW c \in Calls, \A i \in DOMAIN exits[c] : exits[c][i].id = i
      PROVE  /\ Open(exits[c]) = 1 .. Len(exits[c])
             /\ \A i \in DOMAIN exits[c] : {exits[c][j].id : j \in 1 .. i - 1} = 1 .. i - 1
  <2>1. DOMAIN exits[c] = 1 .. Len(exits[c]) /\ Len(exits[c]) \in Nat
    BY ExitsType
  <2>2. Open(exits[c]) = 1 .. Len(exits[c])
    BY <1>1, <2>1 DEF Open
  <2>3. ASSUME NEW i \in 1 .. Len(exits[c]), NEW j \in 1 .. i - 1
        PROVE  exits[c][j].id = j
    <3>1. j \in 1 .. Len(exits[c])
      BY <2>1
    <3> QED
      BY <1>1, <2>1, <3>1
  <2> QED
    BY <2>1, <2>2, <2>3
<1> QED
  BY <1>1 DEF ExitsNumbered, HeldOpen, HeldIn

\* A call none of whose state changes, or that stops resolving with its exits kept.
LEMMA HeldStays ==
    ASSUME NEW c \in Calls, HeldIn(c), exits'[c] = exits[c],
           stage'[c] = "open" =>
               stage[c] = "open" /\ frames'[c] = frames[c] /\ cache'[c] = cache[c]
    PROVE  HeldIn(c)'
BY DEF HeldIn

\* A call begins with nothing open and nothing held.
LEMMA HeldCall ==
    ASSUME Lookups, NEW c \in Calls, HeldIn(c), Call(c)
    PROVE  HeldIn(c)'
<1>1. PICK f \in Injected, s \in Serializers, given \in SUBSET Params :
          frames' = [frames EXCEPT ![c] =
            <<[model |-> [call |-> f, use_cache |-> TRUE, serializer |-> s, provider |-> Shared],
               next |-> 1,
               kw |-> [p \in Params |-> IF p \in given THEN Given ELSE Absent]]>>]
  BY DEF Call, Start, LookIn, NewCache
<1> DEFINE kw == [p \in Params |-> IF p \in given THEN Given ELSE Absent]
<1>2. /\ frames \in [Calls -> Seq(Frame)]
      /\ cache \in [Calls -> [Callables -> Value]]
  BY DEF Lookups, TypeOK
<1>3. \A n \in DOMAIN frames'[c] : frames'[c][n].kw = kw
  BY <1>1, <1>2
<1>4. \A p \in Params : kw[p].holds = {}
  BY DEF Absent, Given
<1>5. \A f2 \in Callables : cache'[c][f2].holds = {}
  BY <1>2 DEF Call, Start, LookIn, NewCache, Absent
<1>6. exits' = exits
  BY DEF Call, Start, LookIn, NewCache
<1> HIDE DEF kw
<1> QED
  BY <1>3, <1>4, <1>5, <1>6 DEF HeldIn

\* A parameter that is skipped, or answered from the cache, takes a value that holds only
\* what is open.
LEMMA HeldAdvance ==
    ASSUME Lookups, NEW c \in Calls, HeldIn(c), Skip(c) \/ Hit(c)
    PROVE  HeldIn(c)'
<1> DEFINE n == Len(frames[c])
<1>1. PICK g \in Frame :
          /\ frames' = [frames EXCEPT ![c] = [frames[c] EXCEPT ![n] = g]]
          /\ \A p \in Params :
                g.kw[p] = Top(c).kw[p] \/ \E f \in Callables : g.kw[p] = cache[c][f]
  BY AdvanceEffect
<1>2. stage[c] = "open" /\ UNCHANGED <<exits, cache>>
  BY DEF Skip, Hit, Unfilled, Resolving
<1>3. /\ frames[c] \in Seq(Frame)
      /\ n \in DOMAIN frames[c]
      /\ Top(c) = frames[c][n]
      /\ frames \in [Calls -> Seq(Frame)]
  BY <1>2, OpenFrames DEF Lookups, TypeOK
<1>4. /\ DOMAIN frames'[c] = DOMAIN frames[c]
      /\ \A j \in DOMAIN frames[c] : frames'[c][j] = IF j = n THEN g ELSE frames[c][j]
  BY <1>1, <1>3
<1>5. \A p \in Params : g.kw[p].holds \subseteq 1 .. Len(exits[c])
  BY <1>1, <1>2, <1>3 DEF HeldIn
<1> QED
  BY <1>2, <1>4, <1>5 DEF HeldIn

\* A frame begins with the keyword arguments of the one below it, which hold only what is open.
LEMMA HeldEnter ==
    ASSUME Lookups, NEW c \in Calls, HeldIn(c), Enter(c)
    PROVE  HeldIn(c)'
<1> DEFINE n == Len(frames[c])
           g == [model |-> Found(c), next |-> 1, kw |-> Top(c).kw]
<1>1. stage[c] = "open" /\ Resolving(c) /\ UNCHANGED <<exits, cache>>
  BY DEF Enter, Unfilled, Resolving
<1>2. /\ frames[c] \in Seq(Frame)
      /\ n \in DOMAIN frames[c]
      /\ n \in Nat
      /\ DOMAIN frames[c] = 1 .. n
      /\ Top(c) = frames[c][n]
      /\ Top(c) \in Frame
      /\ frames \in [Calls -> Seq(Frame)]
  BY <1>1, OpenFrames DEF Lookups, TypeOK
<1>3. Found(c) \in CallModel
  BY <1>1, FoundServes DEF Serves
<1>4. g \in Frame /\ g.kw = Top(c).kw
  BY <1>2, <1>3 DEF Frame
<1>5. frames'[c] = Append(frames[c], g)
  BY <1>2 DEF Enter
<1> HIDE DEF g
<1>6. /\ frames'[c] \in Seq(Frame)
      /\ Len(frames'[c]) = n + 1
      /\ \A j \in 1 .. n : frames'[c][j] = frames[c][j]
      /\ frames'[c][n + 1] = g
  BY <1>2, <1>4, <1>5, AppendProperties
<1>7. ASSUME NEW j \in DOMAIN frames'[c] PROVE \E i \in DOMAIN frames[c] : frames'[c][j].kw = frames[c][i].kw
  <2>1. j \in 1 .. n + 1
    BY <1>6, LenProperties
  <2>2. CASE j \in 1 .. n
    BY <1>2, <1>6, <2>2
  <2>3. CASE j = n + 1
    BY <1>2, <1>4, <1>6, <2>3
  <2> QED
    BY <1>2, <2>1, <2>2, <2>3
<1> QED
  BY <1>1, <1>7 DEF HeldIn

\* The value a dependency returns was made from what is open once it has returned.
LEMMA HeldReturn ==
    ASSUME Lookups, NEW c \in Calls, HeldIn(c), DependencyReturns(c)
    PROVE  HeldIn(c)'
<1> DEFINE f == Top(c).model.call
           id == Len(exits[c]) + 1
           uses == Argument(c)
           v == [maker |-> f, holds |-> IF f \in Generators THEN uses \cup {id} ELSE uses]
           n == Len(frames[c]) - 1
           e == [id |-> id, uses |-> uses]
<1>1. stage[c] = "open" /\ stage' = stage /\ Nested(c)
  BY DEF DependencyReturns, Ready
<1>2. /\ f \in Callables
      /\ Top(c) \in Frame
      /\ Top(c).kw \in Kwargs
      /\ Top(c) = frames[c][Len(frames[c])]
      /\ Len(frames[c]) \in DOMAIN frames[c]
      /\ DOMAIN frames[c] = 1 .. Len(frames[c])
      /\ Len(frames[c]) \in Nat
  BY <1>1, OpenFrames DEF Frame
<1>3. /\ exits[c] \in Seq(Exit)
      /\ exits \in [Calls -> Seq(Exit)]
      /\ Len(exits[c]) \in Nat
      /\ DOMAIN exits[c] = 1 .. Len(exits[c])
  BY ExitsType
<1>4. uses \subseteq 1 .. Len(exits[c]) /\ uses \in SUBSET Nat
  <2>1. \A p \in Params : Top(c).kw[p].holds \subseteq 1 .. Len(exits[c])
    BY <1>1, <1>2 DEF HeldIn
  <2>2. 1 .. Len(exits[c]) \in SUBSET Nat
    BY <1>3
  <2> QED
    BY <1>2, <2>1, <2>2, HoldsType DEF Argument
<1>5. id \in Nat /\ e \in Exit
  BY <1>3, <1>4 DEF Exit
<1>6. v \in Value
  BY <1>2, <1>4, <1>5 DEF Value
<1>7. /\ exits'[c] = IF f \in Generators THEN Append(exits[c], e) ELSE exits[c]
      /\ cache'[c] = cache[c] \/ cache' = [cache EXCEPT ![c][f] = v]
      /\ frames' = [frames EXCEPT ![c] = Return(c, v)]
  BY <1>3 DEF DependencyReturns, Stored
<1>8. /\ Len(exits'[c]) \in Nat
      /\ DOMAIN exits'[c] = 1 .. Len(exits'[c])
      /\ 1 .. Len(exits[c]) \subseteq 1 .. Len(exits'[c])
      /\ f \in Generators => id \in 1 .. Len(exits'[c])
      /\ \A i \in 1 .. Len(exits'[c]) :
            \/ i \in 1 .. Len(exits[c]) /\ exits'[c][i] = exits[c][i]
            \/ i = id /\ exits'[c][i] = e
  <2>1. CASE f \in Generators
    <3>1. /\ exits'[c] \in Seq(Exit)
          /\ Len(exits'[c]) = id
          /\ \A i \in 1 .. Len(exits[c]) : exits'[c][i] = exits[c][i]
          /\ exits'[c][id] = e
      BY <1>3, <1>5, <1>7, <2>1, AppendProperties
    <3>2. DOMAIN exits'[c] = 1 .. id
      BY <3>1, LenProperties
    <3>3. /\ 1 .. Len(exits[c]) \subseteq 1 .. id
          /\ id \in 1 .. id
          /\ \A i \in 1 .. id : i \in 1 .. Len(exits[c]) \/ i = id
      BY <1>3
    <3> QED
      BY <1>5, <3>1, <3>2, <3>3
  <2>2. CASE f \notin Generators
    BY <1>3, <1>7, <2>2
  <2> QED
    BY <2>1, <2>2
<1>9. v.holds \subseteq 1 .. Len(exits'[c])
  BY <1>4, <1>8
<1> HIDE DEF v
<1>10. /\ n \in 1 .. Len(frames[c])
       /\ frames'[c] \in Seq(Frame)
       /\ Len(frames'[c]) = n
       /\ \A j \in 1 .. n : \A p \in Params :
             frames'[c][j].kw[p] \in {frames[c][j].kw[p], v}
  BY <1>1, <1>6, <1>7, ReturnEffect
<1>11. ASSUME NEW j \in DOMAIN frames'[c], NEW p \in Params
       PROVE  frames'[c][j].kw[p].holds \subseteq 1 .. Len(exits'[c])
  <2>1. j \in 1 .. n /\ j \in DOMAIN frames[c]
    BY <1>2, <1>10, LenProperties
  <2>2. frames[c][j].kw[p].holds \subseteq 1 .. Len(exits[c])
    BY <1>1, <2>1 DEF HeldIn
  <2>3. frames'[c][j].kw[p] = frames[c][j].kw[p] \/ frames'[c][j].kw[p] = v
    BY <1>10, <2>1
  <2> QED
    BY <1>8, <1>9, <2>2, <2>3
<1>12. ASSUME NEW g \in Callables PROVE cache'[c][g].holds \subseteq 1 .. Len(exits'[c])
  <2>1. cache \in [Calls -> [Callables -> Value]]
    BY DEF Lookups, TypeOK
  <2>2. cache'[c][g] = cache[c][g] \/ cache'[c][g] = v
    BY <1>7, <2>1
  <2>3. cache[c][g].holds \subseteq 1 .. Len(exits[c])
    BY <1>1 DEF HeldIn
  <2> QED
    BY <1>8, <1>9, <2>2, <2>3
<1>13. ASSUME NEW i \in DOMAIN exits'[c]
       PROVE  exits'[c][i].id = i /\ exits'[c][i].uses \subseteq 1 .. i - 1
  <2>1. CASE i \in 1 .. Len(exits[c]) /\ exits'[c][i] = exits[c][i]
    BY <1>3, <2>1 DEF HeldIn
  <2>2. CASE i = id /\ exits'[c][i] = e
    <3>1. id - 1 = Len(exits[c])
      BY <1>3
    <3> QED
      BY <1>4, <2>2, <3>1
  <2> QED
    BY <1>8, <2>1, <2>2
<1> QED
  BY <1>11, <1>12, <1>13 DEF HeldIn

\* What is closed is the last that was opened: nothing that stays open uses it.
LEMMA HeldClose ==
    ASSUME Lookups, NEW c \in Calls, HeldIn(c),
           CloseQuietly(c) \/ CloseRaises(c) \/ CloseSwallows(c)
    PROVE  HeldIn(c)'
<1> DEFINE k == Len(exits[c]) - 1
<1>1. /\ stage[c] = "closing" /\ stage' = stage
      /\ exits[c] # <<>>
      /\ exits' = [exits EXCEPT ![c] = Front(exits[c])]
  BY DEF CloseQuietly, CloseRaises, CloseSwallows, Closing, PopExit
<1>2. /\ exits[c] \in Seq(Exit)
      /\ exits \in [Calls -> Seq(Exit)]
      /\ Len(exits[c]) \in Nat
      /\ DOMAIN exits[c] = 1 .. Len(exits[c])
  BY ExitsType
<1>3. k \in Nat /\ \A i \in 1 .. k : i \in 1 .. Len(exits[c]) /\ i - 1 + 1 = i
  BY <1>1, <1>2, EmptySeq
<1>4. /\ exits'[c] = SubSeq(exits[c], 1, k)
      /\ \A i \in 1 .. k : exits[c][i] \in Exit
  BY <1>1, <1>2, <1>3, ElementOfSeq DEF Front
<1>5. exits'[c] = [i \in 1 .. k |-> exits[c][i]]
  BY <1>3, <1>4
<1> QED
  BY <1>1, <1>2, <1>3, <1>5 DEF HeldIn

\* The steps of one call leave the state of the others alone.
LEMMA Others ==
    ASSUME Lookups, NEW x \in Calls, Call(x) \/ Proceed(x), NEW c \in Calls, c # x
    PROVE  /\ stage'[c] = stage[c]
           /\ frames'[c] = frames[c]
           /\ cache'[c] = cache[c]
           /\ exits'[c] = exits[c]
           /\ runs'[c] = runs[c]
           /\ main'[c] = main[c]
           /\ view'[c] = view[c]
<1>1. /\ stage \in [Calls -> {"idle", "open", "closing", "done"}]
      /\ main \in [Calls -> Callables \cup {Nobody}]
      /\ view \in [Calls -> Registry \cup {NoProvider}]
      /\ frames \in [Calls -> Seq(Frame)]
      /\ cache \in [Calls -> [Callables -> Value]]
      /\ exits \in [Calls -> Seq(Exit)]
      /\ runs \in [Calls -> [Callables -> Nat]]
  BY DEF Lookups, TypeOK
<1>2. CASE Call(x)
  BY <1>1, <1>2 DEF Call, Start, LookIn, NewCache
<1>3. CASE Skip(x) \/ Hit(x) \/ Enter(x)
  BY <1>1, <1>3 DEF Skip, Hit, Enter
<1>4. CASE DependencyReturns(x)
  BY <1>1, <1>4 DEF DependencyReturns, Counted, Stored
<1>5. CASE MainReturns(x) \/ Fails(x) \/ ArgumentsRefused(x)
  BY <1>1, <1>5 DEF MainReturns, Fails, ArgumentsRefused, Counted, Stored, Leave
<1>6. CASE CloseQuietly(x) \/ CloseRaises(x) \/ CloseSwallows(x) \/ Finish(x)
  BY <1>1, <1>6 DEF CloseQuietly, CloseRaises, CloseSwallows, Finish, PopExit, solving
<1> QED
  BY <1>2, <1>3, <1>4, <1>5, <1>6 DEF Proceed

\* Whatever a step does, what each call holds is open.
LEMMA HeldStep ==
    ASSUME Lookups, [Next]_vars, NEW c \in Calls, HeldIn(c)
    PROVE  HeldIn(c)'
<1>1. ASSUME NEW x \in Calls, Call(x) \/ Proceed(x) PROVE HeldIn(c)'
  <2>1. CASE x = c
    <3>1. CASE Call(c) \/ Skip(c) \/ Hit(c) \/ Enter(c) \/ DependencyReturns(c)
      BY <3>1, HeldCall, HeldAdvance, HeldEnter, HeldReturn
    <3>2. CASE CloseQuietly(c) \/ CloseRaises(c) \/ CloseSwallows(c)
      BY <3>2, HeldClose
    <3>3. CASE MainReturns(c) \/ Fails(c) \/ ArgumentsRefused(c) \/ Finish(c)
      <4>1. exits' = exits /\ stage'[c] # "open"
        BY <3>3 DEF MainReturns, Fails, ArgumentsRefused, Leave, Finish, Lookups, TypeOK
      <4> QED
        BY <4>1, HeldStays
    <3> QED
      BY <1>1, <2>1, <3>1, <3>2, <3>3 DEF Proceed
  <2>2. CASE x # c
    <3>1. stage'[c] = stage[c] /\ frames'[c] = frames[c] /\ cache'[c] = cache[c] /\ exits'[c] = exits[c]
      BY <1>1, <2>2, Others
    <3> QED
      BY <3>1, HeldStays
  <2> QED
    BY <2>1, <2>2
<1>2. CASE Reconfigure \/ UNCHANGED vars
  BY <1>2, HeldStays DEF Reconfigure, vars, solving
<1> QED
  BY <1>1, <1>2 DEF Next

\* No generator is used after its teardown, in any program (use.py:189-196).
THEOREM HeldCorrect == Spec => []HeldOpen
<1> DEFINE J == Lookups /\ \A c \in Calls : HeldIn(c)
<1>1. Init => J
  BY LookupsInit, ExitsType, EmptySeq DEF Init, HeldIn
<1>2. J /\ [Next]_vars => J'
  BY LookupsStep, HeldStep
<1>3. J => HeldOpen
  BY HeldInMeans
<1> QED
  BY <1>1, <1>2, <1>3, PTL DEF Spec

-----------------------------------------------------------------------------
(* What a call runs *)

\* What RunsOnce, RunsCached and FramesDescend say of one call.
RunsIn(c) ==
    /\ \A f \in Callables : Cached(f) => runs[c][f] <= 1
    /\ stage[c] = "open" =>
          /\ \A n \in DOMAIN frames[c] :
                LET m == frames[c][n].model
                IN  /\ \A j \in 1 .. n - 1 : Rank[m.call] < Rank[frames[c][j].model.call]
                    /\ Cached(m.call) => m.use_cache
                    /\ m.use_cache => cache[c][m.call] = Absent
          /\ runs[c][main[c]] = 0
          /\ \A f \in Callables :
                Cached(f) => runs[c][f] <= IF cache[c][f] = Absent THEN 0 ELSE 1

\* What the invariant says of runs is what it says of each call.
LEMMA RunsInMeans ==
    (FramesDescend /\ RunsCached /\ RunsOnce) <=> \A c \in Calls : RunsIn(c)
BY DEF RunsIn, FramesDescend, RunsCached, RunsOnce

\* A call whose stack keeps its models, or that stops resolving, and that runs nothing.
LEMMA RunsStay ==
    ASSUME NEW c \in Calls, RunsIn(c), runs'[c] = runs[c],
           stage'[c] = "open" =>
               /\ stage[c] = "open"
               /\ main'[c] = main[c]
               /\ cache'[c] = cache[c]
               /\ DOMAIN frames'[c] = DOMAIN frames[c]
               /\ \A n \in DOMAIN frames[c] : DOMAIN frames[c] = 1 .. Len(frames[c])
               /\ Len(frames[c]) \in Nat
               /\ \A n \in DOMAIN frames[c] : frames'[c][n].model = frames[c][n].model
    PROVE  RunsIn(c)'
<1>1. CASE stage'[c] = "open"
  <2>1. ASSUME NEW q \in Nat, NEW n \in 1 .. q, NEW j \in 1 .. n - 1 PROVE j \in 1 .. q
    BY <2>1
  <2>2. ASSUME NEW n \in DOMAIN frames'[c]
        PROVE  /\ n \in DOMAIN frames[c]
               /\ \A j \in 1 .. n - 1 : j \in DOMAIN frames[c]
    BY <1>1, <2>1, <2>2
  <2>3. \A n \in DOMAIN frames'[c] :
            LET m == frames'[c][n].model
            IN  /\ \A j \in 1 .. n - 1 : Rank[m.call] < Rank[frames'[c][j].model.call]
                /\ Cached(m.call) => m.use_cache
                /\ m.use_cache => cache'[c][m.call] = Absent
    BY <1>1, <2>2 DEF RunsIn
  <2> QED
    BY <1>1, <2>3 DEF RunsIn
<1>2. CASE stage'[c] # "open"
  BY <1>2 DEF RunsIn
<1> QED
  BY <1>1, <1>2

\* A call begins with an empty cache, nothing run, and one frame.
LEMMA RunsCall ==
    ASSUME Lookups, NEW c \in Calls, Call(c)
    PROVE  RunsIn(c)'
<1>0. PICK f \in Injected, s \in Serializers :
          Start(c, [call |-> f, use_cache |-> TRUE, serializer |-> s, provider |-> Shared])
  BY DEF Call
<1>1. PICK given \in SUBSET Params :
          /\ main' = [main EXCEPT ![c] = f]
          /\ frames' = [frames EXCEPT ![c] =
               <<[model |-> [call |-> f, use_cache |-> TRUE, serializer |-> s, provider |-> Shared],
                  next |-> 1,
                  kw |-> [p \in Params |-> IF p \in given THEN Given ELSE Absent]]>>]
  BY <1>0 DEF Start
<1>2. /\ frames \in [Calls -> Seq(Frame)]
      /\ cache \in [Calls -> [Callables -> Value]]
      /\ runs \in [Calls -> [Callables -> Nat]]
      /\ main \in [Calls -> Callables \cup {Nobody}]
  BY DEF Lookups, TypeOK
<1>3. f \in Callables
  BY CallsAssumption
<1>4. /\ DOMAIN frames'[c] = {1}
      /\ frames'[c][1].model.call = f
      /\ frames'[c][1].model.use_cache
      /\ main'[c] = f
  BY <1>1, <1>2
<1>5. \A g \in Callables : cache'[c][g] = Absent /\ runs'[c][g] = 0
  BY <1>2 DEF Call, Start, LookIn, NewCache
<1>6. \A j \in 1 .. 1 - 1 : FALSE
  OBVIOUS
<1> QED
  BY <1>3, <1>4, <1>5, <1>6 DEF RunsIn

\* Going on to the next parameter runs nothing.
LEMMA RunsAdvance ==
    ASSUME Lookups, NEW c \in Calls, RunsIn(c), Skip(c) \/ Hit(c)
    PROVE  RunsIn(c)'
<1> DEFINE n == Len(frames[c])
<1>1. PICK g \in Frame :
          /\ g.model = Top(c).model
          /\ frames' = [frames EXCEPT ![c] = [frames[c] EXCEPT ![n] = g]]
  BY AdvanceEffect
<1>2. stage[c] = "open" /\ UNCHANGED <<stage, main, cache, runs>>
  BY DEF Skip, Hit, Unfilled, Resolving
<1>3. /\ frames[c] \in Seq(Frame)
      /\ n \in Nat
      /\ DOMAIN frames[c] = 1 .. n
      /\ Top(c) = frames[c][n]
      /\ frames \in [Calls -> Seq(Frame)]
  BY <1>2, OpenFrames DEF Lookups, TypeOK
<1>4. /\ DOMAIN frames'[c] = DOMAIN frames[c]
      /\ \A j \in DOMAIN frames[c] : frames'[c][j].model = frames[c][j].model
  BY <1>1, <1>3
<1> QED
  BY <1>2, <1>3, <1>4, RunsStay

\* The model entered has lower rank than all that wait for it, and nothing is cached
\* for its callable.
LEMMA RunsEnter ==
    ASSUME Lookups, NEW c \in Calls, RunsIn(c), Enter(c)
    PROVE  RunsIn(c)'
<1> DEFINE n == Len(frames[c])
           g == [model |-> Found(c), next |-> 1, kw |-> Top(c).kw]
<1>1. stage[c] = "open" /\ Resolving(c) /\ ~InCache(c) /\ UNCHANGED <<stage, main, cache, runs>>
  BY DEF Enter, Unfilled, Resolving
<1>2. /\ frames[c] \in Seq(Frame)
      /\ n \in DOMAIN frames[c]
      /\ n \in Nat
      /\ DOMAIN frames[c] = 1 .. n
      /\ Top(c) = frames[c][n]
      /\ Top(c) \in Frame
      /\ frames \in [Calls -> Seq(Frame)]
  BY <1>1, OpenFrames DEF Lookups, TypeOK
<1>3. /\ Found(c) \in CallModel
      /\ Found(c).call \in Callables
      /\ Rank[Found(c).call] < Rank[Top(c).model.call]
      /\ Cached(Found(c).call) => Found(c).use_cache
      /\ Found(c).use_cache => cache[c][Found(c).call] = Absent
  BY <1>1, FoundServes DEF Serves, InCache
<1>4. g \in Frame /\ g.model = Found(c)
  BY <1>2, <1>3 DEF Frame
<1>5. frames'[c] = Append(frames[c], g)
  BY <1>2 DEF Enter
<1> HIDE DEF g
<1>6. /\ frames'[c] \in Seq(Frame)
      /\ Len(frames'[c]) = n + 1
      /\ \A j \in 1 .. n : frames'[c][j] = frames[c][j]
      /\ frames'[c][n + 1].model = Found(c)
  BY <1>2, <1>4, <1>5, AppendProperties
<1>7. ASSUME NEW q \in Nat, NEW i \in 1 .. q + 1, NEW j \in 1 .. i - 1
      PROVE  /\ j \in 1 .. q
             /\ i \in 1 .. q \/ i = q + 1
  BY <1>7
<1>8. ASSUME NEW j \in 1 .. n PROVE Rank[Found(c).call] < Rank[frames[c][j].model.call]
  <2>1. ASSUME NEW i \in 1 .. n
        PROVE  frames[c][i].model.call \in Callables /\ Rank[frames[c][i].model.call] \in Nat
    <3>1. frames[c][i] \in Frame
      BY <1>2, <2>1, ElementOfSeq
    <3>2. frames[c][i].model \in CallModel
      BY <3>1 DEF Frame
    <3> QED
      BY <3>2, RankDecreases DEF CallModel, RankAssumption
  <2>a. ASSUME NEW q \in Nat, NEW i \in 1 .. q PROVE i = q \/ i \in 1 .. q - 1
    BY <2>a
  <2>b. ASSUME NEW u \in Nat, NEW v \in Nat, NEW w \in Nat, u < v, v < w PROVE u < w
    BY <2>b
  <2>2. j = n \/ j \in 1 .. n - 1
    BY <1>2, <2>a
  <2>3. j \in 1 .. n - 1 => Rank[Top(c).model.call] < Rank[frames[c][j].model.call]
    BY <1>1, <1>2 DEF RunsIn
  <2>4. Rank[Found(c).call] \in Nat /\ n \in 1 .. n
    BY <1>2, <1>3, RankDecreases DEF RankAssumption
  <2>5. CASE j = n
    BY <1>2, <1>3, <2>5
  <2>6. CASE j \in 1 .. n - 1
    BY <1>2, <1>3, <2>1, <2>3, <2>4, <2>6, <2>b
  <2> QED
    BY <2>2, <2>5, <2>6
<1>9. ASSUME NEW i \in DOMAIN frames'[c]
      PROVE  LET m == frames'[c][i].model
             IN  /\ \A j \in 1 .. i - 1 : Rank[m.call] < Rank[frames'[c][j].model.call]
                 /\ Cached(m.call) => m.use_cache
                 /\ m.use_cache => cache'[c][m.call] = Absent
  <2>1. i \in 1 .. n + 1
    BY <1>2, <1>6, LenProperties
  <2>2. CASE i \in 1 .. n
    <3>1. \A j \in 1 .. i - 1 : j \in 1 .. n
      BY <1>2, <1>7, <2>1
    <3> QED
      BY <1>1, <1>2, <1>6, <2>2, <3>1 DEF RunsIn
  <2>3. CASE i = n + 1
    <3>1. \A j \in 1 .. i - 1 : j \in 1 .. n
      BY <1>2, <1>7, <2>1
    <3> QED
      BY <1>1, <1>3, <1>6, <1>8, <2>3, <3>1
  <2>4. i \in 1 .. n \/ i = n + 1
    BY <1>2, <2>1
  <2> QED
    BY <2>2, <2>3, <2>4
<1> QED
  BY <1>1, <1>9 DEF RunsIn

\* A dependency that may be cached was not cached until it returned, so it had not run.
LEMMA RunsReturn ==
    ASSUME Lookups, NEW c \in Calls, RunsIn(c), DependencyReturns(c)
    PROVE  RunsIn(c)'
<1> DEFINE f == Top(c).model.call
           id == Len(exits[c]) + 1
           uses == Argument(c)
           v == [maker |-> f, holds |-> IF f \in Generators THEN uses \cup {id} ELSE uses]
           n == Len(frames[c]) - 1
<1>1. /\ stage[c] = "open" /\ stage' = stage
      /\ main' = main
      /\ Nested(c)
  BY DEF DependencyReturns, Ready
<1>2. /\ f \in Callables
      /\ Top(c) \in Frame
      /\ Top(c) = frames[c][Len(frames[c])]
      /\ Len(frames[c]) \in DOMAIN frames[c]
      /\ DOMAIN frames[c] = 1 .. Len(frames[c])
      /\ Len(frames[c]) \in Nat \ {0}
      /\ main[c] \in Callables
      /\ frames[c][1].model.call = main[c]
  BY <1>1, OpenFrames DEF Lookups, StackShape
<1>3. /\ cache \in [Calls -> [Callables -> Value]]
      /\ runs \in [Calls -> [Callables -> Nat]]
  BY DEF Lookups, TypeOK
<1>4. v \in Value /\ v # Absent
  <2>1. uses \in SUBSET Nat
    <3>1. Top(c).kw \in Kwargs
      BY <1>2 DEF Frame
    <3>2. \A p \in Params : Top(c).kw[p].holds \in SUBSET Nat
      BY <3>1 DEF Kwargs, Value
    <3> QED
      BY <1>2, <3>1, <3>2, HoldsType DEF Argument
  <2>2. id \in Nat
    BY ExitsType
  <2> QED
    BY <1>2, <2>1, <2>2, ValueTypes DEF Value, Absent
<1>5. /\ cache' = IF Top(c).model.use_cache THEN [cache EXCEPT ![c][f] = v] ELSE cache
      /\ runs' = [runs EXCEPT ![c][f] = @ + 1]
      /\ frames' = [frames EXCEPT ![c] = Return(c, v)]
  BY DEF DependencyReturns, Stored, Counted
<1>6. /\ \A g \in Callables : runs'[c][g] = IF g = f THEN runs[c][f] + 1 ELSE runs[c][g]
      /\ \A g \in Callables \ {f} : cache'[c][g] = cache[c][g]
      /\ Top(c).model.use_cache => cache'[c][f] = v
  BY <1>2, <1>3, <1>5
<1>7. /\ Cached(f) => Top(c).model.use_cache
      /\ Top(c).model.use_cache => cache[c][f] = Absent
      /\ \A j \in 1 .. Len(frames[c]) - 1 : Rank[f] < Rank[frames[c][j].model.call]
  BY <1>1, <1>2 DEF RunsIn
<1> HIDE DEF v
<1>8. /\ n \in 1 .. Len(frames[c])
      /\ frames'[c] \in Seq(Frame)
      /\ Len(frames'[c]) = n
      /\ \A j \in 1 .. n : frames'[c][j].model = frames[c][j].model
  BY <1>1, <1>4, <1>5, ReturnEffect
<1>9. ASSUME NEW j \in 1 .. n
      PROVE  /\ j \in DOMAIN frames[c]
             /\ frames[c][j].model.call \in Callables \ {f}
             /\ \A i \in 1 .. j - 1 : i \in 1 .. n /\ i \in DOMAIN frames[c]
  <2>1. ASSUME NEW q \in Nat \ {0}, NEW i \in 1 .. q - 1, NEW h \in 1 .. i - 1
        PROVE  h \in 1 .. q - 1 /\ h \in 1 .. q
    BY <2>1
  <2>2. ASSUME NEW q \in Nat \ {0}, NEW i \in 1 .. q - 1 PROVE i \in 1 .. q
    BY <2>2
  <2>3. j \in DOMAIN frames[c]
    BY <1>2, <2>2
  <2>4. frames[c][j].model.call \in Callables
    BY <2>3, TodoType
  <2>5. Rank[f] < Rank[frames[c][j].model.call] /\ Rank[f] \in Nat
    BY <1>2, <1>7, RankDecreases DEF RankAssumption
  <2>6. frames[c][j].model.call # f
    BY <2>5
  <2>7. \A i \in 1 .. j - 1 : i \in 1 .. n /\ i \in DOMAIN frames[c]
    BY <1>2, <2>1
  <2> QED
    BY <2>3, <2>4, <2>6, <2>7
<1>10. ASSUME NEW i \in DOMAIN frames'[c]
       PROVE  LET m == frames'[c][i].model
              IN  /\ \A j \in 1 .. i - 1 : Rank[m.call] < Rank[frames'[c][j].model.call]
                  /\ Cached(m.call) => m.use_cache
                  /\ m.use_cache => cache'[c][m.call] = Absent
  <2>1. i \in 1 .. n
    BY <1>8, LenProperties
  <2>2. /\ i \in DOMAIN frames[c]
        /\ frames'[c][i].model = frames[c][i].model
        /\ frames[c][i].model.call \in Callables \ {f}
    BY <1>8, <1>9, <2>1
  <2>3. \A j \in 1 .. i - 1 : frames'[c][j].model = frames[c][j].model
    BY <1>8, <1>9, <2>1
  <2>4. cache'[c][frames[c][i].model.call] = cache[c][frames[c][i].model.call]
    BY <1>6, <2>2
  <2>5. LET m == frames[c][i].model
        IN  /\ \A j \in 1 .. i - 1 : Rank[m.call] < Rank[frames[c][j].model.call]
            /\ Cached(m.call) => m.use_cache
            /\ m.use_cache => cache[c][m.call] = Absent
    BY <1>1, <2>2 DEF RunsIn
  <2> QED
    BY <2>2, <2>3, <2>4, <2>5
<1>11. f # main[c] /\ runs'[c][main[c]] = 0
  <2>1. ASSUME NEW q \in Nat \ {0}, q - 1 \in 1 .. q PROVE 1 \in 1 .. q - 1
    BY <2>1
  <2>2. 1 \in 1 .. n
    BY <1>2, <1>8, <2>1
  <2>3. main[c] # f
    BY <1>2, <1>9, <2>2
  <2> QED
    BY <1>1, <1>2, <1>6, <2>3 DEF RunsIn
<1>12. ASSUME NEW g \in Callables, Cached(g)
       PROVE  /\ runs'[c][g] <= 1
              /\ runs'[c][g] <= IF cache'[c][g] = Absent THEN 0 ELSE 1
  <2>1. CASE g = f
    <3>1. runs[c][f] <= 0 /\ runs[c][f] \in Nat /\ cache'[c][f] # Absent
      BY <1>1, <1>2, <1>3, <1>4, <1>6, <1>7, <1>12, <2>1 DEF RunsIn
    <3> QED
      BY <1>6, <2>1, <3>1
  <2>2. CASE g # f
    BY <1>1, <1>6, <1>12, <2>2 DEF RunsIn
  <2> QED
    BY <2>1, <2>2
<1> QED
  BY <1>1, <1>10, <1>11, <1>12 DEF RunsIn

\* The last run of a call is of the innermost callable, or of nothing.
LEMMA RunsLeave ==
    ASSUME Lookups, NEW c \in Calls, RunsIn(c), MainReturns(c) \/ Fails(c) \/ ArgumentsRefused(c)
    PROVE  RunsIn(c)'
<1> DEFINE f == Top(c).model.call
<1>1. /\ stage[c] = "open"
      /\ stage' = [stage EXCEPT ![c] = "closing"]
      /\ runs' = runs \/ runs' = [runs EXCEPT ![c][f] = @ + 1]
  BY DEF MainReturns, Fails, ArgumentsRefused, Ready, Leave, Counted
<1>2. /\ f \in Callables
      /\ Top(c) = frames[c][Len(frames[c])]
      /\ Len(frames[c]) \in DOMAIN frames[c]
      /\ stage \in [Calls -> {"idle", "open", "closing", "done"}]
      /\ runs \in [Calls -> [Callables -> Nat]]
  BY <1>1, OpenFrames DEF Lookups, TypeOK
<1>3. stage'[c] = "closing"
  BY <1>1, <1>2
<1>4. ASSUME NEW g \in Callables, Cached(g) PROVE runs'[c][g] <= 1
  <2>1. runs[c][g] \in Nat /\ runs[c][g] <= 1
    BY <1>2, <1>4 DEF RunsIn
  <2>2. g = f => runs[c][g] <= 0
    <3>1. Cached(f) => Top(c).model.use_cache
      BY <1>1, <1>2 DEF RunsIn
    <3>2. Top(c).model.use_cache => cache[c][f] = Absent
      BY <1>1, <1>2 DEF RunsIn
    <3>3. cache[c][g] = Absent => runs[c][g] <= 0
      BY <1>1, <1>4 DEF RunsIn
    <3> QED
      BY <1>4, <3>1, <3>2, <3>3
  <2>3. runs'[c][g] = runs[c][g] \/ (g = f /\ runs'[c][g] = runs[c][g] + 1)
    BY <1>1, <1>2
  <2> QED
    BY <2>1, <2>2, <2>3
<1> QED
  BY <1>3, <1>4 DEF RunsIn

\* Every step, of any call or of the provider.
LEMMA RunsStep ==
    ASSUME Lookups, [Next]_vars, NEW c \in Calls, RunsIn(c)
    PROVE  RunsIn(c)'
<1>0. stage[c] = "open" => DOMAIN frames[c] = 1 .. Len(frames[c]) /\ Len(frames[c]) \in Nat
  BY OpenFrames
<1>1. ASSUME NEW x \in Calls, Call(x) \/ Proceed(x) PROVE RunsIn(c)'
  <2>1. CASE x = c
    <3>1. CASE Call(c) \/ Skip(c) \/ Hit(c) \/ Enter(c) \/ DependencyReturns(c)
      BY <3>1, RunsCall, RunsAdvance, RunsEnter, RunsReturn
    <3>2. CASE MainReturns(c) \/ Fails(c) \/ ArgumentsRefused(c)
      BY <3>2, RunsLeave
    <3>3. CASE CloseQuietly(c) \/ CloseRaises(c) \/ CloseSwallows(c) \/ Finish(c)
      <4>1. runs' = runs /\ stage'[c] # "open"
        BY <3>3 DEF CloseQuietly, CloseRaises, CloseSwallows, Closing, PopExit, Finish,
                    solving, Lookups, TypeOK
      <4> QED
        BY <4>1, RunsStay
    <3> QED
      BY <1>1, <2>1, <3>1, <3>2, <3>3 DEF Proceed
  <2>2. CASE x # c
    <3>1. /\ stage'[c] = stage[c] /\ frames'[c] = frames[c] /\ cache'[c] = cache[c]
          /\ runs'[c] = runs[c] /\ main'[c] = main[c]
      BY <1>1, <2>2, Others
    <3> QED
      BY <1>0, <3>1, RunsStay
  <2> QED
    BY <2>1, <2>2
<1>2. CASE Reconfigure \/ UNCHANGED vars
  BY <1>0, <1>2, RunsStay DEF Reconfigure, vars, solving
<1> QED
  BY <1>1, <1>2 DEF Next

\* A cached dependency is called at most once in one call, in any program, however
\* many other calls there are and whatever is overridden meanwhile (model.py:128, 187).
THEOREM RunsOnceCorrect == Spec => []RunsOnce
<1> DEFINE J == Lookups /\ \A c \in Calls : RunsIn(c)
<1>1. Init => J
  BY LookupsInit DEF Init, RunsIn
<1>2. J /\ [Next]_vars => J'
  BY LookupsStep, RunsStep
<1>3. J => RunsOnce
  BY RunsInMeans
<1> QED
  BY <1>1, <1>2, <1>3, PTL DEF Spec

\* The whole invariant the runs check is inductive.
THEOREM InductiveInvariant == Spec => []IInv
<1> DEFINE J == Lookups /\ \A c \in Calls : HeldIn(c) /\ RunsIn(c)
<1>1. Init => J
  BY LookupsInit, ExitsType, EmptySeq DEF Init, HeldIn, RunsIn
<1>2. J /\ [Next]_vars => J'
  BY LookupsStep, HeldStep, RunsStep
<1>3. J => IInv
  BY HeldInMeans, RunsInMeans DEF IInv
<1> QED
  BY <1>1, <1>2, <1>3, PTL DEF Spec

\* What a call has cached it never replaces: two parameters naming one cached
\* dependency get one value.
THEOREM CacheCorrect == Spec => CacheStable
<1> DEFINE J == Lookups /\ \A c \in Calls : RunsIn(c)
           Kept == \A c \in Calls, f \in Callables :
                       stage[c] = "open" /\ stage'[c] = "open" /\ cache[c][f] # Absent
                           => cache'[c][f] = cache[c][f]
<1>1. Init => J
  BY LookupsInit DEF Init, RunsIn
<1>2. J /\ [Next]_vars => J'
  BY LookupsStep, RunsStep
<1>3. ASSUME J, [Next]_vars PROVE [Kept]_vars
  <2>1. SUFFICES ASSUME NEW c \in Calls, NEW f \in Callables,
                        stage[c] = "open", stage'[c] = "open", cache[c][f] # Absent
                 PROVE  cache'[c][f] = cache[c][f]
    OBVIOUS
  <2>2. /\ cache \in [Calls -> [Callables -> Value]]
        /\ stage \in [Calls -> {"idle", "open", "closing", "done"}]
    BY <1>3 DEF Lookups, TypeOK
  <2>3. ASSUME NEW x \in Calls, Call(x) \/ Proceed(x) PROVE cache'[c][f] = cache[c][f]
    <3>1. CASE x = c
      <4>1. CASE DependencyReturns(c)
        <5>1. Top(c).model.call \in Callables /\ RunsIn(c)
          BY <1>3, <2>1, OpenFrames
        <5>2. Top(c).model.use_cache => cache[c][Top(c).model.call] = Absent
          BY <1>3, <2>1, <5>1, OpenFrames DEF RunsIn
        <5> QED
          BY <2>1, <2>2, <4>1, <5>2 DEF DependencyReturns, Stored
      <4>2. CASE ~DependencyReturns(c)
        <5>1. cache' = cache
          BY <2>1, <2>2, <2>3, <3>1, <4>2
          DEF Proceed, Call, Start, LookIn, NewCache, Skip, Hit, Enter, MainReturns, Fails, ArgumentsRefused, Leave,
              CloseQuietly, CloseRaises, CloseSwallows, PopExit, Finish, solving
        <5> QED
          BY <5>1
      <4> QED
        BY <4>1, <4>2
    <3>2. CASE x # c
      BY <1>3, <2>3, <3>2, Others
    <3> QED
      BY <3>1, <3>2
  <2>4. CASE Reconfigure \/ UNCHANGED vars
    BY <2>4 DEF Reconfigure, vars, solving
  <2> QED
    BY <1>3, <2>3, <2>4 DEF Next
<1> QED
  BY <1>1, <1>2, <1>3, PTL DEF Spec, CacheStable

-----------------------------------------------------------------------------
(* What a call never runs *)

\* What the documentation says call c does not run: what was overridden all along, and,
\* without a provider of its own, what only other providers name.
Avoided(c, k) ==
    /\ k # main[c]
    /\ \/ k \in overridden[c] /\ Original(k) /\ Unknown(k, c)
       \/ view[c] = NoProvider /\ LocalOnly(k)

\* A model that may be solved in call c.
Admitted(c, m) ==
    /\ view[c] = NoProvider => m.provider = Shared
    /\ \A k \in Callables : Avoided(c, k) => m.call # k

\* The live provider's models are its own.
OwnModels ==
    \A k \in Callables :
        /\ dependencies[k] # NoModel => dependencies[k].provider = Shared
        /\ overrides[k] # NoModel => overrides[k].provider = Shared

\* The merged provider was made when the keys overridden since were overridden.
Snapshot(c) ==
    /\ \A k \in overridden[c] : view[c].overrides[k] # NoModel
    /\ \A k \in Callables : view[c].overrides[k] # NoModel =>
          \E o \in Overriders[k] \cup LocalOverriders[k] : view[c].overrides[k].call = Unwrap[o]

AvoidsIn(c) ==
    /\ \A k \in overridden[c] : overrides[k] # NoModel
    /\ \A k \in Callables : Avoided(c, k) => runs[c][k] = 0
    /\ stage[c] = "open" =>
          /\ view[c] # NoProvider => Snapshot(c)
          /\ \A n \in DOMAIN frames[c] : Admitted(c, frames[c][n].model)

Avoiding == OwnModels /\ \A c \in Calls : AvoidsIn(c)

\* Only the live provider and what it was merged with are asked for what was overridden.
LEMMA OverriddenFound ==
    ASSUME Lookups, OwnModels, NEW c \in Calls, AvoidsIn(c), Resolving(c),
           NEW k \in overridden[c], k \in Callables, Original(k), Unknown(k, c)
    PROVE  Found(c).call # k
<1> DEFINE n == Len(frames[c])
           key == Key(Wanted(c))
<1>1. stage[c] = "open" /\ n \in DOMAIN frames[c]
  <2>1. stage[c] = "open"
    BY DEF Resolving
  <2> QED
    BY <2>1, OpenFrames
<1>2. /\ key \in Callables /\ Dictionary(c, n).dependencies[key] # NoModel
      /\ Found(c).call \in Servers(key)
      /\ Found(c) = GetDependant(Dictionary(c, n), key)
  BY FoundServes DEF Serves, Found
<1> HIDE DEF n, key
<1>3. CASE key # k
  BY <1>2, <1>3 DEF Original
<1>4. CASE key = k
  <2>1. CASE n = 1 /\ view[c] # NoProvider
    <3>1. Dictionary(c, n) = view[c]
      BY <2>1 DEF Dictionary
    <3>2. Snapshot(c)
      BY <1>1, <2>1 DEF AvoidsIn
    <3>3. view[c].overrides[k] # NoModel /\ Found(c) = view[c].overrides[k]
      BY <1>2, <1>4, <3>1, <3>2 DEF GetDependant, Snapshot
    <3> QED
      BY <3>2, <3>3 DEF Snapshot, Original
  <2>2. CASE ~(n = 1 /\ view[c] # NoProvider) /\ frames[c][n].model.provider = Shared
    <3>1. Dictionary(c, n) = Live
      BY <2>2 DEF Dictionary
    <3>2. overrides[k] # NoModel /\ Found(c) = overrides[k]
      BY <1>2, <1>4, <3>1 DEF GetDependant, Live, AvoidsIn
    <3>3. \E o \in Overriders[k] : overrides[k].call = Unwrap[o]
      BY <3>2 DEF Lookups, TypeOK, ProviderTypeOK
    <3> QED
      BY <3>2, <3>3 DEF Original
  <2>3. CASE ~(n = 1 /\ view[c] # NoProvider) /\ frames[c][n].model.provider # Shared
    <3>1. Dictionary(c, n) = Local[frames[c][n].model.provider]
      BY <2>3 DEF Dictionary
    <3>2. frames[c][n].model.provider \in DOMAIN Local
      BY <1>1, <2>3, TodoType, CallsAssumption DEF CallModel
    <3>3. view[c] # NoProvider
      BY <1>1, <2>3 DEF AvoidsIn, Admitted
    <3> QED
      BY <1>2, <1>4, <3>1, <3>2, <3>3 DEF Unknown
  <2> QED
    BY <2>1, <2>2, <2>3
<1> QED
  BY <1>3, <1>4

\* A call without a provider of its own looks in the live one only.
LEMMA LiveFound ==
    ASSUME Lookups, OwnModels, NEW c \in Calls, AvoidsIn(c), Resolving(c), view[c] = NoProvider
    PROVE  /\ Found(c).provider = Shared
           /\ \A k \in Callables : LocalOnly(k) => Found(c).call # k
<1> DEFINE n == Len(frames[c])
           key == Key(Wanted(c))
<1>1. stage[c] = "open" /\ n \in DOMAIN frames[c] /\ Top(c).model.call \in Callables
  <2>1. stage[c] = "open"
    BY DEF Resolving
  <2> QED
    BY <2>1, OpenFrames
<1>2. /\ key \in Callables /\ Dictionary(c, n).dependencies[key] # NoModel
      /\ Found(c) = GetDependant(Dictionary(c, n), key)
      /\ Wanted(c) \in Dependant /\ Wanted(c) \in AllDepends
  BY <1>1, FoundServes DEF Found, AllDepends
<1>3. Dictionary(c, n) = Live
  <2>1. frames[c][n].model.provider = Shared
    BY <1>1 DEF AvoidsIn, Admitted
  <2> QED
    BY <2>1 DEF Dictionary
<1>4. Unwrap[key] = key
  BY <1>2, DeclAssumption DEF DeclarationsAssumption, Key, Dependant
<1>5. dependencies[key] # NoModel
  BY <1>2, <1>3 DEF Live
<1>6. Found(c) = IF overrides[key] # NoModel THEN overrides[key] ELSE dependencies[key]
  BY <1>2, <1>3 DEF GetDependant, Live
<1>7. \A k \in Callables : LocalOnly(k) => key # k
  BY <1>2 DEF LocalOnly
<1> HIDE DEF n, key
<1>8. Found(c).provider = Shared
  BY <1>2, <1>5, <1>6 DEF OwnModels
<1>9. ASSUME NEW k \in Callables, LocalOnly(k) PROVE Found(c).call # k
  <2>1. CASE overrides[key] # NoModel
    <3>1. \E o \in Overriders[key] : overrides[key].call = Unwrap[o]
      BY <1>2, <2>1 DEF Lookups, TypeOK, ProviderTypeOK
    <3> QED
      BY <1>2, <1>6, <1>9, <2>1, <3>1 DEF LocalOnly
  <2>2. CASE overrides[key] = NoModel
    <3>1. dependencies[key].call = key
      BY <1>2, <1>4, <1>5 DEF Lookups, TypeOK, ProviderTypeOK
    <3> QED
      BY <1>6, <1>7, <1>9, <2>2, <3>1
  <2> QED
    BY <2>1, <2>2
<1> QED
  BY <1>8, <1>9

\* What is found may be solved.
LEMMA FoundAdmitted ==
    ASSUME Lookups, OwnModels, NEW c \in Calls, AvoidsIn(c), Resolving(c)
    PROVE  Admitted(c, Found(c))
<1>1. view[c] = NoProvider => Found(c).provider = Shared
  BY LiveFound
<1>2. ASSUME NEW k \in Callables, Avoided(c, k) PROVE Found(c).call # k
  BY <1>2, OverriddenFound, LiveFound DEF Avoided
<1> QED
  BY <1>1, <1>2 DEF Admitted

\* A call that looks where it did, runs and is to solve admitted models only.
LEMMA AvoidsStay ==
    ASSUME NEW c \in Calls, AvoidsIn(c),
           main'[c] = main[c], view'[c] = view[c], overridden'[c] \subseteq overridden[c],
           \A k \in overridden'[c] : overrides'[k] # NoModel,
           \A k \in Callables : Avoided(c, k) => runs'[c][k] = runs[c][k],
           stage'[c] = "open" =>
               /\ stage[c] = "open"
               /\ \A n \in DOMAIN frames'[c] : Admitted(c, frames'[c][n].model)
    PROVE  AvoidsIn(c)'
<1>1. ASSUME NEW k \in Callables, Avoided(c, k)' PROVE Avoided(c, k)
  BY <1>1 DEF Avoided, Unknown
<1>2. ASSUME stage'[c] = "open", NEW n \in DOMAIN frames'[c]
      PROVE  Admitted(c, frames[c][n].model)'
  <2>1. Admitted(c, frames'[c][n].model)
    BY <1>2
  <2> QED
    BY <1>1, <2>1 DEF Admitted
<1>3. ASSUME Snapshot(c) PROVE Snapshot(c)'
  BY <1>3 DEF Snapshot
<1>4. \A k \in Callables : Avoided(c, k)' => runs'[c][k] = 0
  BY <1>1 DEF AvoidsIn
<1> QED
  BY <1>2, <1>3, <1>4 DEF AvoidsIn

\* A call begins: it looks in the live provider, or in what that holds now and another does.
LEMMA AvoidsCall == ASSUME Lookups, NEW c \in Calls, Call(c) PROVE AvoidsIn(c)'
<1>0. PICK f \in Injected, s \in Serializers :
          Start(c, [call |-> f, use_cache |-> TRUE, serializer |-> s, provider |-> Shared])
  BY DEF Call
<1>1. PICK given \in SUBSET Params :
          /\ main' = [main EXCEPT ![c] = f]
          /\ frames' = [frames EXCEPT ![c] =
               <<[model |-> [call |-> f, use_cache |-> TRUE, serializer |-> s, provider |-> Shared],
                  next |-> 1,
                  kw |-> [p \in Params |-> IF p \in given THEN Given ELSE Absent]]>>]
  BY <1>0 DEF Start
<1>2. /\ frames \in [Calls -> Seq(Frame)] /\ runs \in [Calls -> [Callables -> Nat]]
      /\ main \in [Calls -> Callables \cup {Nobody}]
      /\ view \in [Calls -> Registry \cup {NoProvider}]
      /\ overridden \in [Calls -> SUBSET Callables]
      /\ Live \in Registry
  BY DEF Lookups, TypeOK, ProviderTypeOK, Live, Registry
<1>3. /\ DOMAIN frames'[c] = {1} /\ frames'[c][1].model.call = f
      /\ frames'[c][1].model.provider = Shared /\ main'[c] = f
  BY <1>1, <1>2
<1>4. /\ \A k \in Callables : runs'[c][k] = 0
      /\ overridden'[c] = {k \in Callables : overrides[k] # NoModel}
      /\ overrides' = overrides
  BY <1>2 DEF Call, Start, LookIn, registry
<1>5. ASSUME view'[c] # NoProvider PROVE Snapshot(c)'
  <2>1. PICK q \in DOMAIN Local : view'[c] = Merge(Live, Local[q])
    BY <1>2, <1>5 DEF Call, Start, LookIn
  <2>2. q \in Providers \ {Shared}
    BY CallsAssumption
  <2>3. \A k \in Callables : view'[c].overrides[k] =
            IF Local[q].overrides[k] # NoModel THEN Local[q].overrides[k] ELSE overrides[k]
    BY <2>1 DEF Merge, Union, Live
  <2>4. \A k \in overridden'[c] : view'[c].overrides[k] # NoModel
    BY <1>4, <2>3
  <2>5. ASSUME NEW k \in Callables, view'[c].overrides[k] # NoModel
        PROVE  \E o \in Overriders[k] \cup LocalOverriders[k] :
                   view'[c].overrides[k].call = Unwrap[o]
    <3>1. CASE Local[q].overrides[k] # NoModel
      <4>1. \E o \in LocalOverriders[k] : Local[q].overrides[k].call = Unwrap[o]
        BY <2>2, <3>1, CallsAssumption
      <4> QED
        BY <2>3, <3>1, <4>1
    <3>2. CASE Local[q].overrides[k] = NoModel
      <4>1. view'[c].overrides[k] = overrides[k]
        BY <2>3, <3>2
      <4>2. \E o \in Overriders[k] : overrides[k].call = Unwrap[o]
        BY <2>5, <4>1 DEF Lookups, TypeOK, ProviderTypeOK
      <4> QED
        BY <4>1, <4>2
    <3> QED
      BY <3>1, <3>2
  <2> QED
    BY <2>4, <2>5 DEF Snapshot
<1>6. \A n \in DOMAIN frames'[c] : Admitted(c, frames[c][n].model)'
  BY <1>3 DEF Admitted, Avoided
<1> QED
  BY <1>4, <1>5, <1>6 DEF AvoidsIn

\* A call under way counts what it is solving, and goes on solving what it solved and
\* what it finds.
LEMMA FramesFollow ==
    ASSUME Lookups, NEW c \in Calls, Proceed(c)
    PROVE  /\ UNCHANGED <<registry, main, view, overridden>>
           /\ runs' = runs \/ (stage[c] = "open" /\ Counted(c))
           /\ stage'[c] = "open" =>
                 /\ stage[c] = "open"
                 /\ \A n \in DOMAIN frames'[c] :
                       \/ n \in DOMAIN frames[c] /\ frames'[c][n].model = frames[c][n].model
                       \/ n # 1 /\ Resolving(c) /\ frames'[c][n].model = Found(c)
<1>1. UNCHANGED <<registry, main, view, overridden>>
  BY DEF Proceed, Skip, Hit, Enter, DependencyReturns, MainReturns, Fails, ArgumentsRefused,
         Leave, CloseQuietly, CloseRaises, CloseSwallows, PopExit, Finish, solving
<1>2. /\ runs \in [Calls -> [Callables -> Nat]] /\ frames \in [Calls -> Seq(Frame)]
      /\ stage \in [Calls -> {"idle", "open", "closing", "done"}]
  BY DEF Lookups, TypeOK
<1>3. CASE Skip(c) \/ Hit(c)
  <2>1. stage[c] = "open" /\ runs' = runs
    BY <1>3 DEF Skip, Hit, Unfilled, Resolving
  <2>2. PICK g \in Frame :
            /\ g.model = Top(c).model
            /\ frames' = [frames EXCEPT ![c] = [frames[c] EXCEPT ![Len(frames[c])] = g]]
    BY <1>3, AdvanceEffect
  <2>3. DOMAIN frames'[c] = DOMAIN frames[c]
        /\ \A n \in DOMAIN frames[c] : frames'[c][n].model = frames[c][n].model
    BY <1>2, <2>1, <2>2, OpenFrames
  <2> QED
    BY <1>1, <2>1, <2>3
<1>4. CASE Enter(c)
  <2> DEFINE n == Len(frames[c])
             g == [model |-> Found(c), next |-> 1, kw |-> Top(c).kw]
  <2>1. stage[c] = "open" /\ Resolving(c) /\ runs' = runs
    BY <1>4 DEF Enter, Unfilled, Resolving
  <2>2. /\ frames[c] \in Seq(Frame) /\ n \in Nat /\ DOMAIN frames[c] = 1 .. n
        /\ Top(c) \in Frame
    BY <2>1, OpenFrames
  <2>3. Found(c) \in CallModel
    BY <2>1, FoundServes DEF Serves
  <2>4. g \in Frame /\ g.model = Found(c)
    BY <2>2, <2>3 DEF Frame
  <2>5. frames'[c] = Append(frames[c], g)
    BY <1>2, <1>4 DEF Enter
  <2> HIDE DEF g
  <2>6. /\ frames'[c] \in Seq(Frame) /\ Len(frames'[c]) = n + 1
        /\ \A j \in 1 .. n : frames'[c][j] = frames[c][j]
        /\ frames'[c][n + 1].model = Found(c)
    BY <2>2, <2>4, <2>5, AppendProperties
  <2>7. ASSUME NEW i \in DOMAIN frames'[c], i \notin DOMAIN frames[c]
        PROVE  i # 1 /\ frames'[c][i].model = Found(c)
    <3>1. i \in 1 .. n + 1 /\ i \notin 1 .. n
      BY <2>2, <2>6, <2>7, LenProperties
    <3>2. i = n + 1 /\ n # 0
      BY <2>1, <2>2, <3>1, OpenFrames
    <3> QED
      BY <2>2, <2>6, <3>2
  <2>8. ASSUME NEW i \in DOMAIN frames[c] PROVE frames'[c][i].model = frames[c][i].model
    BY <2>2, <2>6, <2>8
  <2> QED
    BY <1>1, <2>1, <2>7, <2>8
<1>5. CASE DependencyReturns(c)
  <2>1. stage[c] = "open" /\ Nested(c) /\ Counted(c)
    BY <1>5 DEF DependencyReturns, Ready
  <2>2. PICK v \in Value : frames' = [frames EXCEPT ![c] = Return(c, v)]
    <3> DEFINE f == Top(c).model.call
               uses == Argument(c)
               v == [maker |-> f,
                     holds |-> IF f \in Generators THEN uses \cup {Len(exits[c]) + 1} ELSE uses]
    <3>1. f \in Callables /\ Top(c) \in Frame
      BY <2>1, OpenFrames
    <3>2. uses \in SUBSET Nat
      <4>1. Top(c).kw \in Kwargs
        BY <3>1 DEF Frame
      <4>2. \A p \in Params : Top(c).kw[p].holds \in SUBSET Nat
        BY <4>1 DEF Kwargs, Value
      <4> QED
        BY <3>1, <4>1, <4>2, HoldsType DEF Argument
    <3>3. Len(exits[c]) + 1 \in Nat
      BY ExitsType
    <3>4. v \in Value
      BY <3>1, <3>2, <3>3 DEF Value
    <3>5. frames' = [frames EXCEPT ![c] = Return(c, v)]
      BY <1>5 DEF DependencyReturns
    <3> QED
      BY <3>4, <3>5
  <2>3. LET n == Len(frames[c]) - 1
        IN  /\ n \in 1 .. Len(frames[c]) /\ frames'[c] \in Seq(Frame) /\ Len(frames'[c]) = n
            /\ \A j \in 1 .. n : frames'[c][j].model = frames[c][j].model
    BY <2>1, <2>2, ReturnEffect
  <2>4. ASSUME NEW i \in DOMAIN frames'[c]
        PROVE  i \in DOMAIN frames[c] /\ frames'[c][i].model = frames[c][i].model
    <3>1. i \in 1 .. Len(frames[c]) - 1
      BY <2>3, LenProperties
    <3>2. \A l \in Nat \ {0} : \A j \in 1 .. l - 1 : j \in 1 .. l
      OBVIOUS
    <3> QED
      BY <2>1, <2>3, <3>1, <3>2, OpenFrames
  <2> QED
    BY <1>1, <2>1, <2>4
<1>6. CASE MainReturns(c) \/ Fails(c) \/ ArgumentsRefused(c)
  <2>1. stage[c] = "open" /\ stage'[c] # "open" /\ (runs' = runs \/ Counted(c))
    BY <1>2, <1>6 DEF MainReturns, Fails, ArgumentsRefused, Ready, Leave
  <2> QED
    BY <1>1, <2>1
<1>7. CASE CloseQuietly(c) \/ CloseRaises(c) \/ CloseSwallows(c) \/ Finish(c)
  <2>1. runs' = runs /\ stage'[c] # "open"
    BY <1>2, <1>7 DEF CloseQuietly, CloseRaises, CloseSwallows, Closing, PopExit, Finish, solving
  <2> QED
    BY <1>1, <2>1
<1> QED
  BY <1>3, <1>4, <1>5, <1>6, <1>7 DEF Proceed

\* The steps of a call under way.
LEMMA AvoidsProceed ==
    ASSUME Lookups, OwnModels, NEW c \in Calls, AvoidsIn(c), Proceed(c)
    PROVE  AvoidsIn(c)'
<1>1. UNCHANGED <<registry, main, view, overridden>>
  BY FramesFollow
<1>2. /\ main'[c] = main[c] /\ view'[c] = view[c] /\ overridden'[c] \subseteq overridden[c]
      /\ \A k \in overridden'[c] : overrides'[k] # NoModel
  BY <1>1 DEF AvoidsIn, registry
<1>3. runs \in [Calls -> [Callables -> Nat]]
  BY DEF Lookups, TypeOK
<1>4. ASSUME NEW k \in Callables, Avoided(c, k) PROVE runs'[c][k] = runs[c][k]
  <2>1. CASE runs' = runs
    BY <2>1
  <2>2. CASE stage[c] = "open" /\ Counted(c)
    <3>1. /\ Admitted(c, Top(c).model)
          /\ Top(c).model.call \in Callables
      BY <2>2, OpenFrames DEF AvoidsIn
    <3>2. k # Top(c).model.call
      BY <1>4, <3>1 DEF Admitted
    <3> QED
      BY <1>3, <2>2, <3>1, <3>2 DEF Counted
  <2> QED
    BY <2>1, <2>2, FramesFollow
<1>5. ASSUME stage'[c] = "open", NEW n \in DOMAIN frames'[c]
      PROVE  Admitted(c, frames'[c][n].model)
  <2>1. /\ stage[c] = "open"
        /\ \/ n \in DOMAIN frames[c] /\ frames'[c][n].model = frames[c][n].model
           \/ Resolving(c) /\ frames'[c][n].model = Found(c)
    BY <1>5, FramesFollow
  <2> QED
    BY <2>1, FoundAdmitted DEF AvoidsIn
<1>6. stage'[c] = "open" => stage[c] = "open"
  BY FramesFollow
<1> QED
  BY <1>2, <1>4, <1>5, <1>6, AvoidsStay

\* Every step, of any call or of the provider.
LEMMA AvoidsStep == ASSUME Lookups, Avoiding, [Next]_vars PROVE Avoiding'
<1>1. CASE \E x \in Calls : Call(x) \/ Proceed(x)
  <2>1. PICK x \in Calls : Call(x) \/ Proceed(x)
    BY <1>1
  <2>2. registry' = registry /\ \A c \in Calls \ {x} : overridden'[c] = overridden[c]
    <3>1. CASE Call(x)
      <4>1. registry' = registry /\ \E S : overridden' = [overridden EXCEPT ![x] = S]
        BY <3>1 DEF Call, Start, LookIn
      <4>2. overridden \in [Calls -> SUBSET Callables]
        BY DEF Lookups, TypeOK
      <4> QED
        BY <4>1, <4>2
    <3>2. CASE Proceed(x)
      <4>1. registry' = registry /\ overridden' = overridden
        BY <3>2 DEF Proceed, Skip, Hit, Enter, DependencyReturns, MainReturns, Fails,
                    ArgumentsRefused, Leave, CloseQuietly, CloseRaises, CloseSwallows, PopExit,
                    Finish, solving
      <4> QED
        BY <4>1
    <3> QED
      BY <2>1, <3>1, <3>2
  <2>3. OwnModels'
    BY <2>2 DEF Avoiding, OwnModels, registry
  <2>4. ASSUME NEW c \in Calls PROVE AvoidsIn(c)'
    <3>1. CASE c = x
      BY <2>1, <3>1, AvoidsCall, AvoidsProceed DEF Avoiding
    <3>2. CASE c # x
      <4>1. /\ stage'[c] = stage[c] /\ frames'[c] = frames[c] /\ runs'[c] = runs[c]
            /\ main'[c] = main[c] /\ view'[c] = view[c]
        BY <2>1, <3>2, Others
      <4>2. AvoidsIn(c)
        BY DEF Avoiding
      <4>3. overridden'[c] \subseteq overridden[c] /\ \A k \in overridden'[c] : overrides'[k] # NoModel
        BY <2>2, <3>2, <4>2 DEF AvoidsIn, registry
      <4>4. stage'[c] = "open" =>
                \A n \in DOMAIN frames'[c] : Admitted(c, frames'[c][n].model)
        BY <4>1, <4>2 DEF AvoidsIn
      <4> QED
        BY <4>1, <4>2, <4>3, <4>4, AvoidsStay
    <3> QED
      BY <3>1, <3>2
  <2> QED
    BY <2>3, <2>4 DEF Avoiding
<1>2. CASE Reconfigure \/ UNCHANGED vars
  <2>1. [ProviderNext]_registry /\ UNCHANGED <<stage, main, view, frames, runs>>
    BY <1>2 DEF Reconfigure, vars, solving
  <2>2. OwnModels'
    <3>1. dependencies \in Dict /\ overrides \in Dict /\ OwnModels
      BY DEF Lookups, TypeOK, ProviderTypeOK, Avoiding
    <3>2. CASE UNCHANGED registry
      BY <3>1, <3>2 DEF OwnModels, registry
    <3>3. CASE \E m \in DeclaredModels : AddDependant(m)
      BY <3>1, <3>3 DEF AddDependant, DeclaredModels, OwnModels, Dict
    <3>4. CASE \E k \in Callables : RegisterOriginal(k)
      BY <3>1, <3>4 DEF RegisterOriginal, OwnModels, Dict
    <3>5. CASE \E k \in Callables : \E o \in Overriders[k], s \in Serializers : SetOverride(k, o, s)
      BY <3>1, <3>5 DEF SetOverride, OwnModels, Dict
    <3>6. CASE (\E k \in Callables : PopOverride(k)) \/ Clear
      BY <3>1, <3>6 DEF PopOverride, Clear, Absentees, OwnModels, Dict
    <3> QED
      BY <2>1, <3>2, <3>3, <3>4, <3>5, <3>6 DEF ProviderNext
  <2>3. ASSUME NEW c \in Calls PROVE AvoidsIn(c)'
    <3>1. AvoidsIn(c)
      BY DEF Avoiding
    <3>2. overridden'[c] \subseteq overridden[c] /\ \A k \in overridden'[c] : overrides'[k] # NoModel
      BY <1>2, <3>1 DEF Reconfigure, vars, registry, AvoidsIn
    <3>3. stage'[c] = "open" =>
              stage[c] = "open" /\ \A n \in DOMAIN frames'[c] : Admitted(c, frames'[c][n].model)
      BY <2>1, <3>1 DEF AvoidsIn
    <3> QED
      BY <2>1, <3>1, <3>2, <3>3, AvoidsStay
  <2> QED
    BY <2>2, <2>3 DEF Avoiding
<1> QED
  BY <1>1, <1>2 DEF Next

\* What every call avoids, together with what its lookups need.
LEMMA AvoidsInvariant == Spec => [](Lookups /\ Avoiding)
<1>1. Init => Lookups /\ Avoiding
  <2>1. ASSUME Init PROVE Avoiding
    BY <2>1 DEF Init, ProviderInit, Absentees, Avoiding, OwnModels, AvoidsIn
  <2> QED
    BY <2>1, LookupsInit
<1>2. Lookups /\ Avoiding /\ [Next]_vars => (Lookups /\ Avoiding)'
  BY LookupsStep, AvoidsStep
<1> QED
  BY <1>1, <1>2, PTL DEF Spec

\* What is overridden from the beginning of a call to its end does not run in it, whatever
\* else is declared and overridden meanwhile, and through whichever provider the call looks
\* (provider.py:22-26, 39-40): both the live dictionary and the merged one have the override.
THEOREM OverriddenCorrect == Spec => []OverriddenNeverRuns
<1>1. Lookups /\ Avoiding => OverriddenNeverRuns
  BY DEF Lookups, TypeOK, Avoiding, AvoidsIn, Avoided, OverriddenNeverRuns
<1> QED
  BY <1>1, AvoidsInvariant, PTL

\* A call without a provider of its own never runs what only such providers name
\* (model.py:218-221): each model it meets was built by the live provider.
THEOREM LocalCorrect == Spec => []LocalStaysLocal
<1>1. Avoiding => LocalStaysLocal
  BY DEF Avoiding, AvoidsIn, Avoided, LocalStaysLocal
<1> QED
  BY <1>1, AvoidsInvariant, PTL

-----------------------------------------------------------------------------
(* Solve implements CallScope: whatever happens inside a call, what it      *)
(* opens is acquired before the injected function runs and released in      *)
(* reverse, once, before the caller has its answer.                         *)

\* The refinement mapping's ran.
Ran == [c \in Calls |-> main[c] # Nobody /\ runs[c][main[c]] > 0]

\* Whether the injected function ran is left alone by what runs nothing.
LEMMA RanKept ==
    ASSUME main' = main, runs' = runs
    PROVE  Ran' = Ran
BY DEF Ran

\* Calling f counts for ran only if f is the injected function.
LEMMA RanCounted ==
    ASSUME Lookups, NEW c \in Calls, NEW f \in Callables, main[c] \in Callables,
           main' = main, runs' = [runs EXCEPT ![c][f] = @ + 1]
    PROVE  /\ f = main[c] => Ran' = [Ran EXCEPT ![c] = TRUE]
           /\ f # main[c] => Ran' = Ran
<1>1. runs \in [Calls -> [Callables -> Nat]] /\ Nobody \notin Callables
  BY CallsAssumption DEF Lookups, TypeOK
<1>2. ASSUME NEW x \in Calls \ {c} PROVE runs'[x] = runs[x]
  BY <1>1
<1>3. \A g \in Callables : runs'[c][g] = IF g = f THEN runs[c][f] + 1 ELSE runs[c][g]
  BY <1>1
<1>4. f = main[c] => Ran' = [Ran EXCEPT ![c] = TRUE]
  <2>1. SUFFICES ASSUME f = main[c] PROVE Ran' = [Ran EXCEPT ![c] = TRUE]
    OBVIOUS
  <2>2. main'[c] # Nobody /\ runs'[c][main'[c]] > 0
    BY <1>1, <1>3, <2>1
  <2> QED
    BY <1>2, <2>2 DEF Ran
<1>5. f # main[c] => Ran' = Ran
  BY <1>2, <1>3 DEF Ran
<1> QED
  BY <1>4, <1>5

-----------------------------------------------------------------------------

\* The initial states of the two agree.
LEMMA ScopeInit == Init => Scope!Init
BY DEF Init, Scope!Init

\* A call is the beginning of a scope.
LEMMA ScopeBegins ==
    ASSUME Lookups, NEW c \in Calls, Call(c)
    PROVE  Scope!Begin(c)
<1>1. PICK f \in Injected : main' = [main EXCEPT ![c] = f]
  BY DEF Call, Start, LookIn, NewCache
<1>2. /\ main \in [Calls -> Callables \cup {Nobody}]
      /\ runs \in [Calls -> [Callables -> Nat]]
      /\ f \in Callables
  BY CallsAssumption DEF Lookups, TypeOK
<1>3. runs' = [runs EXCEPT ![c] = [g \in Callables |-> 0]]
  BY DEF Call, Start
<1>4. ~(runs'[c][main'[c]] > 0)
  BY <1>1, <1>2, <1>3
<1>5. Ran' = [Ran EXCEPT ![c] = FALSE]
  <2>1. ASSUME NEW x \in Calls \ {c} PROVE main'[x] = main[x] /\ runs'[x] = runs[x]
    BY <1>1, <1>2, <1>3
  <2> QED
    BY <1>4, <2>1 DEF Ran
<1>6. /\ stage[c] \in {"idle", "done"}
      /\ stage' = [stage EXCEPT ![c] = "open"]
      /\ exits' = exits
  BY DEF Call, Start
<1> QED
  BY <1>5, <1>6 DEF Scope!Begin, Ran

\* The generator's context joins the stack, and what it was called with is on it.
LEMMA ScopeAcquires ==
    ASSUME Lookups, NEW c \in Calls, HeldIn(c), RunsIn(c), RunsIn(c)', DependencyReturns(c)
    PROVE  Scope!Acquire(c) \/ UNCHANGED <<stage, exits, Ran>>
<1> DEFINE f == Top(c).model.call
           uses == Argument(c)
<1>1. stage[c] = "open" /\ stage' = stage /\ main' = main
  BY DEF DependencyReturns, Ready
<1>2. /\ f \in Callables
      /\ Top(c) \in Frame
      /\ main[c] \in Callables
      /\ Len(frames[c]) \in DOMAIN frames[c]
      /\ Top(c) = frames[c][Len(frames[c])]
  BY <1>1, OpenFrames
<1>3. runs' = [runs EXCEPT ![c][f] = @ + 1]
  BY DEF DependencyReturns, Counted
<1>4. Ran' = Ran
  <2>1. runs \in [Calls -> [Callables -> Nat]]
    BY DEF Lookups, TypeOK
  <2>2. runs[c][main[c]] = 0 /\ runs'[c][main[c]] = 0
    BY <1>1 DEF RunsIn
  <2>3. f # main[c]
    BY <1>2, <1>3, <2>1, <2>2
  <2> QED
    BY <1>1, <1>2, <1>3, <2>3, RanCounted
<1>5. CASE f \in Generators
  <2>1. exits' = [exits EXCEPT ![c] = Append(@, [id |-> Len(exits[c]) + 1, uses |-> uses])]
    BY <1>5 DEF DependencyReturns
  <2>2. \A p \in Params : Top(c).kw[p].holds \subseteq 1 .. Len(exits[c])
    BY <1>1, <1>2 DEF HeldIn
  <2>3. uses \subseteq 1 .. Len(exits[c])
    <3>1. Top(c).kw \in Kwargs
      BY <1>2 DEF Frame
    <3>2. 1 .. Len(exits[c]) \in SUBSET Nat
      BY ExitsType
    <3> QED
      BY <1>2, <2>2, <3>1, <3>2, HoldsType DEF Argument
  <2>4. uses \in SUBSET Scope!Ids(exits[c])
    <3>1. /\ DOMAIN exits[c] = 1 .. Len(exits[c])
          /\ \A i \in DOMAIN exits[c] : exits[c][i].id = i
      BY ExitsType DEF HeldIn
    <3> QED
      BY <2>3, <3>1 DEF Scope!Ids
  <2> QED
    BY <1>1, <1>4, <2>1, <2>4 DEF Scope!Acquire, Ran
<1>6. CASE f \notin Generators
  BY <1>1, <1>4, <1>6 DEF DependencyReturns
<1> QED
  BY <1>5, <1>6

\* The innermost callable is called and every solve() is left, or it is not called.
LEMMA ScopeCloses ==
    ASSUME Lookups, NEW c \in Calls, RunsIn(c), MainReturns(c) \/ Fails(c) \/ ArgumentsRefused(c)
    PROVE  Scope!Run(c) \/ Scope!GiveUp(c)
<1> DEFINE f == Top(c).model.call
<1>1. /\ stage[c] = "open"
      /\ stage' = [stage EXCEPT ![c] = "closing"]
      /\ main' = main
      /\ exits' = exits
  BY DEF MainReturns, Fails, ArgumentsRefused, Ready, Leave
<1>2. f \in Callables /\ main[c] \in Callables
  BY <1>1, OpenFrames
<1>3. CASE ArgumentsRefused(c)
  BY <1>1, <1>3, RanKept DEF ArgumentsRefused, Scope!GiveUp, Ran
<1>4. CASE MainReturns(c) \/ Fails(c)
  <2>1. runs' = [runs EXCEPT ![c][f] = @ + 1]
    BY <1>4 DEF MainReturns, Fails, Counted
  <2>2. CASE f = main[c]
    BY <1>1, <1>2, <2>1, <2>2, RanCounted DEF Scope!Run, Ran
  <2>3. CASE f # main[c]
    BY <1>1, <1>2, <2>1, <2>3, RanCounted DEF Scope!GiveUp, Ran
  <2> QED
    BY <2>2, <2>3
<1> QED
  BY <1>3, <1>4

-----------------------------------------------------------------------------

\* Every step of Solve is a step of CallScope, or none.
LEMMA ScopeStep ==
    ASSUME Lookups, \A c \in Calls : HeldIn(c) /\ RunsIn(c), (\A c \in Calls : RunsIn(c))',
           [Next]_vars
    PROVE  [Scope!Next]_(Scope!vars)
<1>1. UNCHANGED <<stage, exits, Ran>> => UNCHANGED Scope!vars
  BY DEF Scope!vars, Ran
<1>2. ASSUME NEW c \in Calls, Call(c) \/ Proceed(c)
      PROVE  Scope!Next \/ UNCHANGED <<stage, exits, Ran>>
  <2>1. CASE Call(c)
    BY <2>1, ScopeBegins DEF Scope!Next
  <2>2. CASE Skip(c) \/ Hit(c) \/ Enter(c)
    BY <2>2, RanKept DEF Skip, Hit, Enter
  <2>3. CASE DependencyReturns(c)
    BY <2>3, ScopeAcquires DEF Scope!Next
  <2>4. CASE MainReturns(c) \/ Fails(c) \/ ArgumentsRefused(c)
    BY <2>4, ScopeCloses DEF Scope!Next
  <2>5. CASE CloseQuietly(c) \/ CloseRaises(c) \/ CloseSwallows(c)
    <3>1. Closing(c) /\ PopExit(c)
      BY <2>5 DEF CloseQuietly, CloseRaises, CloseSwallows
    <3>2. Ran' = Ran
      BY <3>1, RanKept DEF PopExit, solving
    <3>3. Scope!Release(c)
      BY <3>1, <3>2 DEF Closing, PopExit, Front, Scope!Release, Scope!Front, Ran
    <3> QED
      BY <3>3 DEF Scope!Next
  <2>6. CASE Finish(c)
    <3>1. Ran' = Ran
      BY <2>6, RanKept DEF Finish, solving
    <3>2. Scope!End(c)
      BY <2>6, <3>1 DEF Finish, Scope!End, Ran
    <3> QED
      BY <3>2 DEF Scope!Next
  <2> QED
    BY <1>2, <2>1, <2>2, <2>3, <2>4, <2>5, <2>6 DEF Proceed
<1>3. CASE Reconfigure \/ UNCHANGED vars
  <2>1. UNCHANGED <<stage, exits, main, runs>>
    BY <1>3 DEF Reconfigure, vars, solving
  <2> QED
    BY <1>1, <2>1, RanKept
<1> QED
  BY <1>1, <1>2, <1>3 DEF Next

\* Every call, in any program and among any number of others, acquires what it opens
\* before its function runs and releases it in the reverse order, exactly once, before
\* the caller has its answer (use.py:189-196, utils.py:62-82).
THEOREM ScopeCorrect == Spec => ScopeSpec
<1> DEFINE J == Lookups /\ \A c \in Calls : HeldIn(c) /\ RunsIn(c)
<1>1. Init => J
  BY LookupsInit, ExitsType, EmptySeq DEF Init, HeldIn, RunsIn
<1>2. J /\ [Next]_vars => J'
  BY LookupsStep, HeldStep, RunsStep
<1>3. J /\ J' /\ [Next]_vars => [Scope!Next]_(Scope!vars)
  BY ScopeStep
<1> QED
  BY ScopeInit, <1>1, <1>2, <1>3, PTL DEF Spec, ScopeSpec, Scope!Spec
==============================================================================
