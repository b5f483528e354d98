------------------------------- MODULE ScopesProof -------------------------------
(***************************************************************************)
(* Provider.scope() for any actors, callables and depth of blocks: what    *)
(* the blocks write is what the provider allows, and while no exception    *)
(* leaves a block each override lives as long as the blocks it is for.     *)
(***************************************************************************)
EXTENDS Scopes, ProviderProof, SequenceTheorems

BlocksOK == blocks \in [Actors -> Seq(Block)]

ScopesInv == ProviderTypeOK /\ BlocksOK /\ NothingLeft /\ BlockServed

\* w without its innermost block or with all of them, as it is after someone has touched
\* keys: the same blocks, alone only if they were and of another key.
Touched(v, w, keys) ==
    /\ v \in Seq(Block)
    /\ Len(v) <= Len(w)
    /\ \A i \in 1 .. Len(v) :
          /\ v[i].key = w[i].key
          /\ v[i].override = w[i].override
          /\ v[i].alone => w[i].alone /\ w[i].key \notin keys

-----------------------------------------------------------------------------
(* Blocks *)

\* Interference takes no block away and changes nothing but who was alone.
LEMMA DisturbedBlocks ==
    ASSUME BlocksOK, NEW keys, NEW t \in Actors
    PROVE  /\ Touched(Disturbed(keys)[t], blocks[t], keys)
           /\ Len(Disturbed(keys)[t]) = Len(blocks[t])
<1> DEFINE w == blocks[t]
           v == [i \in 1 .. Len(w) |-> [w[i] EXCEPT !.alone = @ /\ w[i].key \notin keys]]
<1>1. w \in Seq(Block) /\ Len(w) \in Nat /\ DOMAIN w = 1 .. Len(w)
  BY LenProperties DEF BlocksOK
<1>2. Disturbed(keys)[t] = v
  BY <1>1 DEF Disturbed
<1>3. ASSUME NEW i \in 1 .. Len(w)
      PROVE  /\ v[i] \in Block /\ v[i].key = w[i].key /\ v[i].override = w[i].override
             /\ v[i].alone => w[i].alone /\ w[i].key \notin keys
  <2>1. w[i] \in Block
    BY <1>1, ElementOfSeq
  <2> QED
    BY <2>1 DEF Block
<1>4. v \in Seq(Block) /\ Len(v) = Len(w)
  <2>1. \A i \in 1 .. Len(w) : v[i] \in Block
    BY <1>3
  <2>2. v = [i \in 1 .. Len(w) |-> v[i]]
    OBVIOUS
  <2> HIDE DEF v
  <2>3. v \in [1 .. Len(w) -> Block]
    BY <2>1, <2>2
  <2>4. v \in Seq(Block)
    BY <1>1, <2>3, IsASeq
  <2> QED
    BY <1>1, <2>3, <2>4, LenProperties
<1> HIDE DEF v
<1>5. Touched(v, w, keys) /\ Len(v) = Len(w)
  BY <1>1, <1>3, <1>4 DEF Touched
<1> QED
  BY <1>2, <1>5

\* All but the last of a sequence.
LEMMA AllButLast ==
    ASSUME NEW S, NEW s \in Seq(S), s # <<>>
    PROVE  /\ Front(s) \in Seq(S)
           /\ Len(Front(s)) = Len(s) - 1
           /\ \A n \in 1 .. Len(s) - 1 : Front(s)[n] = s[n]
<1>1. PICK n \in Nat : Len(s) = n + 1
  <2>1. Len(s) \in Nat \ {0}
    BY EmptySeq
  <2>2. Len(s) - 1 \in Nat /\ Len(s) = (Len(s) - 1) + 1
    BY <2>1
  <2> QED
    BY <2>2
<1>2. \A i \in 1 .. n : s[i] \in S
  BY <1>1, ElementOfSeq
<1>3. /\ SubSeq(s, 1, n) \in Seq(S)
      /\ Len(SubSeq(s, 1, n)) = IF 1 <= n THEN n - 1 + 1 ELSE 0
      /\ \A i \in 1 .. n - 1 + 1 : SubSeq(s, 1, n)[i] = s[1 + i - 1]
  BY <1>2, SubSeqProperties, 1 \in Int, n \in Int
<1>4. Len(s) - 1 = n /\ Front(s) = SubSeq(s, 1, n)
  BY <1>1 DEF Front
<1> QED
  BY <1>3, <1>4

\* A block left: the others of its actor are below it.
LEMMA OutBlocks ==
    ASSUME BlocksOK, NEW t \in Actors, blocks[t] # <<>>, NEW keys, Out(t, keys)
    PROVE  /\ BlocksOK'
           /\ \A u \in Actors : Touched(blocks'[u], blocks[u], keys)
           /\ \A u \in Actors : Len(blocks'[u]) = IF u = t THEN Len(blocks[u]) - 1 ELSE Len(blocks[u])
<1> DEFINE d == Disturbed(keys)
<1>1. d = [u \in Actors |-> d[u]]
  BY DEF Disturbed
<1>2. \A u \in Actors : blocks'[u] = IF u = t THEN Front(d[t]) ELSE d[u]
  BY <1>1 DEF Out
<1>3. ASSUME NEW u \in Actors PROVE Touched(d[u], blocks[u], keys) /\ Len(d[u]) = Len(blocks[u])
  BY DisturbedBlocks
<1>4. blocks[t] \in Seq(Block) /\ Len(blocks[t]) \in Nat \ {0}
  BY EmptySeq DEF BlocksOK
<1>5. blocks' = [u \in Actors |-> blocks'[u]]
  BY <1>1 DEF Out
<1> HIDE DEF d
<1>6. d[t] \in Seq(Block) /\ d[t] # <<>>
  BY <1>3, <1>4, EmptySeq DEF Touched
<1>7. /\ Front(d[t]) \in Seq(Block) /\ Len(Front(d[t])) = Len(blocks[t]) - 1
      /\ \A n \in 1 .. Len(blocks[t]) - 1 : Front(d[t])[n] = d[t][n]
  BY <1>3, <1>6, AllButLast
<1>8. Touched(Front(d[t]), blocks[t], keys)
  BY <1>3, <1>4, <1>7 DEF Touched
<1>9. ASSUME NEW u \in Actors
      PROVE  /\ Touched(blocks'[u], blocks[u], keys)
             /\ Len(blocks'[u]) = IF u = t THEN Len(blocks[u]) - 1 ELSE Len(blocks[u])
  BY <1>2, <1>3, <1>7, <1>8
<1>10. BlocksOK'
  BY <1>5, <1>9 DEF BlocksOK, Touched
<1> QED
  BY <1>9, <1>10

\* Interference with a key whose override changes, or with none, leaves the blocks that
\* are still alone served.
LEMMA StillServed ==
    ASSUME BlocksOK, BlockServed, NEW keys,
           \A u \in Actors : Touched(blocks'[u], blocks[u], keys),
           \A k \in Callables \ keys : overrides'[k] = overrides[k]
    PROVE  BlockServed'
<1>1. SUFFICES ASSUME NEW u \in Actors, NEW i \in DOMAIN blocks'[u], blocks'[u][i].alone
               PROVE  /\ overrides'[blocks'[u][i].key] # NoModel
                      /\ overrides'[blocks'[u][i].key].call = Unwrap[blocks'[u][i].override]
  BY DEF BlockServed
<1>2. /\ i \in 1 .. Len(blocks'[u]) /\ i \in 1 .. Len(blocks[u])
      /\ i \in DOMAIN blocks[u] /\ blocks[u][i] \in Block
  <2>1. blocks[u] \in Seq(Block) /\ blocks'[u] \in Seq(Block) /\ Len(blocks'[u]) <= Len(blocks[u])
    BY DEF BlocksOK, Touched
  <2> QED
    BY <1>1, <2>1, LenProperties, ElementOfSeq
<1>3. /\ blocks'[u][i].key = blocks[u][i].key /\ blocks'[u][i].override = blocks[u][i].override
      /\ blocks[u][i].alone /\ blocks[u][i].key \in Callables \ keys
  BY <1>1, <1>2 DEF Touched, Block
<1> QED
  BY <1>2, <1>3 DEF BlockServed

-----------------------------------------------------------------------------
(* Steps *)

\* The blocks are as they were, and so is what overrides their keys.
LEMMA NothingMoves ==
    ASSUME ScopesInv, ProviderTypeOK', UNCHANGED <<overrides, blocks>>, escaped => escaped'
    PROVE  ScopesInv'
BY DEF ScopesInv, BlocksOK, NothingLeft, BlockServed, Keys

\* Models are registered elsewhere (builder.py:165, provider.py:52-58).
LEMMA DeclareStep ==
    ASSUME ScopesInv, Declare
    PROVE  [ProviderNext]_registry /\ ScopesInv'
<1>1. ProviderNext /\ UNCHANGED <<overrides, blocks, escaped>>
  BY DEF Declare, ProviderNext, AddDependant, RegisterOriginal
<1>2. ProviderTypeOK'
  BY <1>1, ProviderTypeStep DEF ScopesInv
<1> QED
  BY <1>1, <1>2, NothingMoves

\* A block is entered: its override serves its key (provider.py:76-81).
LEMMA EnterStep ==
    ASSUME ScopesInv, NEW t \in Actors, Enter(t)
    PROVE  [ProviderNext]_registry /\ ScopesInv'
<1>1. PICK k \in Callables :
          \E o \in Overriders[k] :
              /\ SetOverride(k, o, NoSerializer)
              /\ blocks' = [Disturbed({k}) EXCEPT ![t] =
                    Append(@, [key |-> k, override |-> o,
                               alone |-> \A x \in Actors : k \notin Keys(x)])]
  BY DEF Enter
<1>2. PICK o \in Overriders[k] :
          /\ SetOverride(k, o, NoSerializer)
          /\ blocks' = [Disturbed({k}) EXCEPT ![t] =
                Append(@, [key |-> k, override |-> o,
                           alone |-> \A x \in Actors : k \notin Keys(x)])]
  BY <1>1
<1>3. /\ o \in Callables /\ NoSerializer \in Serializers /\ ProviderNext
      /\ escaped' = escaped
  BY <1>2, DeclAssumption DEF DeclarationsAssumption, ProviderNext, Enter
<1>4. ProviderTypeOK'
  BY <1>3, ProviderTypeStep DEF ScopesInv
<1>5. /\ overrides'[k] # NoModel /\ overrides'[k].call = Unwrap[o]
      /\ \A x \in Callables \ {k} : overrides'[x] = overrides[x]
  <2> DEFINE m == [call |-> Unwrap[o], use_cache |-> TRUE,
                   serializer |-> NoSerializer, provider |-> Shared]
  <2>1. m \in CallModel /\ m.call = Unwrap[o]
    BY <1>3, DeclAssumption DEF DeclarationsAssumption, CallModel
  <2>2. overrides' = [overrides EXCEPT ![k] = m]
    BY <1>2 DEF SetOverride
  <2> HIDE DEF m
  <2> QED
    BY <2>1, <2>2, NoModelAssumption DEF ScopesInv, ProviderTypeOK, Dict
<1> DEFINE d == Disturbed({k})
           b == [key |-> k, override |-> o, alone |-> \A x \in Actors : k \notin Keys(x)]
<1>6. /\ b \in Block /\ b.key = k /\ b.override = o
      /\ d = [u \in Actors |-> d[u]]
  BY <1>3 DEF Block, Disturbed
<1>7. \A u \in Actors : Touched(d[u], blocks[u], {k}) /\ Len(d[u]) = Len(blocks[u])
  BY DisturbedBlocks DEF ScopesInv
<1>8. blocks' = [d EXCEPT ![t] = Append(@, b)]
  BY <1>2
<1> HIDE DEF d, b
<1>9. /\ \A u \in Actors : blocks'[u] = IF u = t THEN Append(d[t], b) ELSE d[u]
      /\ blocks' = [u \in Actors |-> blocks'[u]]
  BY <1>6, <1>8
<1>10. d[t] \in Seq(Block) /\ Len(d[t]) \in Nat
  BY <1>7 DEF Touched
<1>11. BlocksOK'
  <2>1. Append(d[t], b) \in Seq(Block)
    BY <1>6, <1>10
  <2> QED
    BY <1>7, <1>9, <2>1 DEF BlocksOK, Touched
<1>12. \A u \in Actors : \A i \in DOMAIN blocks'[u] :
           \/ u = t /\ blocks'[u][i] = b
           \/ /\ i \in DOMAIN blocks[u] /\ blocks[u][i] \in Block
              /\ blocks'[u][i] = d[u][i] /\ i \in 1 .. Len(d[u])
  <2>1. SUFFICES ASSUME NEW u \in Actors, NEW i \in DOMAIN blocks'[u]
                 PROVE  \/ u = t /\ blocks'[u][i] = b
                        \/ /\ i \in DOMAIN blocks[u] /\ blocks[u][i] \in Block
                           /\ blocks'[u][i] = d[u][i] /\ i \in 1 .. Len(d[u])
    OBVIOUS
  <2>2. /\ d[u] \in Seq(Block) /\ blocks[u] \in Seq(Block) /\ Len(d[u]) = Len(blocks[u])
        /\ Len(d[u]) \in Nat /\ DOMAIN blocks[u] = 1 .. Len(blocks[u]) /\ DOMAIN d[u] = 1 .. Len(d[u])
    BY <1>7, LenProperties DEF Touched, ScopesInv, BlocksOK
  <2>3. i \in 1 .. Len(d[u]) => i \in DOMAIN blocks[u] /\ blocks[u][i] \in Block
    BY <2>2, ElementOfSeq
  <2>4. CASE u = t
    <3>1. /\ Len(Append(d[t], b)) = Len(d[t]) + 1
          /\ DOMAIN Append(d[t], b) = 1 .. Len(d[t]) + 1
          /\ Append(d[t], b)[Len(d[t]) + 1] = b
          /\ \A n \in 1 .. Len(d[t]) : Append(d[t], b)[n] = d[t][n]
      BY <1>6, <1>10
    <3>2. i \in 1 .. Len(d[t]) \/ i = Len(d[t]) + 1
      BY <1>9, <1>10, <2>1, <2>4, <3>1
    <3> QED
      BY <1>9, <2>3, <2>4, <3>1, <3>2
  <2>5. CASE u # t
    BY <1>9, <2>1, <2>2, <2>3, <2>5
  <2> QED
    BY <2>4, <2>5
<1>13. BlockServed'
  <2>1. SUFFICES ASSUME NEW u \in Actors, NEW i \in DOMAIN blocks'[u], blocks'[u][i].alone
                 PROVE  /\ overrides'[blocks'[u][i].key] # NoModel
                        /\ overrides'[blocks'[u][i].key].call = Unwrap[blocks'[u][i].override]
    BY DEF BlockServed
  <2>2. CASE u = t /\ blocks'[u][i] = b
    BY <1>5, <1>6, <2>2
  <2>3. CASE /\ i \in DOMAIN blocks[u] /\ blocks[u][i] \in Block
             /\ blocks'[u][i] = d[u][i] /\ i \in 1 .. Len(d[u])
    <3>1. /\ d[u][i].key = blocks[u][i].key /\ d[u][i].override = blocks[u][i].override
          /\ blocks[u][i].alone /\ blocks[u][i].key # k /\ blocks[u][i].key \in Callables
      BY <1>7, <2>1, <2>3 DEF Touched, Block
    <3> QED
      BY <1>5, <2>3, <3>1 DEF ScopesInv, BlockServed
  <2> QED
    BY <1>12, <2>2, <2>3
<1>14. NothingLeft'
  <2>1. \A u \in Actors : Keys(u) \subseteq Keys(u)'
    <3>1. SUFFICES ASSUME NEW u \in Actors, NEW i \in DOMAIN blocks[u]
                   PROVE  \E j \in DOMAIN blocks'[u] : blocks'[u][j].key = blocks[u][i].key
      BY DEF Keys
    <3>2. /\ d[u] \in Seq(Block) /\ i \in 1 .. Len(d[u]) /\ d[u][i].key = blocks[u][i].key
      BY <1>7, LenProperties DEF Touched, ScopesInv, BlocksOK
    <3>3. i \in DOMAIN blocks'[u] /\ blocks'[u][i] = d[u][i]
      BY <1>6, <1>9, <1>10, <3>2
    <3> QED
      BY <3>2, <3>3
  <2>2. k \in Keys(t)'
    <3>1. /\ DOMAIN Append(d[t], b) = 1 .. Len(d[t]) + 1
          /\ Append(d[t], b)[Len(d[t]) + 1] = b
      BY <1>6, <1>10
    <3>2. Len(d[t]) + 1 \in DOMAIN blocks'[t] /\ blocks'[t][Len(d[t]) + 1] = b
      BY <1>9, <1>10, <3>1
    <3> QED
      BY <1>6, <3>2 DEF Keys
  <2>3. ASSUME ~escaped, NEW x \in Callables, overrides'[x] # NoModel
        PROVE  \E u \in Actors : x \in Keys(u)'
    BY <1>5, <2>1, <2>2, <2>3 DEF ScopesInv, NothingLeft
  <2> QED
    BY <1>3, <2>3 DEF NothingLeft
<1> QED
  BY <1>3, <1>4, <1>11, <1>13, <1>14 DEF ScopesInv

\* A block is left at its end: its key has no override (provider.py:82-84).
LEMMA LeaveStep ==
    ASSUME ScopesInv, NEW t \in Actors, Leave(t)
    PROVE  [ProviderNext]_registry /\ ScopesInv'
<1> DEFINE w == blocks[t]
           k == Last(w).key
<1>1. /\ w # <<>> /\ PopOverride(k) /\ Out(t, {k}) /\ escaped' = escaped
  BY DEF Leave
<1>2. w \in Seq(Block) /\ Len(w) \in Nat \ {0} /\ Last(w) = w[Len(w)]
  BY <1>1, EmptySeq DEF ScopesInv, BlocksOK, Last
<1>3. k \in Callables
  <2>1. w[Len(w)] \in Block
    BY <1>2, ElementOfSeq
  <2> QED
    BY <1>2, <2>1 DEF Block
<1>4. ProviderNext
  BY <1>1, <1>3 DEF ProviderNext
<1>5. ProviderTypeOK'
  BY <1>4, ProviderTypeStep DEF ScopesInv
<1>6. overrides'[k] = NoModel /\ \A x \in Callables \ {k} : overrides'[x] = overrides[x]
  BY <1>1, <1>3 DEF PopOverride, ScopesInv, ProviderTypeOK, Dict
<1>7. /\ BlocksOK'
      /\ \A u \in Actors : Touched(blocks'[u], blocks[u], {k})
      /\ \A u \in Actors : Len(blocks'[u]) = IF u = t THEN Len(blocks[u]) - 1 ELSE Len(blocks[u])
  BY <1>1, OutBlocks DEF ScopesInv
<1>8. BlockServed'
  BY <1>6, <1>7, StillServed DEF ScopesInv
<1>9. NothingLeft'
  <2>1. ASSUME NEW u \in Actors, NEW i \in DOMAIN blocks[u], blocks[u][i].key # k
        PROVE  blocks[u][i].key \in Keys(u)'
    <3>1. blocks[u] \in Seq(Block) /\ i \in 1 .. Len(blocks[u]) /\ Len(blocks[u]) \in Nat
      BY LenProperties DEF ScopesInv, BlocksOK
    <3>2. i \in 1 .. Len(blocks'[u])
      BY <1>2, <1>7, <2>1, <3>1
    <3>3. i \in DOMAIN blocks'[u] /\ blocks'[u][i].key = blocks[u][i].key
      BY <1>7, <3>2, LenProperties DEF Touched
    <3> QED
      BY <3>3 DEF Keys
  <2>2. ASSUME ~escaped, NEW x \in Callables, overrides'[x] # NoModel
        PROVE  \E u \in Actors : x \in Keys(u)'
    <3>1. x # k /\ overrides[x] # NoModel
      BY <1>6, <2>2
    <3>2. PICK u \in Actors : x \in Keys(u)
      BY <2>2, <3>1 DEF ScopesInv, NothingLeft
    <3> QED
      BY <2>1, <3>1, <3>2 DEF Keys
  <2> QED
    BY <1>1, <2>2 DEF NothingLeft
<1> QED
  BY <1>4, <1>5, <1>7, <1>8, <1>9 DEF ScopesInv

\* A block left by an exception pops nothing (provider.py:82-84).
LEMMA LeaveRaisingStep ==
    ASSUME ScopesInv, NEW t \in Actors, LeaveRaising(t)
    PROVE  [ProviderNext]_registry /\ ScopesInv'
<1>1. /\ blocks[t] # <<>> /\ Out(t, {Last(blocks[t]).key}) /\ escaped'
      /\ UNCHANGED registry /\ dependencies' = dependencies /\ overrides' = overrides
  BY DEF LeaveRaising, registry
<1>2. BlocksOK' /\ \A u \in Actors : Touched(blocks'[u], blocks[u], {Last(blocks[t]).key})
  BY <1>1, OutBlocks DEF ScopesInv
<1>3. BlockServed'
  BY <1>1, <1>2, StillServed DEF ScopesInv
<1> QED
  BY <1>1, <1>2, <1>3 DEF ScopesInv, ProviderTypeOK, NothingLeft

\* clear() takes every override away, and touches the blocks of every key.
LEMMA ClearStep ==
    ASSUME ScopesInv, NEW t \in Actors, ClearOverrides(t)
    PROVE  [ProviderNext]_registry /\ ScopesInv'
<1>1. /\ ProviderNext /\ blocks' = Disturbed(Callables) /\ overrides' = Absentees
  BY DEF ClearOverrides, ProviderNext, Clear
<1>2. ProviderTypeOK'
  BY <1>1, ProviderTypeStep DEF ScopesInv
<1>3. \A u \in Actors : Touched(blocks'[u], blocks[u], Callables)
  BY <1>1, DisturbedBlocks DEF ScopesInv
<1>4. blocks' = [u \in Actors |-> blocks'[u]]
  BY <1>1 DEF Disturbed
<1>5. BlocksOK'
  BY <1>3, <1>4 DEF BlocksOK, Touched
<1>6. BlockServed'
  BY <1>3, StillServed DEF ScopesInv
<1>7. NothingLeft'
  BY <1>1 DEF Absentees, NothingLeft
<1> QED
  BY <1>1, <1>2, <1>5, <1>6, <1>7 DEF ScopesInv

\* Every step of every actor.
LEMMA ScopesStep ==
    ASSUME ScopesInv, [ScopesNext]_scopeVars
    PROVE  [ProviderNext]_registry /\ ScopesInv'
<1>1. ASSUME NEW t \in Actors, Raise(t) \/ Catch(t)
      PROVE  [ProviderNext]_registry /\ ScopesInv'
  <2>1. UNCHANGED registry /\ UNCHANGED <<overrides, dependencies, blocks, escaped>>
    BY <1>1 DEF Raise, Catch, registry
  <2> QED
    BY <2>1, NothingMoves DEF ScopesInv, ProviderTypeOK
<1>2. CASE UNCHANGED scopeVars
  <2>1. UNCHANGED registry /\ UNCHANGED <<overrides, dependencies, blocks, escaped>>
    BY <1>2 DEF scopeVars, registry
  <2> QED
    BY <2>1, NothingMoves DEF ScopesInv, ProviderTypeOK
<1> QED
  BY <1>1, <1>2, DeclareStep, EnterStep, LeaveStep, LeaveRaisingStep, ClearStep DEF ScopesNext

\* Nothing is overridden and no block is entered.
LEMMA ScopesStart == ScopesInit => ScopesInv
<1>1. <<>> \in Seq(Block) /\ DOMAIN <<>> = {}
  OBVIOUS
<1> QED
  BY <1>1 DEF ScopesInit, ScopesInv, ProviderInit, ProviderTypeOK, Dict, Absentees,
              BlocksOK, NothingLeft, BlockServed

-----------------------------------------------------------------------------

\* The invariant of the blocks.
LEMMA ScopesInvariant == ScopesSpec => []ScopesInv
BY ScopesStart, ScopesStep, PTL DEF ScopesSpec

\* What the blocks, clear() and the declarations write is what the provider allows, so a
\* dependency never loses the model it is served by when a block ends (provider.py:76-84).
THEOREM ScopesImplementProvider == ScopesSpec => ProviderSpec
<1>1. ScopesInit => ProviderInit
  BY DEF ScopesInit
<1>2. ScopesInv /\ [ScopesNext]_scopeVars => [ProviderNext]_registry
  BY ScopesStep
<1> QED
  BY <1>1, <1>2, ScopesInvariant, PTL DEF ScopesSpec, ProviderSpec

\* Until an exception leaves a block, a key no actor overrides is served by its original,
\* however the blocks of the actors nest and overlap (provider.py:76-84).
THEOREM NothingLeftCorrect == ScopesSpec => []NothingLeft
<1>1. ScopesInv => NothingLeft
  BY DEF ScopesInv
<1> QED
  BY <1>1, ScopesInvariant, PTL

\* A block nobody interferes with is served by its override from its first statement to
\* its last (provider.py:76-84).
THEOREM BlockServedCorrect == ScopesSpec => []BlockServed
<1>1. ScopesInv => BlockServed
  BY DEF ScopesInv
<1> QED
  BY <1>1, ScopesInvariant, PTL
=================================================================================
