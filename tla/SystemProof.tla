------------------------------- MODULE SystemProof -------------------------------
(***************************************************************************)
(* Calls among builds: System implements Solve, so what is proved of Solve *)
(* holds in it, and Builder; and nothing async runs in a call of a sync    *)
(* function that no override put there.                                    *)
(***************************************************************************)
EXTENDS System, SolveProof, BuilderProof

-----------------------------------------------------------------------------
(* The outermost activation of a thread *)

\* The stack v has at its bottom what w has, if anything.
SameBottom(w, v) ==
    v # <<>> =>
        /\ w # <<>> /\ v[1].op = w[1].op
        /\ w[1].op = "build" => v[1].call = w[1].call /\ v[1].use_cache = w[1].use_cache

\* It is the same when it is on both.
LEMMA BottomSame ==
    ASSUME NEW u, NEW v, NEW w, SameBottom(u, v), SameBottom(v, w)
    PROVE  SameBottom(u, w)
BY DEF SameBottom

\* What is put on a stack is not at its bottom.
LEMMA BottomAppend ==
    ASSUME NEW S, NEW w \in Seq(S), w # <<>>, NEW b
    PROVE  SameBottom(w, Append(w, b))
<1>1. Len(w) \in Nat \ {0}
  BY EmptySeq
<1>2. w \in Seq(S \cup {b}) /\ b \in S \cup {b}
  OBVIOUS
<1>3. Append(w, b)[1] = w[1]
  BY <1>1, <1>2, AppendProperties
<1> QED
  BY <1>3 DEF SameBottom

\* What is taken off it is not at the bottom of what is left.
LEMMA BottomFront ==
    ASSUME NEW S, NEW w \in Seq(S), w # <<>>
    PROVE  Front(w) \in Seq(S) /\ SameBottom(w, Front(w))
<1>1. /\ Front(w) \in Seq(S) /\ Len(w) \in Nat \ {0}
      /\ Len(Front(w)) = Len(w) - 1
      /\ \A n \in 1 .. Len(w) - 1 : Front(w)[n] = w[n]
  BY EmptySeq, FrontProperties
<1>2. ASSUME Front(w) # <<>> PROVE Front(w)[1] = w[1]
  <2>1. Len(Front(w)) # 0
    BY <1>1, <1>2, EmptySeq
  <2> QED
    BY <1>1, <2>1
<1> QED
  BY <1>1, <1>2 DEF SameBottom

\* What an activation is does not change with what it has got to.
LEMMA BottomSet ==
    ASSUME NEW S, NEW w \in Seq(S), w # <<>>, NEW a, a.op = w[Len(w)].op,
           w[Len(w)].op = "build" => a.call = w[Len(w)].call /\ a.use_cache = w[Len(w)].use_cache
    PROVE  /\ [w EXCEPT ![Len(w)] = a] \in Seq(S \cup {a})
           /\ [w EXCEPT ![Len(w)] = a] # <<>>
           /\ SameBottom(w, [w EXCEPT ![Len(w)] = a])
<1>1. Len(w) \in Nat \ {0} /\ DOMAIN w = 1 .. Len(w)
  BY EmptySeq, LenProperties
<1>2. w \in Seq(S \cup {a}) /\ a \in S \cup {a}
  OBVIOUS
<1>3. /\ [w EXCEPT ![Len(w)] = a] \in Seq(S \cup {a})
      /\ Len([w EXCEPT ![Len(w)] = a]) = Len(w)
      /\ [w EXCEPT ![Len(w)] = a][1] = IF Len(w) = 1 THEN a ELSE w[1]
  BY <1>1, <1>2, ExceptSeq
<1>4. [w EXCEPT ![Len(w)] = a] # <<>>
  BY <1>1, <1>3, EmptySeq
<1> QED
  BY <1>1, <1>3, <1>4 DEF SameBottom

\* So when its step is set.
LEMMA BottomStep ==
    ASSUME NEW w \in Seq(Activation), w # <<>>, NEW x
    PROVE  /\ \E S : [w EXCEPT ![Len(w)].step = x] \in Seq(S)
           /\ [w EXCEPT ![Len(w)].step = x] # <<>>
           /\ SameBottom(w, [w EXCEPT ![Len(w)].step = x])
<1> DEFINE a == [w[Len(w)] EXCEPT !.step = x]
<1>1. w[Len(w)] \in Activation
  BY EmptySeq, ElementOfSeq
<1>2. /\ a.op = w[Len(w)].op
      /\ w[Len(w)].op = "build" => a.call = w[Len(w)].call /\ a.use_cache = w[Len(w)].use_cache
  BY <1>1 DEF Activation, Build, Override
<1>3. [w EXCEPT ![Len(w)].step = x] = [w EXCEPT ![Len(w)] = a]
  OBVIOUS
<1> HIDE DEF a
<1> QED
  BY <1>2, <1>3, BottomSet

\* So with the caller of what returns.
LEMMA BottomResume ==
    ASSUME NEW w \in Seq(Activation), w # <<>>, Len(w) > 1, NEW x
    PROVE  /\ \E S : Resume(Front(w), x) \in Seq(S)
           /\ Resume(Front(w), x) # <<>>
           /\ SameBottom(w, Resume(Front(w), x))
<1>1. Front(w) \in Seq(Activation) /\ SameBottom(w, Front(w)) /\ Len(Front(w)) = Len(w) - 1
  BY BottomFront, FrontProperties
<1>2. Front(w) # <<>>
  BY <1>1, EmptySeq
<1>3. Resume(Front(w), x) = [Front(w) EXCEPT ![Len(Front(w))].step = x]
  BY <1>2 DEF Resume
<1>4. /\ \E S : Resume(Front(w), x) \in Seq(S)
      /\ Resume(Front(w), x) # <<>>
      /\ SameBottom(Front(w), Resume(Front(w), x))
  <2> DEFINE v == Front(w)
  <2> HIDE DEF v
  <2>1. v \in Seq(Activation) /\ v # <<>>
    BY <1>1, <1>2 DEF v
  <2>2. /\ \E S : [v EXCEPT ![Len(v)].step = x] \in Seq(S)
        /\ [v EXCEPT ![Len(v)].step = x] # <<>>
        /\ SameBottom(v, [v EXCEPT ![Len(v)].step = x])
    BY <2>1, BottomStep
  <2> QED
    BY <1>3, <2>2 DEF v
<1> QED
  BY <1>1, <1>4, BottomSame

\* A thread goes on with what it began.
LEMMA BottomKept ==
    ASSUME BuildInv, NEW t \in Threads, Continue(t)
    PROVE  SameBottom(work[t], work'[t])
<1> DEFINE w == work[t]
<1>1. w # <<>>
  BY DEF Continue, BuildDependency, Register, Rebuild, Check, InjectReturns, LookUpOriginal,
         StoreOriginal, StoreOverride, Complete, In
<1>2. /\ w \in Seq(Activation) /\ Len(w) \in Nat \ {0} /\ Doing(t) = w[Len(w)]
      /\ Doing(t) \in Activation /\ t \in DOMAIN work
  BY <1>1, Innermost DEF BuildInv
<1>3. ASSUME Raise(t) PROVE SameBottom(w, work'[t])
  BY <1>2, <1>3 DEF Raise, SameBottom
<1>4. /\ \E S : Become(t, "check") \in Seq(S)
      /\ Become(t, "check") # <<>>
      /\ SameBottom(w, Become(t, "check"))
  BY <1>1, <1>2, BottomStep DEF Become
<1>5. ASSUME NEW S, NEW v \in Seq(S), v # <<>>, SameBottom(w, v), NEW b, Push(t, v, b)
      PROVE  SameBottom(w, work'[t])
  <2>1. work'[t] = Append(v, b)
    BY <1>2, <1>5 DEF Push
  <2> QED
    BY <1>5, <2>1, BottomAppend, BottomSame
<1>6. CASE BuildDependency(t)
  <2>1. Raise(t) \/ Push(t, w, Child(Doing(t), Declaration(t)))
    BY <1>6 DEF BuildDependency
  <2>2. SameBottom(w, w)
    BY DEF SameBottom
  <2> QED
    BY <1>1, <1>2, <1>3, <1>5, <2>1, <2>2
<1>7. CASE Register(t)
  <2>1. work'[t] = Resume(Front(w), "registered") /\ Len(w) > 1
    BY <1>2, <1>7 DEF Register
  <2> QED
    BY <1>1, <1>2, <2>1, BottomResume
<1>8. CASE Rebuild(t)
  <2> DEFINE o == Overriding(Key(Declaration(t)), overrides[Key(Declaration(t))].call)
  <2>1. Push(t, Become(t, "check"), o) \/ work' = [work EXCEPT ![t] = Become(t, "check")]
    BY <1>8 DEF Rebuild
  <2>2. CASE Push(t, Become(t, "check"), o)
    BY <1>4, <1>5, <2>2
  <2>3. CASE work' = [work EXCEPT ![t] = Become(t, "check")]
    BY <1>2, <1>4, <2>3
  <2> QED
    BY <2>1, <2>2, <2>3
<1>9. CASE Check(t)
  <2> DEFINE a == [Doing(t) EXCEPT !.step = "build", !.next = @ + 1]
  <2>1. Raise(t) \/ work' = [work EXCEPT ![t][Len(w)] = a]
    BY <1>9 DEF Check
  <2>2. CASE work' = [work EXCEPT ![t][Len(w)] = a]
    <3>1. work'[t] = [w EXCEPT ![Len(w)] = a]
      BY <1>2, <2>2
    <3>2. /\ a.op = w[Len(w)].op
          /\ w[Len(w)].op = "build" =>
                a.call = w[Len(w)].call /\ a.use_cache = w[Len(w)].use_cache
      BY <1>2 DEF Activation, Build, Override
    <3> HIDE DEF a
    <3>3. SameBottom(w, [w EXCEPT ![Len(w)] = a])
      BY <1>1, <1>2, <3>2, BottomSet
    <3> QED
      BY <3>1, <3>3
  <2> QED
    BY <1>3, <2>1, <2>2
<1>10. CASE InjectReturns(t)
  <2>1. work'[t] = <<>>
    BY <1>2, <1>10 DEF InjectReturns
  <2> QED
    BY <2>1 DEF SameBottom
<1>11. CASE LookUpOriginal(t)
  <2> DEFINE o == Doing(t)
             s == dependencies[o.original].serializer
             v == [Become(t, "override") EXCEPT ![Len(w)].serializer = s]
             a == [w[Len(w)] EXCEPT !.step = "override", !.serializer = s]
  <2>1. \/ Push(t, v, Root(o.override, s, FALSE))
        \/ Push(t, Become(t, "original"), Root(o.original, NoSerializer, FALSE))
    BY <1>11 DEF LookUpOriginal
  <2>2. /\ \E S : Become(t, "original") \in Seq(S)
        /\ Become(t, "original") # <<>>
        /\ SameBottom(w, Become(t, "original"))
    BY <1>1, <1>2, BottomStep DEF Become
  <2>3. v = [w EXCEPT ![Len(w)] = a]
    BY <1>2 DEF Become
  <2>4. a.op = w[Len(w)].op /\ w[Len(w)].op = "override"
    BY <1>2, <1>11 DEF LookUpOriginal, In, Activation, Build, Override
  <2> HIDE DEF a, v, s
  <2>5. v \in Seq(Activation \cup {a}) /\ v # <<>> /\ SameBottom(w, v)
    BY <1>1, <1>2, <2>3, <2>4, BottomSet
  <2> QED
    BY <1>5, <2>1, <2>2, <2>5
<1>12. CASE StoreOriginal(t)
  <2>1. /\ Push(t, Resume(Front(w), "override"), Root(Within(t).override, NoSerializer, FALSE))
        /\ Len(w) > 1
    BY <1>12 DEF StoreOriginal
  <2> QED
    BY <1>1, <1>2, <1>5, <2>1, BottomResume
<1>13. CASE StoreOverride(t)
  <2>1. work'[t] = Front(Front(w)) /\ Len(w) > 1
    BY <1>2, <1>13 DEF StoreOverride
  <2>2. Front(w) \in Seq(Activation) /\ SameBottom(w, Front(w)) /\ Len(Front(w)) = Len(w) - 1
    BY <1>1, <1>2, BottomFront, FrontProperties
  <2>3. Front(w) # <<>>
    BY <1>2, <2>1, <2>2, EmptySeq
  <2>4. SameBottom(Front(w), Front(Front(w)))
    BY <2>2, <2>3, BottomFront
  <2> QED
    BY <2>1, <2>2, <2>4, BottomSame
<1> QED
  BY <1>6, <1>7, <1>8, <1>9, <1>10, <1>11, <1>12, <1>13 DEF Continue

-----------------------------------------------------------------------------
(* What inject() returned *)

\* The functions that are decorated, without wrappers.
Targets == {Unwrap[f] : f \in Decorated}

\* What a call of m looks for is registered, and synchronous if m is.
Offered(m) ==
    /\ m.call \in Targets /\ m.use_cache = TRUE /\ m.provider = Shared
    /\ m.serializer \in Serializers
    /\ \A d \in DependsOf(m.call) :
          /\ dependencies[Key(d)] # NoModel
          /\ ~IsAsync(m.call) => Key(d) \in SyncOnly

Offers ==
    /\ \A t \in Threads : work[t] # <<>> /\ work[t][1].op = "build" =>
          work[t][1].call \in Targets /\ work[t][1].use_cache = TRUE
    /\ \A m \in injected : Offered(m)
    /\ \A m \in injected :
          m = [call |-> m.call, use_cache |-> TRUE, serializer |-> m.serializer,
               provider |-> Shared]

\* A build of inject() has gone through all its function declares, extras included.
LEMMA ReturnsOffered ==
    ASSUME BuildInv, Offers, NEW t \in Threads, InjectReturns(t)
    PROVE  Offered(Model(Doing(t)))
<1> DEFINE b == Doing(t)
<1>1. Complete(t) /\ Len(work[t]) = 1
  BY DEF InjectReturns
<1>2. /\ work[t] # <<>> /\ b \in Build /\ BuildOK(dependencies, b)
      /\ b.step = "build" /\ b.next > Len(Declared(b))
  BY <1>1, Completed DEF Complete, In
<1>3. b = work[t][1] /\ b.op = "build" /\ b.main
  BY <1>1, <1>2, Innermost DEF StackOK, Build
<1>4. b.call \in Targets /\ b.use_cache = TRUE /\ b.serializer \in Serializers
  BY <1>2, <1>3 DEF Offers, Build
<1>5. ASSUME NEW i \in DOMAIN Declared(b)
      PROVE  /\ dependencies[Key(Declared(b)[i])] # NoModel
             /\ ~IsAsync(b.call) => Key(Declared(b)[i]) \in SyncOnly
  <2>1. i < b.next
    BY <1>2, DeclaredType DEF Build
  <2> QED
    BY <1>2, <1>3, <2>1 DEF BuildOK, Behind
<1>6. ASSUME NEW d \in DependsOf(b.call) PROVE \E i \in DOMAIN Declared(b) : Declared(b)[i] = d
  BY <1>2, <1>3, DeclaredType DEF DependsOf
<1> QED
  BY <1>4, <1>5, <1>6 DEF Offered, Model

\* It stays so.
LEMMA OffersStep ==
    ASSUME BuildInv, Offers, [BuildNext]_buildVars
    PROVE  Offers'
<1>1. [ProviderNext]_registry /\ ProviderTypeOK
  BY BuilderStep DEF BuildInv
<1>2. ASSUME NEW m \in injected, Offered(m) PROVE Offered(m)'
  <2>1. ASSUME NEW d \in DependsOf(m.call) PROVE dependencies'[Key(d)] # NoModel
    <3>1. Key(d) \in Callables
      <4>1. m.call \in Callables
        BY <1>2 DEF BuildInv, CallModel
      <4> QED
        BY <4>1, <2>1, DependsOfType
    <3> QED
      BY <1>1, <1>2, <2>1, <3>1, RegisteredStays DEF Offered
  <2> QED
    BY <1>2, <2>1 DEF Offered
<1>3. CASE UNCHANGED buildVars
  <2>1. work' = work /\ injected' = injected
    BY <1>3 DEF buildVars
  <2> QED
    BY <1>2, <2>1 DEF Offers
<1>4. ASSUME NEW t \in Threads, Inject(t) \/ CallOverride(t) \/ Drop(t) \/ Continue(t)
      PROVE  Offers'
  <2>1. /\ DOMAIN work = Threads
        /\ \A x \in Threads \ {t} : work'[x] = work[x]
    BY <1>4 DEF BuildInv, Inject, CallOverride, Drop, Continue, BuildDependency, Register, Rebuild,
                Check, InjectReturns, LookUpOriginal, StoreOriginal, StoreOverride, Push, Raise
  <2>2. ASSUME work'[t] # <<>>, work'[t][1].op = "build"
        PROVE  work'[t][1].call \in Targets /\ work'[t][1].use_cache = TRUE
    <3>1. CASE Continue(t)
      BY <2>2, <3>1, BottomKept DEF SameBottom, Offers
    <3>2. CASE Inject(t)
      <4>1. PICK f \in Decorated, s \in Serializers : Push(t, <<>>, Root(f, s, TRUE))
        BY <3>2 DEF Inject
      <4> DEFINE b == Root(f, s, TRUE)
      <4>2. b.call \in Targets /\ b.use_cache = TRUE
        BY DEF Root, Targets
      <4> HIDE DEF b
      <4>3. work'[t] = Append(<<>>, b)
        BY <2>1, <4>1 DEF Push, b
      <4>4. Append(<<>>, b) = <<b>>
        OBVIOUS
      <4> QED
        BY <4>2, <4>3, <4>4
    <3>3. CASE CallOverride(t)
      <4>1. PICK k \in Callables, o \in Callables : Push(t, <<>>, Overriding(k, o))
        BY <3>3, DeclAssumption DEF CallOverride, DeclarationsAssumption
      <4>2. work'[t] = <<Overriding(k, o)>>
        BY <2>1, <4>1 DEF Push
      <4> QED
        BY <2>2, <4>2 DEF Overriding
    <3>4. CASE Drop(t)
      BY <2>2, <3>4 DEF Drop, Offers
    <3> QED
      BY <1>4, <3>1, <3>2, <3>3, <3>4
  <2>3. ASSUME NEW m \in injected'
        PROVE  /\ Offered(m)'
               /\ m = [call |-> m.call, use_cache |-> TRUE, serializer |-> m.serializer,
                       provider |-> Shared]
    <3>1. CASE m \in injected
      BY <1>2, <3>1 DEF Offers
    <3>2. CASE m \notin injected
      <4>1. InjectReturns(t) /\ m = Model(Doing(t))
        BY <1>4, <2>3, <3>2 DEF Inject, CallOverride, Drop, Continue, BuildDependency, Register,
               Rebuild, Check, InjectReturns, LookUpOriginal, StoreOriginal, StoreOverride, Raise
      <4>2. Offered(m)
        BY <4>1, ReturnsOffered
      <4>3. dependencies' = dependencies
        BY <4>1 DEF InjectReturns, registry
      <4> QED
        BY <4>1, <4>2, <4>3 DEF Offered, Model
    <3> QED
      BY <3>1, <3>2
  <2> QED
    BY <2>1, <2>2, <2>3 DEF Offers
<1> QED
  BY <1>3, <1>4 DEF BuildNext

-----------------------------------------------------------------------------
(* System implements Solve *)

\* What was overridden since a call began is overridden.
Standing ==
    /\ overridden \in [Calls -> SUBSET Callables]
    /\ \A c \in Calls : \A k \in overridden[c] : overrides[k] # NoModel

SystemInv == BuildInv /\ Offers /\ Standing

\* A call of what inject() returned finds registered what it needs.
LEMMA InjectedCalls ==
    ASSUME SystemInv, NEW c \in Calls, NEW m \in injected, m.call \notin Generators, Start(c, m)
    PROVE  Call(c)
<1>1. /\ m = [call |-> m.call, use_cache |-> TRUE, serializer |-> m.serializer,
              provider |-> Shared]
      /\ Offered(m)
  BY DEF SystemInv, Offers
<1>2. m.call \in Callables /\ m.call \in Injected /\ m.serializer \in Serializers
  BY <1>1, SystemAssumption DEF Offered, SystemInv, BuildInv, CallModel, Targets
<1>3. ASSUME NEW i \in DOMAIN Needs(m.call, TRUE)
      PROVE  dependencies[Key(Needs(m.call, TRUE)[i])] # NoModel
  <2>1. Needs(m.call, TRUE)[i] \in DependsOf(m.call)
    BY <1>2, NeedsType
  <2> QED
    BY <1>1, <2>1 DEF Offered
<1>4. \E f \in Injected, s \in Serializers :
          /\ \A i \in DOMAIN Needs(f, TRUE) : dependencies[Key(Needs(f, TRUE)[i])] # NoModel
          /\ m = [call |-> f, use_cache |-> TRUE, serializer |-> s, provider |-> Shared]
  BY <1>1, <1>2, <1>3
<1> QED
  BY <1>4 DEF Call

\* The steps of a call are steps of Solve, in which nothing is built.
LEMMA CallsStep ==
    ASSUME SystemInv, NEW c \in Calls, CallInjected(c) \/ Solving(c)
    PROVE  /\ Call(c) \/ Proceed(c)
           /\ UNCHANGED buildVars
           /\ Standing'
<1>1. CASE CallInjected(c)
  <2>1. PICK m \in injected : m.call \notin Generators /\ Start(c, m)
    BY <1>1 DEF CallInjected
  <2>2. Call(c)
    BY <2>1, InjectedCalls
  <2>3. UNCHANGED buildVars
    BY <1>1, <2>1 DEF CallInjected, Start, LookIn, buildVars
  <2>4. Standing'
    <3>1. overridden' = [overridden EXCEPT ![c] = {k \in Callables : overrides[k] # NoModel}]
      BY <2>1 DEF Start
    <3>2. overrides' = overrides
      BY <2>3 DEF buildVars, registry
    <3> QED
      BY <3>1, <3>2 DEF SystemInv, Standing
  <2> QED
    BY <2>2, <2>3, <2>4
<1>2. CASE Solving(c)
  <2>1. UNCHANGED <<registry, overridden, work, injected>> /\ Proceed(c)
    BY <1>2 DEF Solving, Proceed, Skip, Hit, Enter, DependencyReturns, MainReturns, Fails,
           ArgumentsRefused, Leave, CloseQuietly, CloseRaises, CloseSwallows, PopExit, Finish
  <2>2. Standing'
    BY <2>1 DEF SystemInv, Standing, registry
  <2> QED
    BY <2>1, <2>2 DEF buildVars
<1> QED
  BY <1>1, <1>2

\* The steps of builds are writes of the provider, or change nothing that calls see.
LEMMA BuildsStep ==
    ASSUME SystemInv, Building
    PROVE  /\ Reconfigure \/ UNCHANGED vars
           /\ Standing'
<1>1. [ProviderNext]_registry /\ ProviderTypeOK
  BY BuilderStep DEF SystemInv, BuildInv, Building
<1>2. /\ overridden' = [c \in Calls |-> {k \in overridden[c] : overrides'[k] # NoModel}]
      /\ UNCHANGED <<stage, main, solving, exits, closing, outcome>>
  BY DEF Building
<1>3. ASSUME ProviderNext PROVE Reconfigure
  BY <1>2, <1>3 DEF Reconfigure
<1>4. ASSUME UNCHANGED registry PROVE UNCHANGED vars
  <2>1. \A c \in Calls : {k \in overridden[c] : overrides'[k] # NoModel} = overridden[c]
    BY <1>4 DEF SystemInv, Standing, registry
  <2>2. overridden' = overridden
    BY <1>2, <2>1 DEF SystemInv, Standing
  <2> QED
    BY <1>2, <1>4, <2>2 DEF vars
<1>5. Standing'
  BY <1>2 DEF SystemInv, Standing
<1> QED
  BY <1>1, <1>3, <1>4, <1>5

\* Every step of System is one of Solve, and of Builder.
LEMMA SystemStep ==
    ASSUME SystemInv, [SystemNext]_systemVars
    PROVE  [Next]_vars /\ [BuildNext]_buildVars /\ SystemInv'
<1>1. [Next]_vars /\ [BuildNext]_buildVars /\ Standing'
  <2>1. ASSUME NEW c \in Calls, CallInjected(c) \/ Solving(c)
        PROVE  [Next]_vars /\ [BuildNext]_buildVars /\ Standing'
    BY <2>1, CallsStep DEF Next
  <2>2. CASE Building
    <3>1. BuildNext
      BY <2>2 DEF Building
    <3> QED
      BY <2>2, <3>1, BuildsStep DEF Next
  <2>3. CASE UNCHANGED systemVars
    <3>1. UNCHANGED vars /\ UNCHANGED buildVars
      BY <2>3 DEF systemVars, vars, buildVars
    <3>2. overridden' = overridden /\ overrides' = overrides
      BY <3>1 DEF vars, registry
    <3> QED
      BY <3>1, <3>2 DEF SystemInv, Standing
  <2> QED
    BY <2>1, <2>2, <2>3 DEF SystemNext
<1>2. BuildInv' /\ Offers'
  BY <1>1, BuilderStep, OffersStep DEF SystemInv
<1> QED
  BY <1>1, <1>2 DEF SystemInv

\* At first nobody builds and nobody calls.
LEMMA SystemBegins == SystemInit => Init /\ SystemInv
<1> SUFFICES ASSUME SystemInit PROVE Init /\ SystemInv
  OBVIOUS
<1>1. Init /\ BuildInit
  BY DEF SystemInit
<1>2. Offers
  BY <1>1 DEF BuildInit, Offers
<1>3. Standing
  BY <1>1 DEF Init, Standing
<1> QED
  BY <1>1, <1>2, <1>3, BuilderInit DEF SystemInv

\* What is being built is sound, and what was injected can be called.
THEOREM SystemInvariant == SystemSpec => []SystemInv
<1>1. SystemInv /\ [SystemNext]_systemVars => SystemInv'
  BY SystemStep
<1> QED
  BY <1>1, SystemBegins, PTL DEF SystemSpec

\* Between whichever steps of calls threads build, override and clear, it is as Solve has
\* it: each call of what inject() returned finds all it needs, though Solve asks for it and
\* System does not, so that all Solve's theorems hold of it (use.py:189-198, model.py:223-247).
THEOREM SystemImplementsSolve == SystemSpec => CallsSpec
<1>1. SystemInit => Init
  BY SystemBegins
<1>2. SystemInv /\ [SystemNext]_systemVars => [Next]_vars
  BY SystemStep
<1> QED
  BY <1>1, <1>2, SystemInvariant, PTL DEF SystemSpec, CallsSpec, Spec

-----------------------------------------------------------------------------
(* What runs in a call of a sync function *)

\* What may: what is sync all the way, and what overrides put there.
Tame == SyncOnly \cup ByOverride

\* What tame callables declare is tame.
LEMMA TameDeclares ==
    ASSUME NEW f \in Tame
    PROVE  f \in Callables /\ \A i \in DOMAIN Depends[f] : Key(Depends[f][i]) \in Tame
<1>1. CASE f \in SyncOnly
  <2>1. f \in Callables /\ Uses(f) \subseteq SyncOnly
    BY <1>1 DEF SyncOnly, ClosedSets
  <2> QED
    BY <2>1 DEF Uses, Tame
<1>2. CASE f \in ByOverride
  <2>1. f \in Callables
    BY <1>2 DEF ByOverride
  <2>2. ASSUME NEW i \in DOMAIN Depends[f] PROVE Key(Depends[f][i]) \in ByOverride
    <3> DEFINE g == Key(Depends[f][i])
               named == {Unwrap[o] : o \in UNION {Overriders[k] \cup LocalOverriders[k] : k \in Callables}}
    <3>1. g \in Callables
      <4>1. Depends[f][i] \in DependsOf(f)
        BY <2>1 DEF DependsOf
      <4> QED
        BY <2>1, <4>1, DependsOfType
    <3>2. ASSUME NEW S \in ClosedSets, named \subseteq S PROVE g \in S
      <4>1. f \in S
        BY <1>2, <3>2 DEF ByOverride
      <4>2. Uses(f) \subseteq S
        BY <4>1 DEF ClosedSets
      <4> QED
        BY <4>2 DEF Uses
    <3> QED
      BY <3>1, <3>2 DEF ByOverride
  <2> QED
    BY <2>1, <2>2 DEF Tame
<1> QED
  BY <1>1, <1>2 DEF Tame

\* What serves a tame key is tame.
LEMMA TameServed ==
    ASSUME NEW k \in Tame, Unwrap[k] = k, NEW g \in Servers(k)
    PROVE  g \in Tame
<1>1. k \in Callables
  BY TameDeclares
<1>2. CASE g = Unwrap[k]
  BY <1>2
<1>3. ASSUME NEW o \in Overriders[k] \cup LocalOverriders[k], g = Unwrap[o] PROVE g \in ByOverride
  <2>1. g \in Callables
    BY <1>1, <1>3, DeclAssumption DEF DeclarationsAssumption
  <2>2. g \in {Unwrap[p] : p \in UNION {Overriders[j] \cup LocalOverriders[j] : j \in Callables}}
    BY <1>1, <1>3
  <2> QED
    BY <2>1, <2>2 DEF ByOverride
<1> QED
  BY <1>2, <1>3 DEF Servers, Tame

\* c calls a synchronous function.
OfSync(c) == main[c] # Nobody /\ ~IsAsync(main[c])

\* So far only tame callables ran, and its frames solve such.
SyncIn(c) ==
    OfSync(c) =>
        /\ \A g \in Callables \ {main[c]} : runs[c][g] > 0 => g \in Tame
        /\ stage[c] = "open" =>
              /\ \A d \in DependsOf(main[c]) : Key(d) \in SyncOnly
              /\ \A n \in DOMAIN frames[c] : n # 1 => frames[c][n].model.call \in Tame

\* What is found is tame: the extra declarations are the function's own.
LEMMA FoundTame ==
    ASSUME Lookups, NEW c \in Calls, SyncIn(c), OfSync(c), Resolving(c)
    PROVE  Found(c).call \in Tame
<1> DEFINE n == Len(frames[c])
<1>1. stage[c] = "open" /\ Top(c).next <= Len(Todo(c, n))
  BY DEF Resolving
<1>2. /\ n \in DOMAIN frames[c] /\ n \in Nat \ {0}
      /\ Top(c) = frames[c][n] /\ Top(c) \in Frame
  BY <1>1, OpenFrames
<1>3. Wanted(c) \in DependsOf(Top(c).model.call) /\ Found(c).call \in Servers(Key(Wanted(c)))
  BY FoundServes DEF Serves
<1>4. Top(c).model.call \in Callables /\ Unwrap[Key(Wanted(c))] = Key(Wanted(c))
  BY <1>1, <1>3, OpenFrames, DependsOfType
<1>5. Key(Wanted(c)) \in Tame
  <2>1. CASE n = 1
    <3>1. Top(c).model.call = main[c]
      BY <1>1, <1>2, <2>1 DEF Lookups, StackShape
    <3> QED
      BY <1>1, <1>3, <3>1 DEF SyncIn, Tame
  <2>2. CASE n # 1
    <3>1. Top(c).model.call \in Tame
      BY <1>1, <1>2, <2>2 DEF SyncIn
    <3>2. Todo(c, n) = Depends[Top(c).model.call]
      BY <1>2, <2>2 DEF Todo, Needs
    <3>3. Top(c).next \in DOMAIN Todo(c, n)
      <4>1. DOMAIN Todo(c, n) = 1 .. Len(Todo(c, n)) /\ Len(Todo(c, n)) \in Nat
        BY <1>2, TodoType, LenProperties
      <4> QED
        BY <1>1, <1>2, <4>1 DEF Frame
    <3>4. Wanted(c) = Depends[Top(c).model.call][Top(c).next]
      BY <3>2 DEF Wanted
    <3> QED
      BY <3>1, <3>2, <3>3, <3>4, TameDeclares
  <2> QED
    BY <2>1, <2>2
<1> QED
  BY <1>3, <1>4, <1>5, TameServed

\* A call of a function that was injected as synchronous
LEMMA SyncBegins ==
    ASSUME SystemInv, Lookups, NEW c \in Calls, CallInjected(c)
    PROVE  SyncIn(c)'
<1>1. PICK m \in injected : m.call \notin Generators /\ Start(c, m)
  BY DEF CallInjected
<1>2. Offered(m)
  BY DEF SystemInv, Offers
<1>3. /\ frames \in [Calls -> Seq(Frame)] /\ runs \in [Calls -> [Callables -> Nat]]
      /\ main \in [Calls -> Callables \cup {Nobody}]
  BY DEF Lookups, TypeOK
<1>4. /\ main'[c] = m.call
      /\ \A g \in Callables : runs'[c][g] = 0
  BY <1>1, <1>3 DEF Start
<1>5. DOMAIN frames'[c] = {1}
  <2>1. PICK given \in SUBSET Params :
            frames' = [frames EXCEPT ![c] = <<[model |-> m, next |-> 1,
                kw |-> [p \in Params |-> IF p \in given THEN Given ELSE Absent]]>>]
    BY <1>1 DEF Start
  <2> QED
    BY <1>3, <2>1
<1> QED
  BY <1>2, <1>4, <1>5 DEF SyncIn, OfSync, Offered

\* A call under way
LEMMA SyncProceeds ==
    ASSUME Lookups, NEW c \in Calls, SyncIn(c), Proceed(c)
    PROVE  SyncIn(c)'
<1>1. UNCHANGED main
  BY FramesFollow
<1> SUFFICES ASSUME OfSync(c) PROVE SyncIn(c)'
  BY <1>1 DEF SyncIn, OfSync
<1>2. runs \in [Calls -> [Callables -> Nat]]
  BY DEF Lookups, TypeOK
<1>3. ASSUME NEW g \in Callables \ {main[c]}, runs'[c][g] > 0 PROVE g \in Tame
  <2>1. CASE runs' = runs
    BY <1>3, <2>1 DEF SyncIn
  <2>2. CASE stage[c] = "open" /\ Counted(c)
    <3>1. CASE g = Top(c).model.call
      <4>1. Len(frames[c]) \in DOMAIN frames[c] /\ Top(c) = frames[c][Len(frames[c])]
        BY <2>2, OpenFrames
      <4>2. Len(frames[c]) # 1
        BY <1>3, <2>2, <3>1, <4>1 DEF Lookups, StackShape
      <4> QED
        BY <2>2, <3>1, <4>1, <4>2 DEF SyncIn
    <3>2. CASE g # Top(c).model.call
      <4>1. runs'[c][g] = runs[c][g]
        BY <1>2, <2>2, <3>2, OpenFrames DEF Counted
      <4> QED
        BY <1>3, <4>1 DEF SyncIn
    <3> QED
      BY <3>1, <3>2
  <2> QED
    BY <2>1, <2>2, FramesFollow
<1>4. ASSUME stage'[c] = "open", NEW n \in DOMAIN frames'[c], n # 1
      PROVE  frames'[c][n].model.call \in Tame
  <2>1. stage[c] = "open"
    BY <1>4, FramesFollow
  <2>2. CASE n \in DOMAIN frames[c] /\ frames'[c][n].model = frames[c][n].model
    BY <1>4, <2>1, <2>2 DEF SyncIn
  <2>3. CASE Resolving(c) /\ frames'[c][n].model = Found(c)
    BY <2>3, FoundTame
  <2> QED
    BY <1>4, <2>2, <2>3, FramesFollow
<1>5. stage'[c] = "open" => \A d \in DependsOf(main[c]) : Key(d) \in SyncOnly
  BY FramesFollow DEF SyncIn
<1> QED
  BY <1>1, <1>3, <1>4, <1>5 DEF SyncIn

\* Every step
LEMMA SyncStep ==
    ASSUME SystemInv, Lookups, \A c \in Calls : SyncIn(c), [SystemNext]_systemVars
    PROVE  \A c \in Calls : SyncIn(c)'
<1> TAKE c \in Calls
<1>1. ASSUME UNCHANGED <<stage, main, frames, runs>> PROVE SyncIn(c)'
  BY <1>1 DEF SyncIn, OfSync
<1>2. CASE Building \/ UNCHANGED systemVars
  <2>1. UNCHANGED <<stage, main, frames, runs>>
    BY <1>2 DEF Building, systemVars, vars, solving
  <2> QED
    BY <1>1, <2>1
<1>3. ASSUME NEW x \in Calls, CallInjected(x) \/ Solving(x) PROVE SyncIn(c)'
  <2>1. CASE x = c
    <3>1. CASE CallInjected(c)
      BY <3>1, SyncBegins
    <3>2. CASE Solving(c)
      BY <3>2, SyncProceeds DEF Solving
    <3> QED
      BY <1>3, <2>1, <3>1, <3>2
  <2>2. CASE x # c
    <3>1. Call(x) \/ Proceed(x)
      BY <1>3, CallsStep
    <3>2. /\ stage'[c] = stage[c] /\ frames'[c] = frames[c]
          /\ runs'[c] = runs[c] /\ main'[c] = main[c]
      BY <2>2, <3>1, Others
    <3> QED
      BY <3>2 DEF SyncIn, OfSync
  <2> QED
    BY <2>1, <2>2
<1> QED
  BY <1>2, <1>3 DEF SystemNext

\* Nothing asynchronous runs in a call of a function that is not, but what an override
\* names or that declares: at the injected function all declarations were asserted to be
\* sync, at every depth, and each lookup finds what is declared or what overrides it
\* (builder.py:59-65, 156-176; model.py:218-247).
THEOREM SyncRunsCorrect == SystemSpec => []SyncRunsSync
<1>1. SystemInit => \A c \in Calls : SyncIn(c)
  BY SystemBegins DEF Init, SyncIn, OfSync
<1>2. SystemInv /\ Lookups /\ (\A c \in Calls : SyncIn(c)) /\ [SystemNext]_systemVars
         => (\A c \in Calls : SyncIn(c))'
  BY SyncStep
<1>3. SystemSpec => []Lookups
  BY SystemImplementsSolve, LookupsCorrect DEF CallsSpec
<1>4. SystemSpec => [](\A c \in Calls : SyncIn(c))
  BY <1>1, <1>2, <1>3, SystemInvariant, PTL DEF SystemSpec
<1>5. (\A c \in Calls : SyncIn(c)) => SyncRunsSync
  <2> SUFFICES ASSUME \A c \in Calls : SyncIn(c), NEW c \in Calls, NEW g \in Callables,
                      OfSync(c), IsAsync(g), runs[c][g] > 0
               PROVE  g \in ByOverride
    BY DEF SyncRunsSync, OfSync
  <2>1. g \in Tame
    BY DEF SyncIn, OfSync
  <2>2. \A h \in SyncOnly : ~IsAsync(h)
    BY DEF SyncOnly
  <2> QED
    BY <2>1, <2>2 DEF Tame
<1> QED
  BY <1>4, <1>5, PTL
==============================================================================
