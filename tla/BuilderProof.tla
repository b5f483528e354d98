------------------------------ MODULE BuilderProof ------------------------------
(***************************************************************************)
(* Builder implements ProviderSpec, and what it injects as synchronous is  *)
(* synchronous all the way, for every program, any number of threads and   *)
(* every interleaving of their builds, overrides and clears.               *)
(***************************************************************************)
EXTENDS Builder, ProviderProof, SequenceTheorems

-----------------------------------------------------------------------------
(* The invariant: what each activation on each stack has gone through is    *)
(* registered, and each knows what the one above it was called for.         *)

Activation == Build \cup Override

\* The largest set of synchronous callables that holds, with a callable, what it declares.
SyncOnly == UNION {S \in ClosedSets : \A g \in S : ~IsAsync(g)}

\* Build b has registered the model of its i-th declaration.
Behind(b, i) == i < b.next \/ (i = b.next /\ b.step # "build")

BuildOK(dict, b) ==
    /\ b.step # "build" => b.next \in DOMAIN Declared(b)
    /\ b.is_sync => ~IsAsync(b.call)
    /\ b.main => b.is_sync = ~IsAsync(b.call)
    /\ \A i \in DOMAIN Declared(b) : Behind(b, i) =>
          /\ dict[Key(Declared(b)[i])] # NoModel
          /\ b.is_sync => Key(Declared(b)[i]) \in SyncOnly

\* A rebuild has the override without its wrapper: some overrider it came from is allowed.
OverrideOK(dict, o) ==
    /\ \E f \in Overriders[o.original] : Unwrap[f] = Unwrap[o.override]
    /\ o.step = "override" => dict[o.original] # NoModel

ActivationOK(dict, a) ==
    /\ a.op = "build" => BuildOK(dict, a)
    /\ a.op = "override" => OverrideOK(dict, a)

\* What a waits for is the activation b.
Called(a, b) ==
    \/ /\ a.op = "build" /\ a.step = "build" /\ a.next \in DOMAIN Declared(a)
       /\ b.op = "build"
       /\ b.call = Key(Declared(a)[a.next])
       /\ b.use_cache = Declared(a)[a.next].use_cache
       /\ b.is_sync = a.is_sync
    \/ /\ a.op = "build" /\ a.step = "check"
       /\ b.op = "override" /\ b.original = Key(Declared(a)[a.next])
    \/ /\ a.op = "override" /\ a.step = "original"
       /\ b.op = "build" /\ b.call = Unwrap[a.original]
       /\ b.use_cache /\ b.serializer = NoSerializer
    \/ /\ a.op = "override" /\ a.step = "override"
       /\ b.op = "build" /\ b.call = Unwrap[a.override] /\ b.use_cache

StackOK(dict, w) ==
    /\ w \in Seq(Activation)
    /\ \A n \in 1 .. Len(w) : ActivationOK(dict, w[n])
    /\ \A n \in 1 .. Len(w) - 1 : Called(w[n], w[n + 1])
    /\ w # <<>> /\ w[1].op = "build" => w[1].main

BuildInv ==
    /\ ProviderTypeOK
    /\ DOMAIN work = Threads
    /\ \A t \in Threads : StackOK(dependencies, work[t])
    /\ injected \subseteq CallModel
    /\ SyncAllTheWay

-----------------------------------------------------------------------------
(* Declarations *)

\* A build goes through the Depends() of its callable's parameters first, then, at the
\* injected function, through the extra ones.
LEMMA DeclaredType ==
    ASSUME NEW b \in Build
    PROVE  /\ Len(Declared(b)) \in Nat
           /\ DOMAIN Declared(b) = 1 .. Len(Declared(b))
           /\ \A i \in DOMAIN Declared(b) :
                 /\ Declared(b)[i] \in Dependant
                 /\ Declared(b)[i] \in AllDepends
                 /\ Key(Declared(b)[i]) \in Callables
           /\ \A i \in DOMAIN Depends[b.call] :
                 i \in DOMAIN Declared(b) /\ Declared(b)[i] = Depends[b.call][i]
           /\ b.main => \A i \in DOMAIN Extras[b.call] :
                 \E j \in DOMAIN Declared(b) : Declared(b)[j] = Extras[b.call][i]
<1> DEFINE d == Depends[b.call]
           e == IF b.main THEN Extras[b.call] ELSE <<>>
<1>1. b.call \in Callables /\ Declared(b) = d \o e
  BY DEF Build, Declared
<1>2. /\ d \in Seq(Dependant) /\ Extras[b.call] \in Seq(Dependant)
      /\ e \in Seq(Dependant) /\ Unwrap \in [Callables -> Callables]
  BY <1>1, DeclAssumption, EmptySeq DEF DeclarationsAssumption
<1>3. ASSUME NEW i \in DOMAIN d PROVE d[i] \in AllDepends
  BY <1>1 DEF AllDepends, DependsOf
<1>4. ASSUME NEW i \in DOMAIN e PROVE e[i] \in AllDepends
  BY <1>1 DEF AllDepends, DependsOf
<1> HIDE DEF d, e
<1>5. /\ Len(d) \in Nat /\ Len(e) \in Nat
      /\ DOMAIN d = 1 .. Len(d) /\ DOMAIN e = 1 .. Len(e)
  BY <1>2, LenProperties
<1>6. /\ d \o e \in Seq(Dependant)
      /\ Len(d \o e) = Len(d) + Len(e)
      /\ \A i \in 1 .. Len(d) + Len(e) :
            (d \o e)[i] = IF i <= Len(d) THEN d[i] ELSE e[i - Len(d)]
  BY <1>2, ConcatProperties
<1>7. DOMAIN Declared(b) = 1 .. Len(d) + Len(e) /\ Len(Declared(b)) = Len(d) + Len(e)
  BY <1>1, <1>6, LenProperties
<1>8. ASSUME NEW i \in DOMAIN Declared(b)
      PROVE  /\ Declared(b)[i] \in Dependant
             /\ Declared(b)[i] \in AllDepends
             /\ Key(Declared(b)[i]) \in Callables
  <2>1. Declared(b)[i] \in Dependant
    BY <1>1, <1>6, <1>7, ElementOfSeq
  <2>2. Declared(b)[i] \in AllDepends
    BY <1>1, <1>3, <1>4, <1>5, <1>6, <1>7
  <2> QED
    BY <1>2, <2>1, <2>2 DEF Key, Dependant
<1>9. ASSUME NEW i \in DOMAIN d PROVE i \in DOMAIN Declared(b) /\ Declared(b)[i] = d[i]
  BY <1>1, <1>5, <1>6, <1>7
<1>10. ASSUME NEW i \in DOMAIN e PROVE \E j \in DOMAIN Declared(b) : Declared(b)[j] = e[i]
  <2>1. Len(d) + i \in 1 .. Len(d) + Len(e) /\ ~(Len(d) + i <= Len(d)) /\ (Len(d) + i) - Len(d) = i
    BY <1>5
  <2> QED
    BY <1>1, <1>6, <1>7, <2>1
<1>11. b.main => e = Extras[b.call]
  BY DEF e
<1>12. \A i \in DOMAIN Depends[b.call] :
           i \in DOMAIN Declared(b) /\ Declared(b)[i] = Depends[b.call][i]
  BY <1>9 DEF d
<1>13. b.main => \A i \in DOMAIN Extras[b.call] :
           \E j \in DOMAIN Declared(b) : Declared(b)[j] = Extras[b.call][i]
  BY <1>10, <1>11
<1>14. Len(Declared(b)) \in Nat /\ DOMAIN Declared(b) = 1 .. Len(Declared(b))
  BY <1>5, <1>7
<1> QED
  BY <1>8, <1>12, <1>13, <1>14

-----------------------------------------------------------------------------
(* Stacks *)

\* All but the last element of a sequence.
LEMMA FrontProperties ==
    ASSUME NEW S, NEW s \in Seq(S), s # <<>>
    PROVE  /\ Front(s) \in Seq(S)
           /\ Len(Front(s)) = Len(s) - 1
           /\ \A n \in 1 .. Len(s) - 1 : Front(s)[n] = s[n]
<1>1. PICK n \in Nat : Len(s) = n + 1
  <2>1. Len(s) \in Nat \ {0}
    BY EmptySeq
  <2>2. Len(s) - 1 \in Nat /\ Len(s) = (Len(s) - 1) + 1
    BY <2>1
  <2> QED
    BY <2>2
<1>2. \A i \in 1 .. n : s[i] \in S
  BY <1>1, ElementOfSeq
<1>3. /\ SubSeq(s, 1, n) \in Seq(S)
      /\ Len(SubSeq(s, 1, n)) = IF 1 <= n THEN n - 1 + 1 ELSE 0
      /\ \A i \in 1 .. n - 1 + 1 : SubSeq(s, 1, n)[i] = s[1 + i - 1]
  BY <1>2, SubSeqProperties, 1 \in Int, n \in Int
<1>4. Len(s) - 1 = n /\ Front(s) = SubSeq(s, 1, n)
  BY <1>1 DEF Front
<1> QED
  BY <1>3, <1>4

\* The innermost activation off, what is left is a stack.
LEMMA FrontOK ==
    ASSUME NEW dict, NEW w, StackOK(dict, w), w # <<>>
    PROVE  /\ StackOK(dict, Front(w))
           /\ Len(Front(w)) = Len(w) - 1
           /\ \A n \in 1 .. Len(w) - 1 : Front(w)[n] = w[n]
<1>1. w \in Seq(Activation) /\ Len(w) \in Nat \ {0}
  BY DEF StackOK
<1>2. /\ Front(w) \in Seq(Activation)
      /\ Len(Front(w)) = Len(w) - 1
      /\ \A n \in 1 .. Len(w) - 1 : Front(w)[n] = w[n]
  BY <1>1, FrontProperties
<1> QED
  BY <1>1, <1>2 DEF StackOK

\* What the innermost activation called is put on it.
LEMMA AppendOK ==
    ASSUME NEW dict, NEW w, StackOK(dict, w),
           NEW a \in Activation, ActivationOK(dict, a),
           w = <<>> => (a.op = "build" => a.main),
           w # <<>> => Called(w[Len(w)], a)
    PROVE  /\ StackOK(dict, Append(w, a))
           /\ Append(w, a) # <<>>
           /\ Len(Append(w, a)) = Len(w) + 1
           /\ Append(w, a)[Len(w) + 1] = a
<1>1. w \in Seq(Activation) /\ Len(w) \in Nat /\ (w = <<>> <=> Len(w) = 0)
  BY DEF StackOK
<1>2. /\ Append(w, a) \in Seq(Activation)
      /\ Len(Append(w, a)) = Len(w) + 1
      /\ \A n \in 1 .. Len(w) : Append(w, a)[n] = w[n]
      /\ Append(w, a)[Len(w) + 1] = a
  BY <1>1
<1> DEFINE v == Append(w, a)
<1> HIDE DEF v
<1>3. ASSUME NEW n \in 1 .. Len(w) + 1 PROVE ActivationOK(dict, v[n])
  BY <1>1, <1>2 DEF StackOK, v
<1>4. ASSUME NEW n \in 1 .. Len(w) PROVE Called(v[n], v[n + 1])
  <2>1. CASE n = Len(w)
    BY <1>1, <1>2, <2>1 DEF v
  <2>2. CASE n < Len(w)
    BY <1>1, <1>2, <2>2 DEF StackOK, v
  <2> QED
    BY <1>1, <2>1, <2>2
<1>5. v # <<>> /\ (v[1].op = "build" => v[1].main)
  <2>1. CASE w = <<>>
    BY <1>1, <1>2, <2>1 DEF v
  <2>2. CASE w # <<>>
    BY <1>1, <1>2, <2>2 DEF StackOK, v
  <2> QED
    BY <2>1, <2>2
<1>6. StackOK(dict, v)
  BY <1>1, <1>2, <1>3, <1>4, <1>5 DEF StackOK, v
<1> QED
  BY <1>2, <1>5, <1>6 DEF v

\* The innermost activation replaced by one that was called for the same.
LEMMA ReplaceOK ==
    ASSUME NEW dict, NEW w, StackOK(dict, w), w # <<>>,
           NEW a \in Activation, ActivationOK(dict, a),
           a.op = w[Len(w)].op,
           a.op = "build" =>
              /\ a.call = w[Len(w)].call /\ a.use_cache = w[Len(w)].use_cache
              /\ a.is_sync = w[Len(w)].is_sync /\ a.serializer = w[Len(w)].serializer
              /\ a.main = w[Len(w)].main,
           a.op = "override" => a.original = w[Len(w)].original
    PROVE  /\ StackOK(dict, [w EXCEPT ![Len(w)] = a])
           /\ [w EXCEPT ![Len(w)] = a] # <<>>
           /\ Len([w EXCEPT ![Len(w)] = a]) = Len(w)
           /\ [w EXCEPT ![Len(w)] = a][Len(w)] = a
<1>1. w \in Seq(Activation) /\ Len(w) \in Nat \ {0}
  BY DEF StackOK
<1> DEFINE v == [w EXCEPT ![Len(w)] = a]
<1>2. /\ v \in Seq(Activation)
      /\ Len(v) = Len(w)
      /\ \A n \in 1 .. Len(w) - 1 : v[n] = w[n]
      /\ v[Len(w)] = a
  BY <1>1
<1> HIDE DEF v
<1>3. ASSUME NEW n \in 1 .. Len(w) PROVE ActivationOK(dict, v[n])
  BY <1>1, <1>2 DEF StackOK
<1>4. ASSUME NEW n \in 1 .. Len(w) - 1 PROVE Called(v[n], v[n + 1])
  <2>1. CASE n + 1 = Len(w)
    BY <1>1, <1>2, <2>1 DEF StackOK, Called
  <2>2. CASE n + 1 < Len(w)
    BY <1>1, <1>2, <2>2 DEF StackOK
  <2> QED
    BY <1>1, <2>1, <2>2
<1>5. v[1].op = "build" => v[1].main
  BY <1>1, <1>2 DEF StackOK
<1>6. StackOK(dict, v) /\ v # <<>>
  BY <1>1, <1>2, <1>3, <1>4, <1>5 DEF StackOK
<1> QED
  BY <1>2, <1>6 DEF v

\* Registering more leaves a stack as sound as it was.
LEMMA StackStays ==
    ASSUME NEW dict, NEW more, NEW w, StackOK(dict, w),
           \A k \in Callables : dict[k] # NoModel => more[k] # NoModel
    PROVE  StackOK(more, w)
<1>1. ASSUME NEW a \in Activation, ActivationOK(dict, a) PROVE ActivationOK(more, a)
  <2>1. ASSUME a.op = "build" PROVE BuildOK(more, a)
    <3>1. a \in Build
      BY <2>1 DEF Activation, Build, Override
    <3>2. BuildOK(dict, a)
      BY <1>1, <2>1 DEF ActivationOK
    <3>3. ASSUME NEW i \in DOMAIN Declared(a) PROVE Key(Declared(a)[i]) \in Callables
      BY <3>1, DeclaredType
    <3> QED
      BY <3>2, <3>3 DEF BuildOK
  <2>2. ASSUME a.op = "override" PROVE OverrideOK(more, a)
    <3>1. a.original \in Callables
      BY <2>2 DEF Activation, Build, Override
    <3> QED
      BY <1>1, <2>2, <3>1 DEF ActivationOK, OverrideOK
  <2> QED
    BY <2>1, <2>2 DEF ActivationOK
<1>2. ASSUME NEW n \in 1 .. Len(w) PROVE w[n] \in Activation
  BY ElementOfSeq DEF StackOK
<1> QED
  BY <1>1, <1>2 DEF StackOK

-----------------------------------------------------------------------------
(* Builds *)

\* An activation about to build is one of build_call_model(), of override() otherwise.
LEMMA Operation ==
    ASSUME NEW a \in Activation
    PROVE  /\ a.op = "build" => a \in Build
           /\ a.op = "override" => a \in Override
BY DEF Activation, Build, Override

\* Every override or inject() starts a build that has gone through nothing.
LEMMA RootOK ==
    ASSUME NEW f \in Callables, NEW s \in Serializers, NEW main \in BOOLEAN, NEW dict
    PROVE  Root(f, s, main) \in Build /\ ActivationOK(dict, Root(f, s, main))
<1> DEFINE b == Root(f, s, main)
<1>1. b \in Build /\ b.step = "build" /\ b.next = 1 /\ b.is_sync = ~IsAsync(b.call)
  BY DeclAssumption DEF DeclarationsAssumption, Root, Build, IsAsync
<1>2. ASSUME NEW i \in DOMAIN Declared(b) PROVE ~ Behind(b, i)
  BY <1>1, DeclaredType DEF Behind
<1> QED
  BY <1>1, <1>2 DEF ActivationOK, BuildOK, Root

\* And so does a dependency that is not refused.
LEMMA ChildOK ==
    ASSUME NEW a \in Build, a.next \in DOMAIN Declared(a), a.step = "build", NEW dict,
           ~ Refused(Child(a, Declared(a)[a.next]))
    PROVE  LET b == Child(a, Declared(a)[a.next])
           IN  b \in Build /\ ActivationOK(dict, b) /\ Called(a, b)
<1> DEFINE b == Child(a, Declared(a)[a.next])
<1>1. Declared(a)[a.next] \in Dependant /\ Key(Declared(a)[a.next]) \in Callables
  BY DeclaredType
<1>2. b \in Build /\ b.op = "build" /\ b.step = "build" /\ b.next = 1 /\ ~b.main
  BY <1>1 DEF Child, Build, Dependant
<1>3. ASSUME NEW i \in DOMAIN Declared(b) PROVE ~ Behind(b, i)
  BY <1>2, DeclaredType DEF Behind
<1>4. ActivationOK(dict, b)
  BY <1>2, <1>3 DEF ActivationOK, BuildOK, Refused
<1>5. a.op = "build"
  BY DEF Build
<1> QED
  BY <1>2, <1>4, <1>5 DEF Called, Child

\* A synchronous callable that declares callables synchronous all the way is one.
LEMMA SyncOnlyGrows ==
    ASSUME NEW f \in Callables, ~IsAsync(f), Uses(f) \subseteq SyncOnly
    PROVE  f \in SyncOnly
<1> DEFINE S == SyncOnly \cup {f}
<1>1. S \in SUBSET Callables
  BY DEF SyncOnly, ClosedSets
<1>2. ASSUME NEW g \in SyncOnly PROVE ~IsAsync(g) /\ Uses(g) \subseteq SyncOnly
  BY DEF SyncOnly, ClosedSets
<1>3. S \in ClosedSets /\ \A g \in S : ~IsAsync(g)
  BY <1>1, <1>2 DEF ClosedSets
<1> QED
  BY <1>3 DEF SyncOnly

\* What a complete build registers can be solved, and is synchronous all the way if
\* the build was.
LEMMA CompleteOK ==
    ASSUME NEW b \in Build, NEW dict, ActivationOK(dict, b),
           b.step = "build", b.next > Len(Declared(b))
    PROVE  /\ Model(b) \in CallModel
           /\ Built(dict, Model(b))
           /\ b.is_sync => b.call \in SyncOnly
<1>1. ASSUME NEW i \in DOMAIN Declared(b) PROVE Behind(b, i)
  <2>1. i \in 1 .. Len(Declared(b)) /\ Len(Declared(b)) \in Nat /\ b.next \in Nat
    BY DeclaredType DEF Build
  <2> QED
    BY <2>1 DEF Behind
<1>2. BuildOK(dict, b) /\ b.call \in Callables
  BY DEF ActivationOK, Build
<1>3. \A i \in DOMAIN Declared(b) :
          /\ dict[Key(Declared(b)[i])] # NoModel
          /\ b.is_sync => Key(Declared(b)[i]) \in SyncOnly
  BY <1>1, <1>2 DEF BuildOK
<1>4. \A i \in DOMAIN Depends[b.call] :
          i \in DOMAIN Declared(b) /\ Declared(b)[i] = Depends[b.call][i]
  BY DeclaredType
<1>5. Model(b) \in CallModel /\ Model(b).call = b.call
  BY DeclAssumption DEF DeclarationsAssumption, Model, CallModel, Build
<1>6. Built(dict, Model(b))
  BY <1>3, <1>4, <1>5 DEF Built
<1>7. ASSUME b.is_sync PROVE b.call \in SyncOnly
  <2>1. Uses(b.call) \subseteq SyncOnly
    BY <1>3, <1>4, <1>7 DEF Uses
  <2> QED
    BY <1>2, <1>7, <2>1, SyncOnlyGrows DEF BuildOK
<1> QED
  BY <1>5, <1>6, <1>7

\* A build whose next declaration is registered may go on past it.
LEMMA ProgressOK ==
    ASSUME NEW a \in Build, NEW dict, ActivationOK(dict, a), a.next \in DOMAIN Declared(a),
           dict[Key(Declared(a)[a.next])] # NoModel,
           a.is_sync => Key(Declared(a)[a.next]) \in SyncOnly
    PROVE  /\ \A x \in {"registered", "check"} :
                 /\ [a EXCEPT !.step = x] \in Build
                 /\ ActivationOK(dict, [a EXCEPT !.step = x])
           /\ [a EXCEPT !.step = "build", !.next = @ + 1] \in Build
           /\ ActivationOK(dict, [a EXCEPT !.step = "build", !.next = @ + 1])
<1>1. a.op = "build" /\ a.next \in Nat \ {0} /\ BuildOK(dict, a)
  BY DEF Build, ActivationOK
<1>2. \A i \in DOMAIN Declared(a) : i \in Nat
  BY DeclaredType
<1>3. ASSUME NEW i \in DOMAIN Declared(a), i <= a.next
      PROVE  /\ dict[Key(Declared(a)[i])] # NoModel
             /\ a.is_sync => Key(Declared(a)[i]) \in SyncOnly
  BY <1>1, <1>2, <1>3 DEF BuildOK, Behind
<1>4. ASSUME NEW x \in {"registered", "check"}
      PROVE  /\ [a EXCEPT !.step = x] \in Build
             /\ ActivationOK(dict, [a EXCEPT !.step = x])
  <2> DEFINE b == [a EXCEPT !.step = x]
  <2>1. /\ b \in Build /\ b.op = "build" /\ b.call = a.call /\ b.main = a.main
        /\ b.next = a.next /\ b.is_sync = a.is_sync
    BY DEF Build
  <2> HIDE DEF b
  <2>2. Declared(b) = Declared(a)
    BY <2>1 DEF Declared
  <2>3. ASSUME NEW i \in DOMAIN Declared(a), Behind(b, i) PROVE i <= a.next
    BY <1>1, <1>2, <2>1, <2>3 DEF Behind
  <2>4. BuildOK(dict, b)
    BY <1>1, <1>3, <2>1, <2>2, <2>3 DEF BuildOK
  <2> QED
    BY <2>1, <2>4 DEF ActivationOK, b
<1>5. /\ [a EXCEPT !.step = "build", !.next = @ + 1] \in Build
      /\ ActivationOK(dict, [a EXCEPT !.step = "build", !.next = @ + 1])
  <2> DEFINE b == [a EXCEPT !.step = "build", !.next = @ + 1]
  <2>0. a.next + 1 \in Nat \ {0}
    BY <1>1
  <2>1. /\ b \in Build /\ b.op = "build" /\ b.call = a.call /\ b.main = a.main
        /\ b.next = a.next + 1 /\ b.is_sync = a.is_sync /\ b.step = "build"
    BY <2>0 DEF Build
  <2> HIDE DEF b
  <2>2. Declared(b) = Declared(a)
    BY <2>1 DEF Declared
  <2>3. ASSUME NEW i \in DOMAIN Declared(a), Behind(b, i) PROVE i <= a.next
    BY <1>1, <1>2, <2>1, <2>3 DEF Behind
  <2>4. BuildOK(dict, b)
    BY <1>1, <1>3, <2>1, <2>2, <2>3 DEF BuildOK
  <2> QED
    BY <2>1, <2>4 DEF ActivationOK, b
<1> QED
  BY <1>4, <1>5

-----------------------------------------------------------------------------
(* One step of one thread *)

\* The innermost activation, and what it has gone through.
LEMMA Innermost ==
    ASSUME BuildInv, NEW t \in Threads, work[t] # <<>>
    PROVE  /\ StackOK(dependencies, work[t])
           /\ work[t] \in Seq(Activation)
           /\ Len(work[t]) \in Nat \ {0}
           /\ Doing(t) = work[t][Len(work[t])]
           /\ Doing(t) \in Activation
           /\ ActivationOK(dependencies, Doing(t))
<1>1. StackOK(dependencies, work[t]) /\ work[t] \in Seq(Activation)
  BY DEF BuildInv, StackOK
<1>2. Len(work[t]) \in Nat \ {0}
  BY <1>1, EmptySeq
<1>3. Doing(t) = work[t][Len(work[t])]
  BY DEF Doing, Last
<1> QED
  BY <1>1, <1>2, <1>3, ElementOfSeq DEF StackOK

\* The one that waits for it.
LEMMA CalledFrom ==
    ASSUME BuildInv, NEW t \in Threads, work[t] # <<>>, Len(work[t]) > 1
    PROVE  /\ StackOK(dependencies, Front(work[t]))
           /\ Front(work[t]) # <<>>
           /\ Len(Front(work[t])) = Len(work[t]) - 1
           /\ Within(t) = Front(work[t])[Len(Front(work[t]))]
           /\ Within(t) \in Activation
           /\ ActivationOK(dependencies, Within(t))
           /\ Called(Within(t), Doing(t))
<1> DEFINE w == work[t]
           n == Len(w) - 1
<1>1. /\ StackOK(dependencies, w) /\ w \in Seq(Activation)
      /\ Len(w) \in Nat /\ n \in 1 .. Len(w) /\ n \in 1 .. Len(w) - 1 /\ n + 1 = Len(w)
      /\ Doing(t) = w[Len(w)]
  BY Innermost
<1>2. /\ StackOK(dependencies, Front(w))
      /\ Len(Front(w)) = n
      /\ Front(w)[n] = w[n]
  BY <1>1, FrontOK
<1>3. Within(t) = w[n]
  BY DEF Within
<1>4. w[n] \in Activation /\ ActivationOK(dependencies, w[n]) /\ Called(w[n], w[n + 1])
  BY <1>1, ElementOfSeq DEF StackOK
<1>5. Front(w) # <<>>
  BY <1>1, <1>2, EmptySeq
<1> QED
  BY <1>1, <1>2, <1>3, <1>4, <1>5

\* What the others have gone through stays registered whatever t stores.
LEMMA OneMoves ==
    ASSUME BuildInv, NEW t \in Threads, [ProviderNext]_registry,
           NEW w, work' = [work EXCEPT ![t] = w], StackOK(dependencies', w),
           injected' \subseteq CallModel, SyncAllTheWay'
    PROVE  BuildInv'
<1>1. ProviderTypeOK'
  BY ProviderTypeStep DEF BuildInv, ProviderTypeOK, registry
<1>2. \A k \in Callables : dependencies[k] # NoModel => dependencies'[k] # NoModel
  BY RegisteredStays DEF BuildInv
<1>3. DOMAIN work' = Threads /\ \A u \in Threads : work'[u] = IF u = t THEN w ELSE work[u]
  BY DEF BuildInv
<1>4. ASSUME NEW u \in Threads PROVE StackOK(dependencies', work'[u])
  BY <1>2, <1>3, StackStays DEF BuildInv
<1> QED
  BY <1>1, <1>3, <1>4 DEF BuildInv

\* Most steps inject nothing.
LEMMA OneBuilds ==
    ASSUME BuildInv, NEW t \in Threads, [ProviderNext]_registry,
           NEW w, work' = [work EXCEPT ![t] = w], StackOK(dependencies', w),
           UNCHANGED injected
    PROVE  BuildInv'
BY OneMoves DEF BuildInv, SyncAllTheWay

\* A step that leaves the registry alone.
LEMMA OneThinks ==
    ASSUME BuildInv, NEW t \in Threads, UNCHANGED <<registry, injected>>,
           NEW w, work' = [work EXCEPT ![t] = w], StackOK(dependencies, w)
    PROVE  [ProviderNext]_registry /\ BuildInv'
<1>1. UNCHANGED registry /\ dependencies' = dependencies /\ UNCHANGED injected
  BY DEF registry
<1>2. StackOK(dependencies', w)
  BY <1>1
<1> QED
  BY <1>1, <1>2, OneBuilds

\* An exception leaves every activation of t, and what they registered.
LEMMA RaiseStep ==
    ASSUME BuildInv, NEW t \in Threads, Raise(t)
    PROVE  [ProviderNext]_registry /\ BuildInv'
<1>1. StackOK(dependencies, <<>>)
  BY EmptySeq DEF StackOK
<1> QED
  BY <1>1, OneThinks DEF Raise

\* inject() starts the build of an injected function (use.py:40-118).
LEMMA InjectStep ==
    ASSUME BuildInv, NEW t \in Threads, Inject(t)
    PROVE  [ProviderNext]_registry /\ BuildInv'
<1>1. PICK f \in Decorated, s \in Serializers : Push(t, <<>>, Root(f, s, TRUE))
  BY DEF Inject
<1>2. /\ Root(f, s, TRUE) \in Activation /\ Root(f, s, TRUE).main
      /\ ActivationOK(dependencies, Root(f, s, TRUE))
  BY AsyncAssumption, RootOK DEF Root, Activation
<1>3. StackOK(dependencies, <<>>)
  BY EmptySeq DEF StackOK
<1>4. StackOK(dependencies, Append(<<>>, Root(f, s, TRUE)))
  BY <1>2, <1>3, AppendOK
<1> QED
  BY <1>1, <1>4, OneThinks DEF Inject, Push

\* override() of anything, with what may override it (provider.py:42-66).
LEMMA CallOverrideStep ==
    ASSUME BuildInv, NEW t \in Threads, CallOverride(t)
    PROVE  [ProviderNext]_registry /\ BuildInv'
<1>1. PICK k \in Callables : \E o \in Overriders[k] : Push(t, <<>>, Overriding(k, o))
  BY DEF CallOverride
<1>2. PICK o \in Overriders[k] : Push(t, <<>>, Overriding(k, o))
  BY <1>1
<1>3. /\ Overriding(k, o) \in Activation /\ Overriding(k, o).op = "override"
      /\ ActivationOK(dependencies, Overriding(k, o))
  BY DeclAssumption
  DEF DeclarationsAssumption, Overriding, Activation, Override, ActivationOK, OverrideOK
<1>4. StackOK(dependencies, <<>>)
  BY EmptySeq DEF StackOK
<1>5. StackOK(dependencies, Append(<<>>, Overriding(k, o)))
  BY <1>3, <1>4, AppendOK
<1> QED
  BY <1>2, <1>5, OneThinks DEF CallOverride, Push

\* clear() and the end of a scope() build nothing.
LEMMA DropStep ==
    ASSUME BuildInv, NEW t \in Threads, Drop(t)
    PROVE  [ProviderNext]_registry /\ BuildInv'
<1>1. ProviderNext /\ dependencies' = dependencies /\ work' = work /\ injected' = injected
  BY DEF Drop, Clear, PopOverride, ProviderNext
<1>2. ProviderTypeOK'
  BY <1>1, ProviderTypeStep DEF BuildInv
<1> QED
  BY <1>1, <1>2 DEF BuildInv, SyncAllTheWay

-----------------------------------------------------------------------------
(* The steps of build_call_model() *)

\* The model of the next dependency is built, or refused (builder.py:59-65, 156-163).
LEMMA BuildDependencyStep ==
    ASSUME BuildInv, NEW t \in Threads, BuildDependency(t)
    PROVE  [ProviderNext]_registry /\ BuildInv'
<1> DEFINE a == Doing(t)
           b == Child(a, Declared(a)[a.next])
<1>1. work[t] # <<>> /\ a.op = "build" /\ a.step = "build" /\ a.next <= Len(Declared(a))
  BY DEF BuildDependency, In
<1>2. a \in Build /\ a.next \in Nat \ {0}
  BY <1>1, Innermost, Operation DEF Build
<1>3. a.next \in DOMAIN Declared(a)
  BY <1>1, <1>2, DeclaredType
<1>4. CASE Refused(b)
  BY <1>4, RaiseStep DEF BuildDependency, Declaration
<1>5. CASE ~Refused(b)
  <2>1. b \in Activation /\ ActivationOK(dependencies, b) /\ Called(a, b)
    BY <1>1, <1>2, <1>3, <1>5, ChildOK DEF Activation
  <2>2. StackOK(dependencies, Append(work[t], b))
    BY <1>1, <2>1, Innermost, AppendOK
  <2>3. work' = [work EXCEPT ![t] = Append(work[t], b)] /\ UNCHANGED <<registry, injected>>
    BY <1>5 DEF BuildDependency, Declaration, Push
  <2> QED
    BY <2>2, <2>3, OneThinks
<1> QED
  BY <1>4, <1>5

\* A thread whose innermost build is complete.
LEMMA Completed ==
    ASSUME BuildInv, NEW t \in Threads, Complete(t)
    PROVE  /\ work[t] # <<>>
           /\ Doing(t) \in Build
           /\ BuildOK(dependencies, Doing(t))
           /\ Model(Doing(t)) \in CallModel
           /\ Built(dependencies, Model(Doing(t)))
           /\ Doing(t).is_sync => Doing(t).call \in SyncOnly
<1>1. /\ work[t] # <<>> /\ Doing(t).op = "build" /\ Doing(t).step = "build"
      /\ Doing(t).next > Len(Declared(Doing(t)))
  BY DEF Complete, In
<1>2. Doing(t) \in Build /\ ActivationOK(dependencies, Doing(t))
  BY <1>1, Innermost, Operation
<1> QED
  BY <1>1, <1>2, CompleteOK DEF ActivationOK

\* The innermost activation's step, changed.
LEMMA SetStep ==
    ASSUME NEW w \in Seq(Activation), w # <<>>, NEW x
    PROVE  [w EXCEPT ![Len(w)].step = x] = [w EXCEPT ![Len(w)] = [w[Len(w)] EXCEPT !.step = x]]
OBVIOUS

\* A dependency's model is registered, solvable (builder.py:165).
LEMMA RegisterStep ==
    ASSUME BuildInv, NEW t \in Threads, Register(t)
    PROVE  [ProviderNext]_registry /\ BuildInv'
<1> DEFINE w == Front(work[t])
           b == Doing(t)
           a == Within(t)
           d == Declared(a)[a.next]
           c == [a EXCEPT !.step = "registered"]
<1>1. /\ Complete(t) /\ Len(work[t]) > 1 /\ a.op = "build"
      /\ dependencies' = [dependencies EXCEPT ![b.call] = Model(b)]
      /\ work' = [work EXCEPT ![t] = Resume(w, "registered")]
      /\ overrides' = overrides /\ injected' = injected
  BY DEF Register
<1>2. /\ work[t] # <<>> /\ b \in Build /\ Model(b) \in CallModel
      /\ Built(dependencies, Model(b)) /\ (b.is_sync => b.call \in SyncOnly)
  BY <1>1, Completed
<1>3. /\ StackOK(dependencies, w) /\ w # <<>> /\ a = w[Len(w)]
      /\ a \in Activation /\ ActivationOK(dependencies, a) /\ Called(a, b)
  BY <1>1, <1>2, CalledFrom
<1>4. a \in Build
  BY <1>1, <1>3, Operation
<1>5. /\ a.next \in DOMAIN Declared(a) /\ b.call = Key(d)
      /\ b.use_cache = d.use_cache /\ b.is_sync = a.is_sync
  BY <1>1, <1>2, <1>3 DEF Called, Build
<1>6. Model(b) \in DeclaredModels
  <2>1. b.serializer \in Serializers /\ d \in AllDepends
    BY <1>2, <1>4, <1>5, DeclaredType DEF Build
  <2> QED
    BY <1>5, <2>1 DEF Model, DeclaredModels
<1>7. ProviderNext
  BY <1>1, <1>2, <1>6 DEF ProviderNext, AddDependant, Model
<1>8. dependencies'[b.call] # NoModel
  BY <1>1, <1>2, NoModelAssumption DEF BuildInv, ProviderTypeOK, Dict, Build
<1>9. StackOK(dependencies', w) /\ ActivationOK(dependencies', a)
  <2>1. \A k \in Callables : dependencies[k] # NoModel => dependencies'[k] # NoModel
    BY <1>7, RegisteredStays DEF BuildInv
  <2>2. StackOK(dependencies', w)
    BY <1>3, <2>1, StackStays
  <2>3. Len(w) \in 1 .. Len(w)
    BY <1>3, EmptySeq DEF StackOK
  <2> QED
    BY <1>3, <2>2, <2>3 DEF StackOK
<1>10. c \in Build /\ ActivationOK(dependencies', c)
  BY <1>2, <1>4, <1>5, <1>8, <1>9, ProgressOK
<1>11. /\ c.op = a.op /\ c.op = "build" /\ c.call = a.call /\ c.use_cache = a.use_cache
       /\ c.is_sync = a.is_sync /\ c.serializer = a.serializer /\ c.main = a.main
  BY <1>4 DEF Build
<1>12. Resume(w, "registered") = [w EXCEPT ![Len(w)] = c]
  BY <1>3, SetStep DEF Resume, StackOK
<1>13. StackOK(dependencies', Resume(w, "registered"))
  <2>1. c \in Activation
    BY <1>10 DEF Activation
  <2>2. /\ c.op # "override" /\ c.op = w[Len(w)].op
        /\ c.call = w[Len(w)].call /\ c.use_cache = w[Len(w)].use_cache
        /\ c.is_sync = w[Len(w)].is_sync /\ c.serializer = w[Len(w)].serializer
        /\ c.main = w[Len(w)].main
    BY <1>3, <1>11
  <2> HIDE DEF a, c, w
  <2>3. StackOK(dependencies', [w EXCEPT ![Len(w)] = c])
    BY <1>3, <1>9, <1>10, <2>1, <2>2, ReplaceOK
  <2> QED
    BY <1>12, <2>3
<1> QED
  BY <1>1, <1>7, <1>13, OneBuilds

\* Where a build stands between the registration of a dependency and the next one.
LEMMA AtDependency ==
    ASSUME BuildInv, NEW t \in Threads, In(t, "build", "registered") \/ In(t, "build", "check")
    PROVE  LET a == Doing(t)
           IN  /\ work[t] # <<>> /\ a \in Build /\ a.op = "build"
               /\ ActivationOK(dependencies, a)
               /\ a.next \in DOMAIN Declared(a)
               /\ Declared(a)[a.next] \in Dependant
               /\ Key(Declared(a)[a.next]) \in Callables
               /\ Unwrap[Key(Declared(a)[a.next])] = Key(Declared(a)[a.next])
               /\ dependencies[Key(Declared(a)[a.next])] # NoModel
               /\ a.is_sync => Key(Declared(a)[a.next]) \in SyncOnly
<1> DEFINE a == Doing(t)
<1>1. work[t] # <<>> /\ a.op = "build" /\ a.step # "build"
  BY DEF In
<1>2. a \in Build /\ ActivationOK(dependencies, a) /\ BuildOK(dependencies, a)
  BY <1>1, Innermost, Operation DEF ActivationOK
<1>3. a.next \in DOMAIN Declared(a) /\ Behind(a, a.next)
  BY <1>1, <1>2 DEF BuildOK, Behind
<1>4. Declared(a)[a.next] \in Dependant /\ Key(Declared(a)[a.next]) \in Callables
  BY <1>2, <1>3, DeclaredType
<1>5. Unwrap[Key(Declared(a)[a.next])] = Key(Declared(a)[a.next])
  BY <1>4, DeclAssumption DEF DeclarationsAssumption, Key, Dependant
<1> QED
  BY <1>1, <1>2, <1>3, <1>4, <1>5 DEF BuildOK

\* An override of it made for another serializer is built again (builder.py:296-305).
LEMMA RebuildStep ==
    ASSUME BuildInv, NEW t \in Threads, Rebuild(t)
    PROVE  [ProviderNext]_registry /\ BuildInv'
<1> DEFINE a == Doing(t)
           key == Key(Declared(a)[a.next])
           c == [a EXCEPT !.step = "check"]
           o == Overriding(key, overrides[key].call)
           w == work[t]
<1>1. /\ w # <<>> /\ a \in Build /\ a.op = "build" /\ ActivationOK(dependencies, a)
      /\ a.next \in DOMAIN Declared(a) /\ key \in Callables
      /\ dependencies[key] # NoModel /\ (a.is_sync => key \in SyncOnly)
  BY AtDependency DEF Rebuild
<1>2. StackOK(dependencies, w) /\ w \in Seq(Activation) /\ a = w[Len(w)]
  BY <1>1, Innermost
<1>3. c \in Build /\ ActivationOK(dependencies, c)
  BY <1>1, ProgressOK
<1>4. /\ c.op = a.op /\ c.call = a.call /\ c.use_cache = a.use_cache /\ c.step = "check"
      /\ c.is_sync = a.is_sync /\ c.serializer = a.serializer /\ c.main = a.main
      /\ c.next = a.next /\ Declared(c) = Declared(a)
  BY <1>1 DEF Build, Declared
<1>5. Become(t, "check") = [w EXCEPT ![Len(w)] = c]
  BY <1>1, <1>2, SetStep DEF Become
<1>6. /\ StackOK(dependencies, Become(t, "check")) /\ Become(t, "check") # <<>>
      /\ Become(t, "check")[Len(Become(t, "check"))] = c
  <2> HIDE DEF c, w
  <2> QED
    BY <1>1, <1>2, <1>3, <1>4, <1>5, ReplaceOK DEF Activation
<1>7. CASE work' = [work EXCEPT ![t] = Become(t, "check")]
  BY <1>6, <1>7, OneThinks DEF Rebuild
<1>8. CASE overrides[key] # NoModel /\ Push(t, Become(t, "check"), o)
  <2>1. PICK f \in Overriders[key] : overrides[key].call = Unwrap[f]
    BY <1>1, <1>8 DEF BuildInv, ProviderTypeOK
  <2>2. f \in Callables /\ Unwrap[f] \in Callables /\ Unwrap[Unwrap[f]] = Unwrap[f]
    BY <1>1, DeclAssumption DEF DeclarationsAssumption
  <2>3. /\ o \in Activation /\ o.op = "override" /\ o.original = key
        /\ o.override = Unwrap[f] /\ o.step = "look"
    BY <1>1, <2>1, <2>2, DeclAssumption
    DEF DeclarationsAssumption, Overriding, Activation, Override
  <2>4. ActivationOK(dependencies, o) /\ Called(c, o)
    BY <1>1, <1>4, <2>2, <2>3 DEF ActivationOK, OverrideOK, Called
  <2>5. StackOK(dependencies, Append(Become(t, "check"), o))
    <3> HIDE DEF c, o
    <3> QED
      BY <1>6, <2>3, <2>4, AppendOK
  <2> QED
    BY <1>8, <2>5, OneThinks DEF Rebuild, Push
<1> QED
  BY <1>7, <1>8 DEF Rebuild, Declaration

\* The assertion holds of what serves the dependency, and the next one follows.
LEMMA CheckStep ==
    ASSUME BuildInv, NEW t \in Threads, Check(t)
    PROVE  [ProviderNext]_registry /\ BuildInv'
<1> DEFINE a == Doing(t)
           key == Key(Declared(a)[a.next])
           c == [a EXCEPT !.step = "build", !.next = @ + 1]
           w == work[t]
<1>1. /\ w # <<>> /\ a \in Build /\ a.op = "build" /\ ActivationOK(dependencies, a)
      /\ a.next \in DOMAIN Declared(a)
      /\ dependencies[key] # NoModel /\ (a.is_sync => key \in SyncOnly)
  BY AtDependency DEF Check
<1>2. StackOK(dependencies, w) /\ a = w[Len(w)]
  BY <1>1, Innermost
<1>3. c \in Build /\ ActivationOK(dependencies, c)
  BY <1>1, ProgressOK
<1>4. /\ c.op = a.op /\ c.call = a.call /\ c.use_cache = a.use_cache
      /\ c.is_sync = a.is_sync /\ c.serializer = a.serializer /\ c.main = a.main
  BY <1>1 DEF Build
<1>5. StackOK(dependencies, [w EXCEPT ![Len(w)] = c])
  <2> HIDE DEF c, w
  <2> QED
    BY <1>1, <1>2, <1>3, <1>4, ReplaceOK DEF Activation
<1>6. CASE Raise(t)
  BY <1>6, RaiseStep
<1>7. CASE /\ work' = [work EXCEPT ![t][Len(work[t])] = [a EXCEPT !.step = "build", !.next = @ + 1]]
           /\ UNCHANGED <<registry, injected>>
  <2>1. work' = [work EXCEPT ![t] = [w EXCEPT ![Len(w)] = c]]
    BY <1>7
  <2> QED
    BY <1>5, <1>7, <2>1, OneThinks
<1> QED
  BY <1>6, <1>7 DEF Check

\* A complete build of inject() declares nothing asynchronous, at any depth, if its
\* function is not (builder.py:59-65, 156-160).
LEMMA InjectReturnsStep ==
    ASSUME BuildInv, NEW t \in Threads, InjectReturns(t)
    PROVE  [ProviderNext]_registry /\ BuildInv'
<1> DEFINE b == Doing(t)
<1>1. /\ Complete(t) /\ Len(work[t]) = 1 /\ UNCHANGED registry
      /\ injected' = injected \cup {Model(b)} /\ work' = [work EXCEPT ![t] = <<>>]
  BY DEF InjectReturns
<1>2. /\ work[t] # <<>> /\ b \in Build /\ Model(b) \in CallModel
      /\ BuildOK(dependencies, b) /\ b.step = "build" /\ b.next > Len(Declared(b))
  BY <1>1, Completed DEF Complete, In
<1>3. b.main /\ b.op = "build" /\ b.call \in Callables
  BY <1>1, <1>2, Innermost DEF StackOK, Build
<1>4. ASSUME NEW i \in DOMAIN Declared(b), b.is_sync PROVE Key(Declared(b)[i]) \in SyncOnly
  <2>1. i < b.next
    BY <1>2, DeclaredType DEF Build
  <2> QED
    BY <1>2, <1>4, <2>1 DEF BuildOK, Behind
<1>5. ASSUME ~IsAsync(b.call) PROVE \A g \in Needed[b.call] : ~IsAsync(g)
  <2>1. b.is_sync
    BY <1>2, <1>3, <1>5 DEF BuildOK
  <2>2. Uses(b.call) \subseteq SyncOnly
    BY <1>2, <1>4, <2>1, DeclaredType DEF Uses
  <2>3. {Key(Extras[b.call][i]) : i \in DOMAIN Extras[b.call]} \subseteq SyncOnly
    BY <1>2, <1>3, <1>4, <2>1, DeclaredType
  <2>4. SyncOnly \in ClosedSets /\ \A g \in SyncOnly : ~IsAsync(g)
    BY DEF SyncOnly, ClosedSets
  <2>5. ASSUME NEW g \in Needed[b.call] PROVE g \in SyncOnly
    BY <1>3, <2>2, <2>3, <2>4, <2>5 DEF Needed
  <2> QED
    BY <2>4, <2>5
<1>6. SyncAllTheWay'
  <2>1. Model(b).call = b.call
    BY DEF Model
  <2> QED
    BY <1>1, <1>5, <2>1 DEF BuildInv, SyncAllTheWay
<1>7. StackOK(dependencies', <<>>)
  BY EmptySeq DEF StackOK
<1>8. injected' \subseteq CallModel
  BY <1>1, <1>2 DEF BuildInv
<1> QED
  BY <1>1, <1>6, <1>7, <1>8, OneMoves

-----------------------------------------------------------------------------
(* The steps of Provider.override() *)

\* override() goes on to build the original or the overriding callable.
LEMMA LookUpOriginalStep ==
    ASSUME BuildInv, NEW t \in Threads, LookUpOriginal(t)
    PROVE  [ProviderNext]_registry /\ BuildInv'
<1> DEFINE o == Doing(t)
           found == dependencies[o.original]
           w == work[t]
<1>1. /\ w # <<>> /\ o.op = "override" /\ UNCHANGED <<registry, injected>>
  BY DEF LookUpOriginal, In
<1>2. o \in Override /\ OverrideOK(dependencies, o)
  BY <1>1, Innermost, Operation DEF ActivationOK
<1>3. StackOK(dependencies, w) /\ w \in Seq(Activation) /\ o = w[Len(w)] /\ Len(w) \in Nat \ {0}
  BY <1>1, Innermost
<1>4. o.original \in Callables /\ o.override \in Callables
  BY <1>2 DEF Override
\* What is then on the stack, when c is what override() has become and b is built.
<1>5. ASSUME NEW c \in Override, NEW s \in Serializers, NEW f \in Callables,
             c.original = o.original, c.override = o.override,
             OverrideOK(dependencies, c), Called(c, Root(f, s, FALSE))
      PROVE  StackOK(dependencies, Append([w EXCEPT ![Len(w)] = c], Root(f, s, FALSE)))
  <2> DEFINE v == [w EXCEPT ![Len(w)] = c]
  <2>1. c.op = "override" /\ c \in Activation /\ ActivationOK(dependencies, c)
    BY <1>5 DEF Override, Activation, ActivationOK
  <2>2. StackOK(dependencies, v) /\ v # <<>> /\ v[Len(v)] = c
    BY <1>1, <1>3, <1>5, <2>1, ReplaceOK
  <2>3. Root(f, s, FALSE) \in Activation /\ ActivationOK(dependencies, Root(f, s, FALSE))
    BY <1>5, RootOK DEF Activation
  <2> HIDE DEF v
  <2>4. StackOK(dependencies, Append(v, Root(f, s, FALSE)))
    BY <1>5, <2>2, <2>3, AppendOK
  <2> QED
    BY <2>4 DEF v
<1>6. CASE found # NoModel
  <2> DEFINE c == [o EXCEPT !.step = "override", !.serializer = found.serializer]
  <2>1. found \in CallModel
    BY <1>4, <1>6 DEF BuildInv, ProviderTypeOK, Dict
  <2>2. found.serializer \in Serializers
    BY <2>1 DEF CallModel
  <2>3. /\ c \in Override /\ c.step = "override" /\ c.op = "override"
        /\ c.original = o.original /\ c.override = o.override
    BY <1>2, <2>2 DEF Override
  <2>4. OverrideOK(dependencies, c)
    BY <1>2, <1>6, <2>3 DEF OverrideOK
  <2>5. Called(c, Root(o.override, found.serializer, FALSE))
    BY <2>3 DEF Called, Root
  <2>6. [Become(t, "override") EXCEPT ![Len(work[t])].serializer = found.serializer]
            = [w EXCEPT ![Len(w)] = c]
    BY <1>3 DEF Become
  <2>7. StackOK(dependencies, Append([w EXCEPT ![Len(w)] = c],
                                     Root(o.override, found.serializer, FALSE)))
    BY <1>4, <1>5, <2>2, <2>3, <2>4, <2>5
  <2>8. work' = [work EXCEPT ![t] = Append([w EXCEPT ![Len(w)] = c],
                                           Root(o.override, found.serializer, FALSE))]
    BY <1>6, <2>6 DEF LookUpOriginal, Push
  <2> QED
    BY <1>1, <2>7, <2>8, OneThinks
<1>7. CASE found = NoModel
  <2> DEFINE c == [o EXCEPT !.step = "original"]
  <2>1. NoSerializer \in Serializers
    BY DeclAssumption DEF DeclarationsAssumption
  <2>2. /\ c \in Override /\ c.step = "original" /\ c.op = "override"
        /\ c.original = o.original /\ c.override = o.override
    BY <1>2 DEF Override
  <2>3. OverrideOK(dependencies, c)
    BY <1>2, <2>2 DEF OverrideOK
  <2>4. Called(c, Root(o.original, NoSerializer, FALSE))
    BY <2>2 DEF Called, Root
  <2>5. Become(t, "original") = [w EXCEPT ![Len(w)] = c]
    BY <1>3 DEF Become
  <2>6. StackOK(dependencies, Append([w EXCEPT ![Len(w)] = c],
                                     Root(o.original, NoSerializer, FALSE)))
    BY <1>4, <1>5, <2>1, <2>2, <2>3, <2>4
  <2>7. work' = [work EXCEPT ![t] = Append([w EXCEPT ![Len(w)] = c],
                                           Root(o.original, NoSerializer, FALSE))]
    BY <1>7, <2>5 DEF LookUpOriginal, Push
  <2> QED
    BY <1>1, <2>6, <2>7, OneThinks
<1> QED
  BY <1>6, <1>7

\* What both writes of override() share: the build within it is complete and solvable.
LEMMA Overridden ==
    ASSUME BuildInv, NEW t \in Threads, Complete(t), Len(work[t]) > 1,
           Within(t).op = "override"
    PROVE  LET b == Doing(t)  o == Within(t)  w == Front(work[t])
           IN  /\ b \in Build /\ Model(b) \in CallModel /\ Built(dependencies, Model(b))
               /\ o \in Override /\ OverrideOK(dependencies, o) /\ Called(o, b)
               /\ StackOK(dependencies, w) /\ w # <<>> /\ o = w[Len(w)]
<1>1. /\ work[t] # <<>> /\ Doing(t) \in Build /\ Model(Doing(t)) \in CallModel
      /\ Built(dependencies, Model(Doing(t)))
  BY Completed
<1> QED
  BY <1>1, CalledFrom, Operation DEF ActivationOK

\* The original nobody declared is registered; the overriding callable is next.
LEMMA StoreOriginalStep ==
    ASSUME BuildInv, NEW t \in Threads, StoreOriginal(t)
    PROVE  [ProviderNext]_registry /\ BuildInv'
<1> DEFINE b == Doing(t)
           o == Within(t)
           w == Front(work[t])
           c == [o EXCEPT !.step = "override"]
           r == Root(o.override, NoSerializer, FALSE)
<1>1. /\ Complete(t) /\ Len(work[t]) > 1 /\ o.op = "override" /\ o.step = "original"
      /\ dependencies' = [dependencies EXCEPT ![o.original] = Model(b)]
      /\ work' = [work EXCEPT ![t] = Append(Resume(w, "override"), r)]
      /\ overrides' = overrides /\ injected' = injected
  BY DEF StoreOriginal, Push
<1>2. /\ b \in Build /\ Model(b) \in CallModel /\ Built(dependencies, Model(b))
      /\ o \in Override /\ OverrideOK(dependencies, o) /\ Called(o, b)
      /\ StackOK(dependencies, w) /\ w # <<>> /\ o = w[Len(w)]
  BY <1>1, Overridden
<1>3. o.original \in Callables /\ o.override \in Callables
  BY <1>2 DEF Override
<1>4. Model(b) = [call |-> Unwrap[o.original], use_cache |-> TRUE,
                  serializer |-> NoSerializer, provider |-> Shared]
  <2>1. b.call = Unwrap[o.original] /\ b.use_cache /\ b.serializer = NoSerializer
    BY <1>1, <1>2 DEF Called
  <2>2. b.use_cache = TRUE
    BY <1>2, <2>1 DEF Build
  <2> QED
    BY <2>1, <2>2 DEF Model
<1>5. RegisterOriginal(o.original)
  BY <1>1, <1>2, <1>4 DEF RegisterOriginal
<1>6. ProviderNext
  BY <1>3, <1>5 DEF ProviderNext
<1>7. dependencies'[o.original] # NoModel
  BY <1>1, <1>2, <1>3, NoModelAssumption DEF BuildInv, ProviderTypeOK, Dict
<1>8. StackOK(dependencies', w)
  <2>1. \A k \in Callables : dependencies[k] # NoModel => dependencies'[k] # NoModel
    BY <1>6, RegisteredStays DEF BuildInv
  <2> QED
    BY <1>2, <2>1, StackStays
<1>9. /\ c \in Override /\ c.op = "override" /\ c.step = "override"
      /\ c.original = o.original /\ c.override = o.override
  BY <1>2 DEF Override
<1>10. ActivationOK(dependencies', c)
  BY <1>2, <1>7, <1>9 DEF ActivationOK, OverrideOK
<1>11. Resume(w, "override") = [w EXCEPT ![Len(w)] = c]
  BY <1>2, SetStep DEF Resume, StackOK
<1>12. /\ StackOK(dependencies', Resume(w, "override"))
       /\ Resume(w, "override") # <<>>
       /\ Resume(w, "override")[Len(Resume(w, "override"))] = c
  <2>1. c \in Activation /\ c.op = o.op
    BY <1>1, <1>9 DEF Activation
  <2> HIDE DEF c, w
  <2> QED
    BY <1>2, <1>8, <1>9, <1>10, <1>11, <2>1, ReplaceOK
<1>13. r \in Activation /\ ActivationOK(dependencies', r) /\ Called(c, r)
  <2>1. NoSerializer \in Serializers
    BY DeclAssumption DEF DeclarationsAssumption
  <2>2. r \in Build /\ ActivationOK(dependencies', r)
    BY <1>3, <2>1, RootOK
  <2> QED
    BY <1>9, <2>2 DEF Called, Root, Activation
<1>14. StackOK(dependencies', Append(Resume(w, "override"), r))
  <2> HIDE DEF c, r, w
  <2> QED
    BY <1>12, <1>13, AppendOK
<1> QED
  BY <1>1, <1>6, <1>14, OneBuilds

\* The override serves its original, which is registered, and can be solved.
LEMMA StoreOverrideStep ==
    ASSUME BuildInv, NEW t \in Threads, StoreOverride(t)
    PROVE  [ProviderNext]_registry /\ BuildInv'
<1> DEFINE b == Doing(t)
           o == Within(t)
           w == Front(work[t])
<1>1. /\ Complete(t) /\ Len(work[t]) > 1 /\ o.op = "override" /\ o.step = "override"
      /\ overrides' = [overrides EXCEPT ![o.original] = Model(b)]
      /\ work' = [work EXCEPT ![t] = Front(w)]
      /\ dependencies' = dependencies /\ injected' = injected
  BY DEF StoreOverride
<1>2. /\ b \in Build /\ Built(dependencies, Model(b))
      /\ o \in Override /\ OverrideOK(dependencies, o) /\ Called(o, b)
      /\ StackOK(dependencies, w) /\ w # <<>>
  BY <1>1, Overridden
<1>3. o.original \in Callables /\ b.serializer \in Serializers
  BY <1>2 DEF Override, Build
<1>4. PICK f \in Overriders[o.original] : Unwrap[f] = Unwrap[o.override]
  BY <1>2 DEF OverrideOK
<1>5. dependencies[o.original] # NoModel
  BY <1>1, <1>2 DEF OverrideOK
<1>6. Model(b) = [call |-> Unwrap[f], use_cache |-> TRUE,
                  serializer |-> b.serializer, provider |-> Shared]
  <2>1. b.call = Unwrap[f] /\ b.use_cache
    BY <1>1, <1>2, <1>4 DEF Called
  <2>2. b.use_cache = TRUE
    BY <1>2, <2>1 DEF Build
  <2> QED
    BY <2>1, <2>2 DEF Model
<1>7. SetOverride(o.original, f, b.serializer)
  BY <1>1, <1>2, <1>5, <1>6 DEF SetOverride
<1>8. ProviderNext
  BY <1>3, <1>7 DEF ProviderNext
<1>9. StackOK(dependencies', Front(w))
  BY <1>1, <1>2, FrontOK
<1> QED
  BY <1>1, <1>8, <1>9, OneBuilds

-----------------------------------------------------------------------------

\* Every step of every thread.
LEMMA BuilderStep ==
    ASSUME BuildInv, [BuildNext]_buildVars
    PROVE  [ProviderNext]_registry /\ BuildInv'
<1>1. ASSUME NEW t \in Threads, Inject(t) \/ CallOverride(t) \/ Drop(t) \/ Continue(t)
      PROVE  [ProviderNext]_registry /\ BuildInv'
  BY <1>1, InjectStep, CallOverrideStep, DropStep, BuildDependencyStep, RegisterStep,
     RebuildStep, CheckStep, InjectReturnsStep, LookUpOriginalStep, StoreOriginalStep,
     StoreOverrideStep DEF Continue
<1>2. CASE UNCHANGED buildVars
  <2>1. UNCHANGED registry /\ dependencies' = dependencies /\ work' = work /\ injected' = injected
    BY <1>2 DEF buildVars, registry
  <2> QED
    BY <1>2, <2>1 DEF BuildInv, SyncAllTheWay, ProviderTypeOK, buildVars, registry
<1> QED
  BY <1>1, <1>2 DEF BuildNext

\* Nothing is registered and nothing is under way.
LEMMA BuilderInit == BuildInit => BuildInv
<1>1. StackOK(Absentees, <<>>)
  BY EmptySeq DEF StackOK
<1> QED
  BY <1>1 DEF BuildInit, BuildInv, ProviderInit, ProviderTypeOK, Dict, Absentees, SyncAllTheWay

\* What every activation of every thread has gone through is registered.
THEOREM BuilderInvariant == BuilderSpec => []BuildInv
<1>1. BuildInv /\ [BuildNext]_buildVars => BuildInv'
  BY BuilderStep
<1> QED
  BY <1>1, BuilderInit, PTL DEF BuilderSpec

\* Whatever inject(), override() and clear() do, in any number of threads, each write
\* to the dictionaries is one ProviderSpec allows (provider.py:47-66, builder.py:156-180).
THEOREM BuilderImplementsProvider == BuilderSpec => ProviderSpec
<1>1. BuildInit => ProviderInit
  BY DEF BuildInit
<1>2. BuildInv /\ [BuildNext]_buildVars => [ProviderNext]_registry
  BY BuilderStep
<1> QED
  BY <1>1, <1>2, BuilderInvariant, PTL DEF BuilderSpec, ProviderSpec

\* No read of get_dependant() finds its key missing while others build (provider.py:39-40).
THEOREM BuilderClosed == BuilderSpec => []Closed
BY BuilderImplementsProvider, RegistryClosed, PTL

\* No build and no clear() unregisters what was registered (provider.py:28-37).
THEOREM BuilderForgetsNothing == BuilderSpec => NothingForgotten
BY BuilderImplementsProvider, KeysStay, PTL

\* A function injected as synchronous declares nothing asynchronous at any depth,
\* though the assertion looks at one call at a time (builder.py:59-65, 160).
THEOREM SyncCorrect == BuilderSpec => []SyncAllTheWay
<1>1. BuildInv => SyncAllTheWay
  BY DEF BuildInv
<1> QED
  BY <1>1, BuilderInvariant, PTL

-----------------------------------------------------------------------------
(* One thread at a time: everything under way is built for one serializer.  *)

DeclaredKey(a) == Key(Declared(a)[a.next])

BuiltFor(dict, s, k) == dict[k] # NoModel /\ dict[k].serializer = s

ActivationFor(dict, s, a) ==
    /\ a.op = "build" =>
          /\ a.serializer = s
          /\ a.step # "build" => BuiltFor(dict, s, DeclaredKey(a))
    /\ a.op = "override" /\ a.step = "original" => s = NoSerializer

\* A parameter about to be checked has been rebuilt; only such a one calls override().
InnermostFor(dict, over, s, a, depth) ==
    /\ a.op = "build" /\ a.step = "check" /\ a.next <= Len(Depends[a.call]) =>
          over[DeclaredKey(a)] = NoModel \/ over[DeclaredKey(a)].serializer = s
    /\ a.op = "override" /\ a.step = "look" /\ depth > 1 => BuiltFor(dict, s, a.original)

AllFor(dict, s, w) == \A n \in 1 .. Len(w) : ActivationFor(dict, s, w[n])

StackFor(dict, over, s, w) ==
    /\ AllFor(dict, s, w)
    /\ w # <<>> => InnermostFor(dict, over, s, w[Len(w)], Len(w))

SerializerInv ==
    \A t \in Threads : \E s \in Serializers : StackFor(dependencies, overrides, s, work[t])

\* A build that is given nothing but its first step fits any stack for its serializer.
LEMMA PushFor ==
    ASSUME NEW w \in Seq(Activation), NEW a \in Activation, NEW dict, NEW over, NEW s,
           AllFor(dict, s, w), ActivationFor(dict, s, a),
           InnermostFor(dict, over, s, a, Len(w) + 1)
    PROVE  StackFor(dict, over, s, Append(w, a))
<1> DEFINE v == Append(w, a)
<1>1. /\ Len(w) \in Nat /\ Len(v) = Len(w) + 1
      /\ \A n \in 1 .. Len(w) : v[n] = w[n]
      /\ v[Len(w) + 1] = a
  OBVIOUS
<1> HIDE DEF v
<1>2. AllFor(dict, s, v)
  BY <1>1 DEF AllFor
<1>3. InnermostFor(dict, over, s, v[Len(v)], Len(v))
  BY <1>1
<1> QED
  BY <1>2, <1>3 DEF StackFor, v

\* The same for the innermost activation replaced.
LEMMA ReplaceFor ==
    ASSUME NEW w \in Seq(Activation), w # <<>>, NEW a \in Activation, NEW dict, NEW s,
           AllFor(dict, s, w), ActivationFor(dict, s, a)
    PROVE  /\ AllFor(dict, s, [w EXCEPT ![Len(w)] = a])
           /\ [w EXCEPT ![Len(w)] = a] \in Seq(Activation)
           /\ Len([w EXCEPT ![Len(w)] = a]) = Len(w)
           /\ [w EXCEPT ![Len(w)] = a][Len(w)] = a
<1> DEFINE v == [w EXCEPT ![Len(w)] = a]
<1>1. Len(w) \in Nat \ {0}
  BY EmptySeq
<1>2. /\ v \in Seq(Activation) /\ Len(v) = Len(w)
      /\ \A n \in 1 .. Len(w) : v[n] = IF n = Len(w) THEN a ELSE w[n]
  BY <1>1
<1> HIDE DEF v
<1>3. AllFor(dict, s, v)
  BY <1>1, <1>2 DEF AllFor
<1>4. v[Len(w)] = a
  BY <1>1, <1>2
<1> QED
  BY <1>2, <1>3, <1>4 DEF v

\* What is stored for the same serializer disturbs no activation.
LEMMA ForStays ==
    ASSUME NEW dict, NEW more, NEW s, NEW w, StackOK(dict, w), AllFor(dict, s, w),
           \A k \in Callables : more[k] = dict[k] \/ BuiltFor(more, s, k)
    PROVE  AllFor(more, s, w)
<1>1. SUFFICES ASSUME NEW n \in 1 .. Len(w), w[n].op = "build", w[n].step # "build"
               PROVE  BuiltFor(more, s, DeclaredKey(w[n]))
  BY <1>1 DEF AllFor, ActivationFor
<1>2. w[n] \in Activation /\ ActivationOK(dict, w[n]) /\ ActivationFor(dict, s, w[n])
  BY ElementOfSeq DEF StackOK, AllFor
<1>3. w[n] \in Build /\ BuildOK(dict, w[n])
  BY <1>1, <1>2, Operation DEF ActivationOK
<1>4. DeclaredKey(w[n]) \in Callables
  BY <1>1, <1>3, DeclaredType DEF BuildOK, DeclaredKey
<1> QED
  BY <1>1, <1>2, <1>4 DEF ActivationFor, BuiltFor

OneThread == \A t, u \in Threads : t = u

\* The only stack there is.
LEMMA TheOneMoves ==
    ASSUME OneThread, BuildInv, NEW t \in Threads, NEW w, work' = [work EXCEPT ![t] = w],
           NEW s \in Serializers, StackFor(dependencies', overrides', s, w)
    PROVE  SerializerInv'
<1>1. work'[t] = w
  BY DEF BuildInv
<1>2. \A u \in Threads : u = t
  BY DEF OneThread
<1> QED
  BY <1>1, <1>2 DEF SerializerInv

\* The empty stack is built for any serializer.
LEMMA NothingFor == ASSUME NEW dict, NEW over, NEW s PROVE StackFor(dict, over, s, <<>>)
BY EmptySeq DEF StackFor, AllFor

\* A first activation is.
LEMMA RootFor ==
    ASSUME NEW f, NEW s, NEW main, NEW dict, NEW over, NEW n
    PROVE  /\ ActivationFor(dict, s, Root(f, s, main))
           /\ InnermostFor(dict, over, s, Root(f, s, main), n)
BY DEF Root, ActivationFor, InnermostFor

\* The calls of a thread that does nothing.
LEMMA CallsFor ==
    ASSUME OneThread, BuildInv, NEW t \in Threads,
           Inject(t) \/ CallOverride(t) \/ Drop(t) \/ Raise(t) \/ InjectReturns(t)
    PROVE  SerializerInv'
<1>0. NoSerializer \in Serializers /\ StackOK(dependencies, <<>>) /\ <<>> \in Seq(Activation)
  BY DeclAssumption, EmptySeq DEF DeclarationsAssumption, StackOK
<1>1. CASE Inject(t)
  <2>1. PICK f \in Decorated, s \in Serializers : Push(t, <<>>, Root(f, s, TRUE))
    BY <1>1 DEF Inject
  <2>2. Root(f, s, TRUE) \in Activation
    BY AsyncAssumption, RootOK DEF Activation
  <2>3. StackFor(dependencies', overrides', s, Append(<<>>, Root(f, s, TRUE)))
    BY <1>0, <2>2, RootFor, NothingFor, PushFor DEF StackFor
  <2> QED
    BY <2>1, <2>3, TheOneMoves DEF Push
<1>2. CASE CallOverride(t)
  <2>1. PICK k \in Callables : \E o \in Overriders[k] : Push(t, <<>>, Overriding(k, o))
    BY <1>2 DEF CallOverride
  <2>2. PICK o \in Overriders[k] : Push(t, <<>>, Overriding(k, o))
    BY <2>1
  <2>3. Overriding(k, o) \in Activation
    BY DeclAssumption DEF DeclarationsAssumption, Overriding, Activation, Override
  <2>4. /\ ActivationFor(dependencies', NoSerializer, Overriding(k, o))
        /\ InnermostFor(dependencies', overrides', NoSerializer, Overriding(k, o), Len(<<>>) + 1)
    BY EmptySeq DEF ActivationFor, InnermostFor, Overriding
  <2>5. StackFor(dependencies', overrides', NoSerializer, Append(<<>>, Overriding(k, o)))
    BY <1>0, <2>3, <2>4, NothingFor, PushFor DEF StackFor
  <2> QED
    BY <1>0, <2>2, <2>5, TheOneMoves DEF Push
<1>3. CASE Drop(t)
  <2>1. \A u \in Threads : work'[u] = <<>>
    BY <1>3 DEF Drop, OneThread
  <2>2. StackFor(dependencies', overrides', NoSerializer, <<>>)
    BY NothingFor
  <2> QED
    BY <1>0, <2>1, <2>2 DEF SerializerInv
<1>4. CASE Raise(t) \/ InjectReturns(t)
  BY <1>0, <1>4, NothingFor, TheOneMoves DEF Raise, InjectReturns
<1> QED
  BY <1>1, <1>2, <1>3, <1>4

\* The steps of build_call_model(): the dependency just registered was built for the
\* serializer of the build, and so is its override by the time it is checked.
LEMMA BuildFor ==
    ASSUME OneThread, BuildInv, SerializerInv, NEW t \in Threads,
           BuildDependency(t) \/ Register(t) \/ Rebuild(t) \/ Check(t)
    PROVE  SerializerInv'
<1> DEFINE b == Doing(t)
           w == work[t]
<1>1. PICK s \in Serializers : StackFor(dependencies, overrides, s, w)
  BY DEF SerializerInv
<1>2. /\ w # <<>> /\ b.op = "build"
      /\ StackOK(dependencies, w) /\ w \in Seq(Activation) /\ Len(w) \in Nat \ {0}
      /\ b = w[Len(w)] /\ b \in Build /\ ActivationOK(dependencies, b)
  <2>1. w # <<>> /\ b.op = "build"
    BY DEF BuildDependency, Register, Complete, Rebuild, Check, In
  <2> QED
    BY <2>1, Innermost, Operation
<1>3. /\ AllFor(dependencies, s, w) /\ ActivationFor(dependencies, s, b) /\ b.serializer = s
      /\ InnermostFor(dependencies, overrides, s, b, Len(w))
  BY <1>1, <1>2 DEF StackFor, AllFor, ActivationFor
<1>4. CASE BuildDependency(t)
  <2> DEFINE c == Child(b, Declared(b)[b.next])
  <2>1. CASE Refused(c)
    BY <1>4, <2>1, CallsFor DEF BuildDependency, Declaration
  <2>2. CASE ~Refused(c)
    <3>1. /\ work' = [work EXCEPT ![t] = Append(w, c)]
          /\ dependencies' = dependencies /\ overrides' = overrides
      BY <1>4, <2>2 DEF BuildDependency, Declaration, Push, registry
    <3>2. b.next \in DOMAIN Declared(b) /\ b.step = "build"
      BY <1>2, <1>4, DeclaredType DEF BuildDependency, In, Build
    <3>3. c \in Activation
      BY <1>2, <2>2, <3>2, ChildOK DEF Activation
    <3>4. c.op = "build" /\ c.step = "build" /\ c.serializer = s
      BY <1>3 DEF Child
    <3>5. /\ ActivationFor(dependencies, s, c)
          /\ InnermostFor(dependencies, overrides, s, c, Len(w) + 1)
      BY <3>4 DEF ActivationFor, InnermostFor
    <3>6. StackFor(dependencies, overrides, s, Append(w, c))
      <4> HIDE DEF c
      <4> QED
        BY <1>2, <1>3, <3>3, <3>5, PushFor
    <3> QED
      BY <3>1, <3>6, TheOneMoves
  <2> QED
    BY <2>1, <2>2
<1>5. CASE Register(t)
  <2> DEFINE v == Front(w)
             a == Within(t)
             c == [a EXCEPT !.step = "registered"]
  <2>1. /\ Len(w) > 1 /\ a.op = "build"
        /\ dependencies' = [dependencies EXCEPT ![b.call] = Model(b)]
        /\ work' = [work EXCEPT ![t] = Resume(v, "registered")]
    BY <1>5 DEF Register
  <2>2. /\ StackOK(dependencies, v) /\ v # <<>> /\ a = v[Len(v)] /\ v \in Seq(Activation)
        /\ Len(v) = Len(w) - 1 /\ a \in Build /\ Called(a, b)
    BY <1>2, <2>1, CalledFrom, Operation DEF StackOK
  <2>3. /\ Model(b) \in CallModel /\ Model(b).serializer = s /\ b.call \in Callables
    BY <1>2, <1>3, <1>5, Completed DEF Register, Model, Build
  <2>4. /\ \A k \in Callables : dependencies'[k] = dependencies[k] \/ BuiltFor(dependencies', s, k)
        /\ BuiltFor(dependencies', s, b.call)
    BY <2>1, <2>3, NoModelAssumption DEF BuiltFor, BuildInv, ProviderTypeOK, Dict
  <2>5. AllFor(dependencies, s, v)
    <3>1. Len(v) = Len(w) - 1 /\ \A n \in 1 .. Len(w) - 1 : v[n] = w[n]
      BY <1>2, FrontOK
    <3> HIDE DEF v
    <3>2. \A n \in 1 .. Len(v) : n \in 1 .. Len(w) /\ v[n] = w[n]
      BY <1>2, <3>1
    <3> QED
      BY <1>3, <3>2 DEF AllFor
  <2>6. AllFor(dependencies', s, v)
    BY <2>2, <2>4, <2>5, ForStays
  <2>7. /\ c \in Activation /\ c.op = "build" /\ c.step = "registered"
        /\ c.serializer = a.serializer /\ DeclaredKey(c) = DeclaredKey(a)
    <3>1. /\ c \in Build /\ c.op = "build" /\ c.step = "registered" /\ c.call = a.call
          /\ c.serializer = a.serializer /\ c.main = a.main /\ c.next = a.next
      <4>1. a \in Build
        BY <2>2
      <4> HIDE DEF a
      <4> QED
        BY <4>1 DEF Build
    <3> HIDE DEF a, c
    <3> QED
      BY <3>1 DEF Activation, DeclaredKey, Declared
  <2>8. DeclaredKey(a) = b.call /\ a.serializer = s
    <3>1. DeclaredKey(a) = b.call
      BY <1>2, <2>1, <2>2 DEF Called, DeclaredKey
    <3>2. Len(v) \in 1 .. Len(v)
      BY <2>2, EmptySeq
    <3> QED
      BY <2>1, <2>2, <2>5, <3>1, <3>2 DEF AllFor, ActivationFor
  <2>9. /\ ActivationFor(dependencies', s, c)
        /\ InnermostFor(dependencies', overrides', s, c, Len(v))
    BY <2>4, <2>7, <2>8 DEF ActivationFor, InnermostFor
  <2>10. Resume(v, "registered") = [v EXCEPT ![Len(v)] = c]
    BY <2>2, SetStep DEF Resume
  <2>11. StackFor(dependencies', overrides', s, Resume(v, "registered"))
    <3> HIDE DEF c, v
    <3> QED
      BY <2>2, <2>6, <2>7, <2>9, <2>10, ReplaceFor DEF StackFor
  <2> QED
    BY <2>1, <2>11, TheOneMoves
\* What Rebuild and Check have in common: where the build stands.
<1>6. ASSUME b.step # "build"
      PROVE  /\ BuiltFor(dependencies, s, DeclaredKey(b)) /\ DeclaredKey(b) \in Callables
             /\ b.next \in DOMAIN Declared(b) /\ b.next \in Nat
  <2>1. BuildOK(dependencies, b)
    BY <1>2 DEF ActivationOK
  <2> QED
    BY <1>2, <1>3, <1>6, <2>1, DeclaredType DEF ActivationFor, BuildOK, DeclaredKey, Build
<1>7. CASE Rebuild(t)
  <2> DEFINE k == DeclaredKey(b)
             o == Overriding(k, overrides[k].call)
             c == [b EXCEPT !.step = "check"]
             v == [w EXCEPT ![Len(w)] = c]
             stale == /\ b.next <= Len(Depends[b.call])
                      /\ overrides[k] # NoModel
                      /\ overrides[k].serializer # s
  <2>1. /\ b.step # "build" /\ dependencies' = dependencies /\ overrides' = overrides
        /\ work' = [work EXCEPT ![t] = IF stale THEN Append(Become(t, "check"), o)
                                                ELSE Become(t, "check")]
    BY <1>3, <1>7 DEF Rebuild, In, Push, registry, DeclaredKey, Declaration
  <2>2. Become(t, "check") = v
    BY <1>2, SetStep DEF Become
  <2>3. /\ c \in Activation /\ c.op = "build" /\ c.serializer = s /\ c.step = "check"
        /\ c.call = b.call /\ c.next = b.next /\ DeclaredKey(c) = k
    BY <1>2, <1>3 DEF Build, Activation, DeclaredKey, Declared
  <2>4. ActivationFor(dependencies, s, c)
    BY <1>6, <2>1, <2>3 DEF ActivationFor
  <2>5. /\ AllFor(dependencies, s, v) /\ v \in Seq(Activation)
        /\ Len(v) = Len(w) /\ v[Len(w)] = c /\ v # <<>>
    <3> HIDE DEF c
    <3>1. /\ AllFor(dependencies, s, v) /\ v \in Seq(Activation)
          /\ Len(v) = Len(w) /\ v[Len(w)] = c
      BY <1>2, <1>3, <2>3, <2>4, ReplaceFor
    <3> QED
      BY <1>2, <3>1, EmptySeq
  <2> HIDE DEF c, v, o
  <2>6. CASE stale
    <3>1. overrides[k].call \in Callables
      BY <1>6, <2>1, <2>6 DEF BuildInv, ProviderTypeOK, Dict, CallModel
    <3>2. o \in Activation /\ o.op = "override" /\ o.step = "look" /\ o.original = k
      BY <1>6, <2>1, <3>1, DeclAssumption
      DEF o, Overriding, Activation, Override, DeclarationsAssumption
    <3>3. /\ ActivationFor(dependencies, s, o)
          /\ InnermostFor(dependencies, overrides, s, o, Len(v) + 1)
      BY <1>6, <2>1, <3>2 DEF ActivationFor, InnermostFor
    <3>4. StackFor(dependencies, overrides, s, Append(v, o))
      BY <2>5, <3>2, <3>3, PushFor
    <3>5. work' = [work EXCEPT ![t] = Append(v, o)]
      BY <2>1, <2>2, <2>6
    <3> QED
      BY <2>1, <3>4, <3>5, TheOneMoves
  <2>7. CASE ~stale
    <3>1. InnermostFor(dependencies, overrides, s, c, Len(v))
      BY <2>3, <2>7 DEF InnermostFor
    <3>2. StackFor(dependencies, overrides, s, v)
      BY <2>5, <3>1 DEF StackFor
    <3>3. work' = [work EXCEPT ![t] = v]
      BY <2>1, <2>2, <2>7
    <3> QED
      BY <2>1, <3>2, <3>3, TheOneMoves
  <2> QED
    BY <2>6, <2>7
<1>8. CASE Check(t)
  <2> DEFINE c == [b EXCEPT !.step = "build", !.next = @ + 1]
             v == [w EXCEPT ![Len(w)] = c]
  <2>1. CASE Raise(t)
    BY <2>1, CallsFor
  <2>2. CASE ~Raise(t)
    <3>1. /\ b.step # "build" /\ dependencies' = dependencies /\ overrides' = overrides
          /\ work' = [work EXCEPT ![t] = v]
      BY <1>8, <2>2 DEF Check, In, registry
    <3>2. b.next + 1 \in Nat \ {0}
      BY <1>6, <3>1
    <3>3. /\ c \in Activation /\ c.op = "build" /\ c.serializer = s /\ c.step = "build"
      BY <1>2, <1>3, <3>2 DEF Build, Activation
    <3> HIDE DEF c
    <3>4. /\ ActivationFor(dependencies, s, c)
          /\ InnermostFor(dependencies, overrides, s, c, Len(v))
      BY <3>3 DEF ActivationFor, InnermostFor
    <3>5. /\ AllFor(dependencies, s, v) /\ Len(v) = Len(w) /\ v[Len(w)] = c
      BY <1>2, <1>3, <3>3, <3>4, ReplaceFor
    <3>6. StackFor(dependencies, overrides, s, v)
      BY <3>4, <3>5 DEF StackFor
    <3> QED
      BY <3>1, <3>6, TheOneMoves
  <2> QED
    BY <2>1, <2>2
<1> QED
  BY <1>4, <1>5, <1>7, <1>8

\* The steps of override(): what the original was built for is what the override is
\* built for, and a build that called override() finds its own serializer there.
LEMMA OverrideFor ==
    ASSUME OneThread, BuildInv, SerializerInv, NEW t \in Threads,
           LookUpOriginal(t) \/ StoreOriginal(t) \/ StoreOverride(t)
    PROVE  SerializerInv'
<1> DEFINE b == Doing(t)
           w == work[t]
<1>0. NoSerializer \in Serializers
  BY DeclAssumption DEF DeclarationsAssumption
<1>1. PICK s \in Serializers : StackFor(dependencies, overrides, s, w)
  BY DEF SerializerInv
<1>2. /\ w # <<>> /\ StackOK(dependencies, w) /\ w \in Seq(Activation) /\ Len(w) \in Nat \ {0}
      /\ b = w[Len(w)] /\ b \in Activation
  <2>1. w # <<>>
    BY DEF LookUpOriginal, StoreOriginal, StoreOverride, Complete, In
  <2> QED
    BY <2>1, Innermost
<1>3. /\ AllFor(dependencies, s, w) /\ ActivationFor(dependencies, s, b)
      /\ InnermostFor(dependencies, overrides, s, b, Len(w))
  BY <1>1, <1>2 DEF StackFor, AllFor
\* What is then on the stack, when c is what override() has become and f is built.
<1>4. ASSUME NEW dict, NEW x \in Serializers, NEW f \in Callables,
             NEW v \in Seq(Activation), v # <<>>, NEW c \in Override,
             AllFor(dict, x, v), c.step = "original" => x = NoSerializer
      PROVE  StackFor(dict, overrides, x, Append([v EXCEPT ![Len(v)] = c], Root(f, x, FALSE)))
  <2>1. c \in Activation /\ ActivationFor(dict, x, c)
    BY <1>4 DEF Override, Activation, ActivationFor
  <2>2. Root(f, x, FALSE) \in Activation
    BY <1>4, RootOK DEF Activation
  <2> DEFINE u == [v EXCEPT ![Len(v)] = c]
  <2>3. AllFor(dict, x, u) /\ u \in Seq(Activation)
    BY <1>4, <2>1, ReplaceFor
  <2> HIDE DEF u
  <2>4. StackFor(dict, overrides, x, Append(u, Root(f, x, FALSE)))
    BY <2>2, <2>3, RootFor, PushFor
  <2> QED
    BY <2>4 DEF u
<1>5. CASE LookUpOriginal(t)
  <2> DEFINE found == dependencies[b.original]
  <2>1. /\ b.op = "override" /\ b.step = "look"
        /\ dependencies' = dependencies /\ overrides' = overrides
    BY <1>5 DEF LookUpOriginal, In, registry
  <2>2. b \in Override /\ b.original \in Callables /\ b.override \in Callables
    BY <1>2, <2>1, Operation DEF Override
  <2>3. ASSUME NEW x, Len(w) # 1 => x = s PROVE AllFor(dependencies, x, w)
    <3>1. Len(w) = 1 => \A n \in 1 .. Len(w) : w[n] = b
      BY <1>2
    <3> QED
      BY <1>2, <1>3, <2>1, <2>3, <3>1 DEF AllFor, ActivationFor
  <2>4. Len(w) # 1 => found # NoModel /\ found.serializer = s
    <3>1. Len(w) # 1 => Len(w) > 1
      <4>1. \A n \in Nat \ {0} : n # 1 => n > 1
        OBVIOUS
      <4> QED
        BY <1>2, <4>1
    <3> QED
      BY <1>3, <2>1, <3>1 DEF InnermostFor, BuiltFor
  <2>5. CASE found # NoModel
    <3> DEFINE c == [b EXCEPT !.step = "override", !.serializer = found.serializer]
    <3>1. found.serializer \in Serializers
      BY <2>2, <2>5 DEF BuildInv, ProviderTypeOK, Dict, CallModel
    <3>2. c \in Override /\ c.step = "override"
      BY <2>2, <3>1 DEF Override
    <3>3. [Become(t, "override") EXCEPT ![Len(work[t])].serializer = found.serializer]
              = [w EXCEPT ![Len(w)] = c]
      BY <1>2 DEF Become
    <3>4. work' = [work EXCEPT ![t] = Append([w EXCEPT ![Len(w)] = c],
                                             Root(b.override, found.serializer, FALSE))]
      BY <1>5, <2>5, <3>3 DEF LookUpOriginal, Push
    <3>5. AllFor(dependencies, found.serializer, w)
      BY <2>3, <2>4
    <3>6. StackFor(dependencies, overrides, found.serializer,
                   Append([w EXCEPT ![Len(w)] = c], Root(b.override, found.serializer, FALSE)))
      BY <1>2, <1>4, <2>2, <3>1, <3>2, <3>5
    <3> QED
      BY <2>1, <3>1, <3>4, <3>6, TheOneMoves
  <2>6. CASE found = NoModel
    <3> DEFINE c == [b EXCEPT !.step = "original"]
    <3>1. c \in Override
      BY <2>2 DEF Override
    <3>2. Become(t, "original") = [w EXCEPT ![Len(w)] = c]
      BY <1>2 DEF Become
    <3>3. work' = [work EXCEPT ![t] = Append([w EXCEPT ![Len(w)] = c],
                                             Root(b.original, NoSerializer, FALSE))]
      BY <1>5, <2>6, <3>2 DEF LookUpOriginal, Push
    <3>4. AllFor(dependencies, NoSerializer, w)
      BY <2>3, <2>4, <2>6
    <3>5. StackFor(dependencies, overrides, NoSerializer,
                   Append([w EXCEPT ![Len(w)] = c], Root(b.original, NoSerializer, FALSE)))
      BY <1>0, <1>2, <1>4, <2>2, <3>1, <3>4
    <3> QED
      BY <1>0, <2>1, <3>3, <3>5, TheOneMoves
  <2> QED
    BY <2>5, <2>6
<1>6. ASSUME Complete(t), Len(w) > 1, Within(t).op = "override"
      PROVE  LET o == Within(t)  v == Front(w)
             IN  /\ b \in Build /\ b.serializer = s /\ Model(b) \in CallModel
                 /\ o \in Override /\ Called(o, b) /\ ActivationFor(dependencies, s, o)
                 /\ StackOK(dependencies, v) /\ v \in Seq(Activation) /\ v # <<>>
                 /\ o = v[Len(v)] /\ AllFor(dependencies, s, v)
  <2> DEFINE o == Within(t)
             v == Front(w)
  <2>1. /\ b \in Build /\ Model(b) \in CallModel /\ o \in Override /\ Called(o, b)
        /\ StackOK(dependencies, v) /\ v # <<>> /\ o = v[Len(v)]
    BY <1>6, Overridden
  <2>2. v \in Seq(Activation)
    BY <2>1 DEF StackOK
  <2>3. b.serializer = s
    BY <1>3, <2>1 DEF ActivationFor, Build
  <2>4. Len(v) = Len(w) - 1 /\ \A n \in 1 .. Len(w) - 1 : v[n] = w[n]
    BY <1>2, FrontOK
  <2>5. Len(v) \in 1 .. Len(v)
    BY <2>1, <2>2, EmptySeq
  <2> HIDE DEF v, o
  <2>6. \A n \in 1 .. Len(v) : n \in 1 .. Len(w) /\ v[n] = w[n]
    BY <1>2, <2>4
  <2>7. AllFor(dependencies, s, v)
    BY <1>3, <2>6 DEF AllFor
  <2>8. ActivationFor(dependencies, s, o)
    BY <2>1, <2>5, <2>7 DEF AllFor
  <2> QED
    BY <2>1, <2>2, <2>3, <2>7, <2>8 DEF v, o
<1>7. CASE StoreOriginal(t)
  <2> DEFINE o == Within(t)
             v == Front(w)
             c == [o EXCEPT !.step = "override"]
  <2>1. /\ Complete(t) /\ Len(w) > 1 /\ o.op = "override" /\ o.step = "original"
        /\ dependencies' = [dependencies EXCEPT ![o.original] = Model(b)]
        /\ work' = [work EXCEPT ![t] =
                       Append(Resume(v, "override"), Root(o.override, NoSerializer, FALSE))]
        /\ overrides' = overrides
    BY <1>7 DEF StoreOriginal, Push
  <2>2. /\ b \in Build /\ b.serializer = s /\ Model(b) \in CallModel
        /\ o \in Override /\ ActivationFor(dependencies, s, o)
        /\ StackOK(dependencies, v) /\ v \in Seq(Activation) /\ v # <<>>
        /\ o = v[Len(v)] /\ AllFor(dependencies, s, v)
    BY <1>6, <2>1
  <2>3. s = NoSerializer /\ o.original \in Callables /\ o.override \in Callables
    BY <2>1, <2>2 DEF ActivationFor, Override
  <2>4. \A k \in Callables : dependencies'[k] = dependencies[k] \/ BuiltFor(dependencies', s, k)
    BY <2>1, <2>2, <2>3, NoModelAssumption DEF BuiltFor, BuildInv, ProviderTypeOK, Dict, Model
  <2>5. AllFor(dependencies', s, v)
    BY <2>2, <2>4, ForStays
  <2>6. c \in Override /\ c.step = "override"
    BY <2>2 DEF Override
  <2>7. Resume(v, "override") = [v EXCEPT ![Len(v)] = c]
    BY <2>2, SetStep DEF Resume
  <2>8. StackFor(dependencies', overrides, s,
                 Append(Resume(v, "override"), Root(o.override, NoSerializer, FALSE)))
    <3> HIDE DEF c, v
    <3>1. StackFor(dependencies', overrides, s, 
                       Append([v EXCEPT ![Len(v)] = c], Root(o.override, s, FALSE)))
      BY <1>4, <2>2, <2>3, <2>5, <2>6
    <3> QED
      BY <2>3, <2>7, <3>1
  <2> QED
    BY <2>1, <2>8, TheOneMoves
<1>8. CASE StoreOverride(t)
  <2> DEFINE o == Within(t)
             v == Front(w)
             u == Front(v)
             a == u[Len(u)]
  <2>1. /\ Complete(t) /\ Len(w) > 1 /\ o.op = "override" /\ o.step = "override"
        /\ overrides' = [overrides EXCEPT ![o.original] = Model(b)]
        /\ work' = [work EXCEPT ![t] = u] /\ dependencies' = dependencies
    BY <1>8 DEF StoreOverride
  <2>2. /\ b \in Build /\ b.serializer = s
        /\ o \in Override /\ StackOK(dependencies, v) /\ v \in Seq(Activation) /\ v # <<>>
        /\ o = v[Len(v)] /\ AllFor(dependencies, s, v)
    BY <1>6, <2>1
  <2>3. /\ StackOK(dependencies, u) /\ u \in Seq(Activation) /\ Len(u) = Len(v) - 1
        /\ Len(v) \in Nat \ {0} /\ \A n \in 1 .. Len(v) - 1 : u[n] = v[n]
    BY <2>2, FrontOK, EmptySeq DEF StackOK
  <2> HIDE DEF u, v
  <2>4. AllFor(dependencies, s, u)
    <3>1. \A n \in 1 .. Len(u) : n \in 1 .. Len(v) /\ u[n] = v[n]
      BY <2>3
    <3> QED
      BY <2>2, <3>1 DEF AllFor
  <2>5. ASSUME u # <<>> PROVE InnermostFor(dependencies, overrides', s, a, Len(u))
    <3>1. Len(u) \in 1 .. Len(v) - 1 /\ Len(u) + 1 = Len(v)
      BY <2>3, <2>5, EmptySeq
    <3>2. Called(a, o)
      BY <2>2, <2>3, <3>1 DEF StackOK
    <3>3. a.op = "build" /\ a.step = "check" /\ o.original = DeclaredKey(a)
      BY <2>1, <2>2, <3>2 DEF Called, Override, DeclaredKey
    <3>4. overrides'[o.original].serializer = s
      BY <2>1, <2>2 DEF BuildInv, ProviderTypeOK, Dict, Override, Model
    <3> QED
      BY <3>3, <3>4 DEF InnermostFor
  <2>6. StackFor(dependencies', overrides', s, u)
    BY <2>1, <2>4, <2>5 DEF StackFor
  <2> QED
    BY <2>1, <2>6, TheOneMoves
<1> QED
  BY <1>5, <1>7, <1>8

\* Every step of the one thread.
LEMMA SerializerStep ==
    ASSUME OneThread, BuildInv, SerializerInv, [BuildNext]_buildVars
    PROVE  SerializerInv'
<1>1. ASSUME NEW t \in Threads, Inject(t) \/ CallOverride(t) \/ Drop(t) \/ Continue(t)
      PROVE  SerializerInv'
  BY <1>1, CallsFor, BuildFor, OverrideFor DEF Continue
<1>2. CASE UNCHANGED buildVars
  BY <1>2 DEF buildVars, registry, SerializerInv
<1> QED
  BY <1>1, <1>2 DEF BuildNext

-----------------------------------------------------------------------------
(* What a build has gone through is served for its serializer, at every depth. *)

ServedBy(dict, over, s, k) ==
    BuiltFor(dict, s, k) /\ (over[k] = NoModel \/ over[k].serializer = s)

\* The largest set of callables served for s that holds, with one, what its parameters
\* declare.
AllServed(dict, over, s) ==
    UNION {S \in ClosedSets : \A k \in S : ServedBy(dict, over, s, k)}

\* A model that is registered has its parameters behind it; one that is checked has been
\* rebuilt, or is an extra's.
Through(dict, over, a) ==
    \A i \in DOMAIN Declared(a) :
        /\ Behind(a, i) =>
              Uses(Key(Declared(a)[i])) \subseteq AllServed(dict, over, a.serializer)
        /\ i < a.next /\ i <= Len(Depends[a.call]) =>
              Key(Declared(a)[i]) \in AllServed(dict, over, a.serializer)

AllThrough(dict, over, w) ==
    \A n \in 1 .. Len(w) : w[n].op = "build" => Through(dict, over, w[n])

ThroughInv == \A t \in Threads : AllThrough(dependencies, overrides, work[t])

\* The set is closed itself, and what is served and declares members of it is in it.
LEMMA AllServedClosed ==
    ASSUME NEW dict, NEW over, NEW s
    PROVE  /\ AllServed(dict, over, s) \in ClosedSets
           /\ \A k \in AllServed(dict, over, s) : k \in Callables /\ ServedBy(dict, over, s, k)
           /\ \A k \in Callables :
                 ServedBy(dict, over, s, k) /\ Uses(k) \subseteq AllServed(dict, over, s)
                     => k \in AllServed(dict, over, s)
<1> DEFINE A == AllServed(dict, over, s)
<1>1. /\ A \in ClosedSets
      /\ \A k \in A : k \in Callables /\ ServedBy(dict, over, s, k)
  BY DEF AllServed, ClosedSets
<1>2. ASSUME NEW k \in Callables, ServedBy(dict, over, s, k), Uses(k) \subseteq A
      PROVE  k \in A
  <2> DEFINE S == A \cup {k}
  <2>1. S \in ClosedSets
    BY <1>1, <1>2 DEF ClosedSets
  <2>2. \A g \in S : ServedBy(dict, over, s, g)
    BY <1>1, <1>2
  <2> QED
    BY <2>1, <2>2 DEF AllServed
<1> QED
  BY <1>1, <1>2

\* Writes for the same serializer leave what is served for it so.
LEMMA ThroughStays ==
    ASSUME NEW dict, NEW over, NEW more, NEW over2, NEW s,
           \A k \in Callables : more[k] = dict[k] \/ BuiltFor(more, s, k),
           \A k \in Callables : over2[k] = over[k] \/ over2[k].serializer = s
    PROVE  /\ AllServed(dict, over, s) \subseteq AllServed(more, over2, s)
           /\ \A a : a.serializer = s /\ Through(dict, over, a) => Through(more, over2, a)
           /\ \A w : /\ AllThrough(dict, over, w)
                     /\ \A n \in 1 .. Len(w) : w[n].op = "build" => w[n].serializer = s
                     => AllThrough(more, over2, w)
<1>1. ASSUME NEW k \in AllServed(dict, over, s) PROVE ServedBy(more, over2, s, k)
  <2>1. k \in Callables /\ ServedBy(dict, over, s, k)
    BY AllServedClosed
  <2> QED
    BY <2>1 DEF ServedBy, BuiltFor
<1>2. AllServed(dict, over, s) \subseteq AllServed(more, over2, s)
  <2>1. AllServed(dict, over, s) \in ClosedSets
    BY AllServedClosed
  <2> DEFINE A == AllServed(dict, over, s)
  <2>2. A \in {S \in ClosedSets : \A k \in S : ServedBy(more, over2, s, k)}
    BY <1>1, <2>1
  <2> QED
    BY <2>2 DEF AllServed
<1>3. ASSUME NEW a, a.serializer = s, Through(dict, over, a) PROVE Through(more, over2, a)
  <2>1. /\ AllServed(dict, over, a.serializer) \subseteq AllServed(more, over2, a.serializer)
    BY <1>2, <1>3
  <2> QED
    BY <1>3, <2>1 DEF Through
<1> QED
  BY <1>2, <1>3 DEF AllThrough

\* What has gone through nothing has nothing to show.
LEMMA ThroughNothing ==
    ASSUME NEW a \in Build, a.next = 1, a.step = "build", NEW dict, NEW over
    PROVE  Through(dict, over, a)
<1>1. ASSUME NEW i \in DOMAIN Declared(a) PROVE ~Behind(a, i) /\ ~(i < a.next)
  BY DeclaredType DEF Behind
<1> QED
  BY <1>1 DEF Through

\* Stacks: one more activation, the innermost off, the innermost changed.
LEMMA ThroughStacks ==
    ASSUME NEW dict, NEW over, NEW w \in Seq(Activation), AllThrough(dict, over, w),
           NEW a \in Activation, a.op = "build" => Through(dict, over, a)
    PROVE  /\ AllThrough(dict, over, Append(w, a))
           /\ w # <<>> => AllThrough(dict, over, Front(w))
           /\ w # <<>> => AllThrough(dict, over, [w EXCEPT ![Len(w)] = a])
<1>1. AllThrough(dict, over, Append(w, a))
  <2> DEFINE v == Append(w, a)
  <2>1. /\ Len(w) \in Nat /\ Len(v) = Len(w) + 1
        /\ \A n \in 1 .. Len(w) : v[n] = w[n]
        /\ v[Len(w) + 1] = a
    OBVIOUS
  <2> HIDE DEF v
  <2>2. AllThrough(dict, over, v)
    BY <2>1 DEF AllThrough
  <2> QED
    BY <2>2 DEF v
<1>2. ASSUME w # <<>> PROVE AllThrough(dict, over, Front(w))
  <2> DEFINE v == Front(w)
  <2>1. Len(w) \in Nat \ {0} /\ Len(v) = Len(w) - 1 /\ \A n \in 1 .. Len(w) - 1 : v[n] = w[n]
    BY <1>2, FrontProperties, EmptySeq
  <2> HIDE DEF v
  <2>2. \A n \in 1 .. Len(v) : n \in 1 .. Len(w) /\ v[n] = w[n]
    BY <2>1
  <2>3. AllThrough(dict, over, v)
    BY <2>2 DEF AllThrough
  <2> QED
    BY <2>3 DEF v
<1>3. ASSUME w # <<>> PROVE AllThrough(dict, over, [w EXCEPT ![Len(w)] = a])
  <2> DEFINE v == [w EXCEPT ![Len(w)] = a]
  <2>1. Len(w) \in Nat \ {0}
    BY <1>3, EmptySeq
  <2>2. Len(v) = Len(w) /\ \A n \in 1 .. Len(w) : v[n] = IF n = Len(w) THEN a ELSE w[n]
    BY <2>1
  <2> HIDE DEF v
  <2>3. AllThrough(dict, over, v)
    BY <2>1, <2>2 DEF AllThrough
  <2> QED
    BY <2>3 DEF v
<1> QED
  BY <1>1, <1>2, <1>3

\* The thread at work, all of whose builds are for one serializer.
LEMMA TheOneGoesThrough ==
    ASSUME OneThread, BuildInv, NEW t \in Threads, NEW w, work' = [work EXCEPT ![t] = w],
           AllThrough(dependencies', overrides', w)
    PROVE  ThroughInv'
<1>1. work'[t] = w
  BY DEF BuildInv
<1>2. \A u \in Threads : u = t
  BY DEF OneThread
<1> QED
  BY <1>1, <1>2 DEF ThroughInv

\* The empty stack has gone through everything.
LEMMA EmptyThrough == ASSUME NEW dict, NEW over PROVE AllThrough(dict, over, <<>>)
BY EmptySeq DEF AllThrough

\* The steps that start or end all a thread does.
LEMMA CallsThrough ==
    ASSUME OneThread, BuildInv, NEW t \in Threads,
           Inject(t) \/ CallOverride(t) \/ Drop(t) \/ Raise(t) \/ InjectReturns(t)
    PROVE  ThroughInv'
<1>0. <<>> \in Seq(Activation)
  OBVIOUS
<1>1. CASE Inject(t)
  <2>1. PICK f \in Decorated, s \in Serializers : Push(t, <<>>, Root(f, s, TRUE))
    BY <1>1 DEF Inject
  <2> DEFINE b == Root(f, s, TRUE)
  <2>2. b \in Build /\ b \in Activation
    BY AsyncAssumption, RootOK DEF Activation
  <2>3. Through(dependencies', overrides', b)
    <3>1. b.next = 1 /\ b.step = "build"
      BY DEF Root
    <3> HIDE DEF b
    <3> QED
      BY <2>2, <3>1, ThroughNothing
  <2>4. AllThrough(dependencies', overrides', Append(<<>>, b))
    <3> HIDE DEF b
    <3> QED
      BY <1>0, <2>2, <2>3, EmptyThrough, ThroughStacks
  <2> QED
    BY <2>1, <2>4, TheOneGoesThrough DEF Push
<1>2. CASE CallOverride(t)
  <2>1. PICK k \in Callables : \E f \in Overriders[k] : Push(t, <<>>, Overriding(k, f))
    BY <1>2 DEF CallOverride
  <2>2. PICK f \in Overriders[k] : Push(t, <<>>, Overriding(k, f))
    BY <2>1
  <2> DEFINE o == Overriding(k, f)
  <2>3. o \in Activation /\ o.op = "override"
    BY DeclAssumption DEF DeclarationsAssumption, Overriding, Activation, Override
  <2>4. AllThrough(dependencies', overrides', Append(<<>>, o))
    <3> HIDE DEF o
    <3> QED
      BY <1>0, <2>3, EmptyThrough, ThroughStacks
  <2> QED
    BY <2>2, <2>4, TheOneGoesThrough DEF Push
<1>3. CASE Drop(t)
  <2>1. \A u \in Threads : work'[u] = <<>>
    BY <1>3 DEF Drop, OneThread
  <2> QED
    BY <2>1, EmptyThrough DEF ThroughInv
<1>4. CASE Raise(t) \/ InjectReturns(t)
  BY <1>4, EmptyThrough, TheOneGoesThrough DEF Raise, InjectReturns
<1> QED
  BY <1>1, <1>2, <1>3, <1>4

\* A build that is complete has gone through all its callable declares.
LEMMA CompleteThrough ==
    ASSUME NEW dict, NEW over, NEW b \in Build, Through(dict, over, b),
           b.next > Len(Declared(b))
    PROVE  /\ Uses(b.call) \subseteq AllServed(dict, over, b.serializer)
           /\ \A i \in DOMAIN Declared(b) :
                 Uses(Key(Declared(b)[i])) \subseteq AllServed(dict, over, b.serializer)
<1>1. ASSUME NEW i \in DOMAIN Declared(b) PROVE i < b.next /\ Behind(b, i)
  <2>1. i \in 1 .. Len(Declared(b)) /\ Len(Declared(b)) \in Nat /\ b.next \in Nat
    BY DeclaredType DEF Build
  <2> QED
    BY <2>1 DEF Behind
<1>2. ASSUME NEW i \in DOMAIN Depends[b.call]
      PROVE  Key(Depends[b.call][i]) \in AllServed(dict, over, b.serializer)
  <2>1. i \in DOMAIN Declared(b) /\ Declared(b)[i] = Depends[b.call][i]
    BY DeclaredType
  <2>2. Depends[b.call] \in Seq(Dependant)
    BY DeclAssumption DEF DeclarationsAssumption, Build
  <2>3. i <= Len(Depends[b.call])
    BY <2>2
  <2> QED
    BY <1>1, <2>1, <2>3 DEF Through
<1> QED
  BY <1>1, <1>2 DEF Through, Uses

\* The steps of build_call_model(): a model that is registered has its parameters behind
\* it, and when it has been checked is served with them.
LEMMA BuildsThrough ==
    ASSUME OneThread, BuildInv, SerializerInv, ThroughInv, NEW t \in Threads,
           BuildDependency(t) \/ Register(t) \/ Rebuild(t) \/ Check(t)
    PROVE  ThroughInv'
<1> DEFINE b == Doing(t)
           w == work[t]
<1>1. PICK s \in Serializers : StackFor(dependencies, overrides, s, w)
  BY DEF SerializerInv
<1>2. /\ w # <<>> /\ b.op = "build"
      /\ StackOK(dependencies, w) /\ w \in Seq(Activation) /\ Len(w) \in Nat \ {0}
      /\ b = w[Len(w)] /\ b \in Build /\ ActivationOK(dependencies, b)
  <2>1. w # <<>> /\ b.op = "build"
    BY DEF BuildDependency, Register, Complete, Rebuild, Check, In
  <2> QED
    BY <2>1, Innermost, Operation
<1>3. /\ \A n \in 1 .. Len(w) : w[n].op = "build" => w[n].serializer = s
      /\ ActivationFor(dependencies, s, b) /\ b.serializer = s
      /\ InnermostFor(dependencies, overrides, s, b, Len(w))
  BY <1>1, <1>2 DEF StackFor, AllFor, ActivationFor
<1>4. AllThrough(dependencies, overrides, w) /\ Through(dependencies, overrides, b)
  BY <1>2 DEF ThroughInv, AllThrough
<1>5. CASE BuildDependency(t)
  <2> DEFINE c == Child(b, Declared(b)[b.next])
  <2>1. CASE Refused(c)
    BY <1>5, <2>1, CallsThrough DEF BuildDependency, Declaration
  <2>2. CASE ~Refused(c)
    <3>1. /\ work' = [work EXCEPT ![t] = Append(w, c)]
          /\ dependencies' = dependencies /\ overrides' = overrides
      BY <1>5, <2>2 DEF BuildDependency, Declaration, Push, registry
    <3>2. b.next \in DOMAIN Declared(b) /\ b.step = "build"
      BY <1>2, <1>5, DeclaredType DEF BuildDependency, In, Build
    <3>3. c \in Build /\ c \in Activation
      BY <1>2, <2>2, <3>2, ChildOK DEF Activation
    <3>4. c.step = "build" /\ c.next = 1
      BY DEF Child
    <3>5. AllThrough(dependencies, overrides, Append(w, c))
      <4> HIDE DEF c
      <4>1. Through(dependencies, overrides, c)
        BY <3>3, <3>4, ThroughNothing
      <4> QED
        BY <1>2, <1>4, <3>3, <4>1, ThroughStacks
    <3> QED
      BY <3>1, <3>5, TheOneGoesThrough
  <2> QED
    BY <2>1, <2>2
<1>6. CASE Register(t)
  <2> DEFINE v == Front(w)
             a == Within(t)
             c == [a EXCEPT !.step = "registered"]
  <2>1. /\ Complete(t) /\ Len(w) > 1 /\ a.op = "build"
        /\ dependencies' = [dependencies EXCEPT ![b.call] = Model(b)] /\ overrides' = overrides
        /\ work' = [work EXCEPT ![t] = Resume(v, "registered")]
    BY <1>6 DEF Register
  <2>2. /\ v # <<>> /\ a = v[Len(v)] /\ v \in Seq(Activation)
        /\ Len(v) = Len(w) - 1 /\ a \in Build /\ Called(a, b)
    BY <1>2, <2>1, CalledFrom, Operation DEF StackOK
  <2>3. Model(b) \in CallModel /\ Model(b).serializer = s /\ b.call \in Callables
    BY <1>2, <1>3, <2>1, Completed DEF Model, Build
  <2>4. \A k \in Callables : dependencies'[k] = dependencies[k] \/ BuiltFor(dependencies', s, k)
    BY <2>1, <2>3, NoModelAssumption DEF BuiltFor, BuildInv, ProviderTypeOK, Dict
  <2>5. /\ AllThrough(dependencies, overrides, v) /\ Through(dependencies, overrides, a)
        /\ \A n \in 1 .. Len(v) : v[n].op = "build" => v[n].serializer = s
        /\ a.serializer = s
    <3>1. AllThrough(dependencies, overrides, v)
      BY <1>2, <1>4, ThroughStacks DEF Activation
    <3>2. \A n \in 1 .. Len(w) - 1 : v[n] = w[n]
      BY <1>2, FrontOK
    <3>3. Len(v) \in 1 .. Len(v)
      BY <2>2, EmptySeq
    <3> HIDE DEF v, a
    <3>4. \A n \in 1 .. Len(v) : n \in 1 .. Len(w) /\ v[n] = w[n]
      BY <1>2, <2>2, <3>2
    <3> QED
      BY <1>3, <2>1, <2>2, <3>1, <3>3, <3>4 DEF AllThrough
  <2>6. /\ AllThrough(dependencies', overrides', v) /\ Through(dependencies', overrides', a)
        /\ Through(dependencies', overrides', b)
    <3>1. \A k \in Callables : overrides'[k] = overrides[k] \/ overrides'[k].serializer = s
      BY <2>1
    <3> HIDE DEF v, a, b
    <3> QED
      BY <1>3, <1>4, <2>4, <2>5, <3>1, ThroughStays
  <2>7. Uses(b.call) \subseteq AllServed(dependencies', overrides', s)
    <3>1. b.next > Len(Declared(b))
      BY <2>1 DEF Complete
    <3> QED
      BY <1>2, <1>3, <2>6, <3>1, CompleteThrough
  <2>8. /\ c \in Build /\ c \in Activation /\ c.op = "build" /\ c.step = "registered"
        /\ c.call = a.call /\ c.serializer = s /\ c.main = a.main /\ c.next = a.next
        /\ Declared(c) = Declared(a)
    <3>1. a \in Build /\ a.serializer = s
      BY <2>2, <2>5
    <3> HIDE DEF a
    <3> QED
      BY <3>1 DEF Build, Activation, Declared
  <2>9. b.call = Key(Declared(a)[a.next]) /\ a.step = "build"
    BY <1>2, <2>1, <2>2 DEF Called
  <2>10. Through(dependencies', overrides', c)
    <3> HIDE DEF c, a, b
    <3>1. ASSUME NEW i \in DOMAIN Declared(c), Behind(c, i)
          PROVE  Uses(Key(Declared(c)[i])) \subseteq AllServed(dependencies', overrides', s)
      <4>1. CASE i = a.next
        BY <2>7, <2>8, <2>9, <4>1
      <4>2. CASE i # a.next
        BY <2>5, <2>6, <2>8, <3>1, <4>2 DEF Through, Behind
      <4> QED
        BY <4>1, <4>2
    <3>2. ASSUME NEW i \in DOMAIN Declared(c), i < c.next, i <= Len(Depends[c.call])
          PROVE  Key(Declared(c)[i]) \in AllServed(dependencies', overrides', s)
      BY <2>5, <2>6, <2>8, <3>2 DEF Through
    <3> QED
      BY <2>8, <3>1, <3>2 DEF Through
  <2>11. Resume(v, "registered") = [v EXCEPT ![Len(v)] = c]
    BY <2>2, SetStep DEF Resume
  <2>12. AllThrough(dependencies', overrides', Resume(v, "registered"))
    <3>1. \A n \in {c} : n \in Activation /\ (n.op = "build" => Through(dependencies', overrides', n))
      BY <2>8, <2>10
    <3> HIDE DEF c, v
    <3>2. AllThrough(dependencies', overrides', [v EXCEPT ![Len(v)] = c])
      BY <2>2, <2>6, <3>1, ThroughStacks
    <3> QED
      BY <2>11, <3>2
  <2> QED
    BY <2>1, <2>12, TheOneGoesThrough
<1>7. CASE Rebuild(t)
  <2> DEFINE k == DeclaredKey(b)
             o == Overriding(k, overrides[k].call)
             c == [b EXCEPT !.step = "check"]
             v == [w EXCEPT ![Len(w)] = c]
             stale == /\ b.next <= Len(Depends[b.call])
                      /\ overrides[k] # NoModel
                      /\ overrides[k].serializer # s
  <2>1. /\ b.step = "registered" /\ dependencies' = dependencies /\ overrides' = overrides
        /\ work' = [work EXCEPT ![t] = IF stale THEN Append(Become(t, "check"), o)
                                                ELSE Become(t, "check")]
    BY <1>3, <1>7 DEF Rebuild, In, Push, registry, DeclaredKey, Declaration
  <2>2. Become(t, "check") = v
    BY <1>2, SetStep DEF Become
  <2>3. /\ c \in Activation /\ c.op = "build" /\ c.serializer = b.serializer /\ c.step = "check"
        /\ c.call = b.call /\ c.next = b.next /\ Declared(c) = Declared(b)
    BY <1>2 DEF Build, Activation, Declared
  <2>4. Through(dependencies, overrides, c)
    <3> HIDE DEF b, c
    <3> QED
      BY <1>4, <2>1, <2>3 DEF Through, Behind
  <2>5. AllThrough(dependencies, overrides, v) /\ v \in Seq(Activation)
    <3> HIDE DEF c
    <3>1. AllThrough(dependencies, overrides, v)
      BY <1>2, <1>4, <2>3, <2>4, ThroughStacks
    <3>2. v \in Seq(Activation)
      BY <1>2, <2>3
    <3> QED
      BY <3>1, <3>2
  <2> HIDE DEF c, v, o
  <2>6. CASE stale
    <3>1. BuildOK(dependencies, b) /\ b.next \in DOMAIN Declared(b)
      BY <1>2, <2>1 DEF ActivationOK, BuildOK
    <3>2. k \in Callables
      BY <1>2, <3>1, DeclaredType DEF DeclaredKey
    <3>3. overrides[k].call \in Callables
      BY <2>6, <3>2 DEF BuildInv, ProviderTypeOK, Dict, CallModel
    <3>4. o \in Activation /\ o.op = "override"
      BY <3>2, <3>3, DeclAssumption
      DEF o, Overriding, Activation, Override, DeclarationsAssumption
    <3>5. AllThrough(dependencies, overrides, Append(v, o))
      BY <2>5, <3>4, ThroughStacks
    <3> QED
      BY <2>1, <2>2, <2>6, <3>5, TheOneGoesThrough
  <2>7. CASE ~stale
    BY <2>1, <2>2, <2>5, <2>7, TheOneGoesThrough
  <2> QED
    BY <2>6, <2>7
<1>8. CASE Check(t)
  <2> DEFINE k == DeclaredKey(b)
             c == [b EXCEPT !.step = "build", !.next = @ + 1]
             v == [w EXCEPT ![Len(w)] = c]
  <2>1. b.step = "check"
    BY <1>8 DEF Check, In
  <2>2. CASE Raise(t)
    BY <2>2, CallsThrough
  <2>3. CASE ~Raise(t)
    <3>1. /\ work' = [work EXCEPT ![t] = v]
          /\ dependencies' = dependencies /\ overrides' = overrides
      <4>1. /\ work' = [work EXCEPT ![t][Len(work[t])] = c]
            /\ dependencies' = dependencies /\ overrides' = overrides
        BY <1>8, <2>3 DEF Check, registry
      <4> QED
        BY <4>1
    <3>2. b.next \in DOMAIN Declared(b) /\ b.next \in Nat \ {0}
      BY <1>2, <2>1 DEF ActivationOK, BuildOK, Build
    <3>3. k \in Callables /\ BuiltFor(dependencies, s, k)
      BY <1>2, <1>3, <2>1, <3>2, DeclaredType DEF DeclaredKey, ActivationFor
    <3>4. Uses(k) \subseteq AllServed(dependencies, overrides, s)
      <4>1. Behind(b, b.next)
        BY <2>1 DEF Behind
      <4> HIDE DEF b
      <4> QED
        BY <1>3, <1>4, <3>2, <4>1 DEF Through, DeclaredKey
    <3>5. ASSUME b.next <= Len(Depends[b.call])
          PROVE  k \in AllServed(dependencies, overrides, s)
      <4>1. overrides[k] = NoModel \/ overrides[k].serializer = s
        BY <1>2, <1>3, <2>1, <3>5 DEF InnermostFor
      <4>2. ServedBy(dependencies, overrides, s, k)
        BY <3>3, <4>1 DEF ServedBy
      <4> QED
        BY <3>3, <3>4, <4>2, AllServedClosed
    <3>6. /\ c \in Activation /\ c.op = "build" /\ c.serializer = s /\ c.step = "build"
          /\ c.call = b.call /\ c.next = b.next + 1 /\ Declared(c) = Declared(b)
      <4>1. b \in Build /\ b.serializer = s /\ b.next + 1 \in Nat \ {0}
        BY <1>2, <1>3, <3>2
      <4> HIDE DEF b
      <4>2. /\ c \in Build /\ c.op = "build" /\ c.serializer = s /\ c.step = "build"
            /\ c.call = b.call /\ c.next = b.next + 1 /\ c.main = b.main
        BY <4>1 DEF Build
      <4> HIDE DEF c
      <4> QED
        BY <4>2 DEF Activation, Declared
    <3>7. ASSUME NEW i \in DOMAIN Declared(b), i < b.next + 1 PROVE i < b.next \/ i = b.next
      BY <1>2, <3>2, <3>7, DeclaredType
    <3>8. Through(dependencies, overrides, c)
      <4>1. ASSUME NEW i \in DOMAIN Declared(c), Behind(c, i)
            PROVE  Uses(Key(Declared(c)[i])) \subseteq AllServed(dependencies, overrides, s)
        <5> HIDE DEF b, c
        <5>1. i < b.next \/ i = b.next
          BY <3>6, <3>7, <4>1 DEF Behind
        <5> QED
          BY <1>3, <1>4, <2>1, <3>6, <5>1 DEF Through, Behind
      <4>2. ASSUME NEW i \in DOMAIN Declared(c), i < c.next, i <= Len(Depends[c.call])
            PROVE  Key(Declared(c)[i]) \in AllServed(dependencies, overrides, s)
        <5> HIDE DEF b, c
        <5>1. i < b.next \/ i = b.next
          BY <3>6, <3>7, <4>2
        <5> QED
          BY <1>3, <1>4, <3>5, <3>6, <4>2, <5>1 DEF Through, DeclaredKey
      <4> HIDE DEF b, c
      <4> QED
        BY <3>6, <4>1, <4>2 DEF Through
    <3>9. AllThrough(dependencies, overrides, v)
      <4> HIDE DEF c
      <4> QED
        BY <1>2, <1>4, <3>6, <3>8, ThroughStacks
    <3> QED
      BY <3>1, <3>9, TheOneGoesThrough
  <2> QED
    BY <2>2, <2>3
<1> QED
  BY <1>5, <1>6, <1>7, <1>8

\* The steps of override() build nothing further, and store for the serializer of the
\* builds that wait for them.
LEMMA OverridesThrough ==
    ASSUME OneThread, BuildInv, SerializerInv, ThroughInv, NEW t \in Threads,
           LookUpOriginal(t) \/ StoreOriginal(t) \/ StoreOverride(t)
    PROVE  ThroughInv'
<1> DEFINE b == Doing(t)
           w == work[t]
<1>0. NoSerializer \in Serializers
  BY DeclAssumption DEF DeclarationsAssumption
<1>1. PICK s \in Serializers : StackFor(dependencies, overrides, s, w)
  BY DEF SerializerInv
<1>2. /\ w # <<>> /\ StackOK(dependencies, w) /\ w \in Seq(Activation) /\ Len(w) \in Nat \ {0}
      /\ b = w[Len(w)] /\ b \in Activation
  <2>1. w # <<>>
    BY DEF LookUpOriginal, StoreOriginal, StoreOverride, Complete, In
  <2> QED
    BY <2>1, Innermost
<1>3. /\ \A n \in 1 .. Len(w) : w[n].op = "build" => w[n].serializer = s
      /\ \A n \in 1 .. Len(w) : ActivationFor(dependencies, s, w[n])
      /\ AllThrough(dependencies, overrides, w)
  BY <1>1 DEF StackFor, AllFor, ActivationFor, ThroughInv
\* What is then on the stack, when c is what override() has become and f is built.
<1>4. ASSUME NEW dict, NEW over, NEW x \in Serializers, NEW f \in Callables,
             NEW v \in Seq(Activation), v # <<>>, NEW c \in Override, AllThrough(dict, over, v)
      PROVE  AllThrough(dict, over, Append([v EXCEPT ![Len(v)] = c], Root(f, x, FALSE)))
  <2>1. c \in Activation /\ c.op # "build"
    BY <1>4 DEF Override, Activation
  <2> DEFINE r == Root(f, x, FALSE)
             u == [v EXCEPT ![Len(v)] = c]
  <2>2. r \in Build /\ r \in Activation
    BY <1>4, RootOK DEF Activation
  <2>3. r.next = 1 /\ r.step = "build"
    BY DEF Root
  <2> HIDE DEF r
  <2>4. Through(dict, over, r)
    BY <2>2, <2>3, ThroughNothing
  <2>5. AllThrough(dict, over, u)
    BY <1>4, <2>1, ThroughStacks
  <2>6. u \in Seq(Activation)
    BY <1>4, <2>1, EmptySeq
  <2> HIDE DEF u
  <2>7. AllThrough(dict, over, Append(u, r))
    BY <2>2, <2>4, <2>5, <2>6, ThroughStacks
  <2> QED
    BY <2>7 DEF u, r
<1>5. CASE LookUpOriginal(t)
  <2> DEFINE found == dependencies[b.original]
  <2>1. /\ b.op = "override" /\ b.step = "look"
        /\ dependencies' = dependencies /\ overrides' = overrides
    BY <1>5 DEF LookUpOriginal, In, registry
  <2>2. b \in Override /\ b.original \in Callables /\ b.override \in Callables
    BY <1>2, <2>1, Operation DEF Override
  <2>3. CASE found # NoModel
    <3> DEFINE c == [b EXCEPT !.step = "override", !.serializer = found.serializer]
               u == Append([w EXCEPT ![Len(w)] = c], Root(b.override, found.serializer, FALSE))
    <3>1. found.serializer \in Serializers
      BY <2>2, <2>3 DEF BuildInv, ProviderTypeOK, Dict, CallModel
    <3>2. c \in Override
      BY <2>2, <3>1 DEF Override
    <3>3. [Become(t, "override") EXCEPT ![Len(work[t])].serializer = found.serializer]
              = [w EXCEPT ![Len(w)] = c]
      BY <1>2 DEF Become
    <3>4. work' = [work EXCEPT ![t] = u]
      BY <1>5, <2>3, <3>3 DEF LookUpOriginal, Push
    <3>5. AllThrough(dependencies, overrides, u)
      <4> HIDE DEF c, w, b
      <4> QED
        BY <1>2, <1>3, <1>4, <2>2, <3>1, <3>2
    <3> HIDE DEF u
    <3> QED
      BY <2>1, <3>4, <3>5, TheOneGoesThrough
  <2>4. CASE found = NoModel
    <3> DEFINE c == [b EXCEPT !.step = "original"]
               u == Append([w EXCEPT ![Len(w)] = c], Root(b.original, NoSerializer, FALSE))
    <3>1. c \in Override
      BY <2>2 DEF Override
    <3>2. Become(t, "original") = [w EXCEPT ![Len(w)] = c]
      BY <1>2 DEF Become
    <3>3. work' = [work EXCEPT ![t] = u]
      BY <1>5, <2>4, <3>2 DEF LookUpOriginal, Push
    <3>4. AllThrough(dependencies, overrides, u)
      <4> HIDE DEF c, w, b
      <4> QED
        BY <1>0, <1>2, <1>3, <1>4, <2>2, <3>1
    <3> HIDE DEF u
    <3> QED
      BY <2>1, <3>3, <3>4, TheOneGoesThrough
  <2> QED
    BY <2>3, <2>4
<1>6. ASSUME Complete(t), Len(w) > 1, Within(t).op = "override"
      PROVE  LET o == Within(t)  v == Front(w)
             IN  /\ b \in Build /\ b.serializer = s /\ Model(b) \in CallModel
                 /\ Model(b).serializer = s
                 /\ o \in Override /\ ActivationFor(dependencies, s, o)
                 /\ StackOK(dependencies, v) /\ v \in Seq(Activation) /\ v # <<>>
                 /\ o = v[Len(v)] /\ AllThrough(dependencies, overrides, v)
                 /\ \A n \in 1 .. Len(v) : v[n].op = "build" => v[n].serializer = s
  <2> DEFINE o == Within(t)
             v == Front(w)
  <2>1. /\ b \in Build /\ Model(b) \in CallModel /\ o \in Override
        /\ StackOK(dependencies, v) /\ v # <<>> /\ o = v[Len(v)]
    BY <1>6, Overridden
  <2>2. v \in Seq(Activation) /\ Len(v) \in 1 .. Len(v)
    BY <2>1, EmptySeq DEF StackOK
  <2>3. b.serializer = s
    <3>1. b.op = "build"
      BY <2>1 DEF Build
    <3>2. Len(w) \in 1 .. Len(w)
      BY <1>2
    <3> QED
      BY <1>2, <1>3, <3>1, <3>2
  <2>4. Len(v) = Len(w) - 1 /\ \A n \in 1 .. Len(w) - 1 : v[n] = w[n]
    BY <1>2, FrontOK
  <2>5. AllThrough(dependencies, overrides, v)
    <3>1. Through(dependencies, overrides, b)
      <4>1. b.op = "build" /\ Len(w) \in 1 .. Len(w)
        BY <1>2, <2>1 DEF Build
      <4> QED
        BY <1>2, <1>3, <4>1 DEF AllThrough
    <3> QED
      BY <1>2, <1>3, <3>1, ThroughStacks
  <2> HIDE DEF v, o
  <2>6. \A n \in 1 .. Len(v) : n \in 1 .. Len(w) /\ v[n] = w[n]
    BY <1>2, <2>4
  <2>7. \A n \in 1 .. Len(v) : v[n].op = "build" => v[n].serializer = s
    BY <1>3, <2>6
  <2>8. ActivationFor(dependencies, s, o)
    BY <1>3, <2>1, <2>2, <2>6
  <2>9. Model(b).serializer = s
    BY <2>3 DEF Model
  <2> QED
    BY <2>1, <2>2, <2>3, <2>5, <2>7, <2>8, <2>9 DEF v, o
<1>7. CASE StoreOriginal(t)
  <2> DEFINE o == Within(t)
             v == Front(w)
             c == [o EXCEPT !.step = "override"]
             u == Append([v EXCEPT ![Len(v)] = c], Root(o.override, NoSerializer, FALSE))
  <2>1. /\ Complete(t) /\ Len(w) > 1 /\ o.op = "override" /\ o.step = "original"
        /\ dependencies' = [dependencies EXCEPT ![o.original] = Model(b)]
        /\ work' = [work EXCEPT ![t] =
                       Append(Resume(v, "override"), Root(o.override, NoSerializer, FALSE))]
        /\ overrides' = overrides
    BY <1>7 DEF StoreOriginal, Push
  <2>2. /\ Model(b) \in CallModel /\ Model(b).serializer = s /\ o \in Override
        /\ v \in Seq(Activation) /\ v # <<>> /\ o = v[Len(v)]
        /\ AllThrough(dependencies, overrides, v)
        /\ \A n \in 1 .. Len(v) : v[n].op = "build" => v[n].serializer = s
    BY <1>6, <2>1
  <2>3. o.original \in Callables /\ o.override \in Callables
    BY <2>2 DEF Override
  <2>4. \A k \in Callables : dependencies'[k] = dependencies[k] \/ BuiltFor(dependencies', s, k)
    BY <2>1, <2>2, <2>3, NoModelAssumption DEF BuiltFor, BuildInv, ProviderTypeOK, Dict
  <2>5. AllThrough(dependencies', overrides', v)
    <3>1. \A k \in Callables : overrides'[k] = overrides[k] \/ overrides'[k].serializer = s
      BY <2>1
    <3> HIDE DEF v
    <3> QED
      BY <2>2, <2>4, <3>1, ThroughStays
  <2>6. c \in Override
    BY <2>2 DEF Override
  <2>7. Resume(v, "override") = [v EXCEPT ![Len(v)] = c]
    BY <2>2, SetStep DEF Resume
  <2>8. AllThrough(dependencies', overrides', u)
    <3> HIDE DEF c, v, o
    <3> QED
      BY <1>0, <1>4, <2>2, <2>3, <2>5, <2>6
  <2>9. work' = [work EXCEPT ![t] = u]
    BY <2>1, <2>7
  <2> HIDE DEF u
  <2> QED
    BY <2>8, <2>9, TheOneGoesThrough
<1>8. CASE StoreOverride(t)
  <2> DEFINE o == Within(t)
             v == Front(w)
             u == Front(v)
  <2>1. /\ Complete(t) /\ Len(w) > 1 /\ o.op = "override"
        /\ overrides' = [overrides EXCEPT ![o.original] = Model(b)]
        /\ work' = [work EXCEPT ![t] = u] /\ dependencies' = dependencies
    BY <1>8 DEF StoreOverride
  <2>2. /\ Model(b) \in CallModel /\ Model(b).serializer = s /\ o \in Override
        /\ v \in Seq(Activation) /\ v # <<>> /\ o = v[Len(v)]
        /\ AllThrough(dependencies, overrides, v)
        /\ \A n \in 1 .. Len(v) : v[n].op = "build" => v[n].serializer = s
    BY <1>6, <2>1
  <2>3. \A k \in Callables : overrides'[k] = overrides[k] \/ overrides'[k].serializer = s
    BY <2>1, <2>2 DEF BuildInv, ProviderTypeOK, Dict
  <2>4. AllThrough(dependencies', overrides', v)
    <3>1. \A k \in Callables : dependencies'[k] = dependencies[k]
      BY <2>1
    <3> HIDE DEF v
    <3> QED
      BY <2>2, <2>3, <3>1, ThroughStays
  <2>5. AllThrough(dependencies', overrides', u)
    <3>1. o \in Activation /\ o.op # "build"
      BY <2>2 DEF Override, Activation
    <3> HIDE DEF v
    <3> QED
      BY <2>2, <2>4, <3>1, ThroughStacks
  <2> HIDE DEF u
  <2> QED
    BY <2>1, <2>5, TheOneGoesThrough
<1> QED
  BY <1>5, <1>7, <1>8

\* Every step of the one thread.
LEMMA ThroughStep ==
    ASSUME OneThread, BuildInv, SerializerInv, ThroughInv, [BuildNext]_buildVars
    PROVE  ThroughInv'
<1>1. ASSUME NEW t \in Threads, Inject(t) \/ CallOverride(t) \/ Drop(t) \/ Continue(t)
      PROVE  ThroughInv'
  BY <1>1, CallsThrough, BuildsThrough, OverridesThrough DEF Continue
<1>2. CASE UNCHANGED buildVars
  BY <1>2 DEF buildVars, registry, ThroughInv
<1> QED
  BY <1>1, <1>2 DEF BuildNext

\* "Rebuild override model in case of a different serializer class": when inject() returns
\* to the only thread, whatever is found for what the parameters of its function and of its
\* extras declare, at every depth, was built for its serializer (builder.py:167-172,
\* 296-305).
THEOREM ServedForCorrect == OneThread /\ BuilderSpec => ServedFor
<1>1. OneThread /\ BuildInit => SerializerInv /\ ThroughInv
  <2>1. NoSerializer \in Serializers
    BY DeclAssumption DEF DeclarationsAssumption
  <2> QED
    BY <2>1, NothingFor, EmptyThrough DEF BuildInit, SerializerInv, ThroughInv
<1>2. ASSUME OneThread, BuildInv, SerializerInv, ThroughInv, NEW t \in Threads, InjectReturns(t),
             NEW g \in ParametersBelow[Doing(t).call]
      PROVE  GetDependant(Live, g).serializer = Doing(t).serializer
  <2> DEFINE b == Doing(t)
             A == AllServed(dependencies, overrides, b.serializer)
  <2>1. Complete(t) /\ Len(work[t]) = 1
    BY <1>2 DEF InjectReturns
  <2>2. /\ work[t] # <<>> /\ b \in Build /\ b.op = "build" /\ b.next > Len(Declared(b))
        /\ b.call \in Callables
    BY <1>2, <2>1, Completed DEF Complete, In, Build
  <2>3. StackOK(dependencies, work[t]) /\ b = work[t][1]
    BY <1>2, <2>1, <2>2, Innermost
  <2>4. b.main
    BY <2>2, <2>3 DEF StackOK
  <2>5. Through(dependencies, overrides, b)
    <3>1. AllThrough(dependencies, overrides, work[t])
      BY <1>2 DEF ThroughInv
    <3> QED
      BY <2>1, <2>2, <2>3, <3>1 DEF AllThrough
  <2> HIDE DEF b
  <2>6. /\ Uses(b.call) \subseteq A
        /\ \A i \in DOMAIN Declared(b) : Uses(Key(Declared(b)[i])) \subseteq A
    BY <2>2, <2>5, CompleteThrough
  <2>7. \A i \in DOMAIN Extras[b.call] : Uses(Key(Extras[b.call][i])) \subseteq A
    BY <2>2, <2>4, <2>6, DeclaredType
  <2>8. A \in ClosedSets /\ \A k \in A : ServedBy(dependencies, overrides, b.serializer, k)
    BY AllServedClosed
  <2> HIDE DEF A
  <2>9. g \in A
    <3>1. g \in ParametersBelow[b.call]
      BY <1>2 DEF b
    <3>2. Uses(b.call) \cup UNION {Uses(Key(Extras[b.call][i])) : i \in DOMAIN Extras[b.call]}
              \subseteq A
      BY <2>6, <2>7
    <3> QED
      BY <2>2, <2>8, <3>1, <3>2 DEF ParametersBelow
  <2>10. ServedBy(dependencies, overrides, b.serializer, g)
    BY <2>8, <2>9
  <2> QED
    BY <2>10 DEF ServedBy, BuiltFor, GetDependant, Live, b
<1>3. OneThread /\ BuildInv /\ SerializerInv /\ ThroughInv /\ [BuildNext]_buildVars
          => [\A t \in Threads : InjectReturns(t) =>
                 \A g \in ParametersBelow[Doing(t).call] :
                     GetDependant(Live, g).serializer = Doing(t).serializer]_buildVars
  BY <1>2
<1>4. /\ OneThread /\ BuildInv /\ SerializerInv /\ [BuildNext]_buildVars => SerializerInv'
      /\ OneThread /\ BuildInv /\ SerializerInv /\ ThroughInv /\ [BuildNext]_buildVars
             => ThroughInv'
  BY SerializerStep, ThroughStep
<1>5. SUFFICES ASSUME OneThread PROVE BuilderSpec => ServedFor
  OBVIOUS
<1> QED
  BY <1>1, <1>3, <1>4, <1>5, BuilderInvariant, PTL DEF BuilderSpec, ServedFor
================================================================================
